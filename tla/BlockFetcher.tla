---------------------------- MODULE BlockFetcher ----------------------------
(***************************************************************************)
(* The block fetcher of src/ndn/eth/blockfetcher.go: announcements become  *)
(* works with a header job and a body job on fpool, the job that finds     *)
(* both parts assembles the block, and the goroutine loop inserts fetched  *)
(* blocks by number.  Workers of fpool, the loop, peers that push whole    *)
(* blocks and the chain syncer run concurrently.                           *)
(*                                                                         *)
(* A block is its number: forks, the verification of headers and their     *)
(* propagation are left out.  fpool is used through what JobService        *)
(* promises.                                                               *)
(***************************************************************************)
EXTENDS Naturals, Sequences, FiniteSets

CONSTANTS
  Height,         \* the last block that exists
  Announced,      \* the blocks that are announced,
  Pushed,         \* and those that are pushed
  Works,          \* bound: the works that may be created, 1..n
  MAX_QUEUE_DIST, \* how far ahead of the chain a block may be
  SigCap          \* the capacity of fetchedSig

ASSUME FetcherAssumption ==
  /\ Height \in Nat /\ MAX_QUEUE_DIST \in Nat
  /\ Announced \subseteq 1..Height /\ Pushed \subseteq 1..Height
  /\ Works \subseteq Nat \ {0}
  /\ SigCap \in Nat \ {0}

Blocks == 1..Height
Parts == {"header", "body"}
Announcements == [b : Announced, kind : {"header", "hash"}]

VARIABLES
  height,     \* the number of the current block
  pclosed,    \* fpool.Stop was called
  fetching,   \* the work of each block in the fetching list, 0: none
  fetched,    \* the blocks in the fetched list
  fetchedSig, \* the signals in fetchedSig
  block,      \* the block of each work, 0: not created
  parts,      \* which of header and body a work has
  built,      \* fblock # nil
  err,        \* work.err # nil
  jpc,        \* the place of the header job and of the body job
  lpc, lw,    \* loop: its place, and the work at hand
  upc,        \* update: its place
  early,      \* history: works that are added to the list after a job was done
  aside,      \* history: works whose block an announcement assembled
  moved       \* history: since the loop last turned to the fetched list, the chain
              \* grew so that a block of the list became the next one

wvars == <<block, parts, built, err>>
hist == <<early, aside, moved>>
vars == <<height, pclosed, fetchedSig, fetching, fetched, wvars, jpc, lpc, lw,
          upc, hist>>

\* newblockFetcher, and start
Init ==
  /\ height = 0 /\ pclosed = FALSE
  /\ fetchedSig = 0
  /\ fetching = [b \in Blocks |-> 0] /\ fetched = {}
  /\ block = [w \in Works |-> 0] /\ parts = [w \in Works |-> {}]
  /\ built = {} /\ err = {}
  /\ jpc = [w \in Works |-> [x \in Parts |-> "none"]]
  /\ lpc = "begin" /\ lw = 0 /\ upc = "none"
  /\ early = {} /\ aside = {} /\ moved = FALSE

\* blockFetcher.dead
dead == lpc \in {"begin", "ended"}

\* Too far from the current block.  Old blocks are known ones: MAX_UNCLE_DIST
\* matters for forks only
Strange(b) == b > height + MAX_QUEUE_DIST

-----------------------------------------------------------------------------
(* The environment *)

\* The chain syncer, or the miner, extends the chain
ChainGrows ==
  /\ height < Height
  /\ height' = height + 1
  /\ moved' = (moved \/ height + 2 \in fetched)
  /\ UNCHANGED <<pclosed, fetchedSig, fetching, fetched, wvars, jpc, lpc, lw,
                 upc, early, aside>>

\* fpool.Stop
PoolStop ==
  /\ ~pclosed
  /\ pclosed' = TRUE
  /\ UNCHANGED <<height, fetchedSig, fetching, fetched, wvars, jpc, lpc, lw,
                 upc, hist>>

-----------------------------------------------------------------------------
(* handleFetchedBlock, and update for a block that a peer pushed *)

\* handleFetchedBlock: push and the signal, or the wait for room in the channel
Full == fetchedSig = SigCap

Handle(b) ==
  /\ fetched' = fetched \cup {b}
  /\ fetchedSig' = IF Full THEN fetchedSig ELSE fetchedSig + 1

Update(b) ==
  /\ upc = "none" /\ lpc # "ended" /\ ~Strange(b)
  /\ Handle(b)
  /\ upc' = IF Full THEN "signal" ELSE "none"
  /\ UNCHANGED <<height, pclosed, fetching, wvars, jpc, lpc, lw, hist>>

UpdateSignal ==
  /\ upc = "signal"
  /\ ~Full /\ fetchedSig' = fetchedSig + 1
  /\ upc' = "none"
  /\ UNCHANGED <<height, pclosed, fetching, fetched, wvars, jpc, lpc, lw,
                 hist>>

-----------------------------------------------------------------------------
(* A job: the handler that createHandler made, run by a worker of fpool *)

Place(w, x, l) == jpc' = [jpc EXCEPT ![w][x] = l]

same == <<height, pclosed, lpc, lw, upc, hist>>

\* Mutant: only the body's job builds the block
fetchedBodyBuilds(w, x) ==
  /\ jpc[w][x] = "pool"
  /\ parts' = [parts EXCEPT ![w] = @ \cup {x}]
  /\ Place(w, x, IF x = "body" THEN "build" ELSE "none")
  /\ UNCHANGED <<same, fetchedSig, fetching, fetched, block, built, err>>

\* The part was fetched and decoded: setheader or setbody
Fetched(w, x) ==
  /\ jpc[w][x] = "pool"
  /\ parts' = [parts EXCEPT ![w] = @ \cup {x}]
  /\ Place(w, x, "build")
  /\ UNCHANGED <<same, fetchedSig, fetching, fetched, block, built, err>>

\* fpool was stopped: the job is aborted, or dropped before it ran
Aborted(w, x) ==
  /\ jpc[w][x] = "pool" /\ pclosed
  /\ \/ err' = err \cup {w} /\ Place(w, x, "done")
     \/ Place(w, x, "none") /\ UNCHANGED err
  /\ UNCHANGED <<same, fetchedSig, fetching, fetched, block, parts, built>>

\* refetch after a failure.  Which prefix is left to ask is a choice of the
\* environment: with one, the job is in the pool again; without, or when the
\* pool refuses, the work is done
Refetch(w, x) ==
  /\ jpc[w][x] = "pool"
  /\ \/ pclosed /\ UNCHANGED err
     \/ err' = err \cup {w}
  /\ Place(w, x, "done")
  /\ UNCHANGED <<same, fetchedSig, fetching, fetched, block, parts, built>>

\* buildblock, up to the test: its lock is released at once, so that both jobs
\* may find the block missing
TryBuild(w, x) ==
  /\ jpc[w][x] = "build"
  /\ Place(w, x, IF w \notin built /\ parts[w] = Parts THEN "assemble" ELSE "none")
  /\ UNCHANGED <<same, fetchedSig, fetching, fetched, wvars>>

Assemble(w, x) ==
  /\ jpc[w][x] = "assemble"
  /\ built' = built \cup {w}
  /\ Place(w, x, "done")
  /\ UNCHANGED <<same, fetchedSig, fetching, fetched, block, parts, err>>

\* onWorkDone: hand the block over, or only leave the list
WorkDone(w, x) ==
  /\ jpc[w][x] = "done"
  /\ IF ~dead /\ w \notin err /\ w \in built /\ ~Strange(block[w])
     THEN Handle(block[w]) /\ Place(w, x, IF Full THEN "signal" ELSE "remove")
     ELSE Place(w, x, "remove") /\ UNCHANGED <<fetched, fetchedSig>>
  /\ UNCHANGED <<same, fetching, wvars>>

WorkSignal(w, x) ==
  /\ jpc[w][x] = "signal"
  /\ ~Full /\ fetchedSig' = fetchedSig + 1
  /\ Place(w, x, "remove")
  /\ UNCHANGED <<same, fetching, fetched, wvars>>

\* What the histories say of a work that leaves the list, or was not added yet
Leave(w) ==
  /\ early' = IF lw = w /\ lpc \in {"fetchbody", "addwork"} THEN early \cup {w}
                                                           ELSE early \ {w}
  /\ aside' = aside \ {w}
  /\ UNCHANGED moved

\* Mutant: only a failed work is removed
removeFailed(w, x) ==
  /\ jpc[w][x] = "remove"
  /\ fetching' = IF w \in err THEN [fetching EXCEPT ![block[w]] = 0] ELSE fetching
  /\ Place(w, x, "none")
  /\ Leave(w)
  /\ UNCHANGED <<height, pclosed, lpc, lw, upc, fetchedSig, fetched, wvars>>

\* removework, by the hash
RemoveWork(w, x) ==
  /\ jpc[w][x] = "remove"
  /\ fetching' = [fetching EXCEPT ![block[w]] = 0]
  /\ Place(w, x, "none")
  /\ Leave(w)
  /\ UNCHANGED <<height, pclosed, lpc, lw, upc, fetchedSig, fetched, wvars>>

JobStep(w, x) ==
  \/ Fetched(w, x) \/ Aborted(w, x) \/ Refetch(w, x) \/ TryBuild(w, x)
  \/ Assemble(w, x) \/ WorkDone(w, x) \/ WorkSignal(w, x) \/ RemoveWork(w, x)

-----------------------------------------------------------------------------
(* loop *)

\* Back to the top of the loop, where the fetched list is looked at
Again == lpc' = "insert" /\ lw' = 0 /\ moved' = FALSE

keep == <<height, pclosed, fetched, upc>>

LoopBegin ==
  /\ lpc = "begin"
  /\ Again
  /\ UNCHANGED <<keep, fetchedSig, fetching, wvars, jpc, early, aside>>

\* b is at the front of the fetched list
First(b) == b \in fetched /\ \A c \in fetched : b <= c

\* It is taken, and inserted if it is the next block and valid
Take(b) ==
  /\ fetched' = fetched \ {b}
  /\ IF b = height + 1 THEN height' \in {height, b} ELSE UNCHANGED height

\* Mutant: a known block stops the pass
insertStops ==
  /\ lpc = "insert"
  /\ \/ /\ \A b \in fetched : b > height + 1
        /\ lpc' = "select" /\ UNCHANGED <<height, fetched>>
     \/ \E b \in Blocks :
          First(b) /\ Take(b) /\ lpc' = IF b <= height THEN "select" ELSE lpc
  /\ UNCHANGED <<pclosed, fetchedSig, fetching, wvars, jpc, lw, upc, hist>>

\* insertnext: a future block stays and ends the pass, or is dropped when it is
\* too old; a known one is dropped; the next one is inserted, if it is valid
InsertNext ==
  /\ lpc = "insert"
  /\ \/ /\ \A b \in fetched : b > height + 1
        /\ lpc' = "select" /\ UNCHANGED <<height, fetched>>
     \/ \E b \in Blocks : First(b) /\ Take(b) /\ UNCHANGED lpc
  /\ UNCHANGED <<pclosed, fetchedSig, fetching, wvars, jpc, lw, upc, hist>>

\* case <- f.fetchedSig
OnSignal ==
  /\ lpc = "select" /\ fetchedSig > 0
  /\ fetchedSig' = fetchedSig - 1
  /\ Again
  /\ UNCHANGED <<keep, fetching, wvars, jpc, early, aside>>

\* case <- f.quit: Controller.Stop calls stop when Stop of fpool and of hpool
\* have returned
OnQuit ==
  /\ lpc = "select" /\ pclosed /\ upc = "none"
  /\ \A w \in Works, x \in Parts : jpc[w][x] = "none"
  /\ lpc' = "ended"
  /\ UNCHANGED <<keep, fetchedSig, fetching, wvars, jpc, lw, hist>>

\* Case 1 of processAnnouncement: the block is being fetched.  A header is
\* stored if there was none, then the loop tries to build the block
OnAnnouncedAgain(a) ==
  LET w == fetching[a.b]
  IN /\ IF a.kind = "header"
        THEN /\ parts' = [parts EXCEPT ![w] = @ \cup {"header"}]
             /\ lpc' = "build" /\ lw' = w /\ UNCHANGED moved
        ELSE Again /\ UNCHANGED parts
     /\ UNCHANGED <<block, built, err>>

\* Cases 2 to 4: a known, fetched or strange block
Ignored(a) == a.b <= height \/ a.b \in fetched \/ Strange(a.b)

\* Case 5: a new work
NewWork(a) ==
  \E w \in Works :
    /\ block[w] = 0 /\ \A v \in Works : block[v] = 0 => w <= v
    /\ block' = [block EXCEPT ![w] = a.b]
    /\ parts' = [parts EXCEPT ![w] = IF a.kind = "header" THEN {"header"} ELSE {}]
    /\ lpc' = (IF a.kind = "header" THEN "fetchbody" ELSE "fetchheader")
    /\ lw' = w
    /\ UNCHANGED <<built, err, moved>>

\* Mutant: the fetching list is not looked at
onAnnouncementNew ==
  /\ lpc = "select"
  /\ \E a \in Announcements :
       IF Ignored(a)
       THEN Again /\ UNCHANGED wvars
       ELSE NewWork(a)
  /\ UNCHANGED <<keep, fetchedSig, fetching, jpc, early, aside>>

\* case ann := <- f.annCh, which holds what announce was called with
OnAnnouncement ==
  /\ lpc = "select"
  /\ \E a \in Announcements :
       IF fetching[a.b] # 0 THEN OnAnnouncedAgain(a)
       ELSE IF Ignored(a)
       THEN Again /\ UNCHANGED wvars
       ELSE NewWork(a)
  /\ UNCHANGED <<keep, fetchedSig, fetching, jpc, early, aside>>

\* The loop's own buildblock, whose result nobody handles
LoopBuild ==
  /\ lpc = "build"
  /\ IF lw \notin built /\ parts[lw] = Parts
     THEN lpc' = "assemble" /\ UNCHANGED <<lw, moved>>
     ELSE Again
  /\ UNCHANGED <<keep, fetchedSig, fetching, wvars, jpc, early, aside>>

LoopAssemble ==
  /\ lpc = "assemble"
  /\ built' = built \cup {lw} /\ aside' = aside \cup {lw}
  /\ Again
  /\ UNCHANGED <<keep, fetchedSig, fetching, block, parts, err, jpc, early>>

\* fetch: Submit of the header job; a stopped pool ends the attempt
FetchHeader ==
  /\ lpc = "fetchheader"
  /\ IF pclosed THEN Again /\ UNCHANGED jpc
     ELSE lpc' = "fetchbody" /\ Place(lw, "header", "pool") /\ UNCHANGED <<lw, moved>>
  /\ UNCHANGED <<keep, fetchedSig, fetching, wvars, early, aside>>

\* Submit of the body job
FetchBody ==
  /\ lpc = "fetchbody"
  /\ IF pclosed THEN Again /\ UNCHANGED jpc
     ELSE lpc' = "addwork" /\ Place(lw, "body", "pool") /\ UNCHANGED <<lw, moved>>
  /\ UNCHANGED <<keep, fetchedSig, fetching, wvars, early, aside>>

\* addwork, after the jobs were submitted: they may be over
AddWork ==
  /\ lpc = "addwork"
  /\ fetching' = [fetching EXCEPT ![block[lw]] = lw]
  /\ Again
  /\ UNCHANGED <<keep, fetchedSig, wvars, jpc, early, aside>>

-----------------------------------------------------------------------------
Next ==
  \/ ChainGrows \/ PoolStop
  \/ \E b \in Pushed : Update(b)
  \/ UpdateSignal
  \/ \E w \in Works, x \in Parts : JobStep(w, x)
  \/ LoopBegin \/ InsertNext \/ OnSignal \/ OnQuit \/ OnAnnouncement
  \/ LoopBuild \/ LoopAssemble \/ FetchHeader \/ FetchBody \/ AddWork

Spec == Init /\ [][Next]_vars

-----------------------------------------------------------------------------
(* Properties *)

\* Whoever stores the second part of a block, one of the two jobs or the loop,
\* finds the first one: the block is assembled
PartsMeet ==
  \A w \in Works :
    /\ parts[w] = Parts
    /\ \A x \in Parts : jpc[w][x] \notin {"build", "assemble"}
    /\ ~(lw = w /\ lpc \in {"build", "assemble"})
    => w \in built

\* A block that can be inserted is never left in the list while the loop sleeps,
\* unless the chain grew, which wakes nobody up
Awake ==
  lpc = "select" /\ (\E b \in fetched : b <= height + 1) =>
    \/ fetchedSig > 0 \/ upc = "signal" \/ moved
    \/ \E w \in Works, x \in Parts : jpc[w][x] = "signal"

\* The fetching list holds no work that is over, whose block could then never be
\* fetched again.  There are two exceptions: the work ended before addwork, and
\* the loop assembled its block
ListedIsAlive ==
  \A b \in Blocks :
    LET w == fetching[b]
    IN w # 0 => \/ w \in early \cup aside \/ pclosed
                \/ \E x \in Parts : jpc[w][x] # "none"

\* Two works fetch the same block at the same time only after a third one: its
\* late end removed the first of them from the list
NoDoubleFetch ==
  \A v, w \in Works :
    LET live(u) == u \notin built \cup err /\ \E x \in Parts : jpc[u][x] = "pool"
    IN v # w /\ block[v] = block[w] /\ live(v) /\ live(w)
       => \E u \in built \cup err : block[u] = block[v]
=============================================================================
