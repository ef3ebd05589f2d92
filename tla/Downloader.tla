----------------------------- MODULE Downloader -----------------------------
(***************************************************************************)
(* Chain synchronisation: Downloader.synchronise and its work (dwork) of   *)
(* src/ndn/eth/downloader.go and dworker.go.  One goroutine fetches the    *)
(* headers from the master peer, one submits a job per header to bpool,    *)
(* one inserts the fetched blocks; jobs for single requests go to ppool,   *)
(* and kill stops both pools in a goroutine of its own.                    *)
(*                                                                         *)
(* A block is its number.  The pools are used through what JobService      *)
(* promises: a job accepted before Stop may still be dropped by it.        *)
(***************************************************************************)
EXTENDS Naturals, Sequences, FiniteSets

CONSTANTS
  Last,       \* the number of the master's head (dwork.last)
  MaxHeaders, \* MAX_HEADERS_COUNT
  Signals,    \* the capacity of newblockCh
  BWorkers,   \* NUM_DWORKERS, the workers of bpool
  BQueue,     \* the jobs bpool holds before a worker takes them
  Tries       \* attempts of downloadBlockJob.Execute

ASSUME DownloaderAssumption ==
  /\ Last \in Nat /\ MaxHeaders \in Nat \ {0} /\ Signals \in Nat \ {0}
  /\ BWorkers \in Nat \ {0} /\ BQueue \in Nat \ {0} /\ Tries \in Nat \ {0}

Blocks == 1..Last
Master == 0                   \* the client of ppool that asks the master peer
Clients == Blocks \cup {Master}

VARIABLES
  chain,      \* the number of the current block of the local chain
  quit,       \* Downloader.quit is closed
  spc,        \* synchronise: its place
  result,     \* synchronise: does it return an error?
  ancestor,   \* dwork.ancestor
  dead, err,  \* dwork.dead; is dwork.err an error?
  kpc,        \* the goroutine that kill starts; it closes finish when "done"
  pclosed, bclosed, \* Stop of ppool, of bpool, was called
  preq,       \* the request of each client on ppool
  hpc, current, hd, hi, \* fetchHeaders: place, current, rest of the batch
  fpc, fh, fabort,      \* fetchFullBlocks: place, h, abort
  bst, tries, \* the downloadBlockJob of each block: its place and numtries
  fblocks,    \* the numbers in dwork.fblocks
  newblockCh, \* dwork.newblockCh
  ppc, bnum, cnt, pabort \* processBlocks: place, bnum, len(blocks), abort

kvars == <<dead, err, kpc>>
pools == <<pclosed, bclosed>>
hvars == <<hpc, current, hd, hi>>
fvars == <<fpc, fh, fabort>>
bvars == <<bst, tries>>
pvars == <<ppc, bnum, cnt, pabort>>
svars == <<spc, result, ancestor>>
dvars == <<chain, quit, svars, kvars, pools, preq, hvars, fvars, bvars, fblocks,
           newblockCh, pvars>>

Finished == kpc = "done"      \* dwork.finish is closed
Answered == {"ok", "err", "aborted"}

\* newDownloader; no work yet
DInit ==
  /\ chain \in 0..Last
  /\ quit = FALSE /\ spc = "idle" /\ result = FALSE
  /\ dead = FALSE /\ err = FALSE /\ kpc = "none"
  /\ pclosed = FALSE /\ bclosed = FALSE
  /\ preq = [c \in Clients |-> "none"]
  /\ hpc = "none" /\ current = 0 /\ hd = 0 /\ hi = 0
  /\ fpc = "none" /\ fh = 0 /\ fabort = FALSE
  /\ bst = [n \in Blocks |-> "none"] /\ tries = [n \in Blocks |-> 0]
  /\ fblocks = {} /\ newblockCh = <<>>
  /\ ppc = "none" /\ bnum = 0 /\ cnt = 0 /\ pabort = FALSE
  /\ ancestor = 0

-----------------------------------------------------------------------------
(* dwork.kill and the goroutine that stops the pools *)

\* The flag decides which caller's error is kept; only the first one stops
Kill(e) ==
  IF dead THEN UNCHANGED kvars
  ELSE dead' = TRUE /\ err' = e /\ kpc' = "ppool"

StopPPool ==
  /\ kpc = "ppool"
  /\ pclosed' = TRUE /\ kpc' = "pwait"
  /\ UNCHANGED <<chain, quit, svars, dead, err, bclosed, preq, hvars, fvars, bvars,
                 fblocks, newblockCh, pvars>>

\* ppool.Stop returns when its workers have left; then bpool.Stop
StopBPool ==
  /\ kpc = "pwait"
  /\ \A c \in Clients : preq[c] # "pending"
  /\ bclosed' = TRUE /\ kpc' = "bwait"
  /\ UNCHANGED <<chain, quit, svars, dead, err, pclosed, preq, hvars, fvars, bvars,
                 fblocks, newblockCh, pvars>>

\* The jobs in the channel of bpool, and those of its workers
Queued == {n \in Blocks : bst[n] = "queued"}
Running == {n \in Blocks : bst[n] \in {"try", "asked", "put"}}
Working(n) == bst[n] \in {"queued", "try", "asked", "put"}

\* Mutant: the end is signalled without waiting for bpool
finishEarly ==
  /\ kpc = "bwait"
  /\ kpc' = "done"
  /\ UNCHANGED <<chain, quit, svars, dead, err, pools, preq, hvars, fvars, bvars,
                 fblocks, newblockCh, pvars>>

\* bpool.Stop returns; close(finish)
Finish ==
  /\ kpc = "bwait"
  /\ \A n \in Blocks : ~Working(n)
  /\ kpc' = "done"
  /\ UNCHANGED <<chain, quit, svars, dead, err, pools, preq, hvars, fvars, bvars,
                 fblocks, newblockCh, pvars>>

\* onPeerQuit of the master peer
MasterQuits ==
  /\ spc \notin {"idle", "spawned"}
  /\ Kill(TRUE)
  /\ UNCHANGED <<chain, quit, svars, pools, preq, hvars, fvars, bvars, fblocks,
                 newblockCh, pvars>>

-----------------------------------------------------------------------------
(* The requests on ppool: getHeader, getHeaders, getFullBlock *)

\* Submit; a stopped pool refuses
Ask(c) == preq' = [preq EXCEPT ![c] = IF pclosed THEN "aborted" ELSE "pending"]

\* A worker leaves on quit with the job in its channel
PLose(c) ==
  /\ preq[c] = "pending" /\ pclosed
  /\ preq' = [preq EXCEPT ![c] = "lost"]
  /\ UNCHANGED <<chain, quit, svars, kvars, pools, hvars, fvars, bvars, fblocks,
                 newblockCh, pvars>>

\* It is executed: pfetch returns and the callback closes done; Stop aborts a running job
PAnswer(c) ==
  /\ preq[c] = "pending"
  /\ \E a \in {"ok", "err"} \cup (IF pclosed THEN {"aborted"} ELSE {}) :
       preq' = [preq EXCEPT ![c] = a]
  /\ UNCHANGED <<chain, quit, svars, kvars, pools, hvars, fvars, bvars, fblocks,
                 newblockCh, pvars>>

-----------------------------------------------------------------------------
(* Downloader.synchronise *)

others == <<kvars, pools, hvars, fvars, bvars, fblocks, newblockCh, pvars>>

\* d.w = newdwork(...), then fetchHeight submits its request.  The goroutine
\* that stops the pools of an earlier, failed work has only that work's state.
Synchronise ==
  /\ spc = "spawned"
  /\ spc' = "height" /\ result' = FALSE
  /\ dead' = FALSE /\ err' = FALSE /\ kpc' = "none"
  /\ pclosed' = FALSE /\ bclosed' = FALSE
  /\ preq' = [c \in Clients |-> IF c = Master THEN "pending" ELSE "none"]
  /\ hpc' = "none" /\ current' = 0 /\ hd' = 0 /\ hi' = 0
  /\ fpc' = "none" /\ fh' = 0 /\ fabort' = FALSE
  /\ bst' = [n \in Blocks |-> "none"] /\ tries' = [n \in Blocks |-> 0]
  /\ fblocks' = {} /\ newblockCh' = <<>>
  /\ ppc' = "none" /\ bnum' = 0 /\ cnt' = 0 /\ pabort' = FALSE
  /\ ancestor' = 0
  /\ UNCHANGED <<chain, quit>>

\* An error: dropPeer, whose onPeerQuit kills the work
HeightFails ==
  /\ spc = "height" /\ preq[Master] \in {"err", "aborted"}
  /\ Kill(TRUE)
  /\ spc' = "returned" /\ result' = TRUE
  /\ UNCHANGED <<chain, quit, ancestor, pools, preq, hvars, fvars, bvars, fblocks,
                 newblockCh, pvars>>

Begin(a) ==
  /\ ancestor' = a
  /\ hpc' = "loop" /\ current' = a + 1
  /\ fpc' = "range"
  /\ ppc' = "start" /\ bnum' = a + 1
  /\ spc' = "wait"
  /\ UNCHANGED <<hd, hi, fh, fabort, cnt, pabort>>

\* findAncestor: no request at genesis, else getHeaders (one request stands
\* for all its rounds, see FindAncestor)
HeightKnown ==
  /\ spc = "height" /\ preq[Master] = "ok"
  /\ IF chain = 0
     THEN Begin(0) /\ UNCHANGED preq
     ELSE /\ Ask(Master)
          /\ spc' = "ancestor"
          /\ UNCHANGED <<ancestor, hvars, fvars, pvars>>
  /\ UNCHANGED <<chain, quit, result, kvars, pools, bvars, fblocks, newblockCh>>

AncestorFails ==
  /\ spc = "ancestor" /\ preq[Master] \in {"err", "aborted"}
  /\ Kill(TRUE)
  /\ spc' = "returned" /\ result' = TRUE
  /\ UNCHANGED <<chain, quit, ancestor, pools, preq, hvars, fvars, bvars, fblocks,
                 newblockCh, pvars>>

\* The goroutines are started
AncestorFound ==
  /\ spc = "ancestor" /\ preq[Master] = "ok"
  /\ \E a \in 0..chain : Begin(a)
  /\ UNCHANGED <<chain, quit, result, kvars, pools, preq, bvars, fblocks,
                 newblockCh>>

\* The three results are in; d.w.err is returned
Return ==
  /\ spc = "wait"
  /\ hpc = "done" /\ fpc = "done" /\ ppc = "done"
  /\ spc' = "returned" /\ result' = err
  /\ UNCHANGED <<chain, quit, ancestor, preq, others>>

-----------------------------------------------------------------------------
(* fetchHeaders *)

\* The top of LOOP: quit, nothing left to fetch, or the next request
NextHeaders ==
  /\ hpc = "loop"
  /\ IF quit
     THEN Kill(TRUE) /\ hpc' = "end" /\ UNCHANGED preq
     ELSE /\ IF current > Last THEN hpc' = "end" /\ UNCHANGED preq
                               ELSE hpc' = "wait" /\ Ask(Master)
          /\ UNCHANGED kvars
  /\ UNCHANGED <<chain, quit, svars, pools, current, hd, hi, fvars, bvars, fblocks,
                 newblockCh, pvars>>

\* getHeaders returns the cnt headers that it asked for, or an error
GotHeaders ==
  /\ hpc = "wait" /\ preq[Master] \in Answered
  /\ IF preq[Master] = "ok"
     THEN /\ hpc' = "check" /\ hd' = current
          /\ hi' = IF current + MaxHeaders > Last + 1 THEN Last
                   ELSE current + MaxHeaders - 1
          /\ UNCHANGED kvars
     ELSE Kill(TRUE) /\ hpc' = "end" /\ UNCHANGED <<hd, hi>>
  /\ UNCHANGED <<chain, quit, svars, pools, preq, current, fvars, bvars, fblocks,
                 newblockCh, pvars>>

\* HLOOP: leave when finish is closed, else send the next header
CheckHeader ==
  /\ hpc = "check"
  /\ IF Finished THEN hpc' = "end" /\ current' = hi + 1
                 ELSE hpc' = "send" /\ UNCHANGED current
  /\ UNCHANGED <<chain, quit, svars, kvars, pools, preq, hd, hi, fvars, bvars,
                 fblocks, newblockCh, pvars>>

\* w.headerCh <- h, which has no buffer; after the last one the next batch
SendHeader ==
  /\ hpc = "send" /\ fpc = "range"
  /\ fh' = hd /\ fpc' = "submit"
  /\ hd' = hd + 1
  /\ IF hd = hi THEN hpc' = "loop" /\ current' = hi + 1
                ELSE hpc' = "check" /\ UNCHANGED current
  /\ UNCHANGED <<chain, quit, svars, kvars, pools, preq, hi, fabort, bvars, fblocks,
                 newblockCh, pvars>>

\* <- w.finish; close(w.headerCh)
HeadersEnd ==
  /\ hpc = "end" /\ Finished
  /\ hpc' = "done"
  /\ UNCHANGED <<chain, quit, svars, kvars, pools, preq, current, hd, hi, fvars,
                 bvars, fblocks, newblockCh, pvars>>

-----------------------------------------------------------------------------
(* fetchFullBlocks *)

\* One Submit per header, none after a refusal
SubmitBlock ==
  /\ fpc = "submit"
  /\ IF fabort \/ bclosed
     THEN fabort' = TRUE /\ UNCHANGED bst
     ELSE /\ Cardinality(Queued) < BQueue
          /\ bst' = [bst EXCEPT ![fh] = "queued"] /\ UNCHANGED fabort
  /\ fpc' = "range"
  /\ UNCHANGED <<chain, quit, svars, kvars, pools, preq, hvars, fh, tries, fblocks,
                 newblockCh, pvars>>

\* headerCh is closed: close(newblockCh)
BlocksEnd ==
  /\ fpc = "range" /\ hpc = "done"
  /\ fpc' = "done"
  /\ UNCHANGED <<chain, quit, svars, kvars, pools, preq, hvars, fh, fabort, bvars,
                 fblocks, newblockCh, pvars>>

-----------------------------------------------------------------------------
(* downloadBlockJob.Execute and its callback onfetched *)

rest == <<chain, quit, svars, pools, hvars, fvars, newblockCh, pvars>>

BRun(n) ==
  /\ bst[n] = "queued"
  /\ Cardinality(Running) < BWorkers
  /\ bst' = [bst EXCEPT ![n] = "try"] /\ tries' = [tries EXCEPT ![n] = 1]
  /\ UNCHANGED <<rest, kvars, preq, fblocks>>

BLose(n) ==
  /\ bst[n] = "queued" /\ bclosed
  /\ bst' = [bst EXCEPT ![n] = "lost"]
  /\ UNCHANGED <<rest, kvars, preq, tries, fblocks>>

\* Execute has its result: the request and numtries are gone
Settle(n) ==
  preq' = [preq EXCEPT ![n] = "none"] /\ tries' = [tries EXCEPT ![n] = 0]

\* Mutant: a failed block is not reported
giveUpQuietly(n) ==
  /\ bst[n] = "try"
  /\ tries[n] > Tries \/ tries[n] = 1 \/ bclosed
  /\ Settle(n)
  /\ bst' = [bst EXCEPT ![n] = "done"]
  /\ UNCHANGED <<rest, kvars, fblocks>>

\* Too many tries, no peer for the first one, or aborted by bpool's Stop;
\* onfetched kills the work
BGiveUp(n) ==
  /\ bst[n] = "try"
  /\ tries[n] > Tries \/ tries[n] = 1 \/ bclosed
  /\ Kill(TRUE) /\ Settle(n)
  /\ bst' = [bst EXCEPT ![n] = "done"]
  /\ UNCHANGED <<rest, fblocks>>

\* getFullBlock
BAsk(n) ==
  /\ bst[n] = "try" /\ tries[n] <= Tries
  /\ Ask(n)
  /\ bst' = [bst EXCEPT ![n] = "asked"]
  /\ UNCHANGED <<rest, kvars, tries, fblocks>>

\* The block: onfetched puts it into the list
BGot(n) ==
  /\ bst[n] = "asked" /\ preq[n] = "ok"
  /\ Settle(n)
  /\ fblocks' = fblocks \cup {n}
  /\ bst' = [bst EXCEPT ![n] = "put"]
  /\ UNCHANGED <<rest, kvars>>

\* An abort ends the job, another error is followed by the next try (by the
\* private prefix)
BRefused(n) ==
  /\ bst[n] = "asked" /\ preq[n] \in {"err", "aborted"}
  /\ IF preq[n] = "aborted"
     THEN Kill(TRUE) /\ Settle(n) /\ bst' = [bst EXCEPT ![n] = "done"]
     ELSE /\ bst' = [bst EXCEPT ![n] = "try"] /\ tries' = [tries EXCEPT ![n] = @ + 1]
          /\ UNCHANGED <<kvars, preq>>
  /\ UNCHANGED <<rest, fblocks>>

\* w.newblockCh <- job.block.NumberU64()
BSignal(n) ==
  /\ bst[n] = "put" /\ Len(newblockCh) < Signals
  /\ newblockCh' = Append(newblockCh, n)
  /\ bst' = [bst EXCEPT ![n] = "done"]
  /\ UNCHANGED <<chain, quit, svars, kvars, pools, preq, hvars, fvars, tries, fblocks,
                 pvars>>

-----------------------------------------------------------------------------
(* processBlocks *)

\* Nothing to insert if the ancestor is the last block
PStart ==
  /\ ppc = "start"
  /\ IF bnum > Last THEN Kill(FALSE) /\ ppc' = "done"
                    ELSE ppc' = "range" /\ UNCHANGED kvars
  /\ UNCHANGED <<chain, quit, svars, pools, preq, hvars, fvars, bvars, fblocks,
                 newblockCh, bnum, cnt, pabort>>

\* fBlocks.pop takes the blocks from b up to m, the first one that is missing
Pops(b, m) == b..(m - 1) \subseteq fblocks /\ m \notin fblocks

\* Mutant: the list is cut at the block of the signal
receivePopsOne ==
  /\ ppc = "range" /\ newblockCh # <<>>
  /\ newblockCh' = Tail(newblockCh)
  /\ IF pabort \/ Head(newblockCh) # bnum \/ bnum \notin fblocks
     THEN UNCHANGED <<ppc, fblocks, cnt>>
     ELSE /\ fblocks' = fblocks \ {bnum}
          /\ cnt' = 1
          /\ ppc' = "insert"
  /\ UNCHANGED <<chain, quit, svars, kvars, pools, preq, hvars, fvars, bvars, bnum,
                 pabort>>

\* for snum := range w.newblockCh
Receive ==
  /\ ppc = "range" /\ newblockCh # <<>>
  /\ newblockCh' = Tail(newblockCh)
  /\ IF pabort \/ Head(newblockCh) # bnum \/ bnum \notin fblocks
     THEN UNCHANGED <<ppc, fblocks, cnt>>
     ELSE \E m \in (bnum + 1)..(Last + 1) :
            /\ Pops(bnum, m)
            /\ fblocks' = fblocks \ (bnum..(m - 1)) /\ cnt' = m - bnum
            /\ ppc' = "insert"
  /\ UNCHANGED <<chain, quit, svars, kvars, pools, preq, hvars, fvars, bvars, bnum,
                 pabort>>

\* Mutant: the next blocks are inserted all the same
insertGoesOn ==
  /\ ppc = "insert"
  /\ Kill(TRUE)
  /\ bnum' = bnum + cnt /\ ppc' = "range"
  /\ UNCHANGED <<chain, quit, svars, pools, preq, hvars, fvars, bvars, fblocks,
                 newblockCh, cnt, pabort>>

\* insertBlocks fails (and after StopInsert it may): abort and kill
InsertFails ==
  /\ ppc = "insert"
  /\ Kill(TRUE)
  /\ pabort' = TRUE /\ ppc' = "range"
  /\ UNCHANGED <<chain, quit, svars, pools, preq, hvars, fvars, bvars, fblocks,
                 newblockCh, bnum, cnt>>

Inserted == chain' = IF bnum + cnt > chain + 1 THEN bnum + cnt - 1 ELSE chain

\* Mutant: a batch that ends one below the last block completes the sync
insertShort ==
  /\ ppc = "insert"
  /\ Inserted
  /\ IF bnum + cnt >= Last
     THEN Kill(FALSE) /\ pabort' = TRUE /\ UNCHANGED bnum
     ELSE bnum' = bnum + cnt /\ UNCHANGED <<kvars, pabort>>
  /\ ppc' = "range"
  /\ UNCHANGED <<quit, svars, pools, preq, hvars, fvars, bvars, fblocks, newblockCh,
                 cnt>>

\* insertBlocks extends the chain (known blocks leave it alone); the last block
\* completes the work, otherwise bnum moves on
Insert ==
  /\ ppc = "insert"
  /\ Inserted
  /\ IF bnum + cnt - 1 = Last
     THEN Kill(FALSE) /\ pabort' = TRUE /\ UNCHANGED bnum
     ELSE bnum' = bnum + cnt /\ UNCHANGED <<kvars, pabort>>
  /\ ppc' = "range"
  /\ UNCHANGED <<quit, svars, pools, preq, hvars, fvars, bvars, fblocks, newblockCh,
                 cnt>>

\* newblockCh is closed and empty
ProcessEnd ==
  /\ ppc = "range" /\ newblockCh = <<>> /\ fpc = "done"
  /\ ppc' = "done"
  /\ UNCHANGED <<chain, quit, svars, kvars, pools, preq, hvars, fvars, bvars, fblocks,
                 newblockCh, bnum, cnt, pabort>>

-----------------------------------------------------------------------------
\* A step of the goroutines of a work; MasterQuits is called
SyncStep ==
  \/ StopPPool \/ StopBPool \/ Finish
  \/ \E c \in Clients : PLose(c) \/ PAnswer(c)
  \/ Synchronise \/ HeightFails \/ HeightKnown
  \/ AncestorFails \/ AncestorFound \/ Return
  \/ NextHeaders \/ GotHeaders \/ CheckHeader \/ SendHeader \/ HeadersEnd
  \/ SubmitBlock \/ BlocksEnd
  \/ \E n \in Blocks : \/ BRun(n) \/ BLose(n) \/ BGiveUp(n) \/ BAsk(n) \/ BGot(n)
                       \/ BRefused(n) \/ BSignal(n)
  \/ PStart \/ Receive \/ InsertFails \/ Insert \/ ProcessEnd

-----------------------------------------------------------------------------
(* Properties *)

\* Values of the variables; the batch that is inserted lies within the work
WorkTypes ==
  /\ chain \in 0..Last /\ quit \in BOOLEAN
  /\ spc \in {"idle", "spawned", "height", "ancestor", "wait", "returned"}
  /\ result \in BOOLEAN /\ ancestor \in 0..Last
  /\ preq \in [Clients -> {"none", "pending", "lost"} \cup Answered]

KillTypes ==
  /\ dead \in BOOLEAN /\ err \in BOOLEAN
  /\ kpc \in {"none", "ppool", "pwait", "bwait", "done"}
  /\ pclosed \in BOOLEAN /\ bclosed \in BOOLEAN

HeaderTypes ==
  /\ hpc \in {"none", "loop", "wait", "check", "send", "end", "done"}
  /\ current \in 0..(Last + 1) /\ hd \in 0..(Last + 1) /\ hi \in 0..Last
  /\ fpc \in {"none", "range", "submit", "done"} /\ fh \in 0..Last
  /\ fabort \in BOOLEAN

BlockTypes ==
  /\ bst \in [Blocks -> {"none", "queued", "try", "asked", "put", "done", "lost"}]
  /\ tries \in [Blocks -> 0..(Tries + 1)]
  /\ fblocks \subseteq Blocks
  /\ newblockCh \in Seq(Blocks) /\ Len(newblockCh) <= Signals

ProcessTypes ==
  /\ ppc \in {"none", "start", "range", "insert", "done"}
  /\ bnum \in 0..(Last + 1) /\ cnt \in 0..Last /\ pabort \in BOOLEAN
  /\ ppc = "insert" => cnt >= 1 /\ bnum + cnt <= Last + 1

DTypeOK == WorkTypes /\ KillTypes /\ HeaderTypes /\ BlockTypes /\ ProcessTypes

\* A signal that processBlocks ignores is never the last one: while it waits
\* for block bnum and that block is in the list, a signal for bnum is in the
\* channel or about to be sent
NoLostSignal ==
  (ppc = "range" /\ ~pabort /\ bnum \in fblocks) =>
    bst[bnum] = "put" \/ \E i \in 1..Len(newblockCh) : newblockCh[i] = bnum

\* newblockCh is closed only when no block job can send on it any more: a send
\* on a closed channel would panic
NoSendAfterClose == fpc = "done" => \A n \in Blocks : ~Working(n)

\* Each batch is inserted on a chain that has its parent: no gaps
ParentKnown == ppc = "insert" => bnum <= chain + 1

\* On every path out of synchronise the pools of its work are stopped or being
\* stopped, so that their goroutines never outlive it, and no error is reported
\* only when the master's last block is inserted
ReturnsClean == spc = "returned" => dead /\ (~result => chain = Last)
=============================================================================
