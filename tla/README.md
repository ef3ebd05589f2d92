# Verification of ndn-geth

TLA+ models of the concurrent parts of ndn-geth, the go-ethereum client that
talks to its peers over Named Data Networking (NDN). The models are written from
the Go code in `src/ndn`; TLC checks them on small instances and TLAPS proves
all their safety properties for every value of the constants.

`PROJECT.json` lists the components, runs, mutants, source lines, findings,
hazards and theorems in a form a tool can read.

## The system and its parts

A node consists of goroutines that share objects under mutexes and wake each
other up through channels, most of them of capacity zero or one.

- **Face** (`ndn/ndnsuit`): reads and writes packets. A *consumer* sends an
  Interest and waits on a channel for Data, a Nack or a time-out; the pending
  Interest table (pit) remembers who waits for which name. A *mixer* takes
  incoming Interests and hands them to producers.
- **Worker pool** (`ndn/utils/workerpool.go`): a dispatcher, its workers, `Submit`
  and `Stop`. Every other part runs its requests on such a pool.
- **Kademlia node** (`ndn/kad`): a routing table, a querying service that pings
  peers and asks them for neighbours, and a main loop that reports live and dead
  peers to the application.
- **Controller** (`ndn/eth`): handshakes with the peers the Kademlia node
  reports, a set of connected peers with a sending loop for each, a chain syncer
  with its downloader, and fetchers for announced blocks and transactions.

The Kademlia node tells the controller which peers are there; a registered peer
is offered to the chain syncer; syncer and fetchers put jobs into worker pools;
a job sends Interests through the face.

## Modules

| module | code | what it is |
| --- | --- | --- |
| `RoutingTable` | `kad/routingtable.go` | buckets, peers and replacements |
| `KadNode` | `kad/node.go`, `ping.go`, `ndnpeer.go` | main loop, querying service and rpc workers; extends `RoutingTable` |
| `JobService` | - | what the clients of a pool rely on (abstract) |
| `WorkerPool` | `utils/workerpool.go` | dispatcher, workers, `Submit`, `Stop`; implements `JobService` |
| `PeerSet` | `eth/peerlist.go`, `peer.go`, `handler.go`, `peerannounce.go` | handshakes, departures, the life of a peer object and of its loop |
| `Downloader` | `eth/downloader.go`, `dworker.go` | one synchronisation: headers, block jobs, insertion, `kill` |
| `ChainSyncer` | `eth/syncer.go` | the loop that starts and stops synchronisations; extends `Downloader` |
| `FindAncestor` | `eth/downloader.go`, `datafetch.go` | the search for the common ancestor, with the widths of the code's integers |
| `BlockFetcher` | `eth/blockfetcher.go` | works, header and body jobs, the inserting loop |
| `Face` | `ndnsuit/face.go`, `pit.go`, `itimer.go`, `consumer.go`, `mixer.go` | the pit under its reader, its ticker and failing writes |

`MC...` modules are the instances for TLC, `...Proofs` modules hold the theorems
of a component (`KadNodeProofs` also those of the table that the node extends,
`ChainSyncerProofs` also the inductive invariant), and `SequenceLemmas` the facts
about lists they share.

### How state and actions correspond to the code

A field or a local variable that outlives a step is a variable of its name. A
variable `...pc` is the place of a goroutine (`lpc` a loop, `wpc` a worker, `spc`
a stop or a synchronisation, and so on). A critical section that never blocks is
one action, enabled while the mutex is free; where the code blocks with a mutex
held (`Submit` in `dopingpeers`, `register` that waits for `kmutex`, `close` that
waits for a loop, `satisfy` that sends on answer channels, `addpeer` and
`stop` of the syncer) the holder is a variable and the section is several
actions. A channel of capacity one is a flag, a count or a slot; a send on a
closed channel leads to the place `"panic"`. Code that reads or writes shared
data without a mutex is split where another goroutine can come between:
`refresh` of the pit, `buildblock`, `addwork` after `Submit`.

Blocks are numbers, peers identities, Interests model values, answers counts:
formats, signatures and contents do not occur. Networks are not assumed to
deliver: an answer may fail to come, and then a time-out or an error does.

`KadNode` inherits the table's variable and uses its operations. `ChainSyncer`
inherits the whole of a synchronisation. `KadNode`, `Downloader` and
`BlockFetcher` use a worker pool through what `JobService` promises, and through
the one thing it does not promise: a job accepted before `Stop` may be dropped.

## Runs

Twelve runs; a name in brackets is the configuration. Sizes are distinct states.

| run | size | what it shows |
| --- | --- | --- |
| `routing_table` [`MCRoutingTable`] | 652 | lists bounded, no duplicates, replacements only behind full buckets, age order, no live peer displaced |
| `pool` [`MCPool`] | 64,876 | registration and hand-over never block, no send on a closed channel, the pool implements `JobService`, `Stop` returns, accepted jobs run |
| `pool_refetch` [`MCPoolRefetch`] | violation | jobs that submit to their own pool wait for each other |
| `kad` [`MCKad`] | 1,045,859 | no signal blocks or is lost, no peer stuck in `askinglist`, reported peers are in the table, the node uses the table as `TableSpec` allows |
| `kad_blocked` [`MCKadBlocked`] | violation | `Submit` under the service's mutex stops the service |
| `peers` [`MCPeers`] | 292,915 | counters agree with the set, a loop unregisters only its own peer, no circular wait, `close` returns |
| `peers_again` [`MCPeersAgain`] | violation | a peer whose loop is over is registered again |
| `sync` [`MCSync`] | 194,483 | no lost signal, no gap, a sync returns with its pools stopped and succeeds only when complete, nobody waits in a circle, one sync at a time, stop is final, everything ends |
| `sync_lost` [`MCSyncLost`] | violation | a request dropped by `Stop` is waited for without end |
| `ancestor` [`MCAncestor`] | 152,113 | the ancestor is shared, the highest one up to 70214 blocks, found within five rounds |
| `bfetch` [`MCFetcher`] | 4,317,628 | both parts meet, the loop does not sleep on an insertable block, what the fetching list keeps |
| `net` [`MCNet`] | 228,870 | no waiting consumer is lost, pending Interests are listed, answers come, `Close` returns |

`CHECK_DEADLOCK FALSE` is set wherever the program may rest: a stopped pool or
syncer, a finished search, used-up works, a closed face, and nodes with
nothing to do. The routing table can always be used, so deadlock is checked.

### What the code is known not to guarantee

Four runs end in a violation, each of what a comment of the code says:

- `pool_refetch`: a failing fetch submits its retry to the pool it runs on. When
  every worker does so, `jobCh` is full and nobody empties it.
- `kad_blocked`: `dopingpeers` holds the mutex of the service over `Submit`. With
  more pings than the pool takes, it waits for a worker and the workers wait for
  the mutex.
- `peers_again`: two handshakes share a pending peer object; the second registers
  it after the loop of the first has ended, and no new loop is started.
- `sync_lost`: `getHeaders` waits for a job that `ppool.Stop` dropped.

Passing properties name the remaining exceptions exactly rather than assume them
away:

- `SyncEnds`, `CallsReturn`, `NeverStuck`: `Lost`, the request of `sync_lost`.
- `AnswerComes`, `FaceCloses`: `Jammed`, an Interest answered twice whose consumer
  will never read the first answer, which blocks the sender; `RecvJam`, the mixer
  in `Close` while `run` waits for room in `recv`; and the closing of the face.
  `FaceJamsStay` proves that the first two are for ever.
- `PendingListed`: `raced`, an Interest inserted while `refresh` rewrites the list
  of its name without the mutex.
- `ListedIsAlive`: `early` (a work added to the list after a job of it was done)
  and `aside` (a block assembled by the loop, whose result nobody handles), and a
  stopped pool. `Awake`: `moved`, a chain that grew without waking the loop.
- `NoDoubleFetch`: a third work of the same block that has ended before.
- `AncestorIsGreatest`, `FewRounds`: chains of up to 70214 blocks. Above, the
  distance of two headers overflows 16 bits in `queryHeaders`; headers then come
  in no order and a lower ancestor may be found. `AncestorIsShared` still holds.

Two comments in `downloader.go` do not hold in all cases: "next round will be the
last" (line 259; with 160 blocks of which none is known, it is not), and the
ascending order that the TODO in line 241 expects (not above 70214 blocks).

### Bounds

- `routing_table`: five identities compete for a bucket of three peers and two
  replacements, so that both lists overflow, shift and refill; another bucket
  holds the local node. Buckets do not influence each other.
- `pool`: two workers, three jobs of clients and one that a job submits itself:
  more jobs than workers and buffers. `EarlyStop` is off: when `Stop` is called
  before a worker has run `wg.Add`, the wait group does not know of it, and
  neither `StopWaitsForWorkers` nor `NoPanic` is claimed.
- `kad`: one worker, two nodes besides the local one, a bucket with one place
  and one replacement. The two nodes are interchangeable, which `SYMMETRY` uses;
  the run checks no liveness property.
- `peers`: two identities, two peer objects and two handlers, so that a handshake
  in each direction shares an object, or competes for the one place.
- `sync`: two blocks in batches of one header, a signal channel with one place
  (it fills up), two block jobs at a time, two tries each.
- `ancestor`: every combination of local, remote and common height from 0 to 33
  and eleven sizes at which rounds are added or 16 bits overflow.
- `bfetch`: the announced block 3 is too far ahead at first, then in the future,
  then next; block 1 is pushed; two works; `fetchedSig` with one place. The
  exception in `NoDoubleFetch` takes three works and is out of this run's reach:
  with two, the run shows that no block is fetched twice at a time.
- `net`: two Interests of one name, used again and again. Names do not influence
  each other but for the mutex, the ticker and the channel `recv`, which are shared here
  too.

Other bounds are `MaxSeen` (records in `seenlist`), `Interests`, `Objs` and
`Works` (objects in use), all in the guards of the actions that create.

### Fairness

Weak fairness of the steps of a goroutine says that the Go scheduler runs what
can run. Jobs end because every Interest has a lifetime. Where a goroutine waits
for a mutex or a `select` offers several cases, `Face` uses strong fairness: Go's
mutexes hand over to waiters (starvation mode), and `select` picks at random.
`ChainSyncer` takes weak fairness of the steps of a synchronisation together and of each
case of the loop's `select`. No fairness is assumed of what comes from outside:
clients that call `Submit` or `Stop`, packets, announcements, peers that come
and leave, the mixer before it closes the face. `NodeFairSpec`, used for the
violation in `kad_blocked`, assumes the same of the Kademlia node, `FairSpec` of
`PeerSet` that a handshake is answered or times out.

## Proofs

All theorems hold for every value of the constants that meets the named
assumptions of the modules: sizes are natural numbers, most not zero; the workers
of a pool and the identities of peers form finite sets; nil values differ from
others; the local node is an identity at distance zero, and the buckets are no
more than the bits of an identity. Each proof rests on an inductive invariant,
with one step per action.

- **Routing table** (`TableInv`). Bounds, uniqueness and "replacements only behind
  full buckets" need each other: without the last, `add` could put a peer that is
  a replacement into the peers. The shift loops are lists without their i-th
  element (`RemoveIndexFacts`, `RemoveIndexOrder`). `TableAgeOrder` and
  `TableEviction` prove the two action properties from what `add` and `remove` do
  to one bucket.
- **Worker pool** (`PoolInv`, `StopInv`). A worker's channel is in `workerCh`, with
  the dispatcher, or nowhere; hence `workerCh` holds a worker at most once and has
  room (`HandOverNeverBlocks`). `StopInv`, and with it `SendsNeverPanic`, `StopWaits` and the refinement
  `PoolImplementsService`, assume that `Stop` is called after the workers have
  started (`~EarlyStop`). Three more invariants say where things are: an accepted
  job is in a channel or with somebody (`JobKept`, the theorem `JobsAreKept`), so is
  the channel of a worker that waits (`WorkerKept`), and what `Stop` has closed at
  each of its places (`Phases`). With them, `PoolOnlyJams` shows that a pool with
  work to do, or inside `Stop`, always has somebody who can go on, unless every
  worker executes a job that is inside `Submit` to the same pool and `jobCh` is full;
  `JamIsForEver` that this is never resolved, not even by `Stop`: it is the
  violation of `pool_refetch`, and by `PoolOnlyJams` the only one of its kind. A pool
  whose jobs do not submit to it has none (`PoolNeverStuck`).
- **Kademlia node** (`NodeInv`). `Flags` says that a signal flag is set exactly while
  its signal is pending or being served; from it follow `SignalsFree` and
  `WakeupsKept`. `NodeUsesTable` is a refinement: every step of the node is a step
  of the table or leaves it alone. It needs that the local node is never found
  dead. `NodeOnlyJams` shows that what `kad_blocked` meets is the only way in which
  the querying service and its workers block (it needs that a worker at work has a
  job, `WorkerHasJob`), `NodeJamStays` that the service never comes back from it.
- **Peer set** (`PeersInv`). A loop that is still to unregister belongs to the
  registered object; so `unregister`, which deletes by identity and counts by
  direction, hits the right entry (`CountsAgree`), and `register` waits for `kmutex`
  only of objects whose loop is over (`NoCircularWait`). As a `kmutex` is held by a
  `close` that has told its loop to quit (`ClosesHeld`), it follows that a handler
  under way can go on or somebody else can (`PeersNeverStuck`): the chain of those
  who wait goes from `close` to a loop, to `register`, to a `close` whose loop is
  over, and ends there.
- **Chain synchronisation** (`SyncInv`). `Signalled` extends `NoLostSignal` to every
  place of `processBlocks`; it needs that each header is handed on once
  (`HandedOnce`). The order in which `kill` stops the pools and the goroutines end
  gives `ClosedAfterJobs`, `ReturnsAreClean` and `StopIsFinal`. `NobodyStuck` says that a
  sync under way always has a goroutine that can go on, unless its request was
  lost, and that a holder of `kmutex` waits for a loop that can go on or for a
  sync. `NeverStuck` spells out the guards of the steps, as `ENABLED` is beyond the
  prover. Two more invariants carry the proof. `Locks` says where the loop stands
  while `kmutex` is held. `WorkAlive` says why a goroutine that waits is served: killed
  work drains from the pools downwards; work that is not killed has handed on
  every header below `current`, and the block that `processBlocks` needs next is
  with a job, or fetched with its signal in the channel.
- **Common ancestor** (`AncestorInv`). The range keeps the answer (`Bracket`); the
  sizes of the range after each round give five rounds (`RangeSizes`).
- **Block fetcher** (`FetcherInv`). `PartsMeet`, `Awake` and `NoDoubleFetch` are kept
  by each step, given what a job at each place has brought (`Stages`) and what is
  submitted at each place of the loop (`Submitting`). `ListedIsAlive` follows from
  `Progress`: of a work in the list, or about to be added, a job that left without
  removing it has brought its part, so the other one is still there, and who
  assembled the block will remove it. `NoDoubleFetch` needs `Tracked`: a work
  that is fetching is in the list or at the loop, unless a work for its block has
  ended. The theorem covers the case of three works, which the run does not reach.
- **Face** (`FaceInv`). An answer stays in its channel until the consumer takes it;
  until then the Interest is in the timer queue, among the expired ones, or in the
  hands of `satisfy`. `Copied` says what the lists that `satisfy` and `refresh` work
  on still have to contain. `FaceOnlyJams` follows from it and from `Inside` (who is
  inside `satisfy` holds the mutex): while a consumer, a failed write or `Close`
  waits, somebody can go on, but for `Jammed` and `RecvJam`. `FaceJamsStay`: neither
  ends.

Only model-checked: every liveness property (`StopTerminates`, `AcceptedJobRuns`,
`CloseReturns`, `SyncEnds`, `CallsReturn`, `AnswerComes`, `FaceCloses`), since the
prover handles neither fairness nor `ENABLED`. The part of each that is a safety
property is proved: there is no state, but for the exceptions the properties name,
in which somebody waits and nobody can move. The theorems are `PoolOnlyJams` and
`PoolNeverStuck` for the first two, `PeersNeverStuck`, `NobodyStuck` for `SyncEnds` and
`CallsReturn`, and `FaceOnlyJams`. They spell out the guards of the steps that
fairness is assumed of. The pools are assumed to have a worker; a handshake that
finds no unused object of the bound `Objs`, and a program that has panicked, do not
count as waiting. That those who can move get everybody to the end, and not
in circles, is left to TLC.

## Not modelled

- **Sending loops and propagation** (`eth/peerannounce.go`, `push.go`, parts of
  `handler.go`): `PeerSet` has the life of a loop, not the queue of items it sends.
- **Transaction fetcher** (`eth/txfetcher.go`): built like the block fetcher, with
  one part per work instead of two.
- **Object fetching and caches** (`ndnsuit/fetching.go`, `eth/datafetch.go` but for
  `queryHeaders`, `eth/objcache.go`, `utils/cacher.go`): segments of data. A fetch
  is one request that succeeds, fails or is aborted.
- **Lookup** (`kad/algo.go`, `lookup.go`, `peersort.go`): `KadNode` has its requests
  and its end, not the order in which it visits nodes.
- **Producers and the single worker** (`ndnsuit/producer.go`,
  `utils/singleworker.go`), **packets, signatures, prefix registration** (the rest
  of `ndnsuit`), **rpc encodings and identities** (`kad/rpc`, `kad/crypto.go`), **key
  agreement** (`dhkx`): data, cryptography and I/O, for which the models have
  outcomes only.
- **Controller glue** (`handler.go`, `ethmsg.go`, `api.go`, `eth/backend.go`, `node`)
  and the **chain monitor** (`ndn/chainmonitor`, `cmd/monserver`).
- **go-ethereum itself** (`core`, `consensus`, `miner`, `trie`, `p2p`, `rpc`,
  `accounts`, `light`, ...): the bulk of the repository. The models use it through
  the calls that `src/ndn` makes: the current block, `HasHeader`, and an insertion
  that succeeds or fails.

### Hazards without a property

`PROJECT.json` lists, with the reason, hazards of this code that no property
covers. Known from reading the code, and outside the models' data:

- `kad/ping.go:220`: the timer that cleans the list of dead peers is never reset,
  so the list is cleaned once.
- `eth/handler.go:703`: after a handshake the head recorded for the peer is taken
  from the message that was sent, not from the answer.
- `eth/downloader.go:236`: the search asks for headers up to the local height; a
  master with a shorter but heavier chain cannot answer, and the sync fails
  (`Fail` of `FindAncestor`).
- `eth/blockfetcher.go:591`: `addHolder` writes a map without the mutex under which
  `nextPrefix` ranges over it. `ndnsuit/pit.go:129`: `refresh` writes `pilist` while
  `satisfy` or `insert` may read it. When the Go run time notices such an access
  it aborts the program; the models follow the executions in which it does not.
- `eth/blockfetcher.go:627`: `setheader` marks an unverified header as sent, so that
  a future header is not propagated.
- `eth/txfetcher.go:322`: a transaction that does not decode leads to
  `job.err.Error()` with a nil error.

## Running

    tlc -config MCPool.cfg MCWorkerPool
    tlapm WorkerPoolProofs.tla

The configuration of each run names its module in `PROJECT.json`. All runs
together take about ten minutes, the proofs about half an hour, of which
`ChainSyncerProofs` takes a third.
