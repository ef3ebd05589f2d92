------------------------------ MODULE KadNode ------------------------------
(***************************************************************************)
(* The Kademlia node: the main loop of src/ndn/kad/node.go, the querying   *)
(* service of src/ndn/kad/ping.go and the jobs that both have executed on  *)
(* the rpc worker pool, over the routing table.  The pool is what          *)
(* WorkerPool shows it to be: one buffered job and the workers, and Submit *)
(* blocks while the buffer is full.                                        *)
(*                                                                         *)
(* queryingservice.mutex is held over several steps only by dopingpeers    *)
(* (lpc = "submit"); every other critical section is one action, enabled   *)
(* while the mutex is free.  Likewise node.smutex and markseenpeers.       *)
(* Whether a peer that has been seen was seen recently (PING_LONGEVITY) is *)
(* left open.                                                              *)
(***************************************************************************)
EXTENDS RoutingTable

CONSTANTS
  Workers,     \* workers of rpcpool
  Bootnodes,   \* identities of the configured boot nodes
  Alpha,       \* findnode queries a lookup has under way at a time
  MaxSeen,     \* bound: records waiting in seenlist
  Drops        \* does the application drop peers?

ASSUME NodeAssumption ==
  /\ Bootnodes \subseteq Ids \ {Self}
  /\ Alpha \in Nat
  /\ MaxSeen \in Nat
  /\ Drops \in BOOLEAN

VARIABLES
  waitinglist, askinglist,           \* of queryingservice
  seen,                              \* identities some setseen was called for
  pingsig, pingch,                   \* pingch: is its one slot taken?
  lpc, todo,                         \* queryingservice.loop, and its range loop
  slot,                              \* the pool's buffered job, none or one
  wpc, wjob, wfirst,                 \* the workers: place, job, peer to ping
  seenlist, seensig, seench,         \* of kadnode
  mpc, mfirst,                       \* mainloop: its place, a peer to ping
  refreshtimer,                      \* will refreshtimer fire?
  dropping,                          \* identities inside droppeer
  announced                          \* identities last reported live

qvars == <<waitinglist, askinglist, pingsig, pingch>>
lvars == <<lpc, todo>>
pvars == <<slot, wpc, wjob, wfirst>>
svars == <<seenlist, seensig, seench>>
mvars == <<mpc, mfirst, refreshtimer>>
nodeVars == <<buckets, seen, qvars, lvars, pvars, svars, mvars, dropping, announced>>

Jobs == [kind : {"ping", "findnode"}, p : Ids]

\* The jobs the pool has accepted and not finished.
Outstanding == slot \cup UNION { wjob[w] : w \in Workers }
Asked == { j \in Outstanding : j.kind = "findnode" }

\* queryingservice.mutex, node.smutex
Unlocked == lpc # "submit"
SeenUnlocked == mpc \notin {"mark", "first"}

-----------------------------------------------------------------------------
\* newkadnode, and start up to the main loop
NodeInit ==
  /\ TableInit
  /\ waitinglist = {} /\ askinglist = {} /\ seen = {}
  /\ pingsig = FALSE /\ pingch = FALSE
  /\ lpc = "select" /\ todo = {}
  /\ slot = {} /\ wpc = [w \in Workers |-> "idle"]
  /\ wjob = [w \in Workers |-> {}] /\ wfirst = [w \in Workers |-> {}]
  /\ seenlist = <<>> /\ seensig = FALSE /\ seench = FALSE
  /\ mpc = "start" /\ mfirst = {} /\ refreshtimer = TRUE
  /\ dropping = {} /\ announced = {}

-----------------------------------------------------------------------------
(* queryingservice *)

\* Mutant: the signal is sent only for a list that was empty before.
pingpeersQuiet(ps) ==
  LET new == ps \ ({Self} \cup askinglist \cup waitinglist)
  IN  /\ waitinglist' = waitinglist \cup new
      /\ pingsig' = TRUE
      /\ pingch' = (pingch \/ (~pingsig /\ waitinglist # {}))
      /\ UNCHANGED askinglist

\* pingpeers, for the peers of the list that were not seen recently
pingpeers(ps) ==
  LET new == ps \ ({Self} \cup askinglist \cup waitinglist)
  IN  /\ waitinglist' = waitinglist \cup new
      /\ pingsig' = TRUE
      /\ pingch' = (pingch \/ ~pingsig)
      /\ UNCHANGED askinglist

\* Mutant: pingpeer sends the signal and does not set the flag.
pingpeerNoFlag(p) ==
  /\ p \notin {Self} \cup askinglist \cup waitinglist
  /\ waitinglist' = waitinglist \cup {p}
  /\ pingch' = (pingch \/ ~pingsig)
  /\ UNCHANGED <<askinglist, pingsig>>

\* pingpeer, which ignores a peer that was seen recently
pingpeer(p) ==
  \/ /\ p \in {Self} \cup askinglist \cup waitinglist \cup seen
     /\ UNCHANGED qvars
  \/ /\ p \notin {Self} \cup askinglist \cup waitinglist
     /\ waitinglist' = waitinglist \cup {p}
     /\ pingsig' = TRUE
     /\ pingch' = (pingch \/ ~pingsig)
     /\ UNCHANGED askinglist

\* loop: case <-s.pingch, on the way into dopingpeers
LoopSignalled ==
  /\ lpc = "select" /\ pingch
  /\ pingch' = FALSE
  /\ lpc' = "lock"
  /\ UNCHANGED <<buckets, seen, waitinglist, askinglist, pingsig, todo, pvars, svars, mvars, dropping, announced>>

\* dopingpeers: Lock; todo are the waiting peers that were not seen recently
LoopLock ==
  /\ lpc = "lock"
  /\ lpc' = "submit" /\ todo' \in SUBSET waitinglist
  /\ waitinglist \ todo' \subseteq seen
  /\ UNCHANGED <<buckets, seen, qvars, pvars, svars, mvars,
                 dropping, announced>>

\* dopingpeers: Submit for one peer, which blocks while the buffer is full
LoopSubmit(p) ==
  /\ lpc = "submit" /\ p \in todo /\ slot = {}
  /\ todo' = todo \ {p}
  /\ slot' = {[kind |-> "ping", p |-> p]}
  /\ askinglist' = askinglist \cup {p}
  /\ UNCHANGED <<buckets, seen, waitinglist, pingsig, pingch, lpc,
                 wpc, wjob, wfirst, svars, mvars, dropping, announced>>

\* dopingpeers: waitinglist and pingsig are reset; Unlock
LoopEnd ==
  /\ lpc = "submit" /\ todo = {}
  /\ waitinglist' = {} /\ pingsig' = FALSE
  /\ lpc' = "select"
  /\ UNCHANGED <<buckets, seen, askinglist, pingch, todo, pvars,
                 svars, mvars, dropping, announced>>

\* drop, called by droppeer
Drop(id) ==
  /\ id \in dropping /\ Unlocked
  /\ dropping' = dropping \ {id}
  /\ waitinglist' = waitinglist \ {id} /\ askinglist' = askinglist \ {id}
  /\ UNCHANGED <<buckets, seen, pingsig, pingch, lvars, pvars, svars, mvars, announced>>

-----------------------------------------------------------------------------
(* The jobs, on the workers of rpcpool *)

\* workerPool.run hands the buffered job to a worker
TakeJob(w) ==
  /\ wpc[w] = "idle" /\ slot # {}
  /\ wjob' = [wjob EXCEPT ![w] = slot] /\ slot' = {}
  /\ wpc' = [wpc EXCEPT ![w] = "rpc"]
  /\ UNCHANGED <<buckets, seen, qvars, lvars, wfirst, svars, mvars, dropping,
                 announced>>

\* Mutant: the peer stays in askinglist when it does not answer.
repliedKeepsDead(w) ==
  /\ wpc[w] = "rpc" /\ Unlocked
  /\ \E j \in wjob[w] :
       \/ /\ askinglist' = askinglist \ {j.p}
          /\ wpc' = [wpc EXCEPT ![w] = "live"]
       \/ /\ j.p # Self
          /\ UNCHANGED askinglist
          /\ wpc' = [wpc EXCEPT ![w] = "dead"]
  /\ UNCHANGED <<buckets, seen, waitinglist, pingsig, pingch, lvars, slot,
                 wjob, wfirst, svars, mvars, dropping, announced>>

\* Mutant: a findnode the local node answers itself may fail.
repliedSelf(w) ==
  /\ wpc[w] = "rpc" /\ Unlocked
  /\ \E j \in wjob[w] :
       /\ askinglist' = askinglist \ {j.p}
       /\ \E pc \in {"live", "dead"} : wpc' = [wpc EXCEPT ![w] = pc]
  /\ UNCHANGED <<buckets, seen, waitinglist, pingsig, pingch, lvars, slot,
                 wjob, wfirst, svars, mvars, dropping, announced>>

\* ping or findnode has returned, with an answer or (after NUM_PING_ATTEMPS or
\* NUM_FINDNODE_ATTEMPS) with an error, never an error for the local node;
\* onreplied takes the peer out of askinglist under the mutex.
Replied(w) ==
  /\ wpc[w] = "rpc" /\ Unlocked
  /\ \E j \in wjob[w] :
       /\ askinglist' = askinglist \ {j.p}
       /\ \/ wpc' = [wpc EXCEPT ![w] = "live"]
          \/ j.p # Self /\ wpc' = [wpc EXCEPT ![w] = "dead"]
  /\ UNCHANGED <<buckets, seen, waitinglist, pingsig, pingch, lvars, slot,
                 wjob, wfirst, svars, mvars, dropping, announced>>

\* The place of worker w when onreplied returns without an error.
AfterReply(w) == IF \E j \in wjob[w] : j.kind = "findnode" THEN "all" ELSE "idle"

\* onreplied, peerstatechange(p, true): the peer is seen; if its bucket is full
\* the oldest peer of the bucket has to be pinged
PeerLive(w) ==
  /\ wpc[w] = "live"
  /\ \E j \in wjob[w] :
       LET b == buckets[bucket(j.p)] IN
       /\ Seen(j.p)
       /\ seen' = seen \cup {j.p}
       /\ announced' = IF Added(b, j.p) THEN announced \cup {j.p} ELSE announced
       /\ wfirst' = [wfirst EXCEPT ![w] = First(b, j.p)]
       /\ wpc' = [wpc EXCEPT ![w] = IF First(b, j.p) # {} THEN "first"
                                                          ELSE AfterReply(w)]
       /\ wjob' = [wjob EXCEPT ![w] = IF First(b, j.p) = {} /\ AfterReply(w) = "idle"
                                      THEN {} ELSE @]
  /\ UNCHANGED <<qvars, lvars, slot, svars, mvars, dropping>>

\* Mutant: the removal of a peer is not reported.
peerDeadSilent(w) ==
  /\ wpc[w] = "dead"
  /\ \E j \in wjob[w] : Remove(j.p)
  /\ wpc' = [wpc EXCEPT ![w] = "idle"] /\ wjob' = [wjob EXCEPT ![w] = {}]
  /\ UNCHANGED <<seen, qvars, lvars, slot, wfirst, svars, mvars, dropping, announced>>

\* onreplied, peerstatechange(p, false): the peer is removed
PeerDead(w) ==
  /\ wpc[w] = "dead"
  /\ \E j \in wjob[w] :
       /\ Remove(j.p)
       /\ announced' = IF InBucket(j.p) THEN announced \ {j.p} ELSE announced
  /\ wpc' = [wpc EXCEPT ![w] = "idle"] /\ wjob' = [wjob EXCEPT ![w] = {}]
  /\ UNCHANGED <<seen, qvars, lvars, slot, wfirst, svars, mvars, dropping>>

\* rtable.seen calls pingpeer for the oldest peer of the bucket
PingFirst(w) ==
  /\ wpc[w] = "first" /\ Unlocked
  /\ \E p \in wfirst[w] : pingpeer(p)
  /\ wfirst' = [wfirst EXCEPT ![w] = {}]
  /\ wpc' = [wpc EXCEPT ![w] = AfterReply(w)]
  /\ wjob' = [wjob EXCEPT ![w] = IF AfterReply(w) = "idle" THEN {} ELSE @]
  /\ UNCHANGED <<buckets, seen, lvars, slot, svars, mvars, dropping, announced>>

\* The callback of findnode: pingpeers for the peers of the answer
PingAll(w) ==
  /\ wpc[w] = "all" /\ Unlocked
  /\ \E ps \in SUBSET Ids : pingpeers(ps)
  /\ wpc' = [wpc EXCEPT ![w] = "idle"] /\ wjob' = [wjob EXCEPT ![w] = {}]
  /\ UNCHANGED <<buckets, seen, lvars, slot, wfirst, svars, mvars, dropping,
                 announced>>

\* queryingservice.findnode, called by the lookup that is under way
Ask(p) ==
  /\ ~refreshtimer
  /\ Cardinality(Asked) < Alpha /\ \A j \in Asked : j.p # p
  /\ slot = {}
  /\ slot' = {[kind |-> "findnode", p |-> p]}
  /\ UNCHANGED <<buckets, seen, qvars, lvars, wpc, wjob, wfirst, svars, mvars,
                 dropping, announced>>

-----------------------------------------------------------------------------
(* kadnode *)

\* mainloop: seedrtable(node.bootnodes)
Seed ==
  /\ mpc = "start" /\ Unlocked
  /\ pingpeers(Bootnodes)
  /\ mpc' = "select"
  /\ UNCHANGED <<buckets, seen, lvars, pvars, svars, mfirst, refreshtimer,
                 dropping, announced>>

\* mainloop: case <-refreshtimer.C, a lookup begins unless the table is empty
Refresh ==
  /\ mpc = "select" /\ refreshtimer
  /\ refreshtimer' = isempty
  /\ mpc' = IF isempty THEN "start" ELSE "select"
  /\ UNCHANGED <<buckets, seen, qvars, lvars, pvars, svars, mfirst, dropping,
                 announced>>

\* lookupcallback: the lookup is over, refreshtimer is set again
LookupDone ==
  /\ ~refreshtimer /\ Asked = {}
  /\ refreshtimer' = TRUE
  /\ UNCHANGED <<buckets, seen, qvars, lvars, pvars, svars, mpc, mfirst,
                 dropping, announced>>

\* AddSeenRecord, called by the rpc server
AddSeenRecord(id) ==
  /\ SeenUnlocked /\ Len(seenlist) < MaxSeen
  /\ seenlist' = Append(seenlist, id)
  /\ seensig' = TRUE
  /\ seench' = (seench \/ ~seensig)
  /\ UNCHANGED <<buckets, seen, qvars, lvars, pvars, mvars, dropping, announced>>

\* mainloop: case <-node.seench; markseenpeers takes smutex
MarkSeen ==
  /\ mpc = "select" /\ seench
  /\ seench' = FALSE
  /\ mpc' = "mark"
  /\ UNCHANGED <<buckets, seen, qvars, lvars, pvars, seenlist, seensig, mfirst,
                 refreshtimer, dropping, announced>>

\* markseenpeers: seepeer for the next record
SeePeer ==
  /\ mpc = "mark" /\ seenlist # <<>>
  /\ LET id == Head(seenlist)  b == buckets[bucket(id)] IN
     IF Known(id)
     THEN UNCHANGED <<buckets, announced, mfirst, mpc>>
     ELSE /\ Seen(id)
          /\ announced' = IF Added(b, id) THEN announced \cup {id} ELSE announced
          /\ mfirst' = First(b, id)
          /\ mpc' = IF First(b, id) # {} THEN "first" ELSE "mark"
  /\ seen' = seen \cup {Head(seenlist)}
  /\ seenlist' = Tail(seenlist)
  /\ UNCHANGED <<qvars, lvars, pvars, seensig, seench, refreshtimer, dropping>>

\* rtable.seen, called by seepeer, calls pingpeer
SeePing ==
  /\ mpc = "first" /\ Unlocked
  /\ \E p \in mfirst : pingpeer(p)
  /\ mfirst' = {}
  /\ mpc' = "mark"
  /\ UNCHANGED <<buckets, seen, lvars, pvars, svars, refreshtimer, dropping,
                 announced>>

\* markseenpeers ends
MarkEnd ==
  /\ mpc = "mark" /\ seenlist = <<>>
  /\ seensig' = FALSE
  /\ mpc' = "select"
  /\ UNCHANGED <<buckets, seen, qvars, lvars, pvars, seenlist, seench, mfirst,
                 refreshtimer, dropping, announced>>

\* droppeer: the table forgets the peer, then Drop
DropPeer(id) ==
  /\ Drops /\ id \notin dropping
  /\ Known(id)
  /\ Remove(id)
  /\ dropping' = dropping \cup {id}
  /\ announced' = announced \ {id}
  /\ UNCHANGED <<seen, qvars, lvars, pvars, svars, mvars>>

-----------------------------------------------------------------------------
Loop ==
  \/ LoopSignalled \/ LoopLock \/ LoopEnd
  \/ \E p \in Ids : LoopSubmit(p)
Worker(w) ==
  TakeJob(w) \/ Replied(w) \/ PeerLive(w) \/ PeerDead(w) \/ PingFirst(w) \/ PingAll(w)
Main == Seed \/ Refresh \/ MarkSeen \/ SeePeer \/ SeePing \/ MarkEnd

NodeNext ==
  \/ Loop
  \/ \E w \in Workers : Worker(w)
  \/ Main
  \/ LookupDone
  \/ \E id \in Ids : Ask(id) \/ AddSeenRecord(id) \/ Drop(id)
  \/ \E id \in Ids \ {Self} : DropPeer(id)

NodeSpec == NodeInit /\ [][NodeNext]_nodeVars

\* Every goroutine that can go on does, and every rpc ends: its interests time
\* out.  That lookups ask or that records of peers arrive is not assumed.
NodeFairSpec ==
  /\ NodeSpec
  /\ WF_nodeVars(Loop)
  /\ \A w \in Workers : WF_nodeVars(Worker(w))
  /\ WF_nodeVars(Main)
  /\ WF_nodeVars(LookupDone)
  /\ \A id \in Ids : WF_nodeVars(Drop(id))

-----------------------------------------------------------------------------
\* Types, and the capacities of the pool's buffer and of a worker.
QueryTypes ==
  /\ waitinglist \subseteq Ids \ {Self} /\ askinglist \subseteq Ids \ {Self}
  /\ seen \subseteq Ids
  /\ pingsig \in BOOLEAN /\ pingch \in BOOLEAN
  /\ lpc \in {"select", "lock", "submit"}
  /\ todo \subseteq waitinglist /\ (Unlocked => todo = {})

JobTypes ==
  /\ slot \subseteq Jobs /\ \A i, j \in slot : i = j
  /\ wpc \in [Workers -> {"idle", "rpc", "live", "dead", "first", "all"}]
  /\ wjob \in [Workers -> SUBSET Jobs] /\ \A w \in Workers : \A i, j \in wjob[w] : i = j
  /\ wfirst \in [Workers -> SUBSET Ids]

MainTypes ==
  /\ seenlist \in Seq(Ids) /\ Len(seenlist) <= MaxSeen
  /\ seensig \in BOOLEAN /\ seench \in BOOLEAN
  /\ mpc \in {"start", "select", "mark", "first"} /\ mfirst \subseteq Ids
  /\ refreshtimer \in BOOLEAN
  /\ dropping \subseteq Ids \ {Self}
  /\ announced \subseteq Ids

NodeTypeOK == QueryTypes /\ JobTypes /\ MainTypes

\* The sends on pingch and seench, made with a mutex held, never block: the
\* slot of the channel is free whenever the flag that guards it is not set.
SignalsNeverBlock == (~pingsig => ~pingch) /\ (~seensig => ~seench)

\* No wakeup is lost: while peers wait to be pinged, or records to be marked,
\* a signal is pending or the loop that serves them is about to take them.
NoLostWakeup ==
  /\ waitinglist # {} => pingch \/ lpc # "select"
  /\ seenlist # <<>> => seench \/ ~SeenUnlocked

\* A peer in askinglist has a ping under way.  Otherwise its entry would never
\* be deleted and pingpeer would refuse to ping the peer for good.
AskingHasJob ==
  \A id \in askinglist : LET j == [kind |-> "ping", p |-> id] IN
    j \in slot \/ \E w \in Workers : wpc[w] = "rpc" /\ j \in wjob[w]

\* A peer that was last reported live is a peer of the table.
AnnouncedInTable == announced \subseteq Peers

\* The parts that make the above inductive: a flag is set exactly while its
\* signal is pending or being served, ...
Flags ==
  /\ pingsig <=> pingch \/ lpc # "select"
  /\ lpc # "select" => ~pingch
  /\ seensig <=> seench \/ ~SeenUnlocked
  /\ ~SeenUnlocked => ~seench

\* ... and the local node is never found dead.
DeadIsOther == \A w \in Workers : wpc[w] = "dead" => \A j \in wjob[w] : j.p # Self

NodeInv ==
  /\ TableInv
  /\ NodeTypeOK
  /\ Flags
  /\ NoLostWakeup
  /\ AskingHasJob
  /\ DeadIsOther
  /\ AnnouncedInTable

\* "Once a peer response, it will be added to the routing table" (node.go:152):
\* the outcome of a ping or findnode is always handled.
RepliesHandled == \A w \in Workers : (wpc[w] = "rpc") ~> (wpc[w] # "rpc")

=============================================================================
