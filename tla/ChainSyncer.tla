---------------------------- MODULE ChainSyncer ----------------------------
(***************************************************************************)
(* The chain syncer of src/ndn/eth/syncer.go around the Downloader: the    *)
(* goroutine loop starts a synchronisation when the best peer is ahead and *)
(* enough peers are known, and ends it when stop is called; addpeer and    *)
(* peerevent wake the loop up.                                             *)
(***************************************************************************)
EXTENDS Downloader

VARIABLES
  kmutex,     \* who holds chainsyncer.kmutex: "none", "event" or "stop"
  csdead,     \* chainsyncer.dead
  peerEventCh,\* capacity 1: does it hold an event?
  doneCh,     \* "nil", "empty" or "full"
  lpc,        \* loop: its place
  forced, killed, \* loop: its variables
  stpc        \* stop: its place

lvars == <<lpc, forced, killed>>
cvars == <<kmutex, csdead, peerEventCh, doneCh, lvars, stpc>>
vars == <<dvars, cvars>>

\* newchainsyncer
Init ==
  /\ DInit
  /\ kmutex = "none" /\ csdead = TRUE
  /\ peerEventCh = FALSE /\ doneCh = "nil"
  /\ lpc = "none" /\ forced = FALSE /\ killed = FALSE
  /\ stpc = "none"

-----------------------------------------------------------------------------
\* The rest of nextop with npeers peers in the set: there are enough of them, and
\* the best one is ahead
Wanted(npeers, force) == npeers >= (IF force THEN 1 ELSE 3) /\ chain < Last

\* Mutant: startsync does not note that a sync is running
nextOpForgets(done, force) ==
  /\ IF done # "nil" THEN doneCh' = done /\ UNCHANGED spc
     ELSE \E npeers \in 0..3 :
            /\ doneCh' = done
            /\ IF Wanted(npeers, force) THEN spc' = "spawned" ELSE UNCHANGED spc
  /\ forced' = force /\ lpc' = "select"
  /\ UNCHANGED <<chain, quit, result, ancestor, preq, others>>

\* The loop reaches its select again: nextop, which leaves a sync that is running
\* alone, and startsync (go dosync)
NextOp(done, force) ==
  /\ IF done # "nil" THEN doneCh' = done /\ UNCHANGED spc
     ELSE \E npeers \in 0..3 :
            IF Wanted(npeers, force) THEN spc' = "spawned" /\ doneCh' = "empty"
            ELSE doneCh' = done /\ UNCHANGED spc
  /\ forced' = force /\ lpc' = "select"
  /\ UNCHANGED <<chain, quit, result, ancestor, preq, others>>

\* start: go cs.loop()
Start ==
  /\ kmutex = "none" /\ csdead /\ stpc = "none"
  /\ csdead' = FALSE
  /\ NextOp(doneCh, forced)
  /\ UNCHANGED <<kmutex, peerEventCh, killed, stpc>>

\* addpeer and peerevent: the event is sent with the
\* lock held, also while the channel is full
PeerEvent ==
  /\ kmutex = "none" /\ ~csdead
  /\ IF peerEventCh THEN kmutex' = "event" /\ UNCHANGED peerEventCh
                    ELSE peerEventCh' = TRUE /\ UNCHANGED kmutex
  /\ UNCHANGED <<dvars, csdead, doneCh, lvars, stpc>>

SendEvent ==
  /\ kmutex = "event" /\ ~peerEventCh
  /\ peerEventCh' = TRUE /\ kmutex' = "none"
  /\ UNCHANGED <<dvars, csdead, doneCh, lvars, stpc>>

\* peerDropped of the master of the work
PeerDropped == MasterQuits /\ UNCHANGED cvars

-----------------------------------------------------------------------------
(* chainsyncer.loop *)

OnPeerEvent ==
  /\ lpc = "select" /\ peerEventCh
  /\ peerEventCh' = FALSE
  /\ NextOp(doneCh, forced)
  /\ UNCHANGED <<kmutex, csdead, killed, stpc>>

\* synchronise has returned, dosync sends on doneCh
SyncDone ==
  /\ spc = "returned"
  /\ spc' = "idle" /\ doneCh' = "full"
  /\ UNCHANGED <<chain, quit, result, ancestor, preq, others, kmutex, csdead,
                 peerEventCh, lvars, stpc>>

OnDone ==
  /\ lpc = "select" /\ doneCh = "full"
  /\ IF killed THEN lpc' = "done" /\ UNCHANGED <<dvars, doneCh, forced>>
               ELSE NextOp("nil", FALSE)
  /\ UNCHANGED <<kmutex, csdead, peerEventCh, killed, stpc>>

\* synctimer
OnTimer ==
  /\ lpc = "select"
  /\ NextOp(doneCh, TRUE)
  /\ UNCHANGED <<kmutex, csdead, peerEventCh, killed, stpc>>

\* The rendezvous on quit: StopInsert, then terminate closes Downloader.quit
OnQuit ==
  /\ lpc = "select" /\ stpc = "send"
  /\ stpc' = "wait" /\ csdead' = TRUE
  /\ quit' = TRUE /\ lpc' = "term"
  /\ UNCHANGED <<chain, svars, preq, others, kmutex, peerEventCh, doneCh,
                 forced, killed>>

\* Mutant: the loop ends without waiting for the sync that is running
terminatedLeaves ==
  /\ lpc = "term"
  /\ killed' = TRUE /\ lpc' = "done"
  /\ UNCHANGED <<dvars, kmutex, csdead, peerEventCh, doneCh, forced, stpc>>

\* Mutant: killed is not set
terminatedGoesOn ==
  /\ lpc = "term" /\ spc \in {"idle", "spawned", "returned"}
  /\ lpc' = IF doneCh # "nil" THEN "select" ELSE "done"
  /\ UNCHANGED <<dvars, kmutex, csdead, peerEventCh, doneCh, forced, killed, stpc>>

\* terminate waits for synchronise if it has begun; a sync that is running, or
\* has yet to be collected, is waited for
Terminated ==
  /\ lpc = "term" /\ spc \in {"idle", "spawned", "returned"}
  /\ IF doneCh # "nil" THEN killed' = TRUE /\ lpc' = "select"
                       ELSE lpc' = "done" /\ UNCHANGED killed
  /\ UNCHANGED <<dvars, kmutex, csdead, peerEventCh, doneCh, forced, stpc>>

-----------------------------------------------------------------------------
\* stop, which keeps the lock until the loop has ended
StopCall ==
  /\ kmutex = "none" /\ ~csdead /\ stpc = "none"
  /\ kmutex' = "stop" /\ stpc' = "send"
  /\ UNCHANGED <<dvars, csdead, peerEventCh, doneCh, lvars>>

StopReturn ==
  /\ stpc = "wait" /\ lpc = "done"
  /\ kmutex' = "none" /\ stpc' = "returned"
  /\ UNCHANGED <<dvars, csdead, peerEventCh, doneCh, lvars>>

-----------------------------------------------------------------------------
Next ==
  \/ SyncStep /\ UNCHANGED cvars
  \/ Start \/ PeerEvent \/ SendEvent \/ PeerDropped
  \/ OnPeerEvent \/ SyncDone \/ OnDone \/ OnTimer \/ OnQuit \/ Terminated
  \/ StopCall \/ StopReturn

Spec == Init /\ [][Next]_vars

\* Goroutines run, requests are answered in time, and the select of loop takes
\* any of its ready cases in turn.  Calls from outside need not come.
Fairness ==
  /\ WF_vars(SyncStep /\ UNCHANGED cvars)
  /\ WF_vars(SendEvent) /\ WF_vars(SyncDone)
  /\ WF_vars(OnPeerEvent) /\ WF_vars(OnDone) /\ WF_vars(OnQuit)
  /\ WF_vars(Terminated) /\ WF_vars(StopReturn)

FairSpec == Spec /\ Fairness

-----------------------------------------------------------------------------
(* Properties *)

\* Values of the variables; Start and stop happen once
SyncerTypes ==
  /\ kmutex \in {"none", "event", "stop"}
  /\ csdead \in BOOLEAN /\ peerEventCh \in BOOLEAN
  /\ doneCh \in {"nil", "empty", "full"}
  /\ lpc \in {"none", "select", "term", "done"}
  /\ forced \in BOOLEAN /\ killed \in BOOLEAN
  /\ stpc \in {"none", "send", "wait", "returned"}

TypeOK == DTypeOK /\ SyncerTypes

\* startsync never replaces the work of a synchronisation that is not over: its
\* goroutines would go on with the work of another one
OneSync == [][spc' = "spawned" => spc \in {"idle", "spawned"}]_vars

\* When stop has returned no synchronisation runs, none will start and no block
\* is inserted any more
StoppedIsIdle ==
  stpc = "returned" => spc = "idle" /\ ppc \in {"none", "done"}

Lost == \E c \in Clients : preq[c] = "lost"

\* What each part of a synchronisation waits for: the goroutine of kill, the
\* workers of both pools, synchronise, and the goroutines of the work
KillMoves ==
  \/ kpc = "ppool"
  \/ kpc = "pwait" /\ \A c \in Clients : preq[c] # "pending"
  \/ kpc = "bwait" /\ \A n \in Blocks : ~Working(n)

JobMoves(n) ==
  \/ bst[n] = "queued" /\ (bclosed \/ Cardinality(Running) < BWorkers)
  \/ bst[n] = "try" \/ (bst[n] = "asked" /\ preq[n] \in Answered)
  \/ bst[n] = "put" /\ Len(newblockCh) < Signals

SynchroniseMoves ==
  \/ spc \in {"height", "ancestor"} /\ preq[Master] \in Answered
  \/ spc = "wait" /\ hpc = "done" /\ fpc = "done" /\ ppc = "done"
  \/ spc = "returned"

HeadersMove ==
  \/ hpc \in {"loop", "check"} \/ (hpc = "wait" /\ preq[Master] \in Answered)
  \/ hpc = "send" /\ fpc = "range"
  \/ hpc = "end" /\ Finished

BlocksMove ==
  \/ fpc = "submit" /\ (fabort \/ bclosed \/ Cardinality(Queued) < BQueue)
  \/ fpc = "range" /\ hpc = "done"

ProcessMoves ==
  \/ ppc \in {"start", "insert"}
  \/ ppc = "range" /\ (newblockCh # <<>> \/ fpc = "done")

WorkMoves ==
  \/ KillMoves \/ SynchroniseMoves \/ HeadersMove \/ BlocksMove \/ ProcessMoves
  \/ \E c \in Clients : preq[c] = "pending"
  \/ \E n \in Blocks : JobMoves(n)

\* The loop, stop, and a sender of events
LoopMoves ==
  \/ lpc = "select" /\ (peerEventCh \/ doneCh = "full" \/ stpc = "send")
  \/ lpc = "term" /\ spc \in {"idle", "spawned", "returned"}
  \/ lpc = "done" /\ stpc = "wait"
  \/ kmutex = "event" /\ ~peerEventCh

\* Nobody waits in a circle, with channels that have no buffer or are full and
\* pools that are being stopped: while a caller holds kmutex, the loop can go on
\* or a synchronisation runs; and while one runs, a part of it can go on, unless
\* ppool dropped a request that it had accepted
NeverStuck ==
  /\ kmutex # "none" => LoopMoves \/ spc # "idle"
  /\ spc \notin {"idle", "spawned"} => WorkMoves \/ Lost

\* Every synchronisation returns, unless ppool dropped a request that it had
\* accepted
SyncEnds == spc \notin {"idle", "spawned"} ~> (spc = "idle" \/ Lost)

\* The calls that take kmutex release it: addpeer and peerevent, whose event the
\* loop always takes, and stop, with the same exception
CallsReturn ==
  kmutex # "none" ~> (kmutex = "none" \/ (Lost /\ kmutex = "stop"))

\* fetchHeaders "exits due to any following reasons: 1) worker pool has stopped"
HeadersExit == (hpc # "none" /\ kpc = "bwait") ~> hpc = "done"
=============================================================================
