------------------------------ MODULE PeerSet ------------------------------
(***************************************************************************)
(* The peers of the eth controller: peerSet (src/ndn/eth/peerlist.go), the *)
(* handshakes and departures that handler.go runs over it, and the life of *)
(* a peer object (peer.go) with its sending loop (peerannounce.go).        *)
(*                                                                         *)
(* A handler is a goroutine that runs onNewKadPeer (this node offers),     *)
(* receiveStatus (it is offered) or a departure (receiveBye,               *)
(* onDropKadPeer, dropRandomPeer, dropPeer).  peerSet.mutex is held over   *)
(* two steps only by register, which waits inside it for the kmutex of the *)
(* peer; kmutex is held over two steps by close, which waits for the loop; *)
(* and the loop takes peerSet.mutex to unregister.  Every other critical   *)
(* section is one action.                                                  *)
(***************************************************************************)
EXTENDS Naturals, FiniteSets

CONSTANTS
  Ids,        \* identities of remote nodes
  Objs,       \* peer objects, the bound on calls of newpeer
  Handlers,   \* goroutines at work at a time
  None,       \* nil
  MaxIns,     \* Controller.maxIns
  MaxOuts     \* Controller.maxOuts

ASSUME PeersAssumption ==
  /\ IsFiniteSet(Ids)
  /\ None \notin Ids \cup Objs \cup Handlers
  /\ MaxIns \in Nat /\ MaxOuts \in Nat

VARIABLES
  peers, pendings, numins, numouts, psmutex, \* of peerSet
  pid, dir, status, kmutex,           \* of each peer object
  loop,                               \* where its sending loop is
  quit,                               \* objects whose loop's quit is closed
  pc, hid, hobj                       \* of each handler: place, id, p

pvars == <<peers, pendings, numins, numouts>>
ovars == <<pid, dir>>
hvars == <<hid, hobj>>
vars == <<pvars, psmutex, ovars, status, kmutex, loop, quit, pc, hvars>>

\* Places of a handler, in the order of the code
Places == {"idle", "make_out", "make_in", "hello", "wait", "reject", "serve",
           "register", "start", "close", "closing", "panic"}

\* A loop that is still to call unregister
Active == {"spawned", "running", "leaving"}

-----------------------------------------------------------------------------
\* newpeerset
Init ==
  /\ peers = [i \in Ids |-> None] /\ pendings = [i \in Ids |-> None]
  /\ numins = 0 /\ numouts = 0 /\ psmutex = None
  /\ pid = [o \in Objs |-> None] /\ dir = [o \in Objs |-> FALSE]
  /\ status = [o \in Objs |-> "HANDSHAKING"] /\ kmutex = [o \in Objs |-> None]
  /\ loop = [o \in Objs |-> "nil"] /\ quit = {}
  /\ pc = [h \in Handlers |-> "idle"]
  /\ hid = [h \in Handlers |-> None] /\ hobj = [h \in Handlers |-> None]

\* A handler goes on to a place, with its id and p, or returns.
Go(h, place) == pc' = [pc EXCEPT ![h] = place] /\ UNCHANGED hvars
Return(h) ==
  /\ pc' = [pc EXCEPT ![h] = "idle"]
  /\ hid' = [hid EXCEPT ![h] = None] /\ hobj' = [hobj EXCEPT ![h] = None]

-----------------------------------------------------------------------------
(* Handshakes *)

\* onNewKadPeer: "can we accept more peer?"
NewKadPeer(h, i) ==
  /\ pc[h] = "idle" /\ psmutex = None
  /\ numouts < MaxOuts
  /\ pc' = [pc EXCEPT ![h] = "make_out"] /\ hid' = [hid EXCEPT ![h] = i]
  /\ UNCHANGED <<pvars, psmutex, ovars, status, kmutex, loop, quit, hobj>>

\* receiveStatus, for a message that passes checkHandshake; any other offer is
\* refused and changes nothing
ReceiveStatus(h, i) ==
  /\ pc[h] = "idle" /\ psmutex = None
  /\ numins < MaxIns
  /\ pc' = [pc EXCEPT ![h] = "make_in"] /\ hid' = [hid EXCEPT ![h] = i]
  /\ UNCHANGED <<pvars, psmutex, ovars, status, kmutex, loop, quit, hobj>>

\* newpeer: which of the unused objects it is makes no difference
Fresh == { o \in Objs : pid[o] = None }
newpeer == CHOOSE o \in Fresh : TRUE

\* makenewpeer, with newpeer; receiveStatus goes on to reply
MakeNewPeer(h) ==
  /\ pc[h] \in {"make_out", "make_in"} /\ psmutex = None
  /\ LET i == hid[h] IN
     \/ /\ peers[i] # None
        /\ hobj' = [hobj EXCEPT ![h] = peers[i]]
        /\ UNCHANGED <<pid, dir, pendings>>
     \/ /\ peers[i] = None /\ pendings[i] # None
        /\ hobj' = [hobj EXCEPT ![h] = pendings[i]]
        /\ UNCHANGED <<pid, dir, pendings>>
     \/ /\ peers[i] = None /\ pendings[i] = None
        /\ Fresh # {}
        /\ LET o == newpeer IN
             /\ pid' = [pid EXCEPT ![o] = i]
             /\ dir' = [dir EXCEPT ![o] = (pc[h] = "make_out")]
             /\ pendings' = [pendings EXCEPT ![i] = o]
             /\ hobj' = [hobj EXCEPT ![h] = o]
  /\ pc' = [pc EXCEPT ![h] = IF @ = "make_out" THEN "hello" ELSE "serve"]
  /\ UNCHANGED <<peers, numins, numouts, psmutex, status, kmutex, loop,
                 quit, hid>>

\* onNewKadPeer: isConnected, then the Status message is on its way
Hello(h) ==
  /\ pc[h] = "hello"
  /\ IF status[hobj[h]] = "CONNECTED" THEN Return(h) ELSE Go(h, "wait")
  /\ UNCHANGED <<pvars, psmutex, ovars, status, kmutex, loop, quit>>

\* sendStatus returns: accepted, or refused, mismatched or timed out
Answer(h) ==
  /\ pc[h] = "wait"
  /\ \/ Go(h, "register") \/ Go(h, "reject")
  /\ UNCHANGED <<pvars, psmutex, ovars, status, kmutex, loop, quit>>

\* reject: the pending peer of that identity is forgotten, whichever it is
Reject(h) ==
  /\ pc[h] = "reject" /\ psmutex = None
  /\ pendings' = [pendings EXCEPT ![hid[h]] = None]
  /\ Return(h)
  /\ UNCHANGED <<peers, numins, numouts, psmutex, ovars, status, kmutex,
                 loop, quit>>

\* receiveStatus: the reply is served, then isConnected
Serve(h) ==
  /\ pc[h] = "serve"
  /\ IF status[hobj[h]] = "CONNECTED" THEN Return(h) ELSE Go(h, "register")
  /\ UNCHANGED <<pvars, psmutex, ovars, status, kmutex, loop, quit>>

\* Mutant: register does not look whether the peer is registered.
registerAgain(h) ==
  /\ pc[h] = "register" /\ psmutex = None
  /\ LET o == hobj[h]  i == hid[h] IN
     /\ pendings' = [pendings EXCEPT ![i] = None]
     /\ peers' = [peers EXCEPT ![i] = o]
     /\ status' = [status EXCEPT ![o] = "CONNECTED"]
     /\ numouts' = IF dir[o] THEN numouts + 1 ELSE numouts
     /\ numins' = IF dir[o] THEN numins ELSE numins + 1
  /\ psmutex' = h /\ Go(h, "start")
  /\ UNCHANGED <<ovars, kmutex, loop, quit>>

\* register, up to startsendingloop
Register(h) ==
  /\ pc[h] = "register" /\ psmutex = None
  /\ LET o == hobj[h]  i == hid[h] IN
     /\ pendings' = [pendings EXCEPT ![i] = None]
     /\ \/ /\ peers[i] # None
           /\ Return(h)
           /\ UNCHANGED <<peers, status, numins, numouts, psmutex>>
        \/ /\ peers[i] = None
           /\ peers' = [peers EXCEPT ![i] = o]
           /\ status' = [status EXCEPT ![o] = "CONNECTED"]
           /\ numouts' = IF dir[o] THEN numouts + 1 ELSE numouts
           /\ numins' = IF dir[o] THEN numins ELSE numins + 1
           /\ psmutex' = h /\ Go(h, "start")
  /\ UNCHANGED <<ovars, kmutex, loop, quit>>

\* startsendingloop, which starts no second loop; register returns, and the
\* syncer is told
StartSendingLoop(h) ==
  /\ pc[h] = "start" /\ kmutex[hobj[h]] = None
  /\ loop' = [loop EXCEPT ![hobj[h]] = IF @ = "nil" THEN "spawned" ELSE @]
  /\ psmutex' = None
  /\ Return(h)
  /\ UNCHANGED <<pvars, ovars, status, kmutex, quit>>

-----------------------------------------------------------------------------
(* Departures *)

\* getPeer or getRandomPeer finds the peer to drop, the syncer and the fetchers
\* are told
Find(h, i) ==
  /\ pc[h] = "idle" /\ psmutex = None
  /\ peers[i] # None
  /\ pc' = [pc EXCEPT ![h] = "close"]
  /\ hid' = [hid EXCEPT ![h] = i] /\ hobj' = [hobj EXCEPT ![h] = peers[i]]
  /\ UNCHANGED <<pvars, psmutex, ovars, status, kmutex, loop, quit>>

\* Mutant: close does not tell the loop to quit.
closeQuiet(h) ==
  /\ pc[h] = "close" /\ kmutex[hobj[h]] = None
  /\ LET o == hobj[h] IN
     IF status[o] # "CONNECTED"
     THEN Return(h) /\ UNCHANGED <<status, quit, kmutex>>
     ELSE /\ status' = [status EXCEPT ![o] = "CLOSED"]
          /\ kmutex' = [kmutex EXCEPT ![o] = h]
          /\ Go(h, "closing") /\ UNCHANGED quit
  /\ UNCHANGED <<pvars, psmutex, ovars, loop>>

\* peer.close: the quit channel is closed, a second time it panics
Close(h) ==
  /\ pc[h] = "close" /\ kmutex[hobj[h]] = None
  /\ LET o == hobj[h] IN
     \/ /\ status[o] # "CONNECTED"
        /\ Return(h)
        /\ UNCHANGED <<status, quit, kmutex>>
     \/ /\ status[o] = "CONNECTED"
        /\ status' = [status EXCEPT ![o] = "CLOSED"]
        /\ quit' = quit \cup {o}
        /\ kmutex' = [kmutex EXCEPT ![o] = h]
        /\ Go(h, IF o \in quit THEN "panic" ELSE "closing")
  /\ UNCHANGED <<pvars, psmutex, ovars, loop>>

\* peersendingloop.close: wg.Wait, which does not wait for a loop that has not
\* come to wg.Add
Closed(h) ==
  /\ pc[h] = "closing" /\ loop[hobj[h]] \notin {"running", "leaving"}
  /\ kmutex' = [kmutex EXCEPT ![hobj[h]] = None]
  /\ Return(h)
  /\ UNCHANGED <<pvars, psmutex, ovars, status, loop, quit>>

-----------------------------------------------------------------------------
(* peersendingloop.run, as far as the peer's life is concerned *)

\* wg.Add(1), inside the goroutine
LoopBegin(o) ==
  /\ loop[o] = "spawned"
  /\ loop' = [loop EXCEPT ![o] = "running"]
  /\ UNCHANGED <<pvars, psmutex, ovars, status, kmutex, quit, pc, hvars>>

\* The loop sees quit, or an announcement has failed
LoopBreak(o) ==
  /\ loop[o] = "running"
  /\ loop' = [loop EXCEPT ![o] = "leaving"]
  /\ UNCHANGED <<pvars, psmutex, ovars, status, kmutex, quit, pc, hvars>>

\* Mutant: every peer is counted as one this node has offered to.
unregisterOut(o) ==
  /\ loop[o] = "leaving" /\ psmutex = None
  /\ numouts' = numouts - 1
  /\ peers' = [peers EXCEPT ![pid[o]] = None]
  /\ loop' = [loop EXCEPT ![o] = "done"]
  /\ UNCHANGED <<pendings, numins, psmutex, ovars, status, kmutex, quit, pc,
                 hvars>>

\* peerSet.unregister; wg.Done.  A peer that is not in the set is ignored.
Unregister(o) ==
  /\ loop[o] = "leaving" /\ psmutex = None
  /\ LET known == peers[pid[o]] # None IN
     /\ numouts' = IF known /\ dir[o] THEN numouts - 1 ELSE numouts
     /\ numins' = IF known /\ ~dir[o] THEN numins - 1 ELSE numins
     /\ peers' = [peers EXCEPT ![pid[o]] = None]
  /\ loop' = [loop EXCEPT ![o] = "done"]
  /\ UNCHANGED <<pendings, psmutex, ovars, status, kmutex, quit, pc, hvars>>

-----------------------------------------------------------------------------
Handler(h) ==
  \/ MakeNewPeer(h) \/ Hello(h) \/ Answer(h) \/ Reject(h) \/ Serve(h)
  \/ Register(h) \/ StartSendingLoop(h)
  \/ Close(h) \/ Closed(h)
Loop(o) == LoopBegin(o) \/ LoopBreak(o) \/ Unregister(o)

\* A panic of one goroutine ends the program.
Alive == \A h \in Handlers : pc[h] # "panic"

Next ==
  /\ Alive
  /\ \/ \E h \in Handlers, i \in Ids :
          NewKadPeer(h, i) \/ ReceiveStatus(h, i) \/ Find(h, i)
     \/ \E h \in Handlers : Handler(h)
     \/ \E o \in Objs : Loop(o)

Spec == Init /\ [][Next]_vars

\* Goroutines that can go on do, and a handshake is answered or times out.
\* That a send fails, or that anybody comes or leaves, is not assumed.
FairSpec ==
  /\ Spec
  /\ \A h \in Handlers : WF_vars(Alive /\ Handler(h))
  /\ \A o \in Objs : WF_vars(Alive /\ (LoopBegin(o) \/ Unregister(o) \/
                                        (o \in quit /\ LoopBreak(o))))

-----------------------------------------------------------------------------
PeersTypeOK ==
  /\ peers \in [Ids -> Objs \cup {None}] /\ pendings \in [Ids -> Objs \cup {None}]
  /\ numins \in Nat /\ numouts \in Nat
  /\ psmutex \in Handlers \cup {None}
  /\ pid \in [Objs -> Ids \cup {None}] /\ dir \in [Objs -> BOOLEAN]
  /\ status \in [Objs -> {"HANDSHAKING", "CONNECTED", "CLOSED"}]
  /\ kmutex \in [Objs -> Handlers \cup {None}]
  /\ loop \in [Objs -> {"nil", "done"} \cup Active]
  /\ quit \subseteq Objs
  /\ pc \in [Handlers -> Places]
  /\ hid \in [Handlers -> Ids \cup {None}] /\ hobj \in [Handlers -> Objs \cup {None}]

\* numins and numouts, which decide whether a peer may come in, agree with the
\* peers that are in, however a peer object is shared, registered again and
\* unregistered by its loop.
Outs == { i \in Ids : peers[i] # None /\ dir[peers[i]] }
Ins == { i \in Ids : peers[i] # None /\ ~dir[peers[i]] }
Counts == numouts = Cardinality(Outs) /\ numins = Cardinality(Ins)

\* A loop that is still to unregister its peer belongs to the peer that is
\* registered: it never removes another one (unregister deletes by identity).
LoopOwnsEntry == \A o \in Objs : loop[o] \in Active => peers[pid[o]] = o

\* A pending peer is still in its handshake: neither connected nor closed.
PendingHandshaking ==
  \A i \in Ids : pendings[i] # None =>
    pid[pendings[i]] = i /\ status[pendings[i]] = "HANDSHAKING"

\* peerSet.mutex, kmutex and the loop do not wait for each other in a circle:
\* register waits for the kmutex only of a peer whose loop is over.
NoLockCycle ==
  \A h \in Handlers :
    pc[h] = "start" /\ kmutex[hobj[h]] # None => loop[hobj[h]] = "done"

\* The parts that make the above inductive: what the variables of a handler
\* stand for at each of its places, ...
HandlerFacts ==
  \A h \in Handlers :
    /\ pc[h] # "idle" => hid[h] \in Ids
    /\ pc[h] \notin {"idle", "make_out", "make_in"} =>
         hobj[h] \in Objs /\ pid[hobj[h]] = hid[h]
    /\ pc[h] \in {"close", "closing"} => loop[hobj[h]] # "nil"

\* ... the mutexes, held by register and by close, ...
Locking ==
  /\ \A h \in Handlers : psmutex = h <=> pc[h] = "start"
  /\ \A h \in Handlers : pc[h] = "start" =>
       peers[hid[h]] = hobj[h] /\ loop[hobj[h]] \notin Active
  /\ \A o \in Objs : kmutex[o] # None => loop[o] # "nil"

\* ... the objects that are registered, and those that are unused.
ObjectFacts ==
  /\ \A i \in Ids : peers[i] # None =>
       /\ pid[peers[i]] = i
       /\ loop[peers[i]] = "nil" => psmutex # None /\ hobj[psmutex] = peers[i]
  /\ \A o \in Objs : pid[o] = None => loop[o] = "nil" /\ status[o] = "HANDSHAKING"

PeersInv ==
  /\ PeersTypeOK
  /\ HandlerFacts
  /\ Locking
  /\ ObjectFacts
  /\ Counts
  /\ LoopOwnsEntry
  /\ PendingHandshaking
  /\ NoLockCycle

\* close, called with the kmutex held, comes back as long as the program runs:
\* the loop it waits for unregisters the peer and ends.
CloseReturns ==
  \A h \in Handlers : (pc[h] = "closing") ~> (pc[h] # "closing" \/ ~Alive)

\* "peer is unregistered from peerSet once its mainloop ends" (handler.go:635):
\* a registered peer has a loop that is still to unregister it.
RegisteredHasLoop ==
  psmutex = None => \A i \in Ids : peers[i] # None => loop[peers[i]] \in Active
=============================================================================
