--------------------------- MODULE PeerSetProofs ---------------------------
(***************************************************************************)
(* PeersInv is inductive: for any number of identities, peer objects and   *)
(* handlers, the counters of the peer set agree with its entries, a loop   *)
(* unregisters only its own peer, and the mutexes admit no circular wait.  *)
(***************************************************************************)
EXTENDS PeerSet, FiniteSetTheorems, TLAPS

\* newpeerset makes an empty set.
LEMMA PeersStart == Init => PeersInv
<1> SUFFICES ASSUME Init PROVE PeersInv
  OBVIOUS
<1> USE PeersAssumption
<1>1. Outs = {} /\ Ins = {}
  BY Zenon DEF Init, Outs, Ins
<1>2. Counts
  BY <1>1, FS_EmptySet, Zenon DEF Init, Counts
<1>3. PeersTypeOK
  BY Zenon DEF Init, PeersTypeOK, Places, Active
<1> QED
  BY <1>2, <1>3, Zenon DEF Init, PeersInv, HandlerFacts, Locking, ObjectFacts,
      LoopOwnsEntry,
      PendingHandshaking, NoLockCycle, Active

\* Every step of a handler or of a sending loop preserves PeersInv.
LEMMA PeersStep == PeersInv /\ [Next]_vars => PeersInv'
<1> SUFFICES ASSUME PeersTypeOK, HandlerFacts, Locking, ObjectFacts, Counts,
                    LoopOwnsEntry, PendingHandshaking, NoLockCycle, [Next]_vars
             PROVE  PeersInv'
  BY Zenon DEF PeersInv
<1> USE PeersAssumption
<1>1. ASSUME NEW h \in Handlers, NEW i \in Ids, NewKadPeer(h, i) PROVE PeersInv'
  <2>1. PeersTypeOK'
    BY <1>1, Zenon DEF NewKadPeer, Go, Return, pvars, ovars, hvars, PeersTypeOK, Places,
        Active, HandlerFacts, ObjectFacts
  <2>2. HandlerFacts'
    BY <1>1 DEF NewKadPeer, Go, Return, pvars, ovars, hvars, PeersTypeOK,
        HandlerFacts, ObjectFacts, Places
  <2>3. Locking'
    BY <1>1 DEF NewKadPeer, Go, Return, pvars, ovars, hvars, PeersTypeOK,
        HandlerFacts, Locking, ObjectFacts, LoopOwnsEntry, Active
  <2>4. ObjectFacts'
    BY <1>1, Zenon DEF NewKadPeer, Go, Return, pvars, ovars, hvars, PeersTypeOK,
        HandlerFacts, ObjectFacts, Locking, Active
  <2>5. LoopOwnsEntry'
    BY <1>1, Zenon DEF NewKadPeer, Go, Return, pvars, ovars, hvars, PeersTypeOK,
        HandlerFacts, LoopOwnsEntry, ObjectFacts, Active
  <2>6. PendingHandshaking'
    BY <1>1, Zenon DEF NewKadPeer, Go, Return, pvars, ovars, hvars, PeersTypeOK,
        HandlerFacts, PendingHandshaking, ObjectFacts
  <2>7. NoLockCycle'
    BY <1>1 DEF NewKadPeer, Go, Return, pvars, ovars, hvars, PeersTypeOK,
        HandlerFacts, NoLockCycle, Locking, Active
  <2>8. Counts'
    <3>1. Outs' = Outs /\ Ins' = Ins /\ UNCHANGED <<numins, numouts>>
      BY <1>1, Zenon DEF NewKadPeer, Go, Return, pvars, ovars, Outs, Ins
    <3> QED BY <3>1, Zenon DEF Counts
  <2> QED BY <2>1, <2>2, <2>3, <2>4, <2>5, <2>6, <2>7, <2>8, Zenon DEF PeersInv
<1>2. ASSUME NEW h \in Handlers, NEW i \in Ids, ReceiveStatus(h, i) PROVE PeersInv'
  <2>1. PeersTypeOK'
    BY <1>2, Zenon DEF ReceiveStatus, Go, Return, pvars, ovars, hvars, PeersTypeOK, Places,
        Active, HandlerFacts, ObjectFacts
  <2>2. HandlerFacts'
    BY <1>2 DEF ReceiveStatus, Go, Return, pvars, ovars, hvars, PeersTypeOK,
        HandlerFacts, ObjectFacts, Places
  <2>3. Locking'
    BY <1>2 DEF ReceiveStatus, Go, Return, pvars, ovars, hvars, PeersTypeOK,
        HandlerFacts, Locking, ObjectFacts, LoopOwnsEntry, Active
  <2>4. ObjectFacts'
    BY <1>2, Zenon DEF ReceiveStatus, Go, Return, pvars, ovars, hvars, PeersTypeOK,
        HandlerFacts, ObjectFacts, Locking, Active
  <2>5. LoopOwnsEntry'
    BY <1>2, Zenon DEF ReceiveStatus, Go, Return, pvars, ovars, hvars, PeersTypeOK,
        HandlerFacts, LoopOwnsEntry, ObjectFacts, Active
  <2>6. PendingHandshaking'
    BY <1>2, Zenon DEF ReceiveStatus, Go, Return, pvars, ovars, hvars, PeersTypeOK,
        HandlerFacts, PendingHandshaking, ObjectFacts
  <2>7. NoLockCycle'
    BY <1>2 DEF ReceiveStatus, Go, Return, pvars, ovars, hvars, PeersTypeOK,
        HandlerFacts, NoLockCycle, Locking, Active
  <2>8. Counts'
    <3>1. Outs' = Outs /\ Ins' = Ins /\ UNCHANGED <<numins, numouts>>
      BY <1>2, Zenon DEF ReceiveStatus, Go, Return, pvars, ovars, Outs, Ins
    <3> QED BY <3>1, Zenon DEF Counts
  <2> QED BY <2>1, <2>2, <2>3, <2>4, <2>5, <2>6, <2>7, <2>8, Zenon DEF PeersInv
<1>3. ASSUME NEW h \in Handlers, NEW i \in Ids, Find(h, i) PROVE PeersInv'
  <2>1. PeersTypeOK'
    BY <1>3 DEF Find, Go, Return, pvars, ovars, hvars, PeersTypeOK, Places, Active,
        HandlerFacts, ObjectFacts
  <2>2. HandlerFacts'
    BY <1>3 DEF Find, Go, Return, pvars, ovars, hvars, PeersTypeOK, HandlerFacts,
        ObjectFacts, Places
  <2>3. Locking'
    BY <1>3 DEF Find, Go, Return, pvars, ovars, hvars, PeersTypeOK, HandlerFacts,
        Locking, ObjectFacts, LoopOwnsEntry, Active
  <2>4. ObjectFacts'
    BY <1>3, Zenon DEF Find, Go, Return, pvars, ovars, hvars, PeersTypeOK, HandlerFacts,
        ObjectFacts, Locking, Active
  <2>5. LoopOwnsEntry'
    BY <1>3, Zenon DEF Find, Go, Return, pvars, ovars, hvars, PeersTypeOK, HandlerFacts,
        LoopOwnsEntry, ObjectFacts, Active
  <2>6. PendingHandshaking'
    BY <1>3, Zenon DEF Find, Go, Return, pvars, ovars, hvars, PeersTypeOK, HandlerFacts,
        PendingHandshaking, ObjectFacts
  <2>7. NoLockCycle'
    BY <1>3 DEF Find, Go, Return, pvars, ovars, hvars, PeersTypeOK, HandlerFacts,
        NoLockCycle, Locking, Active
  <2>8. Counts'
    <3>1. Outs' = Outs /\ Ins' = Ins /\ UNCHANGED <<numins, numouts>>
      BY <1>3, Zenon DEF Find, Go, Return, pvars, ovars, Outs, Ins
    <3> QED BY <3>1, Zenon DEF Counts
  <2> QED BY <2>1, <2>2, <2>3, <2>4, <2>5, <2>6, <2>7, <2>8, Zenon DEF PeersInv
<1>4. ASSUME NEW h \in Handlers, MakeNewPeer(h) PROVE PeersInv'
  <2>0. Fresh # {} => newpeer \in Objs /\ pid[newpeer] = None
    BY Zenon DEF Fresh, newpeer
  <2> HIDE DEF newpeer, Fresh
  <2>p. hid[h] \in Ids /\ pc[h] \in {"make_out", "make_in"}
    BY <1>4, Zenon DEF MakeNewPeer, HandlerFacts
  <2>q. PICK p \in Objs : hobj' = [hobj EXCEPT ![h] = p] /\ pid'[p] = hid[h]
    BY <1>4, <2>0, <2>p DEF MakeNewPeer, PeersTypeOK, ObjectFacts,
        PendingHandshaking
  <2>r. /\ pid' \in [Objs -> Ids \cup {None}]
        /\ \A x \in Objs : pid[x] # None => pid'[x] = pid[x]
    BY <1>4, <2>0, <2>p, Zenon DEF MakeNewPeer, PeersTypeOK
  <2>s. /\ dir' \in [Objs -> BOOLEAN]
        /\ pendings' \in [Ids -> Objs \cup {None}]
    <3>1. dir' = dir \/ dir' = [dir EXCEPT ![newpeer] = (pc[h] = "make_out")]
      BY <1>4, Zenon DEF MakeNewPeer
    <3>2. (pc[h] = "make_out") \in BOOLEAN /\ dir \in [Objs -> BOOLEAN]
      BY Zenon DEF PeersTypeOK
    <3>3. dir' \in [Objs -> BOOLEAN]
      BY <3>1, <3>2, Zenon
    <3>4. pendings' \in [Ids -> Objs \cup {None}]
      BY <1>4, <2>0, <2>p DEF MakeNewPeer, PeersTypeOK
    <3> QED BY <3>3, <3>4, Zenon
  <2>t. /\ UNCHANGED <<peers, numins, numouts, psmutex, status, kmutex, loop, quit, hid>>
        /\ pc' = [pc EXCEPT ![h] = IF @ = "make_out" THEN "hello" ELSE "serve"]
    BY <1>4, Zenon DEF MakeNewPeer
  <2>1. PeersTypeOK'
    BY <2>q, <2>r, <2>s, <2>t, Zenon DEF PeersTypeOK, Places
  <2>2. HandlerFacts'
    BY <2>p, <2>q, <2>r, <2>t DEF PeersTypeOK, HandlerFacts
  <2>3. Locking'
    BY <1>4 DEF MakeNewPeer, Go, Return, pvars, ovars, hvars, PeersTypeOK,
        HandlerFacts, Locking, ObjectFacts, LoopOwnsEntry, Active
  <2>4. ObjectFacts'
    BY <1>4, <2>0 DEF MakeNewPeer, pvars, ovars, PeersTypeOK, HandlerFacts,
        ObjectFacts, Locking, Active
  <2>5. LoopOwnsEntry'
    BY <1>4, <2>0 DEF MakeNewPeer, pvars, ovars, PeersTypeOK, HandlerFacts,
        LoopOwnsEntry, ObjectFacts, Active
  <2>6. PendingHandshaking'
    BY <1>4, <2>0 DEF MakeNewPeer, pvars, ovars, PeersTypeOK, HandlerFacts,
        PendingHandshaking, ObjectFacts
  <2>7. NoLockCycle'
    BY <1>4 DEF MakeNewPeer, Go, Return, pvars, ovars, hvars, PeersTypeOK,
        HandlerFacts, NoLockCycle, Locking, Active
  <2>8. Counts'
    <3>1. \A j \in Ids : peers[j] # None => dir'[peers[j]] = dir[peers[j]]
      BY <1>4, <2>0 DEF MakeNewPeer, pvars, ovars, PeersTypeOK, ObjectFacts
    <3>2. UNCHANGED <<peers, numins, numouts>>
      BY <1>4, Zenon DEF MakeNewPeer
    <3>3. Outs' = Outs /\ Ins' = Ins
      BY <3>1, <3>2, Zenon DEF Outs, Ins
    <3> QED BY <3>2, <3>3, Zenon DEF Counts
  <2> QED BY <2>1, <2>2, <2>3, <2>4, <2>5, <2>6, <2>7, <2>8, Zenon DEF PeersInv
<1>5. ASSUME NEW h \in Handlers, Hello(h) PROVE PeersInv'
  <2>1. PeersTypeOK'
    BY <1>5 DEF Hello, Go, Return, pvars, ovars, hvars, PeersTypeOK, Places, Active,
        HandlerFacts, ObjectFacts
  <2>2. HandlerFacts'
    BY <1>5 DEF Hello, Go, Return, pvars, ovars, hvars, PeersTypeOK, HandlerFacts,
        ObjectFacts, Places
  <2>3. Locking'
    BY <1>5 DEF Hello, Go, Return, pvars, ovars, hvars, PeersTypeOK, HandlerFacts,
        Locking, ObjectFacts, LoopOwnsEntry, Active
  <2>4. ObjectFacts'
    BY <1>5 DEF Hello, Go, Return, pvars, ovars, hvars, PeersTypeOK, HandlerFacts,
        ObjectFacts, Locking, Active
  <2>5. LoopOwnsEntry'
    BY <1>5, Zenon DEF Hello, Go, Return, pvars, ovars, hvars, PeersTypeOK, HandlerFacts,
        LoopOwnsEntry, ObjectFacts, Active
  <2>6. PendingHandshaking'
    BY <1>5, Zenon DEF Hello, Go, Return, pvars, ovars, hvars, PeersTypeOK, HandlerFacts,
        PendingHandshaking, ObjectFacts
  <2>7. NoLockCycle'
    BY <1>5 DEF Hello, Go, Return, pvars, ovars, hvars, PeersTypeOK, HandlerFacts,
        NoLockCycle, Locking, Active
  <2>8. Counts'
    <3>1. Outs' = Outs /\ Ins' = Ins /\ UNCHANGED <<numins, numouts>>
      BY <1>5, Zenon DEF Hello, Go, Return, pvars, ovars, Outs, Ins
    <3> QED BY <3>1, Zenon DEF Counts
  <2> QED BY <2>1, <2>2, <2>3, <2>4, <2>5, <2>6, <2>7, <2>8, Zenon DEF PeersInv
<1>6. ASSUME NEW h \in Handlers, Answer(h) PROVE PeersInv'
  <2>1. PeersTypeOK'
    BY <1>6 DEF Answer, Go, Return, pvars, ovars, hvars, PeersTypeOK, Places,
        Active, HandlerFacts, ObjectFacts
  <2>2. HandlerFacts'
    BY <1>6 DEF Answer, Go, Return, pvars, ovars, hvars, PeersTypeOK, HandlerFacts,
        ObjectFacts, Places
  <2>3. Locking'
    BY <1>6 DEF Answer, Go, Return, pvars, ovars, hvars, PeersTypeOK, HandlerFacts,
        Locking, ObjectFacts, LoopOwnsEntry, Active
  <2>4. ObjectFacts'
    BY <1>6 DEF Answer, Go, Return, pvars, ovars, hvars, PeersTypeOK, HandlerFacts,
        ObjectFacts, Locking, Active
  <2>5. LoopOwnsEntry'
    BY <1>6, Zenon DEF Answer, Go, Return, pvars, ovars, hvars, PeersTypeOK, HandlerFacts,
        LoopOwnsEntry, ObjectFacts, Active
  <2>6. PendingHandshaking'
    BY <1>6, Zenon DEF Answer, Go, Return, pvars, ovars, hvars, PeersTypeOK, HandlerFacts,
        PendingHandshaking, ObjectFacts
  <2>7. NoLockCycle'
    BY <1>6 DEF Answer, Go, Return, pvars, ovars, hvars, PeersTypeOK, HandlerFacts,
        NoLockCycle, Locking, Active
  <2>8. Counts'
    <3>1. Outs' = Outs /\ Ins' = Ins /\ UNCHANGED <<numins, numouts>>
      BY <1>6, Zenon DEF Answer, Go, Return, pvars, ovars, Outs, Ins
    <3> QED BY <3>1, Zenon DEF Counts
  <2> QED BY <2>1, <2>2, <2>3, <2>4, <2>5, <2>6, <2>7, <2>8, Zenon DEF PeersInv
<1>7. ASSUME NEW h \in Handlers, Reject(h) PROVE PeersInv'
  <2>1. PeersTypeOK'
    BY <1>7, Zenon DEF Reject, Go, Return, pvars, ovars, hvars, PeersTypeOK, Places,
        Active, HandlerFacts, ObjectFacts
  <2>2. HandlerFacts'
    BY <1>7 DEF Reject, Go, Return, pvars, ovars, hvars, PeersTypeOK, HandlerFacts,
        ObjectFacts, Places
  <2>3. Locking'
    BY <1>7 DEF Reject, Go, Return, pvars, ovars, hvars, PeersTypeOK, HandlerFacts,
        Locking, ObjectFacts, LoopOwnsEntry, Active
  <2>4. ObjectFacts'
    BY <1>7, Zenon DEF Reject, Go, Return, pvars, ovars, hvars, PeersTypeOK, HandlerFacts,
        ObjectFacts, Locking, Active
  <2>5. LoopOwnsEntry'
    BY <1>7, Zenon DEF Reject, Go, Return, pvars, ovars, hvars, PeersTypeOK, HandlerFacts,
        LoopOwnsEntry, ObjectFacts, Active
  <2>6. PendingHandshaking'
    BY <1>7 DEF Reject, Go, Return, pvars, ovars, hvars, PeersTypeOK, HandlerFacts,
        PendingHandshaking, ObjectFacts
  <2>7. NoLockCycle'
    BY <1>7 DEF Reject, Go, Return, pvars, ovars, hvars, PeersTypeOK, HandlerFacts,
        NoLockCycle, Locking, Active
  <2>8. Counts'
    <3>1. Outs' = Outs /\ Ins' = Ins /\ UNCHANGED <<numins, numouts>>
      BY <1>7, Zenon DEF Reject, Go, Return, pvars, ovars, Outs, Ins
    <3> QED BY <3>1, Zenon DEF Counts
  <2> QED BY <2>1, <2>2, <2>3, <2>4, <2>5, <2>6, <2>7, <2>8, Zenon DEF PeersInv
<1>8. ASSUME NEW h \in Handlers, Serve(h) PROVE PeersInv'
  <2>1. PeersTypeOK'
    BY <1>8 DEF Serve, Go, Return, pvars, ovars, hvars, PeersTypeOK, Places, Active,
        HandlerFacts, ObjectFacts
  <2>2. HandlerFacts'
    BY <1>8 DEF Serve, Go, Return, pvars, ovars, hvars, PeersTypeOK, HandlerFacts,
        ObjectFacts, Places
  <2>3. Locking'
    BY <1>8 DEF Serve, Go, Return, pvars, ovars, hvars, PeersTypeOK, HandlerFacts,
        Locking, ObjectFacts, LoopOwnsEntry, Active
  <2>4. ObjectFacts'
    BY <1>8 DEF Serve, Go, Return, pvars, ovars, hvars, PeersTypeOK, HandlerFacts,
        ObjectFacts, Locking, Active
  <2>5. LoopOwnsEntry'
    BY <1>8, Zenon DEF Serve, Go, Return, pvars, ovars, hvars, PeersTypeOK, HandlerFacts,
        LoopOwnsEntry, ObjectFacts, Active
  <2>6. PendingHandshaking'
    BY <1>8, Zenon DEF Serve, Go, Return, pvars, ovars, hvars, PeersTypeOK, HandlerFacts,
        PendingHandshaking, ObjectFacts
  <2>7. NoLockCycle'
    BY <1>8 DEF Serve, Go, Return, pvars, ovars, hvars, PeersTypeOK, HandlerFacts,
        NoLockCycle, Locking, Active
  <2>8. Counts'
    <3>1. Outs' = Outs /\ Ins' = Ins /\ UNCHANGED <<numins, numouts>>
      BY <1>8, Zenon DEF Serve, Go, Return, pvars, ovars, Outs, Ins
    <3> QED BY <3>1, Zenon DEF Counts
  <2> QED BY <2>1, <2>2, <2>3, <2>4, <2>5, <2>6, <2>7, <2>8, Zenon DEF PeersInv
<1>9. ASSUME NEW h \in Handlers, Register(h) PROVE PeersInv'
  <2>1. PeersTypeOK'
    BY <1>9 DEF Register, Go, Return, pvars, ovars, hvars, PeersTypeOK, Places,
        Active, HandlerFacts, ObjectFacts
  <2>2. HandlerFacts'
    BY <1>9 DEF Register, Go, Return, pvars, ovars, hvars, PeersTypeOK,
        HandlerFacts, ObjectFacts, Places
  <2>3. Locking'
    BY <1>9 DEF Register, Go, Return, pvars, ovars, hvars, PeersTypeOK,
        HandlerFacts, Locking, ObjectFacts, LoopOwnsEntry, Active
  <2>4. ObjectFacts'
    BY <1>9 DEF Register, Go, Return, pvars, ovars, hvars, PeersTypeOK,
        HandlerFacts, ObjectFacts, Locking, Active
  <2>5. LoopOwnsEntry'
    BY <1>9 DEF Register, Go, Return, pvars, ovars, hvars, PeersTypeOK,
        HandlerFacts, LoopOwnsEntry, ObjectFacts, Active
  <2>6. PendingHandshaking'
    BY <1>9 DEF Register, Go, Return, pvars, ovars, hvars, PeersTypeOK,
        HandlerFacts, PendingHandshaking, ObjectFacts
  <2>7. NoLockCycle'
    BY <1>9 DEF Register, Go, Return, pvars, ovars, hvars, PeersTypeOK,
        HandlerFacts, NoLockCycle, Locking, LoopOwnsEntry, Active
  <2>8. Counts'
    <3>1. CASE peers[hid[h]] # None
      <4>1. Outs' = Outs /\ Ins' = Ins /\ UNCHANGED <<numins, numouts>>
        BY <1>9, <3>1, Zenon DEF Register, Go, Return, ovars, Outs, Ins
      <4> QED BY <4>1, Zenon DEF Counts
    <3>2. CASE peers[hid[h]] = None
      <4> DEFINE i == hid[h]
      <4>0. i \in Ids /\ hobj[h] \in Objs /\ hobj[h] # None
        BY <1>9 DEF Register, HandlerFacts, PeersTypeOK
      <4>1. /\ peers' = [peers EXCEPT ![i] = hobj[h]] /\ dir' = dir
            /\ numouts' = IF dir[hobj[h]] THEN numouts + 1 ELSE numouts
            /\ numins' = IF dir[hobj[h]] THEN numins ELSE numins + 1
        BY <1>9, <3>2, Zenon DEF Register, ovars
      <4>2. i \notin Outs /\ i \notin Ins
        BY <3>2, Zenon DEF Outs, Ins
      <4>3. /\ Outs' = IF dir[hobj[h]] THEN Outs \cup {i} ELSE Outs
            /\ Ins' = IF dir[hobj[h]] THEN Ins ELSE Ins \cup {i}
        BY <3>2, <4>0, <4>1 DEF Outs, Ins, PeersTypeOK
      <4>4. IsFiniteSet(Outs) /\ IsFiniteSet(Ins)
        BY FS_Subset, Zenon DEF Outs, Ins
      <4>5. /\ Cardinality(Outs \cup {i}) = Cardinality(Outs) + 1
            /\ Cardinality(Ins \cup {i}) = Cardinality(Ins) + 1
        BY <4>2, <4>4, FS_AddElement, Zenon
      <4> QED BY <4>1, <4>3, <4>5, Zenon DEF Counts
    <3> QED BY <3>1, <3>2, Zenon
  <2> QED BY <2>1, <2>2, <2>3, <2>4, <2>5, <2>6, <2>7, <2>8, Zenon DEF PeersInv
<1>10. ASSUME NEW h \in Handlers, StartSendingLoop(h) PROVE PeersInv'
  <2>1. PeersTypeOK'
    BY <1>10, Zenon DEF StartSendingLoop, Go, Return, pvars, ovars, hvars, PeersTypeOK,
        Places, Active, HandlerFacts, ObjectFacts
  <2>2. HandlerFacts'
    BY <1>10 DEF StartSendingLoop, Go, Return, pvars, ovars, hvars, PeersTypeOK,
        HandlerFacts, ObjectFacts, Places
  <2>3. Locking'
    BY <1>10 DEF StartSendingLoop, Go, Return, pvars, ovars, hvars, PeersTypeOK,
        HandlerFacts, Locking, ObjectFacts, LoopOwnsEntry, Active
  <2>4. ObjectFacts'
    BY <1>10 DEF StartSendingLoop, Go, Return, pvars, ovars, hvars, PeersTypeOK,
        HandlerFacts, ObjectFacts, Locking, Active
  <2>5. LoopOwnsEntry'
    BY <1>10 DEF StartSendingLoop, Go, Return, pvars, ovars, hvars, PeersTypeOK,
        HandlerFacts, LoopOwnsEntry, Locking, Active
  <2>6. PendingHandshaking'
    BY <1>10, Zenon DEF StartSendingLoop, Go, Return, pvars, ovars, hvars, PeersTypeOK,
        HandlerFacts, PendingHandshaking, ObjectFacts
  <2>7. NoLockCycle'
    BY <1>10 DEF StartSendingLoop, Go, Return, pvars, ovars, hvars, PeersTypeOK,
        HandlerFacts, NoLockCycle, Locking, Active
  <2>8. Counts'
    <3>1. Outs' = Outs /\ Ins' = Ins /\ UNCHANGED <<numins, numouts>>
      BY <1>10, Zenon DEF StartSendingLoop, Go, Return, pvars, ovars, Outs, Ins
    <3> QED BY <3>1, Zenon DEF Counts
  <2> QED BY <2>1, <2>2, <2>3, <2>4, <2>5, <2>6, <2>7, <2>8, Zenon DEF PeersInv
<1>11. ASSUME NEW h \in Handlers, Close(h) PROVE PeersInv'
  <2>1. PeersTypeOK'
    BY <1>11 DEF Close, Go, Return, pvars, ovars, hvars, PeersTypeOK, Places,
        Active, HandlerFacts, ObjectFacts
  <2>2. HandlerFacts'
    BY <1>11 DEF Close, Go, Return, pvars, ovars, hvars, PeersTypeOK, HandlerFacts,
        ObjectFacts, Places
  <2>3. Locking'
    BY <1>11 DEF Close, Go, Return, pvars, ovars, hvars, PeersTypeOK, HandlerFacts,
        Locking, ObjectFacts, LoopOwnsEntry, Active
  <2>4. ObjectFacts'
    BY <1>11 DEF Close, Go, Return, pvars, ovars, hvars, PeersTypeOK, HandlerFacts,
        ObjectFacts, Locking, Active
  <2>5. LoopOwnsEntry'
    BY <1>11, Zenon DEF Close, Go, Return, pvars, ovars, hvars, PeersTypeOK, HandlerFacts,
        LoopOwnsEntry, ObjectFacts, Active
  <2>6. PendingHandshaking'
    BY <1>11 DEF Close, Go, Return, pvars, ovars, hvars, PeersTypeOK, HandlerFacts,
        PendingHandshaking, ObjectFacts
  <2>7. NoLockCycle'
    BY <1>11 DEF Close, Go, Return, pvars, ovars, hvars, PeersTypeOK, HandlerFacts,
        NoLockCycle, Locking, Active
  <2>8. Counts'
    <3>1. Outs' = Outs /\ Ins' = Ins /\ UNCHANGED <<numins, numouts>>
      BY <1>11, Zenon DEF Close, Go, Return, pvars, ovars, Outs, Ins
    <3> QED BY <3>1, Zenon DEF Counts
  <2> QED BY <2>1, <2>2, <2>3, <2>4, <2>5, <2>6, <2>7, <2>8, Zenon DEF PeersInv
<1>12. ASSUME NEW h \in Handlers, Closed(h) PROVE PeersInv'
  <2>1. PeersTypeOK'
    BY <1>12, Zenon DEF Closed, Go, Return, pvars, ovars, hvars, PeersTypeOK, Places,
        Active, HandlerFacts, ObjectFacts
  <2>2. HandlerFacts'
    BY <1>12 DEF Closed, Go, Return, pvars, ovars, hvars, PeersTypeOK, HandlerFacts,
        ObjectFacts, Places
  <2>3. Locking'
    BY <1>12 DEF Closed, Go, Return, pvars, ovars, hvars, PeersTypeOK, HandlerFacts,
        Locking, ObjectFacts, LoopOwnsEntry, Active
  <2>4. ObjectFacts'
    BY <1>12 DEF Closed, Go, Return, pvars, ovars, hvars, PeersTypeOK, HandlerFacts,
        ObjectFacts, Locking, Active
  <2>5. LoopOwnsEntry'
    BY <1>12, Zenon DEF Closed, Go, Return, pvars, ovars, hvars, PeersTypeOK, HandlerFacts,
        LoopOwnsEntry, ObjectFacts, Active
  <2>6. PendingHandshaking'
    BY <1>12, Zenon DEF Closed, Go, Return, pvars, ovars, hvars, PeersTypeOK, HandlerFacts,
        PendingHandshaking, ObjectFacts
  <2>7. NoLockCycle'
    BY <1>12 DEF Closed, Go, Return, pvars, ovars, hvars, PeersTypeOK, HandlerFacts,
        NoLockCycle, Locking, Active
  <2>8. Counts'
    <3>1. Outs' = Outs /\ Ins' = Ins /\ UNCHANGED <<numins, numouts>>
      BY <1>12, Zenon DEF Closed, Go, Return, pvars, ovars, Outs, Ins
    <3> QED BY <3>1, Zenon DEF Counts
  <2> QED BY <2>1, <2>2, <2>3, <2>4, <2>5, <2>6, <2>7, <2>8, Zenon DEF PeersInv
<1>13. ASSUME NEW o \in Objs, LoopBegin(o) PROVE PeersInv'
  <2>1. PeersTypeOK'
    BY <1>13, Zenon DEF LoopBegin, Go, Return, pvars, ovars, hvars, PeersTypeOK, Places,
        Active, HandlerFacts, ObjectFacts
  <2>2. HandlerFacts'
    BY <1>13, Zenon DEF LoopBegin, Go, Return, pvars, ovars, hvars, PeersTypeOK,
        HandlerFacts, ObjectFacts, Places
  <2>3. Locking'
    BY <1>13 DEF LoopBegin, Go, Return, pvars, ovars, hvars, PeersTypeOK,
        HandlerFacts, Locking, ObjectFacts, LoopOwnsEntry, Active
  <2>4. ObjectFacts'
    BY <1>13 DEF LoopBegin, Go, Return, pvars, ovars, hvars, PeersTypeOK,
        HandlerFacts, ObjectFacts, Locking, Active
  <2>5. LoopOwnsEntry'
    <3>1. peers' = peers /\ pid' = pid /\ loop[o] \in Active
      BY <1>13, Zenon DEF LoopBegin, pvars, ovars, Active
    <3>2. \A q \in Objs : q # o => loop'[q] = loop[q]
      BY <1>13, Zenon DEF LoopBegin, PeersTypeOK
    <3> QED BY <3>1, <3>2, Zenon DEF LoopOwnsEntry
  <2>6. PendingHandshaking'
    BY <1>13, Zenon DEF LoopBegin, Go, Return, pvars, ovars, hvars, PeersTypeOK,
        HandlerFacts, PendingHandshaking, ObjectFacts
  <2>7. NoLockCycle'
    BY <1>13, Zenon DEF LoopBegin, Go, Return, pvars, ovars, hvars, PeersTypeOK,
        HandlerFacts, NoLockCycle, Locking, Active
  <2>8. Counts'
    <3>1. Outs' = Outs /\ Ins' = Ins /\ UNCHANGED <<numins, numouts>>
      BY <1>13, Zenon DEF LoopBegin, Go, Return, pvars, ovars, Outs, Ins
    <3> QED BY <3>1, Zenon DEF Counts
  <2> QED BY <2>1, <2>2, <2>3, <2>4, <2>5, <2>6, <2>7, <2>8, Zenon DEF PeersInv
<1>14. ASSUME NEW o \in Objs, LoopBreak(o) PROVE PeersInv'
  <2>1. PeersTypeOK'
    BY <1>14, Zenon DEF LoopBreak, Go, Return, pvars, ovars, hvars, PeersTypeOK, Places,
        Active, HandlerFacts, ObjectFacts
  <2>2. HandlerFacts'
    BY <1>14, Zenon DEF LoopBreak, Go, Return, pvars, ovars, hvars, PeersTypeOK,
        HandlerFacts, ObjectFacts, Places
  <2>3. Locking'
    BY <1>14 DEF LoopBreak, Go, Return, pvars, ovars, hvars, PeersTypeOK,
        HandlerFacts, Locking, ObjectFacts, LoopOwnsEntry, Active
  <2>4. ObjectFacts'
    BY <1>14 DEF LoopBreak, Go, Return, pvars, ovars, hvars, PeersTypeOK,
        HandlerFacts, ObjectFacts, Locking, Active
  <2>5. LoopOwnsEntry'
    <3>1. peers' = peers /\ pid' = pid /\ loop[o] \in Active
      BY <1>14, Zenon DEF LoopBreak, pvars, ovars, Active
    <3>2. \A q \in Objs : q # o => loop'[q] = loop[q]
      BY <1>14, Zenon DEF LoopBreak, PeersTypeOK
    <3> QED BY <3>1, <3>2, Zenon DEF LoopOwnsEntry
  <2>6. PendingHandshaking'
    BY <1>14, Zenon DEF LoopBreak, Go, Return, pvars, ovars, hvars, PeersTypeOK,
        HandlerFacts, PendingHandshaking, ObjectFacts
  <2>7. NoLockCycle'
    BY <1>14, Zenon DEF LoopBreak, Go, Return, pvars, ovars, hvars, PeersTypeOK,
        HandlerFacts, NoLockCycle, Locking, Active
  <2>8. Counts'
    <3>1. Outs' = Outs /\ Ins' = Ins /\ UNCHANGED <<numins, numouts>>
      BY <1>14, Zenon DEF LoopBreak, Go, Return, pvars, ovars, Outs, Ins
    <3> QED BY <3>1, Zenon DEF Counts
  <2> QED BY <2>1, <2>2, <2>3, <2>4, <2>5, <2>6, <2>7, <2>8, Zenon DEF PeersInv
<1>15. ASSUME NEW o \in Objs, Unregister(o) PROVE PeersInv'
  <2> DEFINE i == pid[o]
  <2>a. /\ i \in Ids /\ peers[i] = o /\ o # None
    BY <1>15 DEF Unregister, LoopOwnsEntry, ObjectFacts, PeersTypeOK, Active
  <2>b. /\ peers' = [peers EXCEPT ![i] = None] /\ dir' = dir
        /\ numouts' = IF dir[o] THEN numouts - 1 ELSE numouts
        /\ numins' = IF dir[o] THEN numins ELSE numins - 1
    BY <1>15, <2>a, Zenon DEF Unregister, ovars
  <2>c. /\ (dir[o] => i \in Outs) /\ (~dir[o] => i \in Ins)
        /\ Outs' = IF dir[o] THEN Outs \ {i} ELSE Outs
        /\ Ins' = IF dir[o] THEN Ins ELSE Ins \ {i}
    BY <2>a, <2>b DEF Outs, Ins, PeersTypeOK
  <2>d. IsFiniteSet(Outs) /\ IsFiniteSet(Ins)
    BY FS_Subset, Zenon DEF Outs, Ins
  <2>e. /\ dir[o] => Cardinality(Outs') = Cardinality(Outs) - 1 /\ Cardinality(Outs) # 0
        /\ ~dir[o] => Cardinality(Ins') = Cardinality(Ins) - 1 /\ Cardinality(Ins) # 0
    BY <2>c, <2>d, FS_RemoveElement, FS_EmptySet, Zenon
  <2>f. /\ psmutex = None /\ loop' = [loop EXCEPT ![o] = "done"]
        /\ loop[o] = "leaving"
        /\ UNCHANGED <<pendings, psmutex, pid, status, kmutex, quit, pc, hid, hobj>>
    BY <1>15, Zenon DEF Unregister, ovars, hvars
  <2>1. PeersTypeOK'
    <3>1. numouts' \in Nat /\ numins' \in Nat
      BY <2>b, <2>d, <2>e DEF Counts, PeersTypeOK
    <3> QED BY <1>15, <2>a, <2>b, <3>1, Zenon
        DEF Unregister, pvars, ovars, hvars, PeersTypeOK, Active
  <2>2. HandlerFacts'
    BY <1>15, Zenon DEF Unregister, Go, Return, pvars, ovars, hvars, PeersTypeOK,
        HandlerFacts, ObjectFacts, Places
  <2>3. Locking'
    <3>1. \A g \in Handlers : pc[g] # "start"
      BY <2>f, Zenon DEF Locking
    <3> QED BY <2>f, <3>1, Zenon DEF PeersTypeOK, Locking
  <2>4. ObjectFacts'
    BY <2>a, <2>b, <2>f DEF PeersTypeOK, ObjectFacts
  <2>5. LoopOwnsEntry'
    BY <2>a, <2>b, <2>f DEF PeersTypeOK, LoopOwnsEntry, Active
  <2>6. PendingHandshaking'
    BY <1>15, Zenon DEF Unregister, Go, Return, pvars, ovars, hvars, PeersTypeOK,
        HandlerFacts, PendingHandshaking, ObjectFacts
  <2>7. NoLockCycle'
    BY <1>15, Zenon DEF Unregister, Go, Return, pvars, ovars, hvars, PeersTypeOK,
        HandlerFacts, NoLockCycle, Locking, Active
  <2>8. Counts'
    BY <2>b, <2>c, <2>e, Zenon DEF Counts
  <2> QED BY <2>1, <2>2, <2>3, <2>4, <2>5, <2>6, <2>7, <2>8, Zenon DEF PeersInv
<1>16. CASE UNCHANGED vars
  <2>1. PeersTypeOK'
    BY <1>16, Zenon DEF vars, pvars, ovars, hvars, PeersTypeOK
  <2>2. HandlerFacts'
    BY <1>16, Zenon DEF vars, pvars, ovars, hvars, HandlerFacts
  <2>3. Locking'
    BY <1>16, Zenon DEF vars, pvars, ovars, hvars, Locking
  <2>4. ObjectFacts'
    BY <1>16, Zenon DEF vars, pvars, ovars, hvars, ObjectFacts
  <2>5. LoopOwnsEntry'
    BY <1>16, Zenon DEF vars, pvars, ovars, hvars, LoopOwnsEntry
  <2>6. PendingHandshaking'
    BY <1>16, Zenon DEF vars, pvars, ovars, hvars, PendingHandshaking
  <2>7. NoLockCycle'
    BY <1>16, Zenon DEF vars, pvars, ovars, hvars, NoLockCycle
  <2>8. Counts'
    BY <1>16, Zenon DEF vars, pvars, ovars, hvars, Counts, Outs, Ins
  <2> QED BY <2>1, <2>2, <2>3, <2>4, <2>5, <2>6, <2>7, <2>8, Zenon DEF PeersInv
<1> QED
  BY <1>1, <1>2, <1>3, <1>4, <1>5, <1>6, <1>7, <1>8, <1>9, <1>10, <1>11, <1>12,
      <1>13, <1>14, <1>15, <1>16, Zenon DEF Next, Handler, Loop

\* PeersInv holds in every reachable state.
THEOREM PeersInvariance == Spec => []PeersInv
<1>1. Init => PeersInv
  BY PeersStart, Zenon
<1>2. PeersInv /\ [Next]_vars => PeersInv'
  BY PeersStep, Zenon
<1> QED
  BY <1>1, <1>2, PTL DEF Spec

\* The counters that limit incoming and outgoing peers (peerlist.go:91-136)
\* never drift from the set itself.
THEOREM CountsAgree == Spec => []Counts
<1>1. PeersInv => Counts
  BY Zenon DEF PeersInv
<1> QED
  BY <1>1, PeersInvariance, PTL

\* A sending loop that ends (peerannounce.go:288) unregisters its own peer only.
THEOREM LoopsOwnTheirEntry == Spec => []LoopOwnsEntry
<1>1. PeersInv => LoopOwnsEntry
  BY Zenon DEF PeersInv
<1> QED
  BY <1>1, PeersInvariance, PTL

\* register, close and the sending loop (peerlist.go:113, peer.go:261,
\* peerannounce.go:290) never wait for each other in a circle.
THEOREM NoCircularWait == Spec => []NoLockCycle
<1>1. PeersInv => NoLockCycle
  BY Zenon DEF PeersInv
<1> QED
  BY <1>1, PeersInvariance, PTL

-----------------------------------------------------------------------------
(* Nobody waits in vain: the safety part of CloseReturns *)

\* The bound on peer objects is what keeps makenewpeer from going on.
Exhausted(h) ==
  /\ pc[h] \in {"make_out", "make_in"} /\ Fresh = {}
  /\ peers[hid[h]] = None /\ pendings[hid[h]] = None

\* A handler can go on: it waits for no mutex and for no loop.
HandlerCan(h) ==
  \/ pc[h] \in {"hello", "wait", "serve"}
  \/ pc[h] \in {"make_out", "make_in"} /\ psmutex = None /\ ~Exhausted(h)
  \/ pc[h] \in {"reject", "register"} /\ psmutex = None
  \/ pc[h] \in {"start", "close"} /\ kmutex[hobj[h]] = None
  \/ pc[h] = "closing" /\ loop[hobj[h]] \notin {"running", "leaving"}

\* A loop can go on, though no send fails.
LoopCan(o) ==
  \/ loop[o] = "spawned"
  \/ loop[o] = "running" /\ o \in quit
  \/ loop[o] = "leaving" /\ psmutex = None

SomebodyCan ==
  (\E h \in Handlers : HandlerCan(h)) \/ (\E o \in Objs : LoopCan(o))

\* As long as the program runs, a handler at work is never stuck: it can go on, or
\* somebody else can.
NeverWaitsInVain ==
  Alive /\ (\E h \in Handlers : pc[h] # "idle" /\ ~Exhausted(h)) => SomebodyCan

\* The kmutex is held by the close of that peer, which has closed quit.
ClosesHeld ==
  /\ \A o \in Objs : kmutex[o] # None =>
       pc[kmutex[o]] \in {"closing", "panic"} /\ hobj[kmutex[o]] = o
  /\ \A h \in Handlers : pc[h] = "closing" => hobj[h] \in quit

\* A step of a handler that is outside close, and stays outside, moves no other
\* handler and touches no kmutex.
LEMMA OtherPlaces ==
  ASSUME PeersTypeOK, ClosesHeld, NEW h \in Handlers, NEW place,
         pc[h] \notin {"closing", "panic"}, place \notin {"closing", "panic"},
         pc' = [pc EXCEPT ![h] = place],
         \A g \in Handlers \ {h} : hobj'[g] = hobj[g],
         kmutex' = kmutex, quit' = quit
  PROVE  ClosesHeld'
<1>1. /\ pc'[h] = place
      /\ \A g \in Handlers \ {h} : pc'[g] = pc[g]
  BY Zenon DEF PeersTypeOK
<1>2. ASSUME NEW o \in Objs, kmutex[o] # None PROVE kmutex[o] \in Handlers \ {h}
  <2>1. kmutex[o] \in Handlers
    BY <1>2, Zenon DEF PeersTypeOK
  <2>2. pc[kmutex[o]] \in {"closing", "panic"}
    BY <1>2, Zenon DEF ClosesHeld
  <2> QED BY <2>1, <2>2, Zenon
<1>3. ASSUME NEW o \in Objs, kmutex'[o] # None
      PROVE  pc'[kmutex'[o]] \in {"closing", "panic"} /\ hobj'[kmutex'[o]] = o
  <2>1. kmutex'[o] = kmutex[o] /\ kmutex[o] \in Handlers \ {h}
    BY <1>2, <1>3, Zenon
  <2>2. pc[kmutex[o]] \in {"closing", "panic"} /\ hobj[kmutex[o]] = o
    BY <2>1, <1>3, Zenon DEF ClosesHeld
  <2> QED BY <2>1, <2>2, <1>1, Zenon
<1>4. \A g \in Handlers : pc'[g] = "closing" => hobj'[g] \in quit'
  BY <1>1, Zenon DEF ClosesHeld
<1> QED BY <1>3, <1>4, Zenon DEF ClosesHeld

\* Every step keeps the holders of the kmutexes.
LEMMA ClosesHeldStep == PeersInv /\ ClosesHeld /\ [Next]_vars => ClosesHeld'
<1> SUFFICES ASSUME PeersTypeOK, HandlerFacts, ClosesHeld, [Next]_vars
             PROVE  ClosesHeld'
  BY Zenon DEF PeersInv
<1> USE PeersAssumption
<1>1. ASSUME NEW h \in Handlers, NEW i \in Ids,
             NewKadPeer(h, i) \/ ReceiveStatus(h, i) \/ Find(h, i)
      PROVE  ClosesHeld'
  <2>1. /\ pc[h] = "idle" /\ UNCHANGED <<kmutex, quit>>
        /\ \E p \in {"make_out", "make_in", "close"} : pc' = [pc EXCEPT ![h] = p]
        /\ \A g \in Handlers \ {h} : hobj'[g] = hobj[g]
    BY <1>1, Zenon DEF NewKadPeer, ReceiveStatus, Find, PeersTypeOK
  <2> QED BY <2>1, OtherPlaces, Zenon
<1>2. ASSUME NEW h \in Handlers, MakeNewPeer(h) PROVE ClosesHeld'
  <2>1. /\ pc[h] \in {"make_out", "make_in"} /\ UNCHANGED <<kmutex, quit>>
        /\ \E p \in {"hello", "serve"} : pc' = [pc EXCEPT ![h] = p]
    BY <1>2, Zenon DEF MakeNewPeer
  <2>2. \A g \in Handlers \ {h} : hobj'[g] = hobj[g]
    BY <1>2, Zenon DEF MakeNewPeer, PeersTypeOK
  <2> QED BY <2>1, <2>2, OtherPlaces, Zenon
<1>3. ASSUME NEW h \in Handlers,
             Hello(h) \/ Answer(h) \/ Reject(h) \/ Serve(h) \/ Register(h)
               \/ StartSendingLoop(h)
      PROVE  ClosesHeld'
  <2>1. /\ pc[h] \in {"hello", "wait", "reject", "serve", "register", "start"}
        /\ UNCHANGED <<kmutex, quit>>
    BY <1>3, Zenon DEF Hello, Answer, Reject, Serve, Register, StartSendingLoop
  <2>2. \/ Return(h)
        \/ \E p \in {"wait", "register", "reject", "start"} : Go(h, p)
    BY <1>3, Zenon DEF Hello, Answer, Reject, Serve, Register, StartSendingLoop
  <2>3. /\ \E p \in {"idle", "wait", "register", "reject", "start"} :
             pc' = [pc EXCEPT ![h] = p]
        /\ \A g \in Handlers \ {h} : hobj'[g] = hobj[g]
    BY <2>2, Zenon DEF Return, Go, hvars, PeersTypeOK
  <2> QED BY <2>1, <2>3, OtherPlaces, Zenon
<1>4. ASSUME NEW h \in Handlers, Close(h) PROVE ClosesHeld'
  <2>1. CASE status[hobj[h]] # "CONNECTED"
    <3>1. pc[h] = "close" /\ Return(h) /\ UNCHANGED <<kmutex, quit>>
      BY <1>4, <2>1, Zenon DEF Close
    <3>2. /\ pc' = [pc EXCEPT ![h] = "idle"]
          /\ \A g \in Handlers \ {h} : hobj'[g] = hobj[g]
      BY <3>1, Zenon DEF Return, PeersTypeOK
    <3> QED BY <3>1, <3>2, OtherPlaces, Zenon
  <2>2. CASE status[hobj[h]] = "CONNECTED"
    <3> DEFINE p == hobj[h]
    <3>1. /\ p \in Objs /\ pc[h] = "close" /\ kmutex[p] = None
          /\ quit' = quit \cup {p} /\ kmutex' = [kmutex EXCEPT ![p] = h]
          /\ hobj' = hobj
          /\ \E q \in {"closing", "panic"} : pc' = [pc EXCEPT ![h] = q]
      BY <1>4, <2>2, Zenon DEF Close, Go, hvars, HandlerFacts
    <3>2. /\ pc'[h] \in {"closing", "panic"}
          /\ \A g \in Handlers \ {h} : pc'[g] = pc[g]
      BY <3>1, Zenon DEF PeersTypeOK
    <3>3. kmutex'[p] = h /\ \A o \in Objs \ {p} : kmutex'[o] = kmutex[o]
      BY <3>1, Zenon DEF PeersTypeOK
    <3>4. ASSUME NEW o \in Objs, kmutex[o] # None PROVE kmutex[o] \in Handlers \ {h}
      <4>1. kmutex[o] \in Handlers
        BY <3>4, Zenon DEF PeersTypeOK
      <4>2. pc[kmutex[o]] \in {"closing", "panic"}
        BY <3>4, Zenon DEF ClosesHeld
      <4> QED BY <3>1, <4>1, <4>2, Zenon
    <3>5. ASSUME NEW o \in Objs, kmutex'[o] # None
          PROVE  pc'[kmutex'[o]] \in {"closing", "panic"} /\ hobj'[kmutex'[o]] = o
      <4>1. CASE o = p
        BY <4>1, <3>1, <3>2, <3>3, Zenon
      <4>2. CASE o # p
        <5>1. kmutex'[o] = kmutex[o] /\ kmutex[o] \in Handlers \ {h}
          BY <4>2, <3>3, <3>4, <3>5, Zenon
        <5>2. pc[kmutex[o]] \in {"closing", "panic"} /\ hobj[kmutex[o]] = o
          BY <5>1, <3>5, Zenon DEF ClosesHeld
        <5> QED BY <5>1, <5>2, <3>1, <3>2, Zenon
      <4> QED BY <4>1, <4>2, Zenon
    <3>6. \A g \in Handlers : pc'[g] = "closing" => hobj'[g] \in quit'
      BY <3>1, <3>2, Zenon DEF ClosesHeld
    <3> QED BY <3>5, <3>6, Zenon DEF ClosesHeld
  <2> QED BY <2>1, <2>2, Zenon
<1>5. ASSUME NEW h \in Handlers, Closed(h) PROVE ClosesHeld'
  <2> DEFINE p == hobj[h]
  <2>1. /\ p \in Objs /\ kmutex' = [kmutex EXCEPT ![p] = None] /\ quit' = quit
        /\ pc' = [pc EXCEPT ![h] = "idle"] /\ hobj' = [hobj EXCEPT ![h] = None]
    BY <1>5, Zenon DEF Closed, Return, HandlerFacts
  <2>2. /\ pc'[h] = "idle"
        /\ \A g \in Handlers \ {h} : pc'[g] = pc[g] /\ hobj'[g] = hobj[g]
    BY <2>1, Zenon DEF PeersTypeOK
  <2>3. kmutex'[p] = None /\ \A o \in Objs \ {p} : kmutex'[o] = kmutex[o]
    BY <2>1, Zenon DEF PeersTypeOK
  <2>4. ASSUME NEW o \in Objs, kmutex'[o] # None
        PROVE  pc'[kmutex'[o]] \in {"closing", "panic"} /\ hobj'[kmutex'[o]] = o
    <3>1. o # p /\ kmutex'[o] = kmutex[o] /\ kmutex[o] \in Handlers
      BY <2>3, <2>4, Zenon DEF PeersTypeOK
    <3>2. pc[kmutex[o]] \in {"closing", "panic"} /\ hobj[kmutex[o]] = o
      BY <3>1, <2>4, Zenon DEF ClosesHeld
    <3>3. kmutex[o] # h
      BY <3>1, <3>2, Zenon
    <3> QED BY <3>1, <3>2, <3>3, <2>2, Zenon
  <2>5. ASSUME NEW g \in Handlers, pc'[g] = "closing" PROVE hobj'[g] \in quit'
    <3>1. g # h
      BY <2>2, <2>5, Zenon
    <3>2. pc[g] = "closing" /\ hobj'[g] = hobj[g]
      BY <2>2, <2>5, <3>1, Zenon
    <3>3. hobj[g] \in quit
      BY <3>2, Zenon DEF ClosesHeld
    <3>4. quit' = quit
      BY <2>1, Zenon
    <3> QED BY <3>2, <3>3, <3>4, Zenon
  <2> QED BY <2>4, <2>5, Zenon DEF ClosesHeld
<1>6. ASSUME UNCHANGED <<kmutex, quit, pc, hobj>> PROVE ClosesHeld'
  BY <1>6, Zenon DEF ClosesHeld
<1>7. ASSUME NEW o \in Objs, Loop(o) PROVE ClosesHeld'
  BY <1>6, <1>7, Zenon DEF Loop, LoopBegin, LoopBreak, Unregister, hvars
<1>8. CASE UNCHANGED vars
  BY <1>6, <1>8, Zenon DEF vars, hvars
<1> QED BY <1>1, <1>2, <1>3, <1>4, <1>5, <1>7, <1>8, Zenon DEF Next, Handler

\* Whoever holds a kmutex can go on, unless the loop it waits for has to; ...
LEMMA KmutexMoves ==
  ASSUME PeersInv, ClosesHeld, Alive, NEW o \in Objs, kmutex[o] # None,
         loop[o] \notin {"running", "leaving"}
  PROVE  SomebodyCan
<1>1. kmutex[o] \in Handlers
  BY Zenon DEF PeersInv, PeersTypeOK
<1>2. pc[kmutex[o]] = "closing" /\ hobj[kmutex[o]] = o
  BY <1>1, Zenon DEF ClosesHeld, Alive
<1>3. HandlerCan(kmutex[o])
  BY <1>2, Zenon DEF HandlerCan
<1> QED BY <1>1, <1>3, Zenon DEF SomebodyCan

\* ... register, which holds peerSet.mutex, waits for such a kmutex at most; ...
LEMMA PsmutexMoves ==
  ASSUME PeersInv, ClosesHeld, Alive, psmutex # None
  PROVE  SomebodyCan
<1>1. psmutex \in Handlers /\ pc[psmutex] = "start"
  BY Zenon DEF PeersInv, PeersTypeOK, Locking
<1>2. hobj[psmutex] \in Objs
  BY <1>1, Zenon DEF PeersInv, HandlerFacts
<1>3. CASE kmutex[hobj[psmutex]] = None
  BY <1>1, <1>3, Zenon DEF HandlerCan, SomebodyCan
<1>4. CASE kmutex[hobj[psmutex]] # None
  <2>1. loop[hobj[psmutex]] = "done"
    BY <1>1, <1>4, Zenon DEF PeersInv, NoLockCycle
  <2> QED BY <1>2, <1>4, <2>1, KmutexMoves, Zenon
<1> QED BY <1>3, <1>4, Zenon

\* ... and a loop that has been told to quit waits for peerSet.mutex at most.
LEMMA CloseMoves ==
  ASSUME PeersInv, ClosesHeld, Alive, NEW h \in Handlers, pc[h] = "closing"
  PROVE  SomebodyCan
<1>1. hobj[h] \in Objs /\ hobj[h] \in quit
  BY Zenon DEF PeersInv, HandlerFacts, ClosesHeld
<1>2. CASE loop[hobj[h]] \notin {"running", "leaving"}
  BY <1>2, Zenon DEF HandlerCan, SomebodyCan
<1>3. CASE loop[hobj[h]] = "running"
  BY <1>1, <1>3, Zenon DEF LoopCan, SomebodyCan
<1>4. CASE loop[hobj[h]] = "leaving"
  <2>1. psmutex = None => LoopCan(hobj[h])
    BY <1>4, Zenon DEF LoopCan
  <2> QED BY <1>1, <2>1, PsmutexMoves, Zenon DEF SomebodyCan
<1> QED BY <1>2, <1>3, <1>4, Zenon

LEMMA SomebodyMoves == PeersInv /\ ClosesHeld => NeverWaitsInVain
<1> SUFFICES ASSUME PeersInv, ClosesHeld, Alive,
                    NEW h \in Handlers, pc[h] # "idle", ~Exhausted(h)
             PROVE  SomebodyCan
  BY Zenon DEF NeverWaitsInVain
<1>1. pc[h] \in Places \ {"idle", "panic"}
  BY Zenon DEF PeersInv, PeersTypeOK, Alive
<1>2. CASE pc[h] \in {"hello", "wait", "serve"}
  BY <1>2, Zenon DEF HandlerCan, SomebodyCan
<1>3. CASE pc[h] \in {"make_out", "make_in", "reject", "register"}
  <2>1. psmutex = None => HandlerCan(h)
    BY <1>3, Zenon DEF HandlerCan
  <2> QED BY <2>1, PsmutexMoves, Zenon DEF SomebodyCan
<1>4. CASE pc[h] = "start"
  <2>1. psmutex # None
    BY <1>4, PeersAssumption, Zenon DEF PeersInv, Locking
  <2> QED BY <2>1, PsmutexMoves, Zenon
<1>5. CASE pc[h] = "close"
  <2>1. hobj[h] \in Objs
    BY <1>5, Zenon DEF PeersInv, HandlerFacts
  <2>2. CASE kmutex[hobj[h]] = None
    BY <1>5, <2>2, Zenon DEF HandlerCan, SomebodyCan
  <2>3. CASE kmutex[hobj[h]] # None
    <3>1. kmutex[hobj[h]] \in Handlers
      BY <2>1, <2>3, Zenon DEF PeersInv, PeersTypeOK
    <3>2. pc[kmutex[hobj[h]]] = "closing"
      BY <2>1, <2>3, <3>1, Zenon DEF ClosesHeld, Alive
    <3> QED BY <3>1, <3>2, CloseMoves, Zenon
  <2> QED BY <2>2, <2>3, Zenon
<1>6. CASE pc[h] = "closing"
  BY <1>6, CloseMoves, Zenon
<1> QED BY <1>1, <1>2, <1>3, <1>4, <1>5, <1>6, Zenon DEF Places

\* Handshakes, departures and sending loops (handler.go, peerlist.go:113,
\* peer.go:261, peerannounce.go:290) share two levels of mutexes and a WaitGroup;
\* whatever their number and order, they never all wait: close, called with the
\* kmutex held, is always one that somebody can still bring to its end.
THEOREM PeersNeverStuck == Spec => []NeverWaitsInVain
<1>1. Init => ClosesHeld
  BY Zenon DEF Init, ClosesHeld
<1>2. PeersInv /\ ClosesHeld /\ [Next]_vars => ClosesHeld'
  BY ClosesHeldStep, Zenon
<1>3. PeersInv /\ ClosesHeld => NeverWaitsInVain
  BY SomebodyMoves, Zenon
<1> QED
  BY <1>1, <1>2, <1>3, PeersInvariance, PTL DEF Spec
=============================================================================
