------------------------- MODULE ChainSyncerProofs -------------------------
(***************************************************************************)
(* SyncInv is inductive: for chains, batches, channels and pools of any    *)
(* size, no signal of a fetched block is lost, nothing is sent on a closed *)
(* channel, and synchronise reports success for a complete chain only.     *)
(* WorkAlive and Locks, inductive relative to it, show that nobody waits   *)
(* in a circle.                                                            *)
(***************************************************************************)
EXTENDS ChainSyncer, TLAPS

-----------------------------------------------------------------------------
(* The inductive invariant *)

\* kill goes through its stages in order, and a stopped pool stays empty
KillStages ==
  /\ dead <=> kpc # "none"
  /\ pclosed <=> kpc \in {"pwait", "bwait", "done"}
  /\ bclosed <=> kpc \in {"bwait", "done"}
  /\ Finished => \A n \in Blocks : ~Working(n)

\* The goroutines end one after the other, after finish is closed
EndOrder ==
  /\ hpc = "done" => Finished
  /\ fpc = "done" => hpc = "done"

\* Before the goroutines start there are no blocks; outside "wait" there is no
\* processBlocks
Phases ==
  /\ spc \in {"height", "ancestor"} =>
       /\ hpc = "none" /\ fpc = "none" /\ ppc = "none"
       /\ fblocks = {} /\ \A n \in Blocks : bst[n] = "none"
  /\ spc # "wait" => ppc \in {"none", "done"}

\* Where the counters of the goroutines stand
Counters ==
  /\ hpc \in {"loop", "wait"} => current >= 1
  /\ hpc = "wait" => current <= Last
  /\ hpc \in {"check", "send"} => 1 <= hd /\ hd <= hi
  /\ fpc = "submit" => fh >= 1
  /\ \A n \in Blocks : bst[n] = "asked" => tries[n] <= Tries
  /\ ppc \in {"start", "range", "insert"} => 1 <= bnum /\ bnum <= chain + 1

\* A header is handed on once: its block has no job before that
HandedOnce ==
  /\ fpc = "submit" => bst[fh] = "none"
  /\ \A n \in Blocks :
       \/ hpc \in {"loop", "wait"} /\ n >= current
       \/ hpc \in {"check", "send"} /\ n >= hd
       => bst[n] = "none" /\ (fpc = "submit" => n # fh)

\* The block that processBlocks needs next
Needed == IF ppc = "insert" THEN bnum + cnt ELSE bnum

\* NoLostSignal at every place of processBlocks
Signalled ==
  (ppc \in {"start", "range", "insert"} /\ ~pabort /\ Needed \in fblocks) =>
    bst[Needed] = "put" \/ \E i \in 1..Len(newblockCh) : newblockCh[i] = Needed

\* kill without an error is called for a complete chain only
Complete == dead /\ ~err => chain = Last

\* What synchronise returns, and when
SuccessIsComplete == spc = "returned" /\ ~result => chain = Last
PoolsReleased == spc = "returned" => dead

DInv ==
  /\ DTypeOK /\ KillStages /\ EndOrder /\ Phases /\ Counters /\ HandedOnce
  /\ Signalled /\ Complete /\ SuccessIsComplete /\ PoolsReleased

\* The loop knows of the sync that runs
SyncKnown == spc # "idle" <=> doneCh = "empty"

\* The loop leaves only when no sync runs, and stop waits for it
LoopEnds ==
  /\ lpc = "done" => doneCh # "empty"
  /\ stpc = "returned" => lpc = "done"
  /\ lpc # "none" <=> ~csdead \/ stpc # "none"

SyncInv == DInv /\ SyncerTypes /\ SyncKnown /\ LoopEnds

-----------------------------------------------------------------------------
(* A conjunct is kept by a step that changes none of its variables *)

LEMMA KeepWorkTypes ==
  ASSUME WorkTypes, UNCHANGED <<chain, quit, spc, result, ancestor, preq>>
  PROVE  WorkTypes'
BY Zenon DEF WorkTypes

LEMMA KeepKillTypes ==
  ASSUME KillTypes, UNCHANGED <<dead, err, kpc, pclosed, bclosed>>
  PROVE  KillTypes'
BY Zenon DEF KillTypes

LEMMA KeepHeaderTypes ==
  ASSUME HeaderTypes, UNCHANGED <<hpc, current, hd, hi, fpc, fh, fabort>>
  PROVE  HeaderTypes'
BY Zenon DEF HeaderTypes

LEMMA KeepBlockTypes ==
  ASSUME BlockTypes, UNCHANGED <<bst, tries, fblocks, newblockCh>>
  PROVE  BlockTypes'
BY Zenon DEF BlockTypes

LEMMA KeepProcessTypes ==
  ASSUME ProcessTypes, UNCHANGED <<ppc, bnum, cnt, pabort>>
  PROVE  ProcessTypes'
BY Zenon DEF ProcessTypes

LEMMA KeepKillStages ==
  ASSUME KillStages, UNCHANGED <<dead, kpc, pclosed, bclosed, bst>>
  PROVE  KillStages'
BY Zenon DEF KillStages, Working, Finished

LEMMA KeepEndOrder ==
  ASSUME EndOrder, UNCHANGED <<hpc, fpc, kpc>>
  PROVE  EndOrder'
BY Zenon DEF EndOrder, Finished

LEMMA KeepPhases ==
  ASSUME Phases, UNCHANGED <<spc, hpc, fpc, ppc, fblocks, bst>>
  PROVE  Phases'
BY Zenon DEF Phases

LEMMA KeepCounters ==
  ASSUME Counters, UNCHANGED <<hpc, current, hd, hi, fpc, fh, bst, tries, ppc,
         bnum, chain>>
  PROVE  Counters'
BY Zenon DEF Counters

LEMMA KeepHandedOnce ==
  ASSUME HandedOnce, UNCHANGED <<hpc, current, hd, fpc, fh, bst>>
  PROVE  HandedOnce'
BY Zenon DEF HandedOnce

LEMMA KeepSignalled ==
  ASSUME Signalled, UNCHANGED <<ppc, pabort, bnum, cnt, fblocks, bst,
         newblockCh>>
  PROVE  Signalled'
BY Zenon DEF Signalled, Needed

LEMMA KeepComplete ==
  ASSUME Complete, UNCHANGED <<dead, err, chain>>
  PROVE  Complete'
BY Zenon DEF Complete

LEMMA KeepSuccessIsComplete ==
  ASSUME SuccessIsComplete, UNCHANGED <<spc, result, chain>>
  PROVE  SuccessIsComplete'
BY Zenon DEF SuccessIsComplete

LEMMA KeepPoolsReleased ==
  ASSUME PoolsReleased, UNCHANGED <<spc, dead>>
  PROVE  PoolsReleased'
BY Zenon DEF PoolsReleased

\* kill (dworker.go:258-285) keeps the types of what it sets.
LEMMA KillKeepsTypes ==
  ASSUME KillTypes, UNCHANGED <<pclosed, bclosed>>,
         Kill(TRUE) \/ Kill(FALSE) \/ UNCHANGED kvars
  PROVE  KillTypes'
<1>1. CASE UNCHANGED kvars
  BY <1>1, Zenon DEF kvars, KillTypes
<1>2. CASE Kill(TRUE)
  BY <1>2, Zenon DEF Kill, kvars, KillTypes
<1>3. CASE Kill(FALSE)
  BY <1>3, Zenon DEF Kill, kvars, KillTypes
<1> QED BY <1>1, <1>2, <1>3, Zenon

\* Its error is kept with the chain that it found.
LEMMA KillKeepsComplete ==
  ASSUME Complete, chain = Last => chain' = Last,
         Kill(TRUE) \/ (Kill(FALSE) /\ chain' = Last) \/ UNCHANGED kvars
  PROVE  Complete'
BY Zenon DEF Complete, Kill, kvars

-----------------------------------------------------------------------------
(* DInv is preserved by every action of a sync; the hypotheses are its conjuncts *)

(* The goroutine that kill starts *)

LEMMA StopPPoolStep ==
  ASSUME WorkTypes, KillTypes, HeaderTypes, BlockTypes, ProcessTypes, KillStages,
         EndOrder, Phases, Counters, HandedOnce, Signalled, Complete,
         SuccessIsComplete, PoolsReleased, StopPPool
  PROVE  DInv'
<1> USE DownloaderAssumption DEF Blocks, Clients, Master, Answered
<1>1. UNCHANGED <<chain, quit, spc, result, ancestor, dead, err, bclosed, preq,
                  hpc, current, hd, hi, fpc, fh, fabort, bst, tries, fblocks,
                  newblockCh, ppc, bnum, cnt, pabort>>
  BY Zenon DEF StopPPool, hvars, fvars, bvars, pvars, svars
<1>2. WorkTypes' /\ HeaderTypes' /\ BlockTypes' /\ ProcessTypes' /\ Phases' /\
      Counters' /\ HandedOnce' /\ Signalled' /\ Complete' /\ SuccessIsComplete'
      /\ PoolsReleased'
  BY <1>1, KeepWorkTypes, KeepHeaderTypes, KeepBlockTypes, KeepProcessTypes,
      KeepPhases, KeepCounters, KeepHandedOnce, KeepSignalled, KeepComplete,
      KeepSuccessIsComplete, KeepPoolsReleased, Zenon
<1>3. KillTypes'
  BY <1>1, Zenon DEF StopPPool, KillTypes
<1>4. KillStages'
  BY <1>1 DEF StopPPool, KillStages, Working, Finished, KillTypes
<1>5. EndOrder'
  BY <1>1, Zenon DEF StopPPool, EndOrder, KillStages, Finished
<1> QED BY <1>2, <1>3, <1>4, <1>5, Zenon DEF DInv, DTypeOK

LEMMA StopBPoolStep ==
  ASSUME WorkTypes, KillTypes, HeaderTypes, BlockTypes, ProcessTypes, KillStages,
         EndOrder, Phases, Counters, HandedOnce, Signalled, Complete,
         SuccessIsComplete, PoolsReleased, StopBPool
  PROVE  DInv'
<1> USE DownloaderAssumption DEF Blocks, Clients, Master, Answered
<1>1. UNCHANGED <<chain, quit, spc, result, ancestor, dead, err, pclosed, preq,
                  hpc, current, hd, hi, fpc, fh, fabort, bst, tries, fblocks,
                  newblockCh, ppc, bnum, cnt, pabort>>
  BY Zenon DEF StopBPool, hvars, fvars, bvars, pvars, svars
<1>2. WorkTypes' /\ HeaderTypes' /\ BlockTypes' /\ ProcessTypes' /\ Phases' /\
      Counters' /\ HandedOnce' /\ Signalled' /\ Complete' /\ SuccessIsComplete'
      /\ PoolsReleased'
  BY <1>1, KeepWorkTypes, KeepHeaderTypes, KeepBlockTypes, KeepProcessTypes,
      KeepPhases, KeepCounters, KeepHandedOnce, KeepSignalled, KeepComplete,
      KeepSuccessIsComplete, KeepPoolsReleased, Zenon
<1>3. KillTypes'
  BY <1>1, Zenon DEF StopBPool, KillTypes
<1>4. KillStages'
  BY <1>1 DEF StopBPool, KillStages, Working, Finished, KillTypes
<1>5. EndOrder'
  BY <1>1, Zenon DEF StopBPool, EndOrder, KillStages, Finished
<1> QED BY <1>2, <1>3, <1>4, <1>5, Zenon DEF DInv, DTypeOK

LEMMA FinishStep ==
  ASSUME WorkTypes, KillTypes, HeaderTypes, BlockTypes, ProcessTypes, KillStages,
         EndOrder, Phases, Counters, HandedOnce, Signalled, Complete,
         SuccessIsComplete, PoolsReleased, Finish
  PROVE  DInv'
<1> USE DownloaderAssumption DEF Blocks, Clients, Master, Answered
<1>1. UNCHANGED <<chain, quit, spc, result, ancestor, dead, err, pclosed,
                  bclosed, preq, hpc, current, hd, hi, fpc, fh, fabort, bst,
                  tries, fblocks, newblockCh, ppc, bnum, cnt, pabort>>
  BY Zenon DEF Finish, pools, hvars, fvars, bvars, pvars, svars
<1>2. WorkTypes' /\ HeaderTypes' /\ BlockTypes' /\ ProcessTypes' /\ Phases' /\
      Counters' /\ HandedOnce' /\ Signalled' /\ Complete' /\ SuccessIsComplete'
      /\ PoolsReleased'
  BY <1>1, KeepWorkTypes, KeepHeaderTypes, KeepBlockTypes, KeepProcessTypes,
      KeepPhases, KeepCounters, KeepHandedOnce, KeepSignalled, KeepComplete,
      KeepSuccessIsComplete, KeepPoolsReleased, Zenon
<1>3. KillTypes'
  BY <1>1, Zenon DEF Finish, KillTypes
<1>4. KillStages'
  BY <1>1 DEF Finish, KillStages, Working, Finished, KillTypes
<1>5. EndOrder'
  BY <1>1, Zenon DEF Finish, EndOrder, KillStages, Finished
<1> QED BY <1>2, <1>3, <1>4, <1>5, Zenon DEF DInv, DTypeOK

LEMMA MasterQuitsStep ==
  ASSUME WorkTypes, KillTypes, HeaderTypes, BlockTypes, ProcessTypes, KillStages,
         EndOrder, Phases, Counters, HandedOnce, Signalled, Complete,
         SuccessIsComplete, PoolsReleased, MasterQuits
  PROVE  DInv'
<1> USE DownloaderAssumption DEF Blocks, Clients, Master, Answered
<1>1. UNCHANGED <<chain, quit, spc, result, ancestor, pclosed, bclosed, preq,
                  hpc, current, hd, hi, fpc, fh, fabort, bst, tries, fblocks,
                  newblockCh, ppc, bnum, cnt, pabort>>
  BY Zenon DEF MasterQuits, pools, hvars, fvars, bvars, pvars, svars
<1>2. WorkTypes' /\ HeaderTypes' /\ BlockTypes' /\ ProcessTypes' /\ Phases' /\
      Counters' /\ HandedOnce' /\ Signalled' /\ SuccessIsComplete'
  BY <1>1, KeepWorkTypes, KeepHeaderTypes, KeepBlockTypes, KeepProcessTypes,
      KeepPhases, KeepCounters, KeepHandedOnce, KeepSignalled,
      KeepSuccessIsComplete, Zenon
<1>3. KillTypes'
  BY <1>1, KillKeepsTypes, Zenon DEF MasterQuits
<1>4. KillStages'
  BY <1>1, Zenon DEF MasterQuits, Kill, KillStages, Working, Finished,
      KillTypes, kvars
<1>5. EndOrder'
  BY <1>1, Zenon DEF MasterQuits, Kill, EndOrder, KillStages, Finished, kvars
<1>6. Complete'
  BY <1>1, KillKeepsComplete, Zenon DEF MasterQuits
<1>7. PoolsReleased'
  BY <1>1, Zenon DEF MasterQuits, Kill, PoolsReleased, kvars
<1> QED BY <1>2, <1>3, <1>4, <1>5, <1>6, <1>7, Zenon DEF DInv, DTypeOK

(* The requests on ppool *)

LEMMA PLoseStep ==
  ASSUME WorkTypes, KillTypes, HeaderTypes, BlockTypes, ProcessTypes, KillStages,
         EndOrder, Phases, Counters, HandedOnce, Signalled, Complete,
         SuccessIsComplete, PoolsReleased, NEW c \in Clients, PLose(c)
  PROVE  DInv'
<1> USE DownloaderAssumption DEF Blocks, Clients, Master, Answered
<1>1. UNCHANGED <<chain, quit, spc, result, ancestor, dead, err, kpc, pclosed,
                  bclosed, hpc, current, hd, hi, fpc, fh, fabort, bst, tries,
                  fblocks, newblockCh, ppc, bnum, cnt, pabort>>
  BY Zenon DEF PLose, kvars, pools, hvars, fvars, bvars, pvars, svars
<1>2. KillTypes' /\ HeaderTypes' /\ BlockTypes' /\ ProcessTypes' /\ KillStages'
      /\ EndOrder' /\ Phases' /\ Counters' /\ HandedOnce' /\ Signalled' /\
      Complete' /\ SuccessIsComplete' /\ PoolsReleased'
  BY <1>1, KeepKillTypes, KeepHeaderTypes, KeepBlockTypes, KeepProcessTypes,
      KeepKillStages, KeepEndOrder, KeepPhases, KeepCounters, KeepHandedOnce,
      KeepSignalled, KeepComplete, KeepSuccessIsComplete, KeepPoolsReleased,
      Zenon
<1>3. WorkTypes'
  BY <1>1, Zenon DEF PLose, WorkTypes
<1> QED BY <1>2, <1>3, Zenon DEF DInv, DTypeOK

LEMMA PAnswerStep ==
  ASSUME WorkTypes, KillTypes, HeaderTypes, BlockTypes, ProcessTypes, KillStages,
         EndOrder, Phases, Counters, HandedOnce, Signalled, Complete,
         SuccessIsComplete, PoolsReleased, NEW c \in Clients, PAnswer(c)
  PROVE  DInv'
<1> USE DownloaderAssumption DEF Blocks, Clients, Master, Answered
<1>1. UNCHANGED <<chain, quit, spc, result, ancestor, dead, err, kpc, pclosed,
                  bclosed, hpc, current, hd, hi, fpc, fh, fabort, bst, tries,
                  fblocks, newblockCh, ppc, bnum, cnt, pabort>>
  BY Zenon DEF PAnswer, kvars, pools, hvars, fvars, bvars, pvars, svars
<1>2. KillTypes' /\ HeaderTypes' /\ BlockTypes' /\ ProcessTypes' /\ KillStages'
      /\ EndOrder' /\ Phases' /\ Counters' /\ HandedOnce' /\ Signalled' /\
      Complete' /\ SuccessIsComplete' /\ PoolsReleased'
  BY <1>1, KeepKillTypes, KeepHeaderTypes, KeepBlockTypes, KeepProcessTypes,
      KeepKillStages, KeepEndOrder, KeepPhases, KeepCounters, KeepHandedOnce,
      KeepSignalled, KeepComplete, KeepSuccessIsComplete, KeepPoolsReleased,
      Zenon
<1>3. WorkTypes'
  BY <1>1, Zenon DEF PAnswer, WorkTypes
<1> QED BY <1>2, <1>3, Zenon DEF DInv, DTypeOK

(* synchronise *)

LEMMA SynchroniseStep ==
  ASSUME WorkTypes, KillTypes, HeaderTypes, BlockTypes, ProcessTypes, KillStages,
         EndOrder, Phases, Counters, HandedOnce, Signalled, Complete,
         SuccessIsComplete, PoolsReleased, Synchronise
  PROVE  DInv'
<1> USE DownloaderAssumption DEF Blocks, Clients, Master, Answered
<1>1. WorkTypes'
  <2>1. quit' \in BOOLEAN /\ result' \in BOOLEAN
    BY Zenon DEF Synchronise, WorkTypes
  <2> QED BY <2>1 DEF Synchronise, WorkTypes
<1>2. KillTypes'
  BY Zenon DEF Synchronise, KillTypes
<1>3. HeaderTypes'
  <2>1. fabort' \in BOOLEAN
    BY Zenon DEF Synchronise
  <2> QED BY <2>1 DEF Synchronise, HeaderTypes
<1>4. BlockTypes'
  BY DEF Synchronise, BlockTypes, Counters, HeaderTypes
<1>5. ProcessTypes'
  <2>1. pabort' \in BOOLEAN
    BY Zenon DEF Synchronise
  <2> QED BY <2>1 DEF Synchronise, ProcessTypes
<1>6. KillStages'
  BY Zenon DEF Synchronise, KillStages, Working, Finished, KillTypes
<1>7. EndOrder'
  BY Zenon DEF Synchronise, EndOrder, KillStages, Finished
<1>8. Phases'
  BY Zenon DEF Synchronise, Phases, BlockTypes
<1>9. Counters'
  BY Zenon DEF Synchronise, Counters, WorkTypes, HeaderTypes, BlockTypes,
      ProcessTypes
<1>10. HandedOnce'
  BY Zenon DEF Synchronise, HandedOnce, HeaderTypes, BlockTypes
<1>11. Signalled'
  BY Zenon DEF Synchronise, Signalled, Needed, BlockTypes
<1>12. Complete'
  BY Zenon DEF Synchronise, Complete, KillStages
<1>13. SuccessIsComplete'
  BY Zenon DEF Synchronise, SuccessIsComplete
<1>14. PoolsReleased'
  BY Zenon DEF Synchronise, PoolsReleased
<1> QED BY <1>1, <1>2, <1>3, <1>4, <1>5, <1>6, <1>7, <1>8, <1>9, <1>10, <1>11,
    <1>12, <1>13, <1>14, Zenon DEF DInv, DTypeOK

LEMMA HeightFailsStep ==
  ASSUME WorkTypes, KillTypes, HeaderTypes, BlockTypes, ProcessTypes, KillStages,
         EndOrder, Phases, Counters, HandedOnce, Signalled, Complete,
         SuccessIsComplete, PoolsReleased, HeightFails
  PROVE  DInv'
<1> USE DownloaderAssumption DEF Blocks, Clients, Master, Answered
<1>1. UNCHANGED <<chain, quit, ancestor, pclosed, bclosed, preq, hpc, current,
                  hd, hi, fpc, fh, fabort, bst, tries, fblocks, newblockCh,
                  ppc, bnum, cnt, pabort>>
  BY Zenon DEF HeightFails, pools, hvars, fvars, bvars, pvars
<1>2. HeaderTypes' /\ BlockTypes' /\ ProcessTypes' /\ Counters' /\ HandedOnce'
      /\ Signalled'
  BY <1>1, KeepHeaderTypes, KeepBlockTypes, KeepProcessTypes, KeepCounters,
      KeepHandedOnce, KeepSignalled, Zenon
<1>3. WorkTypes'
  BY <1>1, Zenon DEF HeightFails, Kill, WorkTypes, kvars
<1>4. KillTypes'
  BY <1>1, KillKeepsTypes, Zenon DEF HeightFails
<1>5. KillStages'
  BY <1>1, Zenon DEF HeightFails, Kill, KillStages, Working, Finished,
      KillTypes, kvars
<1>6. EndOrder'
  BY <1>1, Zenon DEF HeightFails, Kill, EndOrder, KillStages, Finished, kvars
<1>7. Phases'
  BY <1>1, Zenon DEF HeightFails, Kill, Phases, BlockTypes, kvars
<1>8. Complete'
  BY <1>1, KillKeepsComplete, Zenon DEF HeightFails
<1>9. SuccessIsComplete'
  BY <1>1, Zenon DEF HeightFails, Kill, SuccessIsComplete, kvars
<1>10. PoolsReleased'
  BY <1>1, Zenon DEF HeightFails, Kill, PoolsReleased, kvars
<1> QED BY <1>2, <1>3, <1>4, <1>5, <1>6, <1>7, <1>8, <1>9, <1>10, Zenon DEF DInv,
    DTypeOK

LEMMA HeightKnownStep ==
  ASSUME WorkTypes, KillTypes, HeaderTypes, BlockTypes, ProcessTypes, KillStages,
         EndOrder, Phases, Counters, HandedOnce, Signalled, Complete,
         SuccessIsComplete, PoolsReleased, HeightKnown
  PROVE  DInv'
<1> USE DownloaderAssumption DEF Blocks, Clients, Master, Answered
<1>1. UNCHANGED <<chain, quit, result, dead, err, kpc, pclosed, bclosed, hd,
                  hi, fh, fabort, bst, tries, fblocks, newblockCh, cnt,
                  pabort>>
  BY Zenon DEF HeightKnown, Begin, kvars, pools, hvars, fvars, bvars,
      pvars
<1>2. KillTypes' /\ BlockTypes' /\ KillStages' /\ Complete'
  BY <1>1, KeepKillTypes, KeepBlockTypes, KeepKillStages, KeepComplete, Zenon
<1>3. WorkTypes'
  BY <1>1, Zenon DEF HeightKnown, Ask, Begin, hvars, fvars, pvars, WorkTypes
<1>4. HeaderTypes'
  BY <1>1 DEF HeightKnown, Ask, Begin, hvars, fvars, pvars, HeaderTypes,
      WorkTypes
<1>5. ProcessTypes'
  BY <1>1 DEF HeightKnown, Ask, Begin, hvars, fvars, pvars, ProcessTypes,
      WorkTypes
<1>6. EndOrder'
  BY <1>1, Zenon DEF HeightKnown, Ask, Begin, hvars, fvars, pvars, EndOrder,
      KillStages, Finished
<1>7. Phases'
  BY <1>1, Zenon DEF HeightKnown, Ask, Begin, hvars, fvars, pvars, Phases,
      BlockTypes
<1>8. Counters'
  BY <1>1 DEF HeightKnown, Ask, Begin, hvars, fvars, pvars, Counters,
      Phases, WorkTypes, HeaderTypes, BlockTypes
<1>9. HandedOnce'
  BY <1>1, Zenon DEF HeightKnown, Ask, Begin, hvars, fvars, pvars, HandedOnce,
      Phases, WorkTypes, HeaderTypes, BlockTypes
<1>10. Signalled'
  BY <1>1, Zenon DEF HeightKnown, Ask, Begin, hvars, fvars, pvars, Signalled,
      Needed, BlockTypes, Phases
<1>11. SuccessIsComplete'
  BY <1>1, Zenon DEF HeightKnown, Ask, Begin, hvars, fvars, pvars,
      SuccessIsComplete
<1>12. PoolsReleased'
  BY <1>1, Zenon DEF HeightKnown, Ask, Begin, hvars, fvars, pvars, PoolsReleased
<1> QED BY <1>2, <1>3, <1>4, <1>5, <1>6, <1>7, <1>8, <1>9, <1>10, <1>11, <1>12, Zenon
    DEF DInv, DTypeOK

LEMMA AncestorFailsStep ==
  ASSUME WorkTypes, KillTypes, HeaderTypes, BlockTypes, ProcessTypes, KillStages,
         EndOrder, Phases, Counters, HandedOnce, Signalled, Complete,
         SuccessIsComplete, PoolsReleased, AncestorFails
  PROVE  DInv'
<1> USE DownloaderAssumption DEF Blocks, Clients, Master, Answered
<1>1. UNCHANGED <<chain, quit, ancestor, pclosed, bclosed, preq, hpc, current,
                  hd, hi, fpc, fh, fabort, bst, tries, fblocks, newblockCh,
                  ppc, bnum, cnt, pabort>>
  BY Zenon DEF AncestorFails, pools, hvars, fvars, bvars, pvars
<1>2. HeaderTypes' /\ BlockTypes' /\ ProcessTypes' /\ Counters' /\ HandedOnce'
      /\ Signalled'
  BY <1>1, KeepHeaderTypes, KeepBlockTypes, KeepProcessTypes, KeepCounters,
      KeepHandedOnce, KeepSignalled, Zenon
<1>3. WorkTypes'
  BY <1>1, Zenon DEF AncestorFails, Kill, WorkTypes, kvars
<1>4. KillTypes'
  BY <1>1, KillKeepsTypes, Zenon DEF AncestorFails
<1>5. KillStages'
  BY <1>1, Zenon DEF AncestorFails, Kill, KillStages, Working, Finished,
      KillTypes, kvars
<1>6. EndOrder'
  BY <1>1, Zenon DEF AncestorFails, Kill, EndOrder, KillStages, Finished, kvars
<1>7. Phases'
  BY <1>1, Zenon DEF AncestorFails, Kill, Phases, BlockTypes, kvars
<1>8. Complete'
  BY <1>1, KillKeepsComplete, Zenon DEF AncestorFails
<1>9. SuccessIsComplete'
  BY <1>1, Zenon DEF AncestorFails, Kill, SuccessIsComplete, kvars
<1>10. PoolsReleased'
  BY <1>1, Zenon DEF AncestorFails, Kill, PoolsReleased, kvars
<1> QED BY <1>2, <1>3, <1>4, <1>5, <1>6, <1>7, <1>8, <1>9, <1>10, Zenon DEF DInv,
    DTypeOK

LEMMA AncestorFoundStep ==
  ASSUME WorkTypes, KillTypes, HeaderTypes, BlockTypes, ProcessTypes, KillStages,
         EndOrder, Phases, Counters, HandedOnce, Signalled, Complete,
         SuccessIsComplete, PoolsReleased, AncestorFound
  PROVE  DInv'
<1> USE DownloaderAssumption DEF Blocks, Clients, Master, Answered
<1>1. UNCHANGED <<chain, quit, result, dead, err, kpc, pclosed, bclosed, preq,
                  hd, hi, fh, fabort, bst, tries, fblocks, newblockCh, cnt,
                  pabort>>
  BY Zenon DEF AncestorFound, Begin, kvars, pools, bvars
<1>2. KillTypes' /\ BlockTypes' /\ KillStages' /\ Complete'
  BY <1>1, KeepKillTypes, KeepBlockTypes, KeepKillStages, KeepComplete, Zenon
<1>3. WorkTypes'
  BY <1>1 DEF AncestorFound, Begin, WorkTypes
<1>4. HeaderTypes'
  BY <1>1 DEF AncestorFound, Begin, HeaderTypes, WorkTypes
<1>5. ProcessTypes'
  BY <1>1 DEF AncestorFound, Begin, ProcessTypes, WorkTypes
<1>6. EndOrder'
  BY <1>1, Zenon DEF AncestorFound, Begin, EndOrder, KillStages, Finished
<1>7. Phases'
  BY <1>1, Zenon DEF AncestorFound, Begin, Phases, BlockTypes
<1>8. Counters'
  BY <1>1 DEF AncestorFound, Begin, Counters, Phases, WorkTypes,
      HeaderTypes, BlockTypes
<1>9. HandedOnce'
  BY <1>1, Zenon DEF AncestorFound, Begin, HandedOnce, Phases, WorkTypes,
      HeaderTypes, BlockTypes
<1>10. Signalled'
  BY <1>1, Zenon DEF AncestorFound, Begin, Signalled, Needed, BlockTypes, Phases
<1>11. SuccessIsComplete'
  BY <1>1, Zenon DEF AncestorFound, Begin, SuccessIsComplete
<1>12. PoolsReleased'
  BY <1>1, Zenon DEF AncestorFound, Begin, PoolsReleased
<1> QED BY <1>2, <1>3, <1>4, <1>5, <1>6, <1>7, <1>8, <1>9, <1>10, <1>11, <1>12, Zenon
    DEF DInv, DTypeOK

LEMMA ReturnStep ==
  ASSUME WorkTypes, KillTypes, HeaderTypes, BlockTypes, ProcessTypes, KillStages,
         EndOrder, Phases, Counters, HandedOnce, Signalled, Complete,
         SuccessIsComplete, PoolsReleased, Return
  PROVE  DInv'
<1> USE DownloaderAssumption DEF Blocks, Clients, Master, Answered
<1>1. UNCHANGED <<chain, quit, ancestor, dead, err, kpc, pclosed, bclosed,
                  preq, hpc, current, hd, hi, fpc, fh, fabort, bst, tries,
                  fblocks, newblockCh, ppc, bnum, cnt, pabort>>
  BY Zenon DEF Return, others, kvars, pools, hvars, fvars, bvars, pvars
<1>2. KillTypes' /\ HeaderTypes' /\ BlockTypes' /\ ProcessTypes' /\ KillStages'
      /\ EndOrder' /\ Counters' /\ HandedOnce' /\ Signalled' /\ Complete'
  BY <1>1, KeepKillTypes, KeepHeaderTypes, KeepBlockTypes, KeepProcessTypes,
      KeepKillStages, KeepEndOrder, KeepCounters, KeepHandedOnce,
      KeepSignalled, KeepComplete, Zenon
<1>3. WorkTypes'
  <2>1. result' \in BOOLEAN
    BY <1>1, Zenon DEF Return, KillTypes
  <2> QED BY <1>1, <2>1, Zenon DEF Return, WorkTypes
<1>4. Phases'
  BY <1>1, Zenon DEF Return, Phases, BlockTypes
<1>5. SuccessIsComplete'
  BY <1>1, Zenon DEF Return, SuccessIsComplete, EndOrder, KillStages, Complete,
      Finished
<1>6. PoolsReleased'
  BY <1>1, Zenon DEF Return, PoolsReleased, EndOrder, KillStages, Finished
<1> QED BY <1>2, <1>3, <1>4, <1>5, <1>6, Zenon DEF DInv, DTypeOK

(* fetchHeaders *)

LEMMA NextHeadersStep ==
  ASSUME WorkTypes, KillTypes, HeaderTypes, BlockTypes, ProcessTypes, KillStages,
         EndOrder, Phases, Counters, HandedOnce, Signalled, Complete,
         SuccessIsComplete, PoolsReleased, NextHeaders
  PROVE  DInv'
<1> USE DownloaderAssumption DEF Blocks, Clients, Master, Answered
<1>1. UNCHANGED <<chain, quit, spc, result, ancestor, pclosed, bclosed,
                  current, hd, hi, fpc, fh, fabort, bst, tries, fblocks,
                  newblockCh, ppc, bnum, cnt, pabort>>
  BY Zenon DEF NextHeaders, pools, fvars, bvars, pvars, svars
<1>2. BlockTypes' /\ ProcessTypes' /\ Signalled' /\ SuccessIsComplete'
  BY <1>1, KeepBlockTypes, KeepProcessTypes, KeepSignalled,
      KeepSuccessIsComplete, Zenon
<1>3. WorkTypes'
  BY <1>1, Zenon DEF NextHeaders, Kill, Ask, WorkTypes, kvars
<1>4. KillTypes'
  BY <1>1, KillKeepsTypes, ZenonT(30) DEF NextHeaders
<1>5. HeaderTypes'
  BY <1>1, Zenon DEF NextHeaders, Kill, Ask, HeaderTypes, Counters, kvars
<1>6. KillStages'
  BY <1>1, Zenon DEF NextHeaders, Kill, Ask, KillStages, Working, Finished,
      KillTypes, kvars
<1>7. EndOrder'
  BY <1>1, Zenon DEF NextHeaders, Kill, Ask, EndOrder, KillStages, Finished,
      kvars
<1>8. Phases'
  BY <1>1, Zenon DEF NextHeaders, Kill, Ask, Phases, BlockTypes, kvars
<1>9. Counters'
  BY <1>1 DEF NextHeaders, Kill, Ask, Counters, WorkTypes, HeaderTypes,
      BlockTypes, ProcessTypes, kvars
<1>10. HandedOnce'
  BY <1>1, Zenon DEF NextHeaders, Kill, Ask, HandedOnce, Counters, HeaderTypes,
      BlockTypes, kvars
<1>11. Complete'
  BY <1>1, KillKeepsComplete, Zenon DEF NextHeaders
<1>12. PoolsReleased'
  BY <1>1, ZenonT(30) DEF NextHeaders, Kill, Ask, PoolsReleased, kvars
<1> QED BY <1>2, <1>3, <1>4, <1>5, <1>6, <1>7, <1>8, <1>9, <1>10, <1>11, <1>12, Zenon
    DEF DInv, DTypeOK

LEMMA GotHeadersStep ==
  ASSUME WorkTypes, KillTypes, HeaderTypes, BlockTypes, ProcessTypes, KillStages,
         EndOrder, Phases, Counters, HandedOnce, Signalled, Complete,
         SuccessIsComplete, PoolsReleased, GotHeaders
  PROVE  DInv'
<1> USE DownloaderAssumption DEF Blocks, Clients, Master, Answered
<1>1. UNCHANGED <<chain, quit, spc, result, ancestor, pclosed, bclosed, preq,
                  current, fpc, fh, fabort, bst, tries, fblocks, newblockCh,
                  ppc, bnum, cnt, pabort>>
  BY Zenon DEF GotHeaders, pools, fvars, bvars, pvars, svars
<1>2. WorkTypes' /\ BlockTypes' /\ ProcessTypes' /\ Signalled' /\
      SuccessIsComplete'
  BY <1>1, KeepWorkTypes, KeepBlockTypes, KeepProcessTypes, KeepSignalled,
      KeepSuccessIsComplete, Zenon
<1>3. KillTypes'
  BY <1>1, KillKeepsTypes, ZenonT(30) DEF GotHeaders
<1>4. HeaderTypes'
  BY <1>1 DEF GotHeaders, Kill, HeaderTypes, Counters, kvars
<1>5. KillStages'
  BY <1>1, Zenon DEF GotHeaders, Kill, KillStages, Working, Finished, KillTypes,
      kvars
<1>6. EndOrder'
  BY <1>1, Zenon DEF GotHeaders, Kill, EndOrder, KillStages, Finished, kvars
<1>7. Phases'
  BY <1>1, Zenon DEF GotHeaders, Kill, Phases, BlockTypes, kvars
<1>8. Counters'
  <2>1. current \in 1..Last
    BY <1>1 DEF GotHeaders, Counters, HeaderTypes
  <2>2. \/ hpc' = "end"
        \/ /\ hpc' = "check" /\ hd' = current
           /\ hi' = IF current + MaxHeaders > Last + 1 THEN Last
                    ELSE current + MaxHeaders - 1
    BY Zenon DEF GotHeaders
  <2>3. hpc' = "end" \/ (hpc' = "check" /\ 1 <= hd' /\ hd' <= hi')
    BY <2>1, <2>2
  <2> QED BY <1>1, <2>3, Zenon DEF Counters
<1>9. HandedOnce'
  BY <1>1, Zenon DEF GotHeaders, Kill, HandedOnce, Counters, HeaderTypes,
      BlockTypes, kvars
<1>10. Complete'
  BY <1>1, KillKeepsComplete, Zenon DEF GotHeaders
<1>11. PoolsReleased'
  BY <1>1, ZenonT(30) DEF GotHeaders, Kill, PoolsReleased, kvars
<1> QED BY <1>2, <1>3, <1>4, <1>5, <1>6, <1>7, <1>8, <1>9, <1>10, <1>11, Zenon DEF
    DInv, DTypeOK

LEMMA CheckHeaderStep ==
  ASSUME WorkTypes, KillTypes, HeaderTypes, BlockTypes, ProcessTypes, KillStages,
         EndOrder, Phases, Counters, HandedOnce, Signalled, Complete,
         SuccessIsComplete, PoolsReleased, CheckHeader
  PROVE  DInv'
<1> USE DownloaderAssumption DEF Blocks, Clients, Master, Answered
<1>1. UNCHANGED <<chain, quit, spc, result, ancestor, dead, err, kpc, pclosed,
                  bclosed, preq, hd, hi, fpc, fh, fabort, bst, tries, fblocks,
                  newblockCh, ppc, bnum, cnt, pabort>>
  BY Zenon DEF CheckHeader, kvars, pools, fvars, bvars, pvars, svars
<1>2. WorkTypes' /\ KillTypes' /\ BlockTypes' /\ ProcessTypes' /\ KillStages'
      /\ Signalled' /\ Complete' /\ SuccessIsComplete' /\ PoolsReleased'
  BY <1>1, KeepWorkTypes, KeepKillTypes, KeepBlockTypes, KeepProcessTypes,
      KeepKillStages, KeepSignalled, KeepComplete, KeepSuccessIsComplete,
      KeepPoolsReleased, Zenon
<1>3. HeaderTypes'
  BY <1>1 DEF CheckHeader, HeaderTypes, Counters
<1>4. EndOrder'
  BY <1>1, Zenon DEF CheckHeader, EndOrder, KillStages, Finished
<1>5. Phases'
  BY <1>1, Zenon DEF CheckHeader, Phases, BlockTypes
<1>6. Counters'
  BY <1>1, Zenon DEF CheckHeader, Counters, WorkTypes, HeaderTypes, BlockTypes,
      ProcessTypes
<1>7. HandedOnce'
  BY <1>1, Zenon DEF CheckHeader, HandedOnce, HeaderTypes, BlockTypes
<1> QED BY <1>2, <1>3, <1>4, <1>5, <1>6, <1>7, Zenon DEF DInv, DTypeOK

LEMMA SendHeaderStep ==
  ASSUME WorkTypes, KillTypes, HeaderTypes, BlockTypes, ProcessTypes, KillStages,
         EndOrder, Phases, Counters, HandedOnce, Signalled, Complete,
         SuccessIsComplete, PoolsReleased, SendHeader
  PROVE  DInv'
<1> USE DownloaderAssumption DEF Blocks, Clients, Master, Answered
<1>1. UNCHANGED <<chain, quit, spc, result, ancestor, dead, err, kpc, pclosed,
                  bclosed, preq, hi, fabort, bst, tries, fblocks, newblockCh,
                  ppc, bnum, cnt, pabort>>
  BY Zenon DEF SendHeader, kvars, pools, bvars, pvars, svars
<1>2. WorkTypes' /\ KillTypes' /\ BlockTypes' /\ ProcessTypes' /\ KillStages'
      /\ Signalled' /\ Complete' /\ SuccessIsComplete' /\ PoolsReleased'
  BY <1>1, KeepWorkTypes, KeepKillTypes, KeepBlockTypes, KeepProcessTypes,
      KeepKillStages, KeepSignalled, KeepComplete, KeepSuccessIsComplete,
      KeepPoolsReleased, Zenon
<1>3. HeaderTypes'
  BY <1>1 DEF SendHeader, HeaderTypes, Counters
<1>4. EndOrder'
  BY <1>1, Zenon DEF SendHeader, EndOrder, KillStages, Finished
<1>5. Phases'
  BY <1>1, Zenon DEF SendHeader, Phases, BlockTypes
<1>6. Counters'
  BY <1>1 DEF SendHeader, Counters, WorkTypes, HeaderTypes, BlockTypes,
      ProcessTypes
<1>7. HandedOnce'
  <2>1. /\ hpc = "send" /\ fpc' = "submit" /\ fh' = hd /\ hd' = hd + 1
        /\ (hpc' = "loop" /\ hd = hi /\ current' = hi + 1) \/ hpc' = "check"
    BY Zenon DEF SendHeader
  <2>2. 1 <= hd /\ hd <= hi
    BY <2>1, Zenon DEF Counters
  <2>3. hd \in Blocks /\ hd >= hd
        /\ \A n \in Blocks : n >= hd + 1 => n >= hd /\ n # hd
    BY <2>2 DEF HeaderTypes
  <2> QED BY <1>1, <2>1, <2>3, Zenon DEF HandedOnce
<1> QED BY <1>2, <1>3, <1>4, <1>5, <1>6, <1>7, Zenon DEF DInv, DTypeOK

LEMMA HeadersEndStep ==
  ASSUME WorkTypes, KillTypes, HeaderTypes, BlockTypes, ProcessTypes, KillStages,
         EndOrder, Phases, Counters, HandedOnce, Signalled, Complete,
         SuccessIsComplete, PoolsReleased, HeadersEnd
  PROVE  DInv'
<1> USE DownloaderAssumption DEF Blocks, Clients, Master, Answered
<1>1. UNCHANGED <<chain, quit, spc, result, ancestor, dead, err, kpc, pclosed,
                  bclosed, preq, current, hd, hi, fpc, fh, fabort, bst, tries,
                  fblocks, newblockCh, ppc, bnum, cnt, pabort>>
  BY Zenon DEF HeadersEnd, kvars, pools, fvars, bvars, pvars, svars
<1>2. WorkTypes' /\ KillTypes' /\ BlockTypes' /\ ProcessTypes' /\ KillStages'
      /\ Signalled' /\ Complete' /\ SuccessIsComplete' /\ PoolsReleased'
  BY <1>1, KeepWorkTypes, KeepKillTypes, KeepBlockTypes, KeepProcessTypes,
      KeepKillStages, KeepSignalled, KeepComplete, KeepSuccessIsComplete,
      KeepPoolsReleased, Zenon
<1>3. HeaderTypes'
  BY <1>1, Zenon DEF HeadersEnd, HeaderTypes, Counters
<1>4. EndOrder'
  BY <1>1, Zenon DEF HeadersEnd, EndOrder, KillStages, Finished
<1>5. Phases'
  BY <1>1, Zenon DEF HeadersEnd, Phases, BlockTypes
<1>6. Counters'
  BY <1>1, Zenon DEF HeadersEnd, Counters, WorkTypes, HeaderTypes, BlockTypes,
      ProcessTypes
<1>7. HandedOnce'
  BY <1>1, Zenon DEF HeadersEnd, HandedOnce, HeaderTypes, BlockTypes
<1> QED BY <1>2, <1>3, <1>4, <1>5, <1>6, <1>7, Zenon DEF DInv, DTypeOK

(* fetchFullBlocks and its jobs *)

LEMMA SubmitBlockStep ==
  ASSUME WorkTypes, KillTypes, HeaderTypes, BlockTypes, ProcessTypes, KillStages,
         EndOrder, Phases, Counters, HandedOnce, Signalled, Complete,
         SuccessIsComplete, PoolsReleased, SubmitBlock
  PROVE  DInv'
<1> USE DownloaderAssumption DEF Blocks, Clients, Master, Answered
<1>1. UNCHANGED <<chain, quit, spc, result, ancestor, dead, err, kpc, pclosed,
                  bclosed, preq, hpc, current, hd, hi, fh, tries, fblocks,
                  newblockCh, ppc, bnum, cnt, pabort>>
  BY Zenon DEF SubmitBlock, kvars, pools, hvars, pvars, svars
<1>2. WorkTypes' /\ KillTypes' /\ ProcessTypes' /\ Complete' /\
      SuccessIsComplete' /\ PoolsReleased'
  BY <1>1, KeepWorkTypes, KeepKillTypes, KeepProcessTypes, KeepComplete,
      KeepSuccessIsComplete, KeepPoolsReleased, Zenon
<1>3. HeaderTypes'
  BY <1>1, Zenon DEF SubmitBlock, HeaderTypes, Counters
<1>4. BlockTypes'
  BY <1>1, Zenon DEF SubmitBlock, BlockTypes, Counters, HeaderTypes
<1>5. KillStages'
  BY <1>1, Zenon DEF SubmitBlock, KillStages, Working, Finished, KillTypes
<1>6. EndOrder'
  BY <1>1, Zenon DEF SubmitBlock, EndOrder, KillStages, Finished
<1>7. Phases'
  BY <1>1, Zenon DEF SubmitBlock, Phases, BlockTypes
<1>8. Counters'
  BY <1>1, Zenon DEF SubmitBlock, Counters, WorkTypes, HeaderTypes, BlockTypes,
      ProcessTypes
<1>9. HandedOnce'
  BY <1>1, Zenon DEF SubmitBlock, HandedOnce, HeaderTypes, BlockTypes
<1>10. Signalled'
  BY <1>1, ZenonT(30) DEF SubmitBlock, Signalled, Needed, BlockTypes,
      HeaderTypes, HandedOnce, Counters
<1> QED BY <1>2, <1>3, <1>4, <1>5, <1>6, <1>7, <1>8, <1>9, <1>10, Zenon DEF DInv,
    DTypeOK

LEMMA BlocksEndStep ==
  ASSUME WorkTypes, KillTypes, HeaderTypes, BlockTypes, ProcessTypes, KillStages,
         EndOrder, Phases, Counters, HandedOnce, Signalled, Complete,
         SuccessIsComplete, PoolsReleased, BlocksEnd
  PROVE  DInv'
<1> USE DownloaderAssumption DEF Blocks, Clients, Master, Answered
<1>1. UNCHANGED <<chain, quit, spc, result, ancestor, dead, err, kpc, pclosed,
                  bclosed, preq, hpc, current, hd, hi, fh, fabort, bst, tries,
                  fblocks, newblockCh, ppc, bnum, cnt, pabort>>
  BY Zenon DEF BlocksEnd, kvars, pools, hvars, bvars, pvars, svars
<1>2. WorkTypes' /\ KillTypes' /\ BlockTypes' /\ ProcessTypes' /\ KillStages'
      /\ Signalled' /\ Complete' /\ SuccessIsComplete' /\ PoolsReleased'
  BY <1>1, KeepWorkTypes, KeepKillTypes, KeepBlockTypes, KeepProcessTypes,
      KeepKillStages, KeepSignalled, KeepComplete, KeepSuccessIsComplete,
      KeepPoolsReleased, Zenon
<1>3. HeaderTypes'
  BY <1>1, Zenon DEF BlocksEnd, HeaderTypes, Counters
<1>4. EndOrder'
  BY <1>1, Zenon DEF BlocksEnd, EndOrder, KillStages, Finished
<1>5. Phases'
  BY <1>1, Zenon DEF BlocksEnd, Phases, BlockTypes
<1>6. Counters'
  BY <1>1, Zenon DEF BlocksEnd, Counters, WorkTypes, HeaderTypes, BlockTypes,
      ProcessTypes
<1>7. HandedOnce'
  BY <1>1, Zenon DEF BlocksEnd, HandedOnce, HeaderTypes, BlockTypes
<1> QED BY <1>2, <1>3, <1>4, <1>5, <1>6, <1>7, Zenon DEF DInv, DTypeOK

LEMMA BRunStep ==
  ASSUME WorkTypes, KillTypes, HeaderTypes, BlockTypes, ProcessTypes, KillStages,
         EndOrder, Phases, Counters, HandedOnce, Signalled, Complete,
         SuccessIsComplete, PoolsReleased, NEW n \in Blocks, BRun(n)
  PROVE  DInv'
<1> USE DownloaderAssumption DEF Blocks, Clients, Master, Answered
<1>1. UNCHANGED <<chain, quit, spc, result, ancestor, dead, err, kpc, pclosed,
                  bclosed, preq, hpc, current, hd, hi, fpc, fh, fabort,
                  fblocks, newblockCh, ppc, bnum, cnt, pabort>>
  BY Zenon DEF BRun, rest, kvars, pools, hvars, fvars, pvars, svars
<1>2. WorkTypes' /\ KillTypes' /\ HeaderTypes' /\ ProcessTypes' /\ EndOrder' /\
      Complete' /\ SuccessIsComplete' /\ PoolsReleased'
  BY <1>1, KeepWorkTypes, KeepKillTypes, KeepHeaderTypes, KeepProcessTypes,
      KeepEndOrder, KeepComplete, KeepSuccessIsComplete, KeepPoolsReleased,
      Zenon
<1>3. BlockTypes'
  BY <1>1 DEF BRun, BlockTypes, Counters, HeaderTypes
<1>4. KillStages'
  BY <1>1, Zenon DEF BRun, KillStages, Working, Finished, KillTypes
<1>5. Phases'
  BY <1>1, Zenon DEF BRun, Phases, BlockTypes
<1>6. Counters'
  BY <1>1, Zenon DEF BRun, Counters, WorkTypes, HeaderTypes, BlockTypes,
      ProcessTypes
<1>7. HandedOnce'
  BY <1>1 DEF BRun, HandedOnce, HeaderTypes, BlockTypes
<1>8. Signalled'
  BY <1>1, Zenon DEF BRun, Signalled, Needed, BlockTypes
<1> QED BY <1>2, <1>3, <1>4, <1>5, <1>6, <1>7, <1>8, Zenon DEF DInv, DTypeOK

LEMMA BLoseStep ==
  ASSUME WorkTypes, KillTypes, HeaderTypes, BlockTypes, ProcessTypes, KillStages,
         EndOrder, Phases, Counters, HandedOnce, Signalled, Complete,
         SuccessIsComplete, PoolsReleased, NEW n \in Blocks, BLose(n)
  PROVE  DInv'
<1> USE DownloaderAssumption DEF Blocks, Clients, Master, Answered
<1>1. UNCHANGED <<chain, quit, spc, result, ancestor, dead, err, kpc, pclosed,
                  bclosed, preq, hpc, current, hd, hi, fpc, fh, fabort, tries,
                  fblocks, newblockCh, ppc, bnum, cnt, pabort>>
  BY Zenon DEF BLose, rest, kvars, pools, hvars, fvars, pvars, svars
<1>2. WorkTypes' /\ KillTypes' /\ HeaderTypes' /\ ProcessTypes' /\ EndOrder' /\
      Complete' /\ SuccessIsComplete' /\ PoolsReleased'
  BY <1>1, KeepWorkTypes, KeepKillTypes, KeepHeaderTypes, KeepProcessTypes,
      KeepEndOrder, KeepComplete, KeepSuccessIsComplete, KeepPoolsReleased,
      Zenon
<1>3. BlockTypes'
  BY <1>1, Zenon DEF BLose, BlockTypes, Counters, HeaderTypes
<1>4. KillStages'
  BY <1>1, Zenon DEF BLose, KillStages, Working, Finished, KillTypes
<1>5. Phases'
  BY <1>1, Zenon DEF BLose, Phases, BlockTypes
<1>6. Counters'
  BY <1>1, Zenon DEF BLose, Counters, WorkTypes, HeaderTypes, BlockTypes,
      ProcessTypes
<1>7. HandedOnce'
  BY <1>1 DEF BLose, HandedOnce, HeaderTypes, BlockTypes
<1>8. Signalled'
  BY <1>1, Zenon DEF BLose, Signalled, Needed, BlockTypes
<1> QED BY <1>2, <1>3, <1>4, <1>5, <1>6, <1>7, <1>8, Zenon DEF DInv, DTypeOK

\* What Settle leaves of the requests and the tries.
LEMMA Settled ==
  ASSUME WorkTypes, BlockTypes, NEW n \in Blocks, Settle(n)
  PROVE  /\ preq' \in [Clients -> {"none", "pending", "lost"} \cup Answered]
         /\ \A c \in Clients : c # n => preq'[c] = preq[c]
         /\ tries' \in [Blocks -> 0..(Tries + 1)]
         /\ \A m \in Blocks : m # n => tries'[m] = tries[m]
<1>1. 0 \in 0..(Tries + 1) /\ Blocks \subseteq Clients
  BY DownloaderAssumption DEF Blocks, Clients
<1> QED BY <1>1, Zenon DEF Settle, WorkTypes, BlockTypes

LEMMA BGiveUpStep ==
  ASSUME WorkTypes, KillTypes, HeaderTypes, BlockTypes, ProcessTypes, KillStages,
         EndOrder, Phases, Counters, HandedOnce, Signalled, Complete,
         SuccessIsComplete, PoolsReleased, NEW n \in Blocks, BGiveUp(n)
  PROVE  DInv'
<1> USE DownloaderAssumption DEF Blocks, Clients, Master, Answered
<1>1. UNCHANGED <<chain, quit, spc, result, ancestor, pclosed, bclosed,
                  hpc, current, hd, hi, fpc, fh, fabort, fblocks,
                  newblockCh, ppc, bnum, cnt, pabort>>
  BY Zenon DEF BGiveUp, rest, pools, hvars, fvars, pvars, svars
<1>s. /\ preq' \in [Clients -> {"none", "pending", "lost"} \cup Answered]
      /\ tries' \in [Blocks -> 0..(Tries + 1)]
      /\ \A m \in Blocks : m # n => tries'[m] = tries[m]
  BY Settled, Zenon DEF BGiveUp
<1>w. WorkTypes'
  BY <1>1, <1>s, Zenon DEF WorkTypes
<1>2. HeaderTypes' /\ ProcessTypes' /\ SuccessIsComplete'
  BY <1>1, KeepHeaderTypes, KeepProcessTypes,
      KeepSuccessIsComplete, Zenon
<1>3. KillTypes'
  BY <1>1, KillKeepsTypes, Zenon DEF BGiveUp
<1>4. BlockTypes'
  BY <1>1, <1>s, Zenon DEF BGiveUp, BlockTypes
<1>5. KillStages'
  BY <1>1, Zenon DEF BGiveUp, Kill, KillStages, Working, Finished, KillTypes,
      kvars
<1>6. EndOrder'
  BY <1>1, Zenon DEF BGiveUp, Kill, EndOrder, KillStages, Finished, kvars
<1>7. Phases'
  BY <1>1, Zenon DEF BGiveUp, Kill, Phases, BlockTypes, kvars
<1>8. Counters'
  BY <1>1, <1>s, Zenon DEF BGiveUp, Kill, Counters, WorkTypes, HeaderTypes,
      BlockTypes, ProcessTypes, kvars
<1>9. HandedOnce'
  BY <1>1 DEF BGiveUp, Kill, HandedOnce, HeaderTypes, BlockTypes, kvars
<1>10. Signalled'
  BY <1>1, Zenon DEF BGiveUp, Kill, Signalled, Needed, BlockTypes, kvars
<1>11. Complete'
  BY <1>1, KillKeepsComplete, Zenon DEF BGiveUp
<1>12. PoolsReleased'
  BY <1>1, Zenon DEF BGiveUp, Kill, PoolsReleased, kvars
<1> QED BY <1>w, <1>2, <1>3, <1>4, <1>5, <1>6, <1>7, <1>8, <1>9, <1>10, <1>11, <1>12, Zenon
    DEF DInv, DTypeOK

LEMMA BAskStep ==
  ASSUME WorkTypes, KillTypes, HeaderTypes, BlockTypes, ProcessTypes, KillStages,
         EndOrder, Phases, Counters, HandedOnce, Signalled, Complete,
         SuccessIsComplete, PoolsReleased, NEW n \in Blocks, BAsk(n)
  PROVE  DInv'
<1> USE DownloaderAssumption DEF Blocks, Clients, Master, Answered
<1>1. UNCHANGED <<chain, quit, spc, result, ancestor, dead, err, kpc, pclosed,
                  bclosed, hpc, current, hd, hi, fpc, fh, fabort, tries,
                  fblocks, newblockCh, ppc, bnum, cnt, pabort>>
  BY Zenon DEF BAsk, rest, kvars, pools, hvars, fvars, pvars, svars
<1>2. KillTypes' /\ HeaderTypes' /\ ProcessTypes' /\ EndOrder' /\ Complete' /\
      SuccessIsComplete' /\ PoolsReleased'
  BY <1>1, KeepKillTypes, KeepHeaderTypes, KeepProcessTypes, KeepEndOrder,
      KeepComplete, KeepSuccessIsComplete, KeepPoolsReleased, Zenon
<1>3. WorkTypes'
  BY <1>1, Zenon DEF BAsk, Ask, WorkTypes
<1>4. BlockTypes'
  BY <1>1, Zenon DEF BAsk, Ask, BlockTypes, Counters, HeaderTypes
<1>5. KillStages'
  BY <1>1, Zenon DEF BAsk, Ask, KillStages, Working, Finished, KillTypes
<1>6. Phases'
  BY <1>1, Zenon DEF BAsk, Ask, Phases, BlockTypes
<1>7. Counters'
  BY <1>1, Zenon DEF BAsk, Ask, Counters, WorkTypes, HeaderTypes, BlockTypes,
      ProcessTypes
<1>8. HandedOnce'
  BY <1>1 DEF BAsk, Ask, HandedOnce, HeaderTypes, BlockTypes
<1>9. Signalled'
  BY <1>1, Zenon DEF BAsk, Ask, Signalled, Needed, BlockTypes
<1> QED BY <1>2, <1>3, <1>4, <1>5, <1>6, <1>7, <1>8, <1>9, Zenon DEF DInv, DTypeOK

LEMMA BGotStep ==
  ASSUME WorkTypes, KillTypes, HeaderTypes, BlockTypes, ProcessTypes, KillStages,
         EndOrder, Phases, Counters, HandedOnce, Signalled, Complete,
         SuccessIsComplete, PoolsReleased, NEW n \in Blocks, BGot(n)
  PROVE  DInv'
<1> USE DownloaderAssumption DEF Blocks, Clients, Master, Answered
<1>1. UNCHANGED <<chain, quit, spc, result, ancestor, dead, err, kpc, pclosed,
                  bclosed, hpc, current, hd, hi, fpc, fh, fabort,
                  newblockCh, ppc, bnum, cnt, pabort>>
  BY Zenon DEF BGot, rest, kvars, pools, hvars, fvars, pvars, svars
<1>s. /\ preq' \in [Clients -> {"none", "pending", "lost"} \cup Answered]
      /\ tries' \in [Blocks -> 0..(Tries + 1)]
      /\ \A m \in Blocks : m # n => tries'[m] = tries[m]
  BY Settled, Zenon DEF BGot
<1>w. WorkTypes'
  BY <1>1, <1>s, Zenon DEF WorkTypes
<1>2. KillTypes' /\ HeaderTypes' /\ ProcessTypes' /\ EndOrder' /\
      Complete' /\ SuccessIsComplete' /\ PoolsReleased'
  BY <1>1, KeepKillTypes, KeepHeaderTypes, KeepProcessTypes,
      KeepEndOrder, KeepComplete, KeepSuccessIsComplete, KeepPoolsReleased,
      Zenon
<1>3. BlockTypes'
  BY <1>1, <1>s, Zenon DEF BGot, BlockTypes
<1>4. KillStages'
  BY <1>1, Zenon DEF BGot, KillStages, Working, Finished, KillTypes
<1>5. Phases'
  BY <1>1, Zenon DEF BGot, Phases, BlockTypes
<1>6. Counters'
  BY <1>1, <1>s, Zenon DEF BGot, Counters, WorkTypes, HeaderTypes, BlockTypes,
      ProcessTypes
<1>7. HandedOnce'
  BY <1>1 DEF BGot, HandedOnce, HeaderTypes, BlockTypes
<1>8. Signalled'
  BY <1>1, Zenon DEF BGot, Signalled, Needed, BlockTypes
<1> QED BY <1>w, <1>2, <1>3, <1>4, <1>5, <1>6, <1>7, <1>8, Zenon DEF DInv, DTypeOK

LEMMA BRefusedStep ==
  ASSUME WorkTypes, KillTypes, HeaderTypes, BlockTypes, ProcessTypes, KillStages,
         EndOrder, Phases, Counters, HandedOnce, Signalled, Complete,
         SuccessIsComplete, PoolsReleased, NEW n \in Blocks, BRefused(n)
  PROVE  DInv'
<1> USE DownloaderAssumption DEF Blocks, Clients, Master, Answered
<1>1. UNCHANGED <<chain, quit, spc, result, ancestor, pclosed, bclosed,
                  hpc, current, hd, hi, fpc, fh, fabort, fblocks, newblockCh,
                  ppc, bnum, cnt, pabort>>
  BY Zenon DEF BRefused, rest, pools, hvars, fvars, pvars, svars
<1>s. ASSUME preq[n] = "aborted"
      PROVE  /\ preq' \in [Clients -> {"none", "pending", "lost"} \cup Answered]
             /\ tries' \in [Blocks -> 0..(Tries + 1)]
             /\ bst' = [bst EXCEPT ![n] = "done"]
             /\ \A m \in Blocks : m # n => tries'[m] = tries[m]
  BY <1>s, Settled, Zenon DEF BRefused
<1>w. WorkTypes'
  <2>1. CASE preq[n] = "aborted"
    BY <1>1, <1>s, <2>1, Zenon DEF WorkTypes
  <2>2. CASE preq[n] # "aborted"
    BY <1>1, <2>2, Zenon DEF BRefused, WorkTypes
  <2> QED BY <2>1, <2>2, Zenon
<1>2. HeaderTypes' /\ ProcessTypes' /\ SuccessIsComplete'
  BY <1>1, KeepHeaderTypes, KeepProcessTypes,
      KeepSuccessIsComplete, Zenon
<1>3. KillTypes'
  BY <1>1, KillKeepsTypes, Zenon DEF BRefused
<1>4. BlockTypes'
  <2>1. CASE preq[n] = "aborted"
    BY <1>1, <1>s, <2>1, Zenon DEF BlockTypes
  <2>2. CASE preq[n] # "aborted"
    <3>1. tries[n] \in 0..Tries /\ tries' = [tries EXCEPT ![n] = tries[n] + 1]
          /\ bst' = [bst EXCEPT ![n] = "try"] /\ UNCHANGED <<fblocks, newblockCh>>
      BY <1>1, <2>2 DEF BRefused, BlockTypes, Counters
    <3>2. tries[n] + 1 \in 0..(Tries + 1)
      BY <3>1
    <3> QED BY <3>1, <3>2, Zenon DEF BlockTypes
  <2> QED BY <2>1, <2>2, Zenon
<1>5. KillStages'
  BY <1>1, Zenon DEF BRefused, Kill, KillStages, Working, Finished, KillTypes,
      kvars
<1>6. EndOrder'
  BY <1>1, Zenon DEF BRefused, Kill, EndOrder, KillStages, Finished, kvars
<1>7. Phases'
  BY <1>1, Zenon DEF BRefused, Kill, Phases, BlockTypes, kvars
<1>8. Counters'
  <2>1. \A m \in Blocks : m # n => tries'[m] = tries[m] /\ bst'[m] = bst[m]
    BY <1>s, Zenon DEF BRefused, BlockTypes
  <2>2. bst'[n] # "asked"
    BY Zenon DEF BRefused, BlockTypes
  <2> QED BY <1>1, <2>1, <2>2, Zenon DEF Counters
<1>9. HandedOnce'
  <2>1. UNCHANGED <<hpc, current, hd, fpc, fh>> /\ bst[n] # "none"
        /\ \A m \in 1..Last : m # n => bst'[m] = bst[m]
    BY <1>1, Zenon DEF BRefused, BlockTypes
  <2> QED BY <2>1 DEF HandedOnce, Counters, HeaderTypes
<1>10. Signalled'
  BY <1>1, Zenon DEF BRefused, Kill, Signalled, Needed, BlockTypes, kvars
<1>11. Complete'
  BY <1>1, KillKeepsComplete, Zenon DEF BRefused
<1>12. PoolsReleased'
  BY <1>1, ZenonT(30) DEF BRefused, Kill, PoolsReleased, kvars
<1> QED BY <1>w, <1>2, <1>3, <1>4, <1>5, <1>6, <1>7, <1>8, <1>9, <1>10, <1>11, <1>12, Zenon
    DEF DInv, DTypeOK

LEMMA BSignalStep ==
  ASSUME WorkTypes, KillTypes, HeaderTypes, BlockTypes, ProcessTypes, KillStages,
         EndOrder, Phases, Counters, HandedOnce, Signalled, Complete,
         SuccessIsComplete, PoolsReleased, NEW n \in Blocks, BSignal(n)
  PROVE  DInv'
<1> USE DownloaderAssumption DEF Blocks, Clients, Master, Answered
<1>1. UNCHANGED <<chain, quit, spc, result, ancestor, dead, err, kpc, pclosed,
                  bclosed, preq, hpc, current, hd, hi, fpc, fh, fabort, tries,
                  fblocks, ppc, bnum, cnt, pabort>>
  BY Zenon DEF BSignal, kvars, pools, hvars, fvars, pvars, svars
<1>2. WorkTypes' /\ KillTypes' /\ HeaderTypes' /\ ProcessTypes' /\ EndOrder' /\
      Complete' /\ SuccessIsComplete' /\ PoolsReleased'
  BY <1>1, KeepWorkTypes, KeepKillTypes, KeepHeaderTypes, KeepProcessTypes,
      KeepEndOrder, KeepComplete, KeepSuccessIsComplete, KeepPoolsReleased,
      Zenon
<1>3. BlockTypes'
  <2>1. newblockCh' \in Seq(1..Last) /\ Len(newblockCh') <= Signals
    BY DEF BSignal, BlockTypes
  <2>2. bst' \in [1..Last -> {"none", "queued", "try", "asked", "put", "done", "lost"}]
    BY Zenon DEF BSignal, BlockTypes
  <2> QED BY <1>1, <2>1, <2>2, Zenon DEF BlockTypes
<1>4. KillStages'
  BY <1>1, Zenon DEF BSignal, KillStages, Working, Finished, KillTypes
<1>5. Phases'
  BY <1>1, Zenon DEF BSignal, Phases, BlockTypes
<1>6. Counters'
  BY <1>1, Zenon DEF BSignal, Counters, WorkTypes, HeaderTypes, BlockTypes,
      ProcessTypes
<1>7. HandedOnce'
  BY <1>1 DEF BSignal, HandedOnce, HeaderTypes, BlockTypes
<1>8. Signalled'
  <2>1. Len(newblockCh') = Len(newblockCh) + 1 /\ newblockCh'[Len(newblockCh')] = n
        /\ \A i \in 1..Len(newblockCh) : newblockCh'[i] = newblockCh[i]
    BY <1>1 DEF BSignal, BlockTypes
  <2>2. UNCHANGED <<ppc, pabort, fblocks, bnum, cnt>>
        /\ \A m \in 1..Last : m # n => bst'[m] = bst[m]
    BY <1>1, Zenon DEF BSignal, BlockTypes
  <2>3. Len(newblockCh) \in Nat /\ fblocks \subseteq 1..Last
    BY DEF BlockTypes
  <2>4. Needed' = Needed
    BY <2>2, Zenon DEF Needed
  <2>5. CASE Needed = n
    BY <2>1, <2>3, <2>4, <2>5 DEF Signalled
  <2>6. CASE Needed # n
    BY <2>1, <2>2, <2>3, <2>4, <2>6 DEF Signalled
  <2> QED BY <2>5, <2>6, Zenon
<1> QED BY <1>2, <1>3, <1>4, <1>5, <1>6, <1>7, <1>8, Zenon DEF DInv, DTypeOK

(* processBlocks *)

LEMMA PStartStep ==
  ASSUME WorkTypes, KillTypes, HeaderTypes, BlockTypes, ProcessTypes, KillStages,
         EndOrder, Phases, Counters, HandedOnce, Signalled, Complete,
         SuccessIsComplete, PoolsReleased, PStart
  PROVE  DInv'
<1> USE DownloaderAssumption DEF Blocks, Clients, Master, Answered
<1>1. UNCHANGED <<chain, quit, spc, result, ancestor, pclosed, bclosed, preq,
                  hpc, current, hd, hi, fpc, fh, fabort, bst, tries, fblocks,
                  newblockCh, bnum, cnt, pabort>>
  BY Zenon DEF PStart, pools, hvars, fvars, bvars, svars
<1>2. WorkTypes' /\ HeaderTypes' /\ BlockTypes' /\ HandedOnce' /\
      SuccessIsComplete'
  BY <1>1, KeepWorkTypes, KeepHeaderTypes, KeepBlockTypes, KeepHandedOnce,
      KeepSuccessIsComplete, Zenon
<1>3. KillTypes'
  BY <1>1, KillKeepsTypes, ZenonT(30) DEF PStart
<1>4. ProcessTypes'
  BY <1>1, Zenon DEF PStart, Kill, ProcessTypes, Counters, kvars
<1>5. KillStages'
  BY <1>1, Zenon DEF PStart, Kill, KillStages, Working, Finished, KillTypes,
      kvars
<1>6. EndOrder'
  BY <1>1, Zenon DEF PStart, Kill, EndOrder, KillStages, Finished, kvars
<1>7. Phases'
  BY <1>1, Zenon DEF PStart, Kill, Phases, BlockTypes, kvars
<1>8. Counters'
  BY <1>1, Zenon DEF PStart, Kill, Counters, WorkTypes, HeaderTypes, BlockTypes,
      ProcessTypes, kvars
<1>9. Signalled'
  BY <1>1 DEF PStart, Kill, Signalled, Needed, BlockTypes, kvars
<1>10. Complete'
  <2>1. chain' = chain /\ bnum <= chain + 1 /\ chain \in 0..Last /\ bnum \in 0..(Last + 1)
    BY <1>1, Zenon DEF PStart, Counters, WorkTypes, ProcessTypes
  <2>2. bnum > Last => chain = Last
    BY <2>1
  <2> QED BY <2>1, <2>2, KillKeepsComplete, Zenon DEF PStart
<1>11. PoolsReleased'
  BY <1>1, Zenon DEF PStart, Kill, PoolsReleased, kvars
<1> QED BY <1>2, <1>3, <1>4, <1>5, <1>6, <1>7, <1>8, <1>9, <1>10, <1>11, Zenon DEF
    DInv, DTypeOK

LEMMA ReceiveStep ==
  ASSUME WorkTypes, KillTypes, HeaderTypes, BlockTypes, ProcessTypes, KillStages,
         EndOrder, Phases, Counters, HandedOnce, Signalled, Complete,
         SuccessIsComplete, PoolsReleased, Receive
  PROVE  DInv'
<1> USE DownloaderAssumption DEF Blocks, Clients, Master, Answered
<1>1. UNCHANGED <<chain, quit, spc, result, ancestor, dead, err, kpc, pclosed,
                  bclosed, preq, hpc, current, hd, hi, fpc, fh, fabort, bst,
                  tries, bnum, pabort>>
  BY Zenon DEF Receive, kvars, pools, hvars, fvars, bvars, svars
<1>2. WorkTypes' /\ KillTypes' /\ HeaderTypes' /\ KillStages' /\ EndOrder' /\
      HandedOnce' /\ Complete' /\ SuccessIsComplete' /\ PoolsReleased'
  BY <1>1, KeepWorkTypes, KeepKillTypes, KeepHeaderTypes, KeepKillStages,
      KeepEndOrder, KeepHandedOnce, KeepComplete, KeepSuccessIsComplete,
      KeepPoolsReleased, Zenon
<1>a. \/ /\ pabort \/ Head(newblockCh) # bnum \/ bnum \notin fblocks
         /\ UNCHANGED <<ppc, fblocks, cnt>>
      \/ /\ ppc' = "insert" /\ bnum \in fblocks
         /\ \E m \in (bnum + 1)..(Last + 1) :
              /\ m \notin fblocks /\ cnt' = m - bnum
              /\ fblocks' = fblocks \ (bnum..(m - 1))
  BY <1>1, Zenon DEF Receive, Pops
<1>3. BlockTypes'
  <2>1. newblockCh' \in Seq(1..Last) /\ Len(newblockCh') <= Signals
    BY DEF Receive, BlockTypes
  <2>2. fblocks' \subseteq fblocks
    BY <1>a, Zenon
  <2> QED BY <1>1, <2>1, <2>2, Zenon DEF BlockTypes
<1>4. ProcessTypes'
  <2>1. pabort' \in BOOLEAN
    BY <1>1, Zenon DEF ProcessTypes
  <2>2. bnum \in fblocks => bnum \in 1..Last
    BY Zenon DEF BlockTypes
  <2> QED BY <1>1, <1>a, <2>1, <2>2 DEF ProcessTypes
<1>5. Phases'
  BY <1>1, <1>a DEF Receive, Phases
<1>6. Counters'
  BY <1>1, <1>a, Zenon DEF Receive, Counters
<1>7. Signalled'
  <2>1. CASE UNCHANGED <<ppc, fblocks, cnt>>
    <3>1. ASSUME NEW i \in 1..Len(newblockCh), newblockCh[i] = bnum,
                 Head(newblockCh) # bnum
          PROVE  i - 1 \in 1..Len(newblockCh') /\ newblockCh'[i - 1] = bnum
      BY <3>1 DEF Receive, BlockTypes
    <3>2. ppc = "range" /\ (pabort \/ Head(newblockCh) # bnum \/ bnum \notin fblocks)
      BY <1>a, <2>1, Zenon DEF Receive
    <3> QED BY <1>1, <2>1, <3>1, <3>2, Zenon DEF Signalled, Needed
  <2>2. CASE ppc' = "insert"
    <3>1. ppc # "insert" /\ bnum \in 0..(Last + 1)
      BY Zenon DEF Receive, ProcessTypes
    <3>2. PICK m \in (bnum + 1)..(Last + 1) :
            m \notin fblocks /\ cnt' = m - bnum /\ fblocks' = fblocks \ (bnum..(m - 1))
      BY <1>a, <2>2, <3>1, Zenon
    <3>3. bnum + cnt' = m
      BY <3>1, <3>2
    <3>4. Needed' \notin fblocks'
      BY <1>1, <2>2, <3>2, <3>3, Zenon DEF Needed
    <3> QED BY <3>4, Zenon DEF Signalled
  <2> QED BY <1>a, <2>1, <2>2, Zenon
<1> QED BY <1>2, <1>3, <1>4, <1>5, <1>6, <1>7, Zenon DEF DInv, DTypeOK

LEMMA InsertFailsStep ==
  ASSUME WorkTypes, KillTypes, HeaderTypes, BlockTypes, ProcessTypes, KillStages,
         EndOrder, Phases, Counters, HandedOnce, Signalled, Complete,
         SuccessIsComplete, PoolsReleased, InsertFails
  PROVE  DInv'
<1> USE DownloaderAssumption DEF Blocks, Clients, Master, Answered
<1>1. UNCHANGED <<chain, quit, spc, result, ancestor, pclosed, bclosed, preq,
                  hpc, current, hd, hi, fpc, fh, fabort, bst, tries, fblocks,
                  newblockCh, bnum, cnt>>
  BY Zenon DEF InsertFails, pools, hvars, fvars, bvars, svars
<1>2. WorkTypes' /\ HeaderTypes' /\ BlockTypes' /\ HandedOnce' /\
      SuccessIsComplete'
  BY <1>1, KeepWorkTypes, KeepHeaderTypes, KeepBlockTypes, KeepHandedOnce,
      KeepSuccessIsComplete, Zenon
<1>3. KillTypes'
  BY <1>1, KillKeepsTypes, Zenon DEF InsertFails
<1>4. ProcessTypes'
  BY <1>1, Zenon DEF InsertFails, Kill, ProcessTypes, Counters, kvars
<1>5. KillStages'
  BY <1>1, Zenon DEF InsertFails, Kill, KillStages, Working, Finished,
      KillTypes, kvars
<1>6. EndOrder'
  BY <1>1, Zenon DEF InsertFails, Kill, EndOrder, KillStages, Finished, kvars
<1>7. Phases'
  BY <1>1, Zenon DEF InsertFails, Kill, Phases, BlockTypes, kvars
<1>8. Counters'
  BY <1>1, Zenon DEF InsertFails, Kill, Counters, WorkTypes, HeaderTypes,
      BlockTypes, ProcessTypes, kvars
<1>9. Signalled'
  BY <1>1, Zenon DEF InsertFails, Kill, Signalled, Needed, BlockTypes, kvars
<1>10. Complete'
  BY <1>1, KillKeepsComplete, Zenon DEF InsertFails
<1>11. PoolsReleased'
  BY <1>1, Zenon DEF InsertFails, Kill, PoolsReleased, kvars
<1> QED BY <1>2, <1>3, <1>4, <1>5, <1>6, <1>7, <1>8, <1>9, <1>10, <1>11, Zenon DEF
    DInv, DTypeOK

LEMMA InsertStep ==
  ASSUME WorkTypes, KillTypes, HeaderTypes, BlockTypes, ProcessTypes, KillStages,
         EndOrder, Phases, Counters, HandedOnce, Signalled, Complete,
         SuccessIsComplete, PoolsReleased, Insert
  PROVE  DInv'
<1> USE DownloaderAssumption DEF Blocks, Clients, Master, Answered
<1>1. UNCHANGED <<quit, spc, result, ancestor, pclosed, bclosed, preq, hpc,
                  current, hd, hi, fpc, fh, fabort, bst, tries, fblocks,
                  newblockCh, cnt>>
  BY Zenon DEF Insert, pools, hvars, fvars, bvars, svars
<1>2. HeaderTypes' /\ BlockTypes' /\ HandedOnce'
  BY <1>1, KeepHeaderTypes, KeepBlockTypes, KeepHandedOnce, Zenon
<1>a. /\ chain \in 0..Last /\ bnum \in 0..(Last + 1) /\ cnt \in 0..Last
      /\ cnt >= 1 /\ bnum + cnt <= Last + 1 /\ 1 <= bnum /\ bnum <= chain + 1
      /\ chain' = IF bnum + cnt > chain + 1 THEN bnum + cnt - 1 ELSE chain
  BY Zenon DEF Insert, Inserted, WorkTypes, ProcessTypes, Counters
<1>b. /\ chain' \in 0..Last
      /\ chain = Last => chain' = Last
      /\ bnum + cnt - 1 = Last => chain' = Last
  BY <1>a
<1>c. bnum' = bnum \/ bnum' = bnum + cnt
  BY Zenon DEF Insert
<1>3. WorkTypes'
  BY <1>1, <1>b, Zenon DEF WorkTypes
<1>4. KillTypes'
  BY <1>1, KillKeepsTypes, Zenon DEF Insert
<1>5. ProcessTypes'
  <2>1. pabort' \in BOOLEAN
    BY <1>1, Zenon DEF Insert, ProcessTypes
  <2>2. ppc' = "range" /\ cnt' = cnt
    BY <1>1, Zenon DEF Insert
  <2>3. bnum' \in 0..(Last + 1)
    BY <1>a, <1>c
  <2> QED BY <2>1, <2>2, <2>3, Zenon DEF ProcessTypes
<1>6. KillStages'
  BY <1>1, Zenon DEF Insert, Kill, Inserted, KillStages, Working, Finished,
      KillTypes, kvars
<1>7. EndOrder'
  BY <1>1, Zenon DEF Insert, Kill, Inserted, EndOrder, KillStages, Finished,
      kvars
<1>8. Phases'
  BY <1>1, Zenon DEF Insert, Kill, Inserted, Phases, BlockTypes, kvars
<1>9. Counters'
  <2>1. 1 <= bnum' /\ bnum' <= chain' + 1
    BY <1>a, <1>c
  <2> QED BY <1>1, <2>1, Zenon DEF Counters
<1>10. Signalled'
  BY <1>1, Zenon DEF Insert, Kill, Inserted, Signalled, Needed, BlockTypes,
      kvars
<1>11. Complete'
  BY <1>b, KillKeepsComplete, ZenonT(30) DEF Insert
<1>12. SuccessIsComplete'
  BY <1>1, <1>b, Zenon DEF SuccessIsComplete
<1>13. PoolsReleased'
  BY <1>1, ZenonT(30) DEF Insert, Kill, Inserted, PoolsReleased, kvars
<1> QED BY <1>2, <1>3, <1>4, <1>5, <1>6, <1>7, <1>8, <1>9, <1>10, <1>11, <1>12,
    <1>13, Zenon DEF DInv, DTypeOK

LEMMA ProcessEndStep ==
  ASSUME WorkTypes, KillTypes, HeaderTypes, BlockTypes, ProcessTypes, KillStages,
         EndOrder, Phases, Counters, HandedOnce, Signalled, Complete,
         SuccessIsComplete, PoolsReleased, ProcessEnd
  PROVE  DInv'
<1> USE DownloaderAssumption DEF Blocks, Clients, Master, Answered
<1>1. UNCHANGED <<chain, quit, spc, result, ancestor, dead, err, kpc, pclosed,
                  bclosed, preq, hpc, current, hd, hi, fpc, fh, fabort, bst,
                  tries, fblocks, newblockCh, bnum, cnt, pabort>>
  BY Zenon DEF ProcessEnd, kvars, pools, hvars, fvars, bvars, svars
<1>2. WorkTypes' /\ KillTypes' /\ HeaderTypes' /\ BlockTypes' /\ KillStages' /\
      EndOrder' /\ HandedOnce' /\ Complete' /\ SuccessIsComplete' /\
      PoolsReleased'
  BY <1>1, KeepWorkTypes, KeepKillTypes, KeepHeaderTypes, KeepBlockTypes,
      KeepKillStages, KeepEndOrder, KeepHandedOnce, KeepComplete,
      KeepSuccessIsComplete, KeepPoolsReleased, Zenon
<1>3. ProcessTypes'
  BY <1>1, Zenon DEF ProcessEnd, ProcessTypes, Counters
<1>4. Phases'
  BY <1>1, Zenon DEF ProcessEnd, Phases, BlockTypes
<1>5. Counters'
  BY <1>1, Zenon DEF ProcessEnd, Counters, WorkTypes, HeaderTypes, BlockTypes,
      ProcessTypes
<1>6. Signalled'
  BY <1>1, Zenon DEF ProcessEnd, Signalled, Needed, BlockTypes
<1> QED BY <1>2, <1>3, <1>4, <1>5, <1>6, Zenon DEF DInv, DTypeOK

\* Every step of a sync preserves DInv.
LEMMA DownloaderStep == DInv /\ (SyncStep \/ MasterQuits) => DInv'
<1> SUFFICES ASSUME WorkTypes, KillTypes, HeaderTypes, BlockTypes, ProcessTypes, KillStages,
                    EndOrder, Phases, Counters, HandedOnce, Signalled, Complete,
                    SuccessIsComplete, PoolsReleased, SyncStep \/ MasterQuits
             PROVE  DInv'
  BY Zenon DEF DInv, DTypeOK
<1> QED
  BY StopPPoolStep, StopBPoolStep, FinishStep, MasterQuitsStep, PLoseStep,
     PAnswerStep, SynchroniseStep, HeightFailsStep, HeightKnownStep,
     AncestorFailsStep, AncestorFoundStep, ReturnStep, NextHeadersStep,
     GotHeadersStep, CheckHeaderStep, SendHeaderStep, HeadersEndStep,
     SubmitBlockStep, BlocksEndStep, BRunStep, BLoseStep, BGiveUpStep, BAskStep,
     BGotStep, BRefusedStep, BSignalStep, PStartStep, ReceiveStep,
     InsertFailsStep, InsertStep, ProcessEndStep, Zenon DEF SyncStep

\* The syncer touches the downloader only to start a sync, to collect it and to
\* close its quit channel.
LEMMA SyncerKeepsDownloader ==
  ASSUME DInv,
         UNCHANGED <<chain, result, ancestor, preq, others>>,
         quit' \in BOOLEAN,
         \/ spc' = spc
         \/ spc = "idle" /\ spc' = "spawned"
         \/ spc = "returned" /\ spc' = "idle"
  PROVE  DInv'
<1>1. WorkTypes /\ KillTypes /\ HeaderTypes /\ BlockTypes /\ ProcessTypes /\ KillStages
      /\ EndOrder /\ Phases /\ Counters /\ HandedOnce /\ Signalled /\ Complete
      /\ SuccessIsComplete /\ PoolsReleased
  BY Zenon DEF DInv, DTypeOK
<1>2. UNCHANGED <<chain, result, ancestor, dead, err, kpc, pclosed, bclosed,
                  preq, hpc, current, hd, hi, fpc, fh, fabort, bst, tries,
                  fblocks, newblockCh, ppc, bnum, cnt, pabort>>
  BY Zenon DEF others, kvars, pools, hvars, fvars, bvars, pvars
<1>3. KillTypes' /\ HeaderTypes' /\ BlockTypes' /\ ProcessTypes' /\ KillStages'
      /\ EndOrder' /\ Counters' /\ HandedOnce' /\ Signalled' /\ Complete'
  BY <1>1, <1>2, KeepKillTypes, KeepHeaderTypes, KeepBlockTypes,
      KeepProcessTypes, KeepKillStages, KeepEndOrder, KeepCounters,
      KeepHandedOnce, KeepSignalled, KeepComplete, Zenon
<1>4. WorkTypes'
  BY <1>1, <1>2, Zenon DEF WorkTypes
<1>5. Phases'
  BY <1>1, <1>2, Zenon DEF Phases
<1>6. SuccessIsComplete' /\ PoolsReleased'
  BY <1>1, <1>2 DEF SuccessIsComplete, PoolsReleased
<1> QED BY <1>3, <1>4, <1>5, <1>6, Zenon DEF DInv, DTypeOK

\* A sync is started when none runs only, by the doneCh that the loop keeps.
LEMMA NextOpStarts ==
  ASSUME NEW done, NEW force, SyncKnown, NextOp(done, force),
         done = doneCh \/ (done = "nil" /\ doneCh = "full")
  PROVE  /\ SyncKnown'
         /\ spc' = spc \/ (spc = "idle" /\ spc' = "spawned")
         /\ UNCHANGED <<chain, quit, result, ancestor, preq, others>>
<1>1. \/ doneCh' = done /\ spc' = spc
      \/ done = "nil" /\ spc' = "spawned" /\ doneCh' = "empty"
  BY Zenon DEF NextOp
<1>2. UNCHANGED <<chain, quit, result, ancestor, preq, others>>
  BY Zenon DEF NextOp
<1>3. CASE doneCh' = done /\ spc' = spc
  BY <1>2, <1>3, Zenon DEF SyncKnown
<1>4. CASE done = "nil" /\ spc' = "spawned" /\ doneCh' = "empty"
  BY <1>2, <1>4, Zenon DEF SyncKnown
<1> QED BY <1>1, <1>3, <1>4, Zenon

\* The new syncer has no sync and an empty work.
LEMMA SyncStart == Init => SyncInv
<1> SUFFICES ASSUME Init PROVE SyncInv
  OBVIOUS
<1> USE DownloaderAssumption DEF Init, DInit, Blocks, Clients, Master, Answered
<1>1. quit \in BOOLEAN /\ result \in BOOLEAN /\ fabort \in BOOLEAN
      /\ pabort \in BOOLEAN /\ KillTypes
  BY Zenon DEF KillTypes
<1>2. WorkTypes
  BY <1>1, SMTT(30) DEF WorkTypes
<1>3. HeaderTypes /\ ProcessTypes
  BY <1>1, SMTT(30) DEF HeaderTypes, ProcessTypes
<1>4. BlockTypes
  BY SMTT(30) DEF BlockTypes
<1>5. KillStages /\ EndOrder /\ Phases
  BY Zenon DEF KillStages, EndOrder, Phases, Working, Finished
<1>6. Counters /\ HandedOnce /\ Signalled
  BY Zenon DEF Counters, HandedOnce, Signalled
<1>7. Complete /\ SuccessIsComplete /\ PoolsReleased
  BY Zenon DEF Complete, SuccessIsComplete, PoolsReleased
<1>8. SyncerTypes /\ SyncKnown /\ LoopEnds
  BY Zenon DEF SyncerTypes, SyncKnown, LoopEnds
<1> QED
  BY <1>1, <1>2, <1>3, <1>4, <1>5, <1>6, <1>7, <1>8, Zenon DEF SyncInv, DInv, DTypeOK

\* The goroutines of a sync neither start nor collect it.
LEMMA SyncStepInside ==
  ASSUME SyncStep \/ MasterQuits
  PROVE  /\ spc = "idle" <=> spc' = "idle"
         /\ spc' = "spawned" => spc = "spawned"
<1> USE DEF svars
<1>1. CASE StopPPool \/ StopBPool \/ Finish \/ MasterQuits
  BY <1>1, Zenon DEF StopPPool, StopBPool, Finish, MasterQuits
<1>2. CASE \E c \in Clients : PLose(c) \/ PAnswer(c)
  BY <1>2, Zenon DEF PLose, PAnswer
<1>3. CASE Synchronise \/ HeightFails \/ HeightKnown
  BY <1>3, Zenon DEF Synchronise, HeightFails, HeightKnown, Begin
<1>4. CASE AncestorFails \/ AncestorFound \/ Return
  BY <1>4, ZenonT(30) DEF AncestorFails, AncestorFound, Return, Begin
<1>5. CASE NextHeaders \/ GotHeaders \/ CheckHeader \/ SendHeader \/ HeadersEnd
  BY <1>5, Zenon DEF NextHeaders, GotHeaders, CheckHeader, SendHeader, HeadersEnd
<1>6. CASE SubmitBlock \/ BlocksEnd
  BY <1>6, Zenon DEF SubmitBlock, BlocksEnd
<1>7. CASE \E n \in Blocks : \/ BRun(n) \/ BLose(n) \/ BGiveUp(n) \/ BAsk(n) \/ BGot(n)
                             \/ BRefused(n) \/ BSignal(n)
  BY <1>7, ZenonT(30) DEF BRun, BLose, BGiveUp, BAsk, BGot, BRefused, BSignal, rest
<1>8. CASE PStart \/ Receive \/ InsertFails \/ Insert \/ ProcessEnd
  BY <1>8, ZenonT(30) DEF PStart, Receive, InsertFails, Insert, ProcessEnd
<1> QED BY <1>1, <1>2, <1>3, <1>4, <1>5, <1>6, <1>7, <1>8, Zenon DEF SyncStep

\* Every step of a sync, of the loop and of the callers preserves SyncInv, and
\* startsync finds no sync running.
LEMMA SyncerStep ==
  SyncInv /\ [Next]_vars =>
    SyncInv' /\ (spc' = "spawned" => spc \in {"idle", "spawned"})
<1> SUFFICES ASSUME SyncInv, [Next]_vars
             PROVE  SyncInv' /\ (spc' = "spawned" => spc \in {"idle", "spawned"})
  OBVIOUS
<1> DEFINE Quiet == UNCHANGED <<chain, quit, result, ancestor, preq, others>>
<1> DEFINE Goal == SyncInv' /\ (spc' = "spawned" => spc \in {"idle", "spawned"})
<1> USE DEF SyncInv
<1>q. quit \in BOOLEAN
  BY Zenon DEF DInv, DTypeOK, WorkTypes
<1>1. CASE (SyncStep /\ UNCHANGED cvars) \/ PeerDropped
  <2>1. (SyncStep \/ MasterQuits) /\ UNCHANGED cvars
    BY <1>1, Zenon DEF PeerDropped
  <2>2. DInv'
    BY <2>1, DownloaderStep, Zenon
  <2>3. (spc = "idle" <=> spc' = "idle") /\ (spc' = "spawned" => spc = "spawned")
    BY <2>1, SyncStepInside, Zenon
  <2>4. SyncerTypes' /\ SyncKnown' /\ LoopEnds'
    BY <2>1, <2>3, SMTT(30) DEF cvars, lvars, SyncerTypes, SyncKnown, LoopEnds
  <2> QED BY <2>2, <2>3, <2>4, Zenon
<1>2. ASSUME NEW done, NEW force \in BOOLEAN, NextOp(done, force),
             done = doneCh \/ (done = "nil" /\ doneCh = "full")
      PROVE  /\ DInv' /\ SyncKnown' /\ (spc' = "spawned" => spc \in {"idle", "spawned"})
             /\ doneCh' \in {"nil", "empty", "full"} /\ lpc' = "select"
             /\ forced' \in BOOLEAN
  <2>1. SyncKnown' /\ (spc' = spc \/ (spc = "idle" /\ spc' = "spawned")) /\ Quiet
    BY <1>2, NextOpStarts, Zenon
  <2>2. DInv'
    BY <1>q, <2>1, SyncerKeepsDownloader, Zenon
  <2>3. doneCh' \in {"nil", "empty", "full"} /\ lpc' = "select" /\ forced' \in
      BOOLEAN
    BY <1>2, Zenon DEF NextOp, SyncerTypes
  <2> QED BY <2>1, <2>2, <2>3, Zenon
<1>3. CASE Start
  <2>1. lpc = "none" /\ stpc = "none"
    BY <1>3, Zenon DEF Start, LoopEnds
  <2>2. NextOp(doneCh, forced) /\ forced \in BOOLEAN
    BY <1>3, Zenon DEF Start, SyncerTypes
  <2> QED BY <1>2, <1>3, <2>1, <2>2, Zenon DEF Start, SyncerTypes, LoopEnds
<1>4. CASE OnPeerEvent
  <2>1. NextOp(doneCh, forced) /\ forced \in BOOLEAN
    BY <1>4, Zenon DEF OnPeerEvent, SyncerTypes
  <2> QED BY <1>2, <1>4, <2>1, Zenon DEF OnPeerEvent, SyncerTypes, LoopEnds
<1>5. CASE OnTimer
  BY <1>2, <1>5, ZenonT(30) DEF OnTimer, SyncerTypes, LoopEnds
<1>6. CASE OnDone
  <2>1. CASE killed
    <3>1. Quiet /\ spc' = spc
      BY <1>6, <2>1, Zenon DEF OnDone, dvars, svars, others
    <3>2. DInv'
      BY <1>q, <3>1, SyncerKeepsDownloader, Zenon
    <3> QED BY <1>6, <2>1, <3>1, <3>2, Zenon DEF OnDone, SyncerTypes, SyncKnown, LoopEnds
  <2>2. CASE ~killed
    BY <1>2, <1>6, <2>2, ZenonT(30) DEF OnDone, SyncerTypes, LoopEnds
  <2> QED BY <2>1, <2>2, Zenon
<1>7. CASE SyncDone
  <2>1. Quiet /\ spc = "returned" /\ spc' = "idle" /\ doneCh' = "full"
        /\ UNCHANGED <<kmutex, csdead, peerEventCh, lvars, stpc>>
    BY <1>7, Zenon DEF SyncDone
  <2>2. DInv'
    BY <1>q, <2>1, SyncerKeepsDownloader, Zenon
  <2>3. SyncerTypes' /\ SyncKnown' /\ LoopEnds'
    BY <2>1, Zenon DEF lvars, SyncerTypes, SyncKnown, LoopEnds
  <2> QED BY <2>1, <2>2, <2>3, Zenon
<1>8. CASE OnQuit
  <2>1. UNCHANGED <<chain, result, ancestor, preq, others>> /\ spc' = spc
        /\ quit' \in BOOLEAN
    BY <1>8, Zenon DEF OnQuit, svars
  <2>2. DInv'
    BY <2>1, SyncerKeepsDownloader, Zenon
  <2>3. SyncerTypes' /\ SyncKnown' /\ LoopEnds'
    BY <1>8, <2>1, Zenon DEF OnQuit, SyncerTypes, SyncKnown, LoopEnds
  <2> QED BY <2>1, <2>2, <2>3, Zenon
<1>9. ASSUME UNCHANGED dvars PROVE DInv' /\ spc' = spc
  <2>1. Quiet /\ spc' = spc
    BY <1>9, Zenon DEF dvars, svars, others
  <2> QED BY <1>q, <2>1, SyncerKeepsDownloader, Zenon
<1>10. CASE PeerEvent \/ SendEvent
  <2>1. DInv' /\ spc' = spc
    BY <1>9, <1>10, Zenon DEF PeerEvent, SendEvent
  <2>2. ASSUME PeerEvent PROVE SyncerTypes' /\ SyncKnown' /\ LoopEnds'
    <3>1. SyncerTypes'
      BY <2>2, ZenonT(30) DEF PeerEvent, lvars, SyncerTypes
    <3>2. SyncKnown' /\ LoopEnds'
      BY <2>1, <2>2, Zenon DEF PeerEvent, lvars, SyncKnown, LoopEnds
    <3> QED BY <3>1, <3>2, Zenon
  <2>3. ASSUME SendEvent PROVE SyncerTypes' /\ SyncKnown' /\ LoopEnds'
    <3>1. SyncerTypes'
      BY <2>3, Zenon DEF SendEvent, lvars, SyncerTypes
    <3>2. SyncKnown' /\ LoopEnds'
      BY <2>1, <2>3, Zenon DEF SendEvent, lvars, SyncKnown, LoopEnds
    <3> QED BY <3>1, <3>2, Zenon
  <2> QED BY <1>10, <2>1, <2>2, <2>3, Zenon
<1>11. CASE Terminated
  BY <1>9, <1>11, ZenonT(30) DEF Terminated, SyncerTypes, SyncKnown, LoopEnds
<1>12. CASE StopCall \/ StopReturn
  <2>1. DInv' /\ spc' = spc
    BY <1>9, <1>12, Zenon DEF StopCall, StopReturn
  <2>2. ASSUME StopCall PROVE SyncerTypes' /\ SyncKnown' /\ LoopEnds'
    <3>1. SyncerTypes'
      BY <2>2, Zenon DEF StopCall, lvars, SyncerTypes
    <3>2. SyncKnown' /\ LoopEnds'
      BY <2>1, <2>2, Zenon DEF StopCall, lvars, SyncKnown, LoopEnds
    <3> QED BY <3>1, <3>2, Zenon
  <2>3. ASSUME StopReturn PROVE SyncerTypes' /\ SyncKnown' /\ LoopEnds'
    <3>1. SyncerTypes'
      BY <2>3, Zenon DEF StopReturn, lvars, SyncerTypes
    <3>2. SyncKnown' /\ LoopEnds'
      BY <2>1, <2>3, Zenon DEF StopReturn, lvars, SyncKnown, LoopEnds
    <3> QED BY <3>1, <3>2, Zenon
  <2> QED BY <1>12, <2>1, <2>2, <2>3, Zenon
<1>13. CASE UNCHANGED vars
  BY <1>9, <1>13 DEF vars, cvars, lvars, SyncerTypes, SyncKnown, LoopEnds
<1> QED
  BY <1>1, <1>3, <1>4, <1>5, <1>6, <1>7, <1>8, <1>10, <1>11, <1>12, <1>13, ZenonT(30) DEF Next

\* SyncInv holds in every reachable state.
THEOREM SyncInvariance == Spec => []SyncInv
<1>1. Init => SyncInv
  BY SyncStart, Zenon
<1>2. SyncInv /\ [Next]_vars => SyncInv'
  BY SyncerStep, Zenon
<1> QED BY <1>1, <1>2, PTL DEF Spec

\* Types, for every number of blocks and every size of channels and pools.
THEOREM SyncTypes == Spec => []TypeOK
<1>1. SyncInv => TypeOK
  BY Zenon DEF SyncInv, DInv, TypeOK
<1> QED BY <1>1, SyncInvariance, PTL

\* processBlocks (dworker.go:416-445) may ignore every signal but the one for
\* the block it needs.
THEOREM SignalsSuffice == Spec => []NoLostSignal
<1>1. SyncInv => NoLostSignal
  BY Zenon DEF SyncInv, DInv, Signalled, Needed, NoLostSignal
<1> QED BY <1>1, SyncInvariance, PTL

\* onfetched (dworker.go:375) never sends on newblockCh once it is closed.
THEOREM ClosedAfterJobs == Spec => []NoSendAfterClose
<1>1. SyncInv => NoSendAfterClose
  BY Zenon DEF SyncInv, DInv, EndOrder, KillStages, NoSendAfterClose
<1> QED BY <1>1, SyncInvariance, PTL

\* insertBlocks (dworker.go:429) gets blocks whose parent is on the chain.
THEOREM NoGaps == Spec => []ParentKnown
<1>1. SyncInv => ParentKnown
  BY Zenon DEF SyncInv, DInv, Counters, ParentKnown
<1> QED BY <1>1, SyncInvariance, PTL

\* On every path out of synchronise (downloader.go:127, 136, 178) the pools of
\* the work are stopped, and no error means a complete chain.
THEOREM ReturnsAreClean == Spec => []ReturnsClean
<1>1. SyncInv => ReturnsClean
  BY Zenon DEF SyncInv, DInv, SuccessIsComplete, PoolsReleased, ReturnsClean
<1> QED BY <1>1, SyncInvariance, PTL

\* stop (syncer.go:84-92) returns after the last insertion.
THEOREM StopIsFinal == Spec => []StoppedIsIdle
<1>1. SyncInv => StoppedIsIdle
  BY Zenon DEF SyncInv, SyncKnown, LoopEnds, DInv, Phases, StoppedIsIdle
<1> QED BY <1>1, SyncInvariance, PTL

\* startsync (syncer.go:201) never replaces a work that is not over.
THEOREM SingleSync == Spec => OneSync
<1>1. SyncInv /\ [Next]_vars => (spc' = "spawned" => spc \in {"idle", "spawned"})
  BY SyncerStep, Zenon
<1> QED BY <1>1, SyncInvariance, PTL DEF Spec, OneSync

-----------------------------------------------------------------------------
(* Somebody can always go on *)

\* Who waits for an answer has asked
Requested ==
  /\ spc \in {"height", "ancestor"} \/ hpc = "wait" => preq[Master] # "none"
  /\ \A n \in Blocks : bst[n] = "asked" => preq[n] # "none"

\* synchronise waits for goroutines that it has started
Started == spc = "wait" => hpc # "none" /\ fpc # "none" /\ ppc # "none"

\* The work is about the blocks above the ancestor
Beyond ==
  /\ spc \in {"height", "ancestor"} \/ ancestor = Last => newblockCh = <<>>
  /\ hpc \in {"loop", "wait", "end"} => current > ancestor
  /\ hpc \in {"check", "send"} => hd > ancestor
  /\ fpc = "submit" => fh > ancestor
  /\ \A n \in Blocks : bst[n] # "none" => n > ancestor
  /\ ppc = "start" => bnum = ancestor + 1
  /\ ppc \in {"range", "insert"} => bnum > ancestor

\* A goroutine that gives up, a job that is lost and the end of processBlocks
\* belong to a work that is killed; until then the goroutines do all they have to
KilledWhen ==
  /\ fabort \/ pabort \/ ppc = "done" => dead
  /\ \A n \in Blocks : bst[n] = "lost" => dead
  /\ hpc = "end" /\ ~dead => current > Last
  /\ ppc = "done" => ancestor = Last \/ (fpc = "done" /\ newblockCh = <<>>)
  /\ ppc = "range" /\ ~pabort => bnum <= Last

\* Every block whose header was handed on has its job
Handed ==
  ~dead => \A n \in Blocks :
    /\ n > ancestor
    /\ \/ hpc \in {"loop", "wait", "end"} /\ n < current
       \/ hpc \in {"check", "send"} /\ n < hd
    => bst[n] # "none" \/ (fpc = "submit" /\ fh = n)

\* Every block that was fetched is in the list or behind processBlocks
Delivered ==
  ~dead => \A n \in Blocks :
    bst[n] \in {"put", "done"} => n \in fblocks \/ n < Needed

WorkAlive == Requested /\ Started /\ Beyond /\ KilledWhen /\ Handed /\ Delivered

LEMMA KeepRequested ==
  ASSUME Requested, UNCHANGED <<spc, hpc, preq, bst>> PROVE Requested'
  BY Zenon DEF Requested

LEMMA KeepStarted ==
  ASSUME Started, UNCHANGED <<spc, hpc, fpc, ppc>> PROVE Started'
  BY Zenon DEF Started

LEMMA KeepBeyond ==
  ASSUME Beyond, UNCHANGED <<spc, ancestor, hpc, current, hd, fpc, fh, bst,
         newblockCh, ppc, bnum>> PROVE Beyond'
  BY Zenon DEF Beyond

LEMMA KeepKilledWhen ==
  ASSUME KilledWhen, dead => dead', UNCHANGED <<fabort, pabort, ppc, bst, hpc,
         current, ancestor, fpc, newblockCh, bnum>> PROVE KilledWhen'
  BY Zenon DEF KilledWhen

LEMMA KeepHanded ==
  ASSUME Handed, dead => dead', UNCHANGED <<ancestor, hpc, current, hd, bst,
         fpc, fh>> PROVE Handed'
  BY Zenon DEF Handed

LEMMA KeepDelivered ==
  ASSUME Delivered, dead => dead', UNCHANGED <<bst, fblocks, ppc, bnum, cnt>>
         PROVE Delivered'
  BY Zenon DEF Delivered, Needed

LEMMA Asked ==
  ASSUME WorkTypes, NEW c \in Clients, Ask(c)
  PROVE  \A d \in Clients : d = c \/ preq[d] # "none" => preq'[d] # "none"
  BY Zenon DEF WorkTypes, Ask

LEMMA StopPPoolAlive ==
  ASSUME WorkTypes, KillTypes, HeaderTypes, BlockTypes, ProcessTypes,
         KillStages, EndOrder, Phases, Counters, HandedOnce, Requested,
         Started, Beyond, KilledWhen, Handed, Delivered, StopPPool
  PROVE  WorkAlive'
<1> USE DownloaderAssumption DEF Blocks, Clients, Master
<1>1. UNCHANGED <<chain, quit, spc, result, ancestor, dead, err, bclosed,
                  preq, hpc, current, hd, hi, fpc, fh, fabort, bst, tries,
                  fblocks, newblockCh, ppc, bnum, cnt, pabort>>
  BY Zenon DEF StopPPool, kvars, pools, hvars, fvars, bvars, pvars, svars
<1>2. Requested' /\ Started' /\ Beyond' /\ KilledWhen' /\ Handed' /\
      Delivered'
  BY <1>1, KeepRequested, KeepStarted, KeepBeyond, KeepKilledWhen, KeepHanded,
      KeepDelivered, Zenon
<1> QED BY <1>2, Zenon DEF WorkAlive

LEMMA StopBPoolAlive ==
  ASSUME WorkTypes, KillTypes, HeaderTypes, BlockTypes, ProcessTypes,
         KillStages, EndOrder, Phases, Counters, HandedOnce, Requested,
         Started, Beyond, KilledWhen, Handed, Delivered, StopBPool
  PROVE  WorkAlive'
<1> USE DownloaderAssumption DEF Blocks, Clients, Master
<1>1. UNCHANGED <<chain, quit, spc, result, ancestor, dead, err, pclosed,
                  preq, hpc, current, hd, hi, fpc, fh, fabort, bst, tries,
                  fblocks, newblockCh, ppc, bnum, cnt, pabort>>
  BY Zenon DEF StopBPool, kvars, pools, hvars, fvars, bvars, pvars, svars
<1>2. Requested' /\ Started' /\ Beyond' /\ KilledWhen' /\ Handed' /\
      Delivered'
  BY <1>1, KeepRequested, KeepStarted, KeepBeyond, KeepKilledWhen, KeepHanded,
      KeepDelivered, Zenon
<1> QED BY <1>2, Zenon DEF WorkAlive

LEMMA FinishAlive ==
  ASSUME WorkTypes, KillTypes, HeaderTypes, BlockTypes, ProcessTypes,
         KillStages, EndOrder, Phases, Counters, HandedOnce, Requested,
         Started, Beyond, KilledWhen, Handed, Delivered, Finish
  PROVE  WorkAlive'
<1> USE DownloaderAssumption DEF Blocks, Clients, Master
<1>1. UNCHANGED <<chain, quit, spc, result, ancestor, dead, err, pclosed,
                  bclosed, preq, hpc, current, hd, hi, fpc, fh, fabort, bst,
                  tries, fblocks, newblockCh, ppc, bnum, cnt, pabort>>
  BY Zenon DEF Finish, kvars, pools, hvars, fvars, bvars, pvars, svars
<1>2. Requested' /\ Started' /\ Beyond' /\ KilledWhen' /\ Handed' /\
      Delivered'
  BY <1>1, KeepRequested, KeepStarted, KeepBeyond, KeepKilledWhen, KeepHanded,
      KeepDelivered, Zenon
<1> QED BY <1>2, Zenon DEF WorkAlive

LEMMA MasterQuitsAlive ==
  ASSUME WorkTypes, KillTypes, HeaderTypes, BlockTypes, ProcessTypes,
         KillStages, EndOrder, Phases, Counters, HandedOnce, Requested,
         Started, Beyond, KilledWhen, Handed, Delivered, MasterQuits
  PROVE  WorkAlive'
<1> USE DownloaderAssumption DEF Blocks, Clients, Master
<1>1. UNCHANGED <<chain, quit, spc, result, ancestor, pclosed, bclosed, preq,
                  hpc, current, hd, hi, fpc, fh, fabort, bst, tries, fblocks,
                  newblockCh, ppc, bnum, cnt, pabort>>
  BY Zenon DEF MasterQuits, kvars, pools, hvars, fvars, bvars, pvars, svars
<1>d. dead => dead'
  BY Zenon DEF MasterQuits, Kill, kvars
<1>2. Requested' /\ Started' /\ Beyond' /\ KilledWhen' /\ Handed' /\
      Delivered'
  BY <1>1, <1>d, KeepRequested, KeepStarted, KeepBeyond, KeepKilledWhen,
      KeepHanded, KeepDelivered, Zenon
<1> QED BY <1>2, Zenon DEF WorkAlive

LEMMA PLoseAlive ==
  ASSUME WorkTypes, KillTypes, HeaderTypes, BlockTypes, ProcessTypes,
         KillStages, EndOrder, Phases, Counters, HandedOnce, Requested,
         Started, Beyond, KilledWhen, Handed, Delivered, NEW c \in Clients,
         PLose(c)
  PROVE  WorkAlive'
<1> USE DownloaderAssumption DEF Blocks, Clients, Master
<1>1. UNCHANGED <<chain, quit, spc, result, ancestor, dead, err, kpc, pclosed,
                  bclosed, hpc, current, hd, hi, fpc, fh, fabort, bst, tries,
                  fblocks, newblockCh, ppc, bnum, cnt, pabort>>
  BY Zenon DEF PLose, kvars, pools, hvars, fvars, bvars, pvars, svars
<1>2. Started' /\ Beyond' /\ KilledWhen' /\ Handed' /\ Delivered'
  BY <1>1, KeepStarted, KeepBeyond, KeepKilledWhen, KeepHanded, KeepDelivered,
      Zenon
<1>3. Requested'
  BY <1>1, Zenon DEF PLose, Requested, WorkTypes
<1> QED BY <1>2, <1>3, Zenon DEF WorkAlive

LEMMA PAnswerAlive ==
  ASSUME WorkTypes, KillTypes, HeaderTypes, BlockTypes, ProcessTypes,
         KillStages, EndOrder, Phases, Counters, HandedOnce, Requested,
         Started, Beyond, KilledWhen, Handed, Delivered, NEW c \in Clients,
         PAnswer(c)
  PROVE  WorkAlive'
<1> USE DownloaderAssumption DEF Blocks, Clients, Master
<1>1. UNCHANGED <<chain, quit, spc, result, ancestor, dead, err, kpc, pclosed,
                  bclosed, hpc, current, hd, hi, fpc, fh, fabort, bst, tries,
                  fblocks, newblockCh, ppc, bnum, cnt, pabort>>
  BY Zenon DEF PAnswer, kvars, pools, hvars, fvars, bvars, pvars, svars
<1>2. Started' /\ Beyond' /\ KilledWhen' /\ Handed' /\ Delivered'
  BY <1>1, KeepStarted, KeepBeyond, KeepKilledWhen, KeepHanded, KeepDelivered,
      Zenon
<1>3. Requested'
  BY <1>1, Zenon DEF PAnswer, Requested, WorkTypes
<1> QED BY <1>2, <1>3, Zenon DEF WorkAlive

LEMMA HeightFailsAlive ==
  ASSUME WorkTypes, KillTypes, HeaderTypes, BlockTypes, ProcessTypes,
         KillStages, EndOrder, Phases, Counters, HandedOnce, Requested,
         Started, Beyond, KilledWhen, Handed, Delivered, HeightFails
  PROVE  WorkAlive'
<1> USE DownloaderAssumption DEF Blocks, Clients, Master
<1>1. UNCHANGED <<chain, quit, ancestor, pclosed, bclosed, preq, hpc, current,
                  hd, hi, fpc, fh, fabort, bst, tries, fblocks, newblockCh,
                  ppc, bnum, cnt, pabort>>
  BY Zenon DEF HeightFails, kvars, pools, hvars, fvars, bvars, pvars, svars
<1>d. dead => dead'
  BY Zenon DEF HeightFails, Kill, kvars
<1>2. KilledWhen' /\ Handed' /\ Delivered'
  BY <1>1, <1>d, KeepKilledWhen, KeepHanded, KeepDelivered, Zenon
<1>3. Requested'
  BY <1>1, Zenon DEF HeightFails, Requested
<1>4. Started'
  BY <1>1, Zenon DEF HeightFails, Started
<1>5. Beyond'
  BY <1>1, Zenon DEF HeightFails, Beyond
<1> QED BY <1>2, <1>3, <1>4, <1>5, Zenon DEF WorkAlive

\* The goroutines begin above the ancestor, with nothing handed on.
LEMMA BeginAlive ==
  ASSUME NEW a \in 0..Last, Begin(a), UNCHANGED <<bst, newblockCh>>,
         newblockCh = <<>>, \A n \in Blocks : bst[n] = "none"
  PROVE  Beyond' /\ Handed'
<1>1. /\ ancestor' = a /\ hpc' = "loop" /\ current' = a + 1 /\ fpc' = "range"
      /\ ppc' = "start" /\ bnum' = a + 1
  BY Zenon DEF Begin
<1>2. a + 1 > a /\ \A n \in Blocks : ~(n > a /\ n < a + 1)
  BY DownloaderAssumption DEF Blocks
<1>3. Beyond'
  BY <1>1, <1>2, Zenon DEF Beyond
<1>4. Handed'
  BY <1>1, <1>2, Zenon DEF Handed
<1> QED BY <1>3, <1>4, Zenon

LEMMA HeightKnownAlive ==
  ASSUME WorkTypes, KillTypes, HeaderTypes, BlockTypes, ProcessTypes,
         KillStages, EndOrder, Phases, Counters, HandedOnce, Requested,
         Started, Beyond, KilledWhen, Handed, Delivered, HeightKnown
  PROVE  WorkAlive'
<1> USE DownloaderAssumption DEF Blocks, Clients, Master
<1>1. UNCHANGED <<chain, quit, result, dead, err, kpc, pclosed, bclosed, hd,
                  hi, fh, fabort, bst, tries, fblocks, newblockCh, cnt,
                  pabort>>
  BY Zenon DEF HeightKnown, Begin, kvars, pools, hvars, fvars, bvars, pvars,
      svars
<1>2. Requested'
  BY <1>1, Asked, Zenon DEF HeightKnown, Begin, Requested, Phases, hvars, fvars,
      pvars
<1>3. Started'
  BY <1>1, Zenon DEF HeightKnown, Begin, Started, Phases, hvars, fvars, pvars
<1>4. Beyond' /\ Handed'
  <2>1. newblockCh = <<>> /\ hpc = "none" /\ fpc = "none" /\ ppc = "none"
        /\ \A n \in Blocks : bst[n] = "none"
    BY Zenon DEF HeightKnown, Beyond, Phases
  <2>2. CASE chain = 0
    <3>1. Begin(0) /\ 0 \in 0..Last
      BY <2>2 DEF HeightKnown
    <3> QED BY <1>1, <2>1, <3>1, BeginAlive, Zenon
  <2>3. CASE chain # 0
    BY <1>1, <2>1, <2>3, Zenon DEF HeightKnown, hvars, fvars, pvars, Beyond, Handed
  <2> QED BY <2>2, <2>3, Zenon
<1>5. KilledWhen'
  BY <1>1, Zenon DEF HeightKnown, Begin, KilledWhen, Phases, Beyond, hvars,
      fvars, pvars
<1>6. Delivered'
  BY <1>1, Zenon DEF HeightKnown, Begin, Delivered, Needed, Phases, hvars,
      fvars, pvars
<1> QED BY <1>2, <1>3, <1>4, <1>5, <1>6, Zenon DEF WorkAlive

LEMMA AncestorFailsAlive ==
  ASSUME WorkTypes, KillTypes, HeaderTypes, BlockTypes, ProcessTypes,
         KillStages, EndOrder, Phases, Counters, HandedOnce, Requested,
         Started, Beyond, KilledWhen, Handed, Delivered, AncestorFails
  PROVE  WorkAlive'
<1> USE DownloaderAssumption DEF Blocks, Clients, Master
<1>1. UNCHANGED <<chain, quit, ancestor, pclosed, bclosed, preq, hpc, current,
                  hd, hi, fpc, fh, fabort, bst, tries, fblocks, newblockCh,
                  ppc, bnum, cnt, pabort>>
  BY Zenon DEF AncestorFails, kvars, pools, hvars, fvars, bvars, pvars, svars
<1>d. dead => dead'
  BY Zenon DEF AncestorFails, Kill, kvars
<1>2. KilledWhen' /\ Handed' /\ Delivered'
  BY <1>1, <1>d, KeepKilledWhen, KeepHanded, KeepDelivered, Zenon
<1>3. Requested'
  BY <1>1, Zenon DEF AncestorFails, Requested
<1>4. Started'
  BY <1>1, Zenon DEF AncestorFails, Started
<1>5. Beyond'
  BY <1>1, Zenon DEF AncestorFails, Beyond
<1> QED BY <1>2, <1>3, <1>4, <1>5, Zenon DEF WorkAlive

LEMMA AncestorFoundAlive ==
  ASSUME WorkTypes, KillTypes, HeaderTypes, BlockTypes, ProcessTypes,
         KillStages, EndOrder, Phases, Counters, HandedOnce, Requested,
         Started, Beyond, KilledWhen, Handed, Delivered, AncestorFound
  PROVE  WorkAlive'
<1> USE DownloaderAssumption DEF Blocks, Clients, Master
<1>1. UNCHANGED <<chain, quit, result, dead, err, kpc, pclosed, bclosed, preq,
                  hd, hi, fh, fabort, bst, tries, fblocks, newblockCh, cnt,
                  pabort>>
  BY Zenon DEF AncestorFound, Begin, kvars, pools, hvars, fvars, bvars, pvars,
      svars
<1>2. Requested'
  BY <1>1, Zenon DEF AncestorFound, Begin, Requested, Phases
<1>3. Started'
  BY <1>1, Zenon DEF AncestorFound, Begin, Started, Phases
<1>4. Beyond' /\ Handed'
  <2>1. newblockCh = <<>> /\ \A n \in Blocks : bst[n] = "none"
    BY Zenon DEF AncestorFound, Beyond, Phases
  <2>2. PICK a \in 0..chain : Begin(a)
    BY Zenon DEF AncestorFound
  <2>3. a \in 0..Last
    BY DEF WorkTypes
  <2> QED BY <1>1, <2>1, <2>2, <2>3, BeginAlive, Zenon
<1>5. KilledWhen'
  BY <1>1, Zenon DEF AncestorFound, Begin, KilledWhen, Phases, Beyond
<1>6. Delivered'
  BY <1>1, Zenon DEF AncestorFound, Begin, Delivered, Needed, Phases
<1> QED BY <1>2, <1>3, <1>4, <1>5, <1>6, Zenon DEF WorkAlive

LEMMA ReturnAlive ==
  ASSUME WorkTypes, KillTypes, HeaderTypes, BlockTypes, ProcessTypes,
         KillStages, EndOrder, Phases, Counters, HandedOnce, Requested,
         Started, Beyond, KilledWhen, Handed, Delivered, Return
  PROVE  WorkAlive'
<1> USE DownloaderAssumption DEF Blocks, Clients, Master
<1>1. UNCHANGED <<chain, quit, ancestor, dead, err, kpc, pclosed, bclosed,
                  preq, hpc, current, hd, hi, fpc, fh, fabort, bst, tries,
                  fblocks, newblockCh, ppc, bnum, cnt, pabort>>
  BY Zenon DEF Return, others, kvars, pools, hvars, fvars, bvars, pvars, svars
<1>2. KilledWhen' /\ Handed' /\ Delivered'
  BY <1>1, KeepKilledWhen, KeepHanded, KeepDelivered, Zenon
<1>3. Requested'
  BY <1>1, Zenon DEF Return, Requested
<1>4. Started'
  BY <1>1, Zenon DEF Return, Started
<1>5. Beyond'
  BY <1>1, Zenon DEF Return, Beyond
<1> QED BY <1>2, <1>3, <1>4, <1>5, Zenon DEF WorkAlive

LEMMA NextHeadersAlive ==
  ASSUME WorkTypes, KillTypes, HeaderTypes, BlockTypes, ProcessTypes,
         KillStages, EndOrder, Phases, Counters, HandedOnce, Requested,
         Started, Beyond, KilledWhen, Handed, Delivered, NextHeaders
  PROVE  WorkAlive'
<1> USE DownloaderAssumption DEF Blocks, Clients, Master
<1>1. UNCHANGED <<chain, quit, spc, result, ancestor, pclosed, bclosed,
                  current, hd, hi, fpc, fh, fabort, bst, tries, fblocks,
                  newblockCh, ppc, bnum, cnt, pabort>>
  BY Zenon DEF NextHeaders, kvars, pools, hvars, fvars, bvars, pvars, svars
<1>d. dead => dead'
  BY Zenon DEF NextHeaders, Kill, kvars
<1>2. Delivered'
  BY <1>1, <1>d, KeepDelivered, Zenon
<1>3. Requested'
  BY <1>1, Asked, Zenon DEF NextHeaders, Requested
<1>4. Started'
  BY <1>1, Zenon DEF NextHeaders, Started
<1>5. Beyond'
  BY <1>1, Zenon DEF NextHeaders, Beyond
<1>6. KilledWhen'
  BY <1>1, <1>d, Zenon DEF NextHeaders, KilledWhen, Kill, kvars
<1>7. Handed'
  BY <1>1, <1>d, Zenon DEF NextHeaders, Handed
<1> QED BY <1>2, <1>3, <1>4, <1>5, <1>6, <1>7, Zenon DEF WorkAlive

LEMMA GotHeadersAlive ==
  ASSUME WorkTypes, KillTypes, HeaderTypes, BlockTypes, ProcessTypes,
         KillStages, EndOrder, Phases, Counters, HandedOnce, Requested,
         Started, Beyond, KilledWhen, Handed, Delivered, GotHeaders
  PROVE  WorkAlive'
<1> USE DownloaderAssumption DEF Blocks, Clients, Master
<1>1. UNCHANGED <<chain, quit, spc, result, ancestor, pclosed, bclosed, preq,
                  current, fpc, fh, fabort, bst, tries, fblocks, newblockCh,
                  ppc, bnum, cnt, pabort>>
  BY Zenon DEF GotHeaders, kvars, pools, hvars, fvars, bvars, pvars, svars
<1>d. dead => dead'
  BY Zenon DEF GotHeaders, Kill, kvars
<1>2. Delivered'
  BY <1>1, <1>d, KeepDelivered, Zenon
<1>3. Requested'
  BY <1>1, Zenon DEF GotHeaders, Requested
<1>4. Started'
  BY <1>1, Zenon DEF GotHeaders, Started
<1>5. Beyond'
  BY <1>1, Zenon DEF GotHeaders, Beyond
<1>6. KilledWhen'
  BY <1>1, <1>d, Zenon DEF GotHeaders, KilledWhen, Kill, kvars
<1>7. Handed'
  BY <1>1, <1>d, Zenon DEF GotHeaders, Handed
<1> QED BY <1>2, <1>3, <1>4, <1>5, <1>6, <1>7, Zenon DEF WorkAlive

LEMMA CheckHeaderAlive ==
  ASSUME WorkTypes, KillTypes, HeaderTypes, BlockTypes, ProcessTypes,
         KillStages, EndOrder, Phases, Counters, HandedOnce, Requested,
         Started, Beyond, KilledWhen, Handed, Delivered, CheckHeader
  PROVE  WorkAlive'
<1> USE DownloaderAssumption DEF Blocks, Clients, Master
<1>1. UNCHANGED <<chain, quit, spc, result, ancestor, dead, err, kpc, pclosed,
                  bclosed, preq, hd, hi, fpc, fh, fabort, bst, tries, fblocks,
                  newblockCh, ppc, bnum, cnt, pabort>>
  BY Zenon DEF CheckHeader, kvars, pools, hvars, fvars, bvars, pvars, svars
<1>2. Delivered'
  BY <1>1, KeepDelivered, Zenon
<1>3. Requested'
  BY <1>1, Zenon DEF CheckHeader, Requested
<1>4. Started'
  BY <1>1, Zenon DEF CheckHeader, Started
<1>5. Beyond'
  <2>1. hd > ancestor /\ hd <= hi
    BY Zenon DEF CheckHeader, Beyond, Counters
  <2>2. hi + 1 > ancestor
    BY <2>1 DEF WorkTypes, HeaderTypes
  <2>3. (hpc' = "end" /\ current' = hi + 1) \/ hpc' = "send"
    BY Zenon DEF CheckHeader
  <2> QED BY <1>1, <2>1, <2>2, <2>3, Zenon DEF Beyond
<1>6. KilledWhen'
  BY <1>1, Zenon DEF CheckHeader, KilledWhen, KillStages, Finished
<1>7. Handed'
  BY <1>1, Zenon DEF CheckHeader, Handed, KillStages, Finished
<1> QED BY <1>2, <1>3, <1>4, <1>5, <1>6, <1>7, Zenon DEF WorkAlive

LEMMA SendHeaderAlive ==
  ASSUME WorkTypes, KillTypes, HeaderTypes, BlockTypes, ProcessTypes,
         KillStages, EndOrder, Phases, Counters, HandedOnce, Requested,
         Started, Beyond, KilledWhen, Handed, Delivered, SendHeader
  PROVE  WorkAlive'
<1> USE DownloaderAssumption DEF Blocks, Clients, Master
<1>1. UNCHANGED <<chain, quit, spc, result, ancestor, dead, err, kpc, pclosed,
                  bclosed, preq, hi, fabort, bst, tries, fblocks, newblockCh,
                  ppc, bnum, cnt, pabort>>
  BY Zenon DEF SendHeader, kvars, pools, hvars, fvars, bvars, pvars, svars
<1>2. Delivered'
  BY <1>1, KeepDelivered, Zenon
<1>3. Requested'
  BY <1>1, Zenon DEF SendHeader, Requested
<1>4. Started'
  BY <1>1, Zenon DEF SendHeader, Started
<1>a. /\ fpc = "range" /\ fpc' = "submit" /\ fh' = hd /\ hd' = hd + 1
      /\ (hpc' = "loop" /\ hd = hi /\ current' = hi + 1) \/ hpc' = "check"
  BY Zenon DEF SendHeader
<1>b. hd > ancestor /\ hd <= hi
  BY Zenon DEF SendHeader, Beyond, Counters
<1>5. Beyond'
  <2>1. hd + 1 > ancestor /\ hi + 1 > ancestor
    BY <1>b DEF WorkTypes, HeaderTypes
  <2> QED BY <1>1, <1>a, <1>b, <2>1, Zenon DEF Beyond
<1>6. KilledWhen'
  BY <1>1, <1>a, Zenon DEF KilledWhen
<1>7. Handed'
  <2>1. \A n \in Blocks : n < hd + 1 => n < hd \/ n = hd
    BY DEF HeaderTypes
  <2>2. hpc = "send"
    BY Zenon DEF SendHeader
  <2> QED BY <1>1, <1>a, <2>1, <2>2, Zenon DEF Handed
<1> QED BY <1>2, <1>3, <1>4, <1>5, <1>6, <1>7, Zenon DEF WorkAlive

LEMMA HeadersEndAlive ==
  ASSUME WorkTypes, KillTypes, HeaderTypes, BlockTypes, ProcessTypes,
         KillStages, EndOrder, Phases, Counters, HandedOnce, Requested,
         Started, Beyond, KilledWhen, Handed, Delivered, HeadersEnd
  PROVE  WorkAlive'
<1> USE DownloaderAssumption DEF Blocks, Clients, Master
<1>1. UNCHANGED <<chain, quit, spc, result, ancestor, dead, err, kpc, pclosed,
                  bclosed, preq, current, hd, hi, fpc, fh, fabort, bst, tries,
                  fblocks, newblockCh, ppc, bnum, cnt, pabort>>
  BY Zenon DEF HeadersEnd, kvars, pools, hvars, fvars, bvars, pvars, svars
<1>2. Delivered'
  BY <1>1, KeepDelivered, Zenon
<1>3. Requested'
  BY <1>1, Zenon DEF HeadersEnd, Requested
<1>4. Started'
  BY <1>1, Zenon DEF HeadersEnd, Started
<1>5. Beyond'
  BY <1>1, Zenon DEF HeadersEnd, Beyond
<1>6. KilledWhen'
  BY <1>1, Zenon DEF HeadersEnd, KilledWhen
<1>7. Handed'
  BY <1>1, Zenon DEF HeadersEnd, Handed
<1> QED BY <1>2, <1>3, <1>4, <1>5, <1>6, <1>7, Zenon DEF WorkAlive

LEMMA SubmitBlockAlive ==
  ASSUME WorkTypes, KillTypes, HeaderTypes, BlockTypes, ProcessTypes,
         KillStages, EndOrder, Phases, Counters, HandedOnce, Requested,
         Started, Beyond, KilledWhen, Handed, Delivered, SubmitBlock
  PROVE  WorkAlive'
<1> USE DownloaderAssumption DEF Blocks, Clients, Master
<1>1. UNCHANGED <<chain, quit, spc, result, ancestor, dead, err, kpc, pclosed,
                  bclosed, preq, hpc, current, hd, hi, fh, tries, fblocks,
                  newblockCh, ppc, bnum, cnt, pabort>>
  BY Zenon DEF SubmitBlock, kvars, pools, hvars, fvars, bvars, pvars, svars
<1>2. Requested'
  BY <1>1, Zenon DEF SubmitBlock, Requested, BlockTypes, Counters
<1>3. Started'
  BY <1>1, Zenon DEF SubmitBlock, Started
<1>4. Beyond'
  BY <1>1, Zenon DEF SubmitBlock, Beyond, BlockTypes
<1>5. KilledWhen'
  BY <1>1, Zenon DEF SubmitBlock, KilledWhen, BlockTypes, KillStages
<1>6. Handed'
  BY <1>1, Zenon DEF SubmitBlock, Handed, BlockTypes, KillStages, KilledWhen,
      Counters
<1>7. Delivered'
  BY <1>1, Zenon DEF SubmitBlock, Delivered, Needed, BlockTypes
<1> QED BY <1>2, <1>3, <1>4, <1>5, <1>6, <1>7, Zenon DEF WorkAlive

LEMMA BlocksEndAlive ==
  ASSUME WorkTypes, KillTypes, HeaderTypes, BlockTypes, ProcessTypes,
         KillStages, EndOrder, Phases, Counters, HandedOnce, Requested,
         Started, Beyond, KilledWhen, Handed, Delivered, BlocksEnd
  PROVE  WorkAlive'
<1> USE DownloaderAssumption DEF Blocks, Clients, Master
<1>1. UNCHANGED <<chain, quit, spc, result, ancestor, dead, err, kpc, pclosed,
                  bclosed, preq, hpc, current, hd, hi, fh, fabort, bst, tries,
                  fblocks, newblockCh, ppc, bnum, cnt, pabort>>
  BY Zenon DEF BlocksEnd, kvars, pools, hvars, fvars, bvars, pvars, svars
<1>2. Requested' /\ Delivered'
  BY <1>1, KeepRequested, KeepDelivered, Zenon
<1>3. Started'
  BY <1>1, Zenon DEF BlocksEnd, Started
<1>4. Beyond'
  BY <1>1, Zenon DEF BlocksEnd, Beyond
<1>5. KilledWhen'
  <2>1. fpc = "range" /\ fpc' = "done"
    BY Zenon DEF BlocksEnd
  <2> QED BY <1>1, <2>1, Zenon DEF KilledWhen
<1>6. Handed'
  BY <1>1, Zenon DEF BlocksEnd, Handed
<1> QED BY <1>2, <1>3, <1>4, <1>5, <1>6, Zenon DEF WorkAlive

LEMMA BRunAlive ==
  ASSUME WorkTypes, KillTypes, HeaderTypes, BlockTypes, ProcessTypes,
         KillStages, EndOrder, Phases, Counters, HandedOnce, Requested,
         Started, Beyond, KilledWhen, Handed, Delivered, NEW n \in Blocks,
         BRun(n)
  PROVE  WorkAlive'
<1> USE DownloaderAssumption DEF Blocks, Clients, Master
<1>1. UNCHANGED <<chain, quit, spc, result, ancestor, dead, err, kpc, pclosed,
                  bclosed, preq, hpc, current, hd, hi, fpc, fh, fabort,
                  fblocks, newblockCh, ppc, bnum, cnt, pabort>>
  BY Zenon DEF BRun, rest, kvars, pools, hvars, fvars, bvars, pvars, svars
<1>2. Started'
  BY <1>1, KeepStarted, Zenon
<1>3. Requested'
  BY <1>1, Zenon DEF BRun, Requested, BlockTypes
<1>4. Beyond'
  BY <1>1, Zenon DEF BRun, Beyond, BlockTypes
<1>5. KilledWhen'
  BY <1>1, Zenon DEF BRun, KilledWhen, BlockTypes
<1>6. Handed'
  BY <1>1, Zenon DEF BRun, Handed, BlockTypes
<1>7. Delivered'
  BY <1>1, Zenon DEF BRun, Delivered, Needed, BlockTypes
<1> QED BY <1>2, <1>3, <1>4, <1>5, <1>6, <1>7, Zenon DEF WorkAlive

LEMMA BLoseAlive ==
  ASSUME WorkTypes, KillTypes, HeaderTypes, BlockTypes, ProcessTypes,
         KillStages, EndOrder, Phases, Counters, HandedOnce, Requested,
         Started, Beyond, KilledWhen, Handed, Delivered, NEW n \in Blocks,
         BLose(n)
  PROVE  WorkAlive'
<1> USE DownloaderAssumption DEF Blocks, Clients, Master
<1>1. UNCHANGED <<chain, quit, spc, result, ancestor, dead, err, kpc, pclosed,
                  bclosed, preq, hpc, current, hd, hi, fpc, fh, fabort, tries,
                  fblocks, newblockCh, ppc, bnum, cnt, pabort>>
  BY Zenon DEF BLose, rest, kvars, pools, hvars, fvars, bvars, pvars, svars
<1>2. Started'
  BY <1>1, KeepStarted, Zenon
<1>3. Requested'
  BY <1>1, Zenon DEF BLose, Requested, BlockTypes
<1>4. Beyond'
  BY <1>1, Zenon DEF BLose, Beyond, BlockTypes
<1>5. KilledWhen'
  BY <1>1, Zenon DEF BLose, KilledWhen, BlockTypes, KillStages
<1>6. Handed'
  BY <1>1, Zenon DEF BLose, Handed, BlockTypes
<1>7. Delivered'
  BY <1>1, Zenon DEF BLose, Delivered, Needed, BlockTypes
<1> QED BY <1>2, <1>3, <1>4, <1>5, <1>6, <1>7, Zenon DEF WorkAlive

LEMMA BGiveUpAlive ==
  ASSUME WorkTypes, KillTypes, HeaderTypes, BlockTypes, ProcessTypes,
         KillStages, EndOrder, Phases, Counters, HandedOnce, Requested,
         Started, Beyond, KilledWhen, Handed, Delivered, NEW n \in Blocks,
         BGiveUp(n)
  PROVE  WorkAlive'
<1> USE DownloaderAssumption DEF Blocks, Clients, Master
<1>1. UNCHANGED <<chain, quit, spc, result, ancestor, pclosed, bclosed,
                  hpc, current, hd, hi, fpc, fh, fabort, fblocks,
                  newblockCh, ppc, bnum, cnt, pabort>>
  BY Zenon DEF BGiveUp, rest, kvars, pools, hvars, fvars, bvars, pvars, svars
<1>d. dead => dead'
  BY Zenon DEF BGiveUp, Kill, kvars
<1>0. n # 0
  BY DEF Blocks
<1>s. \A c \in Clients : c # n => preq'[c] = preq[c]
  BY Settled, Zenon DEF BGiveUp
<1>2. Started'
  BY <1>1, <1>d, KeepStarted, Zenon
<1>3. Requested'
  <2>1. bst'[n] # "asked" /\ n # 0 /\ \A m \in Blocks : m # n => bst'[m] = bst[m]
    BY <1>0, Zenon DEF BGiveUp, BlockTypes
  <2> QED BY <1>1, <1>s, <2>1, Zenon DEF Requested
<1>4. Beyond'
  BY <1>1, Zenon DEF BGiveUp, Beyond, BlockTypes
<1>5. KilledWhen'
  BY <1>1, <1>d, Zenon DEF BGiveUp, KilledWhen, BlockTypes
<1>6. Handed'
  BY <1>1, <1>d, Zenon DEF BGiveUp, Handed, BlockTypes
<1>7. Delivered'
  BY <1>1, <1>d, Zenon DEF BGiveUp, Delivered, Needed, BlockTypes, Kill
<1> QED BY <1>2, <1>3, <1>4, <1>5, <1>6, <1>7, Zenon DEF WorkAlive

LEMMA BAskAlive ==
  ASSUME WorkTypes, KillTypes, HeaderTypes, BlockTypes, ProcessTypes,
         KillStages, EndOrder, Phases, Counters, HandedOnce, Requested,
         Started, Beyond, KilledWhen, Handed, Delivered, NEW n \in Blocks,
         BAsk(n)
  PROVE  WorkAlive'
<1> USE DownloaderAssumption DEF Blocks, Clients, Master
<1>1. UNCHANGED <<chain, quit, spc, result, ancestor, dead, err, kpc, pclosed,
                  bclosed, hpc, current, hd, hi, fpc, fh, fabort, tries,
                  fblocks, newblockCh, ppc, bnum, cnt, pabort>>
  BY Zenon DEF BAsk, rest, kvars, pools, hvars, fvars, bvars, pvars, svars
<1>2. Started'
  BY <1>1, KeepStarted, Zenon
<1>3. Requested'
  BY <1>1, Asked, Zenon DEF BAsk, Requested, BlockTypes
<1>4. Beyond'
  BY <1>1, Zenon DEF BAsk, Beyond, BlockTypes
<1>5. KilledWhen'
  BY <1>1, Zenon DEF BAsk, KilledWhen, BlockTypes
<1>6. Handed'
  BY <1>1, Zenon DEF BAsk, Handed, BlockTypes
<1>7. Delivered'
  BY <1>1, Zenon DEF BAsk, Delivered, Needed, BlockTypes
<1> QED BY <1>2, <1>3, <1>4, <1>5, <1>6, <1>7, Zenon DEF WorkAlive

LEMMA BGotAlive ==
  ASSUME WorkTypes, KillTypes, HeaderTypes, BlockTypes, ProcessTypes,
         KillStages, EndOrder, Phases, Counters, HandedOnce, Requested,
         Started, Beyond, KilledWhen, Handed, Delivered, NEW n \in Blocks,
         BGot(n)
  PROVE  WorkAlive'
<1> USE DownloaderAssumption DEF Blocks, Clients, Master
<1>1. UNCHANGED <<chain, quit, spc, result, ancestor, dead, err, kpc, pclosed,
                  bclosed, hpc, current, hd, hi, fpc, fh, fabort,
                  newblockCh, ppc, bnum, cnt, pabort>>
  BY Zenon DEF BGot, rest, kvars, pools, hvars, fvars, bvars, pvars, svars
<1>0. n # 0
  BY DEF Blocks
<1>s. \A c \in Clients : c # n => preq'[c] = preq[c]
  BY Settled, Zenon DEF BGot
<1>2. Started'
  BY <1>1, KeepStarted, Zenon
<1>3. Requested'
  <2>1. bst'[n] # "asked" /\ n # 0 /\ \A m \in Blocks : m # n => bst'[m] = bst[m]
    BY <1>0, Zenon DEF BGot, BlockTypes
  <2> QED BY <1>1, <1>s, <2>1, Zenon DEF Requested
<1>4. Beyond'
  BY <1>1, Zenon DEF BGot, Beyond, BlockTypes
<1>5. KilledWhen'
  BY <1>1, Zenon DEF BGot, KilledWhen, BlockTypes
<1>6. Handed'
  BY <1>1, Zenon DEF BGot, Handed, BlockTypes
<1>7. Delivered'
  BY <1>1, Zenon DEF BGot, Delivered, Needed, BlockTypes
<1> QED BY <1>2, <1>3, <1>4, <1>5, <1>6, <1>7, Zenon DEF WorkAlive

LEMMA BRefusedAlive ==
  ASSUME WorkTypes, KillTypes, HeaderTypes, BlockTypes, ProcessTypes,
         KillStages, EndOrder, Phases, Counters, HandedOnce, Requested,
         Started, Beyond, KilledWhen, Handed, Delivered, NEW n \in Blocks,
         BRefused(n)
  PROVE  WorkAlive'
<1> USE DownloaderAssumption DEF Blocks, Clients, Master
<1>1. UNCHANGED <<chain, quit, spc, result, ancestor, pclosed, bclosed,
                  hpc, current, hd, hi, fpc, fh, fabort, fblocks, newblockCh,
                  ppc, bnum, cnt, pabort>>
  BY Zenon DEF BRefused, rest, kvars, pools, hvars, fvars, bvars, pvars, svars
<1>d. dead => dead'
  BY Zenon DEF BRefused, Kill, kvars
<1>0. n # 0
  BY DEF Blocks
<1>s. \A c \in Clients : c # n => preq'[c] = preq[c]
  BY Settled, Zenon DEF BRefused
<1>2. Started'
  BY <1>1, <1>d, KeepStarted, Zenon
<1>3. Requested'
  <2>1. bst'[n] # "asked" /\ n # 0 /\ \A m \in Blocks : m # n => bst'[m] = bst[m]
    BY <1>0, Zenon DEF BRefused, BlockTypes
  <2> QED BY <1>1, <1>s, <2>1, Zenon DEF Requested
<1>4. Beyond'
  BY <1>1, Zenon DEF BRefused, Beyond, BlockTypes
<1>5. KilledWhen'
  BY <1>1, <1>d, Zenon DEF BRefused, KilledWhen, BlockTypes
<1>6. Handed'
  BY <1>1, <1>d, Zenon DEF BRefused, Handed, BlockTypes
<1>7. Delivered'
  BY <1>1, <1>d, Zenon DEF BRefused, Delivered, Needed, BlockTypes, Kill
<1> QED BY <1>2, <1>3, <1>4, <1>5, <1>6, <1>7, Zenon DEF WorkAlive

LEMMA BSignalAlive ==
  ASSUME WorkTypes, KillTypes, HeaderTypes, BlockTypes, ProcessTypes,
         KillStages, EndOrder, Phases, Counters, HandedOnce, Requested,
         Started, Beyond, KilledWhen, Handed, Delivered, NEW n \in Blocks,
         BSignal(n)
  PROVE  WorkAlive'
<1> USE DownloaderAssumption DEF Blocks, Clients, Master
<1>1. UNCHANGED <<chain, quit, spc, result, ancestor, dead, err, kpc, pclosed,
                  bclosed, preq, hpc, current, hd, hi, fpc, fh, fabort, tries,
                  fblocks, ppc, bnum, cnt, pabort>>
  BY Zenon DEF BSignal, rest, kvars, pools, hvars, fvars, bvars, pvars, svars
<1>2. Started'
  BY <1>1, KeepStarted, Zenon
<1>3. Requested'
  BY <1>1, Zenon DEF BSignal, Requested, BlockTypes
<1>4. Beyond'
  <2>1. n > ancestor /\ spc \notin {"height", "ancestor"}
    BY Zenon DEF BSignal, Beyond, Phases
  <2>2. ancestor # Last
    BY <2>1 DEF WorkTypes
  <2>3. \A m \in Blocks : bst'[m] # "none" => m > ancestor
    BY <2>1, Zenon DEF BSignal, Beyond, BlockTypes
  <2> QED BY <1>1, <2>1, <2>2, <2>3, Zenon DEF Beyond
<1>5. KilledWhen'
  BY <1>1, Zenon DEF BSignal, KilledWhen, BlockTypes, Phases, EndOrder,
      KillStages, Working, Finished, Beyond
<1>6. Handed'
  BY <1>1, Zenon DEF BSignal, Handed, BlockTypes, Phases
<1>7. Delivered'
  BY <1>1, Zenon DEF BSignal, Delivered, Needed, BlockTypes, Phases
<1> QED BY <1>2, <1>3, <1>4, <1>5, <1>6, <1>7, Zenon DEF WorkAlive

LEMMA PStartAlive ==
  ASSUME WorkTypes, KillTypes, HeaderTypes, BlockTypes, ProcessTypes,
         KillStages, EndOrder, Phases, Counters, HandedOnce, Requested,
         Started, Beyond, KilledWhen, Handed, Delivered, PStart
  PROVE  WorkAlive'
<1> USE DownloaderAssumption DEF Blocks, Clients, Master
<1>1. UNCHANGED <<chain, quit, spc, result, ancestor, pclosed, bclosed, preq,
                  hpc, current, hd, hi, fpc, fh, fabort, bst, tries, fblocks,
                  newblockCh, bnum, cnt, pabort>>
  BY Zenon DEF PStart, kvars, pools, hvars, fvars, bvars, pvars, svars
<1>d. dead => dead'
  BY Zenon DEF PStart, Kill, kvars
<1>2. Requested' /\ Handed'
  BY <1>1, <1>d, KeepRequested, KeepHanded, Zenon
<1>3. Started'
  BY <1>1, Zenon DEF PStart, Started
<1>a. bnum = ancestor + 1
  BY Zenon DEF PStart, Beyond
<1>b. \/ bnum > Last /\ dead' /\ ppc' = "done"
      \/ ~(bnum > Last) /\ ppc' = "range"
  BY Zenon DEF PStart, Kill, kvars
<1>4. Beyond'
  <2>1. bnum > ancestor
    BY <1>a DEF WorkTypes
  <2> QED BY <1>1, <1>b, <2>1, Zenon DEF Beyond
<1>5. KilledWhen'
  <2>1. (bnum > Last => ancestor = Last) /\ (~(bnum > Last) => bnum <= Last)
    BY <1>a DEF WorkTypes
  <2> QED BY <1>1, <1>b, <1>d, <2>1, Zenon DEF KilledWhen
<1>6. Delivered'
  BY <1>1, <1>d, Zenon DEF PStart, Delivered, Needed
<1> QED BY <1>2, <1>3, <1>4, <1>5, <1>6, Zenon DEF WorkAlive

LEMMA ReceiveAlive ==
  ASSUME WorkTypes, KillTypes, HeaderTypes, BlockTypes, ProcessTypes,
         KillStages, EndOrder, Phases, Counters, HandedOnce, Requested,
         Started, Beyond, KilledWhen, Handed, Delivered, Receive
  PROVE  WorkAlive'
<1> USE DownloaderAssumption DEF Blocks, Clients, Master
<1>1. UNCHANGED <<chain, quit, spc, result, ancestor, dead, err, kpc, pclosed,
                  bclosed, preq, hpc, current, hd, hi, fpc, fh, fabort, bst,
                  tries, bnum, pabort>>
  BY Zenon DEF Receive, kvars, pools, hvars, fvars, bvars, pvars, svars
<1>2. Requested' /\ Handed'
  BY <1>1, KeepRequested, KeepHanded, Zenon
<1>3. Started'
  BY <1>1, Zenon DEF Receive, Started
<1>4. Beyond'
  BY <1>1, Zenon DEF Receive, Beyond
<1>5. KilledWhen'
  <2>1. ppc = "range" /\ (ppc' = ppc \/ ppc' = "insert")
    BY Zenon DEF Receive
  <2> QED BY <1>1, <2>1, Zenon DEF KilledWhen
<1>6. Delivered'
  <2>1. \/ UNCHANGED <<ppc, fblocks, cnt>>
        \/ /\ ppc = "range" /\ ppc' = "insert"
           /\ \E m \in (bnum + 1)..(Last + 1) :
                cnt' = m - bnum /\ fblocks' = fblocks \ (bnum..(m - 1))
    BY Zenon DEF Receive
  <2>2. CASE UNCHANGED <<ppc, fblocks, cnt>>
    BY <1>1, <2>2, KeepDelivered, Zenon
  <2>3. CASE ppc = "range" /\ ppc' = "insert"
    <3>1. PICK m \in (bnum + 1)..(Last + 1) :
            cnt' = m - bnum /\ fblocks' = fblocks \ (bnum..(m - 1))
      BY <2>1, <2>3, Zenon
    <3>2. bnum \in 0..(Last + 1)
      BY Zenon DEF ProcessTypes
    <3>3. bnum + cnt' = m /\ \A n \in Blocks : n < bnum \/ n \in bnum..(m - 1) => n < m
      BY <3>1, <3>2
    <3>4. Needed = bnum /\ Needed' = m
      BY <1>1, <2>3, <3>3, Zenon DEF Needed
    <3> QED BY <1>1, <3>1, <3>3, <3>4, Zenon DEF Delivered
  <2> QED BY <2>1, <2>2, <2>3, Zenon
<1> QED BY <1>2, <1>3, <1>4, <1>5, <1>6, Zenon DEF WorkAlive

LEMMA InsertFailsAlive ==
  ASSUME WorkTypes, KillTypes, HeaderTypes, BlockTypes, ProcessTypes,
         KillStages, EndOrder, Phases, Counters, HandedOnce, Requested,
         Started, Beyond, KilledWhen, Handed, Delivered, InsertFails
  PROVE  WorkAlive'
<1> USE DownloaderAssumption DEF Blocks, Clients, Master
<1>1. UNCHANGED <<chain, quit, spc, result, ancestor, pclosed, bclosed, preq,
                  hpc, current, hd, hi, fpc, fh, fabort, bst, tries, fblocks,
                  newblockCh, bnum, cnt>>
  BY Zenon DEF InsertFails, kvars, pools, hvars, fvars, bvars, pvars, svars
<1>d. dead => dead'
  BY Zenon DEF InsertFails, Kill, kvars
<1>2. Requested' /\ Handed'
  BY <1>1, <1>d, KeepRequested, KeepHanded, Zenon
<1>3. Started'
  BY <1>1, Zenon DEF InsertFails, Started
<1>4. Beyond'
  BY <1>1, Zenon DEF InsertFails, Beyond
<1>5. KilledWhen'
  BY <1>1, <1>d, Zenon DEF InsertFails, KilledWhen, Kill
<1>6. Delivered'
  BY <1>1, <1>d, Zenon DEF InsertFails, Delivered, Needed, Kill
<1> QED BY <1>2, <1>3, <1>4, <1>5, <1>6, Zenon DEF WorkAlive

LEMMA InsertAlive ==
  ASSUME WorkTypes, KillTypes, HeaderTypes, BlockTypes, ProcessTypes,
         KillStages, EndOrder, Phases, Counters, HandedOnce, Requested,
         Started, Beyond, KilledWhen, Handed, Delivered, Insert
  PROVE  WorkAlive'
<1> USE DownloaderAssumption DEF Blocks, Clients, Master
<1>1. UNCHANGED <<quit, spc, result, ancestor, pclosed, bclosed, preq, hpc,
                  current, hd, hi, fpc, fh, fabort, bst, tries, fblocks,
                  newblockCh, cnt>>
  BY Zenon DEF Insert, kvars, pools, hvars, fvars, bvars, pvars, svars
<1>d. dead => dead'
  BY Zenon DEF Insert, Kill, kvars
<1>2. Requested' /\ Handed'
  BY <1>1, <1>d, KeepRequested, KeepHanded, Zenon
<1>3. Started'
  BY <1>1, Zenon DEF Insert, Started
<1>4. Beyond'
  <2>1. ppc' = "range" /\ (bnum' = bnum \/ bnum' = bnum + cnt)
    BY Zenon DEF Insert
  <2>2. bnum > ancestor /\ cnt >= 1
    BY Zenon DEF Insert, Beyond, ProcessTypes
  <2>3. bnum' > ancestor
    BY <2>1, <2>2 DEF ProcessTypes, WorkTypes
  <2> QED BY <1>1, <2>1, <2>3, Zenon DEF Beyond
<1>5. KilledWhen'
  <2>1. ~(bnum + cnt - 1 = Last) => bnum + cnt <= Last
    BY DEF Insert, ProcessTypes
  <2>2. /\ ppc' = "range"
        /\ \/ dead' /\ pabort'
           \/ ~(bnum + cnt - 1 = Last) /\ bnum' = bnum + cnt /\ pabort' = pabort
    BY Zenon DEF Insert, Kill, kvars
  <2>3. pabort' \/ bnum' <= Last
    BY <2>1, <2>2, Zenon
  <2>6. fabort' \/ pabort' => dead'
    BY <1>1, <1>d, <2>2, Zenon DEF KilledWhen
  <2>4. \A n \in Blocks : bst'[n] = "lost" => dead'
    BY <1>1, <1>d, Zenon DEF KilledWhen
  <2>5. hpc' = "end" /\ ~dead' => current' > Last
    BY <1>1, <1>d, Zenon DEF KilledWhen
  <2> QED BY <2>2, <2>3, <2>4, <2>5, <2>6, Zenon DEF KilledWhen
<1>6. Delivered'
  BY <1>1, <1>d, Zenon DEF Insert, Delivered, Needed, Kill
<1> QED BY <1>2, <1>3, <1>4, <1>5, <1>6, Zenon DEF WorkAlive

LEMMA ProcessEndAlive ==
  ASSUME WorkTypes, KillTypes, HeaderTypes, BlockTypes, ProcessTypes,
         KillStages, EndOrder, Phases, Counters, HandedOnce, Requested,
         Started, Beyond, KilledWhen, Handed, Delivered, ProcessEnd
  PROVE  WorkAlive'
<1> USE DownloaderAssumption DEF Blocks, Clients, Master
<1>1. UNCHANGED <<chain, quit, spc, result, ancestor, dead, err, kpc, pclosed,
                  bclosed, preq, hpc, current, hd, hi, fpc, fh, fabort, bst,
                  tries, fblocks, newblockCh, bnum, cnt, pabort>>
  BY Zenon DEF ProcessEnd, kvars, pools, hvars, fvars, bvars, pvars, svars
<1>2. Requested' /\ Handed'
  BY <1>1, KeepRequested, KeepHanded, Zenon
<1>3. Started'
  BY <1>1, Zenon DEF ProcessEnd, Started
<1>4. Beyond'
  BY <1>1, Zenon DEF ProcessEnd, Beyond
<1>5. KilledWhen'
  BY <1>1, Zenon DEF ProcessEnd, KilledWhen, EndOrder, KillStages, Finished
<1>6. Delivered'
  BY <1>1, Zenon DEF ProcessEnd, Delivered, Needed
<1> QED BY <1>2, <1>3, <1>4, <1>5, <1>6, Zenon DEF WorkAlive

LEMMA SynchroniseAlive ==
  ASSUME Synchronise
  PROVE  WorkAlive'
<1> USE DownloaderAssumption DEF Blocks, Clients, Master
<1>1. Requested'
  BY Zenon DEF Synchronise, Requested
<1>2. Started' /\ KilledWhen' /\ Handed' /\ Delivered'
  BY Zenon DEF Synchronise, Started, KilledWhen, Handed, Delivered
<1>3. Beyond'
  BY Zenon DEF Synchronise, Beyond
<1> QED BY <1>1, <1>2, <1>3, Zenon DEF WorkAlive

\* Every step of a sync preserves WorkAlive.
LEMMA SyncStepAlive == DInv /\ WorkAlive /\ (SyncStep \/ MasterQuits) => WorkAlive'
<1> SUFFICES ASSUME WorkTypes, KillTypes, HeaderTypes, BlockTypes, ProcessTypes,
                    KillStages, EndOrder, Phases, Counters, HandedOnce, Requested,
                    Started, Beyond, KilledWhen, Handed, Delivered,
                    SyncStep \/ MasterQuits
             PROVE  WorkAlive'
  BY Zenon DEF DInv, DTypeOK, WorkAlive
<1> QED
  BY StopPPoolAlive, StopBPoolAlive, FinishAlive, MasterQuitsAlive, PLoseAlive,
     PAnswerAlive, SynchroniseAlive, HeightFailsAlive, HeightKnownAlive,
     AncestorFailsAlive, AncestorFoundAlive, ReturnAlive, NextHeadersAlive,
     GotHeadersAlive, CheckHeaderAlive, SendHeaderAlive, HeadersEndAlive,
     SubmitBlockAlive, BlocksEndAlive, BRunAlive, BLoseAlive, BGiveUpAlive,
     BAskAlive, BGotAlive, BRefusedAlive, BSignalAlive, PStartAlive, ReceiveAlive,
     InsertFailsAlive, InsertAlive, ProcessEndAlive, Zenon DEF SyncStep

\* So does every step of the syncer: it starts and collects a sync.
LEMMA SyncerAlive ==
  ASSUME WorkAlive, UNCHANGED <<ancestor, preq, others>>,
         spc' = spc \/ spc' \in {"idle", "spawned"}
  PROVE  WorkAlive'
<1>1. UNCHANGED <<ancestor, dead, preq, hpc, current, hd, fpc, fh, fabort, bst,
                  fblocks, newblockCh, ppc, bnum, cnt, pabort>>
  BY Zenon DEF others, kvars, hvars, fvars, bvars, pvars
<1>2. Requested' /\ Started'
  BY <1>1, Zenon DEF WorkAlive, Requested, Started
<1>3. Beyond'
  BY <1>1, Zenon DEF WorkAlive, Beyond
<1>4. KilledWhen' /\ Handed' /\ Delivered'
  BY <1>1, KeepKilledWhen, KeepHanded, KeepDelivered, Zenon DEF WorkAlive
<1> QED BY <1>2, <1>3, <1>4, Zenon DEF WorkAlive

LEMMA SyncerQuiet ==
  ASSUME [Next]_vars
  PROVE  \/ SyncStep \/ MasterQuits
         \/ /\ UNCHANGED <<ancestor, preq, others>>
            /\ spc' = spc \/ spc' \in {"idle", "spawned"}
<1>1. ASSUME NEW done, NEW force, NextOp(done, force)
      PROVE  UNCHANGED <<ancestor, preq, others>> /\ (spc' = spc \/ spc' = "spawned")
  BY <1>1, Zenon DEF NextOp
<1>2. CASE Start \/ OnPeerEvent \/ OnTimer
  BY <1>1, <1>2, Zenon DEF Start, OnPeerEvent, OnTimer
<1>3. ASSUME UNCHANGED dvars PROVE UNCHANGED <<ancestor, preq, others, spc>>
  BY <1>3, Zenon DEF dvars, svars, others
<1>4. CASE OnDone
  BY <1>1, <1>3, <1>4, Zenon DEF OnDone
<1>5. CASE PeerEvent \/ SendEvent \/ Terminated \/ StopCall \/ StopReturn
  BY <1>3, <1>5, Zenon DEF PeerEvent, SendEvent, Terminated, StopCall, StopReturn
<1>6. CASE SyncDone \/ OnQuit
  BY <1>6, Zenon DEF SyncDone, OnQuit, svars
<1>7. CASE UNCHANGED vars
  BY <1>3, <1>7, Zenon DEF vars
<1> QED BY <1>2, <1>4, <1>5, <1>6, <1>7, Zenon DEF Next, PeerDropped

\* WorkAlive holds in every reachable state.
THEOREM SyncAlive == Spec => []WorkAlive
<1>1. Init => WorkAlive
  <2> SUFFICES ASSUME Init PROVE WorkAlive
    OBVIOUS
  <2>1. spc = "idle" /\ hpc = "none" /\ fpc = "none" /\ ppc = "none" /\ dead = FALSE
        /\ fabort = FALSE /\ pabort = FALSE /\ newblockCh = <<>>
        /\ \A n \in Blocks : bst[n] = "none"
    BY Zenon DEF Init, DInit
  <2> QED BY <2>1, Zenon DEF WorkAlive, Requested, Started, Beyond, KilledWhen, Handed,
                             Delivered
<1>2. SyncInv /\ WorkAlive /\ [Next]_vars => WorkAlive'
  BY SyncStepAlive, SyncerAlive, SyncerQuiet, Zenon DEF SyncInv
<1> QED BY <1>1, <1>2, SyncInvariance, PTL DEF Spec

\* Who holds kmutex: an event is sent while the loop is at its select, and stop
\* keeps the lock until the loop has ended.
Locks ==
  /\ kmutex = "stop" <=> stpc \in {"send", "wait"}
  /\ kmutex = "event" => ~csdead /\ stpc = "none"
  /\ stpc \in {"none", "send"} => lpc \in {"none", "select"} /\ ~killed
  /\ stpc = "send" => lpc = "select"
  /\ ~csdead => stpc \in {"none", "send"}
  /\ stpc = "wait" /\ lpc = "select" => killed /\ doneCh # "nil"

LEMMA LocksStep ==
  ASSUME SyncerTypes, LoopEnds, Locks, [Next]_vars
  PROVE  Locks'
<1>1. CASE UNCHANGED cvars
  BY <1>1, Zenon DEF cvars, lvars, Locks
<1>2. ASSUME NEW done, NEW force, NextOp(done, force)
      PROVE  lpc' = "select" /\ (done # "nil" => doneCh' # "nil")
  BY <1>2, Zenon DEF NextOp
<1>3. CASE Start
  <2>1. /\ stpc = "none" /\ kmutex = "none" /\ lpc' = "select"
        /\ UNCHANGED <<kmutex, killed, stpc>>
    BY <1>2, <1>3, Zenon DEF Start
  <2> QED BY <2>1, Zenon DEF Locks
<1>4. ASSUME NEW force, lpc = "select", NextOp(doneCh, force),
             UNCHANGED <<kmutex, csdead, killed, stpc>>
      PROVE  Locks'
  <2>1. lpc' = "select" /\ (doneCh # "nil" => doneCh' # "nil")
    BY <1>4, Zenon DEF NextOp
  <2> QED BY <1>4, <2>1, Zenon DEF Locks
<1>5. CASE OnPeerEvent \/ OnTimer
  BY <1>4, <1>5, Zenon DEF OnPeerEvent, OnTimer
<1>6. CASE OnDone
  <2>1. lpc = "select" /\ UNCHANGED <<kmutex, csdead, killed, stpc>>
    BY <1>6, Zenon DEF OnDone
  <2>2. (killed /\ lpc' = "done") \/ (~killed /\ lpc' = "select")
    BY <1>2, <1>6, Zenon DEF OnDone
  <2> QED BY <2>1, <2>2, Zenon DEF Locks
<1>7. CASE SyncDone
  BY <1>7, Zenon DEF SyncDone, lvars, Locks
<1>8. CASE OnQuit
  BY <1>8, Zenon DEF OnQuit, Locks
<1>9. CASE Terminated
  <2>1. stpc = "wait" /\ kmutex = "stop"
    BY <1>9, Zenon DEF Terminated, SyncerTypes, LoopEnds, Locks
  <2>2. /\ UNCHANGED <<kmutex, csdead, doneCh, stpc>>
        /\ (lpc' = "select" /\ killed' /\ doneCh # "nil") \/ lpc' = "done"
    BY <1>9, Zenon DEF Terminated
  <2> QED BY <2>1, <2>2, Zenon DEF Locks
<1>10. CASE PeerEvent
  <2>1. /\ kmutex = "none" /\ ~csdead /\ kmutex' \in {"none", "event"}
        /\ UNCHANGED <<csdead, doneCh, lpc, killed, stpc>>
    BY <1>10, Zenon DEF PeerEvent, lvars
  <2> QED BY <2>1, Zenon DEF Locks
<1>11. CASE SendEvent
  BY <1>11, Zenon DEF SendEvent, lvars, Locks
<1>12. CASE StopCall
  <2>1. lpc = "select"
    BY <1>12, Zenon DEF StopCall, LoopEnds, Locks
  <2> QED BY <1>12, <2>1, Zenon DEF StopCall, lvars, Locks
<1>13. CASE StopReturn
  BY <1>13, Zenon DEF StopReturn, lvars, Locks
<1> QED BY <1>1, <1>3, <1>5, <1>6, <1>7, <1>8, <1>9, <1>10, <1>11, <1>12, <1>13, Zenon
    DEF Next, PeerDropped, vars

\* Locks holds in every reachable state.
THEOREM LocksKept == Spec => []Locks
<1>1. Init => Locks
  BY Zenon DEF Init, Locks
<1>2. SyncInv /\ Locks /\ [Next]_vars => Locks'
  BY LocksStep, Zenon DEF SyncInv
<1> QED BY <1>1, <1>2, SyncInvariance, PTL DEF Spec

\* Cardinality counts no elements of the empty set: its recursive function has
\* a solution on the subsets of {}.
LEMMA NoneCounted == Cardinality({}) = 0
<1> DEFINE F(CS) == [T \in SUBSET {} |-> IF T = {} THEN 0
                                         ELSE 1 + CS[T \ {CHOOSE x : x \in T}]]
           none == [T \in SUBSET {} |-> 0]
<1>1. none = F(none)
  BY Zenon
<1>2. (CHOOSE CS : CS = F(CS)) = F(CHOOSE CS : CS = F(CS))
  <2> HIDE DEF F, none
  <2> QED BY <1>1, Zenon
<1>3. F(CHOOSE CS : CS = F(CS))[{}] = 0
  BY Zenon
<1> QED BY <1>2, <1>3, Zenon DEF Cardinality

\* In a state of the invariant a part of the synchronisation can go on.
LEMMA WorkNotStuck ==
  ASSUME DInv, WorkAlive, spc \notin {"idle", "spawned"}
  PROVE  WorkMoves \/ Lost
<1> SUFFICES ASSUME ~Lost, ~KillMoves, ~SynchroniseMoves,
                    ~HeadersMove, ~BlocksMove, ~ProcessMoves,
                    \A c \in Clients : preq[c] # "pending",
                    \A n \in Blocks : ~JobMoves(n)
             PROVE  FALSE
  BY Zenon DEF WorkMoves
<1> USE DEF DInv, DTypeOK, WorkAlive
<1>1. \A c \in Clients : preq[c] # "none" => preq[c] \in Answered
  BY Zenon DEF Lost, WorkTypes
<1>2. Master \in Clients /\ \A n \in Blocks : n \in Clients
  BY Zenon DEF Clients
<1>3. spc = "wait"
  BY <1>1, <1>2, Zenon DEF SynchroniseMoves, Requested, WorkTypes
<1>4. \A n \in Blocks : bst[n] \notin {"try", "asked"}
  BY <1>1, <1>2, Zenon DEF JobMoves, Requested
<1>5. hpc \in {"send", "end", "done"} /\ fpc \in {"range", "submit", "done"}
      /\ ppc \in {"range", "done"}
  BY <1>1, <1>2, <1>3, Zenon DEF HeadersMove, ProcessMoves, Requested, Started,
                                 HeaderTypes, ProcessTypes
<1>6. kpc \in {"none", "bwait", "done"}
  BY Zenon DEF KillMoves, KillTypes
<1>7. ASSUME newblockCh = <<>> PROVE \A n \in Blocks : bst[n] # "put"
  <2>1. Len(newblockCh) < Signals
    BY <1>7, DownloaderAssumption
  <2> QED BY <2>1, Zenon DEF JobMoves
<1>8. newblockCh = <<>>
  BY <1>5, Zenon DEF ProcessMoves, KilledWhen, Beyond
<1>9. \A n \in Blocks : bst[n] \notin {"try", "asked", "put"}
  BY <1>4, <1>7, <1>8, Zenon
\* A work that is killed: its pools drain, and the goroutines end in turn
<1>10. CASE dead
  <2>1. bclosed
    BY <1>6, <1>10, Zenon DEF KillStages
  <2>2. \A n \in Blocks : ~Working(n)
    BY <1>9, <2>1, Zenon DEF Working, JobMoves
  <2>3. Finished
    BY <1>6, <1>10, <2>2, Zenon DEF KillMoves, KillStages, Finished
  <2>4. hpc = "done"
    BY <1>5, <2>1, <2>3, Zenon DEF HeadersMove, BlocksMove, EndOrder
  <2>5. fpc = "done" /\ ppc = "done"
    BY <1>5, <2>1, <2>4, Zenon DEF BlocksMove, ProcessMoves
  <2> QED BY <1>3, <2>4, <2>5, Zenon DEF SynchroniseMoves
\* Otherwise the block that processBlocks needs was handed on and fetched, and
\* its signal was sent
<1>11. CASE ~dead
  <2>1. ~Finished /\ hpc # "done" /\ fpc # "done" /\ ppc = "range" /\ ~pabort /\ ~bclosed
    BY <1>5, <1>11, Zenon DEF KillStages, EndOrder, KilledWhen, Finished
  <2>2. \A n \in Blocks : bst[n] # "queued"
    <3>1. Running = {}
      BY <1>9, Zenon DEF Running
    <3>2. Cardinality(Running) < BWorkers
      BY <3>1, NoneCounted, DownloaderAssumption
    <3> QED BY <3>2, Zenon DEF JobMoves
  <2>3. fpc = "range"
    <3>1. Queued = {}
      BY <2>2, Zenon DEF Queued
    <3>2. Cardinality(Queued) < BQueue
      BY <3>1, NoneCounted, DownloaderAssumption
    <3> QED BY <1>5, <2>1, <3>2, Zenon DEF BlocksMove
  <2>4. current > Last
    BY <1>5, <1>11, <2>1, <2>3, Zenon DEF HeadersMove, KilledWhen
  <2>5. bnum \in Blocks /\ bnum > ancestor /\ bnum < current /\ ~(bnum < bnum)
    <3>1. bnum <= Last /\ bnum > ancestor /\ 1 <= bnum
      BY <2>1, Zenon DEF KilledWhen, Beyond, Counters
    <3>2. bnum \in 0..(Last + 1) /\ current \in 0..(Last + 1)
      BY Zenon DEF ProcessTypes, HeaderTypes
    <3> QED BY <2>4, <3>1, <3>2, DownloaderAssumption DEF Blocks
  <2>6. bst[bnum] # "none"
    BY <1>5, <1>11, <2>1, <2>3, <2>5, Zenon DEF HeadersMove, Handed
  <2>7. bst[bnum] = "done"
    BY <1>9, <1>11, <2>2, <2>5, <2>6, Zenon DEF KilledWhen, BlockTypes
  <2>8. Needed = bnum /\ bnum \in fblocks
    BY <1>11, <2>1, <2>5, <2>7, Zenon DEF Needed, Delivered
  <2>9. PICK i \in 1..Len(newblockCh) : newblockCh[i] = bnum
    BY <2>1, <2>7, <2>8, Zenon DEF Signalled
  <2> QED BY <1>8, <2>9
<1> QED BY <1>10, <1>11, Zenon

\* While kmutex is held, the loop or a synchronisation can go on.
LEMMA LoopNotStuck ==
  ASSUME SyncerTypes, SyncKnown, LoopEnds, Locks, kmutex # "none"
  PROVE  LoopMoves \/ spc # "idle"
<1>1. CASE kmutex = "event"
  BY <1>1, Zenon DEF Locks, LoopEnds, LoopMoves
<1>2. CASE kmutex = "stop"
  BY <1>2, Zenon DEF SyncerTypes, SyncKnown, Locks, LoopEnds, LoopMoves
<1> QED BY <1>1, <1>2, Zenon DEF SyncerTypes

\* addpeer, peerevent and stop with kmutex, the loop (syncer.go:75-218), and the
\* goroutines and pools of a synchronisation (dworker.go:258-449) never wait in a
\* circle: for every capacity of the channels and every number of workers somebody
\* can go on, unless ppool lost a request.
THEOREM NobodyStuck == Spec => []NeverStuck
<1>1. SyncInv /\ WorkAlive /\ Locks => NeverStuck
  BY WorkNotStuck, LoopNotStuck, Zenon DEF SyncInv, NeverStuck
<1> QED BY <1>1, SyncInvariance, SyncAlive, LocksKept, PTL
=============================================================================
