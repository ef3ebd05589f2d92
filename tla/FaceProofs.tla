----------------------------- MODULE FaceProofs -----------------------------
(***************************************************************************)
(* The invariants of the face's pending Interest table, for any number of  *)
(* Interests and names.                                                    *)
(***************************************************************************)
EXTENDS Face, SequenceLemmas, TLAPS

\* NewFace starts with empty tables.
LEMMA FaceInitInv == Init => FaceInv
<1> SUFFICES ASSUME Init PROVE FaceInv
  OBVIOUS
<1>1. <<>> \in Seq(Interests) /\ Range(<<>>) = {}
  BY DEF Range
<1>2. PitTypes
  BY <1>1 DEF Init, PitTypes
<1>3. RunTypes
  <2>1. 0 \in 0..RecvCap
    BY FaceAssumption
  <2> QED BY <1>1, <2>1, Zenon DEF Init, RunTypes
<1>4. Sent /\ Held
  BY FaceAssumption, Zenon DEF Init, Sent, Held
<1>5. Kept /\ Listed /\ Copied
  BY Zenon DEF Init, Kept, Listed, Copied, Answered, Pending
<1> QED BY <1>2, <1>3, <1>4, <1>5, Zenon DEF FaceInv, TypeOK

\* satisfy of the pit is about to answer all that the list of the name holds.
LEMMA LockFacts ==
  ASSUME NEW a, NEW n \in Names, PitTypes, Lock(a, n)
  PROVE  /\ owner = None /\ owner' = a /\ sent' = sent
         /\ cur' \in Interests \cup {None} /\ todo' \subseteq Interests
         /\ cur' = None => todo' = {}
         /\ pilist[n] \subseteq todo' \cup {cur'}
<1>1. pilist[n] \subseteq Interests
  BY Zenon DEF PitTypes
<1>2. CASE pilist[n] = {}
  BY <1>2, Zenon DEF Lock, Pick
<1>3. CASE pilist[n] # {}
  BY <1>1, <1>3, FaceAssumption, Zenon DEF Lock, Pick
<1> QED BY <1>2, <1>3, Zenon

\* The types after a step of satisfy, of run, of tickerloop and of the mixer.
LEMMA SatisfyTypes ==
  ASSUME RunTypes, owner' \in Interests \cup {"run", None},
         cur' \in Interests \cup {None}, sent' \in BOOLEAN, todo' \subseteq Interests,
         rpc' \in {"read", "lock", "satisfy", "recv", "ended"},
         rn' \in Names \cup {None}, rpc' = "lock" => rn' \in Names,
         UNCHANGED <<tpc, texp, tnew, mpc, recv, quit>>
  PROVE  RunTypes'
BY SMT DEF RunTypes

LEMMA ReaderTypes ==
  ASSUME RunTypes, rpc' \in {"read", "lock", "satisfy", "recv", "ended"},
         rn' \in Names \cup {None}, rpc' = "lock" => rn' \in Names,
         UNCHANGED <<owner, cur, sent, todo, tpc, texp, tnew, mpc, recv, quit>>
  PROVE  RunTypes'
BY SMT DEF RunTypes

LEMMA TickTypes ==
  ASSUME RunTypes, texp' \in Seq(Interests), tnew' \subseteq Interests,
         tpc' \in {"select", "check", "send", "gone", "write", "ended"},
         UNCHANGED <<owner, cur, sent, todo, rpc, rn, mpc, recv, quit>>
  PROVE  RunTypes'
BY SMT DEF RunTypes

LEMMA MixerTypes ==
  ASSUME RunTypes, mpc' \in {"select", "close", "ended"}, quit' \in BOOLEAN,
         UNCHANGED <<owner, cur, sent, todo, rpc, rn, tpc, texp, tnew, recv>>
  PROVE  RunTypes'
BY SMT DEF RunTypes

\* The Interest that refresh is at.
LEMMA HeadFacts ==
  ASSUME RunTypes, Sent, tpc \in {"send", "gone", "write"}
  PROVE  /\ texp # <<>> /\ Head(texp) \in Interests /\ Head(texp) \in Range(texp)
         /\ Tail(texp) \in Seq(Interests)
         /\ Range(texp) = Range(Tail(texp)) \cup {Head(texp)}
BY TailFacts, Zenon DEF RunTypes, Sent

\* Every step of a consumer, of run, of tickerloop and of the mixer keeps the
\* invariant.
LEMMA FaceStep == FaceInv /\ [Next]_vars => FaceInv'
<1> SUFFICES ASSUME FaceInv, [Next]_vars PROVE FaceInv'
  OBVIOUS
<1> USE DEF FaceInv, TypeOK
<1>r. /\ rpc \in {"read", "lock", "satisfy", "recv", "ended"}
      /\ rn \in Names \cup {None} /\ (rpc = "lock" => rn \in Names)
  BY Zenon DEF RunTypes
<1>1. ASSUME NEW i \in Interests, Send(i) PROVE FaceInv'
  <2>1. PitTypes'
    <3>1. ts' \in Seq(Interests)
      BY <1>1, AppendFacts, Zenon DEF Send, PitTypes
    <3>2. raced' \subseteq Interests /\ sat' \subseteq Interests
      BY <1>1, Zenon DEF Send, PitTypes
    <3>3. /\ st' \in [Interests -> Waiting \cup {"gone", "failed", "answer"}]
          /\ ch' \in [Interests -> 0..1]
      BY <1>1 DEF Send, PitTypes, Waiting
    <3>4. pilist' \in [Names -> SUBSET Interests]
      BY <1>1, Zenon DEF Send, PitTypes
    <3> QED BY <3>1, <3>2, <3>3, <3>4, Zenon DEF PitTypes
  <2>2. RunTypes'
    BY <1>1, FaceAssumption DEF Send, Free, satv, runv, tickv, mixv, RunTypes
  <2>3. Sent'
    <3>1. \A j \in Interests \ {i} : Answered(j) => Answered(j)'
      BY <1>1, Zenon DEF Send, Answered, PitTypes
    <3>2. /\ sat' = sat \ {i} /\ i # cur /\ i \notin Range(texp)
          /\ UNCHANGED <<cur, sent, tpc, texp>>
      BY <1>1, Zenon DEF Send, Free, satv, tickv
    <3>3. tpc \in {"gone", "write"} => Head(texp) \in Interests \ {i}
      BY <3>2, HeadFacts, Zenon
    <3> QED BY <3>1, <3>2, <3>3, Zenon DEF Sent, PitTypes, RunTypes
  <2>4. Held'
    BY <1>1, FaceAssumption, Zenon DEF Send, Free, satv, runv, tickv, mixv, Held,
        Sent, PitTypes, RunTypes, Waiting
  <2>5. Kept'
    <3>1. \A j \in Interests \ {i} : Answered(j) => Answered(j)'
      BY <1>1, Zenon DEF Send, Answered, PitTypes
    <3>2. Range(ts') = Range(ts) \cup {i}
      BY <1>1, AppendFacts DEF Send, PitTypes
    <3>3. UNCHANGED <<cur, sent, texp>>
      BY <1>1, Zenon DEF Send, satv, tickv
    <3> QED BY <3>1, <3>2, <3>3, Zenon DEF Kept
  <2>6. Listed'
    BY <1>1, FaceAssumption DEF Send, Free, satv, runv, tickv, mixv, Listed,
        Pending, PitTypes, Waiting
  <2>7. Copied'
    BY <1>1, FaceAssumption, Zenon DEF Send, Free, satv, runv, tickv, mixv, Copied,
        Pending, OwnerName, Held, PitTypes, RunTypes, Waiting
  <2> QED BY <2>1, <2>2, <2>3, <2>4, <2>5, <2>6, <2>7, Zenon DEF FaceInv, TypeOK
<1>2. ASSUME NEW i \in Interests, WriteFails(i) PROVE FaceInv'
  <2>1. PitTypes'
    BY <1>2, FaceAssumption, Zenon DEF WriteFails, pit, satv, runv, tickv, mixv,
        PitTypes, Waiting, RunTypes, Sent
  <2>2. RunTypes'
    BY <1>2, FaceAssumption DEF WriteFails, pit, satv, runv, tickv, mixv,
        RunTypes
  <2>3. Sent'
    BY <1>2, FaceAssumption DEF WriteFails, pit, satv, runv, tickv, mixv, Sent,
        Answered, PitTypes, RunTypes, Waiting
  <2>4. Held'
    BY <1>2, FaceAssumption, Zenon DEF WriteFails, pit, satv, runv, tickv, mixv, Held,
        Sent, PitTypes, RunTypes, Waiting
  <2>5. Kept'
    BY <1>2, FaceAssumption, Zenon DEF WriteFails, pit, satv, runv, tickv, mixv, Kept,
        Answered, PitTypes, RunTypes, Sent, Waiting
  <2>6. Listed'
    BY <1>2, FaceAssumption, Zenon DEF WriteFails, pit, satv, runv, tickv, mixv,
        Listed, Pending, PitTypes, Waiting
  <2>7. Copied'
    BY <1>2, FaceAssumption DEF WriteFails, pit, satv, runv, tickv, mixv,
        Copied, Pending, OwnerName, Held, PitTypes, RunTypes, Waiting
  <2> QED BY <2>1, <2>2, <2>3, <2>4, <2>5, <2>6, <2>7, Zenon DEF FaceInv, TypeOK
<1>3. ASSUME NEW i \in Interests, Receive(i) PROVE FaceInv'
  <2>1. PitTypes'
    BY <1>3, FaceAssumption DEF Receive, pit, satv, runv, tickv, mixv,
        PitTypes, Waiting, RunTypes, Sent
  <2>2. RunTypes'
    BY <1>3, FaceAssumption DEF Receive, pit, satv, runv, tickv, mixv, RunTypes
  <2>3. Sent'
    BY <1>3, FaceAssumption DEF Receive, pit, satv, runv, tickv, mixv, Sent,
        Answered, PitTypes, RunTypes, Waiting
  <2>4. Held'
    BY <1>3, FaceAssumption, Zenon DEF Receive, pit, satv, runv, tickv, mixv, Held,
        Sent, PitTypes, RunTypes, Waiting
  <2>5. Kept'
    BY <1>3, FaceAssumption, Zenon DEF Receive, pit, satv, runv, tickv, mixv, Kept,
        Answered, PitTypes, RunTypes, Sent, Waiting
  <2>6. Listed'
    BY <1>3, FaceAssumption, Zenon DEF Receive, pit, satv, runv, tickv, mixv, Listed,
        Pending, PitTypes, Waiting
  <2>7. Copied'
    BY <1>3, FaceAssumption DEF Receive, pit, satv, runv, tickv, mixv, Copied,
        Pending, OwnerName, Held, PitTypes, RunTypes, Waiting
  <2> QED BY <2>1, <2>2, <2>3, <2>4, <2>5, <2>6, <2>7, Zenon DEF FaceInv, TypeOK
<1>4. ASSUME NEW i \in Interests, Abort(i) PROVE FaceInv'
  <2>1. PitTypes'
    BY <1>4, FaceAssumption, Zenon DEF Abort, pit, satv, runv, tickv, mixv, PitTypes,
        Waiting, RunTypes, Sent
  <2>2. RunTypes'
    BY <1>4, FaceAssumption DEF Abort, pit, satv, runv, tickv, mixv, RunTypes
  <2>3. Sent'
    BY <1>4, FaceAssumption DEF Abort, pit, satv, runv, tickv, mixv, Sent,
        Answered, PitTypes, RunTypes, Waiting
  <2>4. Held'
    BY <1>4, FaceAssumption, Zenon DEF Abort, pit, satv, runv, tickv, mixv, Held,
        Sent, PitTypes, RunTypes, Waiting
  <2>5. Kept'
    BY <1>4, FaceAssumption, Zenon DEF Abort, pit, satv, runv, tickv, mixv, Kept,
        Answered, PitTypes, RunTypes, Sent, Waiting
  <2>6. Listed'
    BY <1>4, FaceAssumption, Zenon DEF Abort, pit, satv, runv, tickv, mixv, Listed,
        Pending, PitTypes, Waiting
  <2>7. Copied'
    BY <1>4, FaceAssumption DEF Abort, pit, satv, runv, tickv, mixv, Copied,
        Pending, OwnerName, Held, PitTypes, RunTypes, Waiting
  <2> QED BY <2>1, <2>2, <2>3, <2>4, <2>5, <2>6, <2>7, Zenon DEF FaceInv, TypeOK
<1>5. ASSUME NEW i \in Interests, FailLock(i) PROVE FaceInv'
  <2>1. PitTypes'
    BY <1>5, FaceAssumption, Zenon DEF FailLock, Lock, Pick, pit, runv, tickv, mixv,
        PitTypes, Waiting, RunTypes, Sent
  <2>2. RunTypes'
    <3>1. NameOf[i] \in Names /\ Lock(i, NameOf[i])
      BY <1>5, FaceAssumption, Zenon DEF FailLock, RunTypes
    <3>2. /\ owner = None /\ owner' = i /\ sent' = sent
          /\ cur' \in Interests \cup {None} /\ todo' \subseteq Interests
          /\ pilist[NameOf[i]] \subseteq todo' \cup {cur'}
      BY <3>1, LockFacts, Zenon
    <3>3. UNCHANGED <<rpc, rn, tpc, texp, tnew, mpc, recv, quit>>
      BY <1>5, Zenon DEF FailLock, runv, tickv, mixv
    <3>4. owner' \in Interests \cup {"run", None} /\ sent' \in BOOLEAN
      BY <3>2 DEF RunTypes
    <3> QED BY <1>r, <3>2, <3>3, <3>4, SatisfyTypes, Zenon
  <2>3. Sent'
    <3>1. NameOf[i] \in Names /\ Lock(i, NameOf[i])
      BY <1>5, FaceAssumption, Zenon DEF FailLock, RunTypes
    <3>2. /\ owner = None /\ owner' = i /\ sent' = sent
          /\ cur' \in Interests \cup {None} /\ todo' \subseteq Interests
          /\ pilist[NameOf[i]] \subseteq todo' \cup {cur'}
      BY <3>1, LockFacts, Zenon
    <3>3. \A j \in Interests : Answered(j) <=> Answered(j)'
      BY <1>5, Zenon DEF FailLock, Answered, PitTypes
    <3>4. ~sent
      BY <3>2, Zenon DEF Held, Sent
    <3>5. UNCHANGED <<sat, tpc, texp>>
      BY <1>5, Zenon DEF FailLock, pit, tickv
    <3>6. tpc \in {"gone", "write"} => Head(texp) \in Interests
      BY HeadFacts, Zenon
    <3> QED BY <3>2, <3>3, <3>4, <3>5, <3>6, Zenon DEF Sent, PitTypes
  <2>4. Held'
    <3>1. NameOf[i] \in Names /\ Lock(i, NameOf[i])
      BY <1>5, FaceAssumption, Zenon DEF FailLock, RunTypes
    <3>2. owner' = i /\ (cur' = None => todo' = {})
      BY <3>1, LockFacts, Zenon
    <3> QED BY <1>5, <3>1, <3>2, FaceAssumption, Zenon
        DEF FailLock, pit, runv, tickv, mixv, Held, PitTypes
  <2>5. Kept'
    <3>1. NameOf[i] \in Names /\ Lock(i, NameOf[i])
      BY <1>5, FaceAssumption, Zenon DEF FailLock, RunTypes
    <3>2. /\ owner = None /\ owner' = i /\ sent' = sent
          /\ cur' \in Interests \cup {None} /\ todo' \subseteq Interests
          /\ pilist[NameOf[i]] \subseteq todo' \cup {cur'}
      BY <3>1, LockFacts, Zenon
    <3>3. \A j \in Interests : Answered(j) <=> Answered(j)'
      BY <1>5, Zenon DEF FailLock, Answered, PitTypes
    <3>4. \A j \in Interests : ~Answered(j) => j \in Range(ts) \cup Range(texp)
      BY <3>2, FaceAssumption, Zenon DEF Held, Kept
    <3>5. UNCHANGED <<ts, texp>>
      BY <1>5, Zenon DEF FailLock, pit, tickv
    <3> QED BY <3>3, <3>4, <3>5, Zenon DEF Kept
  <2>6. Listed'
    BY <1>5, FaceAssumption, Zenon DEF FailLock, Lock, Pick, pit, runv, tickv, mixv,
        Listed, Pending, PitTypes, Waiting
  <2>7. Copied'
    <3>1. NameOf[i] \in Names /\ Lock(i, NameOf[i])
      BY <1>5, FaceAssumption, Zenon DEF FailLock, RunTypes
    <3>2. /\ owner = None /\ owner' = i /\ sent' = sent
          /\ cur' \in Interests \cup {None} /\ todo' \subseteq Interests
          /\ pilist[NameOf[i]] \subseteq todo' \cup {cur'}
      BY <3>1, LockFacts, Zenon
    <3>3. \A m : Pending(m)' = Pending(m)
      BY <1>5, Zenon DEF FailLock, pit, Pending, PitTypes
    <3>4. OwnerName' = NameOf[i]
      BY <1>5, <3>2, FaceAssumption, Zenon DEF FailLock, OwnerName
    <3>5. Pending(NameOf[i]) \subseteq todo' \cup {cur'}
      BY <3>1, <3>2, Zenon DEF Listed
    <3>6. UNCHANGED <<tpc, texp, tnew>>
      BY <1>5, Zenon DEF FailLock, tickv
    <3> QED BY <3>3, <3>4, <3>5, <3>6, Zenon DEF Copied
  <2> QED BY <2>1, <2>2, <2>3, <2>4, <2>5, <2>6, <2>7, Zenon DEF FaceInv, TypeOK
<1>6. ASSUME NEW n \in Names, ReadAnswer(n) PROVE FaceInv'
  <2>1. PitTypes'
    BY <1>6, FaceAssumption, Zenon DEF ReadAnswer, pit, satv, tickv, mixv, PitTypes,
        Waiting, RunTypes, Sent
  <2>2. RunTypes'
    <3>1. /\ rpc' = "lock" /\ rn' = n
          /\ UNCHANGED <<owner, cur, sent, todo, tpc, texp, tnew, mpc, recv, quit>>
      BY <1>6, Zenon DEF ReadAnswer, satv, tickv, mixv
    <3> QED BY <1>6, <1>r, <3>1, ReaderTypes, Zenon
  <2>3. Sent'
    BY <1>6, FaceAssumption, Zenon DEF ReadAnswer, pit, satv, tickv, mixv, Sent,
        Answered, PitTypes, RunTypes, Waiting
  <2>4. Held'
    BY <1>6, FaceAssumption, Zenon DEF ReadAnswer, pit, satv, tickv, mixv, Held, Sent,
        PitTypes, RunTypes, Waiting
  <2>5. Kept'
    BY <1>6, FaceAssumption, Zenon DEF ReadAnswer, pit, satv, tickv, mixv, Kept,
        Answered, PitTypes, RunTypes, Sent, Waiting
  <2>6. Listed'
    BY <1>6, FaceAssumption, Zenon DEF ReadAnswer, pit, satv, tickv, mixv, Listed,
        Pending, PitTypes, Waiting
  <2>7. Copied'
    BY <1>6, FaceAssumption, Zenon DEF ReadAnswer, pit, satv, tickv, mixv, Copied,
        Pending, OwnerName, Held, PitTypes, RunTypes, Waiting
  <2> QED BY <2>1, <2>2, <2>3, <2>4, <2>5, <2>6, <2>7, Zenon DEF FaceInv, TypeOK
<1>7. CASE Answer
  <2>1. PitTypes'
    BY <1>7, FaceAssumption DEF Answer, pit, runv, tickv, mixv, PitTypes,
        Waiting, RunTypes, Sent
  <2>2. RunTypes'
    <3>1. /\ sent' \in BOOLEAN /\ UNCHANGED <<cur, todo>>
          /\ UNCHANGED <<owner, rpc, rn, tpc, texp, tnew, mpc, recv, quit>>
      BY <1>7, Zenon DEF Answer, runv, tickv, mixv
    <3>2. /\ owner' \in Interests \cup {"run", None}
          /\ cur' \in Interests \cup {None} /\ todo' \subseteq Interests
      BY <3>1, Zenon DEF RunTypes
    <3> QED BY <1>r, <3>1, <3>2, SatisfyTypes, Zenon
  <2>3. Sent'
    BY <1>7, FaceAssumption DEF Answer, pit, runv, tickv, mixv, Sent, Answered,
        PitTypes, RunTypes, Waiting
  <2>4. Held'
    BY <1>7, FaceAssumption, Zenon DEF Answer, pit, runv, tickv, mixv, Held, Sent,
        PitTypes, RunTypes, Waiting
  <2>5. Kept'
    BY <1>7, FaceAssumption, Zenon DEF Answer, pit, runv, tickv, mixv, Kept, Answered,
        PitTypes, RunTypes, Sent, Waiting
  <2>6. Listed'
    BY <1>7, FaceAssumption, Zenon DEF Answer, pit, runv, tickv, mixv, Listed,
        Pending, PitTypes, Waiting
  <2>7. Copied'
    BY <1>7, FaceAssumption, Zenon DEF Answer, pit, runv, tickv, mixv, Copied,
        Pending, OwnerName, Held, PitTypes, RunTypes, Waiting
  <2> QED BY <2>1, <2>2, <2>3, <2>4, <2>5, <2>6, <2>7, Zenon DEF FaceInv, TypeOK
<1>8. CASE Gone
  <2>1. PitTypes'
    BY <1>8, FaceAssumption, Zenon DEF Gone, Pick, runv, tickv, mixv, PitTypes,
        Waiting, RunTypes, Sent
  <2>2. RunTypes'
    <3>1. sent' \in BOOLEAN /\ UNCHANGED <<owner, rpc, rn, tpc, texp, tnew, mpc, recv, quit>>
      BY <1>8, Zenon DEF Gone, runv, tickv, mixv
    <3>2. cur' \in todo \cup {None} /\ todo' \subseteq todo
      BY <1>8, Zenon DEF Gone, Pick
    <3>3. /\ owner' \in Interests \cup {"run", None}
          /\ cur' \in Interests \cup {None} /\ todo' \subseteq Interests
      BY <3>1, <3>2, Zenon DEF RunTypes
    <3> QED BY <1>r, <3>1, <3>3, SatisfyTypes, Zenon
  <2>3. Sent'
    BY <1>8, FaceAssumption, Zenon DEF Gone, Pick, runv, tickv, mixv, Sent, Answered,
        PitTypes, RunTypes, Waiting
  <2>4. Held'
    BY <1>8, FaceAssumption, Zenon DEF Gone, Pick, runv, tickv, mixv, Held, Sent,
        PitTypes, RunTypes, Waiting
  <2>5. Kept'
    BY <1>8, FaceAssumption, Zenon DEF Gone, Pick, runv, tickv, mixv, Kept, Answered,
        PitTypes, RunTypes, Sent, Waiting
  <2>6. Listed'
    BY <1>8, FaceAssumption, Zenon DEF Gone, Pick, runv, tickv, mixv, Listed, Pending,
        PitTypes, Waiting
  <2>7. Copied'
    BY <1>8, FaceAssumption, Zenon DEF Gone, Pick, runv, tickv, mixv, Copied, Pending,
        OwnerName, Held, PitTypes, RunTypes, Waiting
  <2> QED BY <2>1, <2>2, <2>3, <2>4, <2>5, <2>6, <2>7, Zenon DEF FaceInv, TypeOK
<1>9. CASE Unlock
  <2>1. PitTypes'
    BY <1>9, FaceAssumption, Zenon DEF Unlock, OwnerName, runv, tickv, mixv, PitTypes,
        Waiting, RunTypes, Sent
  <2>2. RunTypes'
    <3>1. owner' = None /\ UNCHANGED <<cur, sent, todo, tpc, texp, tnew, mpc, recv, quit>>
      BY <1>9, Zenon DEF Unlock, tickv, mixv
    <3>2. (rpc' = "read" /\ rn' = None) \/ UNCHANGED <<rpc, rn>>
      BY <1>9, Zenon DEF Unlock, runv
    <3>3. /\ cur' \in Interests \cup {None} /\ todo' \subseteq Interests
          /\ sent' \in BOOLEAN
      BY <3>1 DEF RunTypes
    <3> QED BY <1>r, <3>1, <3>2, <3>3, SatisfyTypes, Zenon
  <2>3. Sent'
    <3>1. \A j \in Interests : Answered(j) <=> Answered(j)'
      BY <1>9, Zenon DEF Unlock, Held, Answered, PitTypes, RunTypes
    <3>2. cur = None /\ UNCHANGED <<sat, ts, cur, sent, tpc, texp>>
      BY <1>9, Zenon DEF Unlock, tickv
    <3>3. tpc \in {"gone", "write"} => Head(texp) \in Interests
      BY HeadFacts, Zenon
    <3> QED BY <3>1, <3>2, <3>3, Zenon DEF Sent, PitTypes
  <2>4. Held'
    BY <1>9, FaceAssumption, Zenon DEF Unlock, OwnerName, runv, tickv, mixv, Held,
        Sent, PitTypes, RunTypes, Waiting
  <2>5. Kept'
    <3>1. \A j \in Interests : Answered(j) <=> Answered(j)'
      BY <1>9, Zenon DEF Unlock, Held, Answered, PitTypes, RunTypes
    <3>2. cur = None /\ UNCHANGED <<sat, ts, cur, sent, tpc, texp>>
      BY <1>9, Zenon DEF Unlock, tickv
    <3> QED BY <3>1, <3>2, FaceAssumption, Zenon DEF Kept
  <2>6. Listed'
    <3>1. \A m : Pending(m)' = Pending(m)
      BY <1>9, Zenon DEF Unlock, Held, Pending, PitTypes, RunTypes
    <3>2. Pending(OwnerName) = {}
      BY <1>9, FaceAssumption, Zenon DEF Unlock, Held, Copied, Pending
    <3>3. \A m \in Names \ {OwnerName} : pilist'[m] = pilist[m]
      BY <1>9, Zenon DEF Unlock, PitTypes
    <3> QED BY <3>1, <3>2, <3>3, Zenon DEF Listed
  <2>7. Copied'
    BY <1>9, FaceAssumption DEF Unlock, OwnerName, runv, tickv, mixv, Copied,
        Pending, Held, PitTypes, RunTypes, Waiting
  <2> QED BY <2>1, <2>2, <2>3, <2>4, <2>5, <2>6, <2>7, Zenon DEF FaceInv, TypeOK
<1>10. CASE RunLock
  <2>1. PitTypes'
    BY <1>10, FaceAssumption, Zenon DEF RunLock, Lock, Pick, pit, tickv, mixv,
        PitTypes, Waiting, RunTypes, Sent
  <2>2. RunTypes'
    <3>1. rn \in Names /\ Lock("run", rn)
      BY <1>10, FaceAssumption, Zenon DEF RunLock, RunTypes
    <3>2. /\ owner = None /\ owner' = "run" /\ sent' = sent
          /\ cur' \in Interests \cup {None} /\ todo' \subseteq Interests
          /\ pilist[rn] \subseteq todo' \cup {cur'}
      BY <3>1, LockFacts, Zenon
    <3>3. rpc' = "satisfy" /\ UNCHANGED <<rn, tpc, texp, tnew, mpc, recv, quit>>
      BY <1>10, Zenon DEF RunLock, tickv, mixv
    <3>4. sent' \in BOOLEAN
      BY <3>2 DEF RunTypes
    <3> QED BY <1>r, <3>2, <3>3, <3>4, SatisfyTypes, Zenon
  <2>3. Sent'
    <3>1. rn \in Names /\ Lock("run", rn)
      BY <1>10, FaceAssumption, Zenon DEF RunLock, RunTypes
    <3>2. /\ owner = None /\ owner' = "run" /\ sent' = sent
          /\ cur' \in Interests \cup {None} /\ todo' \subseteq Interests
          /\ pilist[rn] \subseteq todo' \cup {cur'}
      BY <3>1, LockFacts, Zenon
    <3>3. \A j \in Interests : Answered(j) <=> Answered(j)'
      BY <1>10, Zenon DEF RunLock, Answered, PitTypes
    <3>4. ~sent
      BY <3>2, Zenon DEF Held, Sent
    <3>5. UNCHANGED <<sat, tpc, texp>>
      BY <1>10, Zenon DEF RunLock, pit, tickv
    <3>6. tpc \in {"gone", "write"} => Head(texp) \in Interests
      BY HeadFacts, Zenon
    <3> QED BY <3>2, <3>3, <3>4, <3>5, <3>6, Zenon DEF Sent, PitTypes
  <2>4. Held'
    <3>1. rn \in Names /\ Lock("run", rn)
      BY <1>10, FaceAssumption, Zenon DEF RunLock, RunTypes
    <3>2. owner' = "run" /\ (cur' = None => todo' = {})
      BY <3>1, LockFacts, Zenon
    <3> QED BY <1>10, <3>1, <3>2, FaceAssumption, Zenon
        DEF RunLock, pit, tickv, mixv, Held, PitTypes
  <2>5. Kept'
    <3>1. rn \in Names /\ Lock("run", rn)
      BY <1>10, FaceAssumption, Zenon DEF RunLock, RunTypes
    <3>2. /\ owner = None /\ owner' = "run" /\ sent' = sent
          /\ cur' \in Interests \cup {None} /\ todo' \subseteq Interests
          /\ pilist[rn] \subseteq todo' \cup {cur'}
      BY <3>1, LockFacts, Zenon
    <3>3. \A j \in Interests : Answered(j) <=> Answered(j)'
      BY <1>10, Zenon DEF RunLock, Answered, PitTypes
    <3>4. \A j \in Interests : ~Answered(j) => j \in Range(ts) \cup Range(texp)
      BY <3>2, FaceAssumption, Zenon DEF Held, Kept
    <3>5. UNCHANGED <<ts, texp>>
      BY <1>10, Zenon DEF RunLock, pit, tickv
    <3> QED BY <3>3, <3>4, <3>5, Zenon DEF Kept
  <2>6. Listed'
    BY <1>10, FaceAssumption, Zenon DEF RunLock, Lock, Pick, pit, tickv, mixv, Listed,
        Pending, PitTypes, Waiting
  <2>7. Copied'
    <3>1. rn \in Names /\ Lock("run", rn)
      BY <1>10, FaceAssumption, Zenon DEF RunLock, RunTypes
    <3>2. /\ owner = None /\ owner' = "run" /\ sent' = sent
          /\ cur' \in Interests \cup {None} /\ todo' \subseteq Interests
          /\ pilist[rn] \subseteq todo' \cup {cur'}
      BY <3>1, LockFacts, Zenon
    <3>3. \A m : Pending(m)' = Pending(m)
      BY <1>10, Zenon DEF RunLock, pit, Pending, PitTypes
    <3>4. OwnerName' = rn
      BY <1>10, <3>2, FaceAssumption, Zenon DEF RunLock, OwnerName
    <3>5. Pending(rn) \subseteq todo' \cup {cur'}
      BY <3>1, <3>2, Zenon DEF Listed
    <3>6. UNCHANGED <<tpc, texp, tnew>>
      BY <1>10, Zenon DEF RunLock, tickv
    <3> QED BY <3>3, <3>4, <3>5, <3>6, Zenon DEF Copied
  <2> QED BY <2>1, <2>2, <2>3, <2>4, <2>5, <2>6, <2>7, Zenon DEF FaceInv, TypeOK
<1>11. CASE SendRecv
  <2>1. PitTypes'
    BY <1>11, FaceAssumption, Zenon DEF SendRecv, pit, satv, tickv, PitTypes, Waiting,
        RunTypes, Sent
  <2>2. RunTypes'
    BY <1>11, FaceAssumption DEF SendRecv, pit, satv, tickv, RunTypes
  <2>3. Sent'
    BY <1>11, FaceAssumption, Zenon DEF SendRecv, pit, satv, tickv, Sent, Answered,
        PitTypes, RunTypes, Waiting
  <2>4. Held'
    BY <1>11, FaceAssumption, Zenon DEF SendRecv, pit, satv, tickv, Held, Sent,
        PitTypes, RunTypes, Waiting
  <2>5. Kept'
    BY <1>11, FaceAssumption, Zenon DEF SendRecv, pit, satv, tickv, Kept, Answered,
        PitTypes, RunTypes, Sent, Waiting
  <2>6. Listed'
    BY <1>11, FaceAssumption, Zenon DEF SendRecv, pit, satv, tickv, Listed, Pending,
        PitTypes, Waiting
  <2>7. Copied'
    BY <1>11, FaceAssumption, Zenon DEF SendRecv, pit, satv, tickv, Copied, Pending,
        OwnerName, Held, PitTypes, RunTypes, Waiting
  <2> QED BY <2>1, <2>2, <2>3, <2>4, <2>5, <2>6, <2>7, Zenon DEF FaceInv, TypeOK
<1>12. CASE ReadInterest
  <2>1. PitTypes'
    BY <1>12, FaceAssumption, Zenon DEF ReadInterest, pit, satv, tickv, mixv,
        PitTypes, Waiting, RunTypes, Sent
  <2>2. RunTypes'
    <3>1. /\ rpc' = "recv" /\ rn' = rn
          /\ UNCHANGED <<owner, cur, sent, todo, tpc, texp, tnew, mpc, recv, quit>>
      BY <1>12, Zenon DEF ReadInterest, satv, tickv, mixv
    <3> QED BY <1>12, <1>r, <3>1, ReaderTypes, Zenon
  <2>3. Sent'
    BY <1>12, FaceAssumption, Zenon DEF ReadInterest, pit, satv, tickv, mixv, Sent,
        Answered, PitTypes, RunTypes, Waiting
  <2>4. Held'
    BY <1>12, FaceAssumption, Zenon DEF ReadInterest, pit, satv, tickv, mixv, Held,
        Sent, PitTypes, RunTypes, Waiting
  <2>5. Kept'
    BY <1>12, FaceAssumption, Zenon DEF ReadInterest, pit, satv, tickv, mixv, Kept,
        Answered, PitTypes, RunTypes, Sent, Waiting
  <2>6. Listed'
    BY <1>12, FaceAssumption, Zenon DEF ReadInterest, pit, satv, tickv, mixv, Listed,
        Pending, PitTypes, Waiting
  <2>7. Copied'
    BY <1>12, FaceAssumption, Zenon DEF ReadInterest, pit, satv, tickv, mixv, Copied,
        Pending, OwnerName, Held, PitTypes, RunTypes, Waiting
  <2> QED BY <2>1, <2>2, <2>3, <2>4, <2>5, <2>6, <2>7, Zenon DEF FaceInv, TypeOK
<1>13. CASE RunEnds
  <2>1. PitTypes'
    BY <1>13, FaceAssumption, Zenon DEF RunEnds, pit, satv, tickv, mixv, PitTypes,
        Waiting, RunTypes, Sent
  <2>2. RunTypes'
    <3>1. /\ rpc' = "ended" /\ rn' = rn
          /\ UNCHANGED <<owner, cur, sent, todo, tpc, texp, tnew, mpc, recv, quit>>
      BY <1>13, Zenon DEF RunEnds, satv, tickv, mixv
    <3> QED BY <1>13, <1>r, <3>1, ReaderTypes, Zenon
  <2>3. Sent'
    BY <1>13, FaceAssumption, Zenon DEF RunEnds, pit, satv, tickv, mixv, Sent,
        Answered, PitTypes, RunTypes, Waiting
  <2>4. Held'
    BY <1>13, FaceAssumption, Zenon DEF RunEnds, pit, satv, tickv, mixv, Held, Sent,
        PitTypes, RunTypes, Waiting
  <2>5. Kept'
    BY <1>13, FaceAssumption, Zenon DEF RunEnds, pit, satv, tickv, mixv, Kept,
        Answered, PitTypes, RunTypes, Sent, Waiting
  <2>6. Listed'
    BY <1>13, FaceAssumption, Zenon DEF RunEnds, pit, satv, tickv, mixv, Listed,
        Pending, PitTypes, Waiting
  <2>7. Copied'
    BY <1>13, FaceAssumption, Zenon DEF RunEnds, pit, satv, tickv, mixv, Copied,
        Pending, OwnerName, Held, PitTypes, RunTypes, Waiting
  <2> QED BY <2>1, <2>2, <2>3, <2>4, <2>5, <2>6, <2>7, Zenon DEF FaceInv, TypeOK
<1>14. CASE TickTake
  <2>1. PitTypes'
    BY <1>14, FaceAssumption DEF TickTake, satv, runv, mixv, PitTypes, Waiting,
        RunTypes, Sent
  <2>2. RunTypes'
    <3>1. /\ Head(ts) \in Interests /\ Range(ts) = Range(Tail(ts)) \cup {Head(ts)}
          /\ Tail(ts) \in Seq(Interests)
      BY <1>14, TailFacts, Zenon DEF TickTake, PitTypes
    <3>2. /\ Append(texp, Head(ts)) \in Seq(Interests)
          /\ Range(Append(texp, Head(ts))) = Range(texp) \cup {Head(ts)}
      BY <3>1, AppendFacts DEF RunTypes
    <3>u. UNCHANGED <<owner, cur, sent, todo, rpc, rn, mpc, recv, quit>>
      BY <1>14, Zenon DEF TickTake, satv, runv, mixv
    <3>t. texp' \in Seq(Interests) /\ tnew' \subseteq Interests
      BY <1>14, <3>2, Zenon DEF TickTake, RunTypes
    <3>p. tpc' \in {"select", "check", "send", "gone", "write", "ended"}
      BY <1>14, Zenon DEF TickTake
    <3> QED BY <3>u, <3>t, <3>p, TickTypes, Zenon
  <2>3. Sent'
    BY <1>14, FaceAssumption, Zenon DEF TickTake, satv, runv, mixv, Sent, Answered,
        PitTypes, RunTypes, Waiting
  <2>4. Held'
    BY <1>14, FaceAssumption, Zenon DEF TickTake, satv, runv, mixv, Held, Sent,
        PitTypes, RunTypes, Waiting
  <2>5. Kept'
    <3>1. /\ Head(ts) \in Interests /\ Range(ts) = Range(Tail(ts)) \cup {Head(ts)}
          /\ Tail(ts) \in Seq(Interests)
      BY <1>14, TailFacts, Zenon DEF TickTake, PitTypes
    <3>2. /\ Append(texp, Head(ts)) \in Seq(Interests)
          /\ Range(Append(texp, Head(ts))) = Range(texp) \cup {Head(ts)}
      BY <3>1, AppendFacts DEF RunTypes
    <3>3. \A j \in Interests : Answered(j) <=> Answered(j)'
      BY <1>14, Zenon DEF TickTake, Answered
    <3>4. CASE Head(ts) \in sat
      <4>1. ts' = Tail(ts) /\ texp' = texp /\ Answered(Head(ts))
        BY <1>14, <3>4, Zenon DEF TickTake, Sent
      <4> QED BY <1>14, <3>1, <3>3, <4>1, Zenon DEF TickTake, satv, Kept
    <3>5. CASE Head(ts) \notin sat
      <4>1. ts' = Tail(ts) /\ Range(texp') = Range(texp) \cup {Head(ts)}
        BY <1>14, <3>2, <3>5, Zenon DEF TickTake
      <4> QED BY <1>14, <3>1, <3>3, <4>1, Zenon DEF TickTake, satv, Kept
    <3> QED BY <3>4, <3>5, Zenon
  <2>6. Listed'
    BY <1>14, FaceAssumption, Zenon DEF TickTake, satv, runv, mixv, Listed, Pending,
        PitTypes, Waiting
  <2>7. Copied'
    BY <1>14, FaceAssumption, Zenon DEF TickTake, satv, runv, mixv, Copied, Pending,
        OwnerName, Held, PitTypes, RunTypes, Waiting
  <2> QED BY <2>1, <2>2, <2>3, <2>4, <2>5, <2>6, <2>7, Zenon DEF FaceInv, TypeOK
<1>15. CASE TickStop
  <2>1. PitTypes'
    BY <1>15, FaceAssumption, Zenon DEF TickStop, TickNext, pit, satv, runv, mixv,
        PitTypes, Waiting, RunTypes, Sent
  <2>2. RunTypes'
    <3>u. UNCHANGED <<owner, cur, sent, todo, rpc, rn, mpc, recv, quit>>
      BY <1>15, Zenon DEF TickStop, satv, runv, mixv
    <3>t. texp' \in Seq(Interests) /\ tnew' \subseteq Interests
      BY <1>15, Zenon DEF TickStop, TickNext, RunTypes
    <3>p. tpc' \in {"select", "check", "send", "gone", "write", "ended"}
      BY <1>15, Zenon DEF TickStop, TickNext
    <3> QED BY <3>u, <3>t, <3>p, TickTypes, Zenon
  <2>3. Sent'
    BY <1>15, FaceAssumption, Zenon DEF TickStop, TickNext, pit, satv, runv, mixv,
        Sent, Answered, PitTypes, RunTypes, Waiting
  <2>4. Held'
    BY <1>15, FaceAssumption, Zenon DEF TickStop, TickNext, pit, satv, runv, mixv,
        Held, Sent, PitTypes, RunTypes, Waiting
  <2>5. Kept'
    BY <1>15, FaceAssumption, Zenon DEF TickStop, TickNext, pit, satv, runv, mixv,
        Kept, Answered, PitTypes, RunTypes, Sent, Waiting
  <2>6. Listed'
    BY <1>15, FaceAssumption, Zenon DEF TickStop, TickNext, pit, satv, runv, mixv,
        Listed, Pending, PitTypes, Waiting
  <2>7. Copied'
    BY <1>15, FaceAssumption, Zenon DEF TickStop, TickNext, pit, satv, runv, mixv,
        Copied, Pending, OwnerName, Held, PitTypes, RunTypes, Waiting
  <2> QED BY <2>1, <2>2, <2>3, <2>4, <2>5, <2>6, <2>7, Zenon DEF FaceInv, TypeOK
<1>16. CASE TickAnswer
  <2>1. PitTypes'
    BY <1>16, FaceAssumption, HeadFacts DEF TickAnswer, pit, satv, runv, mixv,
        PitTypes, Waiting, RunTypes, Sent
  <2>2. RunTypes'
    <3>u. UNCHANGED <<owner, cur, sent, todo, rpc, rn, mpc, recv, quit>>
      BY <1>16, Zenon DEF TickAnswer, satv, runv, mixv
    <3>t. texp' \in Seq(Interests) /\ tnew' \subseteq Interests
      BY <1>16, Zenon DEF TickAnswer, RunTypes
    <3>p. tpc' \in {"select", "check", "send", "gone", "write", "ended"}
      BY <1>16, Zenon DEF TickAnswer
    <3> QED BY <3>u, <3>t, <3>p, TickTypes, Zenon
  <2>3. Sent'
    BY <1>16, FaceAssumption, HeadFacts, Zenon DEF TickAnswer, pit, satv, runv, mixv,
        Sent, Answered, PitTypes, RunTypes, Waiting
  <2>4. Held'
    BY <1>16, FaceAssumption, HeadFacts, Zenon DEF TickAnswer, pit, satv, runv, mixv,
        Held, Sent, PitTypes, RunTypes, Waiting
  <2>5. Kept'
    BY <1>16, FaceAssumption, HeadFacts, Zenon DEF TickAnswer, pit, satv, runv, mixv,
        Kept, Answered, PitTypes, RunTypes, Sent, Waiting
  <2>6. Listed'
    BY <1>16, FaceAssumption, HeadFacts, Zenon DEF TickAnswer, pit, satv, runv, mixv,
        Listed, Pending, PitTypes, Waiting
  <2>7. Copied'
    BY <1>16, FaceAssumption, HeadFacts, Zenon DEF TickAnswer, pit, satv, runv, mixv,
        Copied, Pending, OwnerName, Held, PitTypes, RunTypes, Waiting
  <2> QED BY <2>1, <2>2, <2>3, <2>4, <2>5, <2>6, <2>7, Zenon DEF FaceInv, TypeOK
<1>17. CASE TickRead
  <2>1. PitTypes'
    BY <1>17, FaceAssumption, HeadFacts, Zenon DEF TickRead, satv, runv, mixv,
        PitTypes, Waiting, RunTypes, Sent
  <2>2. RunTypes'
    <3>1. NameOf[Head(texp)] \in Names
      BY <1>17, HeadFacts, FaceAssumption, Zenon DEF TickRead
    <3>2. tnew' \subseteq Interests
      BY <1>17, <3>1, Zenon DEF TickRead, PitTypes
    <3>u. UNCHANGED <<owner, cur, sent, todo, rpc, rn, mpc, recv, quit>>
      BY <1>17, Zenon DEF TickRead, satv, runv, mixv
    <3>t. texp' \in Seq(Interests) /\ tnew' \subseteq Interests
      BY <1>17, <3>2, Zenon DEF TickRead, RunTypes
    <3>p. tpc' \in {"select", "check", "send", "gone", "write", "ended"}
      BY <1>17, Zenon DEF TickRead
    <3> QED BY <3>u, <3>t, <3>p, TickTypes, Zenon
  <2>3. Sent'
    BY <1>17, FaceAssumption, HeadFacts, Zenon DEF TickRead, satv, runv, mixv, Sent,
        Answered, PitTypes, RunTypes, Waiting
  <2>4. Held'
    BY <1>17, FaceAssumption, HeadFacts, Zenon DEF TickRead, satv, runv, mixv, Held,
        Sent, PitTypes, RunTypes, Waiting
  <2>5. Kept'
    BY <1>17, FaceAssumption, HeadFacts, Zenon DEF TickRead, satv, runv, mixv, Kept,
        Answered, PitTypes, RunTypes, Sent, Waiting
  <2>6. Listed'
    BY <1>17, FaceAssumption, HeadFacts, Zenon DEF TickRead, satv, runv, mixv, Listed,
        Pending, PitTypes, Waiting
  <2>7. Copied'
    <3>1. Head(texp) \in Interests /\ NameOf[Head(texp)] \in Names
      BY <1>17, HeadFacts, FaceAssumption, Zenon DEF TickRead
    <3>2. \A m : Pending(m)' = Pending(m) \ {Head(texp)}
      BY <1>17, Zenon DEF TickRead, Pending
    <3>3. tnew' = pilist[NameOf[Head(texp)]] \ sat' /\ UNCHANGED <<texp, satv, runv>>
      BY <1>17, Zenon DEF TickRead
    <3>4. Pending(NameOf[Head(texp)])' \subseteq tnew'
      BY <3>1, <3>2, <3>3 DEF Listed, Pending
    <3> QED BY <3>2, <3>3, <3>4, Zenon DEF Copied, OwnerName, satv, runv
  <2> QED BY <2>1, <2>2, <2>3, <2>4, <2>5, <2>6, <2>7, Zenon DEF FaceInv, TypeOK
<1>18. CASE TickWrite
  <2>1. PitTypes'
    BY <1>18, FaceAssumption, HeadFacts, Zenon DEF TickWrite, TickNext, satv, runv,
        mixv, PitTypes, Waiting, RunTypes, Sent
  <2>2. RunTypes'
    <3>1. /\ Head(texp) \in Interests /\ Tail(texp) \in Seq(Interests)
          /\ Range(texp) = Range(Tail(texp)) \cup {Head(texp)}
      BY <1>18, HeadFacts, Zenon DEF TickWrite
    <3>u. UNCHANGED <<owner, cur, sent, todo, rpc, rn, mpc, recv, quit>>
      BY <1>18, Zenon DEF TickWrite, satv, runv, mixv
    <3>t. texp' \in Seq(Interests) /\ tnew' \subseteq Interests
      BY <1>18, <3>1, Zenon DEF TickWrite, TickNext, RunTypes
    <3>p. tpc' \in {"select", "check", "send", "gone", "write", "ended"}
      BY <1>18, Zenon DEF TickWrite, TickNext
    <3> QED BY <3>u, <3>t, <3>p, TickTypes, Zenon
  <2>3. Sent'
    BY <1>18, FaceAssumption, HeadFacts, Zenon DEF TickWrite, TickNext, satv, runv,
        mixv, Sent, Answered, PitTypes, RunTypes, Waiting
  <2>4. Held'
    BY <1>18, FaceAssumption, HeadFacts, Zenon DEF TickWrite, TickNext, satv, runv,
        mixv, Held, Sent, PitTypes, RunTypes, Waiting
  <2>5. Kept'
    <3>1. /\ Head(texp) \in Interests /\ Tail(texp) \in Seq(Interests)
          /\ Range(texp) = Range(Tail(texp)) \cup {Head(texp)}
      BY <1>18, HeadFacts, Zenon DEF TickWrite
    <3>2. \A j \in Interests : Answered(j) <=> Answered(j)'
      BY <1>18, Zenon DEF TickWrite, Answered
    <3>3. Answered(Head(texp)) /\ texp' = Tail(texp) /\ UNCHANGED <<ts, cur, sent>>
      BY <1>18, Zenon DEF TickWrite, TickNext, satv, Sent
    <3> QED BY <3>1, <3>2, <3>3, Zenon DEF Kept
  <2>6. Listed'
    <3>1. \A m : Pending(m)' = Pending(m)
      BY <1>18, Zenon DEF TickWrite, Pending
    <3>2. Pending(NameOf[Head(texp)]) \subseteq tnew
      BY <1>18, Zenon DEF TickWrite, Copied
    <3>3. \A m \in Names : pilist'[m] = IF m = NameOf[Head(texp)] THEN tnew ELSE pilist[m]
      BY <1>18, Zenon DEF TickWrite, PitTypes
    <3> QED BY <3>1, <3>2, <3>3, Zenon DEF Listed
  <2>7. Copied'
    BY <1>18, FaceAssumption, HeadFacts, Zenon DEF TickWrite, TickNext, satv, runv,
        mixv, Copied, Pending, OwnerName, Held, PitTypes, RunTypes, Waiting
  <2> QED BY <2>1, <2>2, <2>3, <2>4, <2>5, <2>6, <2>7, Zenon DEF FaceInv, TypeOK
<1>19. CASE TickEnds
  <2>1. PitTypes'
    BY <1>19, FaceAssumption, Zenon DEF TickEnds, pit, satv, runv, mixv, PitTypes,
        Waiting, RunTypes, Sent
  <2>2. RunTypes'
    <3>u. UNCHANGED <<owner, cur, sent, todo, rpc, rn, mpc, recv, quit>>
      BY <1>19, Zenon DEF TickEnds, satv, runv, mixv
    <3>t. texp' \in Seq(Interests) /\ tnew' \subseteq Interests
      BY <1>19, Zenon DEF TickEnds, RunTypes
    <3>p. tpc' \in {"select", "check", "send", "gone", "write", "ended"}
      BY <1>19, Zenon DEF TickEnds
    <3> QED BY <3>u, <3>t, <3>p, TickTypes, Zenon
  <2>3. Sent'
    BY <1>19, FaceAssumption, Zenon DEF TickEnds, pit, satv, runv, mixv, Sent,
        Answered, PitTypes, RunTypes, Waiting
  <2>4. Held'
    BY <1>19, FaceAssumption, Zenon DEF TickEnds, pit, satv, runv, mixv, Held, Sent,
        PitTypes, RunTypes, Waiting
  <2>5. Kept'
    BY <1>19, FaceAssumption, Zenon DEF TickEnds, pit, satv, runv, mixv, Kept,
        Answered, PitTypes, RunTypes, Sent, Waiting
  <2>6. Listed'
    BY <1>19, FaceAssumption, Zenon DEF TickEnds, pit, satv, runv, mixv, Listed,
        Pending, PitTypes, Waiting
  <2>7. Copied'
    BY <1>19, FaceAssumption, Zenon DEF TickEnds, pit, satv, runv, mixv, Copied,
        Pending, OwnerName, Held, PitTypes, RunTypes, Waiting
  <2> QED BY <2>1, <2>2, <2>3, <2>4, <2>5, <2>6, <2>7, Zenon DEF FaceInv, TypeOK
<1>20. CASE Handle
  <2>1. PitTypes'
    BY <1>20, FaceAssumption, Zenon DEF Handle, pit, satv, runv, tickv, PitTypes,
        Waiting, RunTypes, Sent
  <2>2. RunTypes'
    BY <1>20, FaceAssumption DEF Handle, pit, satv, runv, tickv, RunTypes
  <2>3. Sent'
    BY <1>20, FaceAssumption, Zenon DEF Handle, pit, satv, runv, tickv, Sent,
        Answered, PitTypes, RunTypes, Waiting
  <2>4. Held'
    BY <1>20, FaceAssumption, Zenon DEF Handle, pit, satv, runv, tickv, Held, Sent,
        PitTypes, RunTypes, Waiting
  <2>5. Kept'
    BY <1>20, FaceAssumption, Zenon DEF Handle, pit, satv, runv, tickv, Kept,
        Answered, PitTypes, RunTypes, Sent, Waiting
  <2>6. Listed'
    BY <1>20, FaceAssumption, Zenon DEF Handle, pit, satv, runv, tickv, Listed,
        Pending, PitTypes, Waiting
  <2>7. Copied'
    BY <1>20, FaceAssumption, Zenon DEF Handle, pit, satv, runv, tickv, Copied,
        Pending, OwnerName, Held, PitTypes, RunTypes, Waiting
  <2> QED BY <2>1, <2>2, <2>3, <2>4, <2>5, <2>6, <2>7, Zenon DEF FaceInv, TypeOK
<1>21. CASE CloseFace
  <2>1. PitTypes'
    BY <1>21, FaceAssumption, Zenon DEF CloseFace, pit, satv, runv, tickv, PitTypes,
        Waiting, RunTypes, Sent
  <2>2. RunTypes'
    <3>1. /\ mpc' = "close" /\ quit' \in BOOLEAN
          /\ UNCHANGED <<owner, cur, sent, todo, rpc, rn, tpc, texp, tnew, recv>>
      BY <1>21, Zenon DEF CloseFace, satv, runv, tickv
    <3> QED BY <3>1, MixerTypes, Zenon
  <2>3. Sent'
    BY <1>21, FaceAssumption, Zenon DEF CloseFace, pit, satv, runv, tickv, Sent,
        Answered, PitTypes, RunTypes, Waiting
  <2>4. Held'
    BY <1>21, FaceAssumption, Zenon DEF CloseFace, pit, satv, runv, tickv, Held, Sent,
        PitTypes, RunTypes, Waiting
  <2>5. Kept'
    BY <1>21, FaceAssumption, Zenon DEF CloseFace, pit, satv, runv, tickv, Kept,
        Answered, PitTypes, RunTypes, Sent, Waiting
  <2>6. Listed'
    BY <1>21, FaceAssumption, Zenon DEF CloseFace, pit, satv, runv, tickv, Listed,
        Pending, PitTypes, Waiting
  <2>7. Copied'
    BY <1>21, FaceAssumption, Zenon DEF CloseFace, pit, satv, runv, tickv, Copied,
        Pending, OwnerName, Held, PitTypes, RunTypes, Waiting
  <2> QED BY <2>1, <2>2, <2>3, <2>4, <2>5, <2>6, <2>7, Zenon DEF FaceInv, TypeOK
<1>22. CASE Closed
  <2>1. PitTypes'
    BY <1>22, FaceAssumption, Zenon DEF Closed, pit, satv, runv, tickv, PitTypes,
        Waiting, RunTypes, Sent
  <2>2. RunTypes'
    BY <1>22, FaceAssumption, Zenon DEF Closed, pit, satv, runv, tickv, RunTypes
  <2>3. Sent'
    BY <1>22, FaceAssumption, Zenon DEF Closed, pit, satv, runv, tickv, Sent,
        Answered, PitTypes, RunTypes, Waiting
  <2>4. Held'
    BY <1>22, FaceAssumption, Zenon DEF Closed, pit, satv, runv, tickv, Held, Sent,
        PitTypes, RunTypes, Waiting
  <2>5. Kept'
    BY <1>22, FaceAssumption, Zenon DEF Closed, pit, satv, runv, tickv, Kept,
        Answered, PitTypes, RunTypes, Sent, Waiting
  <2>6. Listed'
    BY <1>22, FaceAssumption, Zenon DEF Closed, pit, satv, runv, tickv, Listed,
        Pending, PitTypes, Waiting
  <2>7. Copied'
    BY <1>22, FaceAssumption, Zenon DEF Closed, pit, satv, runv, tickv, Copied,
        Pending, OwnerName, Held, PitTypes, RunTypes, Waiting
  <2> QED BY <2>1, <2>2, <2>3, <2>4, <2>5, <2>6, <2>7, Zenon DEF FaceInv, TypeOK
<1>23. CASE MixerEnds
  <2>1. PitTypes'
    BY <1>23, FaceAssumption, Zenon DEF MixerEnds, pit, satv, runv, tickv, PitTypes,
        Waiting, RunTypes, Sent
  <2>2. RunTypes'
    BY <1>23, FaceAssumption, Zenon DEF MixerEnds, pit, satv, runv, tickv, RunTypes
  <2>3. Sent'
    BY <1>23, FaceAssumption, Zenon DEF MixerEnds, pit, satv, runv, tickv, Sent,
        Answered, PitTypes, RunTypes, Waiting
  <2>4. Held'
    BY <1>23, FaceAssumption, Zenon DEF MixerEnds, pit, satv, runv, tickv, Held, Sent,
        PitTypes, RunTypes, Waiting
  <2>5. Kept'
    BY <1>23, FaceAssumption, Zenon DEF MixerEnds, pit, satv, runv, tickv, Kept,
        Answered, PitTypes, RunTypes, Sent, Waiting
  <2>6. Listed'
    BY <1>23, FaceAssumption, Zenon DEF MixerEnds, pit, satv, runv, tickv, Listed,
        Pending, PitTypes, Waiting
  <2>7. Copied'
    BY <1>23, FaceAssumption, Zenon DEF MixerEnds, pit, satv, runv, tickv, Copied,
        Pending, OwnerName, Held, PitTypes, RunTypes, Waiting
  <2> QED BY <2>1, <2>2, <2>3, <2>4, <2>5, <2>6, <2>7, Zenon DEF FaceInv, TypeOK
<1>24. CASE UNCHANGED vars
  <2>1. PitTypes'
    BY <1>24, Zenon DEF vars, pit, satv, runv, tickv, mixv, PitTypes
  <2>2. RunTypes'
    BY <1>24 DEF vars, pit, satv, runv, tickv, mixv, RunTypes
  <2>3. Sent'
    BY <1>24, Zenon DEF vars, pit, satv, runv, tickv, mixv, Sent, Answered
  <2>4. Held'
    BY <1>24, Zenon DEF vars, pit, satv, runv, tickv, mixv, Held
  <2>5. Kept'
    BY <1>24, Zenon DEF vars, pit, satv, runv, tickv, mixv, Kept, Answered
  <2>6. Listed'
    BY <1>24, Zenon DEF vars, pit, satv, runv, tickv, mixv, Listed, Pending
  <2>7. Copied'
    BY <1>24, Zenon DEF vars, pit, satv, runv, tickv, mixv, Copied, Pending, OwnerName
  <2> QED BY <2>1, <2>2, <2>3, <2>4, <2>5, <2>6, <2>7, Zenon DEF FaceInv, TypeOK
<1> QED BY <1>1, <1>2, <1>3, <1>4, <1>5, <1>6, <1>7, <1>8, <1>9, <1>10, <1>11,
    <1>12, <1>13, <1>14, <1>15, <1>16, <1>17, <1>18, <1>19, <1>20, <1>21,
    <1>22, <1>23, <1>24, Zenon DEF Next, Satisfy, RunStep, TickStep, MixerStep

\* FaceInv holds in every execution.
THEOREM FaceInvariance == Spec => []FaceInv
BY FaceInitInv, FaceStep, PTL DEF Spec

\* Whatever run, tickerloop and failing writes do to the pit, a consumer that
\* waits for an answer has one in its channel or is still going to get one.
THEOREM ConsumersAttended == Spec => []Attended
<1>1. FaceInv => Attended
  BY DEF FaceInv, TypeOK, PitTypes, Kept, Answered, Attended, Waiting
<1> QED BY <1>1, FaceInvariance, PTL

\* A pending Interest leaves the list of its name only when insert runs between
\* the two halves of refresh.
THEOREM InterestsListed == Spec => []PendingListed
<1>1. FaceInv => PendingListed
  BY FaceAssumption, Zenon DEF FaceInv, Listed, Pending, PendingListed, Waiting
<1> QED BY <1>1, FaceInvariance, PTL

-----------------------------------------------------------------------------
(* The ways to block: the safety part of AnswerComes and FaceCloses *)

\* Who can go on.
ConsumerCan(i) ==
  \/ st[i] \in Waiting /\ ch[i] > 0
  \/ st[i] = "failed" /\ owner = None

SatisfyCan ==
  \/ cur # None /\ ~sent /\ ch[cur] = 0
  \/ sent
  \/ owner # None /\ cur = None

RunCan ==
  \/ rpc = "lock" /\ owner = None
  \/ rpc = "recv" /\ recv < RecvCap
  \/ rpc = "read" /\ quit

TickCan ==
  \/ tpc \in {"check", "gone", "write"}
  \/ tpc = "select" /\ (ts # <<>> \/ quit)
  \/ tpc = "send" /\ ch[Head(texp)] = 0

CloseCan == mpc = "close" /\ rpc = "ended" /\ tpc = "ended"

FaceCan ==
  \/ SatisfyCan \/ RunCan \/ TickCan \/ CloseCan
  \/ \E i \in Interests : ConsumerCan(i)

\* Somebody waits for the face: Close, a consumer of an open face, a consumer
\* whose write has failed, or run on its way to satisfy.
Awaited ==
  \/ mpc = "close" \/ rpc \in {"lock", "satisfy"}
  \/ \E i \in Interests :
       st[i] \in {"failed", "answer"} \/ (st[i] \in Waiting /\ ~quit)

\* As long as somebody waits for the face, somebody can go on, save for a jam.
OnlyJams == Awaited => FaceCan \/ Jammed \/ RecvJam

\* A jam is never resolved.
JamsStay ==
  [][ (\A i \in Interests : Jam(i) => Jam(i)') /\ (RecvJam => RecvJam') ]_vars

\* Who is inside satisfy holds the mutex, and the expired ones are all done when
\* tickerloop is back in its select, which it leaves when the face is closed.
Inside ==
  /\ rpc = "satisfy" => owner = "run"
  /\ \A i \in Interests : st[i] = "answer" => owner = i
  /\ tpc = "select" => texp = <<>>
  /\ tpc = "ended" => quit
  /\ mpc = "close" => quit

LEMMA InsideStep == FaceInv /\ Inside /\ [Next]_vars => Inside'
<1> SUFFICES ASSUME PitTypes, RunTypes, Held, Inside, [Next]_vars
             PROVE  Inside'
  BY Zenon DEF FaceInv, TypeOK
<1> USE FaceAssumption
\* A consumer that neither enters nor leaves satisfy; ...
<1>a. ASSUME NEW i \in Interests, NEW s \in Waiting \cup {"gone", "failed"},
             st' = [st EXCEPT ![i] = s],
             UNCHANGED <<owner, rpc, tpc, texp, mpc, quit>>
      PROVE  Inside'
  <2>1. \A j \in Interests : st'[j] = "answer" => st[j] = "answer"
    BY <1>a, Zenon DEF PitTypes, Waiting
  <2> QED BY <1>a, <2>1, Zenon DEF Inside
\* ... satisfy at work; ...
<1>b. ASSUME UNCHANGED <<st, owner, rpc, tpc, texp, mpc, quit>> PROVE Inside'
  BY <1>b, Zenon DEF Inside
\* ... run, tickerloop and the mixer outside satisfy.
<1>c. ASSUME rpc' # "satisfy", UNCHANGED <<st, owner, tpc, texp, mpc, quit>>
      PROVE  Inside'
  BY <1>c, Zenon DEF Inside
<1>d. ASSUME tpc' = "select" => texp' = <<>>, tpc' = "ended" => quit,
             UNCHANGED <<st, owner, rpc, mpc, quit>>
      PROVE  Inside'
  BY <1>d, Zenon DEF Inside
<1>e. ASSUME mpc' = "close" => quit', quit => quit',
             UNCHANGED <<st, owner, rpc, tpc, texp>>
      PROVE  Inside'
  BY <1>e, Zenon DEF Inside
<1>1. ASSUME NEW i \in Interests, Send(i) \/ WriteFails(i) \/ Receive(i) \/ Abort(i)
      PROVE  Inside'
  <2>1. /\ \E s \in Waiting \cup {"gone", "failed"} : st' = [st EXCEPT ![i] = s]
        /\ UNCHANGED <<owner, rpc, tpc, texp, mpc, quit>>
    BY <1>1, Zenon DEF Send, WriteFails, Receive, Abort, satv, runv, tickv, mixv,
        Waiting
  <2> QED BY <1>a, <2>1, Zenon
<1>2. ASSUME NEW i \in Interests, FailLock(i) PROVE Inside'
  <2>1. /\ owner = None /\ owner' = i /\ st' = [st EXCEPT ![i] = "answer"]
        /\ UNCHANGED <<rpc, tpc, texp, mpc, quit>>
    BY <1>2, Zenon DEF FailLock, Lock, runv, tickv, mixv
  <2>2. \A j \in Interests : st'[j] = "answer" => j = i
    BY <2>1, Zenon DEF PitTypes, Inside
  <2>3. rpc # "satisfy"
    BY <2>1, Zenon DEF Inside
  <2> QED BY <2>1, <2>2, <2>3, Zenon DEF Inside
<1>3. ASSUME Unlock PROVE Inside'
  <2>1. owner # None /\ owner' = None /\ UNCHANGED <<tpc, texp, mpc, quit>>
    BY <1>3, Zenon DEF Unlock, tickv, mixv
  <2>2. rpc' # "satisfy"
    BY <1>3, Zenon DEF Unlock, Inside, runv
  <2>3. \A j \in Interests : st'[j] # "answer"
    <3>1. CASE owner = "run"
      BY <1>3, <3>1, Zenon DEF Unlock, Inside
    <3>2. CASE owner # "run"
      BY <1>3, <3>2, Zenon DEF Unlock, Inside, PitTypes, RunTypes
    <3> QED BY <3>1, <3>2, Zenon
  <2> QED BY <2>1, <2>2, <2>3, Zenon DEF Inside
<1>4. ASSUME RunLock PROVE Inside'
  <2>1. /\ owner = None /\ owner' = "run"
        /\ UNCHANGED <<st, tpc, texp, mpc, quit>>
    BY <1>4, Zenon DEF RunLock, Lock, tickv, mixv
  <2>2. \A j \in Interests : st[j] # "answer"
    BY <2>1, Zenon DEF Inside
  <2> QED BY <2>1, <2>2, Zenon DEF Inside
<1>5. ASSUME (\E n \in Names : ReadAnswer(n)) \/ ReadInterest \/ SendRecv \/ RunEnds
      PROVE  Inside'
  <2>1. rpc' # "satisfy" /\ UNCHANGED <<st, owner, tpc, texp, mpc, quit>>
    BY <1>5, Zenon DEF ReadAnswer, ReadInterest, SendRecv, RunEnds, satv, tickv, mixv
  <2> QED BY <1>c, <2>1, Zenon
<1>6. ASSUME TickTake \/ TickStep \/ TickEnds PROVE Inside'
  <2>1. UNCHANGED <<st, owner, rpc, mpc, quit>>
    BY <1>6, Zenon DEF TickTake, TickStep, TickStop, TickAnswer, TickRead, TickWrite,
        TickEnds, satv, runv, mixv
  <2>2. (tpc' = "select" => texp' = <<>>) /\ (tpc' = "ended" => quit)
    BY <1>6, Zenon DEF TickTake, TickStep, TickStop, TickAnswer, TickRead, TickWrite,
        TickEnds, TickNext
  <2> QED BY <1>d, <2>1, <2>2, Zenon
<1>7. ASSUME MixerStep PROVE Inside'
  <2>1. (mpc' = "close" => quit') /\ (quit => quit')
    BY <1>7, Zenon DEF MixerStep, Handle, CloseFace, Closed, MixerEnds, Inside
  <2>2. UNCHANGED <<st, owner, rpc, tpc, texp>>
    BY <1>7, Zenon DEF MixerStep, Handle, CloseFace, Closed, MixerEnds, satv, runv,
        tickv
  <2> QED BY <1>e, <2>1, <2>2, Zenon
<1>8. ASSUME Answer \/ Gone \/ UNCHANGED vars PROVE Inside'
  BY <1>b, <1>8, Zenon DEF Answer, Gone, vars, satv, runv, tickv, mixv
<1> QED BY <1>1, <1>2, <1>3, <1>4, <1>5, <1>6, <1>7, <1>8, Zenon
    DEF Next, Satisfy, RunStep

\* Whoever holds the mutex of the pit goes on, or what it answers is taken, or it
\* is jammed; ...
LEMMA SatisfyMoves ==
  ASSUME FaceInv, owner # None
  PROVE  FaceCan \/ Jammed
<1>1. cur \in Interests \cup {None} /\ sent \in BOOLEAN
  BY Zenon DEF FaceInv, TypeOK, RunTypes
<1>2. CASE cur = None \/ sent
  BY <1>2, Zenon DEF FaceCan, SatisfyCan
<1>3. CASE cur # None /\ ~sent
  <2>1. cur \in Interests
    BY <1>1, <1>3, Zenon
  <2>2. /\ ch[cur] \in 0..1
        /\ st[cur] \in Waiting \cup {"gone", "failed", "answer"}
    BY <2>1, Zenon DEF FaceInv, TypeOK, PitTypes
  <2>3. CASE ch[cur] = 0
    BY <1>3, <2>3, Zenon DEF FaceCan, SatisfyCan
  <2>4. CASE ch[cur] # 0
    <3>1. ch[cur] = 1 /\ ch[cur] > 0
      BY <2>2, <2>4
    <3>2. CASE st[cur] \in Waiting
      BY <2>1, <3>1, <3>2, Zenon DEF FaceCan, ConsumerCan
    <3>3. CASE st[cur] \in {"gone", "failed", "answer"}
      BY <1>3, <2>1, <3>1, <3>3, Zenon DEF Jammed, Jam, Sending
    <3> QED BY <2>2, <3>2, <3>3, Zenon
  <2> QED BY <2>3, <2>4, Zenon
<1> QED BY <1>2, <1>3, Zenon

\* ... so does tickerloop, as long as there is something for it to do.
LEMMA TickMoves ==
  ASSUME FaceInv, Inside, tpc # "ended", tpc = "select" => ts # <<>> \/ quit
  PROVE  FaceCan \/ Jammed
<1>1. tpc \in {"select", "check", "send", "gone", "write", "ended"}
  BY Zenon DEF FaceInv, TypeOK, RunTypes
<1>2. CASE tpc # "send"
  BY <1>1, <1>2, Zenon DEF FaceCan, TickCan
<1>3. CASE tpc = "send"
  <2> DEFINE i == Head(texp)
  <2>1. i \in Interests
    BY <1>3, HeadFacts, Zenon DEF FaceInv, TypeOK
  <2> HIDE DEF i
  <2>2. /\ ch[i] \in 0..1
        /\ st[i] \in Waiting \cup {"gone", "failed", "answer"}
    BY <2>1, Zenon DEF FaceInv, TypeOK, PitTypes
  <2>3. CASE ch[i] = 0
    BY <1>3, <2>3, Zenon DEF i, FaceCan, TickCan
  <2>4. CASE ch[i] # 0
    <3>1. ch[i] = 1 /\ ch[i] > 0
      BY <2>2, <2>4
    <3>2. CASE st[i] \in Waiting
      BY <2>1, <3>1, <3>2, Zenon DEF FaceCan, ConsumerCan
    <3>3. CASE st[i] = "gone"
      <4>1. Sending(i)
        BY <1>3, Zenon DEF i, Sending
      <4> QED BY <2>1, <3>1, <3>3, <4>1, Zenon DEF Jammed, Jam
    <3>4. CASE st[i] = "failed"
      <4>1. owner = None => ConsumerCan(i)
        BY <3>4, Zenon DEF ConsumerCan
      <4> QED BY <2>1, <4>1, SatisfyMoves, Zenon DEF FaceCan
    <3>5. CASE st[i] = "answer"
      <4>1. owner # None
        BY <2>1, <3>5, FaceAssumption, Zenon DEF Inside
      <4> QED BY <4>1, SatisfyMoves, Zenon
    <3> QED BY <2>2, <3>2, <3>3, <3>4, <3>5, Zenon
  <2> QED BY <2>3, <2>4, Zenon
<1> QED BY <1>2, <1>3, Zenon

LEMMA FaceMoves == FaceInv /\ Inside => OnlyJams
<1> SUFFICES ASSUME FaceInv, Inside, Awaited PROVE FaceCan \/ Jammed \/ RecvJam
  BY Zenon DEF OnlyJams
<1>1. CASE rpc \in {"lock", "satisfy"}
  <2>1. owner = None => RunCan
    BY <1>1, FaceAssumption, Zenon DEF RunCan, Inside
  <2> QED BY <2>1, SatisfyMoves, Zenon DEF FaceCan
<1>2. CASE mpc = "close" /\ rpc \notin {"lock", "satisfy"}
  <2>1. quit
    BY <1>2, Zenon DEF Inside
  <2>2. CASE tpc # "ended"
    BY <2>1, <2>2, TickMoves, Zenon
  <2>3. CASE tpc = "ended"
    <3>1. rpc \in {"read", "recv", "ended"} /\ recv \in 0..RecvCap
      BY <1>2, Zenon DEF FaceInv, TypeOK, RunTypes
    <3>2. recv < RecvCap \/ recv = RecvCap
      BY <3>1, FaceAssumption
    <3>3. CASE rpc = "read"
      BY <2>1, <3>3, Zenon DEF FaceCan, RunCan
    <3>4. CASE rpc = "recv"
      BY <1>2, <3>2, <3>4, Zenon DEF FaceCan, RunCan, RecvJam
    <3>5. CASE rpc = "ended"
      BY <1>2, <2>3, <3>5, Zenon DEF FaceCan, CloseCan
    <3> QED BY <3>1, <3>3, <3>4, <3>5, Zenon
  <2> QED BY <2>2, <2>3, Zenon
<1>3. ASSUME NEW i \in Interests, st[i] \in {"failed", "answer"}
      PROVE  FaceCan \/ Jammed
  <2>1. owner = None => ConsumerCan(i)
    BY <1>3, FaceAssumption, Zenon DEF ConsumerCan, Inside
  <2> QED BY <2>1, SatisfyMoves, Zenon DEF FaceCan
<1>4. ASSUME NEW i \in Interests, st[i] \in Waiting, ~quit
      PROVE  FaceCan \/ Jammed
  <2>1. ch[i] \in 0..1 /\ tpc # "ended"
    BY <1>4, Zenon DEF FaceInv, TypeOK, PitTypes, Inside
  <2>2. CASE ch[i] # 0
    <3>1. ch[i] > 0
      BY <2>1, <2>2
    <3> QED BY <1>4, <3>1, Zenon DEF FaceCan, ConsumerCan
  <2>3. CASE ch[i] = 0
    <3>1. ~Answered(i)
      BY <1>4, <2>3 DEF Answered, Waiting
    <3>2. i \in Range(ts) \/ i \in Range(texp) \/ cur = i
      BY <3>1, Zenon DEF FaceInv, Kept
    <3>3. Range(<<>>) = {}
      BY DEF Range
    <3>4. CASE i \in Range(ts)
      BY <2>1, <3>3, <3>4, TickMoves, Zenon
    <3>5. CASE i \in Range(texp)
      <4>1. tpc # "select"
        BY <3>3, <3>5, Zenon DEF Inside
      <4> QED BY <2>1, <4>1, TickMoves, Zenon
    <3>6. CASE cur = i
      <4>1. owner # None
        BY <3>6, FaceAssumption, Zenon DEF FaceInv, Held
      <4> QED BY <4>1, SatisfyMoves, Zenon
    <3> QED BY <3>2, <3>4, <3>5, <3>6, Zenon
  <2> QED BY <2>2, <2>3, Zenon
<1> QED BY <1>1, <1>2, <1>3, <1>4, Zenon DEF Awaited

\* What an Interest that is jammed is waiting for.
LEMMA JamFacts ==
  ASSUME FaceInv, NEW i \in Interests, Jam(i)
  PROVE  /\ ch[i] = 1 /\ st[i] \in {"gone", "failed", "answer"}
         /\ owner = None \/ cur = None \/ sent =>
              st[i] = "gone" /\ tpc = "send" /\ Head(texp) = i
         /\ tpc # "send" \/ Head(texp) # i => cur = i /\ ~sent
<1>1. owner = None => cur = None
  BY Zenon DEF FaceInv, Held
<1> QED BY <1>1, FaceAssumption, Zenon DEF Jam, Sending

\* No step of anybody ends a jam.
LEMMA JamStep ==
  ASSUME FaceInv, [Next]_vars, NEW i \in Interests, Jam(i)
  PROVE  Jam(i)'
<1>0. st[i] \notin Waiting /\ st[i] # "wait"
  BY JamFacts, Zenon DEF Waiting
\* The Interest is left alone, and so is the one who sends to it, ...
<1>a. ASSUME st'[i] = st[i], ch'[i] = ch[i], UNCHANGED <<cur, sent, tpc, texp>>
      PROVE  Jam(i)'
  BY <1>a, Zenon DEF Jam, Sending
\* ... which is tickerloop, ...
<1>b. ASSUME st[i] = "gone", tpc = "send", Head(texp) = i,
             st'[i] = st[i], ch'[i] = ch[i], UNCHANGED <<tpc, texp>>
      PROVE  Jam(i)'
  <2>1. ch'[i] = 1
    BY <1>b, JamFacts, Zenon
  <2> QED BY <1>b, <2>1, Zenon DEF Jam, Sending
\* ... or satisfy of the pit.
<1>c. ASSUME cur = i, ~sent, st' = st, ch'[i] = ch[i], UNCHANGED <<cur, sent>>
      PROVE  Jam(i)'
  <2>1. ch'[i] = 1 /\ st'[i] \in {"gone", "failed", "answer"}
    BY <1>c, JamFacts, Zenon
  <2> QED BY <1>c, <2>1, Zenon DEF Jam, Sending
<1>1. ASSUME NEW j \in Interests, Send(j) PROVE Jam(i)'
  <2>1. st[i] = "gone" /\ tpc = "send" /\ Head(texp) = i
    BY <1>1, JamFacts, Zenon DEF Send
  <2>2. i \in Range(texp)
    BY <2>1, HeadFacts, Zenon DEF FaceInv, TypeOK
  <2>3. j # i
    BY <1>1, <2>2, Zenon DEF Send, Free
  <2>4. st'[i] = st[i] /\ ch'[i] = ch[i] /\ UNCHANGED <<tpc, texp>>
    BY <1>1, <2>3, Zenon DEF Send, tickv, FaceInv, TypeOK, PitTypes
  <2> QED BY <1>b, <2>1, <2>4, Zenon
<1>2. ASSUME NEW j \in Interests, WriteFails(j) \/ Receive(j) \/ Abort(j)
      PROVE  Jam(i)'
  <2>1. j # i
    BY <1>0, <1>2, Zenon DEF WriteFails, Receive, Abort
  <2>2. /\ st'[i] = st[i] /\ ch'[i] = ch[i] /\ UNCHANGED <<cur, sent, tpc, texp>>
    BY <1>2, <2>1, Zenon DEF WriteFails, Receive, Abort, satv, tickv, FaceInv, TypeOK,
        PitTypes
  <2> QED BY <1>a, <2>2, Zenon
<1>3. ASSUME NEW j \in Interests, FailLock(j) PROVE Jam(i)'
  <2>1. owner = None /\ st[j] = "failed"
    BY <1>3, Zenon DEF FailLock, Lock
  <2>2. st[i] = "gone" /\ tpc = "send" /\ Head(texp) = i
    BY <2>1, JamFacts, Zenon
  <2>3. j # i
    BY <2>1, <2>2, Zenon
  <2>4. st'[i] = st[i] /\ ch'[i] = ch[i] /\ UNCHANGED <<tpc, texp>>
    BY <1>3, <2>3, Zenon DEF FailLock, tickv, FaceInv, TypeOK, PitTypes
  <2> QED BY <1>b, <2>2, <2>4, Zenon
<1>4. ASSUME Answer PROVE Jam(i)'
  <2>1. ch[i] = 1
    BY JamFacts, Zenon
  <2>2. cur # i
    BY <1>4, <2>1 DEF Answer
  <2>3. st[i] = "gone" /\ tpc = "send" /\ Head(texp) = i
    BY <2>2, Zenon DEF Jam, Sending
  <2>4. st'[i] = st[i] /\ ch'[i] = ch[i] /\ UNCHANGED <<tpc, texp>>
    BY <1>4, <2>2, Zenon DEF Answer, tickv, FaceInv, TypeOK, PitTypes
  <2> QED BY <1>b, <2>3, <2>4, Zenon
<1>5. ASSUME Gone \/ RunLock PROVE Jam(i)'
  <2>1. /\ sent \/ owner = None
        /\ UNCHANGED <<st, ch, tpc, texp>>
    BY <1>5, Zenon DEF Gone, RunLock, Lock, tickv
  <2>2. st[i] = "gone" /\ tpc = "send" /\ Head(texp) = i
    BY <2>1, JamFacts, Zenon
  <2> QED BY <1>b, <2>1, <2>2, Zenon
<1>6. ASSUME Unlock PROVE Jam(i)'
  <2>1. cur = None /\ owner # None /\ UNCHANGED <<ch, tpc, texp>>
    BY <1>6, Zenon DEF Unlock, tickv
  <2>2. st[i] = "gone" /\ tpc = "send" /\ Head(texp) = i
    BY <2>1, JamFacts, Zenon
  <2>3. owner # i
    BY <2>2, Zenon DEF FaceInv, Held
  <2>4. st'[i] = st[i]
    BY <1>6, <2>3, Zenon DEF Unlock, FaceInv, TypeOK, PitTypes
  <2> QED BY <1>b, <2>1, <2>2, <2>4, Zenon
<1>7. ASSUME TickTake \/ TickStop \/ TickRead \/ TickWrite \/ TickEnds PROVE Jam(i)'
  <2>1. tpc # "send" /\ UNCHANGED <<st, ch, cur, sent>>
    BY <1>7, Zenon DEF TickTake, TickStop, TickRead, TickWrite, TickEnds, satv
  <2>2. cur = i /\ ~sent
    BY <2>1, JamFacts, Zenon
  <2> QED BY <1>c, <2>1, <2>2, Zenon
<1>8. ASSUME TickAnswer PROVE Jam(i)'
  <2>1. ch[i] = 1
    BY JamFacts, Zenon
  <2>2. Head(texp) # i
    BY <1>8, <2>1 DEF TickAnswer
  <2>3. cur = i /\ ~sent
    BY <2>2, JamFacts, Zenon
  <2>4. st' = st /\ ch'[i] = ch[i] /\ UNCHANGED <<cur, sent>>
    BY <1>8, <2>2, Zenon DEF TickAnswer, satv, FaceInv, TypeOK, PitTypes
  <2> QED BY <1>c, <2>3, <2>4, Zenon
<1>9. ASSUME \/ \E n \in Names : ReadAnswer(n)
             \/ ReadInterest \/ SendRecv \/ RunEnds \/ MixerStep \/ UNCHANGED vars
      PROVE  Jam(i)'
  <2>1. UNCHANGED <<st, ch, cur, sent, tpc, texp>>
    BY <1>9, Zenon DEF ReadAnswer, ReadInterest, SendRecv, RunEnds, MixerStep, Handle,
        CloseFace, Closed, MixerEnds, vars, satv, tickv
  <2> QED BY <1>a, <2>1, Zenon
<1> QED BY <1>1, <1>2, <1>3, <1>4, <1>5, <1>6, <1>7, <1>8, <1>9, Zenon
    DEF Next, Satisfy, RunStep, TickStep

\* run, blocked on recv while the mixer is in Close, stays so.
LEMMA RecvJamStep ==
  ASSUME FaceInv, [Next]_vars, RecvJam
  PROVE  RecvJam'
<1>1. mpc = "close" /\ rpc = "recv" /\ recv = RecvCap
  BY Zenon DEF RecvJam
<1>2. ~(recv < RecvCap)
  BY <1>1, FaceAssumption
<1>3. owner # "run"
  BY <1>1, Zenon DEF FaceInv, Held
<1>4. ASSUME NEW i \in Interests,
             Send(i) \/ WriteFails(i) \/ Receive(i) \/ Abort(i) \/ FailLock(i)
      PROVE  UNCHANGED <<mpc, rpc, recv>>
  BY <1>4, Zenon DEF Send, WriteFails, Receive, Abort, FailLock, runv, mixv
<1>5. ASSUME Satisfy PROVE UNCHANGED <<mpc, rpc, recv>>
  BY <1>3, <1>5, Zenon DEF Satisfy, Answer, Gone, Unlock, runv, mixv
<1>6. ASSUME TickTake \/ TickStep \/ TickEnds PROVE UNCHANGED <<mpc, rpc, recv>>
  BY <1>6, Zenon DEF TickTake, TickStep, TickStop, TickAnswer, TickRead, TickWrite,
      TickEnds, runv, mixv
<1>7. ~RunStep /\ ~ReadInterest /\ ~RunEnds /\ \A n \in Names : ~ReadAnswer(n)
  BY <1>1, <1>2, Zenon DEF RunStep, RunLock, SendRecv, ReadInterest, RunEnds, ReadAnswer
<1>8. ~MixerStep
  BY <1>1, Zenon DEF MixerStep, Handle, CloseFace, Closed, MixerEnds
<1>9. UNCHANGED <<mpc, rpc, recv>>
  BY <1>4, <1>5, <1>6, <1>7, <1>8, Zenon DEF Next, vars, runv, mixv
<1> QED BY <1>1, <1>9, Zenon DEF RecvJam

\* A consumer that waits, a write that failed and Close of the face (face.go,
\* pit.go, mixer.go) never wait on each other but in two ways: an answer is sent
\* to a full channel nobody will read, or run is blocked on recv, which the mixer
\* in Close does not read.
THEOREM FaceOnlyJams == Spec => []OnlyJams
<1>1. Init => Inside
  BY FaceAssumption, Zenon DEF Init, Inside
<1>2. FaceInv /\ Inside /\ [Next]_vars => Inside'
  BY InsideStep, Zenon
<1>3. FaceInv /\ Inside => OnlyJams
  BY FaceMoves, Zenon
<1> QED BY <1>1, <1>2, <1>3, FaceInvariance, PTL DEF Spec

\* Both are for ever: once somebody is jammed, no timeout, no packet and no Close
\* gets the face out of it.
THEOREM FaceJamsStay == Spec => JamsStay
<1>1. FaceInv /\ [Next]_vars =>
        [(\A i \in Interests : Jam(i) => Jam(i)') /\ (RecvJam => RecvJam')]_vars
  BY JamStep, RecvJamStep, Zenon
<1> QED BY <1>1, FaceInvariance, PTL DEF Spec, JamsStay
=============================================================================
