------------------------- MODULE FindAncestorProofs -------------------------
(***************************************************************************)
(* For chains of any length findAncestor returns a shared block, and for   *)
(* chains of up to 70214 blocks the highest one, in at most five rounds.   *)
(* The argument is the bracket: the lower end of the range is shared (or   *)
(* is block 1) and nothing above the upper end is.                         *)
(***************************************************************************)
EXTENDS FindAncestor, TLAPS

\* The indices of an answer, multiplied by the distance, without overflow.
LEMMA Products ==
  ASSUME NEW i \in 0..14, NEW q \in Nat
  PROVE  i * q \in 0..(14 * q)
<1>1. \/ i = 0 \/ i = 1 \/ i = 2 \/ i = 3 \/ i = 4 \/ i = 5 \/ i = 6 \/ i = 7
      \/ i = 8 \/ i = 9 \/ i = 10 \/ i = 11 \/ i = 12 \/ i = 13 \/ i = 14
  OBVIOUS
<1> QED
  BY <1>1

\* The spacing of the headers in a round that is not the last one: they lie in
\* the range, and the first is not its lower end.
LEMMA Spacing ==
  ASSUME TypeOK, st = "search", ~lastround
  PROVE  /\ step \in Nat /\ skip \in Nat /\ from \in Nat /\ count = 15
         /\ step <= skip + 1 /\ 15 * (skip + 1) <= total
         /\ from + 14 * step = end /\ start < from
         /\ local <= 70214 => step = skip + 1 /\ 14 * step < 65536
                              /\ total < 15 * step + 15
<1> DEFINE q == total \div 15
<1>1. total \in Nat /\ total > 15 /\ total <= local
  BY DEF TypeOK, total, lastround, MAX_HEADERS_COUNT
<1>2. q \in Nat /\ q >= 1 /\ 15 * q <= total /\ total < 15 * q + 15
  BY <1>1
<1> HIDE DEF q
<1>3. skip = (q - 1) % 65536
  BY DEF skip, q, MAX_HEADERS_COUNT, U16
<1>4. skip \in Nat /\ skip <= q - 1 /\ (local <= 70214 => skip = q - 1)
  BY <1>1, <1>2, <1>3 DEF TypeOK
<1>5. step = (skip + 1) % 65536
  BY DEF step, U16
<1>6. step \in Nat /\ step <= skip + 1 /\ (local <= 70214 => step = skip + 1)
  BY <1>1, <1>2, <1>4, <1>5 DEF TypeOK
<1>7. from = end - step * 14 /\ count = 15
  BY DEF from, count, MAX_HEADERS_COUNT
<1> QED
  BY <1>1, <1>2, <1>4, <1>6, <1>7 DEF TypeOK, total

\* The numbers of the headers of an answer: in the range, and in short chains
\* exactly one distance apart.
LEMMA Numbers ==
  ASSUME TypeOK, st = "search", NEW i \in Indices
  PROVE  /\ Number(i) \in Nat /\ start <= Number(i) /\ Number(i) <= end
         /\ i \in 0..14
         /\ lastround => Number(i) = start + i
         /\ ~lastround /\ local <= 70214 => Number(i) = from + i * step
<1>1. CASE lastround
  <2>1. /\ skip = 0 /\ step = 1 /\ from = start /\ count = total
        /\ total \in Nat /\ total <= 15
    BY <1>1 DEF skip, step, from, count, lastround, total, TypeOK, U16,
                MAX_HEADERS_COUNT
  <2>2. i \in 0..14 /\ i <= total - 1
    BY <2>1 DEF Indices
  <2>3. (i * step) % U16 = i
    BY <2>1, <2>2 DEF U16
  <2> QED
    BY <1>1, <2>1, <2>2, <2>3 DEF Number, total, TypeOK
<1>2. CASE ~lastround
  <2>1. i \in 0..14
    BY <1>2, Spacing DEF Indices
  <2>2. i * step \in 0..(14 * step)
    BY <1>2, <2>1, Spacing, Products
  <2>3. /\ (i * step) % 65536 \in 0..(i * step)
        /\ i * step < 65536 => (i * step) % 65536 = i * step
    <3> DEFINE x == i * step
    <3>1. x \in Nat
      BY <1>2, <2>2, Spacing
    <3> HIDE DEF x
    <3>2. x % 65536 \in 0..x /\ (x < 65536 => x % 65536 = x)
      BY <3>1
    <3> QED
      BY <3>2 DEF x
  <2> QED
    BY <1>2, <2>1, <2>2, <2>3, Spacing DEF Number, U16, TypeOK
<1> QED
  BY <1>1, <1>2

\* The search starts with the whole local chain.
LEMMA AncestorStart == Init => AncestorInv
  BY HeightsAssumption DEF Init, AncestorInv, TypeOK, Bracket, RangeSizes,
     AncestorIsShared, AncestorIsGreatest, FewRounds, Shared, total

\* A round without a common header: what is left is below the first header.
LEMMA NoneKnownStep ==
  ASSUME AncestorInv, NoneKnown
  PROVE  AncestorInv' /\ (st' = "search" => end' - start' < end - start)
<1> USE DEF AncestorInv
<1>1. st = "search" /\ UNCHANGED chains /\ rounds' = rounds + 1
  BY DEF NoneKnown, Found
<1>2. CASE lastround
  <2>1. st' = "found" /\ ancestor' = 0 /\ UNCHANGED <<start, end>>
    BY <1>2 DEF NoneKnown, Found
  <2>2. 0 \in Indices
    BY <1>1, <1>2 DEF Indices, count, total, TypeOK
  <2>3. fork < start
    BY <1>1, <1>2, <2>2, Numbers DEF NoneKnown, Known, TypeOK
  <2>4. Shared = 0
    BY <1>1, <2>3 DEF Bracket, Shared, TypeOK
  <2> QED
    BY <1>1, <2>1, <2>4 DEF TypeOK, Bracket, RangeSizes, AncestorIsShared,
       AncestorIsGreatest, FewRounds, Shared, chains
<1>3. CASE ~lastround
  <2>1. end' = from - 1 /\ UNCHANGED <<start, ancestor, st>>
    BY <1>3 DEF NoneKnown
  <2>2. 0 \in Indices
    BY <1>1, <1>3, Spacing DEF Indices
  <2>3. Number(0) = from
    BY <1>1, <1>3, Spacing DEF Number, U16
  <2>4. fork < from
    BY <1>1, <1>3, <2>2, <2>3, Spacing DEF NoneKnown, Known, TypeOK
  <2>5. start <= end' /\ end' < end /\ end' \in Nat
    BY <1>1, <1>3, <2>1, Spacing DEF TypeOK
  <2>6. TypeOK'
    BY <1>1, <2>1, <2>5 DEF TypeOK, chains
  <2>7. Bracket'
    BY <1>1, <2>1, <2>4, <2>5, <1>3, Spacing DEF Bracket, Shared, TypeOK, chains
  <2>8. ASSUME local <= 70214
        PROVE  /\ total \in Nat /\ total' \in Nat /\ total <= local /\ step \in Nat
               /\ total' = total - 1 - 14 * step
               /\ 15 * step <= total /\ total < 15 * step + 15
    BY <1>1, <1>3, <2>1, <2>8, Spacing DEF total, TypeOK
  <2>9. RangeSizes' /\ FewRounds'
    <3> SUFFICES ASSUME local <= 70214
                 PROVE  RangeSizes' /\ rounds' <= 5
      BY <1>1 DEF RangeSizes, FewRounds, chains
    <3>1. rounds \in 0..4 /\ ~(total <= 15) /\ local \in Nat
      BY <1>1, <1>3 DEF RangeSizes, TypeOK, lastround, MAX_HEADERS_COUNT
    <3>2. rounds = 0 \/ rounds = 1 \/ rounds = 2 \/ rounds = 3
      BY <1>1, <3>1 DEF RangeSizes
    <3> HIDE DEF AncestorInv
    <3>3. CASE rounds = 0
      BY <1>1, <2>8, <3>1, <3>3 DEF RangeSizes
    <3>4. CASE rounds # 0
      <4>1. RangeSizes
        BY DEF AncestorInv
      <4> QED
        BY <1>1, <2>8, <3>1, <3>2, <3>4, <4>1 DEF RangeSizes
    <3> QED
      BY <3>3, <3>4
  <2> QED
    BY <1>1, <2>1, <2>5, <2>6, <2>7, <2>9 DEF AncestorIsShared, AncestorIsGreatest, TypeOK
<1> QED
  BY <1>2, <1>3

\* A round with a common header: what is left reaches from it to the next one.
LEMMA SomeKnownStep ==
  ASSUME AncestorInv, SomeKnown
  PROVE  AncestorInv' /\ (st' = "search" => end' - start' < end - start)
<1> USE DEF AncestorInv
<1>1. st = "search" /\ UNCHANGED chains /\ rounds' = rounds + 1
  BY DEF SomeKnown, Found
<1>2. PICK i \in Indices :
        /\ Common(i)
        /\ IF lastround \/ Number(i) = end THEN Found(Number(i))
           ELSE /\ start' = Number(i)
                /\ end' = IF end > Number(i) + skip THEN Number(i) + skip ELSE end
                /\ UNCHANGED <<chains, ancestor, st>>
  BY DEF SomeKnown
<1>3. /\ Number(i) \in Nat /\ start <= Number(i) /\ Number(i) <= end
      /\ Number(i) <= fork /\ Number(i) <= Shared /\ i \in 0..14
  BY <1>1, <1>2, Numbers DEF Common, Known, Shared, TypeOK, Indices
<1>4. CASE lastround \/ Number(i) = end
  <2>1. st' = "found" /\ ancestor' = Number(i) /\ UNCHANGED <<start, end>>
    BY <1>2, <1>4 DEF Found
  <2>2. local <= 70214 => Number(i) = Shared
    <3>1. CASE Number(i) = end
      BY <1>1, <1>3, <3>1 DEF Bracket, Shared, TypeOK
    <3>2. CASE lastround /\ Number(i) # end
      <4>1. Number(i) = start + i
        BY <1>1, <3>2, Numbers
      <4>2. i + 1 \in Indices
        BY <1>1, <1>2, <1>3, <3>2, <4>1 DEF Indices, count, total, TypeOK
      <4>3. Number(i + 1) = Number(i) + 1 /\ ~Known(i + 1)
        BY <1>1, <1>2, <1>3, <3>2, <4>1, <4>2, Numbers DEF Common, TypeOK
      <4> QED
        BY <1>1, <1>3, <4>3 DEF Known, Shared, TypeOK
    <3> QED
      BY <1>4, <3>1, <3>2
  <2> QED
    BY <1>1, <1>3, <2>1, <2>2 DEF TypeOK, Bracket, RangeSizes, AncestorIsShared,
       AncestorIsGreatest, FewRounds, Shared, chains
<1>5. CASE ~lastround /\ Number(i) # end
  <2>1. /\ start' = Number(i)
        /\ end' = IF end > Number(i) + skip THEN Number(i) + skip ELSE end
        /\ UNCHANGED <<ancestor, st>>
    BY <1>2, <1>5
  <2>2. PICK e \in Nat :
          /\ end' = e /\ Number(i) <= e /\ e <= end /\ e - Number(i) <= skip
    BY <1>1, <1>3, <1>5, <2>1, Spacing DEF TypeOK
  <2>3. TypeOK'
    BY <1>1, <1>3, <2>1, <2>2 DEF TypeOK, chains
  <2>4. ASSUME local <= 70214 PROVE Shared <= end'
    <3>1. Number(i) = from + i * step
      BY <1>1, <1>5, <2>4, Numbers
    <3>2. i # 14
      BY <1>1, <1>5, <3>1, Spacing DEF TypeOK
    <3>3. i + 1 \in Indices /\ i + 1 > i
      BY <1>1, <1>3, <1>5, <3>2, Spacing DEF Indices
    <3>4. Number(i + 1) = from + (i + 1) * step
      BY <1>1, <1>5, <2>4, <3>3, Numbers
    <3>5. (i + 1) * step = i * step + step /\ i * step \in Nat
      BY <1>1, <1>3, <1>5, Spacing, Products
    <3>6. ~(Number(i + 1) <= fork)
      BY <1>2, <3>3 DEF Common, Known
    <3>7. Number(i + 1) = Number(i) + step /\ step = skip + 1
      BY <1>1, <1>5, <2>4, <3>1, <3>4, <3>5, Spacing
    <3> QED
      BY <1>1, <1>3, <1>5, <2>1, <2>4, <3>6, <3>7, Spacing DEF Bracket, Shared, TypeOK
  <2>5. Bracket'
    BY <1>1, <1>3, <2>1, <2>2, <2>4 DEF Bracket, Shared, TypeOK, chains
  <2>6. PICK t \in Nat : t = e - Number(i) + 1
    BY <1>3, <2>2
  <2>7. PICK u \in Nat : u = end - start + 1
    BY <1>1 DEF TypeOK
  <2>8. 15 * t <= u /\ u <= local /\ ~(u <= 15)
    <3>1. u <= local /\ ~(u <= 15)
      BY <1>1, <1>5, <2>7 DEF total, TypeOK, lastround, MAX_HEADERS_COUNT
    <3>2. skip \in Nat /\ 15 * (skip + 1) <= u
      BY <1>1, <1>5, <2>7, Spacing DEF total
    <3>3. t <= skip + 1
      BY <1>3, <2>2, <2>6, <3>2
    <3> QED
      BY <3>1, <3>2, <3>3
  <2>9. RangeSizes' /\ FewRounds'
    <3> SUFFICES ASSUME local <= 70214
                 PROVE  RangeSizes' /\ rounds' <= 5
      BY <1>1 DEF RangeSizes, FewRounds, chains
    <3>1. rounds \in 0..4 /\ local \in Nat /\ RangeSizes
      BY <1>1 DEF RangeSizes, TypeOK
    <3> HIDE DEF AncestorInv
    <3>2. /\ rounds = 1 => u <= 4694
          /\ rounds = 2 => u <= 326
          /\ rounds = 3 => u <= 35
          /\ rounds = 4 => u <= 15
      BY <1>1, <2>7, <3>1 DEF RangeSizes, total
    <3>3. /\ rounds' <= 4
          /\ rounds' = 1 => t <= 4694
          /\ rounds' = 2 => t <= 326
          /\ rounds' = 3 => t <= 35
          /\ rounds' = 4 => t <= 15
      BY <1>1, <2>8, <3>1, <3>2
    <3> QED
      BY <1>1, <2>1, <2>2, <2>6, <3>1, <3>3 DEF RangeSizes, total
  <2>10. end' - start' < end - start
    <3>1. t < u
      BY <2>8
    <3> QED
      BY <1>1, <1>3, <2>1, <2>2, <2>6, <2>7, <3>1 DEF TypeOK
  <2> QED
    BY <1>1, <2>1, <2>3, <2>5, <2>9, <2>10 DEF AncestorIsShared, AncestorIsGreatest
<1> QED
  BY <1>4, <1>5

\* Every round, and every failure, preserves AncestorInv.
LEMMA AncestorStep == AncestorInv /\ [Next]_vars => AncestorInv'
<1> SUFFICES ASSUME AncestorInv, [Next]_vars PROVE AncestorInv'
  OBVIOUS
<1>1. CASE NoneKnown
  BY <1>1, NoneKnownStep
<1>2. CASE SomeKnown
  BY <1>2, SomeKnownStep
<1>3. CASE Fail \/ UNCHANGED vars
  BY <1>3 DEF Fail, vars, chains, AncestorInv, TypeOK, Bracket, RangeSizes, total,
     AncestorIsShared, AncestorIsGreatest, FewRounds, Shared
<1> QED
  BY <1>1, <1>2, <1>3 DEF Next

\* AncestorInv holds in every reachable state.
THEOREM AncestorInvariance == Spec => []AncestorInv
<1> QED
  BY AncestorStart, AncestorStep, PTL DEF Spec

\* The block found (downloader.go:252,264) is on both chains, whatever their length.
THEOREM AncestorShared == Spec => []AncestorIsShared
<1>1. AncestorInv => AncestorIsShared
  BY DEF AncestorInv
<1> QED
  BY <1>1, AncestorInvariance, PTL

\* Up to 70214 blocks it is the highest shared block.
THEOREM AncestorGreatest == Spec => []AncestorIsGreatest
<1>1. AncestorInv => AncestorIsGreatest
  BY DEF AncestorInv
<1> QED
  BY <1>1, AncestorInvariance, PTL

\* Up to 70214 blocks the loop of findAncestor takes at most five answers.
THEOREM SearchIsFast == Spec => []FewRounds
<1>1. AncestorInv => FewRounds
  BY DEF AncestorInv
<1> QED
  BY <1>1, AncestorInvariance, PTL

\* The range of the loop shrinks in every round, so the search ends.
THEOREM SearchShrinks == Spec => RangeShrinks
<1>1. AncestorInv /\ [Next]_vars => [st' = "search" => end' - start' < end - start]_vars
  <2> SUFFICES ASSUME AncestorInv, Next
               PROVE  st' = "search" => end' - start' < end - start
    OBVIOUS
  <2> QED
    BY NoneKnownStep, SomeKnownStep DEF Next, Fail
<1> QED
  BY <1>1, AncestorInvariance, PTL DEF Spec, RangeShrinks
=============================================================================
