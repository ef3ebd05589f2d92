--------------------------- MODULE KadNodeProofs ---------------------------
(***************************************************************************)
(* Proofs about RoutingTable and KadNode, for any identities, boot nodes,  *)
(* workers and table sizes.  First the table: the two bucket operations    *)
(* preserve what makes a bucket well formed, hence TableInv.  Then the     *)
(* node: NodeInv is inductive, and what a step of the node does to the     *)
(* table comes from the lemmas about the bucket operations.                *)
(***************************************************************************)
EXTENDS KadNode, SequenceLemmas, TLAPS

(* The routing table *)

\* What TableInv says of the bucket with index i.
BucketOK(b, i) ==
  /\ b \in Bucket
  /\ Len(b.peers) <= BUCKETSIZE
  /\ Len(b.replacements) <= REPSIZE
  /\ b.replacements # <<>> => Len(b.peers) = BUCKETSIZE
  /\ IsInjective(b.peers)
  /\ IsInjective(b.replacements)
  /\ Range(b.peers) \cap Range(b.replacements) = {}
  /\ \A id \in Range(b.peers) \cup Range(b.replacements) : bucket(id) = i

\* rtable.bucket never indexes outside the array, whatever the distance.
LEMMA BucketIndex ==
  ASSUME NEW id \in Ids
  PROVE  bucket(id) \in 0 .. NUMBUCKETS - 1
BY TableAssumption DEF bucket, BUCKETMINDISTANCE

\* The elements of a list that loses its i-th element (the shift loops).
LEMMA RemoveIndexFacts ==
  ASSUME NEW S, NEW s \in Seq(S), NEW i \in 1 .. Len(s)
  PROVE  /\ RemoveIndex(s, i) \in Seq(S)
         /\ Len(RemoveIndex(s, i)) = Len(s) - 1
         /\ Range(RemoveIndex(s, i)) \subseteq Range(s)
         /\ Range(s) \subseteq Range(RemoveIndex(s, i)) \cup {s[i]}
         /\ IsInjective(s) => IsInjective(RemoveIndex(s, i))
         /\ IsInjective(s) => s[i] \notin Range(RemoveIndex(s, i))
<1> DEFINE t == RemoveIndex(s, i)
<1>1. Len(s) \in Nat /\ Len(s) - 1 \in Nat /\ DOMAIN s = 1 .. Len(s)
  OBVIOUS
<1>2. \A j \in 1 .. Len(s) : s[j] \in S
  OBVIOUS
<1>3. t \in [1 .. Len(s) - 1 -> S]
  BY <1>1, <1>2 DEF RemoveIndex
<1>5. \A j \in 1 .. Len(s) - 1 : t[j] = IF j < i THEN s[j] ELSE s[j + 1]
  BY DEF RemoveIndex
<1> HIDE DEF t
<1>4. t \in Seq(S) /\ Len(t) = Len(s) - 1 /\ DOMAIN t = 1 .. Len(s) - 1
  <2> DEFINE n == Len(s) - 1
  <2>1. n \in Nat /\ t \in [1 .. n -> S]
    BY <1>1, <1>3
  <2> HIDE DEF n
  <2>2. t \in Seq(S) /\ Len(t) = n /\ DOMAIN t = 1 .. n
    BY <2>1
  <2> QED BY <2>2 DEF n
<1>6. Range(t) \subseteq Range(s)
  <2> SUFFICES ASSUME NEW j \in DOMAIN t PROVE t[j] \in Range(s)
    BY DEF Range
  <2>1. t[j] = s[j] \/ t[j] = s[j + 1]
    BY <1>4, <1>5
  <2>2. j \in DOMAIN s /\ j + 1 \in DOMAIN s
    BY <1>1, <1>4
  <2> QED BY <2>1, <2>2 DEF Range
<1>7. ASSUME NEW x \in Range(s), x # s[i] PROVE x \in Range(t)
  <2>1. PICK j \in 1 .. Len(s) : x = s[j]
    BY <1>1, <1>7 DEF Range
  <2>2. CASE j < i
    BY <1>1, <1>4, <1>5, <2>1, <2>2 DEF Range
  <2>3. CASE j > i
    <3>1. j - 1 \in 1 .. Len(s) - 1 /\ t[j - 1] = s[j]
      BY <1>1, <1>5, <2>3
    <3> QED BY <3>1, <2>1, <1>4 DEF Range
  <2> QED BY <1>7, <2>1, <2>2, <2>3
<1>8. IsInjective(s) => IsInjective(t)
  <2> SUFFICES ASSUME IsInjective(s),
                      NEW j \in 1 .. Len(s) - 1, NEW k \in 1 .. Len(s) - 1,
                      t[j] = t[k]
               PROVE  j = k
    BY <1>4 DEF IsInjective
  <2> DEFINE old(m) == IF m < i THEN m ELSE m + 1
  <2>1. old(j) \in DOMAIN s /\ old(k) \in DOMAIN s
    BY <1>1
  <2>2. t[j] = s[old(j)] /\ t[k] = s[old(k)]
    BY <1>5
  <2>3. old(j) = old(k)
    BY <2>1, <2>2, Zenon DEF IsInjective
  <2> QED BY <2>3
<1>9. IsInjective(s) => s[i] \notin Range(t)
  BY <1>1, <1>4, <1>5 DEF IsInjective, Range
<1> QED BY <1>4, <1>6, <1>7, <1>8, <1>9 DEF t

\* IndexOf finds an element that is there.
LEMMA IndexOfFacts ==
  ASSUME NEW S, NEW s \in Seq(S), NEW id \in Range(s)
  PROVE  IndexOf(s, id) \in 1 .. Len(s) /\ s[IndexOf(s, id)] = id
BY DEF IndexOf, Range

\* bucket.add keeps a bucket well formed, never takes a peer out, and puts the
\* newcomer among the peers exactly when it reports so.
LEMMA AddFacts ==
  ASSUME NEW i, NEW b, BucketOK(b, i), NEW p \in Ids, bucket(p) = i
  PROVE  /\ BucketOK(add(b, p), i)
         /\ Range(b.peers) \subseteq Range(add(b, p).peers)
         /\ Added(b, p) => Range(add(b, p).peers) = Range(b.peers) \cup {p}
         /\ ~Added(b, p) => add(b, p).peers = b.peers
<1> USE DEF BucketOK, Bucket
<1>0. /\ b.peers \in Seq(Ids) /\ b.replacements \in Seq(Ids)
      /\ Len(b.peers) \in Nat /\ Len(b.replacements) \in Nat
      /\ b = [peers |-> b.peers, replacements |-> b.replacements]
      /\ BUCKETSIZE \in Nat /\ REPSIZE \in Nat \ {0}
  BY TableAssumption
<1>1. CASE p \in Range(b.peers)
  <2>1. add(b, p) = b /\ ~Added(b, p)
    BY <1>1 DEF add, Added
  <2> QED BY <2>1
<1>2. CASE p \notin Range(b.peers) /\ ~Full(b)
  <2>1. /\ add(b, p) = [peers |-> Append(b.peers, p),
                        replacements |-> b.replacements]
        /\ Added(b, p)
    BY <1>0, <1>2, Zenon DEF add, Added
  <2>2. b.replacements = <<>> /\ Len(b.peers) < BUCKETSIZE
    BY <1>0, <1>2 DEF Full
  <2>3. Range(b.replacements) = {}
    BY <2>2 DEF Range
  <2>4. /\ Append(b.peers, p) \in Seq(Ids)
        /\ Len(Append(b.peers, p)) = Len(b.peers) + 1
        /\ Range(Append(b.peers, p)) = Range(b.peers) \cup {p}
        /\ IsInjective(Append(b.peers, p))
    BY <1>0, <1>2, AppendFacts
  <2> QED BY <1>0, <2>1, <2>2, <2>3, <2>4
<1>3. CASE p \notin Range(b.peers) /\ Full(b) /\ p \in Range(b.replacements)
  <2>1. add(b, p) = b /\ ~Added(b, p)
    BY <1>3 DEF add, Added
  <2> QED BY <2>1
<1>4. CASE p \notin Range(b.peers) /\ Full(b) /\ p \notin Range(b.replacements)
  <2>1. Len(b.peers) = BUCKETSIZE /\ ~Added(b, p)
    BY <1>0, <1>4 DEF Full, Added
  <2>2. CASE Len(b.replacements) >= REPSIZE
    <3> DEFINE r == RemoveIndex(b.replacements, 1)
    <3>1. add(b, p) = [peers |-> b.peers, replacements |-> Append(r, p)]
      BY <1>0, <1>4, <2>2, Zenon DEF add
    <3>2. /\ r \in Seq(Ids) /\ Len(r) = Len(b.replacements) - 1
          /\ Range(r) \subseteq Range(b.replacements)
          /\ IsInjective(r)
      BY <1>0, <2>2, RemoveIndexFacts
    <3> HIDE DEF r
    <3>3. /\ Append(r, p) \in Seq(Ids)
          /\ Len(Append(r, p)) = Len(b.replacements)
          /\ Range(Append(r, p)) = Range(r) \cup {p}
          /\ IsInjective(Append(r, p))
      BY <1>0, <1>4, <3>2, AppendFacts
    <3> QED BY <1>0, <1>4, <2>1, <3>1, <3>2, <3>3
  <2>3. CASE ~(Len(b.replacements) >= REPSIZE)
    <3> DEFINE r == b.replacements
    <3>1. add(b, p) = [peers |-> b.peers, replacements |-> Append(r, p)]
      BY <1>0, <1>4, <2>3, Zenon DEF add
    <3>2. /\ Append(r, p) \in Seq(Ids)
          /\ Len(Append(r, p)) = Len(r) + 1
          /\ Range(Append(r, p)) = Range(r) \cup {p}
          /\ IsInjective(Append(r, p))
      BY <1>0, <1>4, AppendFacts
    <3> QED BY <1>0, <1>4, <2>1, <2>3, <3>1, <3>2
  <2> QED BY <2>2, <2>3
<1> QED BY <1>1, <1>2, <1>3, <1>4, Zenon

\* bucket.remove keeps a bucket well formed and takes out no peer but id.
LEMMA RemoveFacts ==
  ASSUME NEW i, NEW b, BucketOK(b, i), NEW id \in Ids
  PROVE  /\ BucketOK(remove(b, id), i)
         /\ Range(b.peers) \ {id} \subseteq Range(remove(b, id).peers)
         /\ id \notin Range(remove(b, id).peers)
<1> USE DEF BucketOK, Bucket
<1>0. /\ b.peers \in Seq(Ids) /\ b.replacements \in Seq(Ids)
      /\ Len(b.peers) \in Nat /\ Len(b.replacements) \in Nat
      /\ b = [peers |-> b.peers, replacements |-> b.replacements]
      /\ BUCKETSIZE \in Nat /\ REPSIZE \in Nat
  BY TableAssumption
<1> DEFINE rest == RemoveIndex(b.peers, IndexOf(b.peers, id))
           reps == RemoveIndex(b.replacements, 1)
<1>1. ASSUME id \in Range(b.peers)
      PROVE  /\ rest \in Seq(Ids) /\ Len(rest) = Len(b.peers) - 1
             /\ Range(rest) \subseteq Range(b.peers)
             /\ Range(b.peers) \subseteq Range(rest) \cup {id}
             /\ IsInjective(rest) /\ id \notin Range(rest)
  <2> DEFINE k == IndexOf(b.peers, id)
  <2>1. k \in 1 .. Len(b.peers) /\ b.peers[k] = id
    BY <1>0, <1>1, IndexOfFacts
  <2> HIDE DEF k
  <2>2. /\ RemoveIndex(b.peers, k) \in Seq(Ids)
        /\ Len(RemoveIndex(b.peers, k)) = Len(b.peers) - 1
        /\ Range(RemoveIndex(b.peers, k)) \subseteq Range(b.peers)
        /\ Range(b.peers) \subseteq Range(RemoveIndex(b.peers, k)) \cup {b.peers[k]}
        /\ IsInjective(RemoveIndex(b.peers, k))
        /\ b.peers[k] \notin Range(RemoveIndex(b.peers, k))
    BY <1>0, <2>1, RemoveIndexFacts, Zenon
  <2> QED BY <2>1, <2>2 DEF k
<1>2. ASSUME b.replacements # <<>>
      PROVE  /\ reps \in Seq(Ids) /\ Len(reps) = Len(b.replacements) - 1
             /\ Range(reps) \subseteq Range(b.replacements)
             /\ IsInjective(reps) /\ b.replacements[1] \notin Range(reps)
             /\ b.replacements[1] \in Range(b.replacements)
             /\ b.replacements[1] \in Ids
  <2>1. 1 \in 1 .. Len(b.replacements)
    BY <1>0, <1>2
  <2>2. b.replacements[1] \in Range(b.replacements) /\ b.replacements[1] \in Ids
    BY <1>0, <2>1 DEF Range
  <2> QED BY <1>0, <2>1, <2>2, RemoveIndexFacts
<1>3. CASE id \in Range(b.peers) /\ b.replacements # <<>>
  <2>1. remove(b, id) = [peers |-> Append(rest, b.replacements[1]),
                         replacements |-> reps]
    BY <1>3 DEF remove
  <2> HIDE DEF rest, reps
  <2>2. /\ Append(rest, b.replacements[1]) \in Seq(Ids)
        /\ Len(Append(rest, b.replacements[1])) = Len(b.peers)
        /\ Range(Append(rest, b.replacements[1]))
             = Range(rest) \cup {b.replacements[1]}
        /\ IsInjective(Append(rest, b.replacements[1]))
    BY <1>0, <1>1, <1>2, <1>3, AppendFacts
  <2> QED BY <1>0, <1>1, <1>2, <1>3, <2>1, <2>2
<1>4. CASE id \in Range(b.peers) /\ b.replacements = <<>>
  <2>1. remove(b, id) = [peers |-> rest, replacements |-> <<>>]
    BY <1>0, <1>4 DEF remove
  <2>2. Range(b.replacements) = {}
    BY <1>4 DEF Range
  <2> HIDE DEF rest, reps
  <2> QED BY <1>0, <1>1, <1>4, <2>1, <2>2
<1>5. CASE id \notin Range(b.peers) /\ id \in Range(b.replacements)
  <2> DEFINE r == RemoveIndex(b.replacements, IndexOf(b.replacements, id))
  <2>1. remove(b, id) = [peers |-> b.peers, replacements |-> r]
    BY <1>0, <1>5 DEF remove
  <2>2. /\ r \in Seq(Ids) /\ Len(r) = Len(b.replacements) - 1
        /\ Range(r) \subseteq Range(b.replacements)
        /\ IsInjective(r)
    BY <1>0, <1>5, IndexOfFacts, RemoveIndexFacts
  <2>3. b.replacements # <<>>
    BY <1>5 DEF Range
  <2> HIDE DEF r
  <2> QED BY <1>0, <1>5, <2>1, <2>2, <2>3
<1>6. CASE id \notin Range(b.peers) /\ id \notin Range(b.replacements)
  <2>1. remove(b, id) = b
    BY <1>6 DEF remove
  <2> QED BY <1>6, <2>1
<1> QED BY <1>3, <1>4, <1>5, <1>6, Zenon

\* TableInv says that every bucket is well formed and holds the local node.
LEMMA TableInvBuckets ==
  TableInv <=> /\ buckets \in [0 .. NUMBUCKETS - 1 -> Bucket]
               /\ \A i \in 0 .. NUMBUCKETS - 1 : BucketOK(buckets[i], i)
               /\ SelfInTable
BY Zenon DEF TableInv, TableTypeOK, ReplacementsOnlyWhenFull, NoDuplicates, BucketOK

\* newrtable builds a well formed table.
LEMMA TableInitInv == TableInit => TableInv
<1> SUFFICES ASSUME TableInit PROVE TableInv
  OBVIOUS
<1>1. bucket(Self) \in 0 .. NUMBUCKETS - 1
  BY TableAssumption, BucketIndex
<1>2. buckets \in [0 .. NUMBUCKETS - 1 -> Bucket]
  <2>1. <<Self>> \in Seq(Ids) /\ <<>> \in Seq(Ids)
    BY TableAssumption
  <2> QED BY <2>1, Zenon DEF TableInit, Bucket
<1>3. ASSUME NEW i \in 0 .. NUMBUCKETS - 1 PROVE BucketOK(buckets[i], i)
  <2>1. CASE i = bucket(Self)
    <3>1. buckets[i] = [peers |-> <<Self>>, replacements |-> <<>>]
      BY <2>1 DEF TableInit
    <3>2. Range(<<Self>>) = {Self} /\ Range(<<>>) = {}
      BY DEF Range
    <3>3. IsInjective(<<Self>>) /\ IsInjective(<<>>)
      BY DEF IsInjective
    <3> QED BY TableAssumption, <2>1, <3>1, <3>2, <3>3 DEF BucketOK, Bucket
  <2>2. CASE i # bucket(Self)
    <3>1. buckets[i] = [peers |-> <<>>, replacements |-> <<>>]
      BY <2>2 DEF TableInit
    <3>2. Range(<<>>) = {} /\ IsInjective(<<>>)
      BY DEF Range, IsInjective
    <3> QED BY TableAssumption, <3>1, <3>2 DEF BucketOK, Bucket
  <2> QED BY <2>1, <2>2
<1>4. SelfInTable
  <2>1. buckets[bucket(Self)].peers = <<Self>>
    BY <1>1 DEF TableInit
  <2> QED BY TableAssumption, <2>1 DEF SelfInTable, Peers, InBucket, Range
<1> QED BY <1>2, <1>3, <1>4, TableInvBuckets

\* rtable.seen keeps the table well formed and takes no peer out of it.
LEMMA SeenInv ==
  ASSUME TableInv, NEW p \in Ids, Seen(p)
  PROVE  /\ TableInv'
         /\ Peers' = IF Added(buckets[bucket(p)], p) THEN Peers \cup {p} ELSE Peers
<1> DEFINE k == bucket(p)  b == buckets[k]
<1>1. k \in 0 .. NUMBUCKETS - 1
  BY BucketIndex
<1>2. /\ buckets \in [0 .. NUMBUCKETS - 1 -> Bucket]
      /\ \A i \in 0 .. NUMBUCKETS - 1 : BucketOK(buckets[i], i)
      /\ SelfInTable
  BY TableInvBuckets
<1>3. /\ BucketOK(add(b, p), k)
      /\ Range(b.peers) \subseteq Range(add(b, p).peers)
      /\ Added(b, p) => Range(add(b, p).peers) = Range(b.peers) \cup {p}
      /\ ~Added(b, p) => add(b, p).peers = b.peers
  BY <1>1, <1>2, AddFacts
<1>4. buckets' = [buckets EXCEPT ![k] = add(b, p)]
  BY DEF Seen
<1> HIDE DEF k
<1>5. buckets' \in [0 .. NUMBUCKETS - 1 -> Bucket]
  BY <1>1, <1>2, <1>3, <1>4, Zenon DEF BucketOK
<1>6. /\ buckets'[k] = add(b, p)
      /\ \A i \in 0 .. NUMBUCKETS - 1 : i # k => buckets'[i] = buckets[i]
  BY <1>1, <1>2, <1>4
<1>7. \A i \in 0 .. NUMBUCKETS - 1 : BucketOK(buckets'[i], i)
  BY <1>2, <1>3, <1>6
<1>8. ASSUME NEW id \in Ids
      PROVE  InBucket(id)' <=> (InBucket(id) \/ (Added(b, p) /\ id = p))
  <2>1. bucket(id) \in 0 .. NUMBUCKETS - 1 /\ bucket(p) = k
    BY BucketIndex DEF k
  <2>2. CASE bucket(id) = k
    <3>1. buckets'[bucket(id)] = add(b, p) /\ buckets[bucket(id)] = b
      BY <1>6, <2>2, Zenon
    <3> HIDE DEF b
    <3>2. /\ InBucket(id)' <=> id \in Range(add(b, p).peers)
          /\ InBucket(id) <=> id \in Range(b.peers)
      BY <3>1 DEF InBucket
    <3>3. CASE Added(b, p)
      <4>1. id \in Range(add(b, p).peers) <=> id \in Range(b.peers) \/ id = p
        BY <1>3, <3>3, Zenon
      <4> QED BY <3>2, <3>3, <4>1, Zenon
    <3>4. CASE ~Added(b, p)
      BY <1>3, <3>2, <3>4, Zenon
    <3> QED BY <3>3, <3>4, Zenon
  <2>3. CASE bucket(id) # k
    BY <1>6, <2>1, <2>3 DEF InBucket
  <2> QED BY <2>2, <2>3
<1>9. Peers' = IF Added(b, p) THEN Peers \cup {p} ELSE Peers
  BY <1>8 DEF Peers
<1>10. SelfInTable'
  BY <1>2, <1>9 DEF SelfInTable
<1>11. TableInv'
  BY <1>5, <1>7, <1>10, Zenon DEF TableInv, TableTypeOK, ReplacementsOnlyWhenFull,
                           NoDuplicates, BucketOK
<1> QED BY <1>9, <1>11 DEF k

\* rtable.remove keeps the table well formed and takes out no peer but id.
LEMMA RemoveInv ==
  ASSUME TableInv, NEW id \in Ids \ {Self}, Remove(id)
  PROVE  TableInv' /\ Peers \ {id} \subseteq Peers' /\ id \notin Peers'
<1> DEFINE k == bucket(id)  b == buckets[k]
<1>1. k \in 0 .. NUMBUCKETS - 1
  BY BucketIndex
<1>2. /\ buckets \in [0 .. NUMBUCKETS - 1 -> Bucket]
      /\ \A i \in 0 .. NUMBUCKETS - 1 : BucketOK(buckets[i], i)
      /\ SelfInTable
  BY TableInvBuckets
<1>3. /\ BucketOK(remove(b, id), k)
      /\ Range(b.peers) \ {id} \subseteq Range(remove(b, id).peers)
      /\ id \notin Range(remove(b, id).peers)
  BY <1>1, <1>2, RemoveFacts
<1>4. buckets' = [buckets EXCEPT ![k] = remove(b, id)]
  BY DEF Remove
<1>5. buckets' \in [0 .. NUMBUCKETS - 1 -> Bucket]
  BY <1>1, <1>2, <1>3, <1>4, Zenon DEF BucketOK
<1>6. /\ buckets'[k] = remove(b, id)
      /\ \A i \in 0 .. NUMBUCKETS - 1 : i # k => buckets'[i] = buckets[i]
  BY <1>1, <1>2, <1>4
<1>7. \A i \in 0 .. NUMBUCKETS - 1 : BucketOK(buckets'[i], i)
  BY <1>2, <1>3, <1>6
<1>8. ASSUME NEW x \in Ids, x # id, InBucket(x) PROVE InBucket(x)'
  <2>1. bucket(x) \in 0 .. NUMBUCKETS - 1
    BY BucketIndex
  <2> QED BY <1>3, <1>6, <1>8, <2>1 DEF InBucket
<1>9. ~InBucket(id)'
  BY <1>3, <1>6 DEF InBucket
<1>10. Peers \ {id} \subseteq Peers' /\ id \notin Peers'
  BY <1>8, <1>9 DEF Peers
<1>11. SelfInTable'
  BY <1>2, <1>10 DEF SelfInTable
<1>12. TableInv'
  BY <1>5, <1>7, <1>11, Zenon DEF TableInv, TableTypeOK, ReplacementsOnlyWhenFull,
                           NoDuplicates, BucketOK
<1> QED BY <1>10, <1>12

\* The routing table of routingtable.go is well formed in every reachable
\* state: its lists stay within their bounds, replacements exist only behind
\* full buckets, and no identity is stored twice or in the wrong bucket.
THEOREM TableInvariance == TableSpec => []TableInv
<1>1. TableInit => TableInv
  BY TableInitInv
<1>2. TableInv /\ [TableNext]_buckets => TableInv'
  <2> SUFFICES ASSUME TableInv, [TableNext]_buckets PROVE TableInv'
    OBVIOUS
  <2>1. ASSUME NEW p \in Ids, Seen(p) PROVE TableInv'
    BY <2>1, SeenInv
  <2>2. ASSUME NEW id \in Ids \ {Self}, Remove(id) PROVE TableInv'
    BY <2>2, RemoveInv
  <2>3. CASE UNCHANGED buckets
    BY <2>3, Zenon DEF TableInv, TableTypeOK, ReplacementsOnlyWhenFull, NoDuplicates,
                SelfInTable, Peers, InBucket
  <2> QED BY <2>1, <2>2, <2>3 DEF TableNext
<1> QED BY <1>1, <1>2, PTL DEF TableSpec

\* bucket.add and bucket.remove keep the lists within BUCKETSIZE and REPSIZE.
THEOREM TableBounds == TableSpec => []TableTypeOK
BY TableInvariance, PTL DEF TableInv

\* A peer waits among the replacements only while its bucket is full.
THEOREM TableReplacements == TableSpec => []ReplacementsOnlyWhenFull
BY TableInvariance, PTL DEF TableInv

\* No identity is stored twice, or in a bucket where get does not look for it.
THEOREM TableUnique == TableSpec => []NoDuplicates
BY TableInvariance, PTL DEF TableInv

-----------------------------------------------------------------------------
(* The order of the peers, and who leaves a bucket *)

\* Of two elements of both lists, the one that is in front in the first list is
\* in front in the second.
Ordered(old, new) ==
  \A j, k \in DOMAIN old : \A m, n \in DOMAIN new :
    (j < k /\ old[j] = new[m] /\ old[k] = new[n]) => m < n

\* A list without duplicates has one order.
LEMMA SameOrder ==
  ASSUME NEW S, NEW s \in Seq(S), IsInjective(s)
  PROVE  Ordered(s, s)
BY DEF Ordered, IsInjective

\* The shift loop of bucket.remove keeps the order.
LEMMA RemoveIndexOrder ==
  ASSUME NEW S, NEW s \in Seq(S), NEW i \in 1 .. Len(s), IsInjective(s)
  PROVE  Ordered(s, RemoveIndex(s, i))
<1> DEFINE t == RemoveIndex(s, i)
           from(m) == IF m < i THEN m ELSE m + 1
<1>1. Len(s) \in Nat /\ DOMAIN s = 1 .. Len(s)
  OBVIOUS
<1>2. DOMAIN t = 1 .. Len(s) - 1
  BY DEF RemoveIndex
<1>3. \A m \in 1 .. Len(s) - 1 : t[m] = s[from(m)]
  BY DEF RemoveIndex
<1> HIDE DEF t
<1>4. ASSUME NEW j \in 1 .. Len(s), NEW k \in 1 .. Len(s),
             NEW m \in 1 .. Len(s) - 1, NEW n \in 1 .. Len(s) - 1,
             j < k, s[j] = t[m], s[k] = t[n]
      PROVE  m < n
  <2>1. from(m) \in 1 .. Len(s) /\ from(n) \in 1 .. Len(s)
    BY <1>1
  <2>2. s[j] = s[from(m)] /\ s[k] = s[from(n)]
    BY <1>3, <1>4
  <2>3. j = from(m) /\ k = from(n)
    BY <1>1, <2>1, <2>2 DEF IsInjective
  <2> QED BY <1>4, <2>3
<1> QED BY <1>1, <1>2, <1>4 DEF Ordered, t

\* A newcomer at the end does not change the order of the others.
LEMMA AppendOrder ==
  ASSUME NEW S, NEW s \in Seq(S), NEW t \in Seq(S), Ordered(s, t),
         NEW e \in S, e \notin Range(s)
  PROVE  Ordered(s, Append(t, e))
<1>1. /\ Len(t) \in Nat /\ DOMAIN t = 1 .. Len(t)
      /\ DOMAIN Append(t, e) = 1 .. Len(t) + 1
      /\ \A m \in 1 .. Len(t) : Append(t, e)[m] = t[m]
      /\ Append(t, e)[Len(t) + 1] = e
  OBVIOUS
<1>2. ASSUME NEW j \in DOMAIN s, NEW m \in 1 .. Len(t) + 1, s[j] = Append(t, e)[m]
      PROVE  m \in DOMAIN t /\ s[j] = t[m]
  <2>1. m # Len(t) + 1
    BY <1>1, <1>2 DEF Range
  <2>2. m \in 1 .. Len(t)
    BY <1>1, <2>1
  <2> QED BY <1>1, <1>2, <2>2
<1> QED BY <1>1, <1>2 DEF Ordered

\* bucket.add and bucket.remove keep the order of the peers that stay.
LEMMA AddOrder ==
  ASSUME NEW i, NEW b, BucketOK(b, i), NEW p \in Ids
  PROVE  Ordered(b.peers, add(b, p).peers)
<1>1. b.peers \in Seq(Ids) /\ IsInjective(b.peers)
  BY DEF BucketOK, Bucket
<1>2. Ordered(b.peers, b.peers)
  BY <1>1, SameOrder
<1>3. CASE p \notin Range(b.peers) /\ ~Full(b)
  <2>1. add(b, p).peers = Append(b.peers, p)
    BY <1>3 DEF add, BucketOK, Bucket
  <2> QED BY <1>1, <1>2, <1>3, <2>1, AppendOrder
<1>4. CASE p \in Range(b.peers) \/ Full(b)
  <2>1. add(b, p).peers = b.peers
    BY <1>4 DEF add, BucketOK, Bucket
  <2> QED BY <1>2, <2>1
<1> QED BY <1>3, <1>4

\* bucket.remove also has the first replacement take the free place at once.
LEMMA RemoveOrder ==
  ASSUME NEW i, NEW b, BucketOK(b, i), NEW id \in Ids
  PROVE  /\ Ordered(b.peers, remove(b, id).peers)
         /\ id \in Range(b.peers) =>
              Range(remove(b, id).replacements) \subseteq Range(b.replacements)
         /\ id \in Range(b.peers) /\ b.replacements # <<>> =>
              /\ Len(remove(b, id).peers) = Len(b.peers)
              /\ b.replacements[1] \in Range(remove(b, id).peers)
<1> DEFINE rest == RemoveIndex(b.peers, IndexOf(b.peers, id))
<1>1. /\ b.peers \in Seq(Ids) /\ IsInjective(b.peers)
      /\ b.replacements \in Seq(Ids)
      /\ Len(b.peers) \in Nat
      /\ Range(b.peers) \cap Range(b.replacements) = {}
  BY DEF BucketOK, Bucket
<1>2. ASSUME id \in Range(b.peers)
      PROVE  /\ rest \in Seq(Ids) /\ Len(rest) = Len(b.peers) - 1
             /\ Ordered(b.peers, rest)
  <2>1. IndexOf(b.peers, id) \in 1 .. Len(b.peers)
    BY <1>1, <1>2, IndexOfFacts
  <2> QED BY <1>1, <2>1, RemoveIndexFacts, RemoveIndexOrder
<1>3. CASE id \in Range(b.peers) /\ b.replacements # <<>>
  <2> DEFINE r == b.replacements[1]
  <2>1. 1 \in 1 .. Len(b.replacements) /\ r \in Ids /\ r \in Range(b.replacements)
    BY <1>1, <1>3 DEF Range
  <2>2. /\ remove(b, id).peers = Append(rest, r)
        /\ remove(b, id).replacements = RemoveIndex(b.replacements, 1)
    BY <1>3 DEF remove
  <2>3. Range(RemoveIndex(b.replacements, 1)) \subseteq Range(b.replacements)
    BY <1>1, <2>1, RemoveIndexFacts
  <2> HIDE DEF rest, r
  <2>4. r \notin Range(b.peers)
    BY <1>1, <2>1
  <2>5. Ordered(b.peers, Append(rest, r))
    BY <1>1, <1>2, <1>3, <2>1, <2>4, AppendOrder, Zenon
  <2>6. Len(Append(rest, r)) = Len(rest) + 1 /\ r \in Range(Append(rest, r))
    <3>1. rest \in Seq(Ids) /\ r \in Ids
      BY <1>2, <1>3, <2>1, Zenon
    <3>2. \A s \in Seq(Ids) : \A e \in Ids :
             Len(Append(s, e)) = Len(s) + 1 /\ e \in Range(Append(s, e))
      BY AppendFacts
    <3> QED BY <3>1, <3>2, Zenon
  <2>7. Len(Append(rest, r)) = Len(b.peers)
    BY <1>1, <1>2, <1>3, <2>6
  <2> QED BY <2>2, <2>3, <2>5, <2>6, <2>7 DEF r
<1>4. CASE id \in Range(b.peers) /\ b.replacements = <<>>
  <2>1. remove(b, id).peers = rest /\ remove(b, id).replacements = b.replacements
    BY <1>4 DEF remove, BucketOK, Bucket
  <2> QED BY <1>2, <1>4, <2>1, Zenon
<1>5. CASE id \notin Range(b.peers)
  <2>1. remove(b, id).peers = b.peers
    BY <1>5 DEF remove, BucketOK, Bucket
  <2> QED BY <1>1, <1>5, <2>1, SameOrder, Zenon
<1> QED BY <1>3, <1>4, <1>5, Zenon

\* One operation of the table changes one bucket, as add or remove says.
LEMMA OneBucket ==
  ASSUME TableInv, [TableNext]_buckets, NEW i \in 0 .. NUMBUCKETS - 1
  PROVE  \/ buckets'[i] = buckets[i]
         \/ \E p \in Ids : bucket(p) = i /\ buckets'[i] = add(buckets[i], p)
         \/ \E id \in Ids : buckets'[i] = remove(buckets[i], id)
<1>1. buckets \in [0 .. NUMBUCKETS - 1 -> Bucket]
  BY TableInvBuckets
<1>2. ASSUME NEW p \in Ids, Seen(p)
      PROVE  \/ buckets'[i] = buckets[i]
             \/ bucket(p) = i /\ buckets'[i] = add(buckets[i], p)
  BY <1>1, <1>2 DEF Seen
<1>3. ASSUME NEW id \in Ids, Remove(id)
      PROVE  buckets'[i] = buckets[i] \/ buckets'[i] = remove(buckets[i], id)
  BY <1>1, <1>3 DEF Remove
<1> QED BY <1>2, <1>3 DEF TableNext

\* The peer that bucket.add names for eviction is the oldest: no operation
\* changes the order of the peers that stay in a bucket.
THEOREM TableAgeOrder == TableSpec => AgeOrder
<1>1. TableInv /\ [TableNext]_buckets => AgeOrderStep
  <2> SUFFICES ASSUME TableInv, [TableNext]_buckets, NEW i \in 0 .. NUMBUCKETS - 1
               PROVE  Ordered(buckets[i].peers, buckets'[i].peers)
    BY TableInvBuckets DEF AgeOrderStep, Ordered
  <2>1. BucketOK(buckets[i], i)
    BY TableInvBuckets
  <2>2. CASE buckets'[i] = buckets[i]
    <3>1. buckets[i].peers \in Seq(Ids) /\ IsInjective(buckets[i].peers)
      BY <2>1 DEF BucketOK, Bucket
    <3> QED BY <2>2, <3>1, SameOrder
  <2>3. ASSUME NEW p \in Ids, buckets'[i] = add(buckets[i], p)
        PROVE  Ordered(buckets[i].peers, buckets'[i].peers)
    BY <2>1, <2>3, AddOrder
  <2>4. ASSUME NEW id \in Ids, buckets'[i] = remove(buckets[i], id)
        PROVE  Ordered(buckets[i].peers, buckets'[i].peers)
    BY <2>1, <2>4, RemoveOrder
  <2> QED BY <2>2, <2>3, <2>4, OneBucket
<1> QED BY <1>1, TableInvariance, PTL DEF TableSpec, AgeOrder

\* A peer leaves a bucket only by remove, alone, and the first replacement takes
\* its place in the same step; bucket.add displaces nobody.
THEOREM TableEviction == TableSpec => Eviction
<1> DEFINE Lost(i) == Range(buckets[i].peers) \ Range(buckets'[i].peers)
           Replaced(i) ==
             /\ \A x, y \in Lost(i) : x = y
             /\ Lost(i) # {} /\ buckets[i].replacements # <<>>
                  => /\ Len(buckets'[i].peers) = Len(buckets[i].peers)
                     /\ buckets[i].replacements[1] \in Range(buckets'[i].peers)
             /\ Lost(i) # {} => Range(buckets'[i].replacements)
                                  \subseteq Range(buckets[i].replacements)
<1>1. TableInv /\ [TableNext]_buckets => EvictionStep
  <2> SUFFICES ASSUME TableInv, [TableNext]_buckets, NEW i \in 0 .. NUMBUCKETS - 1
               PROVE  Replaced(i)
    BY TableInvBuckets, Zenon DEF EvictionStep
  <2>1. BucketOK(buckets[i], i)
    BY TableInvBuckets
  <2>2. CASE buckets'[i] = buckets[i]
    BY <2>2
  <2>3. ASSUME NEW p \in Ids, bucket(p) = i, buckets'[i] = add(buckets[i], p)
        PROVE  Replaced(i)
    <3>1. Lost(i) = {}
      BY <2>1, <2>3, AddFacts
    <3> QED BY <3>1
  <2>4. ASSUME NEW id \in Ids, buckets'[i] = remove(buckets[i], id)
        PROVE  Replaced(i)
    <3>1. Range(buckets[i].peers) \ {id} \subseteq Range(buckets'[i].peers)
      BY <2>1, <2>4, RemoveFacts
    <3>2. Lost(i) \subseteq {id} /\ (Lost(i) # {} => id \in Range(buckets[i].peers))
      BY <3>1
    <3> QED BY <2>1, <2>4, <3>2, RemoveOrder, Zenon
  <2> QED BY <2>2, <2>3, <2>4, OneBucket, Zenon
<1> QED BY <1>1, TableInvariance, PTL DEF TableSpec, Eviction

-----------------------------------------------------------------------------
(* The node *)

\* A step that leaves the buckets alone keeps the table.
LEMMA TableSame ==
  ASSUME TableInv, UNCHANGED buckets
  PROVE  TableInv' /\ Peers' = Peers
BY Zenon DEF TableInv, TableTypeOK, ReplacementsOnlyWhenFull, NoDuplicates, SelfInTable,
    Peers, InBucket

\* The oldest peer of a bucket, which rtable.seen has pinged, is an identity.
LEMMA FirstIsId ==
  ASSUME TableInv, NEW id \in Ids
  PROVE  First(buckets[bucket(id)], id) \subseteq Ids
<1>1. buckets[bucket(id)] \in Bucket
  BY BucketIndex, Zenon DEF TableInv, TableTypeOK
<1>2. BUCKETSIZE \in Nat \ {0}
  BY TableAssumption, Zenon
<1> QED BY <1>1, <1>2 DEF First, Full, Bucket

\* The node starts with an empty waiting list, no job and the table newrtable
\* makes.
LEMMA NodeInitInv == NodeInit => NodeInv
<1> SUFFICES ASSUME NodeInit PROVE NodeInv
  OBVIOUS
<1>1. TableInv
  BY TableInitInv, Zenon DEF NodeInit
<1>2. QueryTypes /\ JobTypes
  BY Zenon DEF NodeInit, QueryTypes, JobTypes
<1>3. MainTypes
  <2>1. <<>> \in Seq(Ids) /\ Len(<<>>) <= MaxSeen
    BY NodeAssumption
  <2> QED BY <2>1, Zenon DEF NodeInit, MainTypes
<1>4. Flags /\ NoLostWakeup /\ AskingHasJob /\ DeadIsOther /\ AnnouncedInTable
  BY Zenon DEF NodeInit, Flags, SeenUnlocked, NoLostWakeup, AskingHasJob, DeadIsOther,
      AnnouncedInTable
<1> QED BY <1>1, <1>2, <1>3, <1>4, Zenon DEF NodeInv, NodeTypeOK

\* A worker that moves on, with one job at most, keeps the pool well formed.
LEMMA WorkerMoves ==
  ASSUME JobTypes, NEW w \in Workers, NEW J \in SUBSET Jobs, \A i, j \in J : i = j,
         NEW pc \in {"idle", "rpc", "live", "dead", "first", "all"},
         slot' \subseteq slot, wpc' = [wpc EXCEPT ![w] = pc],
         wjob' = [wjob EXCEPT ![w] = J], wfirst' \in [Workers -> SUBSET Ids]
  PROVE  JobTypes'
<1>1. /\ wpc' \in [Workers -> {"idle", "rpc", "live", "dead", "first", "all"}]
      /\ wjob' \in [Workers -> SUBSET Jobs]
  BY Zenon DEF JobTypes
<1>2. wjob'[w] = J /\ \A v \in Workers : v # w => wjob'[v] = wjob[v]
  BY Zenon DEF JobTypes
<1>3. ASSUME NEW v \in Workers, NEW i \in wjob'[v], NEW j \in wjob'[v] PROVE i = j
  <2>1. CASE v = w
    BY <1>2, <2>1, Zenon
  <2>2. CASE v # w
    BY <1>2, <2>2, Zenon DEF JobTypes
  <2> QED BY <2>1, <2>2, Zenon
<1> QED BY <1>1, <1>3, Zenon DEF JobTypes

\* A worker that is not about to report a dead peer has none to report.
LEMMA WorkerNotDead ==
  ASSUME JobTypes, DeadIsOther, NEW w \in Workers, NEW J, NEW pc, pc # "dead",
         wpc' = [wpc EXCEPT ![w] = pc], wjob' = [wjob EXCEPT ![w] = J]
  PROVE  DeadIsOther'
<1>1. wpc'[w] = pc
  BY Zenon DEF JobTypes
<1>2. \A v \in Workers : v # w => wpc'[v] = wpc[v] /\ wjob'[v] = wjob[v]
  BY Zenon DEF JobTypes
<1> QED BY <1>1, <1>2, Zenon DEF DeadIsOther

\* Every step of the node keeps the invariant.
LEMMA NodeStep ==
  ASSUME NodeInv, [NodeNext]_nodeVars
  PROVE  NodeInv'
<1> USE DEF NodeInv, NodeTypeOK
<1>1. CASE LoopSignalled
  <2>1. QueryTypes'
    BY <1>1, NodeAssumption, Zenon DEF LoopSignalled, qvars, lvars, pvars, svars,
        mvars, QueryTypes, Unlocked, MainTypes, JobTypes
  <2>2. JobTypes'
    BY <1>1, NodeAssumption, Zenon DEF LoopSignalled, qvars, lvars, pvars, svars,
        mvars, JobTypes, Jobs
  <2>3. MainTypes'
    BY <1>1, NodeAssumption, Zenon DEF LoopSignalled, qvars, lvars, pvars, svars,
        mvars, MainTypes
  <2>4. Flags'
    BY <1>1, NodeAssumption, Zenon DEF LoopSignalled, qvars, lvars, pvars, svars,
        mvars, Flags, SeenUnlocked, QueryTypes, MainTypes
  <2>5. NoLostWakeup'
    BY <1>1, NodeAssumption, Zenon DEF LoopSignalled, qvars, lvars, pvars, svars,
        mvars, NoLostWakeup, Flags, SeenUnlocked, QueryTypes, MainTypes
  <2>6. AskingHasJob'
    BY <1>1, NodeAssumption, Zenon DEF LoopSignalled, qvars, lvars, pvars, svars,
        mvars, AskingHasJob, QueryTypes, JobTypes
  <2>7. DeadIsOther'
    BY <1>1, NodeAssumption, Zenon DEF LoopSignalled, qvars, lvars, pvars, svars,
        mvars, DeadIsOther, JobTypes
  <2>8. TableInv' /\ AnnouncedInTable'
    BY <1>1, TableSame, Zenon DEF LoopSignalled, AnnouncedInTable
  <2> QED BY <2>1, <2>2, <2>3, <2>4, <2>5, <2>6, <2>7, <2>8, Zenon DEF NodeInv,
      NodeTypeOK
<1>2. CASE LoopLock
  <2>1. QueryTypes'
    BY <1>2, NodeAssumption, Zenon DEF LoopLock, qvars, lvars, pvars, svars, mvars,
        QueryTypes, Unlocked, MainTypes, JobTypes
  <2>2. JobTypes'
    BY <1>2, NodeAssumption, Zenon DEF LoopLock, qvars, lvars, pvars, svars, mvars,
        JobTypes, Jobs
  <2>3. MainTypes'
    BY <1>2, NodeAssumption, Zenon DEF LoopLock, qvars, lvars, pvars, svars, mvars,
        MainTypes
  <2>4. Flags'
    BY <1>2, NodeAssumption, Zenon DEF LoopLock, qvars, lvars, pvars, svars, mvars,
        Flags, SeenUnlocked, QueryTypes, MainTypes
  <2>5. NoLostWakeup'
    BY <1>2, NodeAssumption, Zenon DEF LoopLock, qvars, lvars, pvars, svars, mvars,
        NoLostWakeup, Flags, SeenUnlocked, QueryTypes, MainTypes
  <2>6. AskingHasJob'
    BY <1>2, NodeAssumption, Zenon DEF LoopLock, qvars, lvars, pvars, svars, mvars,
        AskingHasJob, QueryTypes, JobTypes
  <2>7. DeadIsOther'
    BY <1>2, NodeAssumption, Zenon DEF LoopLock, qvars, lvars, pvars, svars, mvars,
        DeadIsOther, JobTypes
  <2>8. TableInv' /\ AnnouncedInTable'
    BY <1>2, TableSame, Zenon DEF LoopLock, AnnouncedInTable
  <2> QED BY <2>1, <2>2, <2>3, <2>4, <2>5, <2>6, <2>7, <2>8, Zenon DEF NodeInv,
      NodeTypeOK
<1>3. ASSUME NEW p \in Ids, LoopSubmit(p) PROVE NodeInv'
  <2>1. QueryTypes'
    BY <1>3, NodeAssumption, Zenon DEF LoopSubmit, qvars, lvars, pvars, svars,
        mvars, QueryTypes, Unlocked, MainTypes, JobTypes
  <2>2. JobTypes'
    <3>1. slot' = {[kind |-> "ping", p |-> p]} /\ UNCHANGED <<wpc, wjob, wfirst>>
      BY <1>3, Zenon DEF LoopSubmit
    <3>2. [kind |-> "ping", p |-> p] \in Jobs
      BY Zenon DEF Jobs
    <3> QED BY <3>1, <3>2, Zenon DEF JobTypes
  <2>3. MainTypes'
    BY <1>3, NodeAssumption, Zenon DEF LoopSubmit, qvars, lvars, pvars, svars,
        mvars, MainTypes
  <2>4. Flags'
    BY <1>3, NodeAssumption, Zenon DEF LoopSubmit, qvars, lvars, pvars, svars,
        mvars, Flags, SeenUnlocked, QueryTypes, MainTypes
  <2>5. NoLostWakeup'
    BY <1>3, NodeAssumption, Zenon DEF LoopSubmit, qvars, lvars, pvars, svars,
        mvars, NoLostWakeup, Flags, SeenUnlocked, QueryTypes, MainTypes
  <2>6. AskingHasJob'
    BY <1>3, NodeAssumption, Zenon DEF LoopSubmit, qvars, lvars, pvars, svars,
        mvars, AskingHasJob, QueryTypes, JobTypes
  <2>7. DeadIsOther'
    BY <1>3, NodeAssumption, Zenon DEF LoopSubmit, qvars, lvars, pvars, svars,
        mvars, DeadIsOther, JobTypes
  <2>8. TableInv' /\ AnnouncedInTable'
    BY <1>3, TableSame, Zenon DEF LoopSubmit, AnnouncedInTable
  <2> QED BY <2>1, <2>2, <2>3, <2>4, <2>5, <2>6, <2>7, <2>8, Zenon DEF NodeInv,
      NodeTypeOK
<1>4. CASE LoopEnd
  <2>1. QueryTypes'
    BY <1>4, NodeAssumption, Zenon DEF LoopEnd, qvars, lvars, pvars, svars, mvars,
        QueryTypes, Unlocked, MainTypes, JobTypes
  <2>2. JobTypes'
    BY <1>4, NodeAssumption, Zenon DEF LoopEnd, qvars, lvars, pvars, svars, mvars,
        JobTypes, Jobs
  <2>3. MainTypes'
    BY <1>4, NodeAssumption, Zenon DEF LoopEnd, qvars, lvars, pvars, svars, mvars,
        MainTypes
  <2>4. Flags'
    BY <1>4, NodeAssumption, Zenon DEF LoopEnd, qvars, lvars, pvars, svars, mvars,
        Flags, SeenUnlocked, QueryTypes, MainTypes
  <2>5. NoLostWakeup'
    BY <1>4, NodeAssumption, Zenon DEF LoopEnd, qvars, lvars, pvars, svars, mvars,
        NoLostWakeup, Flags, SeenUnlocked, QueryTypes, MainTypes
  <2>6. AskingHasJob'
    BY <1>4, NodeAssumption, Zenon DEF LoopEnd, qvars, lvars, pvars, svars, mvars,
        AskingHasJob, QueryTypes, JobTypes
  <2>7. DeadIsOther'
    BY <1>4, NodeAssumption, Zenon DEF LoopEnd, qvars, lvars, pvars, svars, mvars,
        DeadIsOther, JobTypes
  <2>8. TableInv' /\ AnnouncedInTable'
    BY <1>4, TableSame, Zenon DEF LoopEnd, AnnouncedInTable
  <2> QED BY <2>1, <2>2, <2>3, <2>4, <2>5, <2>6, <2>7, <2>8, Zenon DEF NodeInv,
      NodeTypeOK
<1>5. ASSUME NEW w \in Workers, TakeJob(w) PROVE NodeInv'
  <2>1. QueryTypes'
    BY <1>5, NodeAssumption, Zenon DEF TakeJob, qvars, lvars, pvars, svars, mvars,
        QueryTypes, Unlocked, MainTypes, JobTypes
  <2>2. JobTypes'
    <3>1. /\ wjob' = [wjob EXCEPT ![w] = slot] /\ slot' = {}
          /\ wpc' = [wpc EXCEPT ![w] = "rpc"] /\ wfirst' = wfirst
      BY <1>5, Zenon DEF TakeJob
    <3>2. /\ slot \subseteq Jobs /\ \A i, j \in slot : i = j
          /\ wfirst \in [Workers -> SUBSET Ids]
      BY Zenon DEF JobTypes
    <3> QED BY <3>1, <3>2, WorkerMoves, Zenon
  <2>3. MainTypes'
    BY <1>5, NodeAssumption, Zenon DEF TakeJob, qvars, lvars, pvars, svars, mvars,
        MainTypes
  <2>4. Flags'
    BY <1>5, NodeAssumption, Zenon DEF TakeJob, qvars, lvars, pvars, svars, mvars,
        Flags, SeenUnlocked, QueryTypes, MainTypes
  <2>5. NoLostWakeup'
    BY <1>5, NodeAssumption, Zenon DEF TakeJob, qvars, lvars, pvars, svars, mvars,
        NoLostWakeup, Flags, SeenUnlocked, QueryTypes, MainTypes
  <2>6. AskingHasJob'
    <3>1. askinglist' = askinglist /\ slot' = {}
      BY <1>5, Zenon DEF TakeJob, qvars
    <3>2. wpc'[w] = "rpc" /\ wjob'[w] = slot
      BY <1>5, Zenon DEF TakeJob, JobTypes
    <3>3. \A v \in Workers : wpc[v] = "rpc" => wpc'[v] = "rpc" /\ wjob'[v] = wjob[v]
      BY <1>5, Zenon DEF TakeJob, JobTypes
    <3> QED BY <3>1, <3>2, <3>3, Zenon DEF AskingHasJob
  <2>7. DeadIsOther'
    BY <1>5, WorkerNotDead, Zenon DEF TakeJob
  <2>8. TableInv' /\ AnnouncedInTable'
    BY <1>5, TableSame, Zenon DEF TakeJob, AnnouncedInTable
  <2> QED BY <2>1, <2>2, <2>3, <2>4, <2>5, <2>6, <2>7, <2>8, Zenon DEF NodeInv,
      NodeTypeOK
<1>6. ASSUME NEW w \in Workers, Replied(w) PROVE NodeInv'
  <2>1. QueryTypes'
    BY <1>6, NodeAssumption, Zenon DEF Replied, qvars, lvars, pvars, svars, mvars,
        QueryTypes, Unlocked, MainTypes, JobTypes
  <2>2. JobTypes'
    BY <1>6, NodeAssumption, Zenon DEF Replied, qvars, lvars, pvars, svars, mvars,
        JobTypes, Jobs
  <2>3. MainTypes'
    BY <1>6, NodeAssumption, Zenon DEF Replied, qvars, lvars, pvars, svars, mvars,
        MainTypes
  <2>4. Flags'
    BY <1>6, NodeAssumption, Zenon DEF Replied, qvars, lvars, pvars, svars, mvars,
        Flags, SeenUnlocked, QueryTypes, MainTypes
  <2>5. NoLostWakeup'
    BY <1>6, NodeAssumption, Zenon DEF Replied, qvars, lvars, pvars, svars, mvars,
        NoLostWakeup, Flags, SeenUnlocked, QueryTypes, MainTypes
  <2>6. AskingHasJob'
    <3>1. PICK j \in wjob[w] : askinglist' = askinglist \ {j.p}
      BY <1>6, Zenon DEF Replied
    <3>2. slot' = slot /\ wjob' = wjob
          /\ \A v \in Workers \ {w} : wpc[v] = "rpc" => wpc'[v] = "rpc"
      BY <1>6, Zenon DEF Replied, JobTypes
    <3>3. SUFFICES ASSUME NEW id \in askinglist'
                   PROVE  LET i == [kind |-> "ping", p |-> id] IN
                          i \in slot \/ \E v \in Workers : wpc'[v] = "rpc" /\ i \in wjob[v]
      BY <3>2, Zenon DEF AskingHasJob
    <3>4. id \in askinglist /\ id # j.p
      BY <3>1, Zenon
    <3>5. [kind |-> "ping", p |-> id] # j
      BY <3>4
    <3>6. [kind |-> "ping", p |-> id] \notin wjob[w]
      BY <3>1, <3>5 DEF JobTypes
    <3> QED BY <3>2, <3>4, <3>6, Zenon DEF AskingHasJob
  <2>7. DeadIsOther'
    BY <1>6, NodeAssumption DEF Replied, qvars, lvars, pvars, svars, mvars,
        DeadIsOther, JobTypes
  <2>8. TableInv' /\ AnnouncedInTable'
    BY <1>6, TableSame, Zenon DEF Replied, AnnouncedInTable
  <2> QED BY <2>1, <2>2, <2>3, <2>4, <2>5, <2>6, <2>7, <2>8, Zenon DEF NodeInv,
      NodeTypeOK
<1>7. ASSUME NEW w \in Workers, PeerLive(w) PROVE NodeInv'
  <2>1. QueryTypes'
    <3>1. PICK j \in wjob[w] : seen' = seen \cup {j.p}
      BY <1>7, Zenon DEF PeerLive
    <3>2. j.p \in Ids
      BY <3>1 DEF JobTypes, Jobs
    <3> QED BY <1>7, <3>1, <3>2, Zenon DEF PeerLive, qvars, lvars, QueryTypes, Unlocked
  <2>2. JobTypes'
    <3>1. PICK j \in wjob[w] :
            /\ wfirst' = [wfirst EXCEPT ![w] = First(buckets[bucket(j.p)], j.p)]
            /\ wpc' = [wpc EXCEPT ![w] = IF First(buckets[bucket(j.p)], j.p) # {}
                                          THEN "first" ELSE AfterReply(w)]
            /\ wjob' = [wjob EXCEPT ![w] = IF /\ First(buckets[bucket(j.p)], j.p) = {}
                                               /\ AfterReply(w) = "idle"
                                            THEN {} ELSE @]
      BY <1>7, Zenon DEF PeerLive
    <3>2. j.p \in Ids
      BY <3>1 DEF JobTypes, Jobs
    <3>3. First(buckets[bucket(j.p)], j.p) \subseteq Ids
      BY <3>2, FirstIsId, Zenon
    <3>4. AfterReply(w) \in {"idle", "all"} /\ slot' = slot
      BY <1>7, Zenon DEF AfterReply, PeerLive
    <3> QED BY <3>1, <3>3, <3>4, Zenon DEF JobTypes
  <2>3. MainTypes'
    <3>1. PICK j \in wjob[w] : announced' \in {announced, announced \cup {j.p}}
      BY <1>7, Zenon DEF PeerLive
    <3>2. j.p \in Ids
      BY <3>1 DEF JobTypes, Jobs
    <3> QED BY <1>7, <3>1, <3>2, Zenon DEF PeerLive, svars, mvars, MainTypes
  <2>4. Flags'
    BY <1>7, NodeAssumption, Zenon DEF PeerLive, AfterReply, First, qvars, lvars,
        pvars, svars, mvars, Flags, SeenUnlocked, QueryTypes, MainTypes
  <2>5. NoLostWakeup'
    BY <1>7, NodeAssumption, Zenon DEF PeerLive, AfterReply, First, qvars, lvars,
        pvars, svars, mvars, NoLostWakeup, Flags, SeenUnlocked, QueryTypes,
        MainTypes
  <2>6. AskingHasJob'
    <3>1. askinglist' = askinglist /\ slot' = slot
      BY <1>7, Zenon DEF PeerLive, qvars
    <3>2. \A v \in Workers : wpc[v] = "rpc" => wpc'[v] = "rpc" /\ wjob'[v] = wjob[v]
      BY <1>7, Zenon DEF PeerLive, JobTypes
    <3> QED BY <3>1, <3>2, Zenon DEF AskingHasJob
  <2>7. DeadIsOther'
    <3> DEFINE pc(j) == IF First(buckets[bucket(j.p)], j.p) # {} THEN "first"
                                                                 ELSE AfterReply(w)
               J(j) == IF /\ First(buckets[bucket(j.p)], j.p) = {}
                          /\ AfterReply(w) = "idle" THEN {} ELSE wjob[w]
    <3>1. PICK j \in wjob[w] : /\ wpc' = [wpc EXCEPT ![w] = pc(j)]
                               /\ wjob' = [wjob EXCEPT ![w] = J(j)]
      BY <1>7, Zenon DEF PeerLive
    <3>2. pc(j) # "dead"
      BY Zenon DEF AfterReply
    <3> HIDE DEF pc, J
    <3> QED BY <3>1, <3>2, WorkerNotDead, Zenon
  <2>8. TableInv' /\ AnnouncedInTable'
    <3>1. PICK j \in wjob[w] :
            /\ Seen(j.p)
            /\ announced' = IF Added(buckets[bucket(j.p)], j.p)
                              THEN announced \cup {j.p} ELSE announced
      BY <1>7, Zenon DEF PeerLive
    <3>2. j.p \in Ids
      BY <3>1 DEF JobTypes, Jobs
    <3> QED BY <3>1, <3>2, SeenInv, Zenon DEF AnnouncedInTable
  <2> QED BY <2>1, <2>2, <2>3, <2>4, <2>5, <2>6, <2>7, <2>8, Zenon DEF NodeInv,
      NodeTypeOK
<1>8. ASSUME NEW w \in Workers, PeerDead(w) PROVE NodeInv'
  <2>1. QueryTypes'
    BY <1>8, NodeAssumption, Zenon DEF PeerDead, qvars, lvars, pvars, svars, mvars,
        QueryTypes, Unlocked, MainTypes, JobTypes
  <2>2. JobTypes'
    <3>1. /\ wjob' = [wjob EXCEPT ![w] = {}] /\ slot' = slot
          /\ wpc' = [wpc EXCEPT ![w] = "idle"] /\ wfirst' = wfirst
      BY <1>8, Zenon DEF PeerDead
    <3>2. wfirst \in [Workers -> SUBSET Ids]
      BY Zenon DEF JobTypes
    <3> QED BY <3>1, <3>2, WorkerMoves, Zenon
  <2>3. MainTypes'
    BY <1>8, NodeAssumption, Zenon DEF PeerDead, qvars, lvars, pvars, svars, mvars,
        MainTypes
  <2>4. Flags'
    BY <1>8, NodeAssumption, Zenon DEF PeerDead, qvars, lvars, pvars, svars, mvars,
        Flags, SeenUnlocked, QueryTypes, MainTypes
  <2>5. NoLostWakeup'
    BY <1>8, NodeAssumption, Zenon DEF PeerDead, qvars, lvars, pvars, svars, mvars,
        NoLostWakeup, Flags, SeenUnlocked, QueryTypes, MainTypes
  <2>6. AskingHasJob'
    BY <1>8, NodeAssumption, Zenon DEF PeerDead, qvars, lvars, pvars, svars, mvars,
        AskingHasJob, QueryTypes, JobTypes
  <2>7. DeadIsOther'
    BY <1>8, WorkerNotDead, Zenon DEF PeerDead
  <2>8. TableInv' /\ AnnouncedInTable'
    <3>1. PICK j \in wjob[w] :
            /\ Remove(j.p)
            /\ announced' = IF InBucket(j.p) THEN announced \ {j.p} ELSE announced
      BY <1>8, Zenon DEF PeerDead
    <3>2. j.p \in Ids \ {Self}
      BY <1>8, <3>1 DEF JobTypes, Jobs, DeadIsOther, PeerDead
    <3>3. TableInv' /\ Peers \ {j.p} \subseteq Peers'
      BY <3>1, <3>2, RemoveInv, Zenon
    <3> QED BY <3>1, <3>3, Zenon DEF AnnouncedInTable, Peers
  <2> QED BY <2>1, <2>2, <2>3, <2>4, <2>5, <2>6, <2>7, <2>8, Zenon DEF NodeInv,
      NodeTypeOK
<1>9. ASSUME NEW w \in Workers, PingFirst(w) PROVE NodeInv'
  <2>1. QueryTypes'
    <3>1. PICK p \in wfirst[w] : pingpeer(p)
      BY <1>9, Zenon DEF PingFirst
    <3>2. p \in Ids
      BY <3>1, Zenon DEF JobTypes
    <3>3. UNCHANGED <<seen, lpc, todo>>
      BY <1>9, Zenon DEF PingFirst, lvars
    <3> QED BY <3>1, <3>2, <3>3, Zenon DEF pingpeer, qvars, QueryTypes, Unlocked
  <2>2. JobTypes'
    <3> DEFINE J == IF AfterReply(w) = "idle" THEN {} ELSE wjob[w]
    <3>1. /\ slot' = slot /\ wfirst' = [wfirst EXCEPT ![w] = {}]
          /\ wpc' = [wpc EXCEPT ![w] = AfterReply(w)]
          /\ wjob' = [wjob EXCEPT ![w] = J]
      BY <1>9, Zenon DEF PingFirst
    <3>2. AfterReply(w) \in {"idle", "rpc", "live", "dead", "first", "all"}
      BY Zenon DEF AfterReply
    <3>3. J \in SUBSET Jobs /\ (\A i, j \in J : i = j)
          /\ wfirst' \in [Workers -> SUBSET Ids]
      BY <3>1, Zenon DEF JobTypes
    <3> HIDE DEF J
    <3> QED BY <3>1, <3>2, <3>3, WorkerMoves, Zenon
  <2>3. MainTypes'
    BY <1>9, NodeAssumption, Zenon DEF PingFirst, pingpeer, AfterReply, qvars,
        lvars, pvars, svars, mvars, MainTypes
  <2>4. Flags'
    <3>1. \/ (pingsig' <=> pingsig) /\ (pingch' <=> pingch)
          \/ pingsig' /\ (pingch' <=> pingch \/ ~pingsig)
      BY <1>9, Zenon DEF PingFirst, pingpeer, qvars
    <3>2. lpc' = lpc /\ (seensig' <=> seensig) /\ (seench' <=> seench)
      BY <1>9, Zenon DEF PingFirst, lvars, svars
    <3>3. SeenUnlocked' <=> SeenUnlocked
      BY <1>9, Zenon DEF PingFirst, mvars, SeenUnlocked
    <3> QED BY <3>1, <3>2, <3>3, Zenon DEF Flags
  <2>5. NoLostWakeup'
    <3>1. \/ pingch' = pingch /\ waitinglist' = waitinglist
          \/ pingch' = (pingch \/ ~pingsig)
      BY <1>9, Zenon DEF PingFirst, pingpeer, qvars
    <3>2. lpc' = lpc /\ seenlist' = seenlist /\ seench' = seench
      BY <1>9, Zenon DEF PingFirst, lvars, svars
    <3>3. SeenUnlocked' <=> SeenUnlocked
      BY <1>9, Zenon DEF PingFirst, mvars, SeenUnlocked
    <3> QED BY <3>1, <3>2, <3>3, Zenon DEF NoLostWakeup, Flags, QueryTypes
  <2>6. AskingHasJob'
    <3>1. askinglist' = askinglist /\ slot' = slot
      BY <1>9, Zenon DEF PingFirst, pingpeer, qvars
    <3>2. \A v \in Workers : wpc[v] = "rpc" => wpc'[v] = "rpc" /\ wjob'[v] = wjob[v]
      BY <1>9, Zenon DEF PingFirst, JobTypes
    <3> QED BY <3>1, <3>2, Zenon DEF AskingHasJob
  <2>7. DeadIsOther'
    <3>1. wpc'[w] = AfterReply(w) /\ AfterReply(w) # "dead"
      BY <1>9, Zenon DEF PingFirst, AfterReply, JobTypes
    <3>2. \A v \in Workers : v # w => wpc'[v] = wpc[v] /\ wjob'[v] = wjob[v]
      BY <1>9, Zenon DEF PingFirst, JobTypes
    <3> QED BY <3>1, <3>2, Zenon DEF DeadIsOther
  <2>8. TableInv' /\ AnnouncedInTable'
    BY <1>9, TableSame, Zenon DEF PingFirst, AnnouncedInTable
  <2> QED BY <2>1, <2>2, <2>3, <2>4, <2>5, <2>6, <2>7, <2>8, Zenon DEF NodeInv,
      NodeTypeOK
<1>10. ASSUME NEW w \in Workers, PingAll(w) PROVE NodeInv'
  <2>1. QueryTypes'
    BY <1>10, NodeAssumption, Zenon DEF PingAll, pingpeers, qvars, lvars, pvars,
        svars, mvars, QueryTypes, Unlocked, MainTypes, JobTypes
  <2>2. JobTypes'
    <3>1. /\ wjob' = [wjob EXCEPT ![w] = {}] /\ slot' = slot
          /\ wpc' = [wpc EXCEPT ![w] = "idle"] /\ wfirst' = wfirst
      BY <1>10, Zenon DEF PingAll
    <3>2. wfirst \in [Workers -> SUBSET Ids]
      BY Zenon DEF JobTypes
    <3> QED BY <3>1, <3>2, WorkerMoves, Zenon
  <2>3. MainTypes'
    BY <1>10, NodeAssumption, Zenon DEF PingAll, pingpeers, qvars, lvars, pvars,
        svars, mvars, MainTypes
  <2>4. Flags'
    BY <1>10, NodeAssumption, Zenon DEF PingAll, pingpeers, qvars, lvars, pvars,
        svars, mvars, Flags, SeenUnlocked, QueryTypes, MainTypes
  <2>5. NoLostWakeup'
    BY <1>10, NodeAssumption, Zenon DEF PingAll, pingpeers, qvars, lvars, pvars,
        svars, mvars, NoLostWakeup, Flags, SeenUnlocked, QueryTypes, MainTypes
  <2>6. AskingHasJob'
    BY <1>10, NodeAssumption, Zenon DEF PingAll, pingpeers, qvars, lvars, pvars,
        svars, mvars, AskingHasJob, QueryTypes, JobTypes
  <2>7. DeadIsOther'
    BY <1>10, WorkerNotDead, Zenon DEF PingAll
  <2>8. TableInv' /\ AnnouncedInTable'
    BY <1>10, TableSame, Zenon DEF PingAll, AnnouncedInTable
  <2> QED BY <2>1, <2>2, <2>3, <2>4, <2>5, <2>6, <2>7, <2>8, Zenon DEF NodeInv,
      NodeTypeOK
<1>11. CASE Seed
  <2>1. QueryTypes'
    BY <1>11, NodeAssumption, Zenon DEF Seed, pingpeers, qvars, lvars, pvars,
        svars, mvars, QueryTypes, Unlocked, MainTypes, JobTypes
  <2>2. JobTypes'
    BY <1>11, NodeAssumption, Zenon DEF Seed, pingpeers, qvars, lvars, pvars,
        svars, mvars, JobTypes, Jobs
  <2>3. MainTypes'
    BY <1>11, NodeAssumption, Zenon DEF Seed, pingpeers, qvars, lvars, pvars,
        svars, mvars, MainTypes
  <2>4. Flags'
    BY <1>11, NodeAssumption, Zenon DEF Seed, pingpeers, qvars, lvars, pvars,
        svars, mvars, Flags, SeenUnlocked, QueryTypes, MainTypes
  <2>5. NoLostWakeup'
    BY <1>11, NodeAssumption, Zenon DEF Seed, pingpeers, qvars, lvars, pvars,
        svars, mvars, NoLostWakeup, Flags, SeenUnlocked, QueryTypes, MainTypes
  <2>6. AskingHasJob'
    BY <1>11, NodeAssumption, Zenon DEF Seed, pingpeers, qvars, lvars, pvars,
        svars, mvars, AskingHasJob, QueryTypes, JobTypes
  <2>7. DeadIsOther'
    BY <1>11, NodeAssumption, Zenon DEF Seed, pingpeers, qvars, lvars, pvars,
        svars, mvars, DeadIsOther, JobTypes
  <2>8. TableInv' /\ AnnouncedInTable'
    BY <1>11, TableSame, Zenon DEF Seed, AnnouncedInTable
  <2> QED BY <2>1, <2>2, <2>3, <2>4, <2>5, <2>6, <2>7, <2>8, Zenon DEF NodeInv,
      NodeTypeOK
<1>12. CASE Refresh
  <2>1. QueryTypes'
    BY <1>12, NodeAssumption, Zenon DEF Refresh, isempty, qvars, lvars, pvars,
        svars, mvars, QueryTypes, Unlocked, MainTypes, JobTypes
  <2>2. JobTypes'
    BY <1>12, NodeAssumption, Zenon DEF Refresh, isempty, qvars, lvars, pvars,
        svars, mvars, JobTypes, Jobs
  <2>3. MainTypes'
    BY <1>12, NodeAssumption, Zenon DEF Refresh, isempty, qvars, lvars, pvars,
        svars, mvars, MainTypes
  <2>4. Flags'
    BY <1>12, NodeAssumption, Zenon DEF Refresh, isempty, qvars, lvars, pvars,
        svars, mvars, Flags, SeenUnlocked, QueryTypes, MainTypes
  <2>5. NoLostWakeup'
    BY <1>12, NodeAssumption, Zenon DEF Refresh, isempty, qvars, lvars, pvars,
        svars, mvars, NoLostWakeup, Flags, SeenUnlocked, QueryTypes, MainTypes
  <2>6. AskingHasJob'
    BY <1>12, NodeAssumption, Zenon DEF Refresh, isempty, qvars, lvars, pvars,
        svars, mvars, AskingHasJob, QueryTypes, JobTypes
  <2>7. DeadIsOther'
    BY <1>12, NodeAssumption, Zenon DEF Refresh, isempty, qvars, lvars, pvars,
        svars, mvars, DeadIsOther, JobTypes
  <2>8. TableInv' /\ AnnouncedInTable'
    BY <1>12, TableSame, Zenon DEF Refresh, AnnouncedInTable
  <2> QED BY <2>1, <2>2, <2>3, <2>4, <2>5, <2>6, <2>7, <2>8, Zenon DEF NodeInv,
      NodeTypeOK
<1>13. CASE MarkSeen
  <2>1. QueryTypes'
    BY <1>13, NodeAssumption, Zenon DEF MarkSeen, qvars, lvars, pvars, svars,
        mvars, QueryTypes, Unlocked, MainTypes, JobTypes
  <2>2. JobTypes'
    BY <1>13, NodeAssumption, Zenon DEF MarkSeen, qvars, lvars, pvars, svars,
        mvars, JobTypes, Jobs
  <2>3. MainTypes'
    BY <1>13, NodeAssumption, Zenon DEF MarkSeen, qvars, lvars, pvars, svars,
        mvars, MainTypes
  <2>4. Flags'
    BY <1>13, NodeAssumption, Zenon DEF MarkSeen, qvars, lvars, pvars, svars,
        mvars, Flags, SeenUnlocked, QueryTypes, MainTypes
  <2>5. NoLostWakeup'
    BY <1>13, NodeAssumption, Zenon DEF MarkSeen, qvars, lvars, pvars, svars,
        mvars, NoLostWakeup, Flags, SeenUnlocked, QueryTypes, MainTypes
  <2>6. AskingHasJob'
    BY <1>13, NodeAssumption, Zenon DEF MarkSeen, qvars, lvars, pvars, svars,
        mvars, AskingHasJob, QueryTypes, JobTypes
  <2>7. DeadIsOther'
    BY <1>13, NodeAssumption, Zenon DEF MarkSeen, qvars, lvars, pvars, svars,
        mvars, DeadIsOther, JobTypes
  <2>8. TableInv' /\ AnnouncedInTable'
    BY <1>13, TableSame, Zenon DEF MarkSeen, AnnouncedInTable
  <2> QED BY <2>1, <2>2, <2>3, <2>4, <2>5, <2>6, <2>7, <2>8, Zenon DEF NodeInv,
      NodeTypeOK
<1>14. CASE SeePeer
  <2>1. QueryTypes'
    <3>1. Head(seenlist) \in Ids
      BY <1>14 DEF SeePeer, MainTypes
    <3>2. seen' = seen \cup {Head(seenlist)} /\ UNCHANGED <<qvars, lvars>>
      BY <1>14, Zenon DEF SeePeer
    <3> QED BY <3>1, <3>2, Zenon DEF qvars, lvars, QueryTypes, Unlocked
  <2>2. JobTypes'
    BY <1>14, NodeAssumption, Zenon DEF SeePeer, First, qvars, lvars, pvars, svars,
        mvars, JobTypes, Jobs
  <2>3. MainTypes'
    <3>1. Head(seenlist) \in Ids /\ Tail(seenlist) \in Seq(Ids)
          /\ Len(Tail(seenlist)) <= MaxSeen
      BY <1>14, NodeAssumption DEF SeePeer, MainTypes
    <3>2. First(buckets[bucket(Head(seenlist))], Head(seenlist)) \subseteq Ids
      BY <3>1, FirstIsId, Zenon
    <3> QED BY <1>14, <3>1, <3>2, Zenon DEF SeePeer, MainTypes
  <2>4. Flags'
    BY <1>14, NodeAssumption, Zenon DEF SeePeer, First, qvars, lvars, pvars, svars,
        mvars, Flags, SeenUnlocked, QueryTypes, MainTypes
  <2>5. NoLostWakeup'
    BY <1>14, NodeAssumption, Zenon DEF SeePeer, First, qvars, lvars, pvars, svars,
        mvars, NoLostWakeup, Flags, SeenUnlocked, QueryTypes, MainTypes
  <2>6. AskingHasJob'
    BY <1>14, NodeAssumption, Zenon DEF SeePeer, First, qvars, lvars, pvars, svars,
        mvars, AskingHasJob, QueryTypes, JobTypes
  <2>7. DeadIsOther'
    BY <1>14, NodeAssumption, Zenon DEF SeePeer, First, qvars, lvars, pvars, svars,
        mvars, DeadIsOther, JobTypes
  <2>8. TableInv' /\ AnnouncedInTable'
    <3>1. Head(seenlist) \in Ids
      BY <1>14 DEF SeePeer, MainTypes
    <3>2. CASE Known(Head(seenlist))
      BY <1>14, <3>2, TableSame, Zenon DEF SeePeer, AnnouncedInTable
    <3>3. CASE ~Known(Head(seenlist))
      BY <1>14, <3>1, <3>3, SeenInv, Zenon DEF SeePeer, AnnouncedInTable
    <3> QED BY <3>2, <3>3, Zenon
  <2> QED BY <2>1, <2>2, <2>3, <2>4, <2>5, <2>6, <2>7, <2>8, Zenon DEF NodeInv,
      NodeTypeOK
<1>15. CASE SeePing
  <2>1. QueryTypes'
    BY <1>15, NodeAssumption, Zenon DEF SeePing, pingpeer, qvars, lvars, pvars,
        svars, mvars, QueryTypes, Unlocked, MainTypes, JobTypes
  <2>2. JobTypes'
    BY <1>15, NodeAssumption, Zenon DEF SeePing, pingpeer, qvars, lvars, pvars,
        svars, mvars, JobTypes, Jobs
  <2>3. MainTypes'
    BY <1>15, NodeAssumption, Zenon DEF SeePing, pingpeer, qvars, lvars, pvars,
        svars, mvars, MainTypes
  <2>4. Flags'
    <3>1. \/ (pingsig' <=> pingsig) /\ (pingch' <=> pingch)
          \/ pingsig' /\ (pingch' <=> pingch \/ ~pingsig)
      BY <1>15, Zenon DEF SeePing, pingpeer, qvars
    <3>2. lpc' = lpc /\ (seensig' <=> seensig) /\ (seench' <=> seench)
      BY <1>15, Zenon DEF SeePing, lvars, svars
    <3>3. SeenUnlocked' <=> SeenUnlocked
      BY <1>15, Zenon DEF SeePing, mvars, SeenUnlocked
    <3> QED BY <3>1, <3>2, <3>3, Zenon DEF Flags
  <2>5. NoLostWakeup'
    <3>1. \/ pingch' = pingch /\ waitinglist' = waitinglist
          \/ pingch' = (pingch \/ ~pingsig)
      BY <1>15, Zenon DEF SeePing, pingpeer, qvars
    <3>2. lpc' = lpc /\ seenlist' = seenlist /\ seench' = seench
      BY <1>15, Zenon DEF SeePing, lvars, svars
    <3>3. SeenUnlocked' <=> SeenUnlocked
      BY <1>15, Zenon DEF SeePing, mvars, SeenUnlocked
    <3> QED BY <3>1, <3>2, <3>3, Zenon DEF NoLostWakeup, Flags, QueryTypes
  <2>6. AskingHasJob'
    <3>1. askinglist' = askinglist
      BY <1>15, Zenon DEF SeePing, pingpeer, qvars
    <3> QED BY <1>15, <3>1, Zenon DEF SeePing, pvars, AskingHasJob
  <2>7. DeadIsOther'
    BY <1>15, NodeAssumption, Zenon DEF SeePing, pingpeer, qvars, lvars, pvars,
        svars, mvars, DeadIsOther, JobTypes
  <2>8. TableInv' /\ AnnouncedInTable'
    BY <1>15, TableSame, Zenon DEF SeePing, AnnouncedInTable
  <2> QED BY <2>1, <2>2, <2>3, <2>4, <2>5, <2>6, <2>7, <2>8, Zenon DEF NodeInv,
      NodeTypeOK
<1>16. CASE MarkEnd
  <2>1. QueryTypes'
    BY <1>16, NodeAssumption, Zenon DEF MarkEnd, qvars, lvars, pvars, svars, mvars,
        QueryTypes, Unlocked, MainTypes, JobTypes
  <2>2. JobTypes'
    BY <1>16, NodeAssumption, Zenon DEF MarkEnd, qvars, lvars, pvars, svars, mvars,
        JobTypes, Jobs
  <2>3. MainTypes'
    BY <1>16, NodeAssumption, Zenon DEF MarkEnd, qvars, lvars, pvars, svars, mvars,
        MainTypes
  <2>4. Flags'
    BY <1>16, NodeAssumption, Zenon DEF MarkEnd, qvars, lvars, pvars, svars, mvars,
        Flags, SeenUnlocked, QueryTypes, MainTypes
  <2>5. NoLostWakeup'
    BY <1>16, NodeAssumption, Zenon DEF MarkEnd, qvars, lvars, pvars, svars, mvars,
        NoLostWakeup, Flags, SeenUnlocked, QueryTypes, MainTypes
  <2>6. AskingHasJob'
    BY <1>16, NodeAssumption, Zenon DEF MarkEnd, qvars, lvars, pvars, svars, mvars,
        AskingHasJob, QueryTypes, JobTypes
  <2>7. DeadIsOther'
    BY <1>16, NodeAssumption, Zenon DEF MarkEnd, qvars, lvars, pvars, svars, mvars,
        DeadIsOther, JobTypes
  <2>8. TableInv' /\ AnnouncedInTable'
    BY <1>16, TableSame, Zenon DEF MarkEnd, AnnouncedInTable
  <2> QED BY <2>1, <2>2, <2>3, <2>4, <2>5, <2>6, <2>7, <2>8, Zenon DEF NodeInv,
      NodeTypeOK
<1>17. CASE LookupDone
  <2>1. QueryTypes'
    BY <1>17, NodeAssumption, Zenon DEF LookupDone, qvars, lvars, pvars, svars,
        mvars, QueryTypes, Unlocked, MainTypes, JobTypes
  <2>2. JobTypes'
    BY <1>17, NodeAssumption, Zenon DEF LookupDone, qvars, lvars, pvars, svars,
        mvars, JobTypes, Jobs
  <2>3. MainTypes'
    BY <1>17, NodeAssumption, Zenon DEF LookupDone, qvars, lvars, pvars, svars,
        mvars, MainTypes
  <2>4. Flags'
    BY <1>17, NodeAssumption, Zenon DEF LookupDone, qvars, lvars, pvars, svars,
        mvars, Flags, SeenUnlocked, QueryTypes, MainTypes
  <2>5. NoLostWakeup'
    BY <1>17, NodeAssumption, Zenon DEF LookupDone, qvars, lvars, pvars, svars,
        mvars, NoLostWakeup, Flags, SeenUnlocked, QueryTypes, MainTypes
  <2>6. AskingHasJob'
    BY <1>17, NodeAssumption, Zenon DEF LookupDone, qvars, lvars, pvars, svars,
        mvars, AskingHasJob, QueryTypes, JobTypes
  <2>7. DeadIsOther'
    BY <1>17, NodeAssumption, Zenon DEF LookupDone, qvars, lvars, pvars, svars,
        mvars, DeadIsOther, JobTypes
  <2>8. TableInv' /\ AnnouncedInTable'
    BY <1>17, TableSame, Zenon DEF LookupDone, AnnouncedInTable
  <2> QED BY <2>1, <2>2, <2>3, <2>4, <2>5, <2>6, <2>7, <2>8, Zenon DEF NodeInv,
      NodeTypeOK
<1>18. ASSUME NEW id \in Ids, Ask(id) PROVE NodeInv'
  <2>1. QueryTypes'
    BY <1>18, NodeAssumption, Zenon DEF Ask, qvars, lvars, pvars, svars, mvars,
        QueryTypes, Unlocked, MainTypes, JobTypes
  <2>2. JobTypes'
    <3>1. slot' = {[kind |-> "findnode", p |-> id]} /\ UNCHANGED <<wpc, wjob, wfirst>>
      BY <1>18, Zenon DEF Ask
    <3>2. [kind |-> "findnode", p |-> id] \in Jobs
      BY Zenon DEF Jobs
    <3> QED BY <3>1, <3>2, Zenon DEF JobTypes
  <2>3. MainTypes'
    BY <1>18, NodeAssumption, Zenon DEF Ask, qvars, lvars, pvars, svars, mvars,
        MainTypes
  <2>4. Flags'
    BY <1>18, NodeAssumption, Zenon DEF Ask, qvars, lvars, pvars, svars, mvars,
        Flags, SeenUnlocked, QueryTypes, MainTypes
  <2>5. NoLostWakeup'
    BY <1>18, NodeAssumption, Zenon DEF Ask, qvars, lvars, pvars, svars, mvars,
        NoLostWakeup, Flags, SeenUnlocked, QueryTypes, MainTypes
  <2>6. AskingHasJob'
    BY <1>18, NodeAssumption, Zenon DEF Ask, qvars, lvars, pvars, svars, mvars,
        AskingHasJob, QueryTypes, JobTypes
  <2>7. DeadIsOther'
    BY <1>18, NodeAssumption, Zenon DEF Ask, qvars, lvars, pvars, svars, mvars,
        DeadIsOther, JobTypes
  <2>8. TableInv' /\ AnnouncedInTable'
    BY <1>18, TableSame, Zenon DEF Ask, AnnouncedInTable
  <2> QED BY <2>1, <2>2, <2>3, <2>4, <2>5, <2>6, <2>7, <2>8, Zenon DEF NodeInv,
      NodeTypeOK
<1>19. ASSUME NEW id \in Ids, AddSeenRecord(id) PROVE NodeInv'
  <2>1. QueryTypes'
    BY <1>19, NodeAssumption, Zenon DEF AddSeenRecord, qvars, lvars, pvars, svars,
        mvars, QueryTypes, Unlocked, MainTypes, JobTypes
  <2>2. JobTypes'
    BY <1>19, NodeAssumption, Zenon DEF AddSeenRecord, qvars, lvars, pvars, svars,
        mvars, JobTypes, Jobs
  <2>3. MainTypes'
    BY <1>19, NodeAssumption DEF AddSeenRecord, qvars, lvars, pvars, svars,
        mvars, MainTypes
  <2>4. Flags'
    BY <1>19, NodeAssumption, Zenon DEF AddSeenRecord, qvars, lvars, pvars, svars,
        mvars, Flags, SeenUnlocked, QueryTypes, MainTypes
  <2>5. NoLostWakeup'
    BY <1>19, NodeAssumption, Zenon DEF AddSeenRecord, qvars, lvars, pvars, svars,
        mvars, NoLostWakeup, Flags, SeenUnlocked, QueryTypes, MainTypes
  <2>6. AskingHasJob'
    BY <1>19, NodeAssumption, Zenon DEF AddSeenRecord, qvars, lvars, pvars, svars,
        mvars, AskingHasJob, QueryTypes, JobTypes
  <2>7. DeadIsOther'
    BY <1>19, NodeAssumption, Zenon DEF AddSeenRecord, qvars, lvars, pvars, svars,
        mvars, DeadIsOther, JobTypes
  <2>8. TableInv' /\ AnnouncedInTable'
    BY <1>19, TableSame, Zenon DEF AddSeenRecord, AnnouncedInTable
  <2> QED BY <2>1, <2>2, <2>3, <2>4, <2>5, <2>6, <2>7, <2>8, Zenon DEF NodeInv,
      NodeTypeOK
<1>20. ASSUME NEW id \in Ids, Drop(id) PROVE NodeInv'
  <2>1. QueryTypes'
    BY <1>20, NodeAssumption, Zenon DEF Drop, qvars, lvars, pvars, svars, mvars,
        QueryTypes, Unlocked, MainTypes, JobTypes
  <2>2. JobTypes'
    BY <1>20, NodeAssumption, Zenon DEF Drop, qvars, lvars, pvars, svars, mvars,
        JobTypes, Jobs
  <2>3. MainTypes'
    BY <1>20, NodeAssumption, Zenon DEF Drop, qvars, lvars, pvars, svars, mvars,
        MainTypes
  <2>4. Flags'
    BY <1>20, NodeAssumption, Zenon DEF Drop, qvars, lvars, pvars, svars, mvars,
        Flags, SeenUnlocked, QueryTypes, MainTypes
  <2>5. NoLostWakeup'
    BY <1>20, NodeAssumption, Zenon DEF Drop, qvars, lvars, pvars, svars, mvars,
        NoLostWakeup, Flags, SeenUnlocked, QueryTypes, MainTypes
  <2>6. AskingHasJob'
    BY <1>20, NodeAssumption, Zenon DEF Drop, qvars, lvars, pvars, svars, mvars,
        AskingHasJob, QueryTypes, JobTypes
  <2>7. DeadIsOther'
    BY <1>20, NodeAssumption, Zenon DEF Drop, qvars, lvars, pvars, svars, mvars,
        DeadIsOther, JobTypes
  <2>8. TableInv' /\ AnnouncedInTable'
    BY <1>20, TableSame, Zenon DEF Drop, AnnouncedInTable
  <2> QED BY <2>1, <2>2, <2>3, <2>4, <2>5, <2>6, <2>7, <2>8, Zenon DEF NodeInv,
      NodeTypeOK
<1>21. ASSUME NEW id \in Ids \ {Self}, DropPeer(id) PROVE NodeInv'
  <2>1. QueryTypes'
    BY <1>21, NodeAssumption, Zenon DEF DropPeer, qvars, lvars, pvars, svars,
        mvars, QueryTypes, Unlocked, MainTypes, JobTypes
  <2>2. JobTypes'
    BY <1>21, NodeAssumption, Zenon DEF DropPeer, qvars, lvars, pvars, svars,
        mvars, JobTypes, Jobs
  <2>3. MainTypes'
    BY <1>21, NodeAssumption, Zenon DEF DropPeer, qvars, lvars, pvars, svars,
        mvars, MainTypes
  <2>4. Flags'
    BY <1>21, NodeAssumption, Zenon DEF DropPeer, qvars, lvars, pvars, svars,
        mvars, Flags, SeenUnlocked, QueryTypes, MainTypes
  <2>5. NoLostWakeup'
    BY <1>21, NodeAssumption, Zenon DEF DropPeer, qvars, lvars, pvars, svars,
        mvars, NoLostWakeup, Flags, SeenUnlocked, QueryTypes, MainTypes
  <2>6. AskingHasJob'
    BY <1>21, NodeAssumption, Zenon DEF DropPeer, qvars, lvars, pvars, svars,
        mvars, AskingHasJob, QueryTypes, JobTypes
  <2>7. DeadIsOther'
    BY <1>21, NodeAssumption, Zenon DEF DropPeer, qvars, lvars, pvars, svars,
        mvars, DeadIsOther, JobTypes
  <2>8. TableInv' /\ AnnouncedInTable'
    <3>1. TableInv' /\ Peers \ {id} \subseteq Peers'
      BY <1>21, RemoveInv, Zenon DEF DropPeer
    <3> QED BY <1>21, <3>1, Zenon DEF DropPeer, AnnouncedInTable
  <2> QED BY <2>1, <2>2, <2>3, <2>4, <2>5, <2>6, <2>7, <2>8, Zenon DEF NodeInv,
      NodeTypeOK
<1>22. CASE UNCHANGED nodeVars
  <2>1. QueryTypes'
    BY <1>22, Zenon DEF nodeVars, qvars, lvars, pvars, svars, mvars, QueryTypes,
        Unlocked, MainTypes, JobTypes
  <2>2. JobTypes'
    BY <1>22, Zenon DEF nodeVars, qvars, lvars, pvars, svars, mvars, JobTypes, Jobs
  <2>3. MainTypes'
    BY <1>22, Zenon DEF nodeVars, qvars, lvars, pvars, svars, mvars, MainTypes
  <2>4. Flags'
    BY <1>22, Zenon DEF nodeVars, qvars, lvars, pvars, svars, mvars, Flags,
        SeenUnlocked, QueryTypes, MainTypes
  <2>5. NoLostWakeup'
    BY <1>22, Zenon DEF nodeVars, qvars, lvars, pvars, svars, mvars, NoLostWakeup,
        Flags, SeenUnlocked, QueryTypes, MainTypes
  <2>6. AskingHasJob'
    BY <1>22, Zenon DEF nodeVars, qvars, lvars, pvars, svars, mvars, AskingHasJob,
        QueryTypes, JobTypes
  <2>7. DeadIsOther'
    BY <1>22, Zenon DEF nodeVars, qvars, lvars, pvars, svars, mvars, DeadIsOther,
        JobTypes
  <2>8. TableInv' /\ AnnouncedInTable'
    BY <1>22, TableSame, Zenon DEF nodeVars, AnnouncedInTable
  <2> QED BY <2>1, <2>2, <2>3, <2>4, <2>5, <2>6, <2>7, <2>8, Zenon DEF NodeInv, NodeTypeOK
<1> QED BY <1>1, <1>2, <1>3, <1>4, <1>5, <1>6, <1>7, <1>8, <1>9, <1>10,
    <1>11, <1>12, <1>13, <1>14, <1>15, <1>16, <1>17, <1>18, <1>19, <1>20, <1>21,
    <1>22, Zenon DEF NodeNext, Loop, Worker, Main

\* NodeInv holds in every reachable state.
THEOREM NodeInvariance == NodeSpec => []NodeInv
BY NodeInitInv, NodeStep, PTL DEF NodeSpec

\* The signals that pingpeer, pingpeers and AddSeenRecord send with a mutex held
\* never block.
THEOREM SignalsFree == NodeSpec => []SignalsNeverBlock
<1>1. NodeInv => SignalsNeverBlock
  BY Zenon DEF NodeInv, Flags, SignalsNeverBlock
<1> QED BY <1>1, NodeInvariance, PTL

\* No peer waits to be pinged, and no record to be marked, without a signal.
THEOREM WakeupsKept == NodeSpec => []NoLostWakeup
BY NodeInvariance, PTL DEF NodeInv

\* A peer in askinglist is being pinged: its entry will be deleted.
THEOREM AskingIsServed == NodeSpec => []AskingHasJob
BY NodeInvariance, PTL DEF NodeInv

\* The application is told of live peers only while they are in the table.
THEOREM EventsMatchTable == NodeSpec => []AnnouncedInTable
BY NodeInvariance, PTL DEF NodeInv

\* The node uses its table as the table expects: it sees peers and removes peers
\* other than the local node, one operation at a time.
THEOREM NodeUsesTable == NodeSpec => TableSpec
<1>1. NodeInit => TableInit
  BY Zenon DEF NodeInit
<1>2. NodeInv /\ [NodeNext]_nodeVars => [TableNext]_buckets
  <2> SUFFICES ASSUME NodeInv, [NodeNext]_nodeVars PROVE [TableNext]_buckets
    OBVIOUS
  <2> USE DEF NodeInv, NodeTypeOK
  <2>1. CASE UNCHANGED buckets
    BY <2>1, Zenon
  <2>2. ASSUME NEW w \in Workers, PeerLive(w) PROVE [TableNext]_buckets
    <3>1. PICK j \in wjob[w] : Seen(j.p)
      BY <2>2, Zenon DEF PeerLive
    <3> QED BY <3>1 DEF TableNext, JobTypes, Jobs
  <2>3. ASSUME NEW w \in Workers, PeerDead(w) PROVE [TableNext]_buckets
    BY <2>3 DEF PeerDead, TableNext, JobTypes, Jobs, DeadIsOther
  <2>4. CASE SeePeer
    BY <2>4 DEF SeePeer, TableNext, MainTypes
  <2>5. ASSUME NEW id \in Ids \ {Self}, DropPeer(id) PROVE [TableNext]_buckets
    BY <2>5, Zenon DEF DropPeer, TableNext
  <2>6. CASE Loop
    BY <2>6, <2>1, Zenon DEF Loop, LoopSignalled, LoopLock, LoopSubmit, LoopEnd
  <2>7. ASSUME NEW w \in Workers, TakeJob(w) \/ Replied(w) \/ PingFirst(w) \/ PingAll(w)
        PROVE  [TableNext]_buckets
    BY <2>7, <2>1, Zenon DEF TakeJob, Replied, PingFirst, PingAll
  <2>8. CASE Seed \/ Refresh \/ MarkSeen \/ SeePing \/ MarkEnd \/ LookupDone
    BY <2>8, <2>1, Zenon DEF Seed, Refresh, MarkSeen, SeePing, MarkEnd, LookupDone
  <2>9. ASSUME NEW id \in Ids, Ask(id) \/ AddSeenRecord(id) \/ Drop(id)
        PROVE  [TableNext]_buckets
    BY <2>9, <2>1, Zenon DEF Ask, AddSeenRecord, Drop
  <2>10. CASE UNCHANGED nodeVars
    BY <2>10, <2>1, Zenon DEF nodeVars
  <2> QED
    BY <2>2, <2>3, <2>4, <2>5, <2>6, <2>7, <2>8, <2>9, <2>10, Zenon DEF NodeNext, Worker, Main
<1> QED BY <1>1, <1>2, NodeInvariance, PTL DEF NodeSpec, TableSpec

-----------------------------------------------------------------------------
(* The one way the querying service blocks *)

\* The loop of the service, and a worker, can go on.
LoopCan ==
  \/ lpc = "select" /\ pingch
  \/ lpc = "lock"
  \/ lpc = "submit" /\ (todo = {} \/ slot = {})

WorkerCan(w) ==
  \/ wpc[w] = "idle" /\ slot # {}
  \/ wpc[w] = "rpc" /\ Unlocked /\ wjob[w] # {}
  \/ wpc[w] \in {"live", "dead"} /\ wjob[w] # {}
  \/ wpc[w] = "first" /\ Unlocked /\ wfirst[w] # {}
  \/ wpc[w] = "all" /\ Unlocked

\* The service has something to do: a signal, a ping to submit, a job.  Everybody
\* else who waits, waits for its mutex (lpc = "submit") or for a job.
ServiceBusy ==
  pingch \/ lpc # "select" \/ slot # {} \/ \E w \in Workers : wpc[w] # "idle"

ServiceCan == LoopCan \/ \E w \in Workers : WorkerCan(w)

\* dopingpeers, with the mutex held, waits for room in the pool, and every worker
\* waits for the mutex.
ServiceJam ==
  /\ lpc = "submit" /\ todo # {} /\ slot # {}
  /\ \A w \in Workers : wpc[w] \in {"rpc", "first", "all"}

ServiceOnlyJams == ServiceBusy => ServiceCan \/ ServiceJam

\* Once it is there it is never resolved: the lists of the service and the workers
\* stay as they are.
ServiceJamStays ==
  [][ServiceJam => ServiceJam' /\ UNCHANGED <<qvars, lvars, pvars>>]_nodeVars

\* A worker at work has a job, and the peer it is about to ping.
WorkerHasJob ==
  \A w \in Workers :
    /\ wpc[w] # "idle" => wjob[w] # {}
    /\ wpc[w] = "first" => wfirst[w] # {}

LEMMA WorkerHasJobStep ==
  NodeInv /\ WorkerHasJob /\ [NodeNext]_nodeVars => WorkerHasJob'
<1> SUFFICES ASSUME JobTypes, WorkerHasJob, [NodeNext]_nodeVars PROVE WorkerHasJob'
  BY Zenon DEF NodeInv, NodeTypeOK
\* A step of one worker moves no other one.
<1>a. ASSUME NEW w \in Workers, NEW pc, NEW J, NEW F,
             wpc' = [wpc EXCEPT ![w] = pc], wjob' = [wjob EXCEPT ![w] = J],
             wfirst' = [wfirst EXCEPT ![w] = F],
             pc # "idle" => J # {}, pc = "first" => F # {}
      PROVE  WorkerHasJob'
  <2>1. wpc'[w] = pc /\ wjob'[w] = J /\ wfirst'[w] = F
    BY <1>a, Zenon DEF JobTypes
  <2>2. \A v \in Workers \ {w} :
          wpc'[v] = wpc[v] /\ wjob'[v] = wjob[v] /\ wfirst'[v] = wfirst[v]
    BY <1>a, Zenon DEF JobTypes
  <2>3. ASSUME NEW v \in Workers
        PROVE  /\ wpc'[v] # "idle" => wjob'[v] # {}
               /\ wpc'[v] = "first" => wfirst'[v] # {}
    <3>1. CASE v = w
      BY <1>a, <2>1, <3>1, Zenon
    <3>2. CASE v # w
      BY <2>2, <3>2, Zenon DEF WorkerHasJob
    <3> QED BY <3>1, <3>2, Zenon
  <2> QED BY <2>3, Zenon DEF WorkerHasJob
<1>b. ASSUME UNCHANGED <<wpc, wjob, wfirst>> PROVE WorkerHasJob'
  BY <1>b, Zenon DEF WorkerHasJob
<1>c. ASSUME NEW w \in Workers
      PROVE  /\ wjob = [wjob EXCEPT ![w] = wjob[w]]
             /\ wfirst = [wfirst EXCEPT ![w] = wfirst[w]]
             /\ AfterReply(w) \in {"all", "idle"}
  BY <1>c, Zenon DEF JobTypes, AfterReply
<1>1. ASSUME NEW w \in Workers, TakeJob(w) PROVE WorkerHasJob'
  <2>1. /\ slot # {} /\ wpc' = [wpc EXCEPT ![w] = "rpc"]
        /\ wjob' = [wjob EXCEPT ![w] = slot] /\ wfirst' = wfirst
    BY <1>1, Zenon DEF TakeJob
  <2> QED BY <1>a, <1>c, <2>1, Zenon
<1>2. ASSUME NEW w \in Workers, Replied(w) PROVE WorkerHasJob'
  <2>1. /\ wjob[w] # {} /\ wjob' = wjob /\ wfirst' = wfirst
        /\ \E pc \in {"live", "dead"} : wpc' = [wpc EXCEPT ![w] = pc]
    BY <1>2, Zenon DEF Replied
  <2>2. PICK pc \in {"live", "dead"} : wpc' = [wpc EXCEPT ![w] = pc]
    BY <2>1, Zenon
  <2>3. pc # "first"
    BY <2>2, Zenon
  <2>4. /\ wjob' = [wjob EXCEPT ![w] = wjob[w]]
        /\ wfirst' = [wfirst EXCEPT ![w] = wfirst[w]]
    BY <1>c, <2>1, Zenon
  <2> QED BY <1>a, <2>1, <2>2, <2>3, <2>4, Zenon
<1>3. ASSUME NEW w \in Workers, PeerLive(w) PROVE WorkerHasJob'
  <2>1. PICK j \in wjob[w] :
          LET f == First(buckets[bucket(j.p)], j.p) IN
          /\ wfirst' = [wfirst EXCEPT ![w] = f]
          /\ wpc' = [wpc EXCEPT ![w] = IF f # {} THEN "first" ELSE AfterReply(w)]
          /\ wjob' = [wjob EXCEPT ![w] = IF f = {} /\ AfterReply(w) = "idle"
                                          THEN {} ELSE wjob[w]]
    BY <1>3, Zenon DEF PeerLive
  <2> DEFINE f == First(buckets[bucket(j.p)], j.p)
             pc == IF f # {} THEN "first" ELSE AfterReply(w)
             J == IF f = {} /\ AfterReply(w) = "idle" THEN {} ELSE wjob[w]
  <2>2. (pc # "idle" => J # {}) /\ (pc = "first" => f # {})
    BY <1>c, Zenon
  <2> HIDE DEF f
  <2>3. /\ wfirst' = [wfirst EXCEPT ![w] = f] /\ wpc' = [wpc EXCEPT ![w] = pc]
        /\ wjob' = [wjob EXCEPT ![w] = J]
    BY <2>1, Zenon DEF f
  <2> HIDE DEF pc, J
  <2> QED BY <1>a, <2>2, <2>3, Zenon
<1>4. ASSUME NEW w \in Workers, PeerDead(w) \/ PingAll(w) PROVE WorkerHasJob'
  <2>1. /\ wpc' = [wpc EXCEPT ![w] = "idle"] /\ wjob' = [wjob EXCEPT ![w] = {}]
        /\ wfirst' = wfirst
    BY <1>4, Zenon DEF PeerDead, PingAll
  <2> QED BY <1>a, <1>c, <2>1, Zenon
<1>5. ASSUME NEW w \in Workers, PingFirst(w) PROVE WorkerHasJob'
  <2> DEFINE J == IF AfterReply(w) = "idle" THEN {} ELSE wjob[w]
  <2>1. /\ wpc' = [wpc EXCEPT ![w] = AfterReply(w)]
        /\ wjob' = [wjob EXCEPT ![w] = J]
        /\ wfirst' = [wfirst EXCEPT ![w] = {}]
    BY <1>5, Zenon DEF PingFirst
  <2>2. wpc[w] = "first"
    BY <1>5, Zenon DEF PingFirst
  <2>3. wjob[w] # {}
    BY <2>2, Zenon DEF WorkerHasJob
  <2>4. (AfterReply(w) # "idle" => J # {}) /\ AfterReply(w) # "first"
    BY <1>c, <2>3, Zenon
  <2> HIDE DEF J
  <2> QED BY <1>a, <2>1, <2>4, Zenon
<1>6. ASSUME Loop \/ Main \/ LookupDone PROVE WorkerHasJob'
  <2>1. UNCHANGED <<wpc, wjob, wfirst>>
    BY <1>6, Zenon DEF Loop, LoopSignalled, LoopLock, LoopSubmit, LoopEnd, Main, Seed,
        Refresh, MarkSeen, SeePeer, SeePing, MarkEnd, LookupDone, pvars
  <2> QED BY <1>b, <2>1, Zenon
<1>7. ASSUME NEW id \in Ids, Ask(id) \/ AddSeenRecord(id) \/ Drop(id) \/ DropPeer(id)
      PROVE  WorkerHasJob'
  <2>1. UNCHANGED <<wpc, wjob, wfirst>>
    BY <1>7, Zenon DEF Ask, AddSeenRecord, Drop, DropPeer, pvars
  <2> QED BY <1>b, <2>1, Zenon
<1>8. CASE UNCHANGED nodeVars
  BY <1>b, <1>8, Zenon DEF nodeVars, pvars
<1> QED BY <1>1, <1>2, <1>3, <1>4, <1>5, <1>6, <1>7, <1>8, Zenon DEF NodeNext, Worker

LEMMA ServiceMoves ==
  ASSUME Workers # {}, NodeInv, WorkerHasJob, ServiceBusy
  PROVE  ServiceCan \/ ServiceJam
<1>1. /\ lpc \in {"select", "lock", "submit"}
      /\ \A w \in Workers : wpc[w] \in {"idle", "rpc", "live", "dead", "first", "all"}
  BY Zenon DEF NodeInv, NodeTypeOK, QueryTypes, JobTypes
<1>2. CASE lpc = "lock" \/ (lpc = "select" /\ pingch)
  BY <1>2, Zenon DEF ServiceCan, LoopCan
\* The mutex is held: ...
<1>3. CASE lpc = "submit"
  <2>1. CASE todo = {} \/ slot = {}
    BY <1>3, <2>1, Zenon DEF ServiceCan, LoopCan
  <2>2. CASE todo # {} /\ slot # {}
    <3>1. ASSUME NEW w \in Workers, wpc[w] \in {"idle", "live", "dead"}
          PROVE  WorkerCan(w)
      <4>1. wpc[w] # "idle" => wjob[w] # {}
        BY <3>1, Zenon DEF WorkerHasJob
      <4> QED BY <2>2, <3>1, <4>1, Zenon DEF WorkerCan
    <3> QED BY <1>1, <1>3, <2>2, <3>1, Zenon DEF ServiceCan, ServiceJam
  <2> QED BY <2>1, <2>2, Zenon
\* ... and it is free.
<1>4. CASE lpc = "select" /\ ~pingch
  <2>1. Unlocked
    BY <1>4, Zenon DEF Unlocked
  <2>2. ASSUME NEW w \in Workers, wpc[w] # "idle" PROVE WorkerCan(w)
    <3>1. wjob[w] # {} /\ (wpc[w] = "first" => wfirst[w] # {})
      BY <2>2, Zenon DEF WorkerHasJob
    <3>2. wpc[w] \in {"rpc", "live", "dead", "first", "all"}
      BY <1>1, <2>2, Zenon
    <3> QED BY <2>1, <3>1, <3>2, Zenon DEF WorkerCan
  <2>3. CASE \E w \in Workers : wpc[w] # "idle"
    BY <2>2, <2>3, Zenon DEF ServiceCan
  <2>4. CASE \A w \in Workers : wpc[w] = "idle"
    <3>1. slot # {}
      BY <1>4, <2>4, Zenon DEF ServiceBusy
    <3>2. \A w \in Workers : WorkerCan(w)
      BY <2>4, <3>1, Zenon DEF WorkerCan
    <3> QED BY <3>2, Zenon DEF ServiceCan
  <2> QED BY <2>3, <2>4, Zenon
<1> QED BY <1>1, <1>2, <1>3, <1>4, Zenon

LEMMA ServiceJamStep ==
  ASSUME [NodeNext]_nodeVars, ServiceJam
  PROVE  ServiceJam' /\ UNCHANGED <<qvars, lvars, pvars>>
<1>1. /\ lpc = "submit" /\ todo # {} /\ slot # {} /\ ~Unlocked
      /\ \A w \in Workers : wpc[w] \in {"rpc", "first", "all"}
  BY Zenon DEF ServiceJam, Unlocked
<1>2. ~Loop
  BY <1>1, Zenon DEF Loop, LoopSignalled, LoopLock, LoopSubmit, LoopEnd
<1>3. ASSUME NEW w \in Workers PROVE ~Worker(w)
  <2>1. wpc[w] \in {"rpc", "first", "all"}
    BY <1>1, Zenon
  <2> QED BY <1>1, <2>1, Zenon DEF Worker, TakeJob, Replied, PeerLive, PeerDead,
      PingFirst, PingAll
<1>4. ASSUME Main \/ LookupDone PROVE UNCHANGED <<qvars, lvars, pvars>>
  BY <1>1, <1>4, Zenon DEF Main, Seed, Refresh, MarkSeen, SeePeer, SeePing, MarkEnd,
      LookupDone
<1>5. ASSUME NEW id \in Ids, Ask(id) \/ AddSeenRecord(id) \/ Drop(id) \/ DropPeer(id)
      PROVE  UNCHANGED <<qvars, lvars, pvars>>
  BY <1>1, <1>5, Zenon DEF Ask, AddSeenRecord, Drop, DropPeer
<1>6. UNCHANGED <<qvars, lvars, pvars>>
  BY <1>2, <1>3, <1>4, <1>5, Zenon DEF NodeNext, nodeVars
<1>7. UNCHANGED <<lpc, todo, slot, wpc>>
  BY <1>6, Zenon DEF lvars, pvars
<1> QED BY <1>6, <1>7, Zenon DEF ServiceJam

\* The querying service and its workers (ping.go:119-255) block only when
\* dopingpeers holds the mutex over Submit, the pool is full and every worker is
\* on its way into onreplied, pingpeer or pingpeers, which take the mutex.
THEOREM NodeOnlyJams ==
  ASSUME Workers # {}
  PROVE  NodeSpec => []ServiceOnlyJams
<1>1. NodeInit => WorkerHasJob
  BY Zenon DEF NodeInit, WorkerHasJob
<1>2. NodeInv /\ WorkerHasJob /\ [NodeNext]_nodeVars => WorkerHasJob'
  BY WorkerHasJobStep, Zenon
<1>3. NodeInv /\ WorkerHasJob => ServiceOnlyJams
  BY ServiceMoves, Zenon DEF ServiceOnlyJams
<1> QED BY <1>1, <1>2, <1>3, NodeInvariance, PTL DEF NodeSpec

\* From then on no ping, no findnode and no answer is handled any more, whatever
\* the rest of the node does.
THEOREM NodeJamStays == NodeSpec => ServiceJamStays
<1>1. [NodeNext]_nodeVars =>
        [ServiceJam => ServiceJam' /\ UNCHANGED <<qvars, lvars, pvars>>]_nodeVars
  BY ServiceJamStep, Zenon
<1> QED BY <1>1, PTL DEF NodeSpec, ServiceJamStays
=============================================================================
