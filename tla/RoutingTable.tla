---------------------------- MODULE RoutingTable ----------------------------
(***************************************************************************)
(* The Kademlia routing table of src/ndn/kad/routingtable.go: an array of  *)
(* buckets, each a list of peers (least recently added first) and a list   *)
(* of replacements that are kept while the bucket is full.  A peer is      *)
(* represented by its identity.  bucket.mutex makes every bucket operation *)
(* atomic, so each is one action.                                          *)
(***************************************************************************)
EXTENDS Naturals, Sequences, FiniteSets, Functions

CONSTANTS
  Ids,               \* node identities, the local one included
  Self,              \* identity of the local node
  LogDist,           \* LogDist[i]: log2 of the XOR distance of i to Self
  ADDRBITS,          \* length of an identity in bits
  NUMBUCKETS,        \* number of buckets
  BUCKETSIZE,        \* peers of a bucket
  REPSIZE            \* replacements of a bucket

BUCKETMINDISTANCE == ADDRBITS - NUMBUCKETS

ASSUME TableAssumption ==
  /\ Self \in Ids
  /\ ADDRBITS \in Nat
  /\ NUMBUCKETS \in 1 .. ADDRBITS
  /\ BUCKETSIZE \in Nat \ {0}
  /\ REPSIZE \in Nat \ {0}
  /\ LogDist \in [Ids -> 0 .. ADDRBITS]
  /\ LogDist[Self] = 0

VARIABLE buckets

Bucket == [peers : Seq(Ids), replacements : Seq(Ids)]

\* The index of the bucket an identity belongs to.
bucket(id) ==
  IF LogDist[id] <= BUCKETMINDISTANCE
  THEN 0
  ELSE LogDist[id] - BUCKETMINDISTANCE - 1

\* bucket.get with onlybucket, and without it.
InBucket(id) == id \in Range(buckets[bucket(id)].peers)
Known(id) == InBucket(id) \/ id \in Range(buckets[bucket(id)].replacements)

\* Every peer the buckets hold (replacements are not peers yet).
Peers == { id \in Ids : InBucket(id) }

\* rtable.isempty
isempty == \A i \in DOMAIN buckets : Len(buckets[i].peers) = 0

-----------------------------------------------------------------------------
\* Mutant: off by one.
fullLate(b) == Len(b.peers) > BUCKETSIZE

Full(b) == Len(b.peers) >= BUCKETSIZE

\* The list without its i-th element: the shift loops of add and remove.
RemoveIndex(s, i) ==
  [j \in 1 .. Len(s) - 1 |-> IF j < i THEN s[j] ELSE s[j + 1]]

IndexOf(s, id) == CHOOSE i \in DOMAIN s : s[i] = id

\* Mutants of add: the search through the replacements is dropped; a newcomer
\* displaces the oldest peer.
addWithoutSearch(b, p) ==
  CASE p \in Range(b.peers) -> b
    [] p \notin Range(b.peers) /\ ~Full(b) -> [b EXCEPT !.peers = Append(@, p)]
    [] p \notin Range(b.peers) /\ Full(b) ->
         [b EXCEPT !.replacements =
            IF Len(@) >= REPSIZE THEN Append(RemoveIndex(@, 1), p)
                                 ELSE Append(@, p)]
addDisplacing(b, p) ==
  CASE p \in Range(b.peers) -> b
    [] p \notin Range(b.peers) /\ ~Full(b) -> [b EXCEPT !.peers = Append(@, p)]
    [] OTHER -> [peers |-> Append(RemoveIndex(b.peers, 1), p),
                 replacements |-> Append(b.replacements, b.peers[1])]

\* bucket.add: the bucket that results.
add(b, p) ==
  CASE p \in Range(b.peers) -> b
    [] p \notin Range(b.peers) /\ ~Full(b) ->
         [b EXCEPT !.peers = Append(@, p)]
    [] p \notin Range(b.peers) /\ Full(b) /\ p \in Range(b.replacements) -> b
    [] p \notin Range(b.peers) /\ Full(b) /\ p \notin Range(b.replacements) ->
         [b EXCEPT !.replacements =
            IF Len(@) >= REPSIZE THEN Append(RemoveIndex(@, 1), p)
                                 ELSE Append(@, p)]

\* The two results of bucket.add: was p put among the peers, and the peers
\* (none or the oldest one) that must be pinged to make room for p.
Added(b, p) == p \notin Range(b.peers) /\ ~Full(b)
First(b, p) == IF p \notin Range(b.peers) /\ Full(b) THEN {b.peers[1]} ELSE {}

\* Mutants of remove: no replacement is promoted; the last peer takes
\* the place of the removed one instead of a shift.
removeOnly(b, id) ==
  IF id \in Range(b.peers)
  THEN [b EXCEPT !.peers = RemoveIndex(@, IndexOf(@, id))]
  ELSE b
removeSwapLast(b, id) ==
  IF id \in Range(b.peers) /\ b.replacements = <<>>
  THEN LET s == b.peers
           t == [s EXCEPT ![IndexOf(s, id)] = s[Len(s)]]
       IN  [b EXCEPT !.peers = RemoveIndex(t, Len(t))]
  ELSE b

\* bucket.remove: the bucket that results.  The first replacement takes the
\* last place of a bucket that loses a peer.
remove(b, id) ==
  CASE id \in Range(b.peers) /\ b.replacements # <<>> ->
         [peers |-> Append(RemoveIndex(b.peers, IndexOf(b.peers, id)),
                           b.replacements[1]),
          replacements |-> RemoveIndex(b.replacements, 1)]
    [] id \in Range(b.peers) /\ b.replacements = <<>> ->
         [b EXCEPT !.peers = RemoveIndex(@, IndexOf(@, id))]
    [] id \notin Range(b.peers) /\ id \in Range(b.replacements) ->
         [b EXCEPT !.replacements = RemoveIndex(@, IndexOf(@, id))]
    [] id \notin Range(b.peers) /\ id \notin Range(b.replacements) -> b

-----------------------------------------------------------------------------
\* newrtable: the local node is put into its own table.
TableInit ==
  buckets = [i \in 0 .. NUMBUCKETS - 1 |->
               [peers |-> IF i = bucket(Self) THEN <<Self>> ELSE <<>>,
                replacements |-> <<>>]]

\* rtable.seen
Seen(p) == buckets' = [buckets EXCEPT ![bucket(p)] = add(@, p)]

\* rtable.remove
Remove(id) == buckets' = [buckets EXCEPT ![bucket(id)] = remove(@, id)]

\* The callers never remove the local node: it is never pinged over the
\* network and its findnode is answered locally without an error.
TableNext ==
  \/ \E p \in Ids : Seen(p)
  \/ \E id \in Ids \ {Self} : Remove(id)

TableSpec == TableInit /\ [][TableNext]_buckets

-----------------------------------------------------------------------------
\* The table is an array of NUMBUCKETS buckets, and bucket.add and
\* bucket.remove keep their lists within BUCKETSIZE and REPSIZE.
TableTypeOK ==
  /\ buckets \in [0 .. NUMBUCKETS - 1 -> Bucket]
  /\ \A i \in 0 .. NUMBUCKETS - 1 :
       /\ Len(buckets[i].peers) <= BUCKETSIZE
       /\ Len(buckets[i].replacements) <= REPSIZE

\* A bucket keeps replacements only while it is full: a peer is never parked
\* among the replacements while there is room for it (bucket.add), and a
\* replacement is promoted as soon as a place is free (bucket.remove).
ReplacementsOnlyWhenFull ==
  \A i \in DOMAIN buckets :
    buckets[i].replacements # <<>> => Len(buckets[i].peers) = BUCKETSIZE

\* No identity is stored twice in the table, neither in one list nor in two,
\* and each one is in the bucket its distance selects, where get finds it.
NoDuplicates ==
  \A i \in DOMAIN buckets :
    /\ IsInjective(buckets[i].peers)
    /\ IsInjective(buckets[i].replacements)
    /\ Range(buckets[i].peers) \cap Range(buckets[i].replacements) = {}
    /\ \A id \in Range(buckets[i].peers) \cup Range(buckets[i].replacements) :
         bucket(id) = i

\* The local node, put in by newrtable, stays in the table.
SelfInTable == Self \in Peers

TableInv ==
  /\ TableTypeOK
  /\ ReplacementsOnlyWhenFull
  /\ NoDuplicates
  /\ SelfInTable

\* Age order: of two peers that stay in a bucket over a step, the one that was
\* in front stays in front.  The oldest peer is the one bucket.add has pinged
\* for eviction, so the order decides who is evicted.
AgeOrderStep ==
  \A i \in DOMAIN buckets :
    LET old == buckets[i].peers  new == buckets'[i].peers
    IN  \A j, k \in DOMAIN old : \A m, n \in DOMAIN new :
          (j < k /\ old[j] = new[m] /\ old[k] = new[n]) => m < n

\* A step takes at most one peer out of the buckets, and only remove does: a
\* newcomer never displaces a peer that has not been found dead, and a peer
\* that leaves a bucket with replacements is replaced in the same step.
EvictionStep ==
  \A i \in DOMAIN buckets :
    LET lost == Range(buckets[i].peers) \ Range(buckets'[i].peers)
    IN  /\ \A x, y \in lost : x = y
        /\ lost # {} /\ buckets[i].replacements # <<>>
             => /\ Len(buckets'[i].peers) = Len(buckets[i].peers)
                /\ buckets[i].replacements[1] \in Range(buckets'[i].peers)
        /\ lost # {} => Range(buckets'[i].replacements)
                          \subseteq Range(buckets[i].replacements)

AgeOrder == [][AgeOrderStep]_buckets
Eviction == [][EvictionStep]_buckets
=============================================================================
