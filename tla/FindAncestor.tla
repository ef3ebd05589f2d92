---------------------------- MODULE FindAncestor ----------------------------
(***************************************************************************)
(* Downloader.findAncestor of src/ndn/eth/downloader.go with the master's  *)
(* answers by queryHeaders of datafetch.go: the search for the highest     *)
(* block that the local chain shares with the master peer, by batches of   *)
(* evenly spaced headers.  The arithmetic keeps the widths of the code.    *)
(***************************************************************************)
EXTENDS Naturals

CONSTANT Heights   \* the block numbers that occur

ASSUME HeightsAssumption == Heights \subseteq Nat

MAX_HEADERS_COUNT == 15
U16 == 65536       \* uint16 is counted modulo U16

VARIABLES
  local,           \* the number of the local current block
  remote,          \* the number of the master's current block
  fork,            \* the last block of the master's chain known locally
  start, end,      \* startbnum and endbnum
  ancestor,        \* dwork.ancestor
  rounds,          \* history: the answers used so far
  st               \* "search", "found" or "failed" (an error is returned)

chains == <<local, remote, fork>>
vars == <<chains, start, end, ancestor, rounds, st>>

Init ==
  /\ local \in Heights /\ remote \in Heights /\ fork \in Heights
  /\ fork <= remote
  /\ start = 1 /\ end = local /\ ancestor = 0 /\ rounds = 0
  /\ st = IF local = 0 THEN "found" ELSE "search"

-----------------------------------------------------------------------------
total == end - start + 1
lastround == total <= MAX_HEADERS_COUNT
skip == IF lastround THEN 0 ELSE ((total \div MAX_HEADERS_COUNT) - 1) % U16
count == IF lastround THEN total ELSE MAX_HEADERS_COUNT
step == (skip + 1) % U16
from == IF lastround THEN start ELSE end - step * (MAX_HEADERS_COUNT - 1)

\* queryHeaders: the number of the i-th header of the answer
Number(i) == from + ((i * step) % U16)

Indices == 0..(count - 1)

\* The first header that the master lacks ends its list; what follows is nil
\* and does not decode
Complete == \A i \in Indices : Number(i) <= remote

\* HasHeader
Known(i) == Number(i) <= fork

\* The scan from the end of the answer stops at index i
Common(i) == Known(i) /\ \A j \in Indices : j > i => ~Known(j)

Found(a) == st' = "found" /\ ancestor' = a /\ UNCHANGED <<chains, start, end>>

\* getHeaders fails, or its answer does not decode
Fail ==
  /\ st = "search"
  /\ st' = "failed"
  /\ UNCHANGED <<chains, start, end, ancestor, rounds>>

\* Mutant: the first header of the answer stays in the range
noneKnownFrom ==
  /\ st = "search" /\ Complete /\ rounds' = rounds + 1
  /\ \A i \in Indices : ~Known(i)
  /\ IF lastround THEN Found(0)
     ELSE end' = from /\ UNCHANGED <<chains, start, ancestor, st>>

\* Mutant: the start of the range is taken for common
noneKnownStart ==
  /\ st = "search" /\ Complete /\ rounds' = rounds + 1
  /\ \A i \in Indices : ~Known(i)
  /\ IF lastround THEN Found(start)
     ELSE end' = from - 1 /\ UNCHANGED <<chains, start, ancestor, st>>

\* commonheader is nil
NoneKnown ==
  /\ st = "search" /\ Complete /\ rounds' = rounds + 1
  /\ \A i \in Indices : ~Known(i)
  /\ IF lastround THEN Found(0)
     ELSE end' = from - 1 /\ UNCHANGED <<chains, start, ancestor, st>>

\* Mutant: the range starts behind the common header
someKnownBehind ==
  /\ st = "search" /\ Complete /\ rounds' = rounds + 1
  /\ \E i \in Indices :
       /\ Common(i)
       /\ IF lastround \/ Number(i) = end THEN Found(Number(i))
          ELSE /\ start' = Number(i) + 1
               /\ end' = IF end > Number(i) + skip THEN Number(i) + skip ELSE end
               /\ UNCHANGED <<chains, ancestor, st>>

\* Mutant: the upper end stays
someKnownKeeps ==
  /\ st = "search" /\ Complete /\ rounds' = rounds + 1
  /\ \E i \in Indices :
       /\ Common(i)
       /\ IF lastround \/ Number(i) = end THEN Found(Number(i))
          ELSE /\ start' = Number(i)
               /\ UNCHANGED <<chains, end, ancestor, st>>

\* A common header: the search goes on between it and the next one
SomeKnown ==
  /\ st = "search" /\ Complete /\ rounds' = rounds + 1
  /\ \E i \in Indices :
       /\ Common(i)
       /\ IF lastround \/ Number(i) = end THEN Found(Number(i))
          ELSE /\ start' = Number(i)
               /\ end' = IF end > Number(i) + skip THEN Number(i) + skip ELSE end
               /\ UNCHANGED <<chains, ancestor, st>>

Next == Fail \/ NoneKnown \/ SomeKnown

Spec == Init /\ [][Next]_vars

-----------------------------------------------------------------------------
(* Properties *)

\* The greatest common block, of those up to the local height
Shared == IF fork < local THEN fork ELSE local

\* Types, and the subtractions on unsigned numbers never pass below zero
TypeOK ==
  /\ local \in Nat /\ remote \in Nat /\ fork \in Nat /\ fork <= remote
  /\ start \in Nat /\ end \in Nat /\ ancestor \in Nat /\ rounds \in Nat
  /\ st \in {"search", "found", "failed"}
  /\ st = "search" => 1 <= start /\ start <= end /\ end <= local

\* The block on which the download will build is on both chains
AncestorIsShared == st = "found" => ancestor <= Shared

\* It is the highest such block, as long as no distance between headers of an
\* answer overflows 16 bits: up to 70214 blocks
AncestorIsGreatest == st = "found" /\ local <= 70214 => ancestor = Shared

\* The range of the search shrinks in every round
RangeShrinks == [][st' = "search" => end' - start' < end - start]_vars

\* The search is fast: a chain of up to 70214 blocks takes few requests
FewRounds == local <= 70214 => rounds <= 5

\* Part of the inductive invariant: the range keeps the answer.  Its lower end
\* is known; its upper end is only if no answer was out of order
Bracket ==
  st = "search" =>
    /\ start = 1 \/ start <= Shared
    /\ local <= 70214 => Shared <= end

\* Part of the inductive invariant: the size of the range after each round
RangeSizes ==
  st = "search" /\ local <= 70214 =>
    /\ rounds <= 4
    /\ rounds = 1 => total <= 4694
    /\ rounds = 2 => total <= 326
    /\ rounds = 3 => total <= 35
    /\ rounds = 4 => total <= 15

AncestorInv ==
  TypeOK /\ Bracket /\ RangeSizes /\ AncestorIsShared /\ AncestorIsGreatest /\ FewRounds
=============================================================================
