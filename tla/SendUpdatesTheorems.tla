------------------------ MODULE SendUpdatesTheorems ------------------------
(***************************************************************************)
(* Proofs about Sync and SendUpdates, for every tree of blocks, block      *)
(* range, reorg depth and number of faults.  The first part is about the   *)
(* updates of the chainstate; the second about what GSPs are led through   *)
(* by game_sendupdates and the notifications, and what the RPC methods     *)
(* tell of the chain.                                                      *)
(***************************************************************************)
EXTENDS SendUpdates, BlocksTheorems, SequenceTheorems, FiniteSetTheorems

(***************************************************************************)
(* Part 1: Sync                                                            *)
(***************************************************************************)

LEMMA LargerOf ==
    ASSUME NEW m \in Int, NEW n \in Int
    PROVE  /\ Larger(m, n) \in Int /\ Larger(m, n) >= m /\ Larger(m, n) >= n
           /\ Larger(m, n) = m \/ Larger(m, n) = n
  BY DEF Larger

LEMMA LargerGrows ==
    ASSUME NEW m \in Int, NEW n \in Int, NEW k \in Int, n =< k
    PROVE  Larger(m, n) =< Larger(m, k)
  BY DEF Larger

LEMMA SmallerOf ==
    ASSUME NEW m \in Int, NEW n \in Int
    PROVE  /\ Smaller(m, n) \in Int /\ Smaller(m, n) =< m /\ Smaller(m, n) =< n
           /\ Smaller(m, n) = m \/ Smaller(m, n) = n
  BY DEF Smaller

(* The one ancestor of b at height h. *)
LEMMA AncestorAtHeight ==
    ASSUME NEW b \in Block, NEW h \in Nat, h =< Height[b]
    PROVE  /\ AncestorAt(b, h) \in Anc[b]
           /\ AncestorAt(b, h) \in Block
           /\ Height[AncestorAt(b, h)] = h
  <1>1. \E c \in Anc[b] : Height[c] = h
    BY AncAtHeight
  <1>2. AncestorAt(b, h) \in Anc[b] /\ Height[AncestorAt(b, h)] = h
    BY <1>1 DEF AncestorAt
  <1> QED BY <1>2, AncType

-----------------------------------------------------------------------------
(***************************************************************************)
(* A part of a chain, from the height h to below the height k, has k - h   *)
(* blocks.                                                                 *)
(***************************************************************************)
LEMMA SegmentSize ==
    ASSUME NEW b \in Block, NEW h \in Nat, NEW k \in Nat, h =< k, k =< Height[b] + 1,
           NEW S, S = {c \in Anc[b] : h =< Height[c] /\ Height[c] < k}
    PROVE  IsFiniteSet(S) /\ Cardinality(S) = k - h
  <1>0. /\ Height[b] \in Nat /\ Anc[b] \subseteq Block
        /\ \A c \in Anc[b] : Height[c] \in Nat
    BY HeightType, AncType
  <1> DEFINE m == k - h
             f == [i \in 1 .. m |-> AncestorAt(b, h + i - 1)]
  <1>1. m \in Nat
    OBVIOUS
  <1>2. ASSUME NEW i \in 1 .. m
        PROVE  f[i] \in S /\ Height[f[i]] = h + i - 1
    <2>1. h + i - 1 \in Nat /\ h + i - 1 =< Height[b] /\ h =< h + i - 1 /\ h + i - 1 < k
      BY <1>0
    <2>2. f[i] = AncestorAt(b, h + i - 1)
      OBVIOUS
    <2> HIDE DEF f
    <2> QED BY <2>1, <2>2, AncestorAtHeight
  <1>3. ASSUME NEW i \in 1 .. m, NEW j \in 1 .. m, f[i] = f[j]
        PROVE  i = j
    <2> HIDE DEF f
    <2> QED BY <1>2, <1>3
  <1>4. ASSUME NEW c \in S
        PROVE  \E i \in 1 .. m : f[i] = c
    <2>1. c \in Anc[b] /\ h =< Height[c] /\ Height[c] < k /\ Height[c] \in Nat
      BY <1>0
    <2>2. Height[c] - h + 1 \in 1 .. m
      BY <2>1
    <2>3. f[Height[c] - h + 1] \in Anc[b] /\ Height[f[Height[c] - h + 1]] = Height[c]
      <3> HIDE DEF f
      <3> QED BY <1>2, <2>1, <2>2
    <2>4. f[Height[c] - h + 1] = c
      <3> HIDE DEF f
      <3> QED BY <2>1, <2>3, AncSameHeight
    <2> QED BY <2>2, <2>4
  <1>5. f \in [1 .. m -> S]
    BY <1>2
  <1> HIDE DEF f, m
  <1>6. f \in Bijection(1 .. m, S)
    BY <1>3, <1>4, <1>5 DEF Bijection, Injection, Surjection, IsInjective
  <1>7. ExistsBijection(1 .. m, S)
    BY <1>6 DEF ExistsBijection
  <1> QED BY <1>1, <1>7, FS_NatBijection, FS_CountingElements DEF m

(* The blocks of a chain from the height h on, in their order. *)
Segment(b, h) == [i \in 1 .. Height[b] - h + 1 |-> AncestorAt(b, h + i - 1)]

LEMMA SegmentSorted ==
    ASSUME NEW b \in Block, NEW h \in Nat, h =< Height[b] + 1,
           NEW S, S = {c \in Anc[b] : h =< Height[c]}
    PROVE  SortByHeight(S) = Segment(b, h)
  <1>0. /\ Height[b] \in Nat /\ Anc[b] \subseteq Block
        /\ \A c \in Anc[b] : Height[c] \in Nat /\ Height[c] =< Height[b]
    BY HeightType, AncType, AncHeight
  <1> DEFINE m == Height[b] + 1 - h
  <1>1. Cardinality(S) = m
    <2> DEFINE k == Height[b] + 1
    <2>1. S = {c \in Anc[b] : h =< Height[c] /\ Height[c] < k}
      BY <1>0
    <2>2. k \in Nat /\ k =< Height[b] + 1 /\ h =< k
      BY <1>0
    <2> HIDE DEF k
    <2>3. Cardinality({c \in Anc[b] : h =< Height[c] /\ Height[c] < k}) = k - h
      BY <2>2, SegmentSize
    <2>4. Cardinality(S) = k - h
      BY <2>1, <2>3
    <2> QED BY <1>0, <2>4 DEF k
  <1>2. ASSUME NEW x \in S
        PROVE  Cardinality({c \in S : Height[c] < Height[x]}) = Height[x] - h
    <2>1. {c \in S : Height[c] < Height[x]} =
             {c \in Anc[b] : h =< Height[c] /\ Height[c] < Height[x]}
      OBVIOUS
    <2>2. Height[x] \in Nat /\ h =< Height[x] /\ Height[x] =< Height[b] + 1
      BY <1>0
    <2> QED BY <2>1, <2>2, SegmentSize
  <1>3. ASSUME NEW i \in 1 .. m
        PROVE  (CHOOSE x \in S : Cardinality({c \in S : Height[c] < Height[x]}) = i - 1)
                  = AncestorAt(b, h + i - 1)
    <2>1. h + i - 1 \in Nat /\ h + i - 1 =< Height[b] /\ h =< h + i - 1
      BY <1>0
    <2> DEFINE a == AncestorAt(b, h + i - 1)
    <2>2. a \in Anc[b] /\ Height[a] = h + i - 1 /\ a \in S
      BY <2>1, AncestorAtHeight
    <2> HIDE DEF a
    <2>3. Height[a] - h = i - 1
      BY <2>1, <2>2
    <2>4. Cardinality({c \in S : Height[c] < Height[a]}) = i - 1
      BY <1>2, <2>2, <2>3
    <2>5. ASSUME NEW x \in S, Cardinality({c \in S : Height[c] < Height[x]}) = i - 1
          PROVE  x = a
      <3>1. Height[x] - h = i - 1 /\ Height[x] \in Nat /\ x \in Anc[b]
        BY <1>0, <1>2, <2>5
      <3>2. Height[x] = Height[a]
        BY <2>1, <2>2, <3>1
      <3> QED BY <2>2, <3>1, <3>2, AncSameHeight
    <2> QED BY <2>2, <2>4, <2>5 DEF a
  <1>4. SortByHeight(S) = [i \in 1 .. m |->
            CHOOSE x \in S : Cardinality({c \in S : Height[c] < Height[x]}) = i - 1]
    BY <1>1 DEF SortByHeight
  <1>5. m = Height[b] - h + 1
    BY <1>0
  <1> HIDE DEF m
  <1> QED BY <1>3, <1>4, <1>5 DEF Segment

LEMMA SegmentType ==
    ASSUME NEW b \in Block, NEW h \in Nat, h =< Height[b] + 1
    PROVE  /\ Segment(b, h) \in Seq(Block)
           /\ Len(Segment(b, h)) = Height[b] - h + 1
           /\ \A i \in 1 .. Height[b] - h + 1 :
                 /\ Segment(b, h)[i] \in Anc[b]
                 /\ Height[Segment(b, h)[i]] = h + i - 1
  <1> DEFINE m == Height[b] - h + 1
  <1>0. Height[b] \in Nat /\ m \in Nat
    BY HeightType
  <1>1. ASSUME NEW i \in 1 .. m
        PROVE  /\ Segment(b, h)[i] \in Anc[b]
               /\ Segment(b, h)[i] \in Block
               /\ Height[Segment(b, h)[i]] = h + i - 1
    <2>1. Segment(b, h)[i] = AncestorAt(b, h + i - 1)
      BY DEF Segment
    <2>2. h + i - 1 \in Nat /\ h + i - 1 =< Height[b]
      BY <1>0
    <2> QED BY <2>1, <2>2, AncestorAtHeight
  <1> HIDE DEF m
  <1>2. Segment(b, h) \in [1 .. m -> Block]
    BY <1>1 DEF Segment, m
  <1>3. Segment(b, h) \in Seq(Block)
    BY <1>0, <1>2, SeqDef
  <1>4. Len(Segment(b, h)) = m
    BY <1>0, <1>2, <1>3, LenProperties
  <1> QED BY <1>1, <1>3, <1>4 DEF m

(* Nothing to sort. *)
LEMMA SortedEmpty ==
    ASSUME NEW S, S = {}
    PROVE  /\ SortByHeight(S) = <<>>
           /\ SortByHeight(S) \in Seq(Block) /\ Len(SortByHeight(S)) = 0
  <1>1. Cardinality(S) = 0
    BY FS_EmptySet
  <1>2. SortByHeight(S) = <<>>
    BY <1>1 DEF SortByHeight
  <1>3. <<>> \in Seq(Block) /\ Len(<<>>) = 0
    OBVIOUS
  <1> QED BY <1>2, <1>3

(* The blocks below f, from its ancestor l on. *)
LEMMA SegmentBelow ==
    ASSUME NEW f \in Block, NEW p \in Block, NEW l \in Anc[p], p = Parent[f],
           NEW A, A = Segment(p, Height[l])
    PROVE  /\ A \in Seq(Block) /\ Len(A) > 0 /\ A[1] = l
           /\ \A i \in 1 .. Len(A) :
                 A[i] \in Anc[f] /\ Height[A[i]] = Height[f] + i - 1 - Len(A)
  <1>1. /\ p \in Anc[f] /\ Anc[p] \subseteq Anc[f]
        /\ Height[f] = Height[p] + 1 /\ Height[p] \in Nat
    BY BlocksAssumption, ParentBelow, AncSelf, AncParent, AncTransitive
  <1>2. l \in Block /\ Height[l] \in Nat /\ Height[l] =< Height[p]
    BY <1>1, AncType, HeightType, AncHeight
  <1>3. /\ A \in Seq(Block) /\ Len(A) = Height[p] - Height[l] + 1
        /\ \A i \in 1 .. Height[p] - Height[l] + 1 :
              A[i] \in Anc[p] /\ Height[A[i]] = Height[l] + i - 1
    BY <1>1, <1>2, SegmentType
  <1>4. 1 \in 1 .. Height[p] - Height[l] + 1 /\ Len(A) > 0
    BY <1>1, <1>2, <1>3
  <1>5. A[1] \in Anc[p] /\ Height[A[1]] = Height[l]
    BY <1>2, <1>3, <1>4
  <1>6. A[1] = l
    BY <1>5, AncSameHeight
  <1>7. ASSUME NEW i \in 1 .. Len(A)
        PROVE  A[i] \in Anc[f] /\ Height[A[i]] = Height[f] + i - 1 - Len(A)
    <2>1. A[i] \in Anc[p] /\ Height[A[i]] = Height[l] + i - 1
      BY <1>3
    <2>2. Height[l] + i - 1 = Height[f] + i - 1 - Len(A)
      BY <1>1, <1>2, <1>3
    <2> QED BY <1>1, <2>1, <2>2
  <1> QED BY <1>3, <1>4, <1>6, <1>7

-----------------------------------------------------------------------------
(***************************************************************************)
(* The way from a stored block o to the main chain, when the lowest block  *)
(* of the main chain is below o: what is detached, and where it leads.     *)
(***************************************************************************)
ForkOf(t, o) ==
    LET D == GetForkBranch(t, o)
    IN  IF D = {} THEN o
        ELSE Parent[CHOOSE b \in D : \A c \in D : Height[b] =< Height[c]]

LEMMA ForkOfStored ==
    ASSUME NEW t, TableInv(t), Main(t) # {}, NEW o \in Known(t), Lowest(t) \in Anc[o],
           NEW D, D = GetForkBranch(t, o)
    PROVE  /\ ForkOf(t, o) \in Main(t) /\ ForkOf(t, o) \in Anc[o]
           /\ ForkOf(t, o) \in Block
           /\ D = {c \in Anc[o] : Height[c] > Height[ForkOf(t, o)]}
           /\ D \cap Main(t) = {}
           /\ D # {} => \E l \in D : /\ l = CHOOSE b \in D : \A c \in D : Height[b] =< Height[c]
                                     /\ l \in Block
                                     /\ Parent[l] = ForkOf(t, o)
                                     /\ Height[l] - 1 = Height[ForkOf(t, o)]
  <1>0. /\ o \in Block /\ o \in Anc[o] /\ Anc[o] \subseteq Block
        /\ \A c \in Block : Height[c] \in Nat
        /\ Lowest(t) \in Main(t)
        /\ D = PathToMain(t, o)
    BY KnownType, AncSelf, AncType, HeightType, LowestOfMain, ForkBranchCorrect
  <1>1. CASE D = {}
    <2>1. o \notin OffMain(t)
      <3> SUFFICES ASSUME o \in OffMain(t) PROVE FALSE
        OBVIOUS
      <3> QED BY <1>0, <1>1, ForkBranchShape
    <2>2. ForkOf(t, o) = o /\ o \in Main(t)
      BY <1>1, <2>1 DEF ForkOf, OffMain
    <2>3. {c \in Anc[o] : Height[c] > Height[o]} = {}
      BY <1>0, AncHeight
    <2> QED BY <1>0, <1>1, <2>2, <2>3
  <1>2. CASE D # {}
    <2>1. o \in OffMain(t)
      BY <1>2 DEF GetForkBranch
    <2>2. PICK l \in PathToMain(t, o) :
              /\ \A c \in PathToMain(t, o) : Height[l] =< Height[c]
              /\ \A d \in Anc[o] : Height[l] =< Height[d] => d \in PathToMain(t, o)
              /\ (\E x \in Main(t) : Height[x] < Height[l]) => Parent[l] \in Main(t)
      BY <2>1, ForkBranchShape
    <2>3. l \in D /\ l \in Block /\ l \in Anc[o] /\ D \subseteq Anc[o] /\ D \subseteq OffMain(t)
      BY <1>0, <2>2 DEF PathToMain
    <2>4. \A b \in D : (\A c \in D : Height[b] =< Height[c]) => b = l
      <3> SUFFICES ASSUME NEW b \in D, \A c \in D : Height[b] =< Height[c]
                   PROVE  b = l
        OBVIOUS
      <3>1. Height[b] = Height[l]
        BY <1>0, <2>2, <2>3
      <3> QED BY <1>0, <2>3, <3>1, AncSameHeight
    <2>5. l = CHOOSE b \in D : \A c \in D : Height[b] =< Height[c]
      BY <1>0, <2>2, <2>3, <2>4
    <2>6. Height[Lowest(t)] < Height[l]
      <3>1. Lowest(t) \notin PathToMain(t, o)
        BY <1>0, <2>3 DEF OffMain
      <3> QED BY <1>0, <2>2, <2>3, <3>1
    <2>7. Parent[l] \in Main(t) /\ Parent[l] # NoBlock
      BY <1>0, <2>2, <2>3, <2>6, KnownType, ParentIsBlock
    <2>8. /\ Parent[l] \in Anc[o] /\ Parent[l] \in Block
          /\ Height[l] = Height[Parent[l]] + 1 /\ Height[Parent[l]] \in Nat
      BY <1>0, <2>3, <2>7, AncParent, ParentBelow
    <2>9. ForkOf(t, o) = Parent[l]
      BY <1>2, <2>5 DEF ForkOf
    <2>10. D = {c \in Anc[o] : Height[c] > Height[Parent[l]]}
      <3>1. ASSUME NEW c \in D PROVE Height[c] > Height[Parent[l]]
        BY <1>0, <2>2, <2>3, <2>8
      <3>2. ASSUME NEW c \in Anc[o], Height[c] > Height[Parent[l]] PROVE c \in D
        BY <1>0, <2>2, <2>3, <2>8, <3>2
      <3> QED BY <2>3, <3>1, <3>2
    <2>11. Height[l] - 1 = Height[Parent[l]]
      BY <2>8
    <2> QED BY <2>3, <2>5, <2>7, <2>8, <2>9, <2>10, <2>11 DEF OffMain
  <1> QED BY <1>1, <1>2

-----------------------------------------------------------------------------
(* The base chain. *)

LEMMA FinalBlockOnBase ==
    ASSUME TypeOK, BaseInv
    PROVE  /\ FinalHeight \in Nat
           /\ FinalBlock \in Anc[baseTip] /\ FinalBlock \in Block
           /\ Height[FinalBlock] = FinalHeight
           /\ Anc[FinalBlock] \subseteq Anc[baseTip]
           /\ \A c \in Anc[baseTip] : Height[c] =< FinalHeight => c \in Anc[FinalBlock]
  <1>1. FinalHeight \in Nat
    BY SyncAssumption DEF TypeOK, FinalHeight, Larger
  <1>2. FinalBlock = AncestorAt(baseTip, FinalHeight)
    BY DEF FinalBlock, FinalHeight
  <1>3. /\ FinalBlock \in Anc[baseTip] /\ FinalBlock \in Block
        /\ Height[FinalBlock] = FinalHeight
    BY <1>1, <1>2, AncestorAtHeight DEF TypeOK, BaseInv
  <1> QED BY <1>1, <1>3, AncTransitive, AncLinear DEF TypeOK

(* What is final stays so. *)
LEMMA FinalBlockKept ==
    ASSUME TypeOK, BaseInv, NEW b \in Block, BaseMove(b)
    PROVE  /\ baseTip' \in Block /\ baseHighest' \in Nat /\ BaseInv'
           /\ FinalHeight' \in Nat /\ FinalHeight =< FinalHeight'
           /\ FinalBlock \in Anc[FinalBlock']
           /\ Anc[FinalBlock] \subseteq Anc[FinalBlock']
  <1>1. /\ baseTip' = b /\ FinalBlock \in Anc[b]
        /\ baseHighest' = Larger(baseHighest, Height[b])
    BY DEF BaseMove
  <1>2. /\ baseHighest \in Nat /\ Height[b] \in Nat /\ Height[baseTip] \in Nat
        /\ MaxReorgDepth \in Nat
    BY HeightType, SyncAssumption DEF TypeOK
  <1>3. /\ baseHighest' \in Nat /\ baseHighest' >= baseHighest /\ baseHighest' >= Height[b]
        /\ baseHighest' = baseHighest \/ baseHighest' = Height[b]
    BY <1>1, <1>2 DEF Larger
  <1>4. /\ FinalHeight \in Nat /\ FinalBlock \in Block /\ Height[FinalBlock] = FinalHeight
    BY FinalBlockOnBase
  <1>5. FinalHeight =< Height[b]
    BY <1>1, <1>2, <1>4, AncHeight
  <1>6. /\ FinalHeight' = Larger(0, baseHighest' - MaxReorgDepth)
        /\ FinalHeight = Larger(0, baseHighest - MaxReorgDepth)
    BY DEF FinalHeight
  <1>7. FinalHeight' \in Nat /\ FinalHeight =< FinalHeight' /\ FinalHeight' =< Height[b]
    <2>1. CASE baseHighest' = baseHighest
      BY <1>4, <1>5, <1>6, <2>1
    <2>2. CASE baseHighest' = Height[b]
      <3>1. FinalHeight' \in Nat /\ FinalHeight' =< Height[b]
        BY <1>2, <1>3, <1>6, <2>2 DEF Larger
      <3>2. FinalHeight =< FinalHeight'
        <4> DEFINE m == baseHighest  n == baseHighest'  d == MaxReorgDepth
        <4>1. m \in Nat /\ n \in Nat /\ d \in Nat /\ m =< n
          BY <1>2, <1>3
        <4> HIDE DEF m, n, d
        <4>2. m - d \in Int /\ n - d \in Int /\ m - d =< n - d
          BY <4>1
        <4>3. Larger(0, m - d) =< Larger(0, n - d)
          BY <4>2, LargerGrows
        <4> QED BY <1>6, <4>3 DEF m, n, d
      <3> QED BY <3>1, <3>2
    <2> QED BY <1>3, <2>1, <2>2
  <1>8. BaseInv'
    BY <1>1, <1>3, <1>7 DEF BaseInv
  <1>9. FinalBlock' = AncestorAt(b, FinalHeight')
    BY <1>1, <1>6 DEF FinalBlock
  <1>10. FinalBlock' \in Anc[b] /\ FinalBlock' \in Block /\ Height[FinalBlock'] = FinalHeight'
    BY <1>7, <1>9, AncestorAtHeight
  <1>11. FinalBlock \in Anc[FinalBlock']
    BY <1>1, <1>4, <1>7, <1>10, AncLinear
  <1> QED BY <1>1, <1>3, <1>7, <1>8, <1>10, <1>11, AncTransitive

(* The blocks that GetBlockRange returns. *)
LEMMA RangeIsSegment ==
    ASSUME TypeOK, NEW start \in Nat, NEW count \in Nat \ {0},
           NEW r, r = GetBlockRange(start, count)
    PROVE  /\ r \in Seq(Block)
           /\ \A i \in 1 .. Len(r) : r[i] \in Anc[baseTip] /\ Height[r[i]] = start + i - 1
           /\ start =< Height[baseTip] => Len(r) > 0
  <1> DEFINE last == Smaller(Height[baseTip], start + count - 1)
             m == last - start + 1
  <1>0. baseTip \in Block /\ Height[baseTip] \in Nat
    BY HeightType DEF TypeOK
  <1>1. /\ last \in Nat /\ last =< Height[baseTip] /\ m \in Int
        /\ start =< Height[baseTip] => m > 0
    BY <1>0 DEF Smaller
  <1>2. r = [i \in 1 .. m |-> AncestorAt(baseTip, start + i - 1)]
    BY DEF GetBlockRange
  <1> HIDE DEF last
  <1>3. ASSUME NEW i \in 1 .. m
        PROVE  /\ r[i] \in Anc[baseTip] /\ r[i] \in Block
               /\ Height[r[i]] = start + i - 1
    <2>1. r[i] = AncestorAt(baseTip, start + i - 1)
      BY <1>2
    <2>2. start + i - 1 \in Nat /\ start + i - 1 =< Height[baseTip]
      BY <1>0, <1>1
    <2> QED BY <1>0, <2>1, <2>2, AncestorAtHeight
  <1> HIDE DEF m
  <1>4. r \in [1 .. m -> Block]
    BY <1>2, <1>3
  <1> DEFINE n == IF m > 0 THEN m ELSE 0
  <1>5. n \in Nat /\ 1 .. m = 1 .. n
    BY <1>1
  <1> HIDE DEF n
  <1>6. r \in [1 .. n -> Block]
    BY <1>4, <1>5
  <1>7. r \in Seq(Block)
    BY <1>5, <1>6, SeqDef
  <1>8. Len(r) = n
    BY <1>5, <1>6, <1>7, LenProperties
  <1> QED BY <1>1, <1>3, <1>5, <1>7, <1>8 DEF n

LEMMA NumbersType ==
    ASSUME TypeOK
    PROVE  /\ Increased \in Nat
           /\ Requested \in Nat \ {0} /\ Requested >= 3
  BY SyncAssumption DEF TypeOK, Increased, Requested, Larger, Smaller

-----------------------------------------------------------------------------
(* The lowest block of a main chain is below all that the base has. *)
LEMMA RootOnBase ==
    ASSUME TypeOK, BaseInv, NEW t, Rooted(t), Main(t) # {}
    PROVE  /\ Lowest(t) \in Block /\ Height[Lowest(t)] \in Nat
           /\ Lowest(t) \in Anc[FinalBlock] /\ Lowest(t) \in Anc[baseTip]
           /\ Height[Lowest(t)] =< FinalHeight
  <1>1. Lowest(t) \in Block /\ Height[Lowest(t)] \in Nat
    BY LowestOfMain, KnownType, HeightType
  <1>2. Lowest(t) \in Anc[FinalBlock]
    BY DEF Rooted
  <1>3. /\ FinalHeight \in Nat /\ FinalBlock \in Block /\ Height[FinalBlock] = FinalHeight
        /\ Anc[FinalBlock] \subseteq Anc[baseTip]
    BY FinalBlockOnBase
  <1>4. Lowest(t) = FinalBlock \/ Height[Lowest(t)] < Height[FinalBlock]
    BY <1>2, <1>3, AncHeight
  <1> QED BY <1>1, <1>2, <1>3, <1>4

(* SetTip for a block above the lowest one of the main chain. *)
LEMMA TipSetAboveRoot ==
    ASSUME NEW t, TableInv(t), NEW b \in Block, Lowest(t) \in Anc[b], CanSetTip(t, b),
           NEW u, u = SetTip(t, b)
    PROVE  /\ ReorgAllowed(t, b)
           /\ TableInv(u) /\ Main(u) # {}
           /\ Tip(u) = b /\ Lowest(u) = Lowest(t)
           /\ Known(u) = Known(t) \cup {b}
  <1>1. ReorgAllowed(t, b)
    BY AncParent DEF ReorgAllowed
  <1>2. Main(t) # {}
    BY DEF CanSetTip
  <1>3. NewTip(t, u, b) /\ Known(u) = Known(t) \cup {b} /\ RootKept(t, u, b)
    BY <1>1, SetTipCorrect
  <1>4. /\ TableInv(u) /\ b \in Main(u) /\ \A c \in Main(u) : Height[c] =< Height[b]
    BY <1>3 DEF NewTip
  <1>5. /\ Lowest(t) \in Main(u) /\ \A c \in Main(u) : Height[Lowest(t)] =< Height[c]
    BY <1>2, <1>3 DEF RootKept
  <1>6. Tip(u) = b
    BY <1>4, EndsOfMain
  <1>7. Lowest(u) = Lowest(t)
    BY <1>4, <1>5, EndsOfMain
  <1> QED BY <1>1, <1>3, <1>4, <1>6, <1>7

(* The base chain stays as it is. *)
LEMMA BaseStays ==
    ASSUME UNCHANGED base
    PROVE  /\ baseTip' = baseTip /\ baseHighest' = baseHighest
           /\ FinalHeight' = FinalHeight /\ FinalBlock' = FinalBlock
           /\ BaseInv => BaseInv'
  <1>1. baseTip' = baseTip /\ baseHighest' = baseHighest
    BY DEF base
  <1>2. FinalHeight' = FinalHeight /\ FinalBlock' = FinalBlock
    BY <1>1 DEF FinalHeight, FinalBlock
  <1> QED BY <1>1, <1>2 DEF BaseInv

(* The end of a step leaves only the database and the members of Sync. *)
LEMMA StepEnds ==
    ASSUME Inv, UNCHANGED base, EndStep, ChainInv', saves' = <<>>,
           numBlocks' \in Nat, faults' \in Nat, nextStartHeight' \in Nat \cup {-1},
           nextStartHeight' # -1 =>
              Main(table') # {} /\ Height[Lowest(table')] =< nextStartHeight'
    PROVE  Inv'
  <1>1. /\ pc' = "idle" /\ genesisHeight' = 0 /\ blocks' = <<>> /\ attached' = 0
        /\ oldTip' = NoBlock /\ attaches' = <<>>
    BY DEF EndStep, ResetLocals
  <1>2. /\ baseTip' = baseTip /\ baseHighest' = baseHighest /\ FinalHeight' = FinalHeight
        /\ BaseInv'
    BY BaseStays DEF Inv
  <1>3. FinalHeight \in Nat
    BY FinalBlockOnBase DEF Inv
  <1>4. IsTable(table')
    BY DEF ChainInv, TableInv
  <1>5. TypeOK'
    BY <1>1, <1>2, <1>4 DEF Inv, TypeOK
  <1>6. SearchInv'
    BY <1>1 DEF SearchInv
  <1>7. ImportInv'
    BY <1>1, <1>2, <1>3 DEF ImportInv
  <1>8. BlocksInv' /\ AttachesInv'
    BY <1>1 DEF BlocksInv, AttachesInv
  <1> QED BY <1>2, <1>5, <1>6, <1>7, <1>8 DEF Inv

LEMMA InitInv == Init => Inv
  <1> SUFFICES ASSUME Init PROVE Inv
    OBVIOUS
  <1>1. /\ baseTip \in Block /\ Height[baseTip] = 0 /\ baseHighest = 0
        /\ table = EmptyTable /\ saves = <<>> /\ seen = {} /\ numBlocks = 1
        /\ nextStartHeight = -1 /\ pc = "idle" /\ genesisHeight = 0
        /\ blocks = <<>> /\ attached = 0 /\ oldTip = NoBlock /\ attaches = <<>>
        /\ faults = 0
    BY DEF Init
  <1>2. IsTable(table) /\ Known(table) = {}
    BY <1>1 DEF IsTable, Known, EmptyTable, NotStored
  <1>3. Main(table) = {} /\ Accounted(table) = {}
    BY <1>2, KnownType DEF Accounted
  <1>4. TableInv(table)
    BY <1>2, <1>3 DEF TableInv, UniqueHeights, BranchesLinked, AncestorClosed
  <1>5. TypeOK
    BY <1>1, <1>2 DEF TypeOK
  <1>6. FinalHeight = 0
    BY <1>1, SyncAssumption DEF FinalHeight, Larger
  <1>7. BaseInv
    BY <1>1, <1>6 DEF BaseInv
  <1>8. ChainInv
    BY <1>1, <1>2, <1>3, <1>4 DEF ChainInv, Rooted
  <1>9. SearchInv /\ ImportInv /\ BlocksInv /\ AttachesInv
    BY <1>1, <1>6 DEF SearchInv, ImportInv, BlocksInv, AttachesInv
  <1> QED BY <1>5, <1>7, <1>8, <1>9 DEF Inv

LEMMA BaseMoveInv ==
    ASSUME Inv, NEW b \in Block, BaseMove(b)
    PROVE  Inv'
  <1>1. /\ BaseIsRead
        /\ UNCHANGED <<table, saves, seen, numBlocks, nextStartHeight, pc, genesisHeight,
                       blocks, attached, oldTip, attaches, faults>>
    BY DEF BaseMove, chain, members, locals
  <1>2. /\ baseTip' \in Block /\ baseHighest' \in Nat /\ BaseInv'
        /\ FinalHeight' \in Nat /\ FinalHeight =< FinalHeight'
        /\ Anc[FinalBlock] \subseteq Anc[FinalBlock']
    BY FinalBlockKept DEF Inv
  <1>3. TypeOK'
    BY <1>1, <1>2 DEF Inv, TypeOK
  <1>4. /\ FinalHeight \in Nat /\ FinalHeight' \in Nat /\ genesisHeight \in Nat
    BY <1>2, FinalBlockOnBase DEF Inv, TypeOK
  <1>5. ChainInv'
    <2>1. Rooted(table)' /\ (pc = "attach" => Rooted(saves[1])')
      BY <1>1, <1>2 DEF Inv, ChainInv, Rooted
    <2> QED BY <1>1, <2>1 DEF Inv, ChainInv
  <1>6. SearchInv'
    BY <1>1 DEF Inv, SearchInv
  <1>7. ImportInv'
    <2>1. genesisHeight' =< FinalHeight'
      BY <1>1, <1>2, <1>4 DEF Inv, ImportInv
    <2> QED BY <1>1, <1>2, <2>1 DEF Inv, ImportInv
  <1>8. BlocksInv' /\ AttachesInv'
    BY <1>1 DEF BaseIsRead, BlocksInv, AttachesInv
  <1> QED BY <1>2, <1>3, <1>5, <1>6, <1>7, <1>8 DEF Inv

LEMMA BeginStepInv ==
    ASSUME Inv, BeginStep
    PROVE  Inv'
  <1>1. /\ pc = "idle"
        /\ genesisHeight' = Larger(0, Height[baseTip] - MaxReorgDepth)
        /\ pc' = IF StartHeight = -1 THEN "import" ELSE "query"
        /\ UNCHANGED base
        /\ UNCHANGED <<table, saves, seen, numBlocks, nextStartHeight,
                       blocks, attached, oldTip, attaches, faults>>
    BY DEF BeginStep, chain, members, locals
  <1>2. /\ baseTip' = baseTip /\ baseHighest' = baseHighest
        /\ FinalHeight' = FinalHeight /\ FinalBlock' = FinalBlock /\ BaseInv'
    BY <1>1, BaseStays DEF Inv
  <1>3. genesisHeight' \in Nat /\ genesisHeight' =< FinalHeight
    <2>1. /\ Height[baseTip] \in Nat /\ baseHighest \in Nat /\ Height[baseTip] =< baseHighest
          /\ MaxReorgDepth \in Nat
      BY HeightType, SyncAssumption DEF Inv, TypeOK, BaseInv
    <2>2. /\ Height[baseTip] - MaxReorgDepth \in Int /\ baseHighest - MaxReorgDepth \in Int
          /\ Height[baseTip] - MaxReorgDepth =< baseHighest - MaxReorgDepth
      BY <2>1
    <2>3. genesisHeight' =< FinalHeight
      BY <1>1, <2>2, LargerGrows DEF FinalHeight
    <2>4. genesisHeight' \in Nat
      BY <1>1, <2>2 DEF Larger
    <2> QED BY <2>3, <2>4
  <1>4. TypeOK'
    BY <1>1, <1>2, <1>3 DEF Inv, TypeOK
  <1>5. StartHeight = -1 => Main(table) = {} /\ nextStartHeight = -1
    <2>1. ASSUME StartHeight = -1, Main(table) # {} PROVE FALSE
      <3>1. GetTipHeight(table) \in Nat
        BY <2>1, TipHeight, TipOfMain, KnownType, HeightType
      <3> QED BY <2>1, <3>1 DEF StartHeight
    <2> QED BY <2>1 DEF StartHeight
  <1>6. StartHeight # -1 => Main(table) # {}
    BY DEF StartHeight, GetTipHeight, Inv, SearchInv
  <1>7. ChainInv'
    BY <1>1, <1>2 DEF Inv, ChainInv, Rooted
  <1>8. SearchInv'
    BY <1>1, <1>5, <1>6 DEF Inv, SearchInv
  <1>9. ImportInv'
    BY <1>1, <1>2, <1>3, <1>5 DEF ImportInv
  <1>10. BlocksInv' /\ AttachesInv'
    BY <1>1 DEF BlocksInv, AttachesInv
  <1> QED BY <1>2, <1>4, <1>7, <1>8, <1>9, <1>10 DEF Inv

-----------------------------------------------------------------------------
(* What is written to the database outside of a batch. *)
LEMMA ChainWritten ==
    ASSUME Inv, UNCHANGED base, pc' # "attach", saves' = <<>>,
           TableInv(table'), Known(table') \subseteq seen',
           Main(table') # {} => Lowest(table') \in Anc[FinalBlock]
    PROVE  ChainInv'
  <1>1. FinalBlock' = FinalBlock
    BY BaseStays
  <1> QED BY <1>1 DEF ChainInv, Rooted

LEMMA ChainStays ==
    ASSUME Inv, UNCHANGED base, UNCHANGED chain, pc # "attach", pc' # "attach"
    PROVE  ChainInv' /\ saves' = <<>> /\ saves = <<>>
  <1>1. UNCHANGED <<table, saves, seen>>
    BY DEF chain
  <1>2. FinalBlock' = FinalBlock
    BY BaseStays
  <1> QED BY <1>1, <1>2 DEF Inv, ChainInv, Rooted

(* The block that ImportNewTip imports is final and above the tip. *)
LEMMA ImportIsRight ==
    ASSUME Inv, pc = "import",
           NEW found, found = GetBlockRange(genesisHeight, 1), found # <<>>,
           NEW b, b = found[1]
    PROVE  /\ b \in Block /\ b \in Anc[FinalBlock]
           /\ ImportAllowed(table, b) /\ CanImportTip(table, b)
  <1>0. /\ TypeOK /\ BaseInv /\ genesisHeight \in Nat /\ genesisHeight =< FinalHeight
        /\ baseTip \in Block
    BY DEF Inv, TypeOK, ImportInv
  <1>1. /\ found \in Seq(Block)
        /\ \A i \in 1 .. Len(found) :
              found[i] \in Anc[baseTip] /\ Height[found[i]] = genesisHeight + i - 1
    BY <1>0, RangeIsSegment
  <1>2. 1 \in 1 .. Len(found)
    BY <1>1
  <1>3. b \in Anc[baseTip] /\ Height[b] = genesisHeight
    BY <1>0, <1>1, <1>2
  <1>4. b \in Block /\ b \in Anc[FinalBlock] /\ FinalBlock \in Block
    BY <1>0, <1>3, AncType, FinalBlockOnBase
  <1>5. ASSUME Main(table) # {}
        PROVE  Tip(table) \in Anc[b] /\ GetTipHeight(table) < Height[b]
    <2>1. Tip(table) \in Anc[FinalBlock] /\ Height[Tip(table)] < Height[b]
      BY <1>3, <1>5 DEF Inv, ImportInv
    <2>2. Height[Tip(table)] \in Nat /\ Height[b] \in Nat
      BY <1>4, <1>5, TipOfMain, KnownType, HeightType
    <2>3. Tip(table) \in Anc[b]
      BY <1>4, <2>1, <2>2, AncLinear
    <2> QED BY <1>5, <2>1, <2>3, TipHeight
  <1>6. CanImportTip(table, b)
    <2>1. CASE Main(table) = {}
      BY <1>0, <1>3, <2>1 DEF CanImportTip, GetTipHeight
    <2>2. CASE Main(table) # {}
      BY <1>5, <2>2 DEF CanImportTip
    <2> QED BY <2>1, <2>2
  <1> QED BY <1>4, <1>5, <1>6 DEF ImportAllowed

LEMMA ImportNewTipInv ==
    ASSUME Inv, ImportNewTip
    PROVE  Inv'
  <1> DEFINE found == GetBlockRange(genesisHeight, 1)
  <1>1. /\ pc = "import" /\ UNCHANGED base
        /\ nextStartHeight' = nextStartHeight /\ faults' = faults
    BY DEF ImportNewTip
  <1>2. nextStartHeight' = -1 /\ saves = <<>> /\ faults' \in Nat /\ numBlocks \in Nat
    BY <1>1 DEF Inv, SearchInv, ChainInv, TypeOK
  <1>3. CASE /\ found = <<>>
             /\ numBlocks' = IF blocks = <<>> THEN numBlocks ELSE Increased
             /\ UNCHANGED chain
             /\ EndStep
    <2>1. numBlocks' \in Nat
      BY <1>2, <1>3, NumbersType DEF Inv
    <2>2. pc' = "idle"
      BY <1>3 DEF EndStep
    <2>3. ChainInv' /\ saves' = <<>>
      BY <1>1, <1>3, <2>2, ChainStays
    <2> QED BY <1>1, <1>2, <1>3, <2>1, <2>3, StepEnds
  <1>4. CASE /\ found # <<>> /\ CanImportTip(table, found[1])
             /\ Write(ImportTip(table, found[1]), saves)
             /\ UNCHANGED numBlocks
             /\ EndStep
    <2> DEFINE b == found[1]
    <2> HIDE DEF found
    <2>1. /\ b \in Block /\ b \in Anc[FinalBlock] /\ ImportAllowed(table, b)
      BY <1>1, <1>4, ImportIsRight DEF found
    <2>2. NewTip(table, ImportTip(table, b), b) /\ Main(ImportTip(table, b)) = {b}
      BY <1>4, <2>1, ImportTipCorrect DEF Inv, ChainInv
    <2>3. /\ table' = ImportTip(table, b) /\ saves' = <<>>
          /\ Known(table') \subseteq seen' /\ pc' = "idle" /\ numBlocks' = numBlocks
      BY <1>2, <1>4 DEF Write, EndStep
    <2>4. TableInv(table') /\ Main(table') = {b}
      BY <2>2, <2>3 DEF NewTip
    <2>5. Lowest(table') = b
      BY <2>4, LowestOfMain
    <2>6. ChainInv'
      BY <1>1, <2>1, <2>3, <2>4, <2>5, ChainWritten
    <2> QED BY <1>1, <1>2, <1>4, <2>3, <2>6, StepEnds
  <1>5. CASE found # <<>> /\ ~ CanImportTip(table, found[1])
    BY <1>1, <1>5, ImportIsRight
  <1> QED BY <1>3, <1>4, <1>5 DEF ImportNewTip

-----------------------------------------------------------------------------
(* The search for the fork point. *)
LEMMA SearchAboveRoot ==
    ASSUME Inv, pc = "query"
    PROVE  /\ Main(table) # {} /\ saves = <<>>
           /\ StartHeight \in Nat /\ Height[Lowest(table)] =< StartHeight
           /\ Lowest(table) \in Block /\ Height[Lowest(table)] \in Nat
           /\ Lowest(table) \in Anc[FinalBlock] /\ Lowest(table) \in Anc[baseTip]
           /\ Lowest(table) \in Main(table) /\ Lowest(table) \in Known(table)
           /\ TableInv(table) /\ TypeOK /\ baseTip \in Block
  <1>1. Main(table) # {} /\ saves = <<>> /\ TableInv(table) /\ TypeOK /\ baseTip \in Block
    BY DEF Inv, SearchInv, ChainInv, TypeOK
  <1>2. /\ Lowest(table) \in Block /\ Height[Lowest(table)] \in Nat
        /\ Lowest(table) \in Anc[FinalBlock] /\ Lowest(table) \in Anc[baseTip]
    BY <1>1, RootOnBase DEF Inv, ChainInv
  <1>3. Lowest(table) \in Main(table) /\ Lowest(table) \in Known(table)
    BY <1>1, LowestOfMain, KnownType
  <1>4. StartHeight \in Nat /\ Height[Lowest(table)] =< StartHeight
    <2>1. CASE nextStartHeight = -1
      <3>1. /\ StartHeight = Height[Tip(table)] /\ Height[Tip(table)] \in Nat
            /\ Tip(table) \in Main(table)
        BY <1>1, <2>1, TipHeight, TipOfMain, KnownType, HeightType DEF StartHeight
      <3> QED BY <1>1, <3>1, LowestOfMain
    <2>2. CASE nextStartHeight # -1
      BY <2>2 DEF Inv, SearchInv, TypeOK, StartHeight
    <2> QED BY <2>1, <2>2
  <1> QED BY <1>1, <1>2, <1>3, <1>4

LEMMA LookFurtherDownInv ==
    ASSUME Inv, LookFurtherDown
    PROVE  Inv'
  <1> DEFINE found == GetBlockRange(StartHeight, Requested)
             low == GetLowestUnprunedHeight(table)
             next == Larger(low, StartHeight - Requested)
  <1>1. /\ pc = "query" /\ UNCHANGED base /\ UNCHANGED chain /\ faults' = faults
        /\ ~ FirstAttaches(found)
        /\ numBlocks' = Increased
        /\ nextStartHeight' = next
        /\ next < StartHeight => EndStep
    BY DEF LookFurtherDown
  <1>2. /\ Main(table) # {} /\ StartHeight \in Nat /\ Height[Lowest(table)] =< StartHeight
        /\ Height[Lowest(table)] \in Nat /\ Lowest(table) \in Anc[baseTip]
        /\ Lowest(table) \in Known(table) /\ TypeOK /\ baseTip \in Block
    BY <1>1, SearchAboveRoot
  <1>3. low = Height[Lowest(table)] /\ low \in Nat
    BY <1>2, LowestHeight
  <1>4. Requested \in Nat \ {0} /\ Increased \in Nat
    BY <1>2, NumbersType
  <1> HIDE DEF low, found
  <1>5. StartHeight # low
    <2> SUFFICES ASSUME StartHeight = low PROVE FALSE
      OBVIOUS
    <2>1. /\ found \in Seq(Block)
          /\ \A i \in 1 .. Len(found) :
                found[i] \in Anc[baseTip] /\ Height[found[i]] = StartHeight + i - 1
          /\ StartHeight =< Height[baseTip] => Len(found) > 0
      BY <1>2, <1>4, RangeIsSegment, SMTT(60) DEF found
    <2>2. StartHeight =< Height[baseTip]
      BY <1>2, <1>3, AncHeight, HeightType
    <2>3. found # <<>> /\ 1 \in 1 .. Len(found)
      BY <2>1, <2>2
    <2>4. found[1] \in Anc[baseTip] /\ Height[found[1]] = Height[Lowest(table)]
      BY <1>2, <1>3, <2>1, <2>3
    <2>5. found[1] = Lowest(table)
      BY <1>2, <2>4, AncSameHeight
    <2>6. FirstAttaches(found)
      BY <1>2, <2>3, <2>5 DEF FirstAttaches, CanSetTip
    <2> QED BY <1>1, <2>6
  <1>6. next \in Nat /\ low =< next /\ next < StartHeight
    BY <1>2, <1>3, <1>4, <1>5 DEF Larger
  <1> HIDE DEF next
  <1>7. EndStep /\ pc' = "idle" /\ table' = table
    BY <1>1, <1>6 DEF EndStep, chain
  <1>8. ChainInv' /\ saves' = <<>>
    BY <1>1, <1>7, ChainStays
  <1>9. /\ Main(table') # {} /\ Height[Lowest(table')] =< nextStartHeight'
        /\ nextStartHeight' \in Nat
    BY <1>1, <1>2, <1>3, <1>6, <1>7
  <1>10. numBlocks' \in Nat /\ faults' \in Nat
    BY <1>1, <1>4 DEF Inv, TypeOK
  <1> QED BY <1>1, <1>7, <1>8, <1>9, <1>10, StepEnds

-----------------------------------------------------------------------------
(***************************************************************************)
(* The branch that is reactivated when f attaches to the chainstate.  It   *)
(* is a chain that ends right below f; and either f is on the main chain's *)
(* own ancestry, or what is attached first has its parent there.           *)
(***************************************************************************)
LEMMA OldForkShape ==
    ASSUME NEW t, TableInv(t), NEW f \in Block, CanSetTip(t, f), Lowest(t) \in Anc[f],
           NEW D, D = IF Parent[f] = NoBlock THEN {} ELSE GetForkBranch(t, Parent[f]),
           NEW A, A = SortByHeight(D)
    PROVE  /\ A \in Seq(Block)
           /\ \A i \in 1 .. Len(A) :
                 /\ A[i] \in Anc[f]
                 /\ Height[A[i]] = Height[f] + i - 1 - Len(A)
           /\ \/ f \in Anc[Tip(t)]
              \/ Len(A) = 0 /\ Parent[f] \in Main(t)
              \/ Len(A) > 0 /\ Parent[A[1]] \in Main(t)
  <1>0. /\ Main(t) # {} /\ Lowest(t) \in Main(t) /\ Tip(t) \in Main(t)
        /\ Main(t) \subseteq Known(t) /\ Known(t) \subseteq Block
        /\ \A c \in Block : Height[c] \in Nat
        /\ \A c \in Main(t) : Height[Lowest(t)] =< Height[c]
        /\ Lowest(t) \in Anc[Tip(t)]
    <2>1. Main(t) # {}
      BY DEF CanSetTip
    <2>2. /\ Lowest(t) \in Main(t) /\ Tip(t) \in Main(t)
          /\ \A c \in Main(t) : Height[Lowest(t)] =< Height[c]
      BY <2>1, LowestOfMain, TipOfMain
    <2>3. Lowest(t) \in Anc[Tip(t)]
      BY <2>2, MainIsLinear
    <2> QED BY <2>1, <2>2, <2>3, KnownType, HeightType
  <1>1. ASSUME D = {}
        PROVE  A \in Seq(Block) /\ Len(A) = 0
    BY <1>1, SortedEmpty
  <1>2. CASE Parent[f] = NoBlock
    <2>1. Height[f] = 0
      BY <1>2, ParentIsBlock
    <2>2. f = Lowest(t)
      BY <1>0, <2>1, AncHeight
    <2> QED BY <1>0, <1>1, <1>2, <2>2
  <1>3. CASE Parent[f] # NoBlock /\ Parent[f] \notin Known(t)
    <2>1. D = {}
      BY <1>0, <1>3, KnownType DEF GetForkBranch
    <2>2. f \in Known(t) /\ f \in Accounted(t)
      BY <1>3 DEF CanSetTip, Accounted
    <2>3. Parent[f] \in Accounted(t) /\ Parent[f] \in Block
      BY <1>3, <2>2, ParentIsBlock DEF TableInv, AncestorClosed
    <2>4. Parent[f] \in Anc[Lowest(t)]
      BY <1>0, <1>3, <2>3 DEF Accounted
    <2>5. f = Lowest(t)
      <3> SUFFICES ASSUME f # Lowest(t) PROVE FALSE
        OBVIOUS
      <3>1. Lowest(t) \in Anc[Parent[f]]
        BY AncUnfold
      <3>2. Parent[f] # Lowest(t)
        BY <1>0, <1>3
      <3>3. Height[Parent[f]] < Height[Lowest(t)] /\ Height[Lowest(t)] < Height[Parent[f]]
        BY <1>0, <2>3, <2>4, <3>1, <3>2, AncHeight
      <3> QED BY <1>0, <2>3, <3>3
    <2> QED BY <1>0, <1>1, <2>1, <2>5
  <1>4. CASE Parent[f] \in Main(t)
    <2>1. D = {}
      BY <1>4 DEF GetForkBranch, OffMain
    <2> QED BY <1>1, <1>4, <2>1
  <1>5. CASE Parent[f] \in OffMain(t)
    <2> DEFINE p == Parent[f]
    <2>1. p \in OffMain(t) /\ p \in Block /\ p \in Known(t) /\ p # NoBlock
      BY <1>5, KnownType, BlocksAssumption
    <2>2. D = PathToMain(t, p)
      BY <2>1, ForkBranchCorrect
    <2>3. PICK l \in PathToMain(t, p) :
              /\ \A c \in PathToMain(t, p) : Height[l] =< Height[c]
              /\ \A d \in Anc[p] : Height[l] =< Height[d] => d \in PathToMain(t, p)
              /\ (\E x \in Main(t) : Height[x] < Height[l]) => Parent[l] \in Main(t)
      BY <2>1, ForkBranchShape
    <2> HIDE DEF p
    <2>4. l \in Anc[p] /\ l \in Block /\ l \in D /\ Height[l] \in Nat
      BY <1>0, <2>1, <2>2, <2>3, AncType DEF PathToMain
    <2>5. D = {c \in Anc[p] : Height[l] =< Height[c]}
      BY <2>2, <2>3 DEF PathToMain
    <2>6. Height[l] =< Height[p] /\ Height[p] \in Nat
      BY <1>0, <2>1, <2>4, AncHeight
    <2>7. A = Segment(p, Height[l])
      BY <2>1, <2>4, <2>5, <2>6, SegmentSorted
    <2>8. /\ A \in Seq(Block) /\ Len(A) > 0 /\ A[1] = l
          /\ \A i \in 1 .. Len(A) :
                A[i] \in Anc[f] /\ Height[A[i]] = Height[f] + i - 1 - Len(A)
      <3>1. p = Parent[f]
        BY DEF p
      <3> QED BY <2>1, <2>4, <2>7, <3>1, SegmentBelow
    <2>9. f \in Anc[Tip(t)] \/ Parent[l] \in Main(t)
      <3> SUFFICES ASSUME f # Lowest(t)
                   PROVE  Parent[l] \in Main(t)
        BY <1>0
      <3>1. Lowest(t) \in Anc[p]
        BY AncUnfold DEF p
      <3>2. Lowest(t) \notin PathToMain(t, p)
        BY <1>0, <2>1, <3>1 DEF PathToMain, OffMain
      <3>3. Height[Lowest(t)] < Height[l]
        BY <1>0, <2>3, <2>4, <3>1, <3>2
      <3> QED BY <1>0, <2>3, <3>3
    <2> QED BY <2>8, <2>9
  <1> QED BY <1>0, <1>2, <1>3, <1>4, <1>5 DEF OffMain

(* The first block of those received is above the lowest one stored. *)
LEMMA FoundAboveRoot ==
    ASSUME Inv, pc = "query", NEW found \in Seq(Block), found # <<>>,
           \A i \in 1 .. Len(found) :
              found[i] \in Anc[baseTip] /\ Height[found[i]] = StartHeight + i - 1
    PROVE  found[1] \in Block /\ Lowest(table) \in Anc[found[1]]
  <1>1. /\ Lowest(table) \in Anc[baseTip] /\ Height[Lowest(table)] =< StartHeight
        /\ StartHeight \in Nat /\ baseTip \in Block
    BY SearchAboveRoot
  <1>2. found[1] \in Anc[baseTip] /\ Height[found[1]] = StartHeight
    BY <1>1
  <1> QED BY <1>1, <1>2, AncType, AncLinear

LEMMA AttachBlocksInv ==
    ASSUME Inv, NEW found \in Seq(Block),
           \A i \in 1 .. Len(found) :
              found[i] \in Anc[baseTip] /\ Height[found[i]] = StartHeight + i - 1,
           AttachBlocks(found), faults' \in Nat
    PROVE  Inv'
  <1> DEFINE f == found[1]
             m == Len(found)
             last == found[m]
             A == SortByHeight(OldForkBranch(found))
  <1>1. /\ pc = "query" /\ found # <<>> /\ CanSetTip(table, f)
        /\ Write(SetTip(table, f), saves)
        /\ blocks' = found /\ attaches' = A \o found /\ attached' = 1
        /\ oldTip' = Tip(table) /\ nextStartHeight' = -1 /\ pc' = "begin"
        /\ UNCHANGED base /\ UNCHANGED <<numBlocks, genesisHeight>>
    BY DEF AttachBlocks, FirstAttaches
  <1>2. /\ Main(table) # {} /\ saves = <<>> /\ StartHeight \in Nat
        /\ Lowest(table) \in Anc[FinalBlock] /\ TableInv(table) /\ TypeOK /\ baseTip \in Block
        /\ Height[Lowest(table)] \in Nat /\ Lowest(table) \in Main(table)
    BY <1>1, SearchAboveRoot
  <1>3. f \in Block /\ Lowest(table) \in Anc[f]
    BY <1>1, FoundAboveRoot
  <1>4. /\ TableInv(table') /\ Main(table') # {} /\ Tip(table') = f
        /\ Lowest(table') = Lowest(table) /\ Known(table') = Known(table) \cup {f}
        /\ saves' = <<>> /\ Known(table') \subseteq seen'
    <2>1. table' = SetTip(table, f) /\ saves' = <<>> /\ Known(table') \subseteq seen'
      BY <1>1, <1>2 DEF Write
    <2> QED BY <1>1, <1>2, <1>3, <2>1, TipSetAboveRoot
  <1>5. /\ FinalHeight' = FinalHeight /\ baseTip' = baseTip /\ baseHighest' = baseHighest
        /\ BaseInv'
    BY <1>1, BaseStays DEF Inv
  <1>6. ChainInv'
    BY <1>1, <1>2, <1>4, ChainWritten
  <1>7. /\ m \in Nat /\ m > 0 /\ last \in Anc[baseTip] /\ last \in Block
        /\ Height[last] = StartHeight + m - 1
        /\ Height[f] = StartHeight
    BY <1>1, <1>2
  <1>8. OldForkBranch(found) =
            IF Parent[f] = NoBlock THEN {} ELSE GetForkBranch(table, Parent[f])
    BY DEF OldForkBranch
  <1> HIDE DEF f, m, last, A
  <1>9. /\ A \in Seq(Block)
        /\ \A i \in 1 .. Len(A) :
              A[i] \in Anc[f] /\ Height[A[i]] = Height[f] + i - 1 - Len(A)
        /\ \/ f \in Anc[Tip(table)]
           \/ Len(A) = 0 /\ Parent[f] \in Main(table)
           \/ Len(A) > 0 /\ Parent[A[1]] \in Main(table)
    BY <1>1, <1>2, <1>3, <1>8, OldForkShape DEF A
  <1>10. /\ A \o found \in Seq(Block)
         /\ Len(A \o found) = Len(A) + m
         /\ \A i \in 1 .. Len(A) + m :
               (A \o found)[i] = IF i =< Len(A) THEN A[i] ELSE found[i - Len(A)]
    BY <1>9, ConcatProperties DEF m
  <1>11. TypeOK'
    <2>1. Tip(table) \in Block
      BY <1>2, TipOfMain, KnownType
    <2> QED BY <1>1, <1>2, <1>4, <1>5, <1>10, <2>1 DEF TypeOK, TableInv
  <1>12. SearchInv'
    BY <1>1 DEF SearchInv
  <1>13. ImportInv'
    BY <1>1, <1>5 DEF Inv, ImportInv
  <1>14. BlocksInv'
    <2>1. \A i \in 1 .. m : Height[found[i]] = Height[found[1]] + i - 1
      BY <1>2, <1>7 DEF m, f
    <2> QED BY <1>1, <1>4, <1>5, <1>7, <2>1 DEF BlocksInv, m, f
  <1>15. AttachesInv'
    <2> DEFINE n == Len(A) + m
    <2>1. /\ oldTip' \in Known(table') /\ Lowest(table') \in Anc[oldTip']
      <3>1. Tip(table) \in Main(table) /\ Tip(table) \in Known(table)
        BY <1>2, TipOfMain, KnownType
      <3>2. Lowest(table) \in Anc[Tip(table)]
        BY <1>2, <3>1, TipOfMain, MainIsLinear
      <3> QED BY <1>1, <1>4, <3>1, <3>2
    <2>2. Len(attaches') = n /\ n \in Nat /\ n > 0 /\ blocks'[Len(blocks')] = last
      BY <1>1, <1>7, <1>9, <1>10 DEF m, last
    <2>3. ASSUME NEW i \in 1 .. n
          PROVE  attaches'[i] \in Anc[last] /\ Height[attaches'[i]] = Height[last] + i - n
      <3>1. Len(A) \in Nat /\ f \in Anc[last] /\ Anc[f] \subseteq Anc[last]
        <4>1. f \in Anc[baseTip] /\ Height[f] =< Height[last]
          BY <1>2, <1>7 DEF f, m
        <4>2. f \in Anc[last]
          BY <1>2, <1>7, <4>1, AncLinear
        <4> QED BY <1>7, <1>9, <4>2, AncTransitive
      <3>2. CASE i =< Len(A)
        <4>1. attaches'[i] = A[i] /\ i \in 1 .. Len(A)
          BY <1>1, <1>10, <3>1, <3>2
        <4>2. A[i] \in Anc[f] /\ Height[A[i]] = Height[f] + i - 1 - Len(A)
          BY <1>9, <4>1
        <4> QED BY <1>2, <1>7, <3>1, <4>1, <4>2
      <3>3. CASE i > Len(A)
        <4> DEFINE j == i - Len(A)
        <4>1. attaches'[i] = found[j] /\ j \in 1 .. m
          BY <1>1, <1>7, <1>10, <3>1, <3>3
        <4>2. found[j] \in Anc[baseTip] /\ Height[found[j]] = StartHeight + j - 1
          BY <4>1 DEF m
        <4>3. Height[found[j]] =< Height[last]
          BY <1>2, <1>7, <4>1, <4>2
        <4>4. found[j] \in Anc[last]
          BY <1>2, <1>7, <4>2, <4>3, AncLinear
        <4>5. Height[found[j]] = Height[last] + i - n
          BY <1>2, <1>7, <3>1, <4>2
        <4> QED BY <4>1, <4>4, <4>5
      <3> QED BY <3>1, <3>2, <3>3
    <2>4. \E i \in 1 .. n : \E c \in {attaches'[i], Parent[attaches'[i]]} :
             c \in Anc[oldTip'] /\ Height[Lowest(table')] =< Height[c]
      <3>0. \A c \in Main(table) : c \in Anc[Tip(table)] /\ Height[Lowest(table)] =< Height[c]
        BY <1>2, TipOfMain, LowestOfMain, MainIsLinear
      <3>1. CASE f \in Anc[Tip(table)]
        <4>1. Len(A) + 1 \in 1 .. n /\ attaches'[Len(A) + 1] = f
          BY <1>1, <1>7, <1>9, <1>10 DEF f
        <4>2. Height[Lowest(table)] =< Height[f]
          BY <1>2, <1>3, <1>7, AncHeight
        <4> QED BY <1>1, <1>4, <3>1, <4>1, <4>2
      <3>2. CASE Len(A) = 0 /\ Parent[f] \in Main(table)
        <4>1. 1 \in 1 .. n /\ attaches'[1] = f
          BY <1>1, <1>7, <1>9, <1>10, <3>2 DEF f
        <4> QED BY <1>1, <1>4, <3>0, <3>2, <4>1
      <3>3. CASE Len(A) > 0 /\ Parent[A[1]] \in Main(table)
        <4>1. 1 \in 1 .. n /\ attaches'[1] = A[1]
          BY <1>1, <1>7, <1>9, <1>10, <3>3
        <4> QED BY <1>1, <1>4, <3>0, <3>3, <4>1
      <3> QED BY <1>9, <3>1, <3>2, <3>3
    <2> HIDE DEF n
    <2> QED BY <1>1, <2>1, <2>2, <2>3, <2>4 DEF AttachesInv
  <1> QED BY <1>5, <1>6, <1>11, <1>12, <1>13, <1>14, <1>15 DEF Inv

LEMMA AttachFirstInv ==
    ASSUME Inv, AttachFirst
    PROVE  Inv'
  <1>1. PICK found : found = GetBlockRange(StartHeight, Requested)
    OBVIOUS
  <1>2. AttachBlocks(found) /\ faults' = faults /\ pc = "query"
    BY <1>1 DEF AttachFirst, AttachBlocks
  <1>3. TypeOK /\ StartHeight \in Nat /\ Requested \in Nat \ {0} /\ faults \in Nat
    BY <1>2, SearchAboveRoot, NumbersType DEF TypeOK
  <1>4. /\ found \in Seq(Block)
        /\ \A i \in 1 .. Len(found) :
              found[i] \in Anc[baseTip] /\ Height[found[i]] = StartHeight + i - 1
    BY <1>1, <1>3, RangeIsSegment, ZenonT(60)
  <1> QED BY <1>2, <1>3, <1>4, AttachBlocksInv

(* A short answer is a part of the main chain as well. *)
LEMMA ShortAnswerShape ==
    ASSUME Inv, AttachShort
    PROVE  \E found \in Seq(Block) :
              /\ AttachBlocks(found)
              /\ \A i \in 1 .. Len(found) :
                    found[i] \in Anc[baseTip] /\ Height[found[i]] = StartHeight + i - 1
  <1>1. PICK r : r = GetBlockRange(StartHeight, Requested)
    OBVIOUS
  <1>2. pc = "query"
    BY DEF AttachShort
  <1>3. PICK n \in 1 .. Len(r) - 1 : AttachBlocks(SubSeq(r, 1, n))
    BY <1>1 DEF AttachShort, ShortAnswers
  <1>4. TypeOK /\ StartHeight \in Nat /\ Requested \in Nat \ {0}
    BY <1>2, SearchAboveRoot, NumbersType
  <1>5. /\ r \in Seq(Block)
        /\ \A i \in 1 .. Len(r) :
              r[i] \in Anc[baseTip] /\ Height[r[i]] = StartHeight + i - 1
    BY <1>1, <1>4, RangeIsSegment
  <1>6. PICK found : found = SubSeq(r, 1, n)
    OBVIOUS
  <1>7. /\ found \in Seq(Block) /\ Len(found) = n
        /\ \A i \in 1 .. n : found[i] = r[i]
    BY <1>3, <1>5, <1>6
  <1>8. \A i \in 1 .. Len(found) :
           found[i] \in Anc[baseTip] /\ Height[found[i]] = StartHeight + i - 1
    <2> SUFFICES ASSUME NEW i \in 1 .. n
                 PROVE  found[i] \in Anc[baseTip] /\ Height[found[i]] = StartHeight + i - 1
      BY <1>7
    <2>1. i \in 1 .. Len(r) /\ found[i] = r[i]
      BY <1>3, <1>5, <1>7
    <2> QED BY <1>5, <2>1
  <1>9. AttachBlocks(found)
    BY <1>3, <1>6
  <1> QED BY <1>7, <1>8, <1>9

LEMMA AttachShortInv ==
    ASSUME Inv, AttachShort
    PROVE  Inv'
  <1>1. PICK found \in Seq(Block) :
           /\ AttachBlocks(found)
           /\ \A i \in 1 .. Len(found) :
                 found[i] \in Anc[baseTip] /\ Height[found[i]] = StartHeight + i - 1
    BY ShortAnswerShape
  <1>2. faults' \in Nat
    BY DEF AttachShort, Inv, TypeOK
  <1> QED BY <1>1, <1>2, AttachBlocksInv

-----------------------------------------------------------------------------
LEMMA BeginBatchInv ==
    ASSUME Inv, BeginBatch
    PROVE  Inv'
  <1>1. /\ pc = "begin" /\ pc' = "attach" /\ UNCHANGED base
        /\ table' = table /\ saves' = Append(saves, table)
        /\ UNCHANGED <<numBlocks, nextStartHeight, genesisHeight, blocks, attached,
                       oldTip, attaches, faults>>
    BY DEF BeginBatch, Write, members, locals
  <1>2. saves = <<>> /\ TableInv(table) /\ Rooted(table)
    BY <1>1 DEF Inv, ChainInv
  <1>3. saves' = <<table>> /\ saves' # <<>> /\ Len(saves') = 1 /\ saves'[1] = table
    BY <1>1, <1>2
  <1>4. /\ FinalHeight' = FinalHeight /\ FinalBlock' = FinalBlock
        /\ baseTip' = baseTip /\ baseHighest' = baseHighest /\ BaseInv'
    BY <1>1, BaseStays DEF Inv
  <1>5. Known(saves'[1]) \subseteq seen'
    BY <1>1, <1>3 DEF BeginBatch, Write
  <1>6. ChainInv'
    <2>1. Rooted(table)' /\ Rooted(saves[1])'
      BY <1>1, <1>2, <1>3, <1>4 DEF Rooted
    <2> QED BY <1>1, <1>2, <1>3, <1>5, <2>1 DEF ChainInv
  <1>7. TypeOK'
    <2>1. saves' \in Seq([Block -> Nat \cup {NotStored}])
      BY <1>2, <1>3 DEF TableInv, IsTable
    <2> QED BY <1>1, <1>4, <2>1 DEF Inv, TypeOK
  <1>8. SearchInv'
    BY <1>1 DEF Inv, SearchInv
  <1>9. ImportInv'
    BY <1>1, <1>4 DEF Inv, ImportInv
  <1>10. BlocksInv'
    BY <1>1, <1>4 DEF Inv, BlocksInv
  <1>11. AttachesInv'
    BY <1>1 DEF Inv, AttachesInv
  <1> QED BY <1>4, <1>6, <1>7, <1>8, <1>9, <1>10, <1>11 DEF Inv

(* The next block of the batch goes on top of the tip. *)
LEMMA NextBlockAttaches ==
    ASSUME Inv, pc = "attach", attached < Len(blocks), NEW b, b = blocks[attached + 1]
    PROVE  /\ b \in Block /\ CanSetTip(table, b) /\ Tip(table) = Parent[b]
           /\ Lowest(table) \in Anc[b]
  <1> DEFINE k == attached
  <1>1. /\ k \in 1 .. Len(blocks) /\ k + 1 \in 1 .. Len(blocks)
        /\ \A i \in 1 .. Len(blocks) :
              blocks[i] \in Anc[baseTip] /\ Height[blocks[i]] = Height[blocks[1]] + i - 1
        /\ Main(table) # {} /\ Tip(table) = blocks[k]
        /\ TableInv(table) /\ baseTip \in Block /\ 1 \in 1 .. Len(blocks)
    BY DEF Inv, BlocksInv, ChainInv, TypeOK
  <1> HIDE DEF k
  <1>2. /\ b = blocks[k + 1] /\ b \in Anc[baseTip] /\ Tip(table) \in Anc[baseTip]
        /\ b \in Block /\ Tip(table) \in Block /\ blocks[1] \in Block
    BY <1>1, AncType DEF k
  <1>3. /\ Height[b] = Height[blocks[1]] + k /\ Height[Tip(table)] = Height[blocks[1]] + k - 1
        /\ Height[b] \in Nat /\ Height[Tip(table)] \in Nat /\ Height[blocks[1]] \in Nat
    BY <1>1, <1>2, HeightType, SMTT(30)
  <1>4. Height[b] # 0 /\ Height[b] = Height[Tip(table)] + 1
    <2>1. k \in Nat /\ k > 0
      BY <1>1
    <2> QED BY <1>3, <2>1
  <1>5. Parent[b] # NoBlock
    BY <1>2, <1>4, ParentIsBlock
  <1>6. /\ Parent[b] \in Anc[baseTip] /\ Height[b] = Height[Parent[b]] + 1
        /\ Height[Parent[b]] \in Nat
    BY <1>1, <1>2, <1>5, AncParent, ParentBelow
  <1>7. Height[Parent[b]] = Height[Tip(table)]
    BY <1>3, <1>4, <1>6
  <1>8. Tip(table) = Parent[b]
    BY <1>1, <1>2, <1>6, <1>7, AncSameHeight
  <1>9. Tip(table) \in Main(table) /\ Tip(table) \in Known(table)
    BY <1>1, TipOfMain, KnownType
  <1>10. Lowest(table) \in Anc[Tip(table)]
    BY <1>1, <1>9, TipOfMain, LowestOfMain, MainIsLinear
  <1>11. Anc[Tip(table)] \subseteq Anc[b]
    BY <1>2, <1>5, <1>8, AncSelf, AncParent, AncTransitive
  <1> QED BY <1>1, <1>2, <1>8, <1>9, <1>10, <1>11 DEF CanSetTip

LEMMA AttachNextInv ==
    ASSUME Inv, AttachNext
    PROVE  Inv'
  <1>1. PICK b : b = blocks[attached + 1]
    OBVIOUS
  <1>2. /\ pc = "attach" /\ attached < Len(blocks) /\ UNCHANGED base
        /\ UNCHANGED <<numBlocks, nextStartHeight, genesisHeight, blocks,
                       oldTip, attaches, faults>>
    BY DEF AttachNext, members
  <1>3. /\ b \in Block /\ CanSetTip(table, b) /\ Tip(table) = Parent[b]
        /\ Lowest(table) \in Anc[b]
    BY <1>1, <1>2, NextBlockAttaches
  <1>4. /\ table' = SetTip(table, b) /\ saves' = saves
        /\ seen' = seen \cup Known(IF saves = <<>> THEN SetTip(table, b) ELSE saves[1])
        /\ attached' = attached + 1 /\ pc' = pc
    BY <1>1, <1>3 DEF AttachNext, Write
  <1>5. /\ TableInv(table) /\ Len(saves) = 1 /\ TableInv(saves[1]) /\ Rooted(saves[1])
        /\ Rooted(table) /\ Main(table) # {}
    BY <1>2, <1>3 DEF Inv, ChainInv, CanSetTip
  <1>6. /\ TableInv(table') /\ Main(table') # {} /\ Tip(table') = b
        /\ Lowest(table') = Lowest(table) /\ Known(table') = Known(table) \cup {b}
    BY <1>3, <1>4, <1>5, TipSetAboveRoot
  <1>7. /\ FinalHeight' = FinalHeight /\ FinalBlock' = FinalBlock
        /\ baseTip' = baseTip /\ baseHighest' = baseHighest /\ BaseInv'
    BY <1>2, BaseStays DEF Inv
  <1>8. ChainInv'
    <2>1. saves # <<>>
      BY <1>5
    <2>2. Rooted(table)' /\ Rooted(saves[1])'
      BY <1>4, <1>5, <1>6, <1>7 DEF Rooted
    <2>3. Known(saves'[1]) \subseteq seen'
      BY <1>4, <2>1
    <2> QED BY <1>2, <1>4, <1>5, <1>6, <2>1, <2>2, <2>3 DEF ChainInv
  <1>9. TypeOK'
    BY <1>2, <1>4, <1>6, <1>7 DEF Inv, TypeOK, TableInv
  <1>10. SearchInv'
    BY <1>2, <1>4, <1>6 DEF Inv, SearchInv
  <1>11. ImportInv'
    BY <1>2, <1>4, <1>7 DEF Inv, ImportInv
  <1>12. BlocksInv'
    <2>1. attached' \in 1 .. Len(blocks)
      BY <1>2, <1>4 DEF Inv, TypeOK, BlocksInv
    <2>2. \A i \in 1 .. Len(blocks) :
              blocks[i] \in Anc[baseTip] /\ Height[blocks[i]] = Height[blocks[1]] + i - 1
      BY <1>2 DEF Inv, BlocksInv
    <2> QED BY <1>1, <1>2, <1>4, <1>6, <1>7, <2>1, <2>2 DEF BlocksInv
  <1>13. AttachesInv'
    BY <1>2, <1>4, <1>6 DEF Inv, AttachesInv
  <1> QED BY <1>7, <1>8, <1>9, <1>10, <1>11, <1>12, <1>13 DEF Inv

LEMMA CommitBatchInv ==
    ASSUME Inv, CommitBatch
    PROVE  Inv'
  <1>1. /\ pc = "attach" /\ attached = Len(blocks) /\ UNCHANGED base
        /\ table' = table /\ saves' = <<>> /\ Known(table') \subseteq seen'
        /\ pc' \in {"finish", "notify"}
        /\ pc' = "notify" => oldTip # blocks[attached]
        /\ UNCHANGED <<numBlocks, nextStartHeight, genesisHeight, blocks, attached,
                       oldTip, attaches, faults>>
    BY DEF CommitBatch, Write, members, locals
  <1>2. /\ FinalHeight' = FinalHeight /\ FinalBlock' = FinalBlock
        /\ baseTip' = baseTip /\ baseHighest' = baseHighest /\ BaseInv'
    BY <1>1, BaseStays DEF Inv
  <1>3. ChainInv'
    BY <1>1, ChainWritten DEF Inv, ChainInv, Rooted
  <1>4. TypeOK'
    <2>1. saves' \in Seq([Block -> Nat \cup {NotStored}])
      BY <1>1
    <2>2. pc' \in {"idle", "query", "import", "begin", "attach", "notify", "finish"}
      BY <1>1
    <2> QED BY <1>1, <1>2, <2>1, <2>2 DEF Inv, TypeOK
  <1>5. SearchInv'
    BY <1>1 DEF Inv, SearchInv
  <1>6. ImportInv'
    BY <1>1, <1>2 DEF Inv, ImportInv
  <1>7. BlocksInv'
    BY <1>1, <1>2 DEF Inv, BlocksInv
  <1>8. AttachesInv'
    BY <1>1 DEF Inv, AttachesInv
  <1> QED BY <1>2, <1>3, <1>4, <1>5, <1>6, <1>7, <1>8 DEF Inv

-----------------------------------------------------------------------------
(***************************************************************************)
(* The notifications.  The fork point is on both chains, and the attaches  *)
(* reach down to it, so that either they end there or one is right on top. *)
(***************************************************************************)
LEMMA ForkPointCommon ==
    ASSUME Inv, pc = "notify"
    PROVE  /\ Main(table) # {} /\ TableInv(table) /\ oldTip \in Block
           /\ Tip(table) \in Block /\ Tip(table) \in Anc[baseTip]
           /\ ForkPoint \in Main(table) /\ ForkPoint \in Block
           /\ ForkPoint \in Anc[oldTip] /\ ForkPoint \in Anc[Tip(table)]
           /\ ForkHeight = Height[ForkPoint] /\ ForkHeight \in Nat
           /\ Detached = {c \in Anc[oldTip] : Height[c] > ForkHeight}
           /\ Detached \cap Main(table) = {}
           /\ \A c \in Anc[Tip(table)] : Height[c] >= ForkHeight => c \in Main(table)
  <1>1. /\ Main(table) # {} /\ TableInv(table) /\ oldTip \in Known(table)
        /\ Lowest(table) \in Anc[oldTip] /\ baseTip \in Block
        /\ Tip(table) = blocks[Len(blocks)] /\ Len(blocks) \in 1 .. Len(blocks)
        /\ blocks[Len(blocks)] \in Anc[baseTip]
    BY DEF Inv, TypeOK, ChainInv, BlocksInv, AttachesInv
  <1>2. /\ Tip(table) \in Anc[baseTip] /\ Tip(table) \in Block /\ oldTip \in Block
    BY <1>1, AncType, KnownType
  <1>3. /\ ForkOf(table, oldTip) \in Main(table) /\ ForkOf(table, oldTip) \in Anc[oldTip]
        /\ ForkOf(table, oldTip) \in Block
        /\ Detached = {c \in Anc[oldTip] : Height[c] > Height[ForkOf(table, oldTip)]}
        /\ Detached \cap Main(table) = {}
        /\ Detached # {} => \E l \in Detached :
              /\ l = CHOOSE b \in Detached : \A c \in Detached : Height[b] =< Height[c]
              /\ Parent[l] = ForkOf(table, oldTip)
              /\ Height[l] - 1 = Height[ForkOf(table, oldTip)]
    BY <1>1, ForkOfStored DEF Detached
  <1>4. ForkPoint = ForkOf(table, oldTip) /\ ForkHeight = Height[ForkOf(table, oldTip)]
    <2>1. CASE Detached = {}
      BY <2>1 DEF ForkPoint, ForkHeight, ForkOf, Detached
    <2>2. CASE Detached # {}
      <3>1. /\ Parent[LastDetached] = ForkOf(table, oldTip)
            /\ Height[LastDetached] - 1 = Height[ForkOf(table, oldTip)]
        BY <1>3, <2>2 DEF LastDetached
      <3> QED BY <2>2, <3>1 DEF ForkPoint, ForkHeight
    <2> QED BY <2>1, <2>2
  <1>5. /\ Tip(table) \in Main(table) /\ Lowest(table) \in Main(table)
        /\ \A c \in Main(table) :
              Height[c] =< Height[Tip(table)] /\ Height[Lowest(table)] =< Height[c]
    BY <1>1, TipOfMain, LowestOfMain
  <1>6. ForkPoint \in Anc[Tip(table)]
    BY <1>1, <1>3, <1>4, <1>5, MainIsLinear
  <1>7. ASSUME NEW c \in Anc[Tip(table)], Height[c] >= ForkHeight
        PROVE  c \in Main(table)
    <2>1. /\ Height[Lowest(table)] =< ForkHeight /\ Height[Lowest(table)] \in Nat
          /\ ForkHeight \in Nat /\ Height[c] \in Nat
      BY <1>2, <1>3, <1>4, <1>5, AncType, KnownType, HeightType
    <2>2. Height[c] >= Height[Lowest(table)]
      BY <1>7, <2>1
    <2>3. Main(table) = {d \in Anc[Tip(table)] : Height[d] >= Height[Lowest(table)]}
      BY <1>1, InvHasNoGaps DEF MainIsAncestry
    <2> QED BY <2>2, <2>3
  <1> QED BY <1>1, <1>2, <1>3, <1>4, <1>6, <1>7, HeightType

LEMMA AttachesReachFork ==
    ASSUME Inv, pc = "notify", NEW n, n = Len(attaches), NEW last, last = Tip(table)
    PROVE  /\ attaches \in Seq(Block) /\ n \in Nat /\ n > 0 /\ last \in Block
           /\ \A i \in 1 .. n :
                 /\ attaches[i] \in Anc[last] /\ attaches[i] \in Block
                 /\ Height[attaches[i]] = Height[last] + i - n
           /\ Height[last] \in Nat /\ ForkHeight =< Height[last]
           /\ Height[last] + 1 - n =< ForkHeight + 1
           /\ attaches[n] = last
           /\ OnlyDetaches <=> ForkPoint = last
           /\ ForkPoint = last <=> ForkHeight = Height[last]
  <1>1. /\ Main(table) # {} /\ TableInv(table) /\ oldTip \in Block
        /\ last \in Block
        /\ ForkPoint \in Main(table) /\ ForkPoint \in Block
        /\ ForkPoint \in Anc[oldTip] /\ ForkPoint \in Anc[last]
        /\ ForkHeight = Height[ForkPoint] /\ ForkHeight \in Nat
        /\ Detached = {c \in Anc[oldTip] : Height[c] > ForkHeight}
        /\ Detached \cap Main(table) = {}
    BY ForkPointCommon
  <1>2. last = blocks[Len(blocks)] /\ attaches \in Seq(Block)
    BY DEF Inv, TypeOK, BlocksInv
  <1>3. /\ n > 0 /\ oldTip # last
        /\ \A i \in 1 .. n :
              attaches[i] \in Anc[last] /\ Height[attaches[i]] = Height[last] + i - n
        /\ \E i \in 1 .. n : \E c \in {attaches[i], Parent[attaches[i]]} :
              c \in Anc[oldTip] /\ Height[Lowest(table)] =< Height[c]
    BY <1>2 DEF Inv, AttachesInv
  <1>4. /\ n \in Nat /\ Height[last] \in Nat /\ Anc[last] \subseteq Block
    BY <1>1, <1>2, HeightType, AncType
  <1>5. ForkHeight =< Height[last]
    BY <1>1, <1>4, AncHeight
  <1>6. Height[last] + 1 - n =< ForkHeight + 1
    <2>1. PICK i \in 1 .. n : \E c \in {attaches[i], Parent[attaches[i]]} :
              c \in Anc[oldTip] /\ Height[Lowest(table)] =< Height[c]
      BY <1>3
    <2>2. PICK c \in {attaches[i], Parent[attaches[i]]} :
              c \in Anc[oldTip] /\ Height[Lowest(table)] =< Height[c]
      BY <2>1
    <2>3. c \in Block /\ Height[c] \in Nat
      BY <1>1, <2>2, AncType, HeightType
    <2>4. /\ attaches[i] \in Anc[last] /\ attaches[i] \in Block
          /\ Height[attaches[i]] = Height[last] + i - n
      BY <1>3, <1>4
    <2>5. c \in Anc[last] /\ Height[attaches[i]] =< Height[c] + 1
      <3>1. CASE c = attaches[i]
        BY <2>3, <2>4, <3>1
      <3>2. CASE c = Parent[attaches[i]]
        <4>1. Parent[attaches[i]] # NoBlock
          BY <2>3, <3>2, BlocksAssumption
        <4>2. c \in Anc[last] /\ Height[attaches[i]] = Height[c] + 1
          BY <1>1, <2>4, <3>2, <4>1, AncParent, ParentBelow
        <4> QED BY <2>3, <4>2
      <3> QED BY <2>2, <3>1, <3>2
    <2>6. c \in Main(table)
      <3>1. Main(table) = {d \in Anc[last] : Height[d] >= Height[Lowest(table)]}
        BY <1>1, InvHasNoGaps DEF MainIsAncestry
      <3>2. Height[Lowest(table)] \in Nat
        BY <1>1, LowestOfMain, KnownType, HeightType
      <3> QED BY <2>2, <2>3, <2>5, <3>1, <3>2
    <2>7. Height[c] =< ForkHeight
      BY <1>1, <2>2, <2>3, <2>6
    <2> QED BY <1>1, <1>4, <2>3, <2>4, <2>5, <2>7, SMTT(30)
  <1>7. attaches[n] = last
    <2>1. n \in 1 .. n
      BY <1>3, <1>4
    <2>2. attaches[n] \in Anc[last] /\ Height[attaches[n]] = Height[last]
      BY <1>3, <1>4, <2>1
    <2> QED BY <1>1, <2>2, AncSelf, AncSameHeight
  <1>8. ForkPoint = last <=> ForkHeight = Height[last]
    BY <1>1, AncSelf, AncSameHeight
  <1>9. ASSUME ForkPoint = last PROVE Detached # {}
    <2>1. oldTip \in Anc[oldTip] /\ last \in Anc[oldTip] /\ Height[oldTip] \in Nat
      BY <1>1, <1>9, AncSelf, HeightType
    <2>2. Height[last] < Height[oldTip]
      BY <1>1, <1>3, <2>1, AncHeight
    <2>3. oldTip \in Detached
      BY <1>1, <1>8, <1>9, <2>1, <2>2
    <2> QED BY <2>3
  <1>10. OnlyDetaches <=> ForkPoint = last
    BY <1>7, <1>9 DEF OnlyDetaches
  <1> QED BY <1>1, <1>2, <1>3, <1>4, <1>5, <1>6, <1>7, <1>8, <1>10

(* The CHECKs of PushZmqBlocks hold. *)
LEMMA ChecksPass ==
    ASSUME Inv, pc = "notify"
    PROVE  OnlyDetaches \/ AttachChecks
  <1>0. PICK n, last : n = Len(attaches) /\ last = Tip(table)
    OBVIOUS
  <1>1. /\ n \in Nat /\ n > 0 /\ last \in Block
        /\ \A i \in 1 .. n :
              /\ attaches[i] \in Anc[last] /\ attaches[i] \in Block
              /\ Height[attaches[i]] = Height[last] + i - n
        /\ Height[last] \in Nat /\ ForkHeight =< Height[last]
        /\ Height[last] + 1 - n =< ForkHeight + 1
        /\ OnlyDetaches <=> ForkPoint = last
        /\ ForkPoint = last <=> ForkHeight = Height[last]
    BY <1>0, AttachesReachFork
  <1>2. /\ ForkPoint \in Anc[last] /\ ForkHeight = Height[ForkPoint] /\ ForkHeight \in Nat
    BY <1>0, ForkPointCommon
  <1> SUFFICES ASSUME ~ OnlyDetaches PROVE AttachChecks
    OBVIOUS
  <1>3. ForkHeight < Height[last]
    BY <1>1, <1>2
  <1>4. \E i \in 1 .. n : Height[attaches[i]] = ForkHeight + 1
    <2> DEFINE j == ForkHeight + 1 - Height[last] + n
    <2>1. j \in 1 .. n
      BY <1>1, <1>2, <1>3
    <2>2. Height[attaches[j]] = ForkHeight + 1
      BY <1>1, <1>2, <2>1
    <2> QED BY <2>1, <2>2
  <1>5. ASSUME NEW i \in 1 .. n, Height[attaches[i]] = ForkHeight + 1
        PROVE  Parent[attaches[i]] = ForkPoint
    <2>1. attaches[i] \in Anc[last] /\ attaches[i] \in Block
      BY <1>1
    <2>2. Height[attaches[i]] # 0
      BY <1>2, <1>5
    <2>3. Parent[attaches[i]] # NoBlock
      BY <2>1, <2>2, ParentIsBlock
    <2>4. /\ Parent[attaches[i]] \in Anc[last]
          /\ Height[attaches[i]] = Height[Parent[attaches[i]]] + 1
          /\ Height[Parent[attaches[i]]] \in Nat
      BY <1>1, <2>1, <2>3, AncParent, ParentBelow
    <2>5. Height[Parent[attaches[i]]] = Height[ForkPoint]
      BY <1>2, <1>5, <2>4
    <2> QED BY <1>1, <1>2, <2>4, <2>5, AncSameHeight
  <1> QED BY <1>0, <1>4, <1>5 DEF AttachChecks

LEMMA WayIsComplete ==
    ASSUME Inv
    PROVE  NotificationsLeadToTip
  <1> SUFFICES ASSUME pc = "notify" PROVE NotificationsLeadToTip
    BY DEF NotificationsLeadToTip
  <1>0. PICK n, last : n = Len(attaches) /\ last = Tip(table)
    OBVIOUS
  <1> DEFINE above(b) == {c \in Anc[b] : Height[c] > ForkHeight}
             sent(i) == ~ OnlyDetaches /\ Height[attaches[i]] > ForkHeight
             k == ForkHeight + 1 - Height[last] + n
  <1>1. /\ attaches \in Seq(Block) /\ n \in Nat /\ n > 0 /\ last \in Block
        /\ \A i \in 1 .. n :
              /\ attaches[i] \in Anc[last] /\ attaches[i] \in Block
              /\ Height[attaches[i]] = Height[last] + i - n
        /\ Height[last] \in Nat /\ ForkHeight =< Height[last]
        /\ Height[last] + 1 - n =< ForkHeight + 1
        /\ OnlyDetaches <=> ForkPoint = last
        /\ ForkPoint = last <=> ForkHeight = Height[last]
    BY <1>0, AttachesReachFork
  <1>2. /\ ForkPoint \in Anc[oldTip] /\ ForkPoint \in Anc[last] /\ ForkHeight \in Nat
        /\ Detached = {c \in Anc[oldTip] : Height[c] > ForkHeight}
        /\ Detached \cap Main(table) = {}
        /\ \A c \in Anc[last] : Height[c] >= ForkHeight => c \in Main(table)
    BY <1>0, ForkPointCommon
  <1> DEFINE top == Height[last]
             fork == ForkHeight
  <1>n. /\ n \in Nat /\ n > 0 /\ top \in Nat /\ fork \in Nat /\ fork =< top
        /\ top + 1 - n =< fork + 1 /\ k = fork + 1 - top + n
    BY <1>1, <1>2
  <1> HIDE DEF top, fork, k
  <1>3. above(oldTip) = Detached
    BY <1>2
  <1>4. above(oldTip) \cap above(last) = {}
    <2> SUFFICES ASSUME NEW c \in Anc[oldTip], c \in Anc[last], Height[c] > ForkHeight
                 PROVE  FALSE
      OBVIOUS
    <2>1. Height[c] \in Nat
      BY <1>1, AncType, HeightType
    <2>2. c \in Main(table) /\ c \in Detached
      BY <1>2, <2>1
    <2> QED BY <1>2, <2>2
  <1>5. k \in 1 .. n + 1
    BY <1>n
  <1>6. ASSUME NEW i \in 1 .. n
        PROVE  sent(i) <=> k =< i
    <2>1. Height[attaches[i]] = Height[last] + i - n
      BY <1>1
    <2>2. Height[attaches[i]] > ForkHeight <=> k =< i
      BY <1>n, <2>1 DEF top, fork
    <2>3. k =< i => ForkHeight # Height[last]
      <3>1. k =< i => fork # top
        BY <1>n
      <3> QED BY <3>1 DEF top, fork
    <2> QED BY <1>1, <2>2, <2>3
  <1>7. SubSeq(attaches, k, n) = SortByHeight(above(last))
    <2> DEFINE h == ForkHeight + 1
               q == SubSeq(attaches, k, n)
    <2>1. SortByHeight(above(last)) = Segment(last, h)
      <3>1. above(last) = {c \in Anc[last] : h =< Height[c]}
        BY <1>1, <1>2, AncType, HeightType
      <3>2. h \in Nat /\ h =< Height[last] + 1
        BY <1>1, <1>2
      <3> HIDE DEF h, above
      <3> QED BY <1>1, <3>1, <3>2, SegmentSorted
    <2>2. /\ Segment(last, h) \in Seq(Block)
          /\ Len(Segment(last, h)) = Height[last] - h + 1
          /\ \A i \in 1 .. Height[last] - h + 1 :
                 /\ Segment(last, h)[i] \in Anc[last]
                 /\ Height[Segment(last, h)[i]] = h + i - 1
      <3>1. h \in Nat /\ h =< Height[last] + 1
        BY <1>1, <1>2
      <3> HIDE DEF h
      <3> QED BY <1>1, <3>1, SegmentType
    <2>3. /\ q \in Seq(Block) /\ Len(q) = n - k + 1
          /\ \A i \in 1 .. n - k + 1 : q[i] = attaches[k + i - 1]
      <3>1. k \in Int /\ n \in Int /\ k >= 1 /\ k =< n + 1
        BY <1>1, <1>5
      <3>2. \A i \in k .. n : attaches[i] \in Block
        BY <1>1, <3>1
      <3>3. /\ q \in Seq(Block) /\ Len(q) = IF k =< n THEN n - k + 1 ELSE 0
            /\ \A i \in 1 .. n - k + 1 : q[i] = attaches[k + i - 1]
        BY <3>1, <3>2, SubSeqProperties
      <3> QED BY <3>1, <3>3
    <2>4. n - k + 1 = Height[last] - h + 1
      BY <1>n DEF top, fork
    <2> HIDE DEF q
    <2>5. ASSUME NEW i \in 1 .. n - k + 1
          PROVE  q[i] = Segment(last, h)[i]
      <3>1. k + i - 1 \in 1 .. n /\ q[i] = attaches[k + i - 1]
        <4>1. k + i - 1 \in 1 .. n
          BY <1>n, <1>5
        <4> QED BY <2>3, <4>1
      <3>2. /\ q[i] \in Anc[last] /\ Height[q[i]] = Height[last] + (k + i - 1) - n
        BY <1>1, <3>1
      <3>3. /\ Segment(last, h)[i] \in Anc[last]
            /\ Height[Segment(last, h)[i]] = h + i - 1
        BY <2>2, <2>4
      <3>4. Height[last] + (k + i - 1) - n = h + i - 1
        <4>1. top + (k + i - 1) - n = fork + 1 + i - 1
          BY <1>n
        <4> QED BY <4>1 DEF top, fork
      <3>5. Height[q[i]] = Height[Segment(last, h)[i]]
        BY <3>2, <3>3, <3>4
      <3> HIDE DEF h
      <3> QED BY <1>1, <3>2, <3>3, <3>5, AncSameHeight
    <2> HIDE DEF h, above
    <2>6. q = Segment(last, h)
      BY <2>2, <2>3, <2>4, <2>5, SeqEqual
    <2> QED BY <2>1, <2>6 DEF q
  <1> QED BY <1>0, <1>2, <1>3, <1>4, <1>5, <1>6, <1>7 DEF NotificationsLeadToTip

(***************************************************************************)
(* Pruning leaves the blocks up to MaxReorgDepth below the tip, so that    *)
(* the lowest block left is final.                                         *)
(***************************************************************************)
LEMMA PrunedIsRooted ==
    ASSUME Inv, pc = "notify", NEW u,
           u = IF PruneDepth(table) > 0 THEN Prune(table, PruneDepth(table)) ELSE table
    PROVE  /\ TableInv(u) /\ Main(u) # {} /\ Tip(u) = Tip(table)
           /\ Lowest(u) \in Anc[FinalBlock]
           /\ Known(u) \subseteq Known(table)
           /\ PruneDepth(table) \in Int /\ PruneDepth(table) < GetTipHeight(table)
           /\ GetTipHeight(table) = Height[Tip(table)]
  <1> DEFINE top == Height[Tip(table)]
             h == PruneDepth(table)
  <1>1. /\ Main(table) # {} /\ TableInv(table) /\ Tip(table) \in Block
        /\ Tip(table) \in Anc[baseTip] /\ Rooted(table) /\ TypeOK /\ BaseInv
        /\ baseTip \in Block
    BY ForkPointCommon DEF Inv, ChainInv, TypeOK
  <1>2. /\ top \in Nat /\ MaxReorgDepth \in Nat /\ h = top - MaxReorgDepth - 1
        /\ GetTipHeight(table) = top
    BY <1>1, HeightType, TipHeight, SyncAssumption DEF PruneDepth
  <1>3. h \in Int /\ h < top
    BY <1>2
  <1>4. /\ Tip(table) \in Main(table) /\ Lowest(table) \in Anc[FinalBlock]
        /\ \A c \in Main(table) : Height[c] =< top
    BY <1>1, TipOfMain DEF Rooted
  <1>5. CASE ~ (h > 0)
    <2>1. u = table
      BY <1>5
    <2> QED BY <1>1, <1>2, <1>3, <1>4, <2>1
  <1>6. CASE h > 0
    <2>1. /\ TableInv(u)
          /\ Known(u) = Known(table) \ {c \in Main(table) : Height[c] =< h}
          /\ Main(u) = {c \in Main(table) : Height[c] > h}
      <3>1. u = Prune(table, h)
        BY <1>6
      <3> HIDE DEF h
      <3> QED BY <1>1, <1>3, <1>4, <3>1, PruneCorrect
    <2>2. Tip(table) \in Main(u) /\ Tip(u) = Tip(table)
      <3>1. Tip(table) \in Main(u) /\ \A c \in Main(u) : Height[c] =< Height[Tip(table)]
        BY <1>2, <1>3, <1>4, <2>1
      <3> QED BY <2>1, <3>1, EndsOfMain
    <2>3. /\ Lowest(u) \in Main(u) /\ Lowest(u) \in Main(table) /\ Lowest(u) \in Block
          /\ \A c \in Main(u) : Height[Lowest(u)] =< Height[c]
          /\ Height[Lowest(u)] \in Nat
      BY <2>1, <2>2, LowestOfMain, KnownType, HeightType
    <2>4. /\ FinalHeight \in Nat /\ baseHighest \in Nat /\ top =< baseHighest
          /\ Height[Lowest(table)] \in Nat /\ Height[Lowest(table)] =< FinalHeight
      <3>1. /\ FinalHeight \in Nat /\ baseHighest \in Nat /\ Height[baseTip] \in Nat
            /\ Height[baseTip] =< baseHighest
        BY <1>1, FinalBlockOnBase, HeightType DEF TypeOK, BaseInv
      <3>2. top =< Height[baseTip]
        BY <1>1, <1>2, <3>1, AncHeight
      <3> QED BY <1>1, <1>2, <3>1, <3>2, RootOnBase
    <2>5. h + 1 =< FinalHeight
      <3>1. h + 1 =< baseHighest - MaxReorgDepth /\ baseHighest - MaxReorgDepth \in Int
        BY <1>2, <2>4
      <3>2. baseHighest - MaxReorgDepth =< FinalHeight
        BY <2>4, <3>1, LargerOf DEF FinalHeight
      <3> QED BY <1>3, <2>4, <3>1, <3>2
    <2>6. Height[Lowest(u)] =< FinalHeight
      <3>1. CASE Height[Lowest(table)] > h
        <4>1. Lowest(table) \in Main(u)
          BY <1>1, <2>1, <3>1, LowestOfMain
        <4> QED BY <2>3, <2>4, <4>1
      <3>2. CASE Height[Lowest(table)] =< h
        <4>1. h + 1 \in Nat /\ h + 1 =< top
          <5> HIDE DEF h, top
          <5> QED BY <1>2, <1>3, <1>6
        <4>2. PICK c \in Anc[Tip(table)] : Height[c] = h + 1
          BY <1>1, <4>1, AncAtHeight
        <4>3. Main(table) = {d \in Anc[Tip(table)] : Height[d] >= Height[Lowest(table)]}
          BY <1>1, InvHasNoGaps DEF MainIsAncestry
        <4>4. Height[c] >= Height[Lowest(table)] /\ Height[c] > h
          BY <1>3, <2>4, <3>2, <4>2
        <4>5. c \in Main(u)
          BY <2>1, <4>3, <4>4
        <4> QED BY <1>3, <2>3, <2>4, <2>5, <4>2, <4>5
      <3> QED BY <1>3, <2>4, <3>1, <3>2
    <2>7. Lowest(u) \in Anc[FinalBlock]
      <3>1. Lowest(u) \in Anc[Tip(table)]
        BY <1>1, <1>4, <2>3, MainIsLinear
      <3>2. Lowest(u) \in Anc[baseTip]
        BY <1>1, <3>1, AncTransitive
      <3> QED BY <1>1, <2>6, <3>2, FinalBlockOnBase
    <2> QED BY <1>2, <1>3, <2>1, <2>2, <2>7
  <1> QED BY <1>5, <1>6

LEMMA TipUpdatedFromInv ==
    ASSUME Inv, TipUpdatedFrom
    PROVE  Inv'
  <1>1. PICK u : u = IF PruneDepth(table) > 0 THEN Prune(table, PruneDepth(table)) ELSE table
    OBVIOUS
  <1>2. /\ pc = "notify" /\ UNCHANGED base
        /\ UNCHANGED <<numBlocks, nextStartHeight, genesisHeight, blocks, attached,
                       oldTip, attaches, faults>>
    BY DEF TipUpdatedFrom, members, locals
  <1>3. OnlyDetaches \/ AttachChecks
    BY <1>2, ChecksPass
  <1>4. Write(u, saves) /\ pc' = "finish"
    BY <1>1, <1>3 DEF TipUpdatedFrom
  <1>5. saves = <<>>
    BY <1>2 DEF Inv, ChainInv
  <1>6. table' = u /\ saves' = <<>> /\ Known(table') \subseteq seen'
    BY <1>4, <1>5 DEF Write
  <1>7. /\ TableInv(u) /\ Main(u) # {} /\ Tip(u) = Tip(table)
        /\ Lowest(u) \in Anc[FinalBlock]
    BY <1>1, <1>2, PrunedIsRooted
  <1>8. ChainInv'
    BY <1>2, <1>4, <1>6, <1>7, ChainWritten
  <1>9. /\ FinalHeight' = FinalHeight
        /\ baseTip' = baseTip /\ baseHighest' = baseHighest /\ BaseInv'
    BY <1>2, BaseStays DEF Inv
  <1>10. TypeOK'
    BY <1>2, <1>4, <1>5, <1>6, <1>7, <1>9 DEF Inv, TypeOK, TableInv
  <1>11. SearchInv'
    BY <1>2, <1>4 DEF Inv, SearchInv
  <1>12. ImportInv'
    BY <1>2, <1>4, <1>9 DEF Inv, ImportInv
  <1>13. BlocksInv'
    BY <1>2, <1>4, <1>6, <1>7, <1>9 DEF Inv, BlocksInv
  <1>14. AttachesInv'
    BY <1>4 DEF AttachesInv
  <1> QED BY <1>8, <1>9, <1>10, <1>11, <1>12, <1>13, <1>14 DEF Inv

LEMMA FinishStepInv ==
    ASSUME Inv, FinishStep
    PROVE  Inv'
  <1>1. /\ pc = "finish" /\ UNCHANGED base /\ UNCHANGED chain
        /\ nextStartHeight' = nextStartHeight /\ faults' = faults
    BY DEF FinishStep
  <1>2. nextStartHeight' = -1 /\ faults' \in Nat /\ saves = <<>>
    BY <1>1 DEF Inv, SearchInv, TypeOK, ChainInv
  <1>3. ASSUME EndStep, numBlocks' \in Nat
        PROVE  Inv'
    <2>1. pc' = "idle"
      BY <1>3 DEF EndStep
    <2>2. ChainInv' /\ saves' = <<>>
      BY <1>1, <2>1, ChainStays
    <2> QED BY <1>1, <1>2, <1>3, <2>2, StepEnds
  <1>4. CASE /\ Height[blocks[Len(blocks)]] < genesisHeight
             /\ pc' = "import" /\ UNCHANGED <<numBlocks, genesisHeight, locals>>
    <2>1. UNCHANGED <<table, saves, seen, numBlocks, genesisHeight, blocks, attached,
                      oldTip, attaches>>
      BY <1>1, <1>4 DEF chain, locals
    <2>2. /\ FinalHeight' = FinalHeight /\ FinalBlock' = FinalBlock
          /\ baseTip' = baseTip /\ baseHighest' = baseHighest /\ BaseInv'
      BY <1>1, BaseStays DEF Inv
    <2>3. ChainInv'
      BY <1>1, <1>4, ChainStays
    <2>4. TypeOK'
      BY <1>1, <1>4, <2>1, <2>2 DEF Inv, TypeOK
    <2>5. SearchInv'
      BY <1>2, <1>4 DEF SearchInv
    <2>6. /\ genesisHeight =< FinalHeight /\ genesisHeight \in Nat
          /\ TypeOK /\ BaseInv /\ baseTip \in Block
          /\ Tip(table) = blocks[Len(blocks)] /\ Tip(table) \in Anc[baseTip]
      BY <1>1 DEF Inv, ImportInv, BlocksInv, TypeOK
    <2>7. Height[Tip(table)] \in Nat /\ FinalHeight \in Nat
      BY <2>6, AncType, HeightType, FinalBlockOnBase
    <2>8. Tip(table) \in Anc[FinalBlock] /\ Height[Tip(table)] < genesisHeight
      BY <1>4, <2>6, <2>7, FinalBlockOnBase
    <2>9. ImportInv'
      BY <2>1, <2>2, <2>6, <2>8 DEF ImportInv
    <2>10. BlocksInv' /\ AttachesInv'
      BY <1>4 DEF BlocksInv, AttachesInv
    <2> QED BY <2>2, <2>3, <2>4, <2>5, <2>9, <2>10 DEF Inv
  <1>5. Increased \in Nat
    BY NumbersType DEF Inv
  <1> QED BY <1>3, <1>4, <1>5 DEF FinishStep

LEMMA CallFailsInv ==
    ASSUME Inv, CallFails
    PROVE  Inv'
  <1>1. /\ pc # "attach" /\ pc # "finish" /\ UNCHANGED base /\ UNCHANGED chain
        /\ faults' = faults + 1 /\ EndStep
        /\ numBlocks' = numBlocks /\ nextStartHeight' = nextStartHeight
    BY DEF CallFails, BaseIsRead, members
  <1>2. pc' = "idle" /\ table' = table
    BY <1>1 DEF EndStep, chain
  <1>3. ChainInv' /\ saves' = <<>>
    BY <1>1, <1>2, ChainStays
  <1>4. /\ numBlocks' \in Nat /\ faults' \in Nat /\ nextStartHeight' \in Nat \cup {-1}
    BY <1>1 DEF Inv, TypeOK
  <1>5. nextStartHeight' # -1 =>
           Main(table') # {} /\ Height[Lowest(table')] =< nextStartHeight'
    BY <1>1, <1>2 DEF Inv, SearchInv
  <1> QED BY <1>1, <1>3, <1>4, <1>5, StepEnds

LEMMA CrashInv ==
    ASSUME Inv, Crash
    PROVE  Inv'
  <1>1. /\ UNCHANGED base /\ faults' = faults + 1 /\ EndStep
        /\ Write(IF saves = <<>> THEN table ELSE saves[1], <<>>)
        /\ numBlocks' = 1 /\ nextStartHeight' = -1
    BY DEF Crash
  <1>2. /\ table' = IF saves = <<>> THEN table ELSE saves[1]
        /\ saves' = <<>> /\ Known(table') \subseteq seen' /\ pc' = "idle"
    BY <1>1 DEF Write, EndStep
  <1>3. TableInv(table') /\ (Main(table') # {} => Lowest(table') \in Anc[FinalBlock])
    BY <1>2 DEF Inv, ChainInv, Rooted
  <1>4. ChainInv'
    BY <1>1, <1>2, <1>3, ChainWritten
  <1>5. faults' \in Nat
    BY <1>1 DEF Inv, TypeOK
  <1> QED BY <1>1, <1>2, <1>4, <1>5, StepEnds

-----------------------------------------------------------------------------
LEMMA NextInv == Inv /\ [Next]_vars => Inv'
  <1> SUFFICES ASSUME Inv, [Next]_vars
               PROVE  Inv'
    OBVIOUS
  <1>1. CASE UNCHANGED vars
    <2>1. UNCHANGED <<baseTip, baseHighest, table, saves, seen, numBlocks, nextStartHeight,
                      pc, genesisHeight, blocks, attached, oldTip, attaches, faults>>
      BY <1>1 DEF vars, base, chain, members, locals
    <2>2. FinalHeight' = FinalHeight /\ FinalBlock' = FinalBlock
      BY <2>1 DEF FinalHeight, FinalBlock
    <2>3. TypeOK' /\ BaseInv'
      BY <2>1, <2>2 DEF Inv, TypeOK, BaseInv
    <2>4. ChainInv'
      BY <2>1, <2>2 DEF Inv, ChainInv, Rooted
    <2>5. SearchInv' /\ ImportInv'
      BY <2>1, <2>2 DEF Inv, SearchInv, ImportInv
    <2>6. BlocksInv' /\ AttachesInv'
      BY <2>1 DEF Inv, BlocksInv, AttachesInv
    <2> QED BY <2>3, <2>4, <2>5, <2>6 DEF Inv
  <1>2. CASE Next
    BY <1>2, BaseMoveInv, BeginStepInv, ImportNewTipInv, AttachFirstInv, AttachShortInv,
       LookFurtherDownInv, BeginBatchInv, AttachNextInv, CommitBatchInv, TipUpdatedFromInv,
       FinishStepInv, CallFailsInv, CrashInv DEF Next
  <1> QED BY <1>1, <1>2

(***************************************************************************)
(* The inductive invariant holds: for every tree of blocks, depth of       *)
(* reorgs and number of faults, the lowest block of the stored main chain  *)
(* is one that the base chain will never leave.                            *)
(***************************************************************************)
THEOREM Invariance == Spec => []Inv
  BY InitInv, NextInv, PTL DEF Spec

(***************************************************************************)
(* UpdateStep, ImportTip and PushZmqBlocks run into none of their CHECKs,  *)
(* as long as the base chain keeps to the depth of reorgs.                 *)
(***************************************************************************)
THEOREM ChecksHold == Spec => []NeverAborts
  <1>1. Inv => NeverAborts
    BY DEF Inv, TypeOK, NeverAborts
  <1> QED BY <1>1, Invariance, PTL

(***************************************************************************)
(* TipUpdatedFrom tells the GSPs exactly the way from the old tip to the   *)
(* new one.                                                                *)
(***************************************************************************)
THEOREM WayToTip == Spec => []NotificationsLeadToTip
  <1>1. Inv => NotificationsLeadToTip
    BY WayIsComplete
  <1> QED BY <1>1, Invariance, PTL

-----------------------------------------------------------------------------
(***************************************************************************)
(* What the steps do to the database.                                      *)
(***************************************************************************)
SetsTip(b) ==
    /\ b \in Anc[baseTip] /\ Lowest(table) \in Anc[b]
    /\ CanSetTip(table, b)
    /\ Write(SetTip(table, b), saves)

ImportsTip(b) ==
    /\ b \in Anc[FinalBlock] /\ saves = <<>>
    /\ ImportAllowed(table, b) /\ CanImportTip(table, b)
    /\ Write(ImportTip(table, b), saves)

Prunes(h) ==
    /\ Main(table) # {} /\ h < Height[Tip(table)]
    /\ Write(Prune(table, h), saves)

OpensBatch == saves = <<>> /\ Main(table) # {} /\ Write(table, <<table>>)

CommitsBatch == Len(saves) = 1 /\ Write(table, <<>>)

LosesBatch == saves # <<>> /\ Write(saves[1], <<>>)

ChainStep ==
    /\ UNCHANGED base
    /\ \/ \E b \in Block : SetsTip(b)
       \/ \E b \in Block : ImportsTip(b)
       \/ \E h \in Nat : Prunes(h)
       \/ OpensBatch
       \/ CommitsBatch
       \/ LosesBatch

(* Nothing to write: what is committed is seen already. *)
LEMMA NothingWritten ==
    ASSUME Inv, saves = <<>>, Write(table, <<>>)
    PROVE  UNCHANGED chain
  <1>1. Known(table) \subseteq seen
    BY DEF Inv, ChainInv
  <1> QED BY <1>1 DEF Write, chain

LEMMA ChainSteps ==
    ASSUME Inv, Next
    PROVE  UNCHANGED chain \/ ChainStep
  <1>1. ASSUME ImportNewTip
        PROVE  UNCHANGED chain \/ ChainStep
    <2>1. PICK found, b : found = GetBlockRange(genesisHeight, 1) /\ b = found[1]
      OBVIOUS
    <2>2. CASE UNCHANGED chain
      BY <2>2
    <2>3. CASE found # <<>> /\ Write(ImportTip(table, b), saves)
      <3>1. /\ b \in Block /\ b \in Anc[FinalBlock]
            /\ ImportAllowed(table, b) /\ CanImportTip(table, b)
        BY <1>1, <2>1, <2>3, ImportIsRight DEF ImportNewTip
      <3>2. UNCHANGED base /\ saves = <<>>
        BY <1>1 DEF ImportNewTip, Inv, ChainInv
      <3> QED BY <2>3, <3>1, <3>2 DEF ChainStep, ImportsTip
    <2> QED BY <1>1, <2>1, <2>2, <2>3 DEF ImportNewTip
  <1>2. ASSUME NEW found \in Seq(Block), AttachBlocks(found),
               \A i \in 1 .. Len(found) :
                  found[i] \in Anc[baseTip] /\ Height[found[i]] = StartHeight + i - 1
        PROVE  ChainStep
    <2>1. /\ pc = "query" /\ found # <<>> /\ CanSetTip(table, found[1])
          /\ Write(SetTip(table, found[1]), saves) /\ UNCHANGED base
      BY <1>2 DEF AttachBlocks, FirstAttaches
    <2>2. found[1] \in Block /\ Lowest(table) \in Anc[found[1]]
      BY <1>2, <2>1, FoundAboveRoot
    <2>3. found[1] \in Anc[baseTip]
      BY <1>2, <2>1
    <2> QED BY <2>1, <2>2, <2>3 DEF ChainStep, SetsTip
  <1>3. ASSUME BeginBatch
        PROVE  ChainStep
    <2>1. pc = "begin" /\ Write(table, Append(saves, table)) /\ UNCHANGED base
      BY <1>3 DEF BeginBatch
    <2>2. saves = <<>> /\ Main(table) # {}
      BY <2>1 DEF Inv, ChainInv, BlocksInv
    <2>3. Append(saves, table) = <<table>>
      BY <2>2
    <2> QED BY <2>1, <2>2, <2>3 DEF ChainStep, OpensBatch
  <1>4. ASSUME AttachNext
        PROVE  ChainStep
    <2>1. PICK b : b = blocks[attached + 1]
      OBVIOUS
    <2>2. /\ b \in Block /\ CanSetTip(table, b) /\ Tip(table) = Parent[b]
          /\ Lowest(table) \in Anc[b]
      BY <1>4, <2>1, NextBlockAttaches DEF AttachNext
    <2>3. Write(SetTip(table, b), saves) /\ UNCHANGED base
      BY <1>4, <2>1, <2>2 DEF AttachNext
    <2>4. b \in Anc[baseTip]
      BY <1>4, <2>1 DEF AttachNext, Inv, BlocksInv, TypeOK
    <2> QED BY <2>2, <2>3, <2>4 DEF ChainStep, SetsTip
  <1>5. ASSUME CommitBatch
        PROVE  ChainStep
    BY <1>5 DEF CommitBatch, Inv, ChainInv, ChainStep, CommitsBatch
  <1>6. ASSUME TipUpdatedFrom
        PROVE  UNCHANGED chain \/ ChainStep
    <2>1. pc = "notify" /\ saves = <<>> /\ UNCHANGED base
      BY <1>6 DEF TipUpdatedFrom, Inv, ChainInv
    <2>2. Write(IF PruneDepth(table) > 0 THEN Prune(table, PruneDepth(table)) ELSE table, saves)
      BY <1>6, <2>1, ChecksPass DEF TipUpdatedFrom
    <2>3. CASE ~ (PruneDepth(table) > 0)
      BY <2>1, <2>2, <2>3, NothingWritten
    <2>4. CASE PruneDepth(table) > 0
      <3>1. PICK h : h = PruneDepth(table)
        OBVIOUS
      <3>2. h \in Int /\ h < Height[Tip(table)]
        BY <2>1, <3>1, PrunedIsRooted
      <3>3. h \in Nat /\ Write(Prune(table, h), saves) /\ Main(table) # {}
        BY <2>1, <2>2, <2>4, <3>1, <3>2, ForkPointCommon
      <3> QED BY <2>1, <3>2, <3>3 DEF ChainStep, Prunes
    <2> QED BY <2>3, <2>4
  <1>7. ASSUME Crash
        PROVE  UNCHANGED chain \/ ChainStep
    <2>1. Write(IF saves = <<>> THEN table ELSE saves[1], <<>>) /\ UNCHANGED base
      BY <1>7 DEF Crash
    <2>2. CASE saves = <<>>
      BY <2>1, <2>2, NothingWritten
    <2>3. CASE saves # <<>>
      BY <2>1, <2>3 DEF ChainStep, LosesBatch
    <2> QED BY <2>2, <2>3
  <1>8. ASSUME AttachFirst
        PROVE  ChainStep
    <2>1. PICK found : found = GetBlockRange(StartHeight, Requested)
      OBVIOUS
    <2>2. AttachBlocks(found) /\ pc = "query"
      BY <1>8, <2>1 DEF AttachFirst, AttachBlocks
    <2>3. TypeOK /\ StartHeight \in Nat /\ Requested \in Nat \ {0}
      BY <2>2, SearchAboveRoot, NumbersType
    <2>4. /\ found \in Seq(Block)
          /\ \A i \in 1 .. Len(found) :
                found[i] \in Anc[baseTip] /\ Height[found[i]] = StartHeight + i - 1
      BY <2>1, <2>3, RangeIsSegment
    <2> QED BY <1>2, <2>2, <2>4
  <1>9. ASSUME AttachShort
        PROVE  ChainStep
    <2>1. PICK found \in Seq(Block) :
             /\ AttachBlocks(found)
             /\ \A i \in 1 .. Len(found) :
                   found[i] \in Anc[baseTip] /\ Height[found[i]] = StartHeight + i - 1
      BY <1>9, ShortAnswerShape
    <2> QED BY <1>2, <2>1
  <1>10. ASSUME NEW b \in Block, BaseMove(b)
         PROVE  UNCHANGED chain
    BY <1>10 DEF BaseMove
  <1> QED
    BY <1>1, <1>3, <1>4, <1>5, <1>6, <1>7, <1>8, <1>9, <1>10
       DEF Next, BeginStep, LookFurtherDown, FinishStep, CallFails

-----------------------------------------------------------------------------
(***************************************************************************)
(* The operators of BranchTable, as Chainstate has them.                   *)
(***************************************************************************)
LEMMA StateOperators ==
    ASSUME NEW t
    PROVE  /\ State!EmptyTable = EmptyTable
           /\ State!Known(t) = Known(t)
           /\ State!GetTipHeight(t) = GetTipHeight(t)
  <1>1. State!EmptyTable = EmptyTable
    BY DEF State!EmptyTable, EmptyTable, State!NotStored, NotStored
  <1>2. State!Known(t) = Known(t)
    BY DEF State!Known, Known, State!NotStored, NotStored
  <1>3. State!GetTipHeight(t) = GetTipHeight(t)
    BY DEF State!GetTipHeight, GetTipHeight, State!Main, Main, State!OnBranch, OnBranch,
           State!MainBranch, MainBranch, State!Max, Max
  <1> QED BY <1>1, <1>2, <1>3

LEMMA StateSetTip ==
    ASSUME NEW t, NEW b
    PROVE  /\ State!SetTip(t, b) = SetTip(t, b)
           /\ State!CanSetTip(t, b) <=> CanSetTip(t, b)
           /\ State!ReorgAllowed(t, b) <=> ReorgAllowed(t, b)
  <1>1. State!SetTip(t, b) = SetTip(t, b)
    BY DEF State!SetTip, SetTip, State!MarkAsTip, MarkAsTip, State!InsertBlock, InsertBlock,
           State!GetFreeBranchNumber, GetFreeBranchNumber, State!Known, Known,
           State!NotStored, NotStored, State!Max, Max, State!Min, Min,
           State!Main, Main, State!OnBranch, OnBranch, State!MainBranch, MainBranch,
           State!DetachFrom, DetachFrom, State!MakeMain, MakeMain,
           State!GetForkBranch, GetForkBranch, State!OffMain, OffMain,
           State!BranchUpTo, BranchUpTo, State!IsBranchEnd, IsBranchEnd,
           State!ForkClosed, ForkClosed
  <1>2. State!CanSetTip(t, b) <=> CanSetTip(t, b)
    BY DEF State!CanSetTip, CanSetTip, State!Known, Known, State!NotStored, NotStored,
           State!Main, Main, State!OnBranch, OnBranch, State!MainBranch, MainBranch
  <1>3. State!ReorgAllowed(t, b) <=> ReorgAllowed(t, b)
    BY DEF State!ReorgAllowed, ReorgAllowed, State!Main, Main, State!OnBranch, OnBranch,
           State!MainBranch, MainBranch, State!Lowest, Lowest,
           State!Anc, Anc, State!AncestorClosed, AncestorClosed
  <1> QED BY <1>1, <1>2, <1>3

LEMMA StateImportTip ==
    ASSUME NEW t, NEW b
    PROVE  /\ State!ImportTip(t, b) = ImportTip(t, b)
           /\ State!CanImportTip(t, b) <=> CanImportTip(t, b)
           /\ State!ImportAllowed(t, b) <=> ImportAllowed(t, b)
  <1>1. State!ImportTip(t, b) = ImportTip(t, b)
    BY DEF State!ImportTip, ImportTip, State!Prune, Prune,
           State!MarkAsTip, MarkAsTip, State!InsertBlock, InsertBlock,
           State!GetFreeBranchNumber, GetFreeBranchNumber, State!Known, Known,
           State!NotStored, NotStored, State!Max, Max, State!Min, Min,
           State!Main, Main, State!OnBranch, OnBranch, State!MainBranch, MainBranch,
           State!DetachFrom, DetachFrom, State!MakeMain, MakeMain,
           State!GetForkBranch, GetForkBranch, State!OffMain, OffMain,
           State!BranchUpTo, BranchUpTo, State!IsBranchEnd, IsBranchEnd,
           State!ForkClosed, ForkClosed
  <1>2. State!CanImportTip(t, b) <=> CanImportTip(t, b)
    BY StateOperators DEF State!CanImportTip, CanImportTip
  <1>3. State!ImportAllowed(t, b) <=> ImportAllowed(t, b)
    BY DEF State!ImportAllowed, ImportAllowed, State!Main, Main, State!OnBranch, OnBranch,
           State!MainBranch, MainBranch, State!Tip, Tip,
           State!Anc, Anc, State!AncestorClosed, AncestorClosed
  <1> QED BY <1>1, <1>2, <1>3

LEMMA StatePrune ==
    ASSUME NEW t, NEW h
    PROVE  State!Prune(t, h) = Prune(t, h)
  BY DEF State!Prune, Prune, State!NotStored, NotStored, State!MainBranch, MainBranch

(* A write to the database is recorded as Chainstate has it. *)
LEMMA WriteIsRecorded ==
    ASSUME NEW t, NEW s, Write(t, s)
    PROVE  table' = t /\ saves' = s /\ State!Record
  <1>1. table' = t /\ saves' = s /\ seen' = seen \cup Known(IF s = <<>> THEN t ELSE s[1])
    BY DEF Write
  <1>2. State!Durable' = IF saves' = <<>> THEN table' ELSE saves'[1]
    BY DEF State!Durable
  <1>3. State!Known(State!Durable)' = Known(IF s = <<>> THEN t ELSE s[1])
    BY <1>1, <1>2, StateOperators DEF State!Known, Known, State!NotStored, NotStored
  <1> QED BY <1>1, <1>3 DEF State!Record

LEMMA ChainStepIsState ==
    ASSUME Inv, ChainStep
    PROVE  State!Next
  <1>1. ASSUME NEW b \in Block, SetsTip(b)
        PROVE  State!Next
    <2>1. CanSetTip(table, b) /\ ReorgAllowed(table, b)
      BY <1>1, TipSetAboveRoot DEF SetsTip, Inv, ChainInv
    <2>2. table' = SetTip(table, b) /\ saves' = saves /\ State!Record
      BY <1>1, WriteIsRecorded DEF SetsTip
    <2>3. State!DoSetTip(b)
      BY <2>1, <2>2, StateSetTip DEF State!DoSetTip
    <2> QED BY <2>3 DEF State!Next
  <1>2. ASSUME NEW b \in Block, ImportsTip(b)
        PROVE  State!Next
    <2>1. table' = ImportTip(table, b) /\ saves' = saves /\ State!Record
      BY <1>2, WriteIsRecorded DEF ImportsTip
    <2>2. State!DoImportTip(b)
      BY <1>2, <2>1, StateImportTip DEF State!DoImportTip, ImportsTip
    <2> QED BY <2>2 DEF State!Next
  <1>3. ASSUME NEW h \in Nat, Prunes(h)
        PROVE  State!Next
    <2>1. Main(table) # {} /\ h < Height[Tip(table)]
      BY <1>3 DEF Prunes
    <2>2. h < GetTipHeight(table) /\ Tip(table) \in Block
      BY <2>1, TipHeight, TipOfMain, KnownType
    <2>3. \E c \in Block : h = Height[c]
      BY <2>1, <2>2, AncAtHeight, AncType, HeightType
    <2>4. table' = Prune(table, h) /\ saves' = saves /\ State!Record
      BY <1>3, WriteIsRecorded DEF Prunes
    <2>5. State!DoPrune(h)
      BY <2>2, <2>4, StatePrune, StateOperators DEF State!DoPrune
    <2> QED BY <2>3, <2>5 DEF State!Next
  <1>4. ASSUME OpensBatch
        PROVE  State!Next
    <2>1. saves = <<>> /\ table' = table /\ saves' = <<table>> /\ State!Record
      BY <1>4, WriteIsRecorded DEF OpensBatch
    <2>2. State!BeginBatch
      BY <2>1 DEF State!BeginBatch
    <2> QED BY <2>2 DEF State!Next
  <1>5. ASSUME CommitsBatch
        PROVE  State!Next
    <2>1. Len(saves) = 1 /\ saves \in Seq([Block -> Nat \cup {NotStored}])
      BY <1>5 DEF CommitsBatch, Inv, TypeOK
    <2>2. saves # <<>> /\ SubSeq(saves, 1, Len(saves) - 1) = <<>>
      BY <2>1
    <2>3. table' = table /\ saves' = <<>> /\ State!Record
      BY <1>5, WriteIsRecorded DEF CommitsBatch
    <2>4. State!CommitBatch
      BY <2>2, <2>3 DEF State!CommitBatch
    <2> QED BY <2>4 DEF State!Next
  <1>6. ASSUME LosesBatch
        PROVE  State!Next
    <2>1. saves # <<>> /\ table' = saves[1] /\ saves' = <<>> /\ State!Record
      BY <1>6, WriteIsRecorded DEF LosesBatch
    <2>2. State!Crash
      BY <2>1 DEF State!Crash
    <2> QED BY <2>2 DEF State!Next
  <1> QED BY <1>1, <1>2, <1>3, <1>4, <1>5, <1>6 DEF ChainStep

(***************************************************************************)
(* Sync keeps the promises that Chainstate relies on: every change that it *)
(* and the controller make to the database is a step of Chainstate.        *)
(***************************************************************************)
THEOREM PromisesKept == Spec => UsesChainstateRightly
  <1>1. Init => State!Init
    BY StateOperators DEF Init, State!Init
  <1>2. Inv /\ [Next]_vars => [UNCHANGED chain \/ State!Next]_chain
    <2>1. UNCHANGED vars => UNCHANGED chain
      BY DEF vars
    <2> QED BY <2>1, ChainSteps, ChainStepIsState
  <1> QED BY <1>1, <1>2, Invariance, PTL DEF Spec, UsesChainstateRightly

-----------------------------------------------------------------------------
(***************************************************************************)
(* Part 2: Sync with game_sendupdates and a GSP                            *)
(***************************************************************************)

(* All blocks of the base chain descend from the genesis. *)
LEMMA GenesisBelow ==
    ASSUME TypeOK
    PROVE  /\ Genesis \in Block /\ Genesis \in Anc[baseTip] /\ Height[Genesis] = 0
           /\ \A c \in Anc[baseTip] : Genesis \in Anc[c]
  <1>1. baseTip \in Block /\ Height[baseTip] \in Nat
    BY HeightType DEF TypeOK
  <1>2. Genesis \in Block /\ Genesis \in Anc[baseTip] /\ Height[Genesis] = 0
    BY <1>1, AncestorAtHeight DEF Genesis
  <1>3. ASSUME NEW c \in Anc[baseTip]
        PROVE  Genesis \in Anc[c]
    <2>1. c \in Block /\ Height[c] \in Nat
      BY <1>1, AncType, HeightType
    <2> QED BY <1>1, <1>2, <2>1, AncLinear
  <1> QED BY <1>2, <1>3

(* There is one genesis: no reorg replaces it. *)
LEMMA GenesisStays ==
    ASSUME TypeOK, BaseInv, UNCHANGED base \/ \E b \in Block : BaseMove(b)
    PROVE  Genesis' = Genesis
  <1>1. CASE UNCHANGED base
    BY <1>1 DEF base, Genesis
  <1>2. CASE \E b \in Block : BaseMove(b)
    <2>1. PICK b \in Block : BaseMove(b)
      BY <1>2
    <2>2. baseTip' = b /\ FinalBlock \in Anc[b]
      BY <2>1 DEF BaseMove
    <2>3. Genesis \in Anc[FinalBlock] /\ FinalBlock \in Block
      BY GenesisBelow, FinalBlockOnBase
    <2>4. Genesis \in Anc[b] /\ Height[Genesis] = 0
      BY <2>2, <2>3, AncTransitive, GenesisBelow
    <2>5. /\ AncestorAt(b, 0) \in Anc[b] /\ Height[AncestorAt(b, 0)] = 0
      BY AncestorAtHeight, HeightType
    <2>6. AncestorAt(b, 0) = Genesis
      BY <2>4, <2>5, AncSameHeight
    <2> QED BY <2>2, <2>6 DEF Genesis
  <1> QED BY <1>1, <1>2

(* Only the genesis is at the height 0. *)
LEMMA AboveGenesis ==
    ASSUME TypeOK, NEW b \in Block, Genesis \in Anc[b]
    PROVE  b = Genesis \/ Parent[b] # NoBlock
  <1>1. Height[Genesis] = 0
    BY GenesisBelow
  <1> QED BY <1>1, AncHeight, ParentIsBlock, HeightType

-----------------------------------------------------------------------------
(* The blocks that X accounts for. *)

LEMMA AccountedIsClosed ==
    ASSUME NEW t, TableInv(t), NEW b \in Accounted(t)
    PROVE  b \in Block /\ Anc[b] \subseteq Accounted(t)
  <1>1. Accounted(t) \subseteq Block
    BY KnownType DEF Accounted
  <1> QED BY <1>1, AncLeast DEF TableInv

(* A block that X accounts for but does not store is a pruned one. *)
LEMMA AccountedOrPruned ==
    ASSUME NEW t, Main(t) # {}, NEW b \in Accounted(t), b \notin Known(t)
    PROVE  b \in Anc[Lowest(t)] /\ Height[b] < Height[Lowest(t)]
  <1>1. Lowest(t) \in Main(t) /\ Lowest(t) \in Known(t) /\ Lowest(t) \in Block
    BY LowestOfMain, KnownType
  <1>2. b \in Anc[Lowest(t)] /\ b # Lowest(t)
    BY <1>1 DEF Accounted
  <1> QED BY <1>1, <1>2, AncHeight

(* So is every ancestor of the lowest block of the main chain. *)
LEMMA BelowLowest ==
    ASSUME NEW t, TableInv(t), Main(t) # {}, NEW b \in Anc[Lowest(t)]
    PROVE  b \in Accounted(t)
  <1>1. Lowest(t) \in Accounted(t)
    BY LowestOfMain, KnownType DEF Accounted
  <1> QED BY <1>1, AccountedIsClosed

-----------------------------------------------------------------------------
(***************************************************************************)
(* Every change of the database keeps what is accounted for, and a         *)
(* genesis that is stored is on the main chain.                            *)
(***************************************************************************)
LEMMA TipSetGrounded ==
    ASSUME TypeOK, NEW t, TableInv(t), Grounded(t), NEW b \in Block,
           Genesis \in Anc[b], Lowest(t) \in Anc[b], CanSetTip(t, b),
           NEW u, u = SetTip(t, b)
    PROVE  Grounded(u) /\ Main(u) # {} /\ Accounted(t) \subseteq Accounted(u)
  <1>1. /\ ReorgAllowed(t, b) /\ TableInv(u) /\ Main(u) # {}
        /\ Lowest(u) = Lowest(t) /\ Known(u) = Known(t) \cup {b}
    BY TipSetAboveRoot
  <1>2. Accounted(t) \subseteq Accounted(u)
    BY <1>1, SetTipCorrect DEF NewTip
  <1>3. \A c \in Known(u) : Genesis \in Anc[c]
    BY <1>1 DEF Grounded
  <1>4. /\ Main(t) # {} /\ Lowest(t) \in Main(t) /\ Lowest(t) \in Block
        /\ \A c \in Main(t) : Height[Lowest(t)] =< Height[c]
        /\ Genesis \in Anc[Lowest(t)] /\ Genesis \in Block /\ Height[Genesis] = 0
        /\ Height[Lowest(t)] \in Nat
    BY LowestOfMain, KnownType, GenesisBelow, HeightType DEF CanSetTip, Grounded
  <1>5. ASSUME Genesis \in Known(u)
        PROVE  Genesis \in Main(u)
    <2>1. CASE Genesis \in Known(t)
      <3>1. Genesis \in Main(t)
        BY <2>1 DEF Grounded, OffMain
      <3>2. Height[Lowest(t)] =< 0
        BY <1>4, <3>1
      <3> QED BY <1>1, <1>4, <3>2, AncHeight, LowestOfMain
    <2>2. CASE Genesis = b
      <3>1. Lowest(t) = Genesis
        BY <1>4, <2>2, AncHeight
      <3> QED BY <1>1, <3>1, LowestOfMain
    <2> QED BY <1>1, <1>5, <2>1, <2>2
  <1> QED BY <1>1, <1>2, <1>3, <1>5 DEF Grounded, OffMain

LEMMA ImportedGrounded ==
    ASSUME TypeOK, NEW t, TableInv(t), Grounded(t), NEW b \in Block,
           Genesis \in Anc[b], ImportAllowed(t, b), CanImportTip(t, b),
           NEW u, u = ImportTip(t, b)
    PROVE  /\ Grounded(u) /\ Main(u) # {} /\ Accounted(t) \subseteq Accounted(u)
           /\ Genesis \in Accounted(u)
  <1>1. /\ TableInv(u) /\ Main(u) = {b} /\ Accounted(t) \subseteq Accounted(u)
        /\ Known(u) \subseteq Known(t) \cup {b} /\ Main(t) \cap Known(u) = {}
    BY ImportTipCorrect DEF NewTip
  <1>2. \A c \in Known(u) : Genesis \in Anc[c]
    BY <1>1 DEF Grounded
  <1>3. ASSUME Genesis \in Known(u)
        PROVE  Genesis \in Main(u)
    <2>1. Genesis \notin Known(t)
      BY <1>1, <1>3 DEF Grounded, OffMain
    <2> QED BY <1>1, <1>3, <2>1
  <1>4. Genesis \in Accounted(u)
    BY <1>1, GenesisBelow DEF Accounted
  <1> QED BY <1>1, <1>2, <1>3, <1>4 DEF Grounded, OffMain

LEMMA PrunedGrounded ==
    ASSUME NEW t, TableInv(t), Grounded(t), Main(t) # {}, NEW h \in Nat,
           h < Height[Tip(t)], NEW u, u = Prune(t, h)
    PROVE  Grounded(u) /\ Main(u) # {} /\ Accounted(t) \subseteq Accounted(u)
  <1>1. Tip(t) \in Main(t)
    BY TipOfMain
  <1>2. /\ Known(u) = Known(t) \ {c \in Main(t) : Height[c] =< h}
        /\ Main(u) = {c \in Main(t) : Height[c] > h}
        /\ Accounted(t) \subseteq Accounted(u)
    BY <1>1, PruneCorrect
  <1>3. Tip(t) \in Main(u)
    BY <1>1, <1>2, KnownType, HeightType
  <1>4. Known(u) \subseteq Known(t) /\ OffMain(u) \subseteq OffMain(t)
    BY <1>2, KnownType, HeightType DEF OffMain
  <1> QED BY <1>2, <1>3, <1>4 DEF Grounded

-----------------------------------------------------------------------------
(***************************************************************************)
(* What a step of Sync leaves to the GSPs: the blocks that are accounted   *)
(* for stay so, even if the process crashes now, and once there is a main  *)
(* chain there is one for ever.                                            *)
(***************************************************************************)
AccountKept ==
    /\ Genesis' = Genesis
    /\ DurableInv'
    /\ Accounted(Durable) \subseteq Accounted(Durable')
    /\ Main(table) # {} => Main(table') # {}
    /\ Main(table) = {} /\ Main(table') # {} => Genesis \in Accounted(Durable')

LEMMA DurableKept ==
    ASSUME Genesis' = Genesis, NEW d, d = Durable', Grounded(table'), Grounded(d),
           Main(table') # {} => Main(d) # {},
           Accounted(d) \subseteq Accounted(table')
    PROVE  DurableInv'
  <1>1. Grounded(table)' /\ Grounded(Durable)'
    BY DEF Grounded
  <1> QED BY <1>1 DEF DurableInv

LEMMA SameDatabase ==
    ASSUME Genesis' = Genesis, DurableInv, UNCHANGED <<table, saves>>
    PROVE  AccountKept
  <1>1. Durable' = Durable /\ table' = table
    BY DEF Durable
  <1>2. DurableInv'
    BY <1>1, DurableKept DEF DurableInv
  <1> QED BY <1>1, <1>2 DEF AccountKept

(* The table has changed, inside of the open batch if there is one. *)
LEMMA TableWritten ==
    ASSUME Genesis' = Genesis, DurableInv, saves' = saves, Grounded(table'),
           Main(table') # {}, Accounted(table) \subseteq Accounted(table'),
           saves = <<>> \/ Main(table) # {},
           Main(table) = {} => Genesis \in Accounted(table')
    PROVE  AccountKept
  <1>1. CASE saves = <<>>
    <2>1. Durable = table /\ Durable' = table'
      BY <1>1 DEF Durable
    <2>2. DurableInv'
      BY <2>1, DurableKept
    <2> QED BY <2>1, <2>2 DEF AccountKept
  <1>2. CASE saves # <<>>
    <2>1. Durable' = Durable
      BY <1>2 DEF Durable
    <2>2. DurableInv'
      BY <1>2, <2>1, DurableKept DEF DurableInv
    <2> QED BY <1>2, <2>1, <2>2 DEF AccountKept
  <1> QED BY <1>1, <1>2

LEMMA ChainStepKeepsAccount ==
    ASSUME Inv, DurableInv, ChainStep
    PROVE  AccountKept
  <1>0. /\ TypeOK /\ BaseInv /\ TableInv(table) /\ Genesis' = Genesis
        /\ Grounded(table) /\ Grounded(Durable)
        /\ \A b \in Anc[baseTip] : Genesis \in Anc[b]
    BY GenesisStays, GenesisBelow DEF Inv, ChainInv, DurableInv, ChainStep
  <1>1. ASSUME NEW b \in Block, SetsTip(b)
        PROVE  AccountKept
    <2>1. /\ b \in Anc[baseTip] /\ Lowest(table) \in Anc[b] /\ CanSetTip(table, b)
          /\ table' = SetTip(table, b) /\ saves' = saves /\ Main(table) # {}
      BY <1>1 DEF SetsTip, Write, CanSetTip
    <2>2. /\ Grounded(table') /\ Main(table') # {}
          /\ Accounted(table) \subseteq Accounted(table')
      BY <1>0, <2>1, TipSetGrounded
    <2> QED BY <1>0, <2>1, <2>2, TableWritten
  <1>2. ASSUME NEW b \in Block, ImportsTip(b)
        PROVE  AccountKept
    <2>1. /\ b \in Anc[FinalBlock] /\ ImportAllowed(table, b) /\ CanImportTip(table, b)
          /\ table' = ImportTip(table, b) /\ saves' = saves /\ saves = <<>>
      BY <1>2 DEF ImportsTip, Write
    <2>2. Genesis \in Anc[b]
      BY <1>0, <2>1, FinalBlockOnBase
    <2>3. /\ Grounded(table') /\ Main(table') # {} /\ Genesis \in Accounted(table')
          /\ Accounted(table) \subseteq Accounted(table')
      BY <1>0, <2>1, <2>2, ImportedGrounded
    <2> QED BY <1>0, <2>1, <2>3, TableWritten
  <1>3. ASSUME NEW h \in Nat, Prunes(h)
        PROVE  AccountKept
    <2>1. /\ Main(table) # {} /\ h < Height[Tip(table)]
          /\ table' = Prune(table, h) /\ saves' = saves
      BY <1>3 DEF Prunes, Write
    <2>2. /\ Grounded(table') /\ Main(table') # {}
          /\ Accounted(table) \subseteq Accounted(table')
      BY <1>0, <2>1, PrunedGrounded
    <2> QED BY <1>0, <2>1, <2>2, TableWritten
  <1>4. ASSUME OpensBatch
        PROVE  AccountKept
    <2>1. /\ table' = table /\ Durable = table /\ Durable' = table
      BY <1>4 DEF OpensBatch, Write, Durable
    <2>2. DurableInv'
      BY <1>0, <2>1, DurableKept
    <2> QED BY <1>0, <2>1, <2>2 DEF AccountKept
  <1>5. ASSUME CommitsBatch
        PROVE  AccountKept
    <2>1. table' = table /\ Durable' = table
      BY <1>5 DEF CommitsBatch, Write, Durable
    <2>2. DurableInv'
      BY <1>0, <2>1, DurableKept
    <2> QED BY <1>0, <2>1, <2>2 DEF AccountKept, DurableInv
  <1>6. ASSUME LosesBatch
        PROVE  AccountKept
    <2>1. table' = Durable /\ Durable' = Durable
      BY <1>6 DEF LosesBatch, Write, Durable
    <2>2. DurableInv'
      BY <1>0, <2>1, DurableKept
    <2>3. Main(table) # {} <=> Main(Durable) # {}
      <3>1. CASE Main(table) # {}
        BY <3>1 DEF DurableInv
      <3>2. CASE Main(table) = {}
        <4>1. Accounted(table) = {}
          BY <1>0, <3>2 DEF TableInv, Accounted
        <4> QED BY <3>2, <4>1, KnownType DEF DurableInv, Accounted
      <3> QED BY <3>1, <3>2
    <2> QED BY <1>0, <2>1, <2>2, <2>3 DEF AccountKept
  <1> QED BY <1>1, <1>2, <1>3, <1>4, <1>5, <1>6 DEF ChainStep

LEMMA StepKeepsAccount ==
    ASSUME Inv, DurableInv, Next
    PROVE  AccountKept
  <1>1. UNCHANGED base \/ \E b \in Block : BaseMove(b)
    BY DEF Next, BeginStep, ImportNewTip, AttachFirst, AttachShort, AttachBlocks,
           LookFurtherDown, BeginBatch, AttachNext, CommitBatch, TipUpdatedFrom,
           FinishStep, CallFails, Crash
  <1>2. Genesis' = Genesis
    BY <1>1, GenesisStays DEF Inv
  <1>3. CASE UNCHANGED chain
    BY <1>2, <1>3, SameDatabase DEF chain
  <1>4. CASE ChainStep
    BY <1>4, ChainStepKeepsAccount
  <1> QED BY <1>3, <1>4, ChainSteps

(* A GSP that stays where it is can still be led on. *)
LEMMA GspStays ==
    ASSUME Inv, GspInv, AccountKept, gsp' = gsp
    PROVE  GspInv'
  <1>1. CASE gsp = NoBlock
    BY <1>1 DEF GspInv
  <1>2. CASE gsp # NoBlock /\ Main(table) = {}
    <2>1. gsp' = Genesis /\ Genesis' = Genesis
      BY <1>2 DEF GspInv, AccountKept
    <2> QED BY <1>2, <2>1 DEF GspInv, AccountKept
  <1>3. CASE gsp # NoBlock /\ Main(table) # {}
    <2>1. gsp \in Accounted(Durable) /\ Main(table') # {}
      BY <1>3 DEF GspInv, AccountKept
    <2> QED BY <2>1 DEF GspInv, AccountKept
  <1> QED BY <1>1, <1>2, <1>3

LEMMA GspMoves ==
    ASSUME Main(table') # {}, gsp' \in Accounted(Durable')
    PROVE  GspInv'
  BY DEF GspInv

(* No request is being handled. *)
LEMMA NoRequest ==
    ASSUME rpcPc' = "none", to' \in Block \cup {NoBlock}, detach' = <<>>, queriedAttach' = <<>>
    PROVE  DetachesInv' /\ QueriedInv' /\ RpcInv'
  <1>1. <<>> \in Seq(Block) /\ Len(<<>>) = 0
    OBVIOUS
  <1> QED BY <1>1 DEF DetachesInv, QueriedInv, RpcInv

LEMMA NoRequestYet ==
    ASSUME QueriedInv, RpcInv, rpcPc = "none", UNCHANGED rpc
    PROVE  DetachesInv' /\ QueriedInv' /\ RpcInv'
  BY NoRequest DEF QueriedInv, RpcInv, rpc

LEMMA RequestStays ==
    ASSUME DetachesInv, QueriedInv, RpcInv, UNCHANGED <<table, pc, gsp, rpc>>
    PROVE  DetachesInv' /\ QueriedInv' /\ RpcInv'
  <1>1. UNCHANGED <<table, pc, gsp, rpcPc, to, detach, queriedAttach>>
    BY DEF rpc
  <1>2. RpcForkPoint' = RpcForkPoint /\ RpcForkHeight' = RpcForkHeight
    BY <1>1 DEF RpcForkPoint, RpcForkHeight, LastOf
  <1>3. DetachesInv'
    BY <1>1 DEF DetachesInv
  <1>4. QueriedInv'
    BY <1>1, <1>2 DEF QueriedInv
  <1>5. RpcInv'
    BY <1>1, <1>2 DEF RpcInv
  <1> QED BY <1>3, <1>4, <1>5

-----------------------------------------------------------------------------
(* The steps of Sync. *)

LEMMA SyncStepInv ==
    ASSUME SystemInv, SyncStep
    PROVE  SystemInv'
  <1>1. rpcPc = "none" /\ Next /\ gsp' = gsp /\ UNCHANGED rpc
    BY DEF SyncStep, Next
  <1>2. Inv' /\ AccountKept
    BY <1>1, NextInv, StepKeepsAccount DEF SystemInv
  <1>3. GspInv'
    BY <1>1, <1>2, GspStays DEF SystemInv
  <1>4. DetachesInv' /\ QueriedInv' /\ RpcInv'
    BY <1>1, NoRequestYet DEF SystemInv
  <1> QED BY <1>2, <1>3, <1>4 DEF SystemInv, AccountKept

LEMMA BaseMovesInv ==
    ASSUME SystemInv, BaseMoves
    PROVE  SystemInv'
  <1>1. Next /\ UNCHANGED <<table, pc, gsp, rpc>>
    BY DEF BaseMoves, BaseMove, Next, chain
  <1>2. Inv' /\ AccountKept
    BY <1>1, NextInv, StepKeepsAccount DEF SystemInv
  <1>3. GspInv'
    BY <1>1, <1>2, GspStays DEF SystemInv
  <1>4. DetachesInv' /\ QueriedInv' /\ RpcInv'
    BY <1>1, RequestStays DEF SystemInv
  <1> QED BY <1>2, <1>3, <1>4 DEF SystemInv, AccountKept

LEMMA ServerCrashesInv ==
    ASSUME SystemInv, ServerCrashes
    PROVE  SystemInv'
  <1>1. Next /\ gsp' = gsp /\ EndRpc
    BY DEF ServerCrashes, Next
  <1>2. Inv' /\ AccountKept
    BY <1>1, NextInv, StepKeepsAccount DEF SystemInv
  <1>3. GspInv'
    BY <1>1, <1>2, GspStays DEF SystemInv
  <1>4. DetachesInv' /\ QueriedInv' /\ RpcInv'
    BY <1>1, NoRequest DEF EndRpc
  <1> QED BY <1>2, <1>3, <1>4 DEF SystemInv, AccountKept

(* A GSP that is sent an imported block gets to a block that is stored. *)
LEMMA SyncImportsInv ==
    ASSUME SystemInv, SyncImports
    PROVE  SystemInv'
  <1>1. rpcPc = "none" /\ Next /\ UNCHANGED rpc /\ ImportNewTip
    BY DEF SyncImports, Next
  <1>2. Inv' /\ AccountKept /\ Inv
    BY <1>1, NextInv, StepKeepsAccount DEF SystemInv
  <1>3. GspInv'
    <2>1. CASE gsp' = gsp
      BY <1>2, <2>1, GspStays DEF SystemInv
    <2>2. CASE table' # table /\ gsp' = Tip(table')
      <3>1. PICK found, b : found = GetBlockRange(genesisHeight, 1) /\ b = found[1]
        OBVIOUS
      <3>2. pc = "import" /\ found # <<>> /\ Write(ImportTip(table, b), saves)
        BY <1>1, <2>2, <3>1 DEF ImportNewTip, chain
      <3>3. b \in Block /\ ImportAllowed(table, b) /\ CanImportTip(table, b)
        BY <1>2, <3>1, <3>2, ImportIsRight
      <3>4. table' = ImportTip(table, b) /\ saves' = saves /\ saves = <<>>
        BY <1>2, <3>2 DEF Write, Inv, ChainInv
      <3>5. Main(table') # {} /\ Durable' = table'
        BY <1>2, <3>3, <3>4, ImportTipCorrect DEF Durable, Inv, ChainInv
      <3>6. gsp' \in Accounted(Durable')
        BY <2>2, <3>5, TipOfMain, KnownType DEF Accounted
      <3> QED BY <3>5, <3>6, GspMoves
    <2> QED BY <2>1, <2>2 DEF SyncImports
  <1>4. DetachesInv' /\ QueriedInv' /\ RpcInv'
    BY <1>1, NoRequestYet DEF SystemInv
  <1> QED BY <1>2, <1>3, <1>4 DEF SystemInv, AccountKept

(* The notifications lead through stored blocks only. *)
LEMMA NotifiedIsKnown ==
    ASSUME Inv, pc = "notify", GspFollows
    PROVE  gsp' \in Known(table)
  <1>1. /\ ForkPoint \in Main(table) /\ ForkHeight \in Nat
        /\ \A c \in Anc[Tip(table)] : Height[c] >= ForkHeight => c \in Main(table)
    BY ForkPointCommon
  <1>2. Detached \subseteq Known(table)
    BY KnownType DEF Detached, GetForkBranch
  <1>3. ASSUME NEW i \in SentAttaches
        PROVE  attaches[i] \in Known(table)
    <2>1. i \in 1 .. Len(attaches) /\ Height[attaches[i]] > ForkHeight
      BY <1>3 DEF SentAttaches
    <2>2. attaches[i] \in Anc[Tip(table)] /\ attaches[i] \in Block
      BY <2>1, AttachesReachFork
    <2>3. Height[attaches[i]] >= ForkHeight
      BY <1>1, <2>1, <2>2, HeightType
    <2> QED BY <1>1, <2>2, <2>3, KnownType
  <1> QED BY <1>1, <1>2, <1>3, KnownType DEF GspFollows

LEMMA SyncNotifiesInv ==
    ASSUME SystemInv, SyncNotifies
    PROVE  SystemInv'
  <1>1. pc = "notify" /\ Next /\ UNCHANGED rpc
    BY DEF SyncNotifies, TipUpdatedFrom, Next
  <1>2. Inv' /\ AccountKept /\ Inv /\ rpcPc = "none"
    BY <1>1, NextInv, StepKeepsAccount DEF SystemInv, RpcInv
  <1>3. GspInv'
    <2>1. CASE gsp' = gsp
      BY <1>2, <2>1, GspStays DEF SystemInv
    <2>2. CASE GspFollows
      <3>1. gsp' \in Known(table) /\ Main(table) # {}
        BY <1>1, <1>2, <2>2, NotifiedIsKnown, ForkPointCommon
      <3>2. Durable = table
        BY <1>1, <1>2 DEF Durable, Inv, ChainInv
      <3>3. gsp' \in Accounted(Durable') /\ Main(table') # {}
        BY <1>2, <3>1, <3>2 DEF AccountKept, Accounted
      <3> QED BY <3>3, GspMoves
    <2> QED BY <2>1, <2>2 DEF SyncNotifies
  <1>4. DetachesInv' /\ QueriedInv' /\ RpcInv'
    BY <1>1, <1>2, NoRequestYet DEF SystemInv
  <1> QED BY <1>2, <1>3, <1>4 DEF SystemInv, AccountKept

-----------------------------------------------------------------------------
(* The steps of a request.  They change nothing of Sync and the database. *)

LEMMA OnlyFaults ==
    ASSUME Inv, UNCHANGED <<base, chain, members, pc, genesisHeight, locals>>,
           faults' \in Nat
    PROVE  Inv'
  <1>1. /\ UNCHANGED <<table, saves, seen, numBlocks, nextStartHeight, pc, genesisHeight>>
        /\ UNCHANGED <<blocks, attached, oldTip, attaches>> /\ UNCHANGED base
    BY DEF chain, members, locals
  <1>2. /\ baseTip' = baseTip /\ baseHighest' = baseHighest
        /\ FinalHeight' = FinalHeight /\ FinalBlock' = FinalBlock /\ BaseInv'
    BY <1>1, BaseStays DEF Inv
  <1>3. TypeOK'
    BY <1>1, <1>2 DEF Inv, TypeOK
  <1>4. ChainInv'
    BY <1>1, <1>2 DEF Inv, ChainInv, Rooted
  <1>5. SearchInv' /\ ImportInv'
    BY <1>1, <1>2 DEF Inv, SearchInv, ImportInv
  <1>6. BlocksInv'
    BY <1>1, <1>2 DEF Inv, BlocksInv
  <1>7. AttachesInv'
    BY <1>1, <1>2 DEF Inv, AttachesInv
  <1> QED BY <1>2, <1>3, <1>4, <1>5, <1>6, <1>7 DEF Inv

LEMMA SyncUntouched ==
    ASSUME SystemInv, UNCHANGED <<base, chain, members, pc, genesisHeight, locals>>,
           faults' = faults \/ faults' = faults + 1
    PROVE  /\ Inv' /\ DurableInv' /\ AccountKept
           /\ table' = table /\ pc' = pc /\ Durable' = Durable
           /\ gsp' = gsp => GspInv'
  <1>1. Inv /\ DurableInv /\ GspInv
    BY DEF SystemInv
  <1>2. Inv'
    BY <1>1, OnlyFaults DEF Inv, TypeOK
  <1>3. Genesis' = Genesis
    BY <1>1, GenesisStays DEF Inv
  <1>4. AccountKept
    BY <1>1, <1>3, SameDatabase DEF chain
  <1> QED BY <1>1, <1>2, <1>4, GspStays DEF AccountKept, chain, Durable

(***************************************************************************)
(* What a request may rely on: it runs between the steps of Sync, so that  *)
(* all that is stored is durable.                                          *)
(***************************************************************************)
LEMMA DuringRequest ==
    ASSUME SystemInv, rpcPc \in {"from", "to", "detach", "attach", "reply"}
    PROVE  /\ pc = "idle" /\ saves = <<>> /\ Durable = table /\ TypeOK /\ BaseInv
           /\ TableInv(table) /\ Main(table) # {}
           /\ Lowest(table) \in Anc[baseTip] /\ Lowest(table) \in Block
           /\ Tip(table) \in Block /\ Height[Lowest(table)] =< Height[Tip(table)]
           /\ gsp \in Block /\ gsp \in Accounted(table)
           /\ RpcForkPoint \in Block /\ RpcForkPoint \in Accounted(table)
           /\ RpcForkHeight \in Nat /\ RpcForkHeight = Height[RpcForkPoint]
  <1>1. pc = "idle" /\ gsp # NoBlock /\ Main(table) # {}
    BY DEF SystemInv, RpcInv
  <1>2. saves = <<>> /\ TypeOK /\ BaseInv /\ TableInv(table) /\ Rooted(table)
    BY <1>1 DEF SystemInv, Inv, ChainInv
  <1>3. Durable = table
    BY <1>2 DEF Durable
  <1>4. gsp \in Accounted(table)
    BY <1>1, <1>3 DEF SystemInv, GspInv
  <1>5. gsp \in Block
    BY <1>2, <1>4, AccountedIsClosed
  <1>6. RpcForkPoint \in Block /\ RpcForkPoint \in Accounted(table)
    <2>1. CASE detach = <<>>
      BY <1>4, <1>5, <2>1 DEF RpcForkPoint
    <2>2. CASE detach # <<>>
      <3>1. Len(detach) \in 1 .. Len(detach)
        BY <2>2 DEF SystemInv, DetachesInv
      <3>2. LastOf(detach) \in Accounted(table) /\ Parent[LastOf(detach)] # NoBlock
        BY <3>1 DEF SystemInv, DetachesInv, LastOf
      <3>3. Parent[LastOf(detach)] \in Accounted(table)
        BY <1>2, <3>2 DEF TableInv, AncestorClosed
      <3> QED BY <1>2, <2>2, <3>3, AccountedIsClosed DEF RpcForkPoint
    <2> QED BY <2>1, <2>2
  <1>7. Lowest(table) \in Anc[baseTip] /\ Lowest(table) \in Block
    BY <1>1, <1>2, RootOnBase
  <1>8. Tip(table) \in Block /\ Height[Lowest(table)] =< Height[Tip(table)]
    BY <1>1, TipOfMain, LowestOfMain, KnownType
  <1> QED BY <1>1, <1>2, <1>3, <1>4, <1>5, <1>6, <1>7, <1>8, HeightType DEF RpcForkHeight

LEMMA ReversedType ==
    ASSUME NEW S, NEW s \in Seq(S), NEW r, r = ReversedSeq(s)
    PROVE  /\ r \in Seq(S) /\ Len(r) = Len(s)
           /\ \A i \in 1 .. Len(s) : r[i] = s[Len(s) + 1 - i]
  <1>1. Len(s) \in Nat /\ \A i \in 1 .. Len(s) : s[i] \in S
    OBVIOUS
  <1>2. ASSUME NEW i \in 1 .. Len(s)
        PROVE  r[i] = s[Len(s) + 1 - i] /\ r[i] \in S
    <2>1. Len(s) + 1 - i \in 1 .. Len(s)
      BY <1>1
    <2> QED BY <1>1, <2>1 DEF ReversedSeq
  <1>3. r \in [1 .. Len(s) -> S]
    BY <1>2 DEF ReversedSeq
  <1>4. r \in Seq(S)
    BY <1>1, <1>3, SeqDef
  <1>5. Len(r) = Len(s)
    BY <1>1, <1>3, <1>4, LenProperties
  <1> QED BY <1>2, <1>4, <1>5

(* Two blocks of a chain, one right below the other. *)
LEMMA RightBelow ==
    ASSUME NEW b \in Block, NEW c \in Anc[b], NEW d \in Anc[b],
           Height[c] = Height[d] + 1
    PROVE  Parent[c] = d
  <1>1. c \in Block /\ d \in Block /\ Height[c] \in Nat /\ Height[d] \in Nat
    BY AncType, HeightType
  <1>2. Parent[c] # NoBlock
    BY <1>1, ParentIsBlock
  <1>3. Parent[c] \in Anc[b] /\ Height[c] = Height[Parent[c]] + 1 /\ Height[Parent[c]] \in Nat
    BY <1>1, <1>2, AncParent, ParentBelow
  <1>4. Height[Parent[c]] = Height[d]
    BY <1>1, <1>3
  <1> QED BY <1>3, <1>4, AncSameHeight

(* The detaches that GetForkBranch gives for a block off the main chain. *)
LEMMA PathOfGsp ==
    ASSUME TypeOK, NEW t, TableInv(t), Grounded(t), Main(t) # {}, NEW g \in OffMain(t),
           NEW r, r = ReversedSeq(SortByHeight(GetForkBranch(t, g)))
    PROVE  /\ r \in Seq(Block) /\ Len(r) > 0
           /\ \A i \in 1 .. Len(r) :
                 /\ r[i] \in OffMain(t) /\ Parent[r[i]] # NoBlock
                 /\ r[i] = IF i = 1 THEN g ELSE Parent[r[i - 1]]
           /\ Height[Parent[r[Len(r)]]] =< Height[Tip(t)]
  <1>0. /\ g \in Block /\ g \in Known(t) /\ g \in Anc[g] /\ Height[g] \in Nat
        /\ Anc[g] \subseteq Block
    BY KnownType, AncSelf, HeightType, AncType
  <1>1. PICK D : D = GetForkBranch(t, g)
    OBVIOUS
  <1>2. D = PathToMain(t, g) /\ D \subseteq Anc[g] /\ D \subseteq OffMain(t)
    <2>1. D = PathToMain(t, g)
      BY <1>0, <1>1, ForkBranchCorrect
    <2>2. \A c \in Anc[g] : Height[c] >= Height[c]
      BY <1>0, HeightType
    <2> QED BY <2>1, <2>2 DEF PathToMain
  <1>3. PICK l \in PathToMain(t, g) :
              /\ \A c \in PathToMain(t, g) : Height[l] =< Height[c]
              /\ \A d \in Anc[g] : Height[l] =< Height[d] => d \in PathToMain(t, g)
    BY ForkBranchShape
  <1>4. l \in Anc[g] /\ l \in Block /\ l \in D /\ Height[l] \in Nat /\ Height[l] =< Height[g]
    BY <1>0, <1>2, <1>3, AncHeight, HeightType
  <1>5. D = {c \in Anc[g] : Height[l] =< Height[c]}
    BY <1>2, <1>3
  <1>6. PICK A : A = Segment(g, Height[l])
    OBVIOUS
  <1>7. SortByHeight(D) = A
    BY <1>0, <1>4, <1>5, <1>6, SegmentSorted
  <1>8. PICK m : m = Height[g] - Height[l] + 1
    OBVIOUS
  <1>9. m \in Nat /\ m > 0 /\ Height[g] = Height[l] + m - 1
    BY <1>0, <1>4, <1>8
  <1>10. /\ A \in Seq(Block) /\ Len(A) = m
         /\ \A i \in 1 .. m : A[i] \in Anc[g] /\ Height[A[i]] = Height[l] + i - 1
    BY <1>0, <1>4, <1>6, <1>8, SegmentType
  <1>11. /\ r \in Seq(Block) /\ Len(r) = m
         /\ \A i \in 1 .. m : r[i] = A[m + 1 - i]
    BY <1>1, <1>7, <1>10, ReversedType
  <1>12. ASSUME NEW i \in 1 .. m
         PROVE  r[i] \in Anc[g] /\ Height[r[i]] = Height[l] + m - i
    <2>1. m + 1 - i \in 1 .. m /\ Height[l] + (m + 1 - i) - 1 = Height[l] + m - i
      BY <1>4, <1>9
    <2> QED BY <1>10, <1>11, <2>1
  <1>13. ASSUME NEW i \in 1 .. m
         PROVE  r[i] \in OffMain(t) /\ Parent[r[i]] # NoBlock
    <2>1. r[i] \in Anc[g] /\ Height[l] =< Height[r[i]]
      BY <1>4, <1>9, <1>12
    <2>2. r[i] \in OffMain(t) /\ r[i] \in Block /\ r[i] \in Known(t)
      BY <1>2, <1>5, <2>1, KnownType
    <2>3. Genesis \in Anc[r[i]] /\ r[i] # Genesis
      BY <2>2 DEF Grounded
    <2> QED BY <2>2, <2>3, AboveGenesis
  <1>14. r[1] = g
    <2>1. 1 \in 1 .. m /\ Height[l] + m - 1 = Height[g]
      BY <1>9
    <2> QED BY <1>0, <1>12, <2>1, AncSameHeight
  <1>15. ASSUME NEW i \in 1 .. m, i # 1
         PROVE  r[i] = Parent[r[i - 1]]
    <2>1. i - 1 \in 1 .. m /\ Height[l] + m - (i - 1) = Height[l] + m - i + 1
      BY <1>4, <1>9, <1>15
    <2> QED BY <1>0, <1>12, <2>1, RightBelow
  <1>16. Height[Parent[r[m]]] =< Height[Tip(t)]
    <2>1. m \in 1 .. m /\ Height[l] + m - m = Height[l]
      BY <1>4, <1>9
    <2>2. r[m] = l
      BY <1>0, <1>4, <1>12, <2>1, AncSameHeight
    <2>3. PICK p : p = Parent[l]
      OBVIOUS
    <2>4. /\ p # NoBlock /\ p \in Block /\ p \in Anc[g]
          /\ Height[l] = Height[p] + 1 /\ Height[p] \in Nat
      BY <1>0, <1>4, <1>13, <2>1, <2>2, <2>3, ParentBelow, AncParent
    <2>5. p \in Accounted(t)
      BY <1>2, <1>4, <2>3, <2>4, KnownType DEF TableInv, AncestorClosed, Accounted
    <2>6. p \notin D
      BY <1>3, <1>2, <2>4
    <2>7. p \notin OffMain(t)
      <3> SUFFICES ASSUME p \in OffMain(t) PROVE p \in D
        BY <2>6
      <3>1. ASSUME NEW d \in Anc[g], Height[d] >= Height[p]
            PROVE  d \in OffMain(t)
        <4>1. CASE Height[d] = Height[p]
          BY <1>0, <2>4, <4>1, AncSameHeight
        <4>2. CASE Height[d] # Height[p]
          <5>1. Height[d] \in Nat
            BY <1>0, HeightType
          <5>2. Height[l] =< Height[d]
            BY <2>4, <3>1, <4>2, <5>1
          <5> QED BY <1>2, <1>3, <5>2
        <4> QED BY <4>1, <4>2
      <3> QED BY <1>2, <2>4, <3>1 DEF PathToMain
    <2>8. /\ Tip(t) \in Main(t) /\ \A c \in Main(t) : Height[c] =< Height[Tip(t)]
          /\ Lowest(t) \in Main(t) /\ Tip(t) \in Block /\ Lowest(t) \in Block
          /\ Height[Tip(t)] \in Nat /\ Height[Lowest(t)] \in Nat
      BY TipOfMain, LowestOfMain, KnownType, HeightType
    <2>9. CASE p \in Known(t)
      BY <2>2, <2>3, <2>7, <2>8, <2>9 DEF OffMain
    <2>10. CASE p \notin Known(t)
      <3>1. Height[p] < Height[Lowest(t)] /\ Height[Lowest(t)] =< Height[Tip(t)]
        BY <2>5, <2>8, <2>10, AccountedOrPruned
      <3> QED BY <2>2, <2>3, <2>4, <2>8, <3>1
    <2> QED BY <2>9, <2>10
  <1> QED BY <1>9, <1>11, <1>13, <1>14, <1>15, <1>16

LEMMA RpcBeginInv ==
    ASSUME SystemInv, NEW t \in Targets, RpcBegin(t)
    PROVE  SystemInv'
  <1>1. /\ rpcPc = "none" /\ pc = "idle" /\ gsp # NoBlock /\ to' = t
        /\ EarlyRequests \/ Main(table) # {}
        /\ detach' = ReversedSeq(SortByHeight(GetForkBranch(table, gsp)))
        /\ rpcPc' = IF Main(table) = {} THEN "abort"
                    ELSE IF ForkBranchFound(table, gsp) THEN AfterDetaches(t)
                    ELSE "from"
        /\ gsp' = gsp /\ queriedAttach' = queriedAttach /\ UNCHANGED vars
    BY DEF RpcBegin
  <1>2. Inv' /\ DurableInv' /\ GspInv' /\ table' = table /\ pc' = pc
    BY <1>1, SyncUntouched DEF vars
  <1>3. /\ TypeOK /\ TableInv(table) /\ Grounded(table) /\ saves = <<>>
        /\ queriedAttach = <<>> /\ t \in Block \cup {NoBlock}
    BY <1>1, SendUpdatesAssumption
       DEF SystemInv, Inv, ChainInv, DurableInv, QueriedInv
  <1>4. QueriedInv'
    BY <1>1, <1>3 DEF QueriedInv
  <1>5. rpcPc' \in {"abort", "from", "to", "attach"}
    BY <1>1 DEF AfterDetaches
  <1>6. CASE gsp \in OffMain(table)
    <2>1. Main(table) # {} /\ gsp \in Known(table) /\ gsp \in Block
      BY <1>3, <1>6, KnownType DEF TableInv
    <2>2. /\ detach' \in Seq(Block) /\ Len(detach') > 0
          /\ \A i \in 1 .. Len(detach') :
                /\ detach'[i] \in OffMain(table) /\ Parent[detach'[i]] # NoBlock
                /\ detach'[i] = IF i = 1 THEN gsp ELSE Parent[detach'[i - 1]]
          /\ Height[Parent[detach'[Len(detach')]]] =< Height[Tip(table)]
      BY <1>1, <1>3, <1>6, <2>1, PathOfGsp
    <2>3. DetachesInv'
      BY <1>1, <1>2, <2>2, KnownType DEF DetachesInv, Accounted
    <2>4. rpcPc' = AfterDetaches(t)
      BY <1>1, <2>1 DEF ForkBranchFound
    <2>5. detach' # <<>>
      BY <2>2
    <2>6. RpcForkHeight' =< Height[Tip(table)]
      BY <2>2, <2>5 DEF RpcForkHeight, RpcForkPoint, LastOf
    <2>7. RpcInv'
      BY <1>1, <1>2, <1>3, <2>1, <2>4, <2>6 DEF RpcInv, AfterDetaches
    <2> QED BY <1>2, <1>4, <2>3, <2>7 DEF SystemInv
  <1>7. CASE gsp \notin OffMain(table)
    <2>1. GetForkBranch(table, gsp) = {}
      BY <1>7 DEF GetForkBranch
    <2>2. SortByHeight(GetForkBranch(table, gsp)) = <<>>
      BY <2>1, SortedEmpty
    <2>3. detach' = <<>>
      BY <1>1, <2>2 DEF ReversedSeq
    <2>4. DetachesInv'
      BY <2>3 DEF DetachesInv
    <2>5. RpcForkHeight' = Height[gsp]
      BY <1>1, <2>3 DEF RpcForkHeight, RpcForkPoint
    <2>6. Main(table) # {} /\ gsp \in Known(table) => Height[gsp] =< Height[Tip(table)]
      BY <1>7, TipOfMain DEF OffMain
    <2>7. RpcInv'
      BY <1>1, <1>2, <1>3, <2>3, <2>5, <2>6 DEF RpcInv, AfterDetaches, ForkBranchFound
    <2> QED BY <1>2, <1>4, <2>4, <2>7 DEF SystemInv
  <1> QED BY <1>6, <1>7

LEMMA RpcFromHeightInv ==
    ASSUME SystemInv, RpcFromHeight
    PROVE  SystemInv'
  <1>1. /\ rpcPc = "from"
        /\ rpcPc' = IF OnBaseChain(gsp) /\ Height[gsp] < GetLowestUnprunedHeight(table)
                    THEN AfterDetaches(to) ELSE "reply"
        /\ UNCHANGED <<gsp, to, detach, queriedAttach>> /\ UNCHANGED vars
    BY DEF RpcFromHeight
  <1>2. Inv' /\ DurableInv' /\ GspInv' /\ table' = table /\ pc' = pc
    BY <1>1, SyncUntouched DEF vars
  <1>3. /\ pc = "idle" /\ Main(table) # {} /\ gsp \in Block
        /\ Tip(table) \in Block /\ Lowest(table) \in Block
        /\ Height[Lowest(table)] =< Height[Tip(table)]
        /\ GetLowestUnprunedHeight(table) = Height[Lowest(table)]
    BY <1>1, DuringRequest, LowestHeight
  <1>4. detach = <<>> /\ queriedAttach = <<>>
    BY <1>1 DEF SystemInv, RpcInv, QueriedInv
  <1>5. DetachesInv'
    BY <1>1, <1>2 DEF SystemInv, DetachesInv
  <1>6. QueriedInv'
    BY <1>1, <1>4 DEF QueriedInv
  <1>7. RpcForkHeight' = Height[gsp]
    BY <1>1, <1>4 DEF RpcForkHeight, RpcForkPoint
  <1>8. rpcPc' # "reply" => Height[gsp] =< Height[Tip(table)]
    BY <1>1, <1>3, HeightType DEF AfterDetaches
  <1>9. gsp # NoBlock /\ to \in Block \cup {NoBlock}
    BY <1>3, BlocksAssumption DEF SystemInv, RpcInv
  <1>10. rpcPc' = "reply" \/ rpcPc' = AfterDetaches(to)
    BY <1>1
  <1>11. RpcInv'
    BY <1>1, <1>2, <1>3, <1>7, <1>8, <1>9, <1>10 DEF RpcInv, AfterDetaches
  <1> QED BY <1>2, <1>5, <1>6, <1>11 DEF SystemInv

LEMMA RpcToHeightInv ==
    ASSUME SystemInv, RpcToHeight
    PROVE  SystemInv'
  <1>1. /\ rpcPc = "to"
        /\ rpcPc' = IF ~ OnBaseChain(to) \/ Height[to] = RpcForkHeight THEN "reply"
                    ELSE IF Height[to] < RpcForkHeight THEN "detach"
                    ELSE "attach"
        /\ UNCHANGED <<gsp, to, detach, queriedAttach>> /\ UNCHANGED vars
    BY DEF RpcToHeight
  <1>2. Inv' /\ DurableInv' /\ GspInv' /\ table' = table /\ pc' = pc
    BY <1>1, SyncUntouched DEF vars
  <1>3. pc = "idle" /\ Main(table) # {} /\ RpcForkHeight \in Nat /\ gsp # NoBlock
    BY <1>1, DuringRequest, BlocksAssumption
  <1>4. /\ to \in Block /\ to # NoBlock /\ RpcForkHeight =< Height[Tip(table)]
        /\ queriedAttach = <<>>
    BY <1>1 DEF SystemInv, RpcInv, QueriedInv
  <1>5. RpcForkHeight' = RpcForkHeight
    BY <1>1 DEF RpcForkHeight, RpcForkPoint, LastOf
  <1>6. DetachesInv'
    BY <1>1, <1>2 DEF SystemInv, DetachesInv
  <1>7. QueriedInv'
    BY <1>1, <1>4 DEF QueriedInv
  <1>8. /\ rpcPc' \in {"reply", "detach", "attach"}
        /\ rpcPc' = "detach" => Height[to] < RpcForkHeight
        /\ rpcPc' = "attach" => RpcForkHeight < Height[to]
    BY <1>1, <1>3, <1>4, HeightType
  <1>9. RpcInv'
    BY <1>1, <1>2, <1>3, <1>4, <1>5, <1>8 DEF RpcInv
  <1> QED BY <1>2, <1>6, <1>7, <1>9 DEF SystemInv

(* The blocks of a range are linked. *)
LEMMA RangeLinked ==
    ASSUME NEW b \in Block, NEW f \in Seq(Block), f # <<>>, NEW start \in Nat \ {0},
           \A i \in 1 .. Len(f) : f[i] \in Anc[b] /\ Height[f[i]] = start + i - 1
    PROVE  /\ Len(f) \in 1 .. Len(f)
           /\ \A i \in 1 .. Len(f) :
                 /\ Parent[f[i]] # NoBlock /\ f[i] \in Anc[LastOf(f)]
                 /\ i # 1 => Parent[f[i]] = f[i - 1]
  <1>1. Len(f) \in Nat /\ Len(f) \in 1 .. Len(f) /\ \A i \in 1 .. Len(f) : f[i] \in Block
    OBVIOUS
  <1>2. ASSUME NEW i \in 1 .. Len(f)
        PROVE  /\ Parent[f[i]] # NoBlock /\ f[i] \in Anc[LastOf(f)]
               /\ i # 1 => Parent[f[i]] = f[i - 1]
    <2>1. Height[f[i]] = start + i - 1 /\ f[i] \in Anc[b] /\ f[i] \in Block
      BY <1>1
    <2>2. Parent[f[i]] # NoBlock
      BY <2>1, ParentIsBlock
    <2>3. Height[f[i]] =< Height[f[Len(f)]] /\ f[Len(f)] \in Anc[b]
      BY <1>1, <2>1
    <2>4. f[i] \in Anc[LastOf(f)]
      BY <2>1, <2>3, AncLinear DEF LastOf
    <2>5. ASSUME i # 1
          PROVE  Parent[f[i]] = f[i - 1]
      <3>1. i - 1 \in 1 .. Len(f)
        BY <2>5
      <3>2. f[i - 1] \in Anc[b] /\ Height[f[i - 1]] = start + (i - 1) - 1
        BY <3>1
      <3>3. Height[f[i]] = Height[f[i - 1]] + 1
        BY <2>1, <3>2
      <3> QED BY <2>1, <3>2, <3>3, RightBelow
    <2> QED BY <2>2, <2>4, <2>5
  <1> QED BY <1>1, <1>2

(* Detaching a range that ends in the fork point, from there down. *)
IsDetachRange(f) ==
    /\ f \in Seq(Block) /\ f # <<>> /\ LastOf(f) = RpcForkPoint
    /\ \A i \in 1 .. Len(f) :
          /\ f[i] \in Accounted(table) /\ Parent[f[i]] # NoBlock
          /\ i # 1 => Parent[f[i]] = f[i - 1]

LeadDown(e) ==
    /\ e \in Seq(Block)
    /\ \A i \in 1 .. Len(e) :
          /\ e[i] = IF i = 1 THEN gsp ELSE Parent[e[i - 1]]
          /\ e[i] \in Accounted(table)
          /\ Parent[e[i]] # NoBlock

LEMMA DetachesGoOn ==
    ASSUME DetachesInv, gsp \in Block, NEW f, IsDetachRange(f),
           NEW e, e = detach \o ReversedSeq(f)
    PROVE  LeadDown(e)
  <1> USE DEF IsDetachRange
  <1>0. PICK r, n, m : r = ReversedSeq(f) /\ n = Len(detach) /\ m = Len(f)
    OBVIOUS
  <1>1. /\ r \in Seq(Block) /\ Len(r) = m
        /\ \A i \in 1 .. m : r[i] = f[m + 1 - i]
    BY <1>0, ReversedType
  <1>2. detach \in Seq(Block) /\ n \in Nat /\ m \in Nat /\ m > 0
    BY <1>0 DEF DetachesInv
  <1>3. /\ e \in Seq(Block) /\ Len(e) = n + m
        /\ \A i \in 1 .. n : e[i] = detach[i]
        /\ \A i \in n + 1 .. n + m : e[i] = r[i - n]
    BY <1>0, <1>1, <1>2
  <1>4. ASSUME NEW i \in 1 .. n
        PROVE  /\ e[i] = IF i = 1 THEN gsp ELSE Parent[e[i - 1]]
               /\ e[i] \in Accounted(table) /\ Parent[e[i]] # NoBlock
    <2>1. e[i] = detach[i] /\ (i # 1 => i - 1 \in 1 .. n /\ e[i - 1] = detach[i - 1])
      BY <1>2, <1>3, SMTT(60)
    <2> QED BY <1>0, <2>1 DEF DetachesInv
  <1>5. ASSUME NEW j \in 1 .. m
        PROVE  /\ e[n + j] = f[m + 1 - j] /\ m + 1 - j \in 1 .. m
               /\ e[n + j] \in Accounted(table) /\ Parent[e[n + j]] # NoBlock
    <2>1. n + j \in n + 1 .. n + m /\ (n + j) - n = j /\ m + 1 - j \in 1 .. m
      BY <1>2
    <2>2. e[n + j] = r[j] /\ r[j] = f[m + 1 - j]
      BY <1>1, <1>3, <2>1
    <2> QED BY <1>0, <2>1, <2>2
  <1>6. e[n + 1] = RpcForkPoint
    <2>1. 1 \in 1 .. m /\ m + 1 - 1 = m
      BY <1>2
    <2> QED BY <1>0, <1>5, <2>1, ZenonT(60) DEF LastOf
  <1>7. e[n + 1] = IF n + 1 = 1 THEN gsp ELSE Parent[e[n]]
    <2>1. CASE detach = <<>>
      <3>1. n = 0
        BY <1>0, <2>1
      <3> QED BY <1>6, <2>1, <3>1 DEF RpcForkPoint
    <2>2. CASE detach # <<>>
      <3>1. n \in 1 .. n /\ n + 1 # 1
        BY <1>0, <1>2, <2>2
      <3> QED BY <1>0, <1>3, <1>6, <2>2, <3>1 DEF RpcForkPoint, LastOf
    <2> QED BY <2>1, <2>2
  <1>8. ASSUME NEW j \in 1 .. m, j # 1
        PROVE  e[n + j] = Parent[e[n + j - 1]]
    <2>1. j - 1 \in 1 .. m /\ n + (j - 1) = n + j - 1
      BY <1>2, <1>8
    <2>2. /\ e[n + j] = f[m + 1 - j] /\ e[n + j - 1] = f[m + 1 - (j - 1)]
          /\ m + 1 - (j - 1) \in 1 .. m
      BY <1>5, <2>1
    <2>3. m + 1 - (j - 1) # 1 /\ m + 1 - (j - 1) - 1 = m + 1 - j
      BY <1>2
    <2> QED BY <1>0, <2>2, <2>3
  <1>9. ASSUME NEW i \in n + 1 .. n + m
        PROVE  /\ e[i] = IF i = 1 THEN gsp ELSE Parent[e[i - 1]]
               /\ e[i] \in Accounted(table) /\ Parent[e[i]] # NoBlock
    <2>1. PICK j \in 1 .. m : i = n + j
      <3>1. i - n \in 1 .. m /\ i = n + (i - n)
        BY <1>2
      <3> QED BY <3>1
    <2>2. CASE j = 1
      <3>1. i = n + 1 /\ i - 1 = n
        BY <1>2, <2>1, <2>2
      <3> QED BY <1>5, <1>7, <2>1, <3>1, ZenonT(60)
    <2>3. CASE j # 1
      <3>1. i # 1 /\ i - 1 = n + j - 1
        BY <1>2, <2>1, <2>3
      <3> QED BY <1>5, <1>8, <2>1, <2>3, <3>1
    <2> QED BY <2>2, <2>3
  <1>10. \A i \in 1 .. Len(e) : i \in 1 .. n \/ i \in n + 1 .. n + m
    BY <1>2, <1>3
  <1> QED BY <1>3, <1>4, <1>9, <1>10 DEF LeadDown

LEMMA RpcDetachInv ==
    ASSUME SystemInv, RpcDetach
    PROVE  SystemInv'
  <1>0. PICK num, found : /\ num = Smaller(BlockRange, RpcForkHeight - Height[to])
                          /\ found = GetBlockRange(RpcForkHeight - num + 1, num)
    OBVIOUS
  <1>1. /\ rpcPc = "detach" /\ rpcPc' \in {"reply", "undefined"}
        /\ UNCHANGED <<gsp, to, queriedAttach>> /\ UNCHANGED vars
        /\ \/ detach' = detach
           \/ /\ found # <<>> /\ LastOf(found) = RpcForkPoint
              /\ detach' = detach \o ReversedSeq(found)
    BY <1>0 DEF RpcDetach
  <1>2. Inv' /\ DurableInv' /\ GspInv' /\ table' = table /\ pc' = pc
    BY <1>1, SyncUntouched DEF vars
  <1>3. /\ pc = "idle" /\ Main(table) # {} /\ TypeOK /\ TableInv(table) /\ baseTip \in Block
        /\ gsp \in Block /\ gsp # NoBlock /\ RpcForkHeight \in Nat
        /\ RpcForkPoint \in Block /\ RpcForkPoint \in Accounted(table)
    BY <1>1, DuringRequest, BlocksAssumption DEF TypeOK
  <1>4. /\ to \in Block /\ Height[to] < RpcForkHeight /\ queriedAttach = <<>> /\ DetachesInv
    BY <1>1 DEF SystemInv, RpcInv, QueriedInv
  <1>5. /\ num \in Nat \ {0} /\ RpcForkHeight - num + 1 \in Nat \ {0}
    <2>1. Height[to] \in Nat /\ BlockRange \in Nat \ {0}
      BY <1>4, HeightType, SyncAssumption
    <2>2. RpcForkHeight - Height[to] \in Nat \ {0}
      BY <1>3, <1>4, <2>1
    <2>3. num \in Nat \ {0} /\ num =< RpcForkHeight - Height[to]
      BY <1>0, <2>1, <2>2 DEF Smaller
    <2> QED BY <1>3, <2>1, <2>3
  <1>6. PICK start : start = RpcForkHeight - num + 1
    OBVIOUS
  <1>7. /\ found \in Seq(Block)
        /\ \A i \in 1 .. Len(found) :
              found[i] \in Anc[baseTip] /\ Height[found[i]] = start + i - 1
    <2>1. TypeOK /\ start \in Nat /\ num \in Nat \ {0} /\ found = GetBlockRange(start, num)
      BY <1>0, <1>3, <1>5, <1>6
    <2> QED BY ONLY <2>1, RangeIsSegment
  <1>8. CASE detach' = detach
    <2>1. DetachesInv'
      BY <1>1, <1>2, <1>4, <1>8 DEF DetachesInv
    <2>2. QueriedInv' /\ RpcInv'
      BY <1>1, <1>2, <1>3, <1>4 DEF QueriedInv, RpcInv, SystemInv
    <2> QED BY <1>2, <2>1, <2>2 DEF SystemInv
  <1>9. CASE /\ found # <<>> /\ LastOf(found) = RpcForkPoint
             /\ detach' = detach \o ReversedSeq(found)
    <2>1. \A i \in 1 .. Len(found) :
             /\ Parent[found[i]] # NoBlock /\ found[i] \in Anc[RpcForkPoint]
             /\ i # 1 => Parent[found[i]] = found[i - 1]
      BY <1>3, <1>5, <1>6, <1>7, <1>9, RangeLinked
    <2>2. \A i \in 1 .. Len(found) : found[i] \in Accounted(table)
      BY <1>3, <2>1, AccountedIsClosed
    <2>3. PICK e : e = detach \o ReversedSeq(found)
      OBVIOUS
    <2>4. IsDetachRange(found)
      BY <1>7, <1>9, <2>1, <2>2 DEF IsDetachRange
    <2>5. LeadDown(e)
      BY <1>3, <1>4, <2>3, <2>4, DetachesGoOn
    <2>6. detach' = e
      BY <1>9, <2>3
    <2>7. DetachesInv'
      BY <1>1, <1>2, <2>5, <2>6 DEF DetachesInv, LeadDown
    <2>8. QueriedInv' /\ RpcInv'
      BY <1>1, <1>2, <1>3, <1>4 DEF QueriedInv, RpcInv, SystemInv
    <2> QED BY <1>2, <2>7, <2>8 DEF SystemInv
  <1> QED BY <1>1, <1>8, <1>9

(* The first blocks of a range. *)
LEMMA ShortRange ==
    ASSUME NEW f \in Seq(Block), NEW s \in ShortAnswers(f)
    PROVE  /\ s \in Seq(Block) /\ Len(s) =< Len(f)
           /\ \A i \in 1 .. Len(s) : s[i] = f[i]
  <1>1. PICK n \in 1 .. Len(f) - 1 : s = SubSeq(f, 1, n)
    BY DEF ShortAnswers
  <1>2. Len(f) \in Nat /\ n \in Nat /\ n =< Len(f)
    OBVIOUS
  <1> QED BY <1>1, <1>2

(* The blocks that AttachFound is given. *)
IsAttachRange(f) ==
    /\ f \in Seq(Block)
    /\ \A i \in 1 .. Len(f) :
          f[i] \in Anc[baseTip] /\ Height[f[i]] = RpcForkHeight + 1 + i - 1

LEMMA ToAttachRange ==
    ASSUME SystemInv, rpcPc = "attach"
    PROVE  ~ (TargetHeight < RpcForkHeight) /\ IsAttachRange(ToAttach)
  <1>1. /\ TypeOK /\ Main(table) # {} /\ RpcForkHeight \in Nat /\ Tip(table) \in Block
        /\ baseTip \in Block /\ Height[baseTip] \in Nat
    BY DuringRequest, HeightType DEF TypeOK
  <1>2. TargetHeight \in Nat /\ RpcForkHeight =< TargetHeight
    <2>1. CASE to = NoBlock
      <3>1. TargetHeight = Height[Tip(table)]
        BY <1>1, <2>1, TipHeight DEF TargetHeight
      <3> QED BY <1>1, <3>1, HeightType DEF SystemInv, RpcInv
    <2>2. CASE to # NoBlock
      <3>1. to \in Block /\ TargetHeight = Height[to] /\ RpcForkHeight < Height[to]
        BY <2>2 DEF SystemInv, RpcInv, TargetHeight
      <3> QED BY <1>1, <3>1, HeightType
    <2> QED BY <2>1, <2>2
  <1>3. PICK num, start : /\ num = Smaller(BlockRange, TargetHeight - RpcForkHeight)
                          /\ start = RpcForkHeight + 1
    OBVIOUS
  <1>4. num \in Nat /\ start \in Nat \ {0}
    BY <1>1, <1>2, <1>3, SyncAssumption DEF Smaller
  <1>5. PICK found : found = GetBlockRange(start, num)
    OBVIOUS
  <1>6. CASE num # 0
    <2>1. /\ found \in Seq(Block)
          /\ \A i \in 1 .. Len(found) :
                found[i] \in Anc[baseTip] /\ Height[found[i]] = start + i - 1
      <3>1. TypeOK /\ start \in Nat /\ num \in Nat \ {0} /\ found = GetBlockRange(start, num)
        BY <1>1, <1>4, <1>5, <1>6
      <3> QED BY ONLY <3>1, RangeIsSegment
    <2> QED BY <1>1, <1>2, <1>3, <1>5, <2>1 DEF ToAttach, IsAttachRange
  <1>7. CASE num = 0
    <2>1. PICK m : m = Smaller(Height[baseTip], start + num - 1) - start + 1
      OBVIOUS
    <2>2. m \in Int /\ m =< 0
      BY <1>1, <1>4, <1>7, <2>1 DEF Smaller
    <2>3. found = [i \in 1 .. m |-> AncestorAt(baseTip, start + i - 1)]
      BY <1>5, <2>1 DEF GetBlockRange
    <2>4. found = <<>>
      BY <2>2, <2>3
    <2>5. IsAttachRange(<<>>)
      BY DEF IsAttachRange
    <2>6. ToAttach = <<>>
      BY <1>3, <1>5, <2>4 DEF ToAttach
    <2> QED BY <1>1, <1>2, <2>5, <2>6
  <1> QED BY <1>6, <1>7

(* Blocks that may be attached are stored or pruned, and so are those below. *)
LEMMA AttachedAccounted ==
    ASSUME SystemInv, rpcPc = "attach", NEW f, IsAttachRange(f), f # <<>>, MayAttach(f)
    PROVE  \A i \in 1 .. Len(f) :
              /\ Parent[f[i]] = IF i = 1 THEN RpcForkPoint ELSE f[i - 1]
              /\ f[i] \in Accounted(table)
  <1>1. /\ TypeOK /\ TableInv(table) /\ Main(table) # {} /\ baseTip \in Block
        /\ RpcForkHeight \in Nat /\ Lowest(table) \in Anc[baseTip] /\ Lowest(table) \in Block
    BY DuringRequest DEF TypeOK
  <1>2. PICK start : start = RpcForkHeight + 1
    OBVIOUS
  <1>3. /\ f \in Seq(Block) /\ start \in Nat \ {0}
        /\ \A i \in 1 .. Len(f) : f[i] \in Anc[baseTip] /\ Height[f[i]] = start + i - 1
    BY <1>1, <1>2 DEF IsAttachRange
  <1>4. /\ Len(f) \in 1 .. Len(f)
        /\ \A i \in 1 .. Len(f) :
              f[i] \in Anc[LastOf(f)] /\ (i # 1 => Parent[f[i]] = f[i - 1])
    BY <1>1, <1>3, RangeLinked
  <1>5. LastOf(f) \in Accounted(table)
    <2>1. CASE LastOf(f) \in Known(table)
      BY <2>1 DEF Accounted
    <2>2. CASE Height[LastOf(f)] < GetLowestUnprunedHeight(table)
      <3>1. Height[LastOf(f)] < Height[Lowest(table)]
        BY <1>1, <2>2, LowestHeight
      <3>2. LastOf(f) \in Anc[baseTip] /\ LastOf(f) \in Block
        BY <1>3, <1>4 DEF LastOf
      <3>3. Height[LastOf(f)] =< Height[Lowest(table)]
        BY <1>1, <3>1, <3>2, HeightType
      <3>4. LastOf(f) \in Anc[Lowest(table)]
        BY <1>1, <3>2, <3>3, AncLinear
      <3> QED BY <1>1, <3>4, BelowLowest
    <2> QED BY <2>1, <2>2 DEF MayAttach
  <1>6. \A i \in 1 .. Len(f) : f[i] \in Accounted(table)
    BY <1>1, <1>4, <1>5, AccountedIsClosed
  <1> QED BY <1>4, <1>6 DEF MayAttach

LEMMA AttachFoundInv ==
    ASSUME SystemInv, rpcPc = "attach", NEW found, IsAttachRange(found),
           AttachFound(found), faults' = faults \/ faults' = faults + 1
    PROVE  SystemInv'
  <1>1. /\ rpcPc' = "reply" /\ gsp' = gsp /\ to' = to /\ detach' = detach
        /\ queriedAttach' = IF found # <<>> /\ MayAttach(found) THEN found ELSE <<>>
        /\ UNCHANGED <<base, chain, members, pc, genesisHeight, locals>>
    BY DEF AttachFound
  <1>2. Inv' /\ DurableInv' /\ GspInv' /\ table' = table /\ pc' = pc
    BY <1>1, SyncUntouched
  <1>3. /\ pc = "idle" /\ Main(table) # {} /\ gsp # NoBlock
    BY DuringRequest, BlocksAssumption
  <1>4. DetachesInv'
    BY <1>1, <1>2 DEF SystemInv, DetachesInv
  <1>5. RpcForkPoint' = RpcForkPoint
    BY <1>1 DEF RpcForkPoint, LastOf
  <1>6. QueriedInv'
    <2>1. CASE found # <<>> /\ MayAttach(found)
      <3>1. queriedAttach' = found /\ found \in Seq(Block)
        BY <1>1, <2>1 DEF IsAttachRange
      <3>2. \A i \in 1 .. Len(found) :
               /\ Parent[found[i]] = IF i = 1 THEN RpcForkPoint ELSE found[i - 1]
               /\ found[i] \in Accounted(table)
        BY <2>1, AttachedAccounted
      <3> QED BY <1>1, <1>2, <1>5, <3>1, <3>2 DEF QueriedInv
    <2>2. CASE ~ (found # <<>> /\ MayAttach(found))
      <3>1. queriedAttach' = <<>>
        BY <1>1, <2>2
      <3> QED BY <3>1 DEF QueriedInv
    <2> QED BY <2>1, <2>2
  <1>7. RpcInv'
    BY <1>1, <1>2, <1>3 DEF RpcInv, SystemInv
  <1> QED BY <1>2, <1>4, <1>6, <1>7 DEF SystemInv

LEMMA RpcAttachInv ==
    ASSUME SystemInv, RpcAttach
    PROVE  SystemInv'
  <1>1. rpcPc = "attach"
    BY DEF RpcAttach
  <1>2. IsAttachRange(ToAttach) /\ ~ (TargetHeight < RpcForkHeight)
    BY <1>1, ToAttachRange
  <1>3. AttachFound(ToAttach) /\ faults' = faults
    BY <1>2 DEF RpcAttach
  <1> QED BY <1>1, <1>2, <1>3, AttachFoundInv

LEMMA RpcAttachShortInv ==
    ASSUME SystemInv, RpcAttachShort
    PROVE  SystemInv'
  <1>1. rpcPc = "attach" /\ faults' = faults + 1
    BY DEF RpcAttachShort
  <1>2. IsAttachRange(ToAttach)
    BY <1>1, ToAttachRange
  <1>3. PICK found \in ShortAnswers(ToAttach) : AttachFound(found)
    BY DEF RpcAttachShort
  <1>4. PICK f : f = ToAttach
    OBVIOUS
  <1>5. f \in Seq(Block) /\ Len(f) \in Nat
    BY <1>2, <1>4 DEF IsAttachRange
  <1>6. /\ found \in Seq(Block) /\ Len(found) =< Len(f) /\ Len(found) \in Nat
        /\ \A i \in 1 .. Len(found) : found[i] = f[i]
    BY <1>3, <1>4, <1>5, ShortRange
  <1>7. \A i \in 1 .. Len(found) : i \in 1 .. Len(f)
    BY <1>5, <1>6
  <1>8. IsAttachRange(found)
    BY <1>2, <1>4, <1>6, <1>7 DEF IsAttachRange
  <1> QED BY <1>1, <1>3, <1>8, AttachFoundInv

(* Wherever a request leads the GSP, the blocks are accounted for. *)
LEMMA OnTheWayAccounted ==
    ASSUME SystemInv, rpcPc \in {"from", "to", "detach", "attach", "reply"}
    PROVE  /\ ToBlock \in Accounted(table)
           /\ BlocksOnTheWay \subseteq Accounted(table)
  <1>1. /\ TableInv(table) /\ gsp \in Accounted(table) /\ RpcForkPoint \in Accounted(table)
    BY DuringRequest
  <1>2. \A i \in 1 .. Len(detach) : Parent[detach[i]] \in Accounted(table)
    BY <1>1 DEF SystemInv, DetachesInv, TableInv, AncestorClosed
  <1>3. \A i \in 1 .. Len(queriedAttach) : queriedAttach[i] \in Accounted(table)
    BY DEF SystemInv, QueriedInv
  <1>4. queriedAttach # <<>> => LastOf(queriedAttach) \in Accounted(table)
    BY <1>3 DEF SystemInv, QueriedInv, LastOf
  <1> QED BY <1>1, <1>2, <1>3, <1>4 DEF ToBlock, BlocksOnTheWay, RpcForkPoint

LEMMA RequestEnds ==
    ASSUME SystemInv, rpcPc \in {"from", "to", "detach", "attach", "reply"},
           gsp' \in Accounted(table), EndRpc,
           UNCHANGED <<base, chain, members, pc, genesisHeight, locals>>,
           faults' = faults \/ faults' = faults + 1
    PROVE  SystemInv'
  <1>1. Inv' /\ DurableInv' /\ table' = table /\ Durable' = Durable
    BY SyncUntouched
  <1>2. Durable = table /\ Main(table) # {}
    BY DuringRequest
  <1>3. GspInv'
    BY <1>1, <1>2, GspMoves
  <1>4. DetachesInv' /\ QueriedInv' /\ RpcInv'
    BY NoRequest DEF EndRpc
  <1> QED BY <1>1, <1>3, <1>4 DEF SystemInv

LEMMA RpcReplyInv ==
    ASSUME SystemInv, RpcReply
    PROVE  SystemInv'
  BY OnTheWayAccounted, RequestEnds DEF RpcReply, vars

LEMMA RpcFailsInv ==
    ASSUME SystemInv, RpcFails
    PROVE  SystemInv'
  BY OnTheWayAccounted, RequestEnds DEF RpcFails

LEMMA GspStartsInv ==
    ASSUME SystemInv, GspStarts
    PROVE  SystemInv'
  <1>1. gsp = NoBlock /\ pc = "idle" /\ UNCHANGED vars /\ UNCHANGED rpc
    BY DEF GspStarts
  <1>2. PICK h \in Nat : gsp' \in getblockhash(h)
    BY HeightType DEF GspStarts
  <1>3. Inv' /\ DurableInv' /\ table' = table /\ pc' = pc /\ Durable' = Durable
    BY <1>1, SyncUntouched DEF vars
  <1>4. saves = <<>> /\ TableInv(table) /\ TypeOK /\ BaseInv /\ Rooted(table)
    BY <1>1 DEF SystemInv, Inv, ChainInv
  <1>5. Durable = table /\ baseTip \in Block
    BY <1>4 DEF Durable, TypeOK
  <1>6. Main(table) # {}
    BY <1>2 DEF getblockhash, GetLowestUnprunedHeight
  <1>7. gsp' \in Accounted(table)
    <2>1. CASE gsp' \in Main(table)
      BY <2>1, KnownType DEF Accounted
    <2>2. CASE gsp' \notin Main(table)
      <3>1. /\ ~ (h >= GetLowestUnprunedHeight(table))
            /\ gsp' \in Anc[baseTip] /\ Height[gsp'] = h
        BY <1>2, <2>2 DEF getblockhash
      <3>2. Lowest(table) \in Anc[baseTip] /\ Height[Lowest(table)] \in Nat
        BY <1>4, <1>6, RootOnBase
      <3>3. Height[gsp'] =< Height[Lowest(table)]
        BY <1>6, <3>1, <3>2, LowestHeight
      <3>4. gsp' \in Anc[Lowest(table)]
        BY <1>5, <3>1, <3>2, <3>3, AncLinear
      <3> QED BY <1>4, <1>6, <3>4, BelowLowest
    <2> QED BY <2>1, <2>2
  <1>8. GspInv'
    BY <1>3, <1>5, <1>6, <1>7, GspMoves
  <1>9. rpcPc \in {"none", "abort", "undefined"} /\ queriedAttach = <<>>
    BY <1>1 DEF SystemInv, RpcInv, QueriedInv
  <1>10. detach = <<>>
    <2> SUFFICES ASSUME detach # <<>> PROVE FALSE
      OBVIOUS
    <2>1. detach \in Seq(Block) /\ 1 \in 1 .. Len(detach)
      BY DEF SystemInv, DetachesInv
    <2>2. detach[1] = gsp /\ detach[1] \in Block
      BY <2>1 DEF SystemInv, DetachesInv
    <2> QED BY <1>1, <2>2, BlocksAssumption
  <1>11. DetachesInv' /\ QueriedInv'
    BY <1>1, <1>9, <1>10 DEF DetachesInv, QueriedInv, rpc
  <1>12. RpcInv'
    BY <1>1, <1>3, <1>9, <1>10 DEF RpcInv, rpc, SystemInv
  <1> QED BY <1>3, <1>8, <1>11, <1>12 DEF SystemInv

-----------------------------------------------------------------------------
LEMMA SystemInitInv == SystemInit => SystemInv
  <1> SUFFICES ASSUME SystemInit PROVE SystemInv
    OBVIOUS
  <1>1. Inv /\ baseTip \in Block /\ Height[baseTip] = 0 /\ table = EmptyTable /\ saves = <<>>
    BY InitInv DEF SystemInit, Init
  <1>2. Known(table) = {} /\ Main(table) = {} /\ Durable = table
    BY <1>1 DEF EmptyTable, Known, Main, OnBranch, MainBranch, NotStored, Durable
  <1>3. DurableInv
    BY <1>2 DEF DurableInv, Grounded, OffMain
  <1>4. Genesis = baseTip
    <2>1. Genesis \in Anc[baseTip] /\ Height[Genesis] = 0
      BY <1>1, GenesisBelow DEF Inv
    <2> QED BY <1>1, <2>1, AncSelf, AncSameHeight
  <1>5. GspInv
    BY <1>2, <1>4 DEF GspInv, SystemInit
  <1>6. rpcPc = "none" /\ to = NoBlock /\ detach = <<>> /\ queriedAttach = <<>>
    BY DEF SystemInit
  <1>7. DetachesInv
    BY <1>6 DEF DetachesInv
  <1>8. QueriedInv
    BY <1>6 DEF QueriedInv
  <1>9. RpcInv
    BY <1>6 DEF RpcInv
  <1> QED BY <1>1, <1>3, <1>5, <1>7, <1>8, <1>9 DEF SystemInv

LEMMA SystemNextInv == SystemInv /\ [SystemNext]_AllVars => SystemInv'
  <1> SUFFICES ASSUME SystemInv, [SystemNext]_AllVars
               PROVE  SystemInv'
    OBVIOUS
  <1>1. CASE UNCHANGED AllVars
    <2>1. UNCHANGED vars /\ gsp' = gsp /\ UNCHANGED rpc
      BY <1>1 DEF AllVars
    <2>2. Inv' /\ DurableInv' /\ GspInv' /\ table' = table /\ pc' = pc
      BY <2>1, SyncUntouched DEF vars
    <2>3. DetachesInv' /\ QueriedInv' /\ RpcInv'
      BY <2>1, <2>2, RequestStays DEF SystemInv
    <2> QED BY <2>2, <2>3 DEF SystemInv
  <1>2. CASE BaseMoves
    BY <1>2, BaseMovesInv
  <1>3. CASE SyncStep
    BY <1>3, SyncStepInv
  <1>4. CASE SyncImports
    BY <1>4, SyncImportsInv
  <1>5. CASE SyncNotifies
    BY <1>5, SyncNotifiesInv
  <1>6. CASE GspStarts
    BY <1>6, GspStartsInv
  <1>7. CASE \E t \in Targets : RpcBegin(t)
    BY <1>7, RpcBeginInv
  <1>8. CASE RpcFromHeight
    BY <1>8, RpcFromHeightInv
  <1>9. CASE RpcToHeight
    BY <1>9, RpcToHeightInv
  <1>10. CASE RpcDetach
    BY <1>10, RpcDetachInv
  <1>11. CASE RpcAttach
    BY <1>11, RpcAttachInv
  <1>12. CASE RpcAttachShort
    BY <1>12, RpcAttachShortInv
  <1>13. CASE RpcReply
    BY <1>13, RpcReplyInv
  <1>14. CASE RpcFails
    BY <1>14, RpcFailsInv
  <1>15. CASE ServerCrashes
    BY <1>15, ServerCrashesInv
  <1> QED
    BY <1>1, <1>2, <1>3, <1>4, <1>5, <1>6, <1>7, <1>8, <1>9, <1>10, <1>11, <1>12,
       <1>13, <1>14, <1>15 DEF SystemNext

(***************************************************************************)
(* The system of Sync, game_sendupdates and a GSP keeps its invariant: in  *)
(* particular, no block that the GSP is on, or that is on the way of a     *)
(* request, is ever one that X could not account for after a crash.        *)
(***************************************************************************)
THEOREM SystemInvariance == SystemSpec => []SystemInv
  BY SystemInitInv, SystemNextInv, PTL DEF SystemSpec

(***************************************************************************)
(* The messages that PushZmqBlocks sends for a request fit together,       *)
(* however the base chain moves between the calls that ask for the blocks. *)
(***************************************************************************)
THEOREM RequestsFit == SystemSpec => []MessagesFit
  <1>1. SystemInv => MessagesFit
    <2> SUFFICES ASSUME SystemInv, rpcPc = "reply"
                 PROVE  MessagesFit
      BY DEF MessagesFit
    <2>1. \A i \in 1 .. Len(detach) :
             detach[i] = IF i = 1 THEN gsp ELSE Parent[detach[i - 1]]
      BY DEF SystemInv, DetachesInv
    <2>2. \A i \in 1 .. Len(queriedAttach) :
             Parent[queriedAttach[i]] = IF i = 1 THEN RpcForkPoint ELSE queriedAttach[i - 1]
      BY DEF SystemInv, QueriedInv
    <2>3. PICK p : p = RpcForkPoint
      OBVIOUS
    <2>4. queriedAttach \in Seq(Block) /\ p \in Block
      BY <2>3, DuringRequest DEF SystemInv, QueriedInv
    <2>5. LastOf(<<p>> \o queriedAttach) =
             IF queriedAttach = <<>> THEN p ELSE LastOf(queriedAttach)
      BY <2>4 DEF LastOf
    <2>6. ToBlock = LastOf(<<p>> \o queriedAttach)
      BY <2>3, <2>5 DEF ToBlock, RpcForkPoint
    <2> QED BY <2>1, <2>2, <2>3, <2>6 DEF MessagesFit
  <1> QED BY <1>1, SystemInvariance, PTL

(***************************************************************************)
(* X can lead the GSP on from the block that it is on, even after a crash: *)
(* PushZmqBlocks and TipUpdatedFrom never bring it to another one.         *)
(***************************************************************************)
THEOREM GspLedOn == SystemSpec => []GspNeverStuck
  <1>1. SystemInv => GspNeverStuck
    <2> SUFFICES ASSUME SystemInv, gsp # NoBlock, Main(table) # {}
                 PROVE  \/ gsp \in Known(Durable)
                        \/ /\ OnBaseChain(gsp)
                           /\ Height[gsp] < GetLowestUnprunedHeight(Durable)
      BY DEF GspNeverStuck, Durable
    <2>1. /\ gsp \in Accounted(Durable) /\ Main(Durable) # {}
          /\ TypeOK /\ BaseInv /\ Rooted(Durable)
      BY DEF SystemInv, GspInv, DurableInv, Inv, ChainInv, Durable
    <2>2. ASSUME gsp \notin Known(Durable)
          PROVE  OnBaseChain(gsp) /\ Height[gsp] < GetLowestUnprunedHeight(Durable)
      <3>1. gsp \in Anc[Lowest(Durable)] /\ Height[gsp] < Height[Lowest(Durable)]
        BY <2>1, <2>2, AccountedOrPruned
      <3>2. Lowest(Durable) \in Anc[baseTip] /\ baseTip \in Block
        BY <2>1, RootOnBase DEF TypeOK
      <3> QED BY <2>1, <3>1, <3>2, AncTransitive, LowestHeight DEF OnBaseChain
    <2> QED BY <2>2
  <1> QED BY <1>1, SystemInvariance, PTL

(***************************************************************************)
(* The RPC methods tell of one chain, from the genesis to the tip,         *)
(* although its lower part is asked of a base chain that may have moved.   *)
(***************************************************************************)
LEMMA HashAtHeight ==
    ASSUME Inv, Main(table) # {}, NEW h \in Nat, h =< Height[Tip(table)],
           NEW b, b = AncestorAt(Tip(table), h)
    PROVE  /\ b \in Block /\ b \in Anc[Tip(table)] /\ Height[b] = h
           /\ getblockhash(h) = {b} /\ getblockheader(b) = {h}
  <1>1. /\ TypeOK /\ BaseInv /\ TableInv(table) /\ Rooted(table) /\ baseTip \in Block
    BY DEF Inv, ChainInv, TypeOK
  <1>2. /\ Tip(table) \in Main(table) /\ Tip(table) \in Block /\ Lowest(table) \in Main(table)
        /\ \A c \in Main(table) : Height[c] =< Height[Tip(table)]
    BY TipOfMain, LowestOfMain, KnownType
  <1>3. b \in Block /\ b \in Anc[Tip(table)] /\ Height[b] = h
    BY <1>2, AncestorAtHeight
  <1>4. Main(table) = {c \in Anc[Tip(table)] : Height[c] >= Height[Lowest(table)]}
    BY <1>1, InvHasNoGaps DEF MainIsAncestry
  <1>5. /\ Lowest(table) \in Anc[baseTip] /\ Lowest(table) \in Block
        /\ Height[Lowest(table)] \in Nat
        /\ GetLowestUnprunedHeight(table) = Height[Lowest(table)]
    BY <1>1, RootOnBase, LowestHeight
  <1>6. CASE h >= Height[Lowest(table)]
    <2>1. b \in Main(table) /\ b \in Known(table)
      BY <1>3, <1>4, <1>6, KnownType
    <2>2. {c \in Main(table) : Height[c] = h} = {b}
      BY <1>2, <1>3, <1>4, <2>1, AncSameHeight
    <2> QED BY <1>3, <2>1, <2>2 DEF getblockhash, getblockheader
  <1>7. CASE ~ (h >= Height[Lowest(table)])
    <2>1. Height[b] =< Height[Lowest(table)] /\ Lowest(table) \in Anc[Tip(table)]
      BY <1>2, <1>3, <1>4, <1>5, <1>7
    <2>2. b \in Anc[Lowest(table)]
      BY <1>2, <1>3, <2>1, AncLinear
    <2>3. b \in Anc[baseTip]
      BY <1>1, <1>5, <2>2, AncTransitive
    <2>4. {c \in Main(table) : Height[c] = h} = {}
      BY <1>4, <1>7
    <2>5. {c \in Anc[baseTip] : Height[c] = h} = {b}
      BY <1>1, <1>3, <2>3, AncSameHeight
    <2>6. getblockhash(h) = {b}
      BY <1>5, <1>7, <2>4, <2>5 DEF getblockhash
    <2>7. getblockheader(b) = {h}
      BY <1>3, <2>3 DEF getblockheader, OnBaseChain
    <2> QED BY <1>3, <2>6, <2>7
  <1> QED BY <1>6, <1>7

THEOREM OneChainTold == SystemSpec => []OneMainChain
  <1>1. SystemInv => OneMainChain
    <2> SUFFICES ASSUME SystemInv, pc = "idle", Main(table) # {}
                 PROVE  OneMainChain
      BY DEF OneMainChain
    <2>1. PICK top : top = Height[Tip(table)]
      OBVIOUS
    <2>2. /\ Inv /\ Tip(table) \in Main(table) /\ Tip(table) \in Block /\ top \in Nat
          /\ GetTipHeight(table) = top
      BY <2>1, TipOfMain, TipHeight, KnownType, HeightType DEF SystemInv
    <2>3. /\ getblockchaininfo.blocks = top
          /\ getblockchaininfo.bestblockhash = {b \in Main(table) : Height[b] = top}
      BY <2>2 DEF getblockchaininfo
    <2>4. getblockhash(top) = {b \in Main(table) : Height[b] = top}
      BY <2>1, <2>2 DEF getblockhash
    <2>5. ASSUME NEW h \in 0 .. top
          PROVE  \E b \in Block :
                    /\ getblockhash(h) = {b}
                    /\ getblockheader(b) = {h}
                    /\ h > 0 => getblockhash(h - 1) = {Parent[b]}
      <3>1. PICK b : b = AncestorAt(Tip(table), h)
        OBVIOUS
      <3>2. h \in Nat /\ h =< top
        BY <2>2
      <3>3. /\ b \in Block /\ b \in Anc[Tip(table)] /\ Height[b] = h
            /\ getblockhash(h) = {b} /\ getblockheader(b) = {h}
        BY <2>1, <2>2, <3>1, <3>2, HashAtHeight
      <3>4. ASSUME h > 0
            PROVE  getblockhash(h - 1) = {Parent[b]}
        <4>1. PICK k, c : k = h - 1 /\ c = AncestorAt(Tip(table), k)
          OBVIOUS
        <4>2. k \in Nat /\ k =< top /\ h = k + 1
          BY <2>2, <3>2, <3>4, <4>1
        <4>3. c \in Anc[Tip(table)] /\ Height[c] = k /\ getblockhash(k) = {c}
          BY <2>1, <2>2, <4>1, <4>2, HashAtHeight
        <4>4. Parent[b] = c
          BY <2>2, <3>3, <4>2, <4>3, RightBelow
        <4> QED BY <4>1, <4>3, <4>4
      <3> QED BY <3>3, <3>4
    <2> QED BY <2>3, <2>4, <2>5 DEF OneMainChain
  <1> QED BY <1>1, SystemInvariance, PTL

(***************************************************************************)
(* No request makes a CHECK of PushZmqBlocks abort the process, provided   *)
(* that no GSP of an earlier run calls before Sync has imported a block.   *)
(***************************************************************************)
THEOREM RequestsPassChecks ==
    ASSUME ~ EarlyRequests
    PROVE  SystemSpec => []RpcChecksHold
  <1>1. SystemInv => RpcChecksHold
    BY DEF SystemInv, RpcInv, RpcChecksHold
  <1> QED BY <1>1, SystemInvariance, PTL
=============================================================================
