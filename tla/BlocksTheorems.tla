--------------------------- MODULE BlocksTheorems ---------------------------
(***************************************************************************)
(* Facts about the tree of blocks: extreme elements of sets of blocks, and *)
(* the ancestors of a block.  And facts about the tables of blocks: what   *)
(* the operations of the chainstate do to a table.                         *)
(***************************************************************************)
EXTENDS BranchTable, Sequences, WellFoundedInduction, TLAPS

(* Every non-empty set of natural numbers has a least element. *)
LEMMA NatMin ==
    ASSUME NEW S \in SUBSET Nat, S # {}
    PROVE  \E m \in S : \A n \in S : m =< n
  <1>1. PICK m \in S : \A n \in S : ~ (<<n, m>> \in OpToRel(<, Nat))
    BY NatLessThanWellFounded, WFMin
  <1>2. \A n \in S : ~ (n < m)
    BY <1>1 DEF OpToRel
  <1> QED BY <1>2

(* An integer-valued function on the blocks is bounded. *)
LEMMA BoundedOnBlocks ==
    ASSUME NEW f \in [Block -> Int]
    PROVE  \E m \in Nat : \A b \in Block : f[b] =< m
  <1>0. PICK n \in Nat : \E s \in [1 .. n -> Block] :
               \A b \in Block : \E i \in 1 .. n : s[i] = b
    <2>1. PICK s \in Seq(Block) : \A b \in Block : \E i \in 1 .. Len(s) : s[i] = b
      BY BlocksAssumption DEF IsFiniteSet
    <2>2. Len(s) \in Nat /\ s \in [1 .. Len(s) -> Block]
      OBVIOUS
    <2> QED BY <2>1, <2>2
  <1>1. PICK s \in [1 .. n -> Block] : \A b \in Block : \E i \in 1 .. n : s[i] = b
    BY <1>0
  <1> DEFINE Bounds(k, m) == \A i \in 1 .. k : f[s[i]] =< m
             T == {k \in 0 .. n : \A m \in Nat : ~ Bounds(k, m)}
  <1>2. ASSUME T # {} PROVE FALSE
    <2>1. PICK k \in T : \A l \in T : k =< l
      <3>1. T \in SUBSET Nat OBVIOUS
      <3> QED BY <1>2, <3>1, NatMin
    <2>2. k \in 0 .. n /\ \A m \in Nat : ~ Bounds(k, m)
      OBVIOUS
    <2>3. k # 0
      <3>1. Bounds(0, 0)
        OBVIOUS
      <3> QED BY <3>1, <2>2
    <2>4. k - 1 \in 0 .. n /\ k - 1 \notin T
      <3> HIDE DEF T
      <3> QED BY <2>1, <2>2, <2>3
    <2>5. PICK m \in Nat : Bounds(k - 1, m)
      BY <2>4
    <2>6. \A i \in 1 .. k : f[s[i]] \in Int
      BY <2>2
    <2>7. PICK l \in Nat : m =< l /\ f[s[k]] =< l
      <3>1. f[s[k]] \in Int
        BY <2>2, <2>3, <2>6
      <3>2. CASE f[s[k]] =< m BY <3>2
      <3>3. CASE ~ (f[s[k]] =< m) BY <3>1, <3>3
      <3> QED BY <3>2, <3>3
    <2>8. Bounds(k, l)
      <3> TAKE i \in 1 .. k
      <3>1. CASE i = k BY <3>1, <2>7
      <3>2. CASE i # k
        <4>1. i \in 1 .. k - 1 BY <3>2, <2>2
        <4>2. f[s[i]] =< m BY <4>1, <2>5
        <4> QED BY <4>2, <2>6, <2>7
      <3> QED BY <3>1, <3>2
    <2> QED BY <2>8, <2>2
  <1>3. n \in 0 .. n /\ n \notin T
    <2> HIDE DEF T
    <2> QED BY <1>2
  <1>4. PICK m \in Nat : Bounds(n, m)
    BY <1>3
  <1> QED BY <1>1, <1>4

(* In a non-empty set of blocks, one has the largest value of f. *)
LEMMA Largest ==
    ASSUME NEW f \in [Block -> Int], NEW S \in SUBSET Block, S # {}
    PROVE  \E b \in S : \A c \in S : f[c] =< f[b]
  <1>1. PICK m \in Nat : \A b \in Block : f[b] =< m
    BY BoundedOnBlocks
  <1> DEFINE D == {m - f[b] : b \in S}
  <1>2. D \in SUBSET Nat /\ D # {}
    BY <1>1
  <1>3. PICK d \in D : \A e \in D : d =< e
    BY <1>2, NatMin
  <1>4. PICK b \in S : d = m - f[b]
    BY <1>3
  <1>5. \A c \in S : m - f[b] =< m - f[c]
    BY <1>3, <1>4
  <1> QED BY <1>5

(* A non-empty set of blocks has a highest and a lowest one. *)
LEMMA HighestBlock ==
    ASSUME NEW S \in SUBSET Block, S # {}
    PROVE  \E b \in S : \A c \in S : Height[c] =< Height[b]
  <1>1. Height \in [Block -> Int]
    BY BlocksAssumption
  <1> QED BY <1>1, Largest

LEMMA LowestBlock ==
    ASSUME NEW S \in SUBSET Block, S # {}
    PROVE  \E b \in S : \A c \in S : Height[b] =< Height[c]
  <1> DEFINE f == [b \in Block |-> - Height[b]]
  <1>1. f \in [Block -> Int]
    BY BlocksAssumption
  <1>2. PICK b \in S : \A c \in S : f[c] =< f[b]
    BY <1>1, Largest
  <1>3. \A c \in S : Height[c] \in Nat /\ f[c] = - Height[c]
    BY BlocksAssumption
  <1>4. \A c \in S : Height[b] =< Height[c]
    <2> HIDE DEF f
    <2> QED BY <1>2, <1>3
  <1> QED BY <1>4

-----------------------------------------------------------------------------
(* The parent of a block, if it has one, is the block right below it. *)
LEMMA ParentBelow ==
    ASSUME NEW b \in Block, Parent[b] # NoBlock
    PROVE  /\ Parent[b] \in Block
           /\ Height[b] \in Nat
           /\ Height[Parent[b]] \in Nat
           /\ Height[b] = Height[Parent[b]] + 1
  BY BlocksAssumption

LEMMA HeightType ==
    ASSUME NEW b \in Block
    PROVE  Height[b] \in Nat
  BY BlocksAssumption

LEMMA ParentIsBlock ==
    ASSUME NEW b \in Block
    PROVE  /\ Parent[b] \in Block <=> Parent[b] # NoBlock
           /\ Parent[b] = NoBlock <=> Height[b] = 0
  BY BlocksAssumption

(* The ancestors of a block are blocks. *)
LEMMA AncType ==
    ASSUME NEW b \in Block
    PROVE  Anc[b] \subseteq Block
  BY DEF Anc

(* The induction principle: a closed set that contains b contains Anc[b]. *)
LEMMA AncLeast ==
    ASSUME NEW b \in Block, NEW S \in SUBSET Block, b \in S, AncestorClosed(S)
    PROVE  Anc[b] \subseteq S
  BY DEF Anc

LEMMA AncSelf ==
    ASSUME NEW b \in Block
    PROVE  b \in Anc[b]
  BY DEF Anc

LEMMA AncClosed ==
    ASSUME NEW b \in Block
    PROVE  AncestorClosed(Anc[b])
  <1> SUFFICES ASSUME NEW c \in Anc[b], Parent[c] # NoBlock
               PROVE  Parent[c] \in Anc[b]
    BY DEF AncestorClosed
  <1>1. c \in Block /\ Parent[c] \in Block
    BY AncType, ParentBelow
  <1>2. ASSUME NEW S \in SUBSET Block, b \in S, AncestorClosed(S)
        PROVE  Parent[c] \in S
    <2>1. c \in S
      BY <1>2, AncLeast
    <2> QED BY <2>1, <1>2 DEF AncestorClosed
  <1> QED BY <1>1, <1>2 DEF Anc

LEMMA AncParent ==
    ASSUME NEW b \in Block, NEW c \in Anc[b], Parent[c] # NoBlock
    PROVE  Parent[c] \in Anc[b]
  BY AncClosed DEF AncestorClosed

LEMMA AncTransitive ==
    ASSUME NEW b \in Block, NEW c \in Anc[b]
    PROVE  Anc[c] \subseteq Anc[b]
  <1>1. c \in Block /\ Anc[b] \in SUBSET Block
    BY AncType
  <1> QED BY <1>1, AncClosed, AncLeast

(* An ancestor of b other than b is one of its parent. *)
LEMMA AncUnfold ==
    ASSUME NEW b \in Block, NEW c \in Anc[b], c # b
    PROVE  Parent[b] # NoBlock /\ c \in Anc[Parent[b]]
  <1> DEFINE S == {b} \cup (IF Parent[b] = NoBlock THEN {} ELSE Anc[Parent[b]])
  <1>1. S \in SUBSET Block
    <2>1. CASE Parent[b] = NoBlock BY <2>1
    <2>2. CASE Parent[b] # NoBlock BY <2>2, ParentBelow, AncType
    <2> QED BY <2>1, <2>2
  <1>2. AncestorClosed(S)
    <2> SUFFICES ASSUME NEW x \in S, Parent[x] # NoBlock
                 PROVE  Parent[x] \in S
      BY DEF AncestorClosed
    <2>1. CASE x = b
      BY <2>1, ParentBelow, AncSelf
    <2>2. CASE x # b
      BY <2>2, ParentBelow, AncParent
    <2> QED BY <2>1, <2>2
  <1>3. c \in S
    BY <1>1, <1>2, AncLeast
  <1> QED BY <1>3

LEMMA AncHeight ==
    ASSUME NEW b \in Block, NEW c \in Anc[b]
    PROVE  c = b \/ Height[c] < Height[b]
  <1> DEFINE S == {x \in Block : x = b \/ Height[x] < Height[b]}
  <1>1. AncestorClosed(S)
    <2> SUFFICES ASSUME NEW x \in S, Parent[x] # NoBlock
                 PROVE  Parent[x] \in S
      BY DEF AncestorClosed
    <2>1. /\ Parent[x] \in Block
          /\ Height[Parent[x]] \in Nat
          /\ Height[x] = Height[Parent[x]] + 1
      BY ParentBelow
    <2>2. Height[b] \in Nat /\ Height[x] \in Nat
      BY HeightType
    <2> QED BY <2>1, <2>2
  <1>2. c \in S
    BY <1>1, AncLeast
  <1> QED BY <1>2

(* An ancestor of b other than b has a child on the way to b. *)
LEMMA AncChild ==
    ASSUME NEW b \in Block, NEW c \in Anc[b], c # b
    PROVE  \E e \in Anc[b] : Parent[e] = c
  <1> DEFINE S == {x \in Anc[b] : x = b \/ \E e \in Anc[b] : Parent[e] = x}
  <1>1. S \in SUBSET Block /\ b \in S
    BY AncType, AncSelf
  <1>2. AncestorClosed(S)
    BY AncParent DEF AncestorClosed
  <1>3. c \in S
    BY <1>1, <1>2, AncLeast
  <1> QED BY <1>3

(* The ancestors of a block form a chain. *)
LEMMA AncLinear ==
    ASSUME NEW b \in Block, NEW c \in Anc[b], NEW d \in Anc[b],
           Height[c] =< Height[d]
    PROVE  c \in Anc[d]
  <1> DEFINE S == {x \in Anc[b] : d \in Anc[x] \/ x \in Anc[d]}
  <1>1. S \in SUBSET Block /\ b \in S /\ c \in Block /\ d \in Block
    BY AncType, AncSelf
  <1>2. AncestorClosed(S)
    <2> SUFFICES ASSUME NEW x \in S, Parent[x] # NoBlock
                 PROVE  Parent[x] \in S
      BY DEF AncestorClosed
    <2>0. x \in Block BY <1>1
    <2>1. Parent[x] \in Anc[b]
      BY AncParent
    <2>2. CASE x \in Anc[d]
      <3>1. Parent[x] \in Anc[d] BY <2>2, <1>1, AncParent
      <3> QED BY <3>1, <2>1
    <2>3. CASE d \in Anc[x] /\ d # x
      <3>1. d \in Anc[Parent[x]] BY <2>0, <2>3, AncUnfold
      <3> QED BY <3>1, <2>1
    <2>4. CASE d = x
      <3>1. x \in Anc[d] BY <2>4, <1>1, AncSelf
      <3> QED BY <3>1, <2>2
    <2> QED BY <2>2, <2>3, <2>4
  <1>3. c \in S
    BY <1>1, <1>2, AncLeast
  <1>4. CASE d \in Anc[c]
    <2>1. d = c \/ Height[d] < Height[c]
      BY <1>1, <1>4, AncHeight
    <2>2. Height[c] \in Nat /\ Height[d] \in Nat
      BY <1>1, HeightType
    <2>3. d = c BY <2>1, <2>2
    <2> QED BY <2>3, <1>1, AncSelf
  <1> QED BY <1>3, <1>4

LEMMA AncSameHeight ==
    ASSUME NEW b \in Block, NEW c \in Anc[b], NEW d \in Anc[b],
           Height[c] = Height[d]
    PROVE  c = d
  <1>1. c \in Block /\ d \in Block
    BY AncType
  <1>2. Height[c] \in Nat /\ Height[d] \in Nat
    BY <1>1, HeightType
  <1>3. c \in Anc[d]
    BY <1>2, AncLinear
  <1>4. c = d \/ Height[c] < Height[d]
    BY <1>1, <1>3, AncHeight
  <1> QED BY <1>2, <1>4

(* A block has an ancestor at every height below it. *)
LEMMA AncAtHeight ==
    ASSUME NEW b \in Block, NEW h \in Nat, h =< Height[b]
    PROVE  \E c \in Anc[b] : Height[c] = h
  <1> DEFINE S == {x \in Anc[b] : h =< Height[x]}
  <1>1. S \in SUBSET Block /\ b \in S
    BY AncType, AncSelf
  <1>2. PICK c \in S : \A x \in S : Height[c] =< Height[x]
    BY <1>1, LowestBlock
  <1>3. c \in Block /\ c \in Anc[b] /\ Height[c] \in Nat /\ h =< Height[c]
    BY <1>1, HeightType
  <1>4. ASSUME Height[c] # h PROVE FALSE
    <2>1. Parent[c] # NoBlock
      BY <1>3, <1>4, ParentIsBlock
    <2>2. Height[Parent[c]] \in Nat /\ Height[c] = Height[Parent[c]] + 1
      BY <1>3, <2>1, ParentBelow
    <2>3. Parent[c] \in S
      BY <1>3, <1>4, <2>1, <2>2, AncParent
    <2> QED BY <1>2, <2>2, <2>3
  <1> QED BY <1>3, <1>4
-----------------------------------------------------------------------------
(* Tables of blocks. *)

LEMMA KnownType ==
    ASSUME NEW t
    PROVE  /\ Known(t) \subseteq Block
           /\ Main(t) \subseteq Known(t)
           /\ OffMain(t) \subseteq Known(t)
  BY DEF Known, Main, OffMain, OnBranch, NotStored, MainBranch

(* The number of a new branch is larger than all that are in use. *)
LEMMA FreeBranchNumber ==
    ASSUME NEW t, IsTable(t)
    PROVE  /\ GetFreeBranchNumber(t) \in Nat \ {0}
           /\ \A b \in Block : t[b] # GetFreeBranchNumber(t)
  <1>0. t \in [Block -> Int]
    BY DEF IsTable, NotStored
  <1>1. CASE Known(t) = {}
    BY <1>1 DEF GetFreeBranchNumber, Known, NotStored
  <1>2. CASE Known(t) # {}
    <2>1. PICK b \in Known(t) : \A c \in Known(t) : t[c] =< t[b]
      BY <1>0, <1>2, KnownType, Largest
    <2> DEFINE N == {t[c] : c \in Known(t)}
    <2>2. t[b] \in N /\ \A n \in N : t[b] >= n
      BY <1>0, <2>1, KnownType
    <2>3. Max(N) \in N /\ \A n \in N : Max(N) >= n
      BY <2>2 DEF Max
    <2>4. \A c \in Known(t) : t[c] \in Nat
      BY DEF Known, IsTable, NotStored
    <2>5. Max(N) \in Nat /\ GetFreeBranchNumber(t) = Max(N) + 1
      BY <1>2, <2>3, <2>4 DEF GetFreeBranchNumber
    <2>6. \A c \in Block : t[c] # Max(N) + 1
      <3> TAKE c \in Block
      <3>1. CASE c \in Known(t)
        <4>1. t[c] \in N /\ t[c] \in Nat BY <3>1, <2>4
        <4> HIDE DEF N
        <4> QED BY <4>1, <2>3, <2>5
      <3>2. CASE c \notin Known(t) BY <3>2, <2>5 DEF Known, NotStored
      <3> QED BY <3>1, <3>2
    <2> QED BY <2>5, <2>6
  <1> QED BY <1>1, <1>2

LEMMA TipOfMain ==
    ASSUME NEW t, Main(t) # {}
    PROVE  /\ Tip(t) \in Main(t)
           /\ \A c \in Main(t) : Height[c] =< Height[Tip(t)]
  <1>1. Main(t) \in SUBSET Block
    BY KnownType
  <1>2. \E b \in Main(t) : \A c \in Main(t) : Height[c] =< Height[b]
    BY <1>1, HighestBlock
  <1> QED BY <1>2 DEF Tip

LEMMA LowestOfMain ==
    ASSUME NEW t, Main(t) # {}
    PROVE  /\ Lowest(t) \in Main(t)
           /\ \A c \in Main(t) : Height[Lowest(t)] =< Height[c]
  <1>1. Main(t) \in SUBSET Block
    BY KnownType
  <1>2. \E b \in Main(t) : \A c \in Main(t) : Height[b] =< Height[c]
    BY <1>1, LowestBlock
  <1> QED BY <1>2 DEF Lowest

(* GetTipHeight and GetLowestUnprunedHeight are the heights of the ends. *)
LEMMA TipHeight ==
    ASSUME NEW t, Main(t) # {}
    PROVE  GetTipHeight(t) = Height[Tip(t)]
  <1> DEFINE N == {Height[b] : b \in Main(t)}
  <1>1. N \subseteq Nat
    BY KnownType, HeightType
  <1>2. Height[Tip(t)] \in N /\ \A n \in N : Height[Tip(t)] >= n
    BY <1>1, TipOfMain
  <1>3. Max(N) \in N /\ \A n \in N : Max(N) >= n
    BY <1>2 DEF Max
  <1>4. Max(N) = Height[Tip(t)]
    <2> HIDE DEF N
    <2>1. Max(N) \in Nat /\ Height[Tip(t)] \in Nat
      BY <1>1, <1>2, <1>3
    <2>2. Max(N) >= Height[Tip(t)] /\ Height[Tip(t)] >= Max(N)
      BY <1>1, <1>2, <1>3
    <2> QED BY <2>1, <2>2
  <1> QED BY <1>4 DEF GetTipHeight

LEMMA LowestHeight ==
    ASSUME NEW t, Main(t) # {}
    PROVE  GetLowestUnprunedHeight(t) = Height[Lowest(t)]
  <1> DEFINE N == {Height[b] : b \in Main(t)}
  <1>1. N \subseteq Nat
    BY KnownType, HeightType
  <1>2. Height[Lowest(t)] \in N /\ \A n \in N : Height[Lowest(t)] =< n
    BY <1>1, LowestOfMain
  <1>3. Min(N) \in N /\ \A n \in N : Min(N) =< n
    BY <1>2 DEF Min
  <1>4. Min(N) = Height[Lowest(t)]
    <2> HIDE DEF N
    <2>1. Min(N) \in Nat /\ Height[Lowest(t)] \in Nat
      BY <1>1, <1>2, <1>3
    <2>2. Min(N) >= Height[Lowest(t)] /\ Height[Lowest(t)] >= Min(N)
      BY <1>1, <1>2, <1>3
    <2> QED BY <2>1, <2>2
  <1> QED BY <1>4 DEF GetLowestUnprunedHeight

-----------------------------------------------------------------------------
(* The ancestors of b down to a lower block of its branch are on it, too. *)
LEMMA BranchHasAncestors ==
    ASSUME NEW t, TableInv(t), NEW b \in Known(t), NEW c \in BranchUpTo(t, b),
           NEW d \in Anc[b], Height[c] =< Height[d]
    PROVE  d \in BranchUpTo(t, b)
  <1>0. /\ b \in Block /\ c \in Block /\ c \in Known(t) /\ t[c] = t[b]
        /\ Anc[b] \in SUBSET Block
    BY KnownType, AncType DEF BranchUpTo, OnBranch, Known
  <1> DEFINE S == {x \in Anc[b] : Height[c] =< Height[x] => t[x] = t[b]}
  <1>1. b \in S
    BY <1>0, AncSelf
  <1>2. AncestorClosed(S)
    <2> SUFFICES ASSUME NEW x \in S, Parent[x] # NoBlock,
                        Height[c] =< Height[Parent[x]]
                 PROVE  t[Parent[x]] = t[b]
      BY <1>0, AncParent DEF AncestorClosed
    <2>1. x \in Block /\ Height[c] \in Nat
      BY <1>0, HeightType
    <2>2. Height[Parent[x]] \in Nat /\ Height[x] = Height[Parent[x]] + 1
      BY <2>1, ParentBelow
    <2>3. Height[c] < Height[x] /\ t[x] = t[b]
      BY <2>1, <2>2
    <2>4. x \in Known(t)
      BY <1>0, <2>1, <2>3 DEF Known
    <2> QED BY <1>0, <2>3, <2>4 DEF TableInv, BranchesLinked
  <1>3. d \in S
    BY <1>0, <1>1, <1>2, AncLeast
  <1>4. Height[d] =< Height[b]
    BY <1>0, AncHeight, HeightType
  <1> QED BY <1>0, <1>3, <1>4 DEF BranchUpTo, OnBranch

(* The blocks of a branch up to b are ancestors of b. *)
LEMMA BranchIsAncestry ==
    ASSUME NEW t, TableInv(t), NEW b \in Known(t), NEW c \in BranchUpTo(t, b)
    PROVE  c \in Anc[b]
  <1>0. /\ b \in Block /\ c \in Block /\ c \in Known(t) /\ t[c] = t[b]
        /\ Height[c] =< Height[b] /\ Height[c] \in Nat
    BY KnownType, HeightType DEF BranchUpTo, OnBranch, Known
  <1>1. PICK d \in Anc[b] : Height[d] = Height[c]
    BY <1>0, AncAtHeight
  <1>2. d \in BranchUpTo(t, b)
    BY <1>0, <1>1, BranchHasAncestors
  <1>3. d = c
    BY <1>0, <1>1, <1>2 DEF TableInv, UniqueHeights, BranchUpTo, OnBranch, Known
  <1> QED BY <1>3

(* Of two blocks of one branch, the lower one is an ancestor of the other. *)
LEMMA MainIsLinear ==
    ASSUME NEW t, TableInv(t), NEW b \in Main(t), NEW c \in Main(t),
           Height[c] =< Height[b]
    PROVE  c \in Anc[b]
  <1>1. b \in Known(t) /\ c \in BranchUpTo(t, b)
    BY KnownType DEF BranchUpTo, OnBranch, Main
  <1> QED BY <1>1, BranchIsAncestry

-----------------------------------------------------------------------------
(* The path to the main chain contains the branch of each of its blocks. *)
LEMMA PathHasBranch ==
    ASSUME NEW t, TableInv(t), NEW b \in OffMain(t),
           NEW c \in Anc[b] \cap OffMain(t),
           \A d \in Anc[b] : Height[d] > Height[c] => d \in OffMain(t)
    PROVE  BranchUpTo(t, c) \subseteq PathToMain(t, b)
  <1> SUFFICES ASSUME NEW x \in BranchUpTo(t, c)
               PROVE  x \in PathToMain(t, b)
    OBVIOUS
  <1>0. b \in Block /\ c \in Block /\ c \in Known(t) /\ x \in Block
    BY KnownType DEF BranchUpTo, OnBranch
  <1>1. x \in Anc[c] /\ x \in Anc[b]
    BY <1>0, BranchIsAncestry, AncTransitive
  <1>2. ASSUME NEW d \in Anc[b], Height[d] >= Height[x]
        PROVE  d \in OffMain(t)
    <2>0. d \in Block /\ Height[d] \in Nat /\ Height[c] \in Nat /\ Height[x] \in Nat
      BY <1>0, AncType, HeightType
    <2>1. CASE Height[d] > Height[c]
      BY <2>1
    <2>2. CASE Height[d] =< Height[c]
      <3>1. d \in Anc[c]
        BY <1>0, <2>2, AncLinear
      <3>2. d \in BranchUpTo(t, c)
        BY <1>0, <1>2, <2>0, <3>1, BranchHasAncestors
      <3> QED BY <3>2 DEF BranchUpTo, OnBranch, OffMain, Known, Main
    <2> QED BY <2>0, <2>1, <2>2
  <1> QED BY <1>1, <1>2 DEF PathToMain

(***************************************************************************)
(* GetForkBranch, which walks along branch numbers and heights, returns    *)
(* the path from the block to the main chain.                              *)
(***************************************************************************)
LEMMA ForkBranchCorrect ==
    ASSUME NEW t, TableInv(t), NEW b \in Known(t)
    PROVE  GetForkBranch(t, b) = PathToMain(t, b)
  <1>0. b \in Block /\ b \in Anc[b] /\ Height[b] \in Nat
    BY KnownType, AncSelf, HeightType
  <1>1. CASE b \notin OffMain(t)
    <2>1. PathToMain(t, b) = {}
      <3> SUFFICES ASSUME NEW c \in PathToMain(t, b) PROVE FALSE
        OBVIOUS
      <3>1. c \in Anc[b] /\ (Height[b] >= Height[c] => b \in OffMain(t))
        BY <1>0 DEF PathToMain
      <3>2. c \in Block /\ Height[c] \in Nat
        BY <1>0, <3>1, AncType, HeightType
      <3>3. Height[b] >= Height[c]
        BY <1>0, <3>1, <3>2, AncHeight
      <3> QED BY <1>1, <3>1, <3>3
    <2> QED BY <1>1, <2>1 DEF GetForkBranch
  <1>2. CASE b \in OffMain(t)
    <2> DEFINE P == PathToMain(t, b)
               Q == {c \in OffMain(t) : Height[c] =< Height[b]}
    <2>0. P \subseteq Anc[b] /\ P \subseteq Block
      BY <1>0, AncType DEF PathToMain
    <2>1. P \subseteq Q
      <3> SUFFICES ASSUME NEW c \in P PROVE c \in Q
        OBVIOUS
      <3>1. c \in Anc[b] /\ c \in Block /\ Height[c] \in Nat
        BY <2>0, HeightType
      <3>2. c \in OffMain(t)
        BY <3>1 DEF PathToMain
      <3>3. Height[c] =< Height[b]
        BY <1>0, <3>1, AncHeight
      <3> QED BY <3>2, <3>3
    <2>2. BranchUpTo(t, b) \subseteq P
      <3>1. \A d \in Anc[b] : ~ (Height[d] > Height[b])
        <4> TAKE d \in Anc[b]
        <4>1. d \in Block /\ Height[d] \in Nat
          BY <1>0, AncType, HeightType
        <4> QED BY <1>0, <4>1, AncHeight
      <3> QED BY <1>0, <1>2, <3>1, PathHasBranch
    <2>3. ForkClosed(t, P)
      <3> SUFFICES ASSUME NEW c \in P, Parent[c] \in OffMain(t)
                   PROVE  BranchUpTo(t, Parent[c]) \subseteq P
        BY DEF ForkClosed
      <3>1. c \in Anc[b] /\ c \in Block /\ Height[c] \in Nat
        BY <2>0, HeightType
      <3>2. Parent[c] # NoBlock
        BY <3>1, KnownType, ParentIsBlock
      <3>3. Parent[c] \in Anc[b] /\ Height[c] = Height[Parent[c]] + 1
            /\ Height[Parent[c]] \in Nat
        BY <1>0, <3>1, <3>2, AncParent, ParentBelow
      <3>4. \A d \in Anc[b] : Height[d] > Height[Parent[c]] => d \in OffMain(t)
        <4> TAKE d \in Anc[b]
        <4>1. Height[d] \in Nat
          BY <1>0, AncType, HeightType
        <4>2. Height[d] > Height[Parent[c]] => Height[d] >= Height[c]
          BY <3>1, <3>3, <4>1
        <4> QED BY <4>2 DEF PathToMain
      <3> QED BY <1>2, <3>3, <3>4, PathHasBranch
    <2>4. ASSUME NEW S \in SUBSET Q, BranchUpTo(t, b) \subseteq S, ForkClosed(t, S)
          PROVE  P \subseteq S
      <3> DEFINE Full == {x \in S : BranchUpTo(t, x) \subseteq S}
      <3>0. b \in Full
        BY <1>0, <2>4 DEF BranchUpTo, OnBranch
      <3>1. ASSUME P \ Full # {} PROVE FALSE
        <4>1. PICK c \in P \ Full : \A x \in P \ Full : Height[x] =< Height[c]
          BY <2>0, <3>1, HighestBlock
        <4>2. c \in Anc[b] /\ c # b /\ c \in Block /\ c \in OffMain(t)
          BY <2>0, <2>1, <3>0, <4>1
        <4>3. PICK e \in Anc[b] : Parent[e] = c
          BY <1>0, <4>2, AncChild
        <4>4. /\ e \in Block /\ Parent[e] # NoBlock
              /\ Height[e] \in Nat /\ Height[c] \in Nat /\ Height[e] = Height[c] + 1
          BY <1>0, <4>2, <4>3, AncType, BlocksAssumption
        <4>5. e \in P
          <5> SUFFICES ASSUME NEW d \in Anc[b], Height[d] >= Height[e]
                       PROVE  d \in OffMain(t)
            BY <4>3 DEF PathToMain
          <5>1. Height[d] \in Nat
            BY <1>0, AncType, HeightType
          <5>2. Height[d] >= Height[c]
            BY <4>4, <5>1
          <5> QED BY <4>1, <5>2 DEF PathToMain
        <4>6. e \in Full
          <5>1. ~ (Height[e] =< Height[c])
            BY <4>4
          <5> QED BY <4>1, <4>5, <5>1
        <4>7. BranchUpTo(t, c) \subseteq S
          <5>1. CASE IsBranchEnd(t, e)
            BY <2>4, <4>2, <4>3, <4>6, <5>1 DEF ForkClosed
          <5>2. CASE ~ IsBranchEnd(t, e)
            <6>1. PICK x \in OnBranch(t, t[e]) : ~ (Height[e] =< Height[x])
              BY <5>2 DEF IsBranchEnd
            <6>2. e \in Known(t) /\ x \in Known(t) /\ t[x] = t[e] /\ Height[x] < Height[e]
              <7>1. e \in OffMain(t) /\ e \in Known(t)
                BY <2>1, <4>5, KnownType
              <7>2. x \in Block /\ t[x] = t[e] /\ Height[x] \in Nat
                BY <6>1, HeightType DEF OnBranch
              <7> QED BY <4>4, <6>1, <7>1, <7>2 DEF Known
            <6>3. t[c] = t[e]
              BY <4>3, <6>2 DEF TableInv, BranchesLinked
            <6>4. BranchUpTo(t, c) \subseteq BranchUpTo(t, e)
              <7> SUFFICES ASSUME NEW y \in BranchUpTo(t, c)
                           PROVE  y \in BranchUpTo(t, e)
                OBVIOUS
              <7>1. y \in Block /\ t[y] = t[e] /\ Height[y] =< Height[c] /\ Height[y] \in Nat
                BY <6>3, HeightType DEF BranchUpTo, OnBranch
              <7> QED BY <4>4, <7>1 DEF BranchUpTo, OnBranch
            <6> QED BY <4>6, <6>4
          <5> QED BY <5>1, <5>2
        <4>8. c \in BranchUpTo(t, c)
          BY <4>2, <4>4 DEF BranchUpTo, OnBranch
        <4> QED BY <4>1, <4>7, <4>8
      <3> QED BY <3>1
    <2>5. GetForkBranch(t, b) =
             {c \in Q : \A S \in SUBSET Q :
                 BranchUpTo(t, b) \subseteq S /\ ForkClosed(t, S) => c \in S}
      BY <1>2 DEF GetForkBranch
    <2> HIDE DEF P, Q
    <2>6. GetForkBranch(t, b) \subseteq P
      BY <2>1, <2>2, <2>3, <2>5
    <2>7. P \subseteq GetForkBranch(t, b)
      BY <2>1, <2>4, <2>5
    <2> QED BY <2>6, <2>7 DEF P
  <1> QED BY <1>1, <1>2

-----------------------------------------------------------------------------
(* Accounted blocks stay closed if no block gets lost or loses its parent. *)
LEMMA AccountedClosed ==
    ASSUME NEW t, NEW u, AncestorClosed(Accounted(t)),
           Accounted(t) \subseteq Accounted(u),
           \A x \in Known(u) :
              x \in Known(t) \/ Parent[x] = NoBlock \/ Parent[x] \in Accounted(u)
    PROVE  AncestorClosed(Accounted(u))
  <1> SUFFICES ASSUME NEW x \in Accounted(u), Parent[x] # NoBlock
               PROVE  Parent[x] \in Accounted(u)
    BY DEF AncestorClosed
  <1>1. CASE x \in Known(u)
    BY <1>1 DEF AncestorClosed, Accounted
  <1>2. CASE x \in Block /\ Main(u) # {} /\ \A c \in Main(u) : x \in Anc[c]
    <2>1. Parent[x] \in Block
      BY <1>2, ParentIsBlock
    <2>2. \A c \in Main(u) : Parent[x] \in Anc[c]
      BY <1>2, KnownType, AncParent
    <2> QED BY <1>2, <2>1, <2>2 DEF Accounted
  <1> QED BY <1>1, <1>2 DEF Accounted

(* The lowest block of the main chain stays where it is below a new tip. *)
RootKept(t, u, b) ==
    Main(t) # {} /\ Lowest(t) \in Anc[b] =>
        /\ Lowest(t) \in Main(u)
        /\ \A c \in Main(u) : Height[Lowest(t)] =< Height[c]

(* MarkAsTip for a block of the main chain. *)
LEMMA MarkMainBlock ==
    ASSUME NEW t, TableInv(t), NEW b \in Main(t), NEW u, u = MarkAsTip(t, b)
    PROVE  /\ TableInv(u)
           /\ Known(u) = Known(t)
           /\ Main(u) = {c \in Main(t) : Height[c] =< Height[b]}
           /\ Accounted(t) \subseteq Accounted(u)
           /\ RootKept(t, u, b)
  <1> DEFINE n == GetFreeBranchNumber(t)
             D == {c \in Main(t) : Height[c] > Height[b]}
  <1>0. /\ n \in Nat \ {0} /\ \A c \in Block : t[c] # n
        /\ IsTable(t)
        /\ \A c \in Block : Height[c] \in Nat
        /\ b \in Block
    BY FreeBranchNumber, HeightType, KnownType DEF TableInv
  <1>1. u = [c \in Block |-> IF c \in D THEN n ELSE t[c]]
    <2>1. u = [c \in Block |-> IF t[c] = MainBranch /\ Height[c] >= Height[b] + 1
                                 THEN n ELSE t[c]]
      BY DEF MarkAsTip, DetachFrom
    <2>2. \A c \in Block : (t[c] = MainBranch /\ Height[c] >= Height[b] + 1) <=> c \in D
      BY <1>0 DEF Main, OnBranch
    <2> QED BY <2>1, <2>2
  <1> HIDE DEF n
  <1>2. IsTable(u)
    BY <1>0, <1>1 DEF IsTable
  <1>3. Known(u) = Known(t)
    BY <1>0, <1>1 DEF Known, Main, OnBranch, NotStored, MainBranch
  <1>4. Main(u) = {c \in Main(t) : Height[c] =< Height[b]}
    BY <1>0, <1>1 DEF Main, OnBranch, MainBranch
  <1>5. UniqueHeights(u)
    <2> SUFFICES ASSUME NEW x \in Known(u), NEW y \in Known(u),
                        u[x] = u[y], Height[x] = Height[y]
                 PROVE  x = y
      BY DEF UniqueHeights
    <2>1. t[x] = t[y]
      BY <1>0, <1>1, <1>3, KnownType DEF Main, OnBranch
    <2> QED BY <1>3, <2>1 DEF TableInv, UniqueHeights
  <1>6. BranchesLinked(u)
    <2> SUFFICES ASSUME NEW x \in Known(u), NEW y \in Known(u),
                        u[x] = u[y], Height[x] < Height[y]
                 PROVE  u[Parent[y]] = u[y]
      BY DEF BranchesLinked
    <2>0. x \in Block /\ y \in Block /\ x \in Known(t) /\ y \in Known(t)
      BY <1>3, KnownType
    <2>1. t[x] = t[y] /\ (x \in D <=> y \in D)
      BY <1>0, <1>1, <2>0 DEF Main, OnBranch
    <2>2. t[Parent[y]] = t[y]
      BY <2>0, <2>1 DEF TableInv, BranchesLinked
    <2>3. Parent[y] \in Block /\ Height[y] = Height[Parent[y]] + 1
      BY <1>0, <2>0, ParentIsBlock, ParentBelow
    <2>4. Height[x] =< Height[Parent[y]] /\ Height[Parent[y]] < Height[y]
      BY <1>0, <2>0, <2>3
    <2>5. Parent[y] \in D <=> y \in D
      BY <1>0, <2>0, <2>1, <2>2, <2>3, <2>4 DEF Main, OnBranch
    <2> QED BY <1>1, <2>0, <2>2, <2>3, <2>5
  <1>7. Accounted(t) \subseteq Accounted(u)
    <2>1. b \in Main(u)
      BY <1>0, <1>4
    <2> QED BY <1>3, <1>4, <2>1 DEF Accounted
  <1>8. AncestorClosed(Accounted(u))
    BY <1>3, <1>7, AccountedClosed DEF TableInv
  <1>9. Main(u) # {}
    BY <1>0, <1>4
  <1>10. RootKept(t, u, b)
    BY <1>4, LowestOfMain DEF RootKept
  <1> QED BY <1>2, <1>3, <1>4, <1>5, <1>6, <1>7, <1>8, <1>9, <1>10 DEF TableInv

(***************************************************************************)
(* The fork branch of a block off the main chain: its lowest block l, and  *)
(* how the branch is linked, to l and from there to the main chain.        *)
(***************************************************************************)
LEMMA ForkBranchShape ==
    ASSUME NEW t, TableInv(t), NEW b \in OffMain(t)
    PROVE  \E l \in PathToMain(t, b) :
              /\ \A c \in PathToMain(t, b) : Height[l] =< Height[c]
              /\ \A d \in Anc[b] : Height[l] =< Height[d] => d \in PathToMain(t, b)
              /\ \A c \in PathToMain(t, b) : c # l => Parent[c] \in PathToMain(t, b)
              /\ (\E x \in Main(t) : Height[x] < Height[l]) => Parent[l] \in Main(t)
  <1> DEFINE F == PathToMain(t, b)
  <1>0. /\ b \in Block /\ b \in Anc[b] /\ F \subseteq Anc[b] /\ Anc[b] \subseteq Block
        /\ \A c \in Block : Height[c] \in Nat
    BY KnownType, AncSelf, AncType, HeightType DEF PathToMain
  <1>1. b \in F
    <2> SUFFICES ASSUME NEW d \in Anc[b], Height[d] >= Height[b] PROVE d \in OffMain(t)
      BY <1>0 DEF PathToMain
    <2>1. d = b
      BY <1>0, AncHeight
    <2> QED BY <2>1
  <1>2. PICK l \in F : \A c \in F : Height[l] =< Height[c]
    BY <1>0, <1>1, LowestBlock
  <1>3. \A d \in Anc[b] : Height[l] =< Height[d] => d \in F
    <2> SUFFICES ASSUME NEW d \in Anc[b], Height[l] =< Height[d],
                        NEW e \in Anc[b], Height[e] >= Height[d]
                 PROVE  e \in OffMain(t)
      BY DEF PathToMain
    <2>1. Height[e] >= Height[l]
      BY <1>0
    <2> QED BY <1>2, <2>1 DEF PathToMain
  <1>4. ASSUME NEW c \in F, c # l PROVE Parent[c] \in F
    <2>1. Height[l] < Height[c]
      <3>1. Height[l] # Height[c]
        BY <1>0, <1>2, <1>4, AncSameHeight
      <3> QED BY <1>0, <1>2, <3>1
    <2>2. Parent[c] # NoBlock
      BY <1>0, <2>1, ParentIsBlock
    <2>3. Parent[c] \in Anc[b] /\ Height[l] =< Height[Parent[c]]
      BY <1>0, <2>1, <2>2, AncParent, ParentBelow
    <2> QED BY <1>3, <2>3
  <1>5. ASSUME NEW x \in Main(t), Height[x] < Height[l] PROVE Parent[l] \in Main(t)
    <2>0. x \in Block /\ l \in Block /\ l \in Known(t) /\ x \in Known(t)
      <3>1. l \in OffMain(t)
        BY <1>0, <1>2 DEF PathToMain
      <3> QED BY <3>1, KnownType
    <2>1. Parent[l] # NoBlock
      BY <1>0, <1>5, <2>0, ParentIsBlock
    <2>2. Parent[l] \in Anc[b] /\ Parent[l] \in Block /\ Height[l] = Height[Parent[l]] + 1
      BY <1>0, <2>0, <2>1, AncParent, ParentBelow
    <2>3. Parent[l] \in Known(t)
      <3> SUFFICES ASSUME Parent[l] \notin Known(t) PROVE FALSE
        OBVIOUS
      <3>1. l \in Accounted(t)
        BY <2>0 DEF Accounted
      <3>2. Parent[l] \in Accounted(t)
        BY <2>1, <3>1 DEF TableInv, AncestorClosed
      <3>3. Parent[l] \in Anc[x]
        BY <3>2 DEF Accounted
      <3>4. Height[Parent[l]] < Height[x]
        BY <2>0, <3>3, AncHeight
      <3> QED BY <1>0, <1>5, <2>0, <2>2, <3>4
    <2>4. ASSUME Parent[l] \in OffMain(t) PROVE FALSE
      <3>1. Parent[l] \in F
        <4> SUFFICES ASSUME NEW d \in Anc[b], Height[d] >= Height[Parent[l]]
                     PROVE  d \in OffMain(t)
          BY <2>2 DEF PathToMain
        <4>1. CASE Height[d] >= Height[l]
          BY <1>2, <4>1 DEF PathToMain
        <4>2. CASE ~ (Height[d] >= Height[l])
          <5>1. Height[d] = Height[Parent[l]]
            BY <1>0, <2>0, <2>2, <4>2
          <5>2. d = Parent[l]
            BY <1>0, <2>2, <5>1, AncSameHeight
          <5> QED BY <5>2, <2>4
        <4> QED BY <4>1, <4>2
      <3>2. Height[l] =< Height[Parent[l]]
        BY <1>2, <3>1
      <3> QED BY <1>0, <2>0, <2>2, <3>2
    <2> QED BY <2>3, <2>4 DEF OffMain
  <1> QED BY <1>2, <1>3, <1>4, <1>5

(* MarkAsTip for a block off the main chain. *)
LEMMA MarkOffMainBlock ==
    ASSUME NEW t, TableInv(t), NEW b \in OffMain(t), ReorgAllowed(t, b),
           NEW u, u = MarkAsTip(t, b)
    PROVE  /\ TableInv(u)
           /\ Known(u) = Known(t)
           /\ b \in Main(u)
           /\ \A c \in Main(u) : Height[c] =< Height[b]
           /\ Accounted(t) \subseteq Accounted(u)
           /\ RootKept(t, u, b)
  <1> DEFINE n == GetFreeBranchNumber(t)
             F == PathToMain(t, b)
  <1>1. PICK l \in F :
              /\ \A c \in F : Height[l] =< Height[c]
              /\ \A d \in Anc[b] : Height[l] =< Height[d] => d \in F
              /\ \A c \in F : c # l => Parent[c] \in F
              /\ (\E x \in Main(t) : Height[x] < Height[l]) => Parent[l] \in Main(t)
    BY ForkBranchShape
  <1>0. /\ n \in Nat \ {0} /\ \A c \in Block : t[c] # n
        /\ IsTable(t)
        /\ \A c \in Block : Height[c] \in Nat
        /\ b \in Block /\ b \in Known(t) /\ b \in Anc[b] /\ Anc[b] \subseteq Block
        /\ F \subseteq Anc[b] /\ F \subseteq Block /\ l \in Block
        /\ Main(t) # {}
    BY <1>1, FreeBranchNumber, HeightType, KnownType, AncSelf, AncType
       DEF TableInv, PathToMain
  <1>2. F \subseteq OffMain(t)
    BY <1>0 DEF PathToMain
  <1>3. b \in F
    <2>1. Height[l] =< Height[b]
      BY <1>0, <1>1, AncHeight
    <2> QED BY <1>0, <1>1, <2>1
  <1> DEFINE D == {c \in Main(t) : Height[c] >= Height[l]}
  <1>4. u = [c \in Block |-> IF c \in F THEN 0 ELSE IF c \in D THEN n ELSE t[c]]
    <2>1. GetForkBranch(t, b) = F
      BY <1>0, ForkBranchCorrect
    <2>2. Min({Height[c] : c \in F}) = Height[l]
      <3> DEFINE N == {Height[c] : c \in F}
      <3>1. N \subseteq Nat /\ Height[l] \in N /\ \A m \in N : Height[l] =< m
        BY <1>0, <1>1
      <3>2. Min(N) \in N /\ \A m \in N : Min(N) =< m
        BY <3>1 DEF Min
      <3> HIDE DEF N
      <3>3. Min(N) \in Nat /\ Height[l] \in Nat /\ Min(N) =< Height[l] /\ Height[l] =< Min(N)
        BY <3>1, <3>2
      <3>4. Min(N) = Height[l]
        BY <3>3
      <3> QED BY <3>4 DEF N
    <2>3. b \notin Main(t)
      BY DEF OffMain
    <2> HIDE DEF F
    <2>4. u = MakeMain(DetachFrom(t, Height[l]), F)
      BY <2>1, <2>2, <2>3 DEF MarkAsTip
    <2>5. \A c \in Block : (t[c] = MainBranch /\ Height[c] >= Height[l]) <=> c \in D
      BY DEF Main, OnBranch
    <2>6. DetachFrom(t, Height[l]) = [c \in Block |-> IF c \in D THEN n ELSE t[c]]
      BY <2>5 DEF DetachFrom
    <2> HIDE DEF D, n
    <2> QED BY <2>4, <2>6 DEF MakeMain, MainBranch
  <1> HIDE DEF n, F
  <1>5. IsTable(u)
    BY <1>0, <1>4 DEF IsTable
  <1>6. Known(u) = Known(t)
    BY <1>0, <1>2, <1>4 DEF Known, OffMain, Main, OnBranch, NotStored, MainBranch
  <1>7. Main(u) = F \cup {c \in Main(t) : Height[c] < Height[l]}
    BY <1>0, <1>2, <1>4 DEF OffMain, Main, OnBranch, MainBranch
  <1>8. \A c \in Main(u) : Height[c] =< Height[b]
    <2> TAKE c \in Main(u)
    <2>1. CASE c \in F
      BY <1>0, <2>1, AncHeight
    <2>2. CASE c \in Main(t) /\ Height[c] < Height[l]
      BY <1>0, <1>1, <1>3, <2>2, KnownType
    <2> QED BY <1>7, <2>1, <2>2
  <1>9. UniqueHeights(u)
    <2> SUFFICES ASSUME NEW x \in Known(u), NEW y \in Known(u),
                        u[x] = u[y], Height[x] = Height[y]
                 PROVE  x = y
      BY DEF UniqueHeights
    <2>0. x \in Block /\ y \in Block /\ x \in Known(t) /\ y \in Known(t)
      BY <1>6, KnownType
    <2>1. CASE x \in F /\ y \in F
      BY <1>0, <2>1, AncSameHeight
    <2>2. CASE ~ (x \in F /\ y \in F)
      <3>1. t[x] = t[y]
        BY <1>0, <1>1, <1>2, <1>4, <2>0, <2>2 DEF OffMain, Main, OnBranch, MainBranch
      <3> QED BY <2>0, <3>1 DEF TableInv, UniqueHeights
    <2> QED BY <2>1, <2>2
  <1>10. BranchesLinked(u)
    <2> SUFFICES ASSUME NEW x \in Known(u), NEW y \in Known(u),
                        u[x] = u[y], Height[x] < Height[y]
                 PROVE  u[Parent[y]] = u[y]
      BY DEF BranchesLinked
    <2>0. x \in Block /\ y \in Block /\ x \in Known(t) /\ y \in Known(t)
      BY <1>6, KnownType
    <2>1. /\ Parent[y] \in Block /\ Height[y] = Height[Parent[y]] + 1
          /\ Height[x] =< Height[Parent[y]] /\ Height[Parent[y]] < Height[y]
      BY <1>0, <2>0, ParentIsBlock, ParentBelow
    <2>2. CASE y \in F /\ y # l
      BY <1>1, <1>4, <2>0, <2>1, <2>2
    <2>3. CASE y = l
      <3>1. x \in Main(t) /\ Height[x] < Height[l]
        BY <1>0, <1>1, <1>4, <2>0, <2>3 DEF Main, OnBranch, MainBranch
      <3>2. Parent[l] \in Main(t)
        BY <1>1, <3>1
      <3>3. Parent[l] \in Main(u)
        BY <1>7, <2>1, <2>3, <3>2
      <3> QED BY <1>1, <1>4, <2>0, <2>3, <3>3 DEF Main, OnBranch, MainBranch
    <2>4. CASE y \notin F /\ y \in Main(t)
      <3>1. x \in Main(t) /\ (x \in D <=> y \in D)
        <4>1. CASE y \in D
          BY <1>0, <1>4, <2>0, <2>4, <4>1 DEF Main, OnBranch, MainBranch
        <4>2. CASE y \notin D
          <5>1. Height[y] < Height[l]
            BY <1>0, <2>0, <2>4, <4>2
          <5>2. x \notin F
            BY <1>0, <1>1, <2>0, <5>1
          <5> QED BY <1>0, <1>4, <2>0, <2>4, <4>2, <5>1, <5>2 DEF Main, OnBranch, MainBranch
        <4> QED BY <4>1, <4>2
      <3>2. t[Parent[y]] = t[y]
        BY <2>0, <2>4, <3>1 DEF TableInv, BranchesLinked, Main, OnBranch
      <3>3. Parent[y] \in Main(t) /\ Parent[y] \notin F
        BY <1>2, <2>1, <2>4, <3>2 DEF Main, OnBranch, OffMain
      <3>4. Parent[y] \in D <=> y \in D
        BY <1>0, <2>0, <2>1, <2>4, <3>1, <3>3
      <3> QED BY <1>4, <2>0, <2>1, <2>4, <3>2, <3>3, <3>4
    <2>5. CASE y \notin F /\ y \notin Main(t)
      <3>1. t[x] = t[y] /\ x \notin F /\ u[y] = t[y]
        BY <1>0, <1>4, <2>0, <2>5 DEF Main, OnBranch, MainBranch
      <3>2. t[Parent[y]] = t[y]
        BY <2>0, <3>1 DEF TableInv, BranchesLinked
      <3>3. Parent[y] \notin F
        <4> SUFFICES ASSUME Parent[y] \in F PROVE FALSE
          OBVIOUS
        <4>1. Parent[y] \in Anc[b] \cap OffMain(t)
          BY <1>0, <1>2
        <4>2. \A d \in Anc[b] : Height[d] > Height[Parent[y]] => d \in OffMain(t)
          <5> TAKE d \in Anc[b]
          <5>1. Height[d] > Height[Parent[y]] => Height[l] =< Height[d]
            BY <1>0, <1>1, <2>1
          <5> QED BY <1>1, <1>2, <5>1
        <4>3. BranchUpTo(t, Parent[y]) \subseteq F
          BY <4>1, <4>2, PathHasBranch DEF F
        <4>4. x \in BranchUpTo(t, Parent[y])
          BY <2>0, <2>1, <3>1, <3>2 DEF BranchUpTo, OnBranch
        <4> QED BY <3>1, <4>3, <4>4
      <3>4. Parent[y] \notin D
        BY <2>0, <2>5, <3>2 DEF Main, OnBranch
      <3> QED BY <1>4, <2>1, <3>1, <3>2, <3>3, <3>4
    <2> QED BY <2>2, <2>3, <2>4, <2>5
  <1>11. Accounted(t) \subseteq Accounted(u)
    <2> SUFFICES ASSUME NEW x \in Block, x \notin Known(t),
                        \A c \in Main(t) : x \in Anc[c], NEW c \in Main(u)
                 PROVE  x \in Anc[c]
      BY <1>3, <1>6, <1>7 DEF Accounted
    <2>1. CASE c \in Main(t)
      BY <2>1
    <2>2. CASE c \in F
      <3>1. /\ Lowest(t) \in Main(t) /\ Lowest(t) \in Block
            /\ Lowest(t) \in Known(t) /\ x \in Anc[Lowest(t)]
        BY <1>0, LowestOfMain, KnownType
      <3>2. Parent[Lowest(t)] # NoBlock /\ x \in Anc[Parent[Lowest(t)]]
        BY <3>1, AncUnfold
      <3>3. Parent[Lowest(t)] \in Anc[b]
        BY <1>0, <3>2 DEF ReorgAllowed
      <3>4. x \in Anc[b]
        BY <1>0, <3>2, <3>3, AncTransitive
      <3>5. ~ (Height[l] =< Height[x])
        BY <1>1, <1>2, <3>4, KnownType
      <3>6. Height[x] =< Height[c]
        BY <1>0, <1>1, <2>2, <3>5
      <3> QED BY <1>0, <2>2, <3>4, <3>6, AncLinear
    <2> QED BY <1>7, <2>1, <2>2
  <1>12. AncestorClosed(Accounted(u))
    BY <1>6, <1>11, AccountedClosed DEF TableInv
  <1>13. RootKept(t, u, b)
    <2> SUFFICES ASSUME Lowest(t) \in Anc[b]
                 PROVE  /\ Lowest(t) \in Main(u)
                        /\ \A c \in Main(u) : Height[Lowest(t)] =< Height[c]
      BY DEF RootKept
    <2>1. /\ Lowest(t) \in Main(t) /\ Lowest(t) \in Block
          /\ \A c \in Main(t) : Height[Lowest(t)] =< Height[c]
      BY <1>0, LowestOfMain, KnownType
    <2>2. Lowest(t) \notin F
      BY <1>2, <2>1 DEF OffMain
    <2>3. Height[Lowest(t)] < Height[l]
      BY <1>0, <1>1, <2>1, <2>2
    <2>4. \A c \in F : Height[Lowest(t)] =< Height[c]
      BY <1>0, <1>1, <2>1, <2>3
    <2> QED BY <1>7, <2>1, <2>3, <2>4
  <1> QED BY <1>3, <1>5, <1>6, <1>7, <1>8, <1>9, <1>10, <1>11, <1>12, <1>13 DEF TableInv

-----------------------------------------------------------------------------
(* What an operation does that makes b the tip. *)
NewTip(t, u, b) ==
    /\ TableInv(u)
    /\ b \in Main(u)
    /\ \A c \in Main(u) : Height[c] =< Height[b]
    /\ Accounted(t) \subseteq Accounted(u)

LEMMA MarkAsTipCorrect ==
    ASSUME NEW t, TableInv(t), NEW b \in Known(t), ReorgAllowed(t, b)
    PROVE  /\ NewTip(t, MarkAsTip(t, b), b)
           /\ Known(MarkAsTip(t, b)) = Known(t)
           /\ RootKept(t, MarkAsTip(t, b), b)
  <1>1. CASE b \in Main(t)
    <2>1. b \in Block /\ Height[b] =< Height[b]
      BY KnownType, HeightType
    <2> QED BY <1>1, <2>1, MarkMainBlock DEF NewTip
  <1>2. CASE b \notin Main(t)
    <2>1. b \in OffMain(t)
      BY <1>2 DEF OffMain
    <2> QED BY <2>1, MarkOffMainBlock DEF NewTip
  <1> QED BY <1>1, <1>2

(* A new block is stored on a branch of its own before it becomes the tip. *)
LEMMA InsertOnBranch ==
    ASSUME NEW t, TableInv(t), NEW b \in Block, b \notin Known(t),
           Parent[b] \in Known(t),
           NEW u, u = InsertBlock(t, b, GetFreeBranchNumber(t))
    PROVE  /\ TableInv(u)
           /\ Known(u) = Known(t) \cup {b}
           /\ Main(u) = Main(t)
           /\ Accounted(t) \subseteq Accounted(u)
  <1> DEFINE n == GetFreeBranchNumber(t)
  <1>0. n \in Nat \ {0} /\ (\A c \in Block : t[c] # n) /\ IsTable(t)
    BY FreeBranchNumber DEF TableInv
  <1>1. u \in [Block -> Nat \cup {NotStored}]
        /\ \A c \in Block : u[c] = IF c = b THEN n ELSE t[c]
    BY <1>0 DEF InsertBlock, IsTable
  <1> HIDE DEF n
  <1>2. Known(u) = Known(t) \cup {b} /\ Main(u) = Main(t)
    BY <1>0, <1>1 DEF Known, Main, OnBranch, NotStored, MainBranch
  <1>3. UniqueHeights(u)
    <2> SUFFICES ASSUME NEW x \in Known(u), NEW y \in Known(u),
                        u[x] = u[y], Height[x] = Height[y], x # y
                 PROVE  FALSE
      BY DEF UniqueHeights
    <2>1. x \in Known(t) /\ y \in Known(t) /\ t[x] = t[y]
      BY <1>0, <1>1, <1>2, KnownType
    <2> QED BY <2>1 DEF TableInv, UniqueHeights
  <1>4. BranchesLinked(u)
    <2> SUFFICES ASSUME NEW x \in Known(u), NEW y \in Known(u),
                        u[x] = u[y], Height[x] < Height[y]
                 PROVE  u[Parent[y]] = u[y]
      BY DEF BranchesLinked
    <2>0. x \in Block /\ y \in Block
      BY KnownType
    <2>1. x # y
      BY <2>0, HeightType
    <2>2. x \in Known(t) /\ y \in Known(t) /\ t[x] = t[y] /\ u[y] = t[y]
      BY <1>0, <1>1, <1>2, <2>0, <2>1
    <2>3. t[Parent[y]] = t[y]
      BY <2>2 DEF TableInv, BranchesLinked
    <2>4. Parent[y] # NoBlock
      BY <2>0, HeightType, ParentIsBlock
    <2>5. Parent[y] \in Block
      BY <2>0, <2>4, ParentIsBlock
    <2>6. Parent[y] \in Known(t)
      BY <2>2, <2>3, <2>5 DEF Known
    <2> QED BY <1>1, <2>2, <2>3, <2>5, <2>6
  <1>5. Accounted(t) \subseteq Accounted(u) /\ Parent[b] \in Accounted(u)
    BY <1>2 DEF Accounted
  <1>6. AncestorClosed(Accounted(u))
    BY <1>2, <1>5, AccountedClosed DEF TableInv
  <1>7. Main(u) # {}
    BY <1>2 DEF TableInv
  <1> QED BY <1>1, <1>2, <1>3, <1>4, <1>5, <1>6, <1>7 DEF TableInv, IsTable

(* SetTip keeps the invariant, loses no block and makes b the tip. *)
LEMMA SetTipCorrect ==
    ASSUME NEW t, TableInv(t), NEW b \in Block, ReorgAllowed(t, b), CanSetTip(t, b)
    PROVE  /\ NewTip(t, SetTip(t, b), b)
           /\ Known(SetTip(t, b)) = Known(t) \cup {b}
           /\ RootKept(t, SetTip(t, b), b)
  <1>1. CASE b \in Known(t)
    BY <1>1, MarkAsTipCorrect DEF SetTip
  <1>2. CASE b \notin Known(t)
    <2> DEFINE u == InsertBlock(t, b, GetFreeBranchNumber(t))
    <2>1. Parent[b] \in Known(t)
      BY <1>2 DEF CanSetTip
    <2>2. /\ TableInv(u) /\ Known(u) = Known(t) \cup {b} /\ Main(u) = Main(t)
          /\ Accounted(t) \subseteq Accounted(u)
      BY <1>2, <2>1, InsertOnBranch
    <2>3. SetTip(t, b) = MarkAsTip(u, b)
      BY <1>2 DEF SetTip
    <2> HIDE DEF u
    <2>4. ReorgAllowed(u, b) /\ b \in Known(u)
      BY <2>2 DEF ReorgAllowed, Lowest
    <2>5. /\ NewTip(u, MarkAsTip(u, b), b) /\ Known(MarkAsTip(u, b)) = Known(u)
          /\ RootKept(u, MarkAsTip(u, b), b)
      BY <2>2, <2>4, MarkAsTipCorrect
    <2>6. RootKept(t, MarkAsTip(u, b), b)
      BY <2>2, <2>5 DEF RootKept, Lowest
    <2> QED BY <2>2, <2>3, <2>5, <2>6 DEF NewTip
  <1> QED BY <1>1, <1>2

(* Pruning below the tip keeps the invariant, and loses no block. *)
LEMMA PruneCorrect ==
    ASSUME NEW t, TableInv(t), NEW h \in Int, NEW b \in Main(t), h < Height[b],
           NEW u, u = Prune(t, h)
    PROVE  /\ TableInv(u)
           /\ Known(u) = Known(t) \ {c \in Main(t) : Height[c] =< h}
           /\ Main(u) = {c \in Main(t) : Height[c] > h}
           /\ Accounted(t) \subseteq Accounted(u)
  <1> DEFINE D == {c \in Main(t) : Height[c] =< h}
  <1>0. IsTable(t) /\ b \in Block /\ \A c \in Block : Height[c] \in Nat
    BY KnownType, HeightType DEF TableInv
  <1>1. u = [c \in Block |-> IF c \in D THEN NotStored ELSE t[c]]
    <2>1. \A c \in Block : (t[c] = MainBranch /\ Height[c] =< h) <=> c \in D
      BY DEF Main, OnBranch
    <2> QED BY <2>1 DEF Prune
  <1>2. Known(u) = Known(t) \ D
    BY <1>1 DEF Known
  <1>3. Main(u) = {c \in Main(t) : Height[c] > h}
    BY <1>0, <1>1 DEF Main, OnBranch, MainBranch, NotStored
  <1>4. IsTable(u)
    BY <1>0, <1>1 DEF IsTable
  <1>5. UniqueHeights(u)
    BY <1>1, <1>2, KnownType DEF TableInv, UniqueHeights
  <1>6. BranchesLinked(u)
    <2> SUFFICES ASSUME NEW x \in Known(u), NEW y \in Known(u),
                        u[x] = u[y], Height[x] < Height[y]
                 PROVE  u[Parent[y]] = u[y]
      BY DEF BranchesLinked
    <2>0. /\ x \in Block /\ y \in Block /\ x \in Known(t) /\ y \in Known(t)
          /\ x \notin D /\ y \notin D
      BY <1>2, KnownType
    <2>1. t[x] = t[y] /\ u[y] = t[y]
      BY <1>1, <2>0
    <2>2. t[Parent[y]] = t[y]
      BY <2>0, <2>1 DEF TableInv, BranchesLinked
    <2>3. Parent[y] \in Block /\ Height[x] =< Height[Parent[y]]
      BY <1>0, <2>0, ParentIsBlock, ParentBelow
    <2>4. Parent[y] \notin D
      BY <1>0, <2>0, <2>1, <2>2, <2>3 DEF Main, OnBranch
    <2> QED BY <1>1, <2>1, <2>2, <2>3, <2>4
  <1>7. b \in Main(u)
    BY <1>0, <1>3
  <1>8. Accounted(t) \subseteq Accounted(u)
    <2> SUFFICES ASSUME NEW x \in Accounted(t), x \notin Known(u), NEW c \in Main(u)
                 PROVE  x \in Block /\ x \in Anc[c]
      BY <1>7 DEF Accounted
    <2>1. c \in Main(t) /\ Height[c] > h /\ c \in Block
      BY <1>3, KnownType
    <2>2. CASE x \in Known(t)
      <3>1. x \in Main(t) /\ Height[x] =< h /\ x \in Block
        BY <1>2, <2>2, KnownType
      <3>2. Height[x] =< Height[c]
        BY <1>0, <2>1, <3>1
      <3> QED BY <2>1, <3>1, <3>2, MainIsLinear
    <2>3. CASE x \notin Known(t)
      BY <2>1, <2>3 DEF Accounted
    <2> QED BY <2>2, <2>3
  <1>9. AncestorClosed(Accounted(u))
    BY <1>2, <1>8, AccountedClosed DEF TableInv
  <1> QED BY <1>2, <1>3, <1>4, <1>5, <1>6, <1>7, <1>8, <1>9 DEF TableInv

(* ImportTip keeps the invariant, loses no block and makes b the tip. *)
LEMMA ImportTipCorrect ==
    ASSUME NEW t, TableInv(t), NEW b \in Block, ImportAllowed(t, b), CanImportTip(t, b)
    PROVE  /\ NewTip(t, ImportTip(t, b), b)
           /\ Main(ImportTip(t, b)) = {b}
           /\ Known(ImportTip(t, b)) \subseteq Known(t) \cup {b}
           /\ Known(t) \ (Anc[b] \ {b}) \subseteq Known(ImportTip(t, b))
           /\ Main(t) \cap Known(ImportTip(t, b)) = {}
  <1> DEFINE v == IF b \in Known(t) THEN MarkAsTip(t, b)
                  ELSE InsertBlock(t, b, MainBranch)
             u == Prune(v, Height[b] - 1)
  <1>0. /\ ImportTip(t, b) = u
        /\ \A c \in Block : Height[c] \in Nat
        /\ Height[b] - 1 \in Int /\ Height[b] - 1 < Height[b]
    BY HeightType DEF ImportTip
  <1>1. \A c \in Main(t) : c \in Block /\ c \in Anc[b] /\ Height[c] < Height[b]
    <2> TAKE c \in Main(t)
    <2>1. Tip(t) \in Main(t) /\ Tip(t) \in Block /\ Height[c] =< Height[Tip(t)] /\ c \in Block
      BY TipOfMain, KnownType
    <2>2. c \in Anc[Tip(t)] /\ Tip(t) \in Anc[b]
      BY <2>1, MainIsLinear DEF ImportAllowed
    <2>3. c \in Anc[b]
      BY <2>2, AncTransitive
    <2>4. Height[Tip(t)] < Height[b]
      BY <2>1, TipHeight DEF CanImportTip
    <2> QED BY <1>0, <2>1, <2>3, <2>4
  <1>2. CASE b \in Known(t)
    <2>0. v = MarkAsTip(t, b)
      BY <1>2
    <2> HIDE DEF v
    <2>1. ReorgAllowed(t, b)
      <3> SUFFICES ASSUME Main(t) # {}, Parent[Lowest(t)] # NoBlock
                   PROVE  Parent[Lowest(t)] \in Anc[b]
        BY DEF ReorgAllowed
      <3>1. Lowest(t) \in Anc[b]
        BY <1>1, LowestOfMain
      <3> QED BY <3>1, AncParent
    <2>2. NewTip(t, v, b)
      BY <1>2, <2>0, <2>1, MarkAsTipCorrect
    <2>3. TableInv(v) /\ b \in Main(v)
      BY <2>2 DEF NewTip
    <2>4. /\ TableInv(u) /\ Main(u) = {c \in Main(v) : Height[c] > Height[b] - 1}
          /\ Accounted(v) \subseteq Accounted(u)
      BY <1>0, <2>3, PruneCorrect
    <2>b. Known(u) = Known(v) \ {c \in Main(v) : Height[c] =< Height[b] - 1}
      BY <1>0, <2>3, PruneCorrect
    <2> HIDE DEF u
    <2>5. Main(u) = {b}
      <3>1. ASSUME NEW c \in Main(u) PROVE c = b
        <4>1. c \in Main(v) /\ c \in Block /\ Height[c] > Height[b] - 1
              /\ Height[c] =< Height[b]
          BY <2>2, <2>4, KnownType DEF NewTip
        <4>2. Height[c] = Height[b]
          BY <1>0, <4>1
        <4>3. c \in Known(v) /\ b \in Known(v) /\ v[c] = v[b]
          BY <2>3, <4>1, KnownType DEF Main, OnBranch
        <4> QED BY <2>3, <4>2, <4>3 DEF TableInv, UniqueHeights
      <3>2. b \in Main(u)
        BY <1>0, <2>3, <2>4
      <3> QED BY <3>1, <3>2
    <2>6. \A c \in Main(u) : Height[c] =< Height[b]
      BY <1>0, <2>5
    <2>7. Known(u) = Known(t) \ {c \in Main(v) : Height[c] =< Height[b] - 1}
      BY <1>2, <2>0, <2>1, <2>b, MarkAsTipCorrect
    <2>8. \A c \in Main(v) : Height[c] =< Height[b] - 1 => c \in Anc[b] \ {b}
      <3> SUFFICES ASSUME NEW c \in Main(v), Height[c] =< Height[b] - 1
                   PROVE  c \in Anc[b] \ {b}
        OBVIOUS
      <3>1. c # b /\ Height[c] =< Height[b]
        BY <1>0, <2>2, KnownType DEF NewTip
      <3> QED BY <2>3, <3>1, MainIsLinear
    <2>9. ASSUME NEW c \in Main(t)
          PROVE  c \in Main(v) /\ Height[c] =< Height[b] - 1
      <3>1. /\ Lowest(t) \in Anc[b] /\ Lowest(t) \in Block /\ Lowest(t) \in Main(v)
            /\ Height[Lowest(t)] =< Height[c]
        BY <1>1, <1>2, <2>0, <2>1, LowestOfMain, MarkAsTipCorrect DEF RootKept
      <3>2. c \in Block /\ c \in Anc[b] /\ Height[c] < Height[b]
        BY <1>1
      <3>a. Height[Lowest(t)] =< Height[b]
        BY <1>0, <3>1, <3>2
      <3>3. b \in Known(v) /\ v[b] = MainBranch /\ Lowest(t) \in BranchUpTo(v, b)
        BY <2>3, <3>1, <3>a, KnownType DEF BranchUpTo, Main, OnBranch
      <3>4. c \in BranchUpTo(v, b)
        BY <2>3, <3>1, <3>2, <3>3, BranchHasAncestors
      <3> QED BY <1>0, <3>2, <3>3, <3>4 DEF BranchUpTo, Main
    <2> QED BY <1>0, <2>2, <2>4, <2>5, <2>6, <2>7, <2>8, <2>9 DEF NewTip
  <1>3. CASE b \notin Known(t)
    <2>0. IsTable(t)
      BY DEF TableInv
    <2>1. v \in [Block -> Nat \cup {NotStored}]
          /\ \A c \in Block : v[c] = IF c = b THEN 0 ELSE t[c]
      BY <1>3, <2>0 DEF InsertBlock, IsTable, MainBranch
    <2> HIDE DEF v
    <2>2. u \in [Block -> Nat \cup {NotStored}]
          /\ \A c \in Block : u[c] = IF v[c] = 0 /\ Height[c] =< Height[b] - 1
                                       THEN NotStored ELSE v[c]
      BY <2>1 DEF Prune, MainBranch
    <2> HIDE DEF u
    <2>3. /\ u[b] = 0
          /\ \A c \in Block : c # b => u[c] = IF c \in Main(t) THEN NotStored ELSE t[c]
      BY <1>0, <1>1, <2>1, <2>2 DEF Main, OnBranch, MainBranch
    <2>4. Main(u) = {b} /\ Known(u) = OffMain(t) \cup {b} /\ b \notin OffMain(t)
      BY <1>3, <2>3 DEF Main, OnBranch, Known, OffMain, MainBranch, NotStored
    <2>5. UniqueHeights(u)
      <3> SUFFICES ASSUME NEW x \in Known(u), NEW y \in Known(u),
                          u[x] = u[y], Height[x] = Height[y], x # y
                   PROVE  FALSE
        BY DEF UniqueHeights
      <3>1. x \in OffMain(t) /\ y \in OffMain(t)
        BY <2>4, KnownType DEF Main, OnBranch, MainBranch
      <3>2. x \in Known(t) /\ y \in Known(t) /\ t[x] = t[y]
        BY <2>3, <2>4, <3>1, KnownType DEF OffMain
      <3> QED BY <3>2 DEF TableInv, UniqueHeights
    <2>6. BranchesLinked(u)
      <3> SUFFICES ASSUME NEW x \in Known(u), NEW y \in Known(u),
                          u[x] = u[y], Height[x] < Height[y]
                   PROVE  u[Parent[y]] = u[y]
        BY DEF BranchesLinked
      <3>0. x \in Block /\ y \in Block /\ x # y
        BY <1>0, KnownType
      <3>1. x \in OffMain(t) /\ y \in OffMain(t)
        BY <2>3, <2>4, <3>0 DEF Main, OnBranch, MainBranch
      <3>2. /\ x \in Known(t) /\ y \in Known(t) /\ t[x] = t[y] /\ u[y] = t[y]
            /\ t[y] # MainBranch
        BY <2>3, <2>4, <3>0, <3>1 DEF OffMain, Main, OnBranch
      <3>3. t[Parent[y]] = t[y]
        BY <3>2 DEF TableInv, BranchesLinked
      <3>4. Parent[y] \in Block
        BY <1>0, <3>0, ParentIsBlock
      <3>5. Parent[y] # b /\ Parent[y] \notin Main(t)
        BY <1>3, <3>2, <3>3, <3>4 DEF Known, Main, OnBranch
      <3> QED BY <2>3, <3>2, <3>3, <3>4, <3>5
    <2>7. Accounted(t) \subseteq Accounted(u)
      <3> SUFFICES ASSUME NEW x \in Accounted(t), x \notin Known(u)
                   PROVE  x \in Block /\ x \in Anc[b]
        BY <2>4 DEF Accounted
      <3>1. CASE x \in Known(t)
        BY <1>1, <2>4, <3>1 DEF OffMain
      <3>2. CASE x \notin Known(t)
        <4>1. x \in Block /\ Main(t) # {} /\ \A c \in Main(t) : x \in Anc[c]
          BY <3>2 DEF Accounted
        <4>2. PICK c \in Main(t) : x \in Anc[c]
          BY <4>1
        <4> QED BY <1>1, <4>1, <4>2, AncTransitive
      <3> QED BY <3>1, <3>2
    <2>8. AncestorClosed(Accounted(u))
      <3>1. b \in Anc[b] /\ (Parent[b] # NoBlock => Parent[b] \in Anc[b])
        BY AncSelf, AncParent
      <3>2. Parent[b] = NoBlock \/ Parent[b] \in Accounted(u)
        BY <2>4, <3>1, AncType DEF Accounted
      <3>3. \A x \in Known(u) : x \in Known(t) \/ Parent[x] = NoBlock \/ Parent[x] \in Accounted(u)
        BY <2>4, <3>2, KnownType
      <3> QED BY <2>7, <3>3, AccountedClosed DEF TableInv
    <2>9. \A c \in Main(u) : Height[c] =< Height[b]
      BY <1>0, <2>4
    <2>10. /\ Known(u) \subseteq Known(t) \cup {b}
           /\ Known(t) \ (Anc[b] \ {b}) \subseteq Known(u)
           /\ Main(t) \cap Known(u) = {}
      BY <1>1, <1>3, <2>4, KnownType DEF OffMain
    <2>11. NewTip(t, u, b)
      BY <2>2, <2>4, <2>5, <2>6, <2>7, <2>8, <2>9 DEF NewTip, TableInv, IsTable
    <2> QED BY <1>0, <2>4, <2>10, <2>11
  <1> QED BY <1>2, <1>3

-----------------------------------------------------------------------------
(***************************************************************************)
(* What the invariant of a table says about it, in the terms of the        *)
(* properties of Chainstate.                                               *)
(***************************************************************************)
LEMMA InvIsSane ==
    ASSUME NEW t, TableInv(t)
    PROVE  SanityCheck(t)
  <1> SUFFICES ASSUME Known(t) # {}
               PROVE  /\ \A b \in OffMain(t) :
                            /\ IsChain(OnBranch(t, t[b]))
                            /\ IsBranchEnd(t, b) =>
                                  IF Parent[b] \in Known(t)
                                    THEN t[Parent[b]] # t[b]
                                    ELSE Height[b] =< GetLowestUnprunedHeight(t)
                      /\ Main(t) # {}
    BY DEF SanityCheck
  <1>1. Main(t) # {}
    BY DEF TableInv
  <1>2. ASSUME NEW b \in OffMain(t)
        PROVE  IsChain(OnBranch(t, t[b]))
    <2>0. b \in Known(t) /\ \A c \in OnBranch(t, t[b]) : c \in Known(t) /\ t[c] = t[b]
      BY KnownType DEF OnBranch, Known
    <2> SUFFICES ASSUME NEW c \in OnBranch(t, t[b]), NEW d \in OnBranch(t, t[b])
                 PROVE  /\ Height[c] = Height[d] => c = d
                        /\ Height[c] < Height[d] => Parent[d] \in OnBranch(t, t[b])
      BY DEF IsChain
    <2>1. Height[c] = Height[d] => c = d
      BY <2>0 DEF TableInv, UniqueHeights
    <2>2. ASSUME Height[c] < Height[d]
          PROVE  Parent[d] \in OnBranch(t, t[b])
      <3>1. t[Parent[d]] = t[b]
        BY <2>0, <2>2 DEF TableInv, BranchesLinked
      <3>2. c \in Block /\ d \in Block
        BY <2>0, KnownType
      <3>3. Parent[d] \in Block
        BY <2>2, <3>2, HeightType, ParentIsBlock
      <3> QED BY <3>1, <3>3 DEF OnBranch
    <2> QED BY <2>1, <2>2
  <1>3. ASSUME NEW b \in OffMain(t), IsBranchEnd(t, b), Parent[b] \in Known(t)
        PROVE  t[Parent[b]] # t[b]
    <2>1. b \in Block /\ Parent[b] \in Block
      BY <1>3, KnownType
    <2>2. Height[Parent[b]] \in Nat /\ Height[b] = Height[Parent[b]] + 1
      BY <2>1, ParentBelow, BlocksAssumption
    <2> QED BY <1>3, <2>1, <2>2 DEF IsBranchEnd, OnBranch
  <1>4. ASSUME NEW b \in OffMain(t), Parent[b] \notin Known(t)
        PROVE  Height[b] =< GetLowestUnprunedHeight(t)
    <2>0. /\ b \in Block /\ b \in Accounted(t)
          /\ Lowest(t) \in Main(t) /\ Lowest(t) \in Block
          /\ Height[b] \in Nat /\ Height[Lowest(t)] \in Nat
      BY <1>1, KnownType, LowestOfMain, HeightType DEF Accounted
    <2>1. CASE Parent[b] = NoBlock
      BY <1>1, <2>0, <2>1, LowestHeight, BlocksAssumption
    <2>2. CASE Parent[b] # NoBlock
      <3>1. Parent[b] \in Accounted(t)
        BY <2>0, <2>2 DEF TableInv, AncestorClosed
      <3>2. Parent[b] \in Anc[Lowest(t)]
        BY <1>4, <2>0, <3>1 DEF Accounted
      <3>4. Parent[b] # Lowest(t)
        BY <1>4, <2>0, KnownType
      <3>5. Height[Parent[b]] < Height[Lowest(t)]
        BY <2>0, <3>2, <3>4, AncHeight
      <3>6. Height[b] = Height[Parent[b]] + 1 /\ Height[Parent[b]] \in Nat
        BY <2>0, <2>2, ParentBelow
      <3> QED BY <1>1, <2>0, <3>5, <3>6, LowestHeight
    <2> QED BY <2>1, <2>2
  <1> QED BY <1>1, <1>2, <1>3, <1>4

LEMMA InvHasNoGaps ==
    ASSUME NEW t, TableInv(t)
    PROVE  MainIsAncestry(t)
  <1> SUFFICES ASSUME Main(t) # {}
               PROVE  Main(t) = {c \in Anc[Tip(t)] : Height[c] >= Height[Lowest(t)]}
    BY DEF MainIsAncestry
  <1>0. /\ Tip(t) \in Main(t) /\ Lowest(t) \in Main(t)
        /\ Tip(t) \in Known(t) /\ Tip(t) \in Block
        /\ \A c \in Main(t) : Height[c] =< Height[Tip(t)] /\ Height[Lowest(t)] =< Height[c]
        /\ \A c \in Block : Height[c] \in Nat
        /\ Main(t) \subseteq Block
        /\ Anc[Tip(t)] \subseteq Block
    BY TipOfMain, LowestOfMain, KnownType, HeightType, AncType
  <1>1. ASSUME NEW c \in Main(t)
        PROVE  c \in Anc[Tip(t)] /\ Height[c] >= Height[Lowest(t)]
    BY <1>0, MainIsLinear
  <1>2. ASSUME NEW c \in Anc[Tip(t)], Height[c] >= Height[Lowest(t)]
        PROVE  c \in Main(t)
    <2>1. t[Tip(t)] = MainBranch /\ Lowest(t) \in BranchUpTo(t, Tip(t))
      BY <1>0 DEF Main, OnBranch, BranchUpTo
    <2>2. Height[Lowest(t)] =< Height[c]
      BY <1>0, <1>2
    <2>3. c \in BranchUpTo(t, Tip(t))
      BY <1>0, <2>1, <2>2, BranchHasAncestors
    <2> QED BY <2>1, <2>3 DEF BranchUpTo, Main
  <1> QED BY <1>1, <1>2

-----------------------------------------------------------------------------
(* The ends of the main chain are determined by their heights. *)
LEMMA EndsOfMain ==
    ASSUME NEW t, TableInv(t), NEW b \in Main(t)
    PROVE  /\ (\A c \in Main(t) : Height[c] =< Height[b]) => b = Tip(t)
           /\ (\A c \in Main(t) : Height[b] =< Height[c]) => b = Lowest(t)
  <1>0. /\ Tip(t) \in Main(t) /\ Lowest(t) \in Main(t)
        /\ \A c \in Main(t) : Height[c] =< Height[Tip(t)] /\ Height[Lowest(t)] =< Height[c]
        /\ \A c \in Main(t) : Height[c] \in Nat
    BY TipOfMain, LowestOfMain, KnownType, HeightType
  <1>1. \A c, d \in Main(t) : Height[c] = Height[d] => c = d
    BY KnownType DEF TableInv, UniqueHeights, Main, OnBranch
  <1> QED BY <1>0, <1>1
=============================================================================
