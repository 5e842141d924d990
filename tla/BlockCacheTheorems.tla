------------------------- MODULE BlockCacheTheorems -------------------------
(***************************************************************************)
(* Proofs about BlockCache, for every tree of blocks, every number of      *)
(* processes that share the storage, and every depth.                      *)
(***************************************************************************)
EXTENDS BlockCache, BlocksTheorems, FiniteSetTheorems

(* A chain has at most one block for each height of a range. *)
LEMMA SliceBounded ==
    ASSUME NEW b \in Block, NEW start \in Nat, NEW count \in Nat
    PROVE  /\ IsFiniteSet(Slice(b, start, count))
           /\ Cardinality(Slice(b, start, count)) \in Nat
           /\ Cardinality(Slice(b, start, count)) =< count
  <1> DEFINE S == Slice(b, start, count)
             T == start .. start + count - 1
             f == [c \in S |-> Height[c]]
  <1>1. S \subseteq Anc[b] /\ S \subseteq Block
    BY AncType DEF Slice
  <1>2. \A c \in S : Height[c] \in T
    BY <1>1, HeightType DEF Slice
  <1>3. f \in [S -> T]
    BY <1>2
  <1>4. \A c, d \in S : f[c] = f[d] => c = d
    BY <1>1, AncSameHeight
  <1>5. f \in Injection(S, T)
    BY <1>3, <1>4 DEF Injection, IsInjective
  <1>6. IsFiniteSet(T) /\ Cardinality(T) = count
    <2>1. start \in Int /\ start + count - 1 \in Int
      OBVIOUS
    <2>2. /\ IsFiniteSet(T)
          /\ Cardinality(T) = IF start > start + count - 1 THEN 0
                              ELSE (start + count - 1) - start + 1
      BY <2>1, FS_Interval
    <2> QED BY <2>2
  <1> HIDE DEF S, T, f
  <1>7. IsFiniteSet(S) /\ Cardinality(S) =< Cardinality(T)
    BY <1>5, <1>6, FS_Injection
  <1>8. Cardinality(S) \in Nat
    BY <1>7, FS_CardinalityType
  <1> QED BY <1>6, <1>7, <1>8 DEF S

(* Blocks of a chain that are as many as a range has heights are all of it. *)
LEMMA FullRange ==
    ASSUME NEW b \in Block, NEW start \in Nat, NEW count \in Nat,
           NEW R \in SUBSET Slice(b, start, count), Cardinality(R) = count
    PROVE  R = Slice(b, start, count)
  <1>1. /\ IsFiniteSet(Slice(b, start, count))
        /\ Cardinality(Slice(b, start, count)) \in Nat
        /\ Cardinality(Slice(b, start, count)) =< count
    BY SliceBounded
  <1>2. /\ Cardinality(R) =< Cardinality(Slice(b, start, count))
        /\ Cardinality(Slice(b, start, count)) = Cardinality(R)
              => Slice(b, start, count) = R
    BY <1>1, FS_Subset
  <1>3. Cardinality(Slice(b, start, count)) = Cardinality(R)
    BY <1>1, <1>2
  <1> QED BY <1>2, <1>3

LEMMA InitInv ==
    ASSUME Init
    PROVE  Inv
  <1>1. baseTip \in Block /\ Height[baseTip] = 0 /\ baseHighest = 0
    BY DEF Init
  <1>2. TypeOK
    BY <1>1 DEF Init, TypeOK
  <1>3. /\ StoredIsFinal /\ Transparent /\ fetched = {}
        /\ \A p \in Process : lastTipHeight[p] =< baseHighest
    BY DEF Init, StoredIsFinal, Transparent
  <1> QED BY <1>1, <1>2, <1>3, BlockCacheAssumption DEF Inv

(* The underlying chain moves: what is final stays it. *)
LEMMA BaseMoveInv ==
    ASSUME Inv, NEW b \in Block, BaseMove(b)
    PROVE  Inv'
  <1>0. /\ baseTip \in Block /\ baseHighest \in Nat /\ ReorgDepth \in Nat
        /\ Height[baseTip] \in Nat /\ Height[b] \in Nat /\ store \subseteq Block
        /\ lastTipHeight \in [Process -> Nat]
        /\ Height[baseTip] =< baseHighest
        /\ baseHighest =< Height[baseTip] + ReorgDepth
        /\ \A p \in Process : lastTipHeight[p] =< baseHighest
    BY HeightType, BlockCacheAssumption DEF Inv, TypeOK
  <1>1. /\ baseTip' = b /\ lastTipHeight' = lastTipHeight
        /\ store' = store /\ fetched' = fetched /\ answer' = answer
        /\ baseHighest' = IF Height[b] > baseHighest THEN Height[b] ELSE baseHighest
        /\ \A c \in Anc[baseTip] : Height[c] + ReorgDepth =< baseHighest => c \in Anc[b]
    BY DEF BaseMove
  <1>2. baseHighest' \in Nat /\ baseHighest =< baseHighest' /\ Height[b] =< baseHighest'
    BY <1>0, <1>1
  <1>3. TypeOK'
    BY <1>1, <1>2 DEF Inv, TypeOK
  <1>4. ASSUME NEW c \in Block, IsFinal(c)
        PROVE  IsFinal(c)'
    <2>1. c \in Anc[baseTip] /\ Height[c] + ReorgDepth =< baseHighest /\ Height[c] \in Nat
      BY <1>4, HeightType DEF IsFinal
    <2>2. c \in Anc[b] /\ Height[c] + ReorgDepth =< baseHighest'
      BY <1>0, <1>1, <1>2, <2>1
    <2> QED BY <1>1, <2>2 DEF IsFinal
  <1>5. StoredIsFinal'
    BY <1>0, <1>1, <1>4 DEF Inv, StoredIsFinal
  <1>6. \A blocks \in fetched' : \A c \in blocks : IsFinal(c)'
    BY <1>1, <1>4 DEF Inv, TypeOK
  <1>7. \A p \in Process : lastTipHeight'[p] =< baseHighest'
    BY <1>0, <1>1, <1>2
  <1>8. baseHighest' =< Height[b] + ReorgDepth
    <2>1. CASE baseHighest < ReorgDepth
      BY <1>0, <1>1, <2>1
    <2>2. CASE baseHighest >= ReorgDepth
      <3>1. baseHighest - ReorgDepth \in Nat /\ baseHighest - ReorgDepth =< Height[baseTip]
        BY <1>0, <2>2
      <3>2. PICK c \in Anc[baseTip] : Height[c] = baseHighest - ReorgDepth
        BY <1>0, <3>1, AncAtHeight
      <3>3. Height[c] + ReorgDepth =< baseHighest
        BY <1>0, <3>2
      <3>4. c \in Anc[b]
        BY <1>1, <3>3
      <3>5. Height[c] =< Height[b]
        BY <1>0, <3>4, AncHeight, AncType, HeightType
      <3> QED BY <1>0, <1>1, <3>2, <3>5
    <2> QED BY <1>0, <2>1, <2>2
  <1>9. Transparent'
    BY <1>1 DEF Inv, Transparent
  <1> QED BY <1>1, <1>2, <1>3, <1>5, <1>6, <1>7, <1>8, <1>9 DEF Inv

(* A range that is not close to the tip, for what a process knows, is      *)
(* answered in full, and with final blocks.                                *)
LEMMA DeepAnswer ==
    ASSUME Inv, NEW p \in Process, NEW s \in Nat, NEW n \in Nat, ~ CloseToTip(p, s, n)
    PROVE  /\ BaseAnswers(p, s, n) = {Slice(baseTip, s, n)}
           /\ \A c \in Slice(baseTip, s, n) : c \in Block /\ IsFinal(c)
  <1>0. /\ baseTip \in Block /\ baseHighest \in Nat /\ MinDepth \in Nat
        /\ ReorgDepth \in Nat /\ ReorgDepth =< MinDepth
        /\ lastTipHeight[p] \in Nat /\ lastTipHeight[p] =< baseHighest
    BY BlockCacheAssumption DEF Inv, TypeOK
  <1>1. s + n + MinDepth =< lastTipHeight[p] + 1
    BY <1>0 DEF CloseToTip
  <1>2. \A k \in 0 .. n : k = n \/ s + k + ReorgDepth > lastTipHeight[p] <=> k = n
    BY <1>0, <1>1
  <1>3. BaseAnswers(p, s, n) = {Slice(baseTip, s, n)}
    BY <1>2 DEF BaseAnswers
  <1>4. ASSUME NEW c \in Slice(baseTip, s, n)
        PROVE  c \in Block /\ IsFinal(c)
    <2>1. c \in Anc[baseTip] /\ c \in Block /\ Height[c] \in Nat /\ Height[c] < s + n
      BY <1>0, AncType, HeightType DEF Slice
    <2> QED BY <1>0, <1>1, <2>1 DEF IsFinal
  <1> QED BY <1>3, <1>4

(* Every operation of the cache preserves the invariant. *)
LEMMA NextInv ==
    ASSUME Inv, [Next]_vars
    PROVE  Inv'
  <1>0. /\ baseTip \in Block /\ baseHighest \in Nat /\ MinDepth \in Nat
        /\ ReorgDepth \in Nat /\ ReorgDepth =< MinDepth
        /\ Height[baseTip] \in Nat /\ store \subseteq Block
        /\ lastTipHeight \in [Process -> Nat]
        /\ Height[baseTip] =< baseHighest
        /\ \A p \in Process : lastTipHeight[p] =< baseHighest
        /\ Starts \subseteq Nat /\ \A n \in 0 .. MaxCount : n \in Nat
    BY HeightType, BlockCacheAssumption DEF Inv, TypeOK, Starts
  <1>1. ASSUME NEW b \in Block, BaseMove(b)
        PROVE  Inv'
    BY <1>1, BaseMoveInv
  <1>2. ASSUME NEW p \in Process, LearnTipHeight(p)
        PROVE  Inv'
    BY <1>0, <1>2 DEF Inv, TypeOK, StoredIsFinal, IsFinal, Transparent, LearnTipHeight
  <1>3. ASSUME NEW p \in Process, NEW s \in Starts, NEW n \in 0 .. MaxCount,
               GetUncached(p, s, n)
        PROVE  Inv'
    <2>1. answer' = TRUE
      BY <1>3 DEF GetUncached, Answer
    <2> QED BY <1>3, <2>1 DEF Inv, TypeOK, StoredIsFinal, IsFinal, Transparent, GetUncached
  <1>4. ASSUME NEW p \in Process, NEW s \in Starts, NEW n \in 0 .. MaxCount,
               GetCached(p, s, n)
        PROVE  Inv'
    <2>1. GetRange(s, n) \subseteq Slice(baseTip, s, n)
      BY DEF Inv, StoredIsFinal, IsFinal, GetRange, Slice
    <2>2. GetRange(s, n) = Slice(baseTip, s, n)
      BY <1>0, <1>4, <2>1, FullRange DEF GetCached
    <2>3. GetRange(s, n) \in BaseAnswers(p, s, n)
      BY <1>0, <1>4, <2>2, DeepAnswer DEF GetCached
    <2>4. answer' = TRUE
      BY <1>4, <2>3 DEF GetCached, Answer
    <2> QED BY <1>4, <2>4 DEF Inv, TypeOK, StoredIsFinal, IsFinal, Transparent, GetCached
  <1>5. ASSUME NEW p \in Process, NEW s \in Starts, NEW n \in 0 .. MaxCount,
               AskBase(p, s, n)
        PROVE  Inv'
    <2>1. BaseAnswers(p, s, n) = {Slice(baseTip, s, n)}
          /\ \A c \in Slice(baseTip, s, n) : c \in Block /\ IsFinal(c)
      BY <1>0, <1>5, DeepAnswer DEF AskBase
    <2>2. /\ fetched' = fetched \cup {Slice(baseTip, s, n)} /\ answer' = TRUE
          /\ UNCHANGED <<baseTip, baseHighest, lastTipHeight, store>>
      BY <1>5, <2>1 DEF AskBase, Answer
    <2>3. fetched' \subseteq SUBSET Block
      BY <2>1, <2>2 DEF Inv, TypeOK
    <2>4. \A blocks \in fetched' : \A c \in blocks : IsFinal(c)'
      BY <2>1, <2>2 DEF Inv, IsFinal
    <2> QED BY <2>2, <2>3, <2>4 DEF Inv, TypeOK, StoredIsFinal, IsFinal, Transparent
  <1>6. ASSUME NEW blocks \in fetched, StoreFetched(blocks)
        PROVE  Inv'
    <2>1. /\ fetched' = fetched \ {blocks}
          /\ \A c \in store' : c \in blocks \/ c \in store
          /\ UNCHANGED <<baseTip, baseHighest, lastTipHeight, answer>>
      BY <1>6 DEF StoreFetched, Store
    <2>2. \A c \in blocks : c \in Block /\ IsFinal(c)
      BY DEF Inv, TypeOK
    <2>3. store' \subseteq Block /\ StoredIsFinal'
      BY <1>0, <2>1, <2>2 DEF Inv, StoredIsFinal, IsFinal
    <2> QED BY <2>1, <2>3 DEF Inv, TypeOK, IsFinal, Transparent
  <1>7. ASSUME NEW p \in Process, Restart(p)
        PROVE  Inv'
    BY <1>0, <1>7 DEF Inv, TypeOK, StoredIsFinal, IsFinal, Transparent, Restart
  <1>8. CASE UNCHANGED vars
    BY <1>8 DEF vars, Inv, TypeOK, StoredIsFinal, IsFinal, Transparent
  <1> QED BY <1>1, <1>2, <1>3, <1>4, <1>5, <1>6, <1>7, <1>8 DEF Next

-----------------------------------------------------------------------------
(* The inductive invariant holds of every behaviour of the cache. *)
THEOREM Invariance == Spec => []Inv
  <1>1. Init => Inv
    BY InitInv
  <1>2. Inv /\ [Next]_vars => Inv'
    BY NextInv
  <1> QED BY <1>1, <1>2, PTL DEF Spec

(***************************************************************************)
(* A block that any of the processes puts into the storage of the cache    *)
(* stays on the main chain for ever, however late it is stored.            *)
(***************************************************************************)
THEOREM StoredStaysFinal == Spec => []StoredIsFinal
  <1>1. Inv => StoredIsFinal
    BY DEF Inv
  <1> QED BY <1>1, Invariance, PTL

(***************************************************************************)
(* BlockCacheChain::GetBlockRange returns what the underlying chain may    *)
(* have returned.                                                          *)
(***************************************************************************)
THEOREM CacheTransparent == Spec => []Transparent
  <1>1. Inv => Transparent
    BY DEF Inv
  <1> QED BY <1>1, Invariance, PTL
=============================================================================
