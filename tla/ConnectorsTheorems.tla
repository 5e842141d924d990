------------------------- MODULE ConnectorsTheorems -------------------------
(***************************************************************************)
(* Proofs about Connectors, for every tree of blocks, every set of calls   *)
(* and every depth: no CHECK fails, and both connectors implement          *)
(* BaseChain.                                                              *)
(***************************************************************************)
EXTENDS Connectors, BlocksTheorems, SequenceTheorems

(* The block of a main chain at a height. *)
LEMMA MainAtHeight ==
    ASSUME NEW t \in Block, NEW h \in Nat, h =< Height[t]
    PROVE  /\ MainAt(t, h) \in Anc[t]
           /\ MainAt(t, h) \in Block
           /\ Height[MainAt(t, h)] = h
<1>1. \E c \in Anc[t] : Height[c] = h
  BY AncAtHeight
<1> QED  BY <1>1, AncType DEF MainAt

LEMMA MainAtUnique ==
    ASSUME NEW t \in Block, NEW b \in Anc[t]
    PROVE  /\ b \in Block
           /\ Height[b] \in Nat
           /\ Height[b] =< Height[t]
           /\ MainAt(t, Height[b]) = b
<1>1. b \in Block /\ Height[b] \in Nat /\ Height[t] \in Nat
  BY AncType, HeightType
<1>2. Height[b] =< Height[t]
  BY <1>1, AncHeight
<1>3. MainAt(t, Height[b]) \in Anc[t] /\ Height[MainAt(t, Height[b])] = Height[b]
  BY <1>1, <1>2, MainAtHeight
<1> QED  BY <1>1, <1>2, <1>3, AncSameHeight

-----------------------------------------------------------------------------
(* The calls. *)
LEMMA RangeCalls ==
    ASSUME NEW c \in Calls \cup {NoCall}, IsRange(c)
    PROVE  c \in Calls /\ c.start \in Nat /\ c.count \in Nat /\ RangeEnd(c) \in Int
<1>1. c \in RangeCall \cup HeightCall
  BY BaseChainAssumption DEF IsRange
<1>2. c \notin HeightCall
  BY DEF IsRange, HeightCall
<1> QED  BY <1>1, <1>2 DEF RangeCall, RangeEnd, IsRange

LEMMA HeightCalls ==
    ASSUME NEW c \in Calls, ~ IsRange(c)
    PROVE  c.hash \in Block
<1>1. c \in RangeCall \cup HeightCall /\ c # NoCall
  BY BaseChainAssumption
<1>2. c \notin RangeCall
  BY <1>1 DEF IsRange, RangeCall
<1> QED  BY <1>1, <1>2 DEF HeightCall

-----------------------------------------------------------------------------
(* A slice of a main chain is the sequence of its blocks. *)
LEMMA SliceType ==
    ASSUME NEW t \in Block, NEW c \in Calls, IsRange(c),
           c.start =< Smaller(Height[t], RangeEnd(c)) + 1
    PROVE  /\ Slice(t, c) \in Seq(BlockDatas)
           /\ Len(Slice(t, c)) = Smaller(Height[t], RangeEnd(c)) + 1 - c.start
           /\ \A i \in 1 .. Len(Slice(t, c)) :
                 Slice(t, c)[i] = BlockOf(MainAt(t, c.start + i - 1))
<1> DEFINE n == Smaller(Height[t], RangeEnd(c)) + 1 - c.start
<1>1. c.start \in Nat /\ RangeEnd(c) \in Int /\ Height[t] \in Nat
  BY RangeCalls, HeightType
<1>2. n \in Nat /\ c.start + n - 1 =< Height[t]
  BY <1>1 DEF Smaller
<1>3. ASSUME NEW i \in 1 .. n PROVE BlockOf(MainAt(t, c.start + i - 1)) \in BlockDatas
  <2>1. c.start + i - 1 \in Nat /\ c.start + i - 1 =< Height[t]
    BY <1>1, <1>2, <1>3
  <2>2. MainAt(t, c.start + i - 1) \in Block
    BY <2>1, MainAtHeight
  <2> QED  BY <2>2 DEF BlockOf, BlockDatas
<1>4. Slice(t, c) = [i \in 1 .. n |-> BlockOf(MainAt(t, c.start + i - 1))]
  BY DEF Slice
<1> HIDE DEF n
<1>5. Slice(t, c) \in [1 .. n -> BlockDatas]
  BY <1>3, <1>4
<1>6. Slice(t, c) \in Seq(BlockDatas) /\ Len(Slice(t, c)) = n
  BY <1>2, <1>5, SeqDef, LenProperties
<1> QED  BY <1>4, <1>6 DEF n

LEMMA SliceEmpty ==
    ASSUME NEW t \in Block, NEW c \in Calls, IsRange(c),
           Smaller(Height[t], RangeEnd(c)) < c.start
    PROVE  Slice(t, c) = <<>>
<1>1. c.start \in Nat /\ RangeEnd(c) \in Int /\ Height[t] \in Nat
  BY RangeCalls, HeightType
<1>2. 1 .. Smaller(Height[t], RangeEnd(c)) + 1 - c.start = {}
  BY <1>1 DEF Smaller
<1> QED  BY <1>2 DEF Slice

(***************************************************************************)
(* A sequence of blocks with all their moves, from the start of a range on *)
(* one main chain, is an answer if it is as long as the slice of another.  *)
(***************************************************************************)
LEMMA SliceUpTo ==
    ASSUME NEW c \in Calls, IsRange(c), NEW t \in Block, NEW n \in Nat,
           NEW s \in Seq(BlockDatas), n = Len(s),
           c.start + n - 1 =< RangeEnd(c),
           \A i \in 1 .. n : /\ s[i].hash \in Anc[t]
                             /\ Height[s[i].hash] = c.start + i - 1
                             /\ s[i].moves = Moves[s[i].hash],
           n > 0
    PROVE  /\ Slice(t, c) \in Seq(BlockDatas)
           /\ n =< Len(Slice(t, c))
           /\ s = SubSeq(Slice(t, c), 1, n)
<1>1. c.start \in Nat /\ RangeEnd(c) \in Int /\ Height[t] \in Nat
  BY RangeCalls, HeightType
<1>2. c.start + n - 1 =< Height[t]
  <2>1. s[n].hash \in Anc[t] /\ Height[s[n].hash] = c.start + n - 1
    OBVIOUS
  <2> QED  BY <2>1, MainAtUnique
<1>3. n =< Smaller(Height[t], RangeEnd(c)) + 1 - c.start
  BY <1>1, <1>2 DEF Smaller
<1>4. /\ Slice(t, c) \in Seq(BlockDatas)
      /\ Len(Slice(t, c)) = Smaller(Height[t], RangeEnd(c)) + 1 - c.start
      /\ \A i \in 1 .. Len(Slice(t, c)) :
            Slice(t, c)[i] = BlockOf(MainAt(t, c.start + i - 1))
  <2>1. c.start =< Smaller(Height[t], RangeEnd(c)) + 1
    BY <1>1, <1>3 DEF Smaller
  <2> QED  BY <2>1, SliceType
<1>5. n =< Len(Slice(t, c)) /\ Len(Slice(t, c)) \in Nat
  BY <1>3, <1>4, LenProperties
<1>6. ASSUME NEW i \in 1 .. n PROVE s[i] = Slice(t, c)[i]
  <2>1. MainAt(t, c.start + i - 1) = s[i].hash
    BY <1>6, MainAtUnique
  <2>2. s[i] \in BlockDatas
    BY <1>6, LenProperties
  <2>3. s[i] = BlockOf(s[i].hash)
    BY <1>6, <2>2 DEF BlockDatas, BlockOf
  <2>4. Slice(t, c)[i] = BlockOf(MainAt(t, c.start + i - 1))
    BY <1>4, <1>5, <1>6
  <2> QED  BY <2>1, <2>3, <2>4
<1> DEFINE r == SubSeq(Slice(t, c), 1, n)
<1>7. r \in Seq(BlockDatas) /\ Len(r) = n /\ \A i \in 1 .. n : r[i] = Slice(t, c)[i]
  BY <1>4, <1>5, SubSeqProperties
<1> HIDE DEF r
<1>8. s = r
  BY <1>6, <1>7, SeqEqual
<1> QED  BY <1>4, <1>5, <1>8 DEF r

LEMMA RangeAnswered ==
    ASSUME NEW c \in Calls, IsRange(c), during \subseteq Block,
           NEW t \in during, NEW u \in during, NEW s,
           Slice(u, c) \in Seq(BlockDatas), Slice(t, c) \in Seq(BlockDatas),
           Len(Slice(u, c)) =< Len(Slice(t, c)),
           s = SubSeq(Slice(t, c), 1, Len(Slice(u, c)))
    PROVE  s \in Answers(c)
<1>1. <<t, u>> \in {q \in during \X during : Len(Slice(q[2], c)) =< Len(Slice(q[1], c))}
  OBVIOUS
<1>2. s \in RangeAnswers(c)
  BY <1>1 DEF RangeAnswers
<1> QED  BY <1>2 DEF Answers

(* No blocks are an answer where the main chain has none of the range. *)
LEMMA NothingAnswered ==
    ASSUME NEW c \in Calls, IsRange(c), during \subseteq Block, NEW t \in during,
           Smaller(Height[t], RangeEnd(c)) < c.start
    PROVE  <<>> \in Answers(c)
<1>1. Slice(t, c) = <<>>
  BY SliceEmpty
<1>2. <<>> \in Seq(BlockDatas) /\ Len(<<>>) = 0 /\ SubSeq(<<>>, 1, 0) = <<>>
  BY EmptySeq
<1>3. /\ Slice(t, c) \in Seq(BlockDatas)
      /\ Len(Slice(t, c)) =< Len(Slice(t, c))
      /\ <<>> = SubSeq(Slice(t, c), 1, Len(Slice(t, c)))
  BY <1>1, <1>2
<1> QED  BY <1>3, RangeAnswered

-----------------------------------------------------------------------------
(* The node: what was final stays final. *)
LEMMA FinalType ==
    ASSUME TypeOK, NodeInv
    PROVE  /\ FinalHeight \in Nat
           /\ FinalBlock \in Anc[tip] /\ FinalBlock \in Block
           /\ Height[FinalBlock] = FinalHeight
<1>1. FinalHeight \in Nat
  BY BaseChainAssumption DEF TypeOK, FinalHeight, Larger
<1> QED  BY <1>1, MainAtHeight DEF TypeOK, NodeInv, FinalBlock

LEMMA NodeMovesOn ==
    ASSUME TypeOK, NodeInv, NEW b \in Block, NodeMoves(b)
    PROVE  /\ FinalHeight' =< Height[b] /\ Height[b] =< highest'
           /\ highest' \in Nat /\ highest =< highest'
           /\ Anc[FinalBlock] \subseteq Anc[FinalBlock']
<1> DEFINE f == FinalBlock
           h == Larger(0, highest' - MaxReorgDepth)
           g == MainAt(b, h)
<1>1. /\ Height[b] \in Nat /\ highest \in Nat /\ MaxReorgDepth \in Nat
      /\ tip' = b /\ highest' = Larger(highest, Height[b])
      /\ f \in Anc[b]
  BY HeightType, BaseChainAssumption DEF TypeOK, NodeMoves
<1>2. highest' \in Nat /\ highest =< highest' /\ Height[b] =< highest'
  BY <1>1 DEF Larger
<1>3. FinalHeight \in Nat /\ f \in Block /\ Height[f] = FinalHeight
  BY FinalType
<1>4. Height[f] =< Height[b]
  BY <1>1, MainAtUnique
<1>5. h \in Nat /\ h =< Height[b] /\ FinalHeight =< h
  BY <1>1, <1>2, <1>3, <1>4 DEF FinalHeight, Larger
<1>6. FinalHeight' = h /\ FinalBlock' = g
  BY <1>1 DEF FinalHeight, FinalBlock
<1>7. g \in Anc[b] /\ g \in Block /\ Height[g] = h
  BY <1>5, MainAtHeight
<1>8. f \in Anc[g]
  BY <1>1, <1>3, <1>5, <1>7, AncLinear
<1>9. Anc[f] \subseteq Anc[g]
  BY <1>7, <1>8, AncTransitive
<1> QED  BY <1>2, <1>5, <1>6, <1>9

(* What a main chain has up to the final height is final. *)
LEMMA BelowFinal ==
    ASSUME TypeOK, NodeInv, NEW b \in Anc[tip], Height[b] =< FinalHeight
    PROVE  b \in Anc[FinalBlock]
BY FinalType, AncLinear DEF TypeOK

-----------------------------------------------------------------------------
LEMMA InitInv ==
    ASSUME ConnectorsInit
    PROVE  Inv
<1>1. tip \in Block /\ Height[tip] = 0 /\ highest = 0
  BY DEF ConnectorsInit, Init
<1>2. <<>> \in Seq(BlockDatas)
  BY EmptySeq
<1>3. TypeOK
  BY <1>1, <1>2 DEF TypeOK, ConnectorsInit, Init, EthInit, CoreInit
<1>4. NodeInv
  BY <1>1, BaseChainAssumption DEF NodeInv, FinalHeight, Larger, ConnectorsInit, Init
<1>5. CallInv /\ EthBlocksInv /\ EthBuriedInv /\ CoreWalkInv
  BY DEF ConnectorsInit, Init, EthInit, CoreInit, CallInv, EthBlocksInv, EthBuriedInv,
         CoreWalkInv
<1> QED  BY <1>3, <1>4, <1>5 DEF Inv

(* The node moves while a call is answered. *)
LEMMA NodeMovesInv ==
    ASSUME Inv, NEW b \in Block, NodeMoves(b), UNCHANGED <<ethVars, coreVars>>
    PROVE  Inv'
<1> USE DEF Inv
<1>1. /\ tip' = b /\ call' = call /\ answer' = answer /\ faults' = faults
      /\ during' = IF call = NoCall THEN {} ELSE during \cup {b}
  BY DEF NodeMoves
<1>2. /\ ethPc' = ethPc /\ ethTipHeight' = ethTipHeight /\ ethBlocks' = ethBlocks
      /\ ethLogs' = ethLogs
      /\ corePc' = corePc /\ endHash' = endHash /\ coreBlocks' = coreBlocks
  BY DEF ethVars, coreVars
<1>3. /\ FinalHeight' =< Height[b] /\ Height[b] =< highest'
      /\ highest' \in Nat /\ highest =< highest'
      /\ Anc[FinalBlock] \subseteq Anc[FinalBlock']
  BY NodeMovesOn
<1>4. TypeOK'
  BY <1>1, <1>2, <1>3 DEF TypeOK
<1>5. NodeInv'
  BY <1>1, <1>3 DEF NodeInv
<1>6. CallInv'
  BY <1>1, <1>2 DEF CallInv, IsRange
<1>7. EthEnd' = EthEnd /\ NextHeight' = NextHeight /\ Buried' = Buried
  BY <1>1, <1>2 DEF EthEnd, NextHeight, Buried, RangeEnd
<1>8. call # NoCall => during \subseteq during'
  BY <1>1
<1>9. EthBlocksInv'
  <2> SUFFICES ASSUME ethPc \in {"blocks", "logs", "range"}
               PROVE  EthBlocksInv'
    BY <1>2 DEF EthBlocksInv
  <2>1. during \subseteq during'
    BY <1>8 DEF CallInv
  <2>2. PICK t \in during : EthBlocksOf(t)
    BY DEF EthBlocksInv
  <2>3. t \in during' /\ EthBlocksOf(t)'
    BY <1>1, <1>2, <2>1, <2>2 DEF EthBlocksOf
  <2>4. \E u \in during' : Height[u] = ethTipHeight'
    BY <1>2, <2>1 DEF EthBlocksInv
  <2> QED  BY <1>1, <1>2, <1>7, <2>3, <2>4 DEF EthBlocksInv
<1>10. EthBuriedInv'
  BY <1>2, <1>3, <1>7 DEF EthBuriedInv, TypeOK
<1>11. CoreWalkInv'
  <2>1. CASE corePc # "walk"
    BY <1>2, <2>1 DEF CoreWalkInv
  <2>2. CASE corePc = "walk"
    <3>1. during \subseteq during'
      BY <1>8, <2>2 DEF CallInv
    <3>2. PICK t \in during : CoreWalkOf(t)
      BY <2>2 DEF CoreWalkInv
    <3>3. t \in during' /\ CoreWalkOf(t)'
      BY <1>1, <1>2, <3>1, <3>2 DEF CoreWalkOf, RangeEnd
    <3> QED  BY <1>1, <1>2, <2>2, <3>3 DEF CoreWalkInv
  <2> QED  BY <2>1, <2>2
<1> QED  BY <1>4, <1>5, <1>6, <1>9, <1>10, <1>11

LEMMA MakeCallInv ==
    ASSUME Inv, NEW c \in Calls, MakeCall(c), UNCHANGED <<ethVars, coreVars>>
    PROVE  Inv'
<1> USE DEF Inv
<1>1. /\ call = NoCall /\ call' = c /\ during' = {tip}
      /\ tip' = tip /\ highest' = highest /\ faults' = faults
  BY DEF MakeCall
<1>2. /\ ethPc' = ethPc /\ ethTipHeight' = ethTipHeight /\ ethBlocks' = ethBlocks
      /\ ethLogs' = ethLogs
      /\ corePc' = corePc /\ endHash' = endHash /\ coreBlocks' = coreBlocks
  BY DEF ethVars, coreVars
<1>3. ethPc = "idle" /\ corePc = "idle"
  BY <1>1 DEF CallInv
<1>4. TypeOK'
  BY <1>1, <1>2 DEF TypeOK
<1>5. NodeInv'
  BY <1>1 DEF NodeInv, FinalHeight
<1>6. CallInv' /\ EthBlocksInv' /\ EthBuriedInv' /\ CoreWalkInv'
  BY <1>2, <1>3 DEF CallInv, EthBlocksInv, EthBuriedInv, CoreWalkInv
<1> QED  BY <1>4, <1>5, <1>6

-----------------------------------------------------------------------------
(* After a call, both connectors have forgotten it. *)
LEMMA CallEnds ==
    ASSUME Inv, call' = NoCall, during' = {}, tip' = tip, highest' = highest,
           faults' \in Nat,
           ethPc' = "idle", ethTipHeight' \in Nat, ethBlocks' \in Seq(BlockDatas),
           ethLogs' \in Nat, corePc' = "idle", endHash' \in Block \cup {NoBlock}, coreBlocks' = <<>>
    PROVE  Inv'
<1>1. <<>> \in Seq(BlockDatas)
  BY EmptySeq
<1>2. TypeOK'
  BY <1>1 DEF Inv, TypeOK
<1>3. NodeInv'
  BY DEF Inv, NodeInv, FinalHeight
<1>4. CallInv' /\ EthBlocksInv' /\ EthBuriedInv' /\ CoreWalkInv'
  BY DEF CallInv, EthBlocksInv, EthBuriedInv, CoreWalkInv
<1> QED  BY <1>2, <1>3, <1>4 DEF Inv

LEMMA EthReturns ==
    ASSUME Inv, corePc = "idle", UNCHANGED coreVars, NEW a, EthReturn(a)
    PROVE  Inv' /\ Return(a)
<1>1. /\ call' = NoCall /\ during' = {} /\ tip' = tip /\ highest' = highest
      /\ faults' = faults /\ Return(a)
      /\ ethPc' = "idle" /\ ethTipHeight' = 0 /\ ethLogs' = 0
      /\ ethBlocks' \in Seq(BlockDatas)
  BY EmptySeq DEF EthReturn, EthIdle, Return
<1>2. corePc' = "idle" /\ endHash' \in Block \cup {NoBlock} /\ coreBlocks' = <<>>
  BY DEF coreVars, Inv, TypeOK, CoreWalkInv
<1>3. faults' \in Nat
  BY <1>1 DEF Inv, TypeOK
<1> QED  BY <1>1, <1>2, <1>3, CallEnds

LEMMA CoreReturns ==
    ASSUME Inv, ethPc = "idle", UNCHANGED ethVars, NEW a, CoreReturn(a)
    PROVE  Inv' /\ Return(a)
<1>1. /\ call' = NoCall /\ during' = {} /\ tip' = tip /\ highest' = highest
      /\ faults' = faults /\ Return(a)
      /\ corePc' = "idle" /\ endHash' = NoBlock /\ coreBlocks' = <<>>
  BY DEF CoreReturn, CoreIdle, Return
<1>2. /\ ethPc' = "idle" /\ ethTipHeight' \in Nat /\ ethLogs' \in Nat
      /\ ethBlocks' \in Seq(BlockDatas)
  BY DEF ethVars, Inv, TypeOK
<1>3. faults' \in Nat
  BY <1>1 DEF Inv, TypeOK
<1> QED  BY <1>1, <1>2, <1>3, CallEnds
-----------------------------------------------------------------------------
(* What a step of a connector comes to for the caller. *)
Answered == UNCHANGED vars \/ \E a \in Answers(call) : Return(a)

(* While nothing is returned, the state of the interface is the same. *)
LEMMA VarsKept ==
    ASSUME Inv, UNCHANGED vars
    PROVE  /\ tip' = tip /\ highest' = highest /\ call' = call /\ during' = during
           /\ faults' = faults
           /\ NodeInv'
           /\ FinalBlock' = FinalBlock
           /\ Answered
<1>1. tip' = tip /\ highest' = highest /\ call' = call /\ during' = during /\ faults' = faults
  BY DEF vars
<1>2. FinalHeight' = FinalHeight
  BY <1>1 DEF FinalHeight
<1>3. FinalBlock' = FinalBlock
  BY <1>1, <1>2 DEF FinalBlock
<1> QED  BY <1>1, <1>2, <1>3 DEF Inv, NodeInv, Answered

(* The call that is being answered. *)
LEMMA CurrentRange ==
    ASSUME Inv, IsRange(call)
    PROVE  /\ call \in Calls /\ call # NoCall
           /\ call.start \in Nat /\ call.count \in Nat
           /\ RangeEnd(call) = call.start + call.count - 1
           /\ tip \in during /\ tip \in Block /\ Height[tip] \in Nat
           /\ during \subseteq Block
<1>1. call # NoCall
  BY DEF IsRange
<1>2. call \in Calls /\ call.start \in Nat /\ call.count \in Nat
  BY RangeCalls DEF Inv, TypeOK
<1> QED  BY <1>1, <1>2, HeightType DEF Inv, TypeOK, NodeInv, RangeEnd

LEMMA TryInv ==
    ASSUME Inv, corePc = "idle", UNCHANGED coreVars, TryBlockRange,
           IsRange(call), call.count > 0
    PROVE  Inv' /\ Answered
<1>1. /\ ethPc' = "tip" /\ ethTipHeight' = 0 /\ ethBlocks' = <<>> /\ ethLogs' = 0
      /\ UNCHANGED vars
      /\ corePc' = corePc /\ endHash' = endHash /\ coreBlocks' = coreBlocks
  BY DEF TryBlockRange, FromTheStart, coreVars
<1>2. /\ tip' = tip /\ highest' = highest /\ call' = call /\ during' = during
      /\ faults' = faults /\ NodeInv' /\ Answered
  BY <1>1, VarsKept
<1>3. TypeOK'
  BY <1>1, <1>2, EmptySeq DEF Inv, TypeOK
<1>4. CallInv'
  BY <1>1, <1>2 DEF CallInv, IsRange
<1>5. EthBlocksInv' /\ EthBuriedInv'
  BY <1>1 DEF EthBlocksInv, EthBuriedInv
<1>6. CoreWalkInv'
  BY <1>1 DEF Inv, CoreWalkInv
<1> QED  BY <1>2, <1>3, <1>4, <1>5, <1>6 DEF Inv

LEMMA EthGetBlockRangeInv ==
    ASSUME Inv, corePc = "idle", UNCHANGED coreVars, EthGetBlockRange
    PROVE  Inv' /\ Answered
<1>1. IsRange(call)
  BY DEF EthGetBlockRange
<1>2. CASE call.count = 0
  <2>1. EthReturn(<<>>)
    BY <1>2 DEF EthGetBlockRange
  <2>2. Smaller(Height[tip], RangeEnd(call)) < call.start
    BY <1>1, <1>2, CurrentRange DEF Smaller
  <2>3. <<>> \in Answers(call)
    BY <1>1, <2>2, CurrentRange, NothingAnswered
  <2> QED  BY <2>1, <2>3, EthReturns DEF Answered
<1>3. CASE call.count # 0
  BY <1>1, <1>3, CurrentRange, TryInv DEF EthGetBlockRange
<1> QED  BY <1>2, <1>3

LEMMA EthBlockNumberInv ==
    ASSUME Inv, corePc = "idle", UNCHANGED coreVars, EthBlockNumber
    PROVE  Inv' /\ Answered
<1>1. ethPc = "tip" /\ IsRange(call) /\ call.count > 0
  BY DEF EthBlockNumber, Inv, CallInv
<1>2. /\ call \in Calls /\ call # NoCall /\ call.start \in Nat /\ call.count \in Nat
      /\ RangeEnd(call) = call.start + call.count - 1
      /\ tip \in during /\ tip \in Block /\ Height[tip] \in Nat /\ during \subseteq Block
  BY <1>1, CurrentRange
<1>3. CASE Smaller(RangeEnd(call), Height[tip]) < call.start
  <2>1. EthReturn(<<>>)
    BY <1>3 DEF EthBlockNumber
  <2>2. Smaller(Height[tip], RangeEnd(call)) < call.start
    BY <1>2, <1>3 DEF Smaller
  <2>3. <<>> \in Answers(call)
    BY <1>1, <1>2, <2>2, NothingAnswered
  <2> QED  BY <2>1, <2>3, EthReturns DEF Answered
<1>4. CASE ~ (Smaller(RangeEnd(call), Height[tip]) < call.start)
  <2>1. /\ ethPc' = "blocks" /\ ethTipHeight' = Height[tip] /\ ethBlocks' = ethBlocks
        /\ ethLogs' = ethLogs /\ UNCHANGED vars
        /\ corePc' = corePc /\ endHash' = endHash /\ coreBlocks' = coreBlocks
    BY <1>4 DEF EthBlockNumber, coreVars
  <2>2. /\ tip' = tip /\ highest' = highest /\ call' = call /\ during' = during
        /\ faults' = faults /\ NodeInv' /\ Answered
    BY <2>1, VarsKept
  <2>3. ethBlocks = <<>> /\ ethLogs = 0
    BY <1>1 DEF Inv, CallInv, EthBlocksInv
  <2>4. TypeOK'
    BY <1>2, <2>1, <2>2 DEF Inv, TypeOK
  <2>5. CallInv'
    BY <1>1, <2>1, <2>2 DEF CallInv, Inv, IsRange
  <2>6. call'.start =< EthEnd' /\ NextHeight' = call.start /\ EthEnd' \in Int
    BY <1>2, <1>4, <2>1, <2>2, <2>3 DEF EthEnd, NextHeight, RangeEnd, Smaller
  <2>7. EthBlocksInv'
    <3>1. EthBlocksOf(tip)'
      BY <2>1, <2>2, <2>3 DEF EthBlocksOf
    <3> QED  BY <1>2, <2>1, <2>2, <2>3, <2>6, <3>1 DEF EthBlocksInv, EthBlocksOf
  <2>8. EthBuriedInv'
    BY <2>1, <2>2, <2>3 DEF EthBuriedInv, Inv, NodeInv
  <2>9. CoreWalkInv'
    BY <2>1 DEF Inv, CoreWalkInv
  <2> QED  BY <2>2, <2>4, <2>5, <2>7, <2>8, <2>9 DEF Inv
<1> QED  BY <1>3, <1>4

(***************************************************************************)
(* A block that fits: its ancestors are the blocks before.  So all are on  *)
(* the chain from which it was got.                                        *)
(***************************************************************************)
LEMMA EthGetBlockByNumberInv ==
    ASSUME Inv, corePc = "idle", UNCHANGED coreVars, EthGetBlockByNumber
    PROVE  Inv' /\ Answered
<1> DEFINE n == Len(ethBlocks)
           b == MainAt(tip, NextHeight)
           blk == ExtractBaseData(b)
<1>1. ethPc = "blocks" /\ IsRange(call) /\ call.count > 0
  BY DEF EthGetBlockByNumber, Inv, CallInv
<1>2. /\ call \in Calls /\ call # NoCall /\ call.start \in Nat /\ call.count \in Nat
      /\ RangeEnd(call) = call.start + call.count - 1
      /\ tip \in during /\ tip \in Block /\ Height[tip] \in Nat /\ during \subseteq Block
  BY <1>1, CurrentRange
<1>3. CASE ~ (Height[tip] >= NextHeight /\ Fits(b))
  BY <1>1, <1>3, TryInv DEF EthGetBlockByNumber
<1>4. CASE Height[tip] >= NextHeight /\ Fits(b)
  <2>1. /\ ethBlocks' = Append(ethBlocks, blk) /\ ethPc' = ethPc
        /\ ethTipHeight' = ethTipHeight /\ ethLogs' = ethLogs /\ UNCHANGED vars
        /\ corePc' = corePc /\ endHash' = endHash /\ coreBlocks' = coreBlocks
    BY <1>4 DEF EthGetBlockByNumber, coreVars
  <2>2. /\ tip' = tip /\ highest' = highest /\ call' = call /\ during' = during
        /\ faults' = faults /\ NodeInv' /\ Answered /\ FinalBlock' = FinalBlock
    BY <2>1, VarsKept
  <2>3. /\ ethBlocks \in Seq(BlockDatas) /\ n \in Nat
        /\ NextHeight = call.start + n /\ NextHeight \in Nat /\ NextHeight =< EthEnd
        /\ EthEnd \in Int /\ ethTipHeight \in Nat /\ ethLogs = 0
    <3>1. ethBlocks \in Seq(BlockDatas) /\ ethTipHeight \in Nat
      BY DEF Inv, TypeOK
    <3>2. n \in Nat
      BY <3>1, LenProperties
    <3>3. NextHeight =< EthEnd /\ ethLogs = 0
      BY <1>1 DEF Inv, EthBlocksInv, EthGetBlockByNumber
    <3>4. EthEnd \in Int
      BY <1>2, <3>1 DEF EthEnd, Smaller
    <3> QED  BY <1>2, <3>1, <3>2, <3>3, <3>4 DEF NextHeight
  <2>4. b \in Anc[tip] /\ b \in Block /\ Height[b] = NextHeight
    BY <1>2, <1>4, <2>3, MainAtHeight
  <2>5. blk \in BlockDatas /\ blk.hash = b /\ blk.moves = <<>>
    BY <2>4 DEF ExtractBaseData, BlockDatas
  <2> HIDE DEF b, blk
  <2>6. /\ ethBlocks' \in Seq(BlockDatas) /\ Len(ethBlocks') = n + 1
        /\ \A i \in 1 .. n : ethBlocks'[i] = ethBlocks[i]
        /\ ethBlocks'[n + 1] = blk
    BY <2>1, <2>3, <2>5, AppendProperties
  <2>7. TypeOK'
    BY <2>1, <2>2, <2>6 DEF Inv, TypeOK
  <2>8. CallInv'
    BY <2>1, <2>2 DEF CallInv, Inv, IsRange
  <2>9. EthEnd' = EthEnd /\ NextHeight' = NextHeight + 1 /\ Buried' = Buried
    <3>1. EthEnd' = EthEnd
      BY <2>1, <2>2 DEF EthEnd, RangeEnd
    <3>2. NextHeight' = call.start + (n + 1)
      BY <2>2, <2>6 DEF NextHeight
    <3>3. NextHeight' = NextHeight + 1
      <4>1. call.start \in Nat /\ n \in Nat /\ NextHeight = call.start + n
        BY <1>2, <2>3
      <4> HIDE DEF n
      <4> QED  BY <3>2, <4>1
    <3>4. Buried' = Buried
      BY <2>1, <3>1 DEF Buried
    <3> QED  BY <3>1, <3>3, <3>4
  <2>10. ASSUME NEW i \in 1 .. n PROVE ethBlocks[i].hash \in Anc[tip]
    <3>1. PICK t \in during : EthBlocksOf(t)
      BY <1>1 DEF Inv, EthBlocksInv
    <3> DEFINE c == ethBlocks[n].hash
               d == ethBlocks[i].hash
    <3>2. /\ n \in 1 .. n /\ t \in Block
          /\ c \in Anc[t] /\ Height[c] = call.start + n - 1
          /\ d \in Anc[t] /\ Height[d] = call.start + i - 1
      <4>1. n \in 1 .. n /\ i \in 1 .. n /\ t \in Block
        BY <1>2, <2>3, <2>10
      <4> QED  BY <3>1, <4>1 DEF EthBlocksOf
    <3> HIDE DEF c, d
    <3>3. d \in Anc[c]
      <4>1. n \in Nat /\ i \in Nat /\ i =< n
        BY <2>3, <2>10
      <4>2. Height[d] =< Height[c]
        BY <1>2, <3>2, <4>1
      <4> QED  BY <3>2, <4>2, AncLinear
    <3>4. ethBlocks # <<>>
      BY <2>3, <3>2
    <3>5. Parent[b] = c
      BY <1>4, <3>4 DEF Fits, c
    <3>6. c \in Block
      BY <3>2, AncType
    <3>7. c \in Anc[tip]
      BY <1>2, <2>4, <3>5, <3>6, AncParent, BlocksAssumption
    <3> QED  BY <1>2, <3>3, <3>7, AncTransitive DEF d
  <2>11. EthBlocksInv'
    <3>1. PICK t \in during : EthBlocksOf(t)
      BY <1>1 DEF Inv, EthBlocksInv
    <3>2. ASSUME NEW i \in 1 .. n + 1
          PROVE  /\ ethBlocks'[i].hash \in Anc[tip]
                 /\ Height[ethBlocks'[i].hash] = call.start + i - 1
                 /\ ethBlocks'[i].moves = <<>>
      <4>1. CASE i = n + 1
        BY <2>3, <2>4, <2>5, <2>6, <4>1
      <4>2. CASE i \in 1 .. n
        <5>1. /\ Height[ethBlocks[i].hash] = call.start + i - 1
              /\ ethBlocks[i].moves = IF i =< ethLogs THEN Moves[ethBlocks[i].hash] ELSE <<>>
          BY <3>1, <4>2 DEF EthBlocksOf
        <5>2. ~ (i =< ethLogs)
          BY <2>3, <4>2
        <5> QED  BY <2>6, <2>10, <4>2, <5>1, <5>2
      <4> QED  BY <2>3, <4>1, <4>2
    <3>3. \A i \in 1 .. n + 1 : ~ (i =< ethLogs)
      BY <2>3
    <3>4. EthBlocksOf(tip)'
      BY <2>1, <2>2, <2>6, <3>2, <3>3 DEF EthBlocksOf
    <3>5. \E t1 \in during' : EthBlocksOf(t1)'
      BY <1>2, <2>2, <3>4 DEF EthBlocksOf
    <3>6. /\ \E u \in during' : Height[u] = ethTipHeight'
          /\ call'.start =< EthEnd'
          /\ NextHeight' =< EthEnd' + 1
          /\ ethLogs' =< Len(ethBlocks')
      BY <1>1, <2>1, <2>2, <2>3, <2>6, <2>9 DEF Inv, EthBlocksInv
    <3> QED  BY <1>1, <2>1, <2>3, <3>5, <3>6 DEF EthBlocksInv
  <2>12. EthBuriedInv'
    <3>1. ethTipHeight' =< highest'
      BY <1>1, <2>1, <2>2 DEF Inv, EthBuriedInv
    <3>2. ASSUME Buried, NEW i \in 1 .. n + 1
          PROVE  ethBlocks'[i].hash \in Anc[FinalBlock]
      <4>1. CASE i = n + 1
        <5>1. NextHeight =< FinalHeight
          BY <1>1, <2>3, <3>2, FastLogsAssumption, BaseChainAssumption
             DEF Buried, FinalHeight, Larger, Inv, TypeOK, EthBuriedInv
        <5> QED  BY <2>4, <2>5, <2>6, <4>1, <5>1, BelowFinal DEF Inv
      <4>2. CASE i \in 1 .. n
        BY <1>1, <2>6, <3>2, <4>2 DEF Inv, EthBuriedInv
      <4> QED  BY <2>3, <4>1, <4>2
    <3> QED  BY <1>1, <2>1, <2>2, <2>6, <2>9, <3>1, <3>2 DEF EthBuriedInv
  <2>13. CoreWalkInv'
    BY <2>1 DEF Inv, CoreWalkInv
  <2> QED  BY <2>2, <2>7, <2>8, <2>11, <2>12, <2>13 DEF Inv
<1> QED  BY <1>3, <1>4

LEMMA EthLogsNextInv ==
    ASSUME Inv, corePc = "idle", UNCHANGED coreVars, EthLogsNext
    PROVE  Inv' /\ Answered
<1>1. /\ ethPc = "blocks" /\ ethPc' = IF Buried THEN "range" ELSE "logs"
      /\ ethTipHeight' = ethTipHeight /\ ethBlocks' = ethBlocks /\ ethLogs' = ethLogs
      /\ NextHeight > EthEnd /\ UNCHANGED vars
      /\ corePc' = corePc /\ endHash' = endHash /\ coreBlocks' = coreBlocks
  BY DEF EthLogsNext, coreVars
<1>2. /\ tip' = tip /\ highest' = highest /\ call' = call /\ during' = during
      /\ faults' = faults /\ NodeInv' /\ Answered /\ FinalBlock' = FinalBlock
  BY <1>1, VarsKept
<1>3. IsRange(call) /\ call.count > 0
  BY <1>1 DEF Inv, CallInv
<1>4. TypeOK'
  BY <1>1, <1>2 DEF Inv, TypeOK
<1>5. CallInv'
  BY <1>1, <1>2, <1>3 DEF CallInv, Inv, IsRange
<1>6. EthEnd' = EthEnd /\ NextHeight' = NextHeight /\ Buried' = Buried
  BY <1>1, <1>2 DEF EthEnd, NextHeight, Buried, RangeEnd
<1>7. NextHeight = EthEnd + 1
  <2>1. NextHeight \in Int /\ EthEnd \in Int
    BY <1>3, CurrentRange, LenProperties DEF NextHeight, EthEnd, Smaller, Inv, TypeOK
  <2> QED  BY <1>1, <2>1 DEF Inv, EthBlocksInv
<1>8. EthBlocksInv'
  <2>1. PICK t \in during : EthBlocksOf(t)
    BY <1>1 DEF Inv, EthBlocksInv
  <2>2. EthBlocksOf(t)'
    BY <1>1, <1>2, <2>1 DEF EthBlocksOf
  <2> QED  BY <1>1, <1>2, <1>6, <1>7, <2>2 DEF Inv, EthBlocksInv
<1>9. EthBuriedInv'
  BY <1>1, <1>2, <1>6 DEF Inv, EthBuriedInv
<1>10. CoreWalkInv'
  BY <1>1 DEF Inv, CoreWalkInv
<1> QED  BY <1>2, <1>4, <1>5, <1>8, <1>9, <1>10 DEF Inv

(* All the blocks of the range, with their moves, are an answer. *)
LEMMA EthAnswers ==
    ASSUME Inv, ethPc \in {"logs", "range"}, NEW s \in Seq(BlockDatas),
           Len(s) = Len(ethBlocks), NEW t \in during,
           \A i \in 1 .. Len(s) : /\ s[i].hash \in Anc[t]
                                  /\ Height[s[i].hash] = call.start + i - 1
                                  /\ s[i].moves = Moves[s[i].hash]
    PROVE  s \in Answers(call)
<1> DEFINE n == Len(s)
<1>1. IsRange(call) /\ call.count > 0
  BY DEF Inv, CallInv
<1>2. /\ call \in Calls /\ call.start \in Nat /\ call.count \in Nat
      /\ RangeEnd(call) = call.start + call.count - 1
      /\ during \subseteq Block /\ t \in Block
  BY <1>1, CurrentRange
<1>3. PICK u \in during : Height[u] = ethTipHeight
  BY DEF Inv, EthBlocksInv
<1>4. /\ n \in Nat /\ ethTipHeight \in Nat /\ u \in Block
      /\ EthEnd = Smaller(RangeEnd(call), ethTipHeight) /\ EthEnd \in Int
      /\ call.start + n = EthEnd + 1 /\ call.start =< EthEnd
  BY <1>2, <1>3, LenProperties DEF Inv, TypeOK, EthBlocksInv, NextHeight, EthEnd, Smaller
<1>5. n > 0 /\ call.start + n - 1 =< RangeEnd(call)
  BY <1>2, <1>4 DEF Smaller
<1>6. /\ Slice(t, call) \in Seq(BlockDatas)
      /\ n =< Len(Slice(t, call))
      /\ s = SubSeq(Slice(t, call), 1, n)
  BY <1>1, <1>2, <1>4, <1>5, SliceUpTo
<1>7. Smaller(Height[u], RangeEnd(call)) = EthEnd
  BY <1>2, <1>3, <1>4 DEF Smaller
<1>8. Slice(u, call) \in Seq(BlockDatas) /\ Len(Slice(u, call)) = n
  <2>1. call.start =< Smaller(Height[u], RangeEnd(call)) + 1
    BY <1>2, <1>4, <1>7
  <2>2. /\ Slice(u, call) \in Seq(BlockDatas)
        /\ Len(Slice(u, call)) = Smaller(Height[u], RangeEnd(call)) + 1 - call.start
    BY <1>1, <1>2, <1>4, <2>1, SliceType
  <2> QED  BY <1>2, <1>4, <1>7, <2>2
<1> QED  BY <1>1, <1>2, <1>6, <1>8, RangeAnswered

LEMMA AddMovesOneByOneInv ==
    ASSUME Inv, corePc = "idle", UNCHANGED coreVars, AddMovesOneByOne
    PROVE  Inv' /\ Answered
<1> DEFINE n == Len(ethBlocks)
           k == ethLogs + 1
<1>1. ethPc = "logs" /\ IsRange(call) /\ call.count > 0 /\ ethLogs < n
  BY DEF AddMovesOneByOne, Inv, CallInv
<1>2. CASE TryBlockRange
  BY <1>1, <1>2, TryInv
<1>3. CASE /\ ethBlocks' = [ethBlocks EXCEPT ![ethLogs + 1] = ProcessLogEntries(@)]
           /\ ethLogs' = ethLogs + 1
           /\ UNCHANGED <<vars, ethPc, ethTipHeight>>
  <2>1. /\ UNCHANGED vars /\ ethPc' = ethPc /\ ethTipHeight' = ethTipHeight
        /\ corePc' = corePc /\ endHash' = endHash /\ coreBlocks' = coreBlocks
    BY <1>3 DEF coreVars
  <2>2. /\ tip' = tip /\ highest' = highest /\ call' = call /\ during' = during
        /\ faults' = faults /\ NodeInv' /\ Answered
    BY <2>1, VarsKept
  <2>3. ethBlocks \in Seq(BlockDatas) /\ n \in Nat /\ ethLogs \in Nat /\ k \in 1 .. n
    BY <1>1 DEF Inv, TypeOK
  <2>4. ethBlocks[k] \in BlockDatas
    BY <2>3, LenProperties
  <2>5. /\ ProcessLogEntries(ethBlocks[k]) \in BlockDatas
        /\ ProcessLogEntries(ethBlocks[k]).hash = ethBlocks[k].hash
        /\ ProcessLogEntries(ethBlocks[k]).moves = Moves[ethBlocks[k].hash]
    BY <2>4 DEF ProcessLogEntries, BlockDatas
  <2>6. /\ ethBlocks' \in Seq(BlockDatas) /\ Len(ethBlocks') = n
        /\ \A i \in 1 .. n :
              ethBlocks'[i] = IF i = k THEN ProcessLogEntries(ethBlocks[k]) ELSE ethBlocks[i]
    BY <1>3, <2>3, <2>5, ExceptSeq
  <2>7. TypeOK'
    BY <1>3, <2>1, <2>2, <2>3, <2>6 DEF Inv, TypeOK
  <2>8. CallInv'
    BY <2>1, <2>2 DEF CallInv, Inv, IsRange
  <2>9. EthEnd' = EthEnd /\ NextHeight' = NextHeight
    BY <2>1, <2>2, <2>6 DEF EthEnd, NextHeight, RangeEnd
  <2>10. EthBlocksInv'
    <3>1. PICK t \in during : EthBlocksOf(t)
      BY <1>1 DEF Inv, EthBlocksInv
    <3>2. ASSUME NEW i \in 1 .. n
          PROVE  /\ ethBlocks'[i].hash \in Anc[t]
                 /\ Height[ethBlocks'[i].hash] = call.start + i - 1
                 /\ ethBlocks'[i].moves = IF i =< k THEN Moves[ethBlocks'[i].hash] ELSE <<>>
      <4>1. /\ ethBlocks[i].hash \in Anc[t]
            /\ Height[ethBlocks[i].hash] = call.start + i - 1
            /\ ethBlocks[i].moves = IF i =< ethLogs THEN Moves[ethBlocks[i].hash] ELSE <<>>
        BY <3>1, <3>2 DEF EthBlocksOf
      <4>2. CASE i = k
        BY <2>3, <2>5, <2>6, <4>1, <4>2
      <4>3. CASE i # k
        <5>1. i =< k <=> i =< ethLogs
          BY <2>3, <4>3
        <5> QED  BY <2>6, <4>1, <4>3, <5>1
      <4> QED  BY <4>2, <4>3
    <3>3. EthBlocksOf(t)'
      BY <1>3, <2>2, <2>6, <3>2 DEF EthBlocksOf
    <3>4. \E t1 \in during' : EthBlocksOf(t1)'
      BY <2>2, <3>3 DEF EthBlocksOf
    <3>5. ethLogs' =< Len(ethBlocks')
      BY <1>3, <2>3, <2>6
    <3> QED  BY <1>1, <2>1, <2>2, <2>9, <3>4, <3>5 DEF Inv, EthBlocksInv
  <2>11. EthBuriedInv'
    BY <1>1, <2>1 DEF EthBuriedInv
  <2>12. CoreWalkInv'
    BY <2>1 DEF Inv, CoreWalkInv
  <2> QED  BY <2>2, <2>7, <2>8, <2>10, <2>11, <2>12 DEF Inv
<1> QED  BY <1>2, <1>3 DEF AddMovesOneByOne

LEMMA EthRangeDoneInv ==
    ASSUME Inv, corePc = "idle", UNCHANGED coreVars, EthRangeDone
    PROVE  Inv' /\ Answered
<1>1. ethPc = "logs" /\ ethLogs = Len(ethBlocks) /\ EthReturn(ethBlocks)
  BY DEF EthRangeDone
<1>2. PICK t \in during : EthBlocksOf(t)
  BY <1>1 DEF Inv, EthBlocksInv
<1>3. ethBlocks \in Seq(BlockDatas)
  BY DEF Inv, TypeOK
<1>4. \A i \in 1 .. Len(ethBlocks) : /\ ethBlocks[i].hash \in Anc[t]
                                     /\ Height[ethBlocks[i].hash] = call.start + i - 1
                                     /\ ethBlocks[i].moves = Moves[ethBlocks[i].hash]
  BY <1>1, <1>2 DEF EthBlocksOf
<1>5. ethBlocks \in Answers(call)
  BY <1>1, <1>3, <1>4, EthAnswers
<1> QED  BY <1>1, <1>5, EthReturns DEF Answered

(***************************************************************************)
(* The fast way: the blocks are final, so they are those for which the     *)
(* node has logs at these heights, whatever it did in the meantime.        *)
(***************************************************************************)
LEMMA AddMovesFromHeightRangeInv ==
    ASSUME Inv, corePc = "idle", UNCHANGED coreVars, AddMovesFromHeightRange
    PROVE  Inv' /\ Answered
<1> DEFINE n == Len(ethBlocks)
           s == [i \in DOMAIN ethBlocks |->
                    IF ethBlocks[i].hash \in Logged
                    THEN ProcessLogEntries(ethBlocks[i]) ELSE ethBlocks[i]]
<1>1. ethPc = "range" /\ IsRange(call) /\ call.count > 0
  BY DEF AddMovesFromHeightRange, Inv, CallInv
<1>2. /\ call.start \in Nat /\ tip \in during /\ tip \in Block /\ during \subseteq Block
      /\ call.count \in Nat /\ RangeEnd(call) = call.start + call.count - 1
  BY <1>1, CurrentRange
<1>3. /\ ethBlocks \in Seq(BlockDatas) /\ n \in Nat /\ DOMAIN ethBlocks = 1 .. n
      /\ ethTipHeight \in Nat /\ EthEnd \in Int /\ ethLogs = 0
      /\ call.start + n = EthEnd + 1
  BY <1>1, <1>2, LenProperties
     DEF Inv, TypeOK, EthBlocksInv, NextHeight, EthEnd, Smaller
<1>4. ASSUME NEW i \in 1 .. n
      PROVE  /\ ethBlocks[i] \in BlockDatas
             /\ ethBlocks[i].hash \in Anc[tip]
             /\ Height[ethBlocks[i].hash] = call.start + i - 1
             /\ ethBlocks[i].moves = <<>>
  <2>1. PICK t \in during : EthBlocksOf(t)
    BY <1>1 DEF Inv, EthBlocksInv
  <2>2. /\ Height[ethBlocks[i].hash] = call.start + i - 1
        /\ ethBlocks[i].moves = IF i =< ethLogs THEN Moves[ethBlocks[i].hash] ELSE <<>>
    BY <1>4, <2>1 DEF EthBlocksOf
  <2>3. ~ (i =< ethLogs)
    BY <1>3, <1>4
  <2>4. ethBlocks[i].hash \in Anc[FinalBlock]
    BY <1>1, <1>4 DEF Inv, EthBuriedInv
  <2>5. Anc[FinalBlock] \subseteq Anc[tip]
    BY <1>2, FinalType, AncTransitive DEF Inv
  <2>6. ethBlocks[i] \in BlockDatas
    BY <1>3, <1>4, LenProperties
  <2> QED  BY <2>2, <2>3, <2>4, <2>5, <2>6
<1>5. Logged \subseteq {ethBlocks[i].hash : i \in DOMAIN ethBlocks}
  <2> SUFFICES ASSUME NEW b \in Logged
               PROVE  \E i \in 1 .. n : b = ethBlocks[i].hash
    BY <1>3
  <2>1. b \in Anc[tip] /\ Height[b] \in call.start .. EthEnd /\ Height[b] \in Nat
    BY <1>2, AncType, HeightType DEF Logged
  <2> DEFINE i == Height[b] - call.start + 1
  <2>2. i \in 1 .. n /\ call.start + i - 1 = Height[b]
    <3>1. call.start \in Nat /\ n \in Nat /\ EthEnd \in Int /\ call.start + n = EthEnd + 1
      BY <1>2, <1>3
    <3> HIDE DEF n
    <3> QED  BY <2>1, <3>1
  <2> HIDE DEF i
  <2>3. b = ethBlocks[i].hash
    BY <1>2, <1>4, <2>1, <2>2, AncSameHeight
  <2> QED  BY <2>2, <2>3
<1>6. EthReturn(s)
  BY <1>5 DEF AddMovesFromHeightRange
<1>7. ASSUME NEW i \in 1 .. n
      PROVE  /\ s[i] \in BlockDatas
             /\ s[i].hash = ethBlocks[i].hash
             /\ s[i].moves = Moves[ethBlocks[i].hash]
  <2>1. s[i] = IF ethBlocks[i].hash \in Logged
               THEN ProcessLogEntries(ethBlocks[i]) ELSE ethBlocks[i]
    BY <1>3, <1>7
  <2>2. /\ ethBlocks[i] \in BlockDatas
        /\ ethBlocks[i].hash \in Anc[tip]
        /\ Height[ethBlocks[i].hash] = call.start + i - 1
        /\ ethBlocks[i].moves = <<>>
    BY <1>4, <1>7
  <2>3. CASE ethBlocks[i].hash \in Logged
    BY <2>1, <2>2, <2>3 DEF ProcessLogEntries, BlockDatas
  <2>4. CASE ethBlocks[i].hash \notin Logged
    <3>1. call.start + i - 1 \in call.start .. EthEnd
      <4>1. call.start \in Nat /\ n \in Nat /\ EthEnd \in Int /\ call.start + n = EthEnd + 1
        BY <1>2, <1>3
      <4>2. i \in 1 .. n
        BY <1>7
      <4> HIDE DEF n
      <4> QED  BY <4>1, <4>2
    <3>2. Moves[ethBlocks[i].hash] = <<>>
      BY <2>2, <2>4, <3>1 DEF Logged
    <3> QED  BY <2>1, <2>2, <2>4, <3>2
  <2> QED  BY <2>3, <2>4
<1>8. s \in Seq(BlockDatas) /\ Len(s) = n
  <2>1. s = [i \in 1 .. n |-> s[i]]
    BY <1>3
  <2> HIDE DEF s
  <2>2. s \in [1 .. n -> BlockDatas]
    BY <1>7, <2>1
  <2> QED  BY <1>3, <2>2, SeqDef, LenProperties
<1> HIDE DEF s
<1>9. \A i \in 1 .. Len(s) : /\ s[i].hash \in Anc[tip]
                             /\ Height[s[i].hash] = call.start + i - 1
                             /\ s[i].moves = Moves[s[i].hash]
  BY <1>4, <1>7, <1>8
<1>10. s \in Answers(call)
  BY <1>1, <1>2, <1>8, <1>9, EthAnswers
<1> QED  BY <1>6, <1>10, EthReturns DEF Answered

-----------------------------------------------------------------------------
(* GetMainchainHeight *)
LEMMA HeightAnswered ==
    ASSUME Inv, call # NoCall, ~ IsRange(call)
    PROVE  /\ call.hash \in Block /\ tip \in Block
           /\ (IF call.hash \in Anc[tip] THEN Height[call.hash] ELSE -1) \in Answers(call)
<1>1. call \in Calls /\ tip \in during /\ tip \in Block
  BY DEF Inv, TypeOK, NodeInv
<1>2. (IF call.hash \in Anc[tip] THEN Height[call.hash] ELSE -1) \in HeightAnswers(call)
  BY <1>1 DEF HeightAnswers
<1> QED  BY <1>1, <1>2, HeightCalls DEF Answers

LEMMA EthGetBlockByHashInv ==
    ASSUME Inv, corePc = "idle", UNCHANGED coreVars, EthGetBlockByHash
    PROVE  Inv' /\ Answered
<1>1. ethPc = "idle" /\ call # NoCall /\ ~ IsRange(call)
  BY DEF EthGetBlockByHash
<1>2. CASE call.hash \notin Anc[tip] /\ EthReturn(-1)
  <2>1. -1 \in Answers(call)
    BY <1>1, <1>2, HeightAnswered
  <2> QED  BY <1>2, <2>1, EthReturns DEF Answered
<1>3. CASE ethPc' = "number" /\ UNCHANGED <<vars, ethTipHeight, ethBlocks, ethLogs>>
  <2>1. /\ UNCHANGED vars /\ ethTipHeight' = ethTipHeight /\ ethBlocks' = ethBlocks
        /\ ethLogs' = ethLogs
        /\ corePc' = corePc /\ endHash' = endHash /\ coreBlocks' = coreBlocks
    BY <1>3 DEF coreVars
  <2>2. /\ tip' = tip /\ highest' = highest /\ call' = call /\ during' = during
        /\ faults' = faults /\ NodeInv' /\ Answered
    BY <2>1, VarsKept
  <2>3. TypeOK'
    BY <1>3, <2>1, <2>2 DEF Inv, TypeOK
  <2>4. CallInv'
    BY <1>1, <1>3, <2>1, <2>2 DEF CallInv, IsRange
  <2>5. EthBlocksInv' /\ EthBuriedInv'
    BY <1>3 DEF EthBlocksInv, EthBuriedInv
  <2>6. CoreWalkInv'
    BY <2>1 DEF Inv, CoreWalkInv
  <2> QED  BY <2>2, <2>3, <2>4, <2>5, <2>6 DEF Inv
<1> QED  BY <1>2, <1>3 DEF EthGetBlockByHash

LEMMA EthCompareBlockInv ==
    ASSUME Inv, corePc = "idle", UNCHANGED coreVars, EthCompareBlock
    PROVE  Inv' /\ Answered
<1> DEFINE a == IF IsMainBlock(call.hash) THEN Height[call.hash] ELSE -1
<1>1. /\ call # NoCall /\ ~ IsRange(call) /\ EthReturn(a)
  BY DEF EthCompareBlock, Inv, CallInv
<1>2. call.hash \in Block /\ tip \in Block
  BY <1>1, HeightAnswered
<1>3. IsMainBlock(call.hash) <=> call.hash \in Anc[tip]
  BY <1>2, HeightType, MainAtHeight, MainAtUnique DEF IsMainBlock
<1>4. a \in Answers(call)
  BY <1>1, <1>3, HeightAnswered
<1> QED  BY <1>1, <1>4, EthReturns DEF Answered

-----------------------------------------------------------------------------
(* CoreChain: steps that only change its own state. *)
LEMMA CoreContinues ==
    ASSUME Inv, ethPc = "idle", UNCHANGED <<vars, ethVars>>,
           IsRange(call), call.count > 0,
           corePc' \in {"info", "hash", "walk"}, endHash' \in Block \cup {NoBlock},
           coreBlocks' \in Seq(BlockDatas), CoreWalkInv'
    PROVE  Inv' /\ Answered
<1>1. /\ UNCHANGED vars /\ ethPc' = ethPc /\ ethTipHeight' = ethTipHeight
      /\ ethBlocks' = ethBlocks /\ ethLogs' = ethLogs
  BY DEF ethVars
<1>2. /\ tip' = tip /\ highest' = highest /\ call' = call /\ during' = during
      /\ faults' = faults /\ NodeInv' /\ Answered
  BY <1>1, VarsKept
<1>3. TypeOK'
  BY <1>1, <1>2 DEF Inv, TypeOK
<1>4. CallInv'
  BY <1>1, <1>2 DEF CallInv, IsRange
<1>5. EthBlocksInv' /\ EthBuriedInv'
  BY <1>1 DEF EthBlocksInv, EthBuriedInv
<1> QED  BY <1>2, <1>3, <1>4, <1>5 DEF Inv

LEMMA CoreGetBlockRangeInv ==
    ASSUME Inv, ethPc = "idle", UNCHANGED ethVars, CoreGetBlockRange
    PROVE  Inv' /\ Answered
<1>1. corePc = "idle" /\ IsRange(call)
  BY DEF CoreGetBlockRange
<1>2. CASE call.count = 0
  <2>1. CoreReturn(<<>>)
    BY <1>2 DEF CoreGetBlockRange
  <2>2. Smaller(Height[tip], RangeEnd(call)) < call.start
    BY <1>1, <1>2, CurrentRange DEF Smaller
  <2>3. <<>> \in Answers(call)
    BY <1>1, <2>2, CurrentRange, NothingAnswered
  <2> QED  BY <2>1, <2>3, CoreReturns DEF Answered
<1>3. CASE call.count # 0
  <2>1. call.count > 0
    BY <1>1, <1>3, CurrentRange
  <2>2. /\ corePc' = "info" /\ endHash' = endHash /\ coreBlocks' = coreBlocks
        /\ UNCHANGED vars
    BY <1>3 DEF CoreGetBlockRange
  <2>3. CoreWalkInv'
    BY <1>1, <2>2 DEF Inv, CoreWalkInv
  <2> QED  BY <1>1, <2>1, <2>2, <2>3, CoreContinues DEF Inv, TypeOK
<1> QED  BY <1>2, <1>3

(* The walk starts at the end of the range on the chain of the node's tip. *)
LEMMA WalkStarts ==
    ASSUME Inv, corePc \in {"info", "hash"}, UNCHANGED vars, coreBlocks' = coreBlocks,
           corePc' = "walk", endHash' \in Anc[tip],
           Height[endHash'] = Smaller(Height[tip], RangeEnd(call)),
           call.start =< Height[endHash']
    PROVE  endHash' \in Block /\ coreBlocks' \in Seq(BlockDatas) /\ CoreWalkInv'
<1>1. IsRange(call)
  BY DEF Inv, CallInv
<1>2. tip \in during /\ tip \in Block
  BY <1>1, CurrentRange
<1>3. coreBlocks' = <<>> /\ <<>> \in Seq(BlockDatas) /\ Len(<<>>) = 0
  BY EmptySeq DEF Inv, CoreWalkInv
<1>4. endHash' \in Block /\ Height[endHash'] \in Nat
  BY <1>2, AncType, HeightType
<1>5. during' = during /\ call' = call /\ tip' = tip
  BY DEF vars
<1>6. CoreWalkOf(tip)'
  BY <1>3, <1>4, <1>5 DEF CoreWalkOf, RangeEnd
<1>7. \E t \in during' : CoreWalkOf(t)'
  BY <1>2, <1>5, <1>6 DEF CoreWalkOf
<1> QED  BY <1>3, <1>4, <1>5, <1>7 DEF CoreWalkInv

LEMMA GetBlockchainInfoInv ==
    ASSUME Inv, ethPc = "idle", UNCHANGED ethVars, GetBlockchainInfo
    PROVE  Inv' /\ Answered
<1>1. corePc = "info" /\ IsRange(call) /\ call.count > 0
  BY DEF GetBlockchainInfo, Inv, CallInv
<1>2. /\ call \in Calls /\ call.start \in Nat /\ call.count \in Nat
      /\ RangeEnd(call) = call.start + call.count - 1
      /\ tip \in during /\ tip \in Block /\ Height[tip] \in Nat /\ during \subseteq Block
  BY <1>1, CurrentRange
<1>3. CASE Height[tip] < call.start /\ CoreReturn(<<>>)
  <2>1. Smaller(Height[tip], RangeEnd(call)) < call.start
    BY <1>2, <1>3 DEF Smaller
  <2>2. <<>> \in Answers(call)
    BY <1>1, <1>2, <2>1, NothingAnswered
  <2> QED  BY <1>3, <2>2, CoreReturns DEF Answered
<1>4. CASE /\ Height[tip] \in call.start .. RangeEnd(call)
           /\ endHash' = tip
           /\ corePc' = "walk"
           /\ UNCHANGED <<vars, coreBlocks>>
  <2>1. endHash' \in Anc[tip] /\ Height[endHash'] = Smaller(Height[tip], RangeEnd(call))
    BY <1>2, <1>4, AncSelf DEF Smaller
  <2>2. endHash' \in Block /\ coreBlocks' \in Seq(BlockDatas) /\ CoreWalkInv'
    BY <1>1, <1>2, <1>4, <2>1, WalkStarts
  <2> QED  BY <1>1, <1>4, <2>2, CoreContinues
<1>5. CASE /\ Height[tip] > RangeEnd(call)
           /\ corePc' = "hash"
           /\ UNCHANGED <<vars, endHash, coreBlocks>>
  <2>1. CoreWalkInv'
    BY <1>1, <1>5 DEF Inv, CoreWalkInv
  <2> QED  BY <1>1, <1>5, <2>1, CoreContinues DEF Inv, TypeOK
<1> QED  BY <1>3, <1>4, <1>5 DEF GetBlockchainInfo

LEMMA GetBlockHashInv ==
    ASSUME Inv, ethPc = "idle", UNCHANGED ethVars, GetBlockHash
    PROVE  Inv' /\ Answered
<1>1. /\ corePc = "hash" /\ IsRange(call) /\ call.count > 0
      /\ UNCHANGED vars /\ coreBlocks' = coreBlocks
  BY DEF GetBlockHash, Inv, CallInv
<1>2. /\ call \in Calls /\ call.start \in Nat /\ call.count \in Nat
      /\ RangeEnd(call) = call.start + call.count - 1
      /\ tip \in during /\ tip \in Block /\ Height[tip] \in Nat /\ during \subseteq Block
  BY <1>1, CurrentRange
<1>3. CASE Height[tip] < RangeEnd(call)
  <2>1. corePc' = "info" /\ endHash' = endHash
    BY <1>3 DEF GetBlockHash
  <2>2. CoreWalkInv'
    BY <1>1, <2>1 DEF Inv, CoreWalkInv
  <2> QED  BY <1>1, <2>1, <2>2, CoreContinues DEF Inv, TypeOK
<1>4. CASE ~ (Height[tip] < RangeEnd(call))
  <2>1. corePc' = "walk" /\ endHash' = MainAt(tip, RangeEnd(call))
    BY <1>4 DEF GetBlockHash
  <2>2. RangeEnd(call) \in Nat /\ RangeEnd(call) =< Height[tip] /\ call.start =< RangeEnd(call)
    BY <1>1, <1>2, <1>4
  <2>3. endHash' \in Anc[tip] /\ Height[endHash'] = RangeEnd(call)
    BY <1>2, <2>1, <2>2, MainAtHeight
  <2>4. Height[endHash'] = Smaller(Height[tip], RangeEnd(call))
    BY <1>2, <2>2, <2>3 DEF Smaller
  <2>5. endHash' \in Block /\ coreBlocks' \in Seq(BlockDatas) /\ CoreWalkInv'
    BY <1>1, <2>1, <2>2, <2>3, <2>4, WalkStarts
  <2> QED  BY <1>1, <2>1, <2>5, CoreContinues
<1> QED  BY <1>3, <1>4

(* The walk goes on with the block it is at. *)
Walked == <<ConstructBlockData(endHash)>> \o coreBlocks

LEMMA WalkedBlocks ==
    ASSUME Inv, corePc = "walk", NEW t \in during, CoreWalkOf(t)
    PROVE  /\ endHash \in Block /\ Height[endHash] \in Nat
           /\ Walked \in Seq(BlockDatas)
           /\ Len(coreBlocks) \in Nat /\ Len(Walked) = Len(coreBlocks) + 1
           /\ \A i \in 1 .. Len(Walked) :
                 /\ Walked[i].hash \in Anc[t]
                 /\ Height[Walked[i].hash] = Height[endHash] + i - 1
                 /\ Walked[i].moves = Moves[Walked[i].hash]
<1> DEFINE n == Len(coreBlocks)
           blk == ConstructBlockData(endHash)
           one == <<blk>>
<1>1. t \in Block /\ coreBlocks \in Seq(BlockDatas) /\ n \in Nat
  BY LenProperties DEF Inv, TypeOK
<1>2. endHash \in Anc[t] /\ endHash \in Block /\ Height[endHash] \in Nat
  BY <1>1, AncType, HeightType DEF CoreWalkOf
<1>3. blk \in BlockDatas /\ blk.hash = endHash /\ blk.moves = Moves[endHash]
  BY <1>2 DEF ConstructBlockData, BlockDatas
<1> HIDE DEF blk
<1>4. one \in Seq(BlockDatas) /\ Len(one) = 1 /\ one[1] = blk
  BY <1>3
<1>5. Walked = one \o coreBlocks
  BY DEF Walked, blk
<1> HIDE DEF one
<1>6. /\ Walked \in Seq(BlockDatas) /\ Len(Walked) = n + 1
      /\ \A i \in 1 .. n + 1 : Walked[i] = IF i =< 1 THEN one[i] ELSE coreBlocks[i - 1]
  <2>1. /\ one \o coreBlocks \in Seq(BlockDatas)
        /\ Len(one \o coreBlocks) = Len(one) + Len(coreBlocks)
        /\ \A i \in 1 .. Len(one) + Len(coreBlocks) :
              (one \o coreBlocks)[i] =
                  IF i =< Len(one) THEN one[i] ELSE coreBlocks[i - Len(one)]
    BY <1>1, <1>4, ConcatProperties
  <2>2. 1 + n = n + 1
    BY <1>1
  <2> QED  BY <1>4, <1>5, <2>1, <2>2
<1>7. ASSUME NEW i \in 1 .. n + 1
      PROVE  /\ Walked[i].hash \in Anc[t]
             /\ Height[Walked[i].hash] = Height[endHash] + i - 1
             /\ Walked[i].moves = Moves[Walked[i].hash]
  <2>1. CASE i = 1
    BY <1>2, <1>3, <1>4, <1>6, <2>1
  <2>2. CASE i # 1
    <3>1. i - 1 \in 1 .. n /\ ~ (i =< 1) /\ i \in Int
      BY <1>1, <1>7, <2>2
    <3>2. Walked[i] = coreBlocks[i - 1]
      BY <1>6, <1>7, <3>1
    <3>3. /\ coreBlocks[i - 1].hash \in Anc[t]
          /\ Height[coreBlocks[i - 1].hash] = Height[endHash] + (i - 1)
          /\ coreBlocks[i - 1].moves = Moves[coreBlocks[i - 1].hash]
      BY <3>1 DEF CoreWalkOf
    <3> QED  BY <1>2, <3>1, <3>2, <3>3
  <2> QED  BY <2>1, <2>2
<1> QED  BY <1>1, <1>2, <1>6, <1>7

(* At the start of the range, all of it has been got. *)
LEMMA WalkedAll ==
    ASSUME Inv, corePc = "walk", NEW t \in during, CoreWalkOf(t),
           Height[endHash] = call.start
    PROVE  Walked = Slice(t, call) /\ Walked \in Answers(call)
<1> DEFINE n == Len(Walked)
<1>1. IsRange(call)
  BY DEF Inv, CallInv
<1>2. /\ call \in Calls /\ call.start \in Nat /\ call.count \in Nat
      /\ RangeEnd(call) = call.start + call.count - 1
      /\ during \subseteq Block /\ t \in Block
  BY <1>1, CurrentRange
<1>3. /\ Walked \in Seq(BlockDatas)
      /\ Len(coreBlocks) \in Nat /\ n = Len(coreBlocks) + 1
      /\ \A i \in 1 .. n :
            /\ Walked[i].hash \in Anc[t]
            /\ Height[Walked[i].hash] = call.start + i - 1
            /\ Walked[i].moves = Moves[Walked[i].hash]
  BY WalkedBlocks
<1>4. call.start + Len(coreBlocks) = Smaller(Height[t], RangeEnd(call))
  BY DEF CoreWalkOf
<1>5. Height[t] \in Nat
  BY <1>2, HeightType
<1>6. n \in Nat /\ n > 0 /\ call.start + n - 1 =< RangeEnd(call)
  <2>1. /\ Len(coreBlocks) \in Nat /\ n = Len(coreBlocks) + 1
        /\ call.start \in Nat /\ RangeEnd(call) \in Int
    BY <1>2, <1>3
  <2> HIDE DEF n
  <2> QED  BY <1>4, <1>5, <2>1 DEF Smaller
<1>7. /\ Slice(t, call) \in Seq(BlockDatas)
      /\ Walked = SubSeq(Slice(t, call), 1, n)
  BY <1>1, <1>2, <1>3, <1>6, SliceUpTo
<1>8. Len(Slice(t, call)) = n
  <2>1. call.start =< Smaller(Height[t], RangeEnd(call)) + 1
    BY <1>2, <1>3, <1>4
  <2>2. Len(Slice(t, call)) = Smaller(Height[t], RangeEnd(call)) + 1 - call.start
    BY <1>1, <1>2, <2>1, SliceType
  <2> QED  BY <1>2, <1>3, <1>4, <1>5, <2>2 DEF Smaller
<1>9. Walked \in Answers(call)
  BY <1>1, <1>2, <1>6, <1>7, <1>8, RangeAnswered
<1>10. SubSeq(Slice(t, call), 1, Len(Slice(t, call))) = Slice(t, call)
  BY <1>7, SubSeqFull
<1> QED  BY <1>7, <1>8, <1>9, <1>10

LEMMA GetBlockInv ==
    ASSUME Inv, ethPc = "idle", UNCHANGED ethVars, GetBlock
    PROVE  Inv' /\ Answered
<1>1. corePc = "walk" /\ IsRange(call) /\ call.count > 0 /\ call.start =< Height[endHash]
  BY DEF GetBlock, Inv, CallInv, CoreWalkInv
<1>2. PICK t \in during : CoreWalkOf(t)
  BY <1>1 DEF Inv, CoreWalkInv
<1>3. call.start \in Nat /\ t \in Block
  BY <1>1, CurrentRange
<1>4. /\ endHash \in Block /\ Height[endHash] \in Nat
      /\ Walked \in Seq(BlockDatas)
      /\ Len(coreBlocks) \in Nat /\ Len(Walked) = Len(coreBlocks) + 1
      /\ \A i \in 1 .. Len(Walked) :
            /\ Walked[i].hash \in Anc[t]
            /\ Height[Walked[i].hash] = Height[endHash] + i - 1
            /\ Walked[i].moves = Moves[Walked[i].hash]
  BY <1>1, <1>2, WalkedBlocks
<1>5. ~ (Height[endHash] < call.start)
  BY <1>1, <1>3, <1>4
<1>6. CASE Height[endHash] = call.start
  <2>1. CoreReturn(Walked)
    BY <1>5, <1>6 DEF GetBlock, Walked
  <2>2. Walked \in Answers(call)
    BY <1>1, <1>2, <1>6, WalkedAll
  <2> QED  BY <2>1, <2>2, CoreReturns DEF Answered
<1>7. CASE Height[endHash] # call.start
  <2>1. /\ coreBlocks' = Walked /\ endHash' = Parent[endHash]
        /\ UNCHANGED vars /\ corePc' = corePc
    BY <1>5, <1>7 DEF GetBlock, Walked
  <2>2. /\ Parent[endHash] # NoBlock /\ Parent[endHash] \in Block
        /\ Height[Parent[endHash]] \in Nat
        /\ Height[endHash] = Height[Parent[endHash]] + 1
    BY <1>3, <1>4, <1>5, <1>7, ParentIsBlock, ParentBelow
  <2>3. Parent[endHash] \in Anc[t]
    BY <1>2, <1>3, <2>2, AncParent DEF CoreWalkOf
  <2>4. during' = during /\ call' = call
    BY <2>1 DEF vars
  <2>5. CoreWalkOf(t)'
    <3>1. endHash' \in Anc[t]
      BY <2>1, <2>3
    <3>2. Height[endHash'] + Len(coreBlocks') = Smaller(Height[t], RangeEnd(call'))
      BY <1>2, <1>4, <2>1, <2>2, <2>4 DEF CoreWalkOf
    <3>3. ASSUME NEW i \in 1 .. Len(coreBlocks')
          PROVE  /\ coreBlocks'[i].hash \in Anc[t]
                 /\ Height[coreBlocks'[i].hash] = Height[endHash'] + i
                 /\ coreBlocks'[i].moves = Moves[coreBlocks'[i].hash]
      <4>1. /\ Walked[i].hash \in Anc[t]
            /\ Height[Walked[i].hash] = Height[endHash] + i - 1
            /\ Walked[i].moves = Moves[Walked[i].hash]
        BY <1>4, <2>1, <3>3
      <4>2. i \in Int
        BY <1>4, <2>1, <3>3
      <4> QED  BY <2>1, <2>2, <4>1, <4>2
    <3> QED  BY <3>1, <3>2, <3>3 DEF CoreWalkOf, RangeEnd
  <2>6. call.start =< Height[endHash']
    BY <1>1, <1>3, <1>4, <1>7, <2>1, <2>2
  <2>7. CoreWalkInv'
    <3>1. \E t1 \in during' : CoreWalkOf(t1)'
      BY <2>4, <2>5 DEF CoreWalkOf
    <3> QED  BY <1>1, <2>1, <2>4, <2>6, <3>1 DEF CoreWalkInv
  <2> QED  BY <1>1, <1>4, <2>1, <2>2, <2>7, CoreContinues
<1> QED  BY <1>6, <1>7

LEMMA GetBlockHeaderInv ==
    ASSUME Inv, ethPc = "idle", UNCHANGED ethVars, GetBlockHeader
    PROVE  Inv' /\ Answered
<1> DEFINE a == IF call.hash \in Anc[tip] THEN Height[call.hash] ELSE -1
<1>1. call # NoCall /\ ~ IsRange(call) /\ CoreReturn(a)
  BY DEF GetBlockHeader
<1>2. a \in Answers(call)
  BY <1>1, HeightAnswered
<1> QED  BY <1>1, <1>2, CoreReturns DEF Answered

-----------------------------------------------------------------------------
(* A step of a connector keeps the invariant, and answers rightly. *)
LEMMA EthStepInv ==
    ASSUME Inv, ByEth
    PROVE  Inv' /\ Answered
<1>1. corePc = "idle" /\ UNCHANGED coreVars /\ EthStep
  BY DEF ByEth
<1>2. CASE EthGetBlockRange
  BY <1>1, <1>2, EthGetBlockRangeInv
<1>3. CASE EthBlockNumber
  BY <1>1, <1>3, EthBlockNumberInv
<1>4. CASE EthGetBlockByNumber
  BY <1>1, <1>4, EthGetBlockByNumberInv
<1>5. CASE EthLogsNext
  BY <1>1, <1>5, EthLogsNextInv
<1>6. CASE AddMovesOneByOne
  BY <1>1, <1>6, AddMovesOneByOneInv
<1>7. CASE EthRangeDone
  BY <1>1, <1>7, EthRangeDoneInv
<1>8. CASE AddMovesFromHeightRange
  BY <1>1, <1>8, AddMovesFromHeightRangeInv
<1>9. CASE EthGetBlockByHash
  BY <1>1, <1>9, EthGetBlockByHashInv
<1>10. CASE EthCompareBlock
  BY <1>1, <1>10, EthCompareBlockInv
<1> QED  BY <1>1, <1>2, <1>3, <1>4, <1>5, <1>6, <1>7, <1>8, <1>9, <1>10 DEF EthStep

LEMMA CoreStepInv ==
    ASSUME Inv, ByCore
    PROVE  Inv' /\ Answered
<1>1. ethPc = "idle" /\ UNCHANGED ethVars /\ CoreStep
  BY DEF ByCore
<1>2. CASE CoreGetBlockRange
  BY <1>1, <1>2, CoreGetBlockRangeInv
<1>3. CASE GetBlockchainInfo
  BY <1>1, <1>3, GetBlockchainInfoInv
<1>4. CASE GetBlockHash
  BY <1>1, <1>4, GetBlockHashInv
<1>5. CASE GetBlock
  BY <1>1, <1>5, GetBlockInv
<1>6. CASE GetBlockHeader
  BY <1>1, <1>6, GetBlockHeaderInv
<1> QED  BY <1>1, <1>2, <1>3, <1>4, <1>5, <1>6 DEF CoreStep

(* A request fails: the call does, too. *)
LEMMA EthThrowsInv ==
    ASSUME Inv, corePc = "idle", EthThrows \/ EthUnknown, UNCHANGED coreVars
    PROVE  Inv' /\ \E a \in {NoAnswer, -1} : Fail(a)
<1>1. PICK a \in {NoAnswer, -1} : EthFail(a)
  BY DEF EthThrows, EthUnknown
<1>2. /\ call' = NoCall /\ during' = {} /\ tip' = tip /\ highest' = highest
      /\ faults' = faults + 1 /\ Fail(a)
      /\ ethPc' = "idle" /\ ethTipHeight' = 0 /\ ethLogs' = 0
      /\ ethBlocks' \in Seq(BlockDatas)
  BY <1>1, EmptySeq DEF EthFail, EthIdle, Fail
<1>3. corePc' = "idle" /\ endHash' \in Block \cup {NoBlock} /\ coreBlocks' = <<>>
  BY DEF coreVars, Inv, TypeOK, CoreWalkInv
<1>4. faults' \in Nat
  BY <1>2 DEF Inv, TypeOK
<1> QED  BY <1>2, <1>3, <1>4, CallEnds

(* One call of a batch fails: the process ends, or everything is tried again. *)
LEMMA EthBatchInv ==
    ASSUME Inv, corePc = "idle", EthBlockFails \/ EthLogsFail, UNCHANGED coreVars
    PROVE  Inv' /\ CallOfBatchFails
<1>1. /\ CallOfBatchFails
      /\ tip' = tip /\ highest' = highest /\ call' = call /\ during' = during
      /\ faults' = faults + 1
      /\ ethPc \in {"blocks", "logs"}
  BY DEF EthBlockFails, EthLogsFail, CallOfBatchFails
<1>2. corePc' = "idle" /\ endHash' = endHash /\ coreBlocks' = coreBlocks
  BY DEF coreVars
<1>3. \/ /\ ethPc' = "nodeError" /\ ethTipHeight' = ethTipHeight
         /\ ethBlocks' = ethBlocks /\ ethLogs' = ethLogs
      \/ ethPc' = "tip" /\ ethTipHeight' = 0 /\ ethBlocks' = <<>> /\ ethLogs' = 0
  BY DEF EthBlockFails, EthLogsFail, FromTheStart
<1>4. TypeOK'
  <2>1. /\ ethPc' \in {"tip", "nodeError"} /\ ethTipHeight' \in Nat /\ ethLogs' \in Nat
        /\ ethBlocks' \in Seq(BlockDatas)
    <3>1. CASE UNCHANGED <<ethTipHeight, ethBlocks, ethLogs>> /\ ethPc' = "nodeError"
      BY <3>1 DEF Inv, TypeOK
    <3>2. CASE ethPc' = "tip" /\ ethTipHeight' = 0 /\ ethBlocks' = <<>> /\ ethLogs' = 0
      BY <3>2, EmptySeq
    <3> QED  BY <1>3, <3>1, <3>2
  <2>2. faults' \in Nat
    BY <1>1 DEF Inv, TypeOK
  <2> QED  BY <1>1, <1>2, <2>1, <2>2 DEF Inv, TypeOK
<1>5. NodeInv'
  BY <1>1 DEF Inv, NodeInv, FinalHeight
<1>6. CallInv'
  BY <1>1, <1>2, <1>3 DEF Inv, CallInv, IsRange
<1>7. EthBlocksInv' /\ EthBuriedInv'
  BY <1>3 DEF EthBlocksInv, EthBuriedInv
<1>8. CoreWalkInv'
  BY <1>2 DEF Inv, CoreWalkInv
<1> QED  BY <1>1, <1>4, <1>5, <1>6, <1>7, <1>8 DEF Inv

LEMMA CoreFailsInv ==
    ASSUME Inv, ethPc = "idle", CoreFails, UNCHANGED ethVars
    PROVE  Inv' /\ \E a \in {NoAnswer, -1} : Fail(a)
<1>1. PICK a \in {NoAnswer, -1} : Fail(a) /\ CoreIdle
  BY DEF CoreFails, CoreThrows, CoreUnknown
<1>2. /\ call' = NoCall /\ during' = {} /\ tip' = tip /\ highest' = highest
      /\ faults' = faults + 1
      /\ corePc' = "idle" /\ endHash' = NoBlock /\ coreBlocks' = <<>>
  BY <1>1 DEF CoreIdle, Fail
<1>3. /\ ethPc' = "idle" /\ ethTipHeight' \in Nat /\ ethLogs' \in Nat
      /\ ethBlocks' \in Seq(BlockDatas)
  BY DEF ethVars, Inv, TypeOK
<1>4. faults' \in Nat
  BY <1>2 DEF Inv, TypeOK
<1> QED  BY <1>1, <1>2, <1>3, <1>4, CallEnds

LEMMA NextInv ==
    ASSUME Inv, [ConnectorsNext]_allVars
    PROVE  Inv' /\ [Next]_vars
<1>1. ASSUME NEW b \in Block, NodeMoves(b), UNCHANGED <<ethVars, coreVars>>
      PROVE  Inv' /\ [Next]_vars
  BY <1>1, NodeMovesInv DEF Next
<1>2. ASSUME NEW c \in Calls, MakeCall(c), UNCHANGED <<ethVars, coreVars>>
      PROVE  Inv' /\ [Next]_vars
  BY <1>2, MakeCallInv DEF Next
<1>3. Answered => [Next]_vars
  BY DEF Answered, Next
<1>4. CASE ByEth
  BY <1>3, <1>4, EthStepInv
<1>5. CASE ByCore
  BY <1>3, <1>5, CoreStepInv
<1>6. CASE corePc = "idle" /\ EthFails /\ UNCHANGED coreVars
  BY <1>6, EthThrowsInv, EthBatchInv DEF Next, EthFails
<1>7. CASE ethPc = "idle" /\ CoreFails /\ UNCHANGED ethVars
  BY <1>7, CoreFailsInv DEF Next
<1>8. CASE UNCHANGED allVars
  <2>1. UNCHANGED <<vars, ethVars, coreVars>>
    BY <1>8 DEF allVars
  <2>2. UNCHANGED vars
    BY <2>1
  <2>3. Inv'
    BY <2>1 DEF vars, ethVars, coreVars, Inv, TypeOK, NodeInv, CallInv, EthBlocksInv,
                EthBuriedInv, CoreWalkInv, FinalHeight, FinalBlock, IsRange, EthBlocksOf,
                EthEnd, NextHeight, Buried, CoreWalkOf, RangeEnd
  <2> QED  BY <2>2, <2>3
<1> QED  BY <1>1, <1>2, <1>4, <1>5, <1>6, <1>7, <1>8 DEF ConnectorsNext

(***************************************************************************)
(* Whatever the node does between the requests of a call, what the         *)
(* connectors have collected is a piece of one of its main chains.         *)
(***************************************************************************)
THEOREM Invariance == ConnectorsSpec => []Inv
<1>1. ConnectorsInit => Inv
  BY InitInv
<1>2. Inv /\ [ConnectorsNext]_allVars => Inv'
  BY NextInv
<1> QED  BY <1>1, <1>2, PTL DEF ConnectorsSpec

(***************************************************************************)
(* The CHECKs of AddMovesFromHeightRange (a log for another block) and of  *)
(* CoreChain::GetBlockRange (a block below the range) hold.                *)
(***************************************************************************)
THEOREM ConnectorsCheck == ConnectorsSpec => []NeverAborts
<1>1. Inv => NeverAborts
  BY DEF Inv, TypeOK, NeverAborts
<1> QED  BY <1>1, Invariance, PTL

(***************************************************************************)
(* EthChain and CoreChain implement BaseChain: GetBlockRange returns a     *)
(* piece of one main chain with all its moves, GetMainchainHeight the      *)
(* height of a block that was on it, and nothing else happens that a       *)
(* caller could notice.                                                    *)
(***************************************************************************)
THEOREM Implementation == ConnectorsSpec => ImplementsBaseChain
<1>1. ConnectorsInit => Init
  BY DEF ConnectorsInit
<1>2. Inv /\ [ConnectorsNext]_allVars => [Next]_vars
  BY NextInv
<1> QED  BY <1>1, <1>2, Invariance, PTL DEF ConnectorsSpec, ImplementsBaseChain, Spec

(***************************************************************************)
(* What CoreChain::GetBlockRange returns is the whole range on one chain:  *)
(* it goes down by parent hashes, and is not misled by a reorg.            *)
(***************************************************************************)
THEOREM CoreAtomic == ConnectorsSpec => CoreRangeIsAtomic
<1> DEFINE Atomic == corePc = "walk" /\ call' = NoCall /\ faults' = faults =>
                        \E t \in during : answer' = Slice(t, call)
<1>1. ASSUME Inv, ConnectorsNext, corePc = "walk", call' = NoCall, faults' = faults
      PROVE  \E t \in during : answer' = Slice(t, call)
  <2>1. /\ ethPc = "idle" /\ call # NoCall /\ faults \in Nat
    BY <1>1 DEF Inv, CallInv, TypeOK
  <2>2. ~ \E b \in Block : NodeMoves(b)
    BY <1>1, <2>1 DEF NodeMoves
  <2>3. ~ \E c \in Calls : MakeCall(c)
    BY <2>1 DEF MakeCall
  <2>4. ~ CoreFails
    BY <1>1, <2>1 DEF CoreFails, CoreThrows, CoreUnknown, Fail
  <2>5. GetBlock
    BY <1>1, <2>2, <2>3, <2>4
       DEF ConnectorsNext, ByEth, ByCore, CoreStep, CoreGetBlockRange, GetBlockchainInfo,
           GetBlockHash, GetBlockHeader
  <2>6. PICK t \in during : CoreWalkOf(t)
    BY <1>1 DEF Inv, CoreWalkInv
  <2>7. Height[endHash] = call.start /\ CoreReturn(Walked)
    BY <1>1, <2>1, <2>5 DEF GetBlock, Walked, vars
  <2>8. Walked = Slice(t, call)
    BY <1>1, <2>6, <2>7, WalkedAll
  <2> QED  BY <2>7, <2>8 DEF CoreReturn, Return
<1>2. Inv /\ [ConnectorsNext]_allVars => [Atomic]_allVars
  BY <1>1
<1> QED  BY <1>2, Invariance, PTL DEF ConnectorsSpec, CoreRangeIsAtomic
=============================================================================
