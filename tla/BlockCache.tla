----------------------------- MODULE BlockCache -----------------------------
(***************************************************************************)
(* BlockCacheChain: a base chain that answers GetBlockRange from a storage *)
(* of old blocks when it can, and forwards everything else.  The storage   *)
(* (a MySQL table) outlives the process, may be shared by several of them, *)
(* and may fail to store a block or to answer.  A process judges by the    *)
(* last tip height that it has seen, which may be outdated, whether blocks *)
(* are old enough for the cache.                                           *)
(***************************************************************************)
EXTENDS Blocks, Sequences

CONSTANTS
    Process,        \* the instances of Xaya X that share the storage
    MinDepth,       \* BlockCacheChain::minDepth
    ReorgDepth,     \* no block with so many blocks on it is ever reorged away
    MaxCount,       \* a bound on the number of blocks requested
    MaxFetches      \* a bound on the requests under way

ASSUME BlockCacheAssumption ==
    /\ MinDepth \in Nat
    /\ ReorgDepth \in Nat
    /\ ReorgDepth =< MinDepth
    /\ MaxCount \in Nat
    /\ MaxFetches \in Nat

VARIABLES
    baseTip,        \* the tip of the underlying chain
    baseHighest,    \* the largest height its main chain ever had
    lastTipHeight,  \* per process
    store,          \* the blocks in the storage
    fetched,        \* the answers of the underlying chain that threads of the
                    \* processes are about to store
    answer          \* (history) whether the last answer to GetBlockRange was
                    \* what the underlying chain had there

vars == <<baseTip, baseHighest, lastTipHeight, store, fetched, answer>>

Slice(b, start, count) ==
    {c \in Anc[b] : Height[c] >= start /\ Height[c] < start + count}

Init ==
    /\ baseTip \in {b \in Block : Height[b] = 0}
    /\ baseHighest = 0
    /\ lastTipHeight = [p \in Process |-> 0]
    /\ store = {}
    /\ fetched = {}
    /\ answer = TRUE

-----------------------------------------------------------------------------
(* The underlying chain keeps the blocks that are ReorgDepth deep. *)
BaseMove(b) ==
    /\ b # baseTip
    /\ \A c \in Anc[baseTip] : Height[c] + ReorgDepth =< baseHighest => c \in Anc[b]
    /\ baseTip' = b
    /\ baseHighest' = IF Height[b] > baseHighest THEN Height[b] ELSE baseHighest
    /\ UNCHANGED <<lastTipHeight, store, fetched, answer>>

LearnTipHeight(p) ==
    /\ lastTipHeight' = [lastTipHeight EXCEPT ![p] = Height[baseTip]]
    /\ UNCHANGED <<baseTip, baseHighest, store, fetched, answer>>

(* Mutant: blocks are cached one block too early. *)
CloseToTipOffByOne(p, start, count) == start + count + MinDepth > lastTipHeight[p] + 2

(* Is the range close to the tip, as far as the process knows? *)
CloseToTip(p, start, count) == start + count + MinDepth > lastTipHeight[p] + 1

(* GetRange of the storage; it is used only if it has all the blocks. *)
GetRange(start, count) ==
    {c \in store : Height[c] >= start /\ Height[c] < start + count}

(***************************************************************************)
(* What the underlying chain may answer: the range, or less of it if its   *)
(* main chain was so short at some time of the call (EthChain asks for the *)
(* tip height first).  A chain that is so short lacks only blocks of which *)
(* a process that knows lastTipHeight cannot be sure that they are final.  *)
(***************************************************************************)
BaseAnswers(p, start, count) ==
    {Slice(baseTip, start, n) :
        n \in {k \in 0 .. count : k = count \/ start + k + ReorgDepth > lastTipHeight[p]}}

Answer(p, returned, start, count) ==
    answer' = (returned \in BaseAnswers(p, start, count))

GetUncached(p, start, count) ==
    /\ CloseToTip(p, start, count)
    /\ \E returned \in BaseAnswers(p, start, count) : Answer(p, returned, start, count)
    /\ UNCHANGED <<baseTip, baseHighest, lastTipHeight, store, fetched>>

GetCached(p, start, count) ==
    /\ ~ CloseToTip(p, start, count)
    /\ Cardinality(GetRange(start, count)) = count
    /\ Answer(p, GetRange(start, count), start, count)
    /\ UNCHANGED <<baseTip, baseHighest, lastTipHeight, store, fetched>>

(* The storage has not all the blocks, or fails to answer. *)
AskBase(p, start, count) ==
    /\ ~ CloseToTip(p, start, count)
    /\ Cardinality(fetched) < MaxFetches
    /\ \E returned \in BaseAnswers(p, start, count) :
          /\ fetched' = fetched \cup {returned}
          /\ Answer(p, returned, start, count)
    /\ UNCHANGED <<baseTip, baseHighest, lastTipHeight, store>>

(* A block that is stored replaces the one that was stored for its height. *)
Store(stored) ==
    store' = stored \cup {c \in store : \A d \in stored : Height[d] # Height[c]}

(***************************************************************************)
(* The blocks are stored, by when the underlying chain may have moved.     *)
(* Some may fail, and if the process ends before, none is stored.          *)
(***************************************************************************)
StoreFetched(blocks) ==
    /\ fetched' = fetched \ {blocks}
    /\ \E stored \in SUBSET blocks : Store(stored)
    /\ UNCHANGED <<baseTip, baseHighest, lastTipHeight, answer>>

Restart(p) ==
    /\ lastTipHeight' = [lastTipHeight EXCEPT ![p] = 0]
    /\ UNCHANGED <<baseTip, baseHighest, store, fetched, answer>>

Starts == {Height[b] : b \in Block}

Next ==
    \/ \E b \in Block : BaseMove(b)
    \/ \E p \in Process : LearnTipHeight(p)
    \/ \E p \in Process, s \in Starts, n \in 0 .. MaxCount : GetUncached(p, s, n)
    \/ \E p \in Process, s \in Starts, n \in 0 .. MaxCount : GetCached(p, s, n)
    \/ \E p \in Process, s \in Starts, n \in 0 .. MaxCount : AskBase(p, s, n)
    \/ \E blocks \in fetched : StoreFetched(blocks)
    \/ \E p \in Process : Restart(p)

Spec == Init /\ [][Next]_vars

-----------------------------------------------------------------------------
(* The type of the variables. *)
TypeOK ==
    /\ baseTip \in Block
    /\ baseHighest \in Nat
    /\ lastTipHeight \in [Process -> Nat]
    /\ store \subseteq Block
    /\ fetched \subseteq SUBSET Block
    /\ answer \in BOOLEAN

(* A block that is on the main chain, so deep that it stays there. *)
IsFinal(c) == c \in Anc[baseTip] /\ Height[c] + ReorgDepth =< baseHighest

(***************************************************************************)
(* "Each block stored is assumed to be finalised already": although what a *)
(* process knows of the tip may be outdated when it stores blocks, and so  *)
(* may be what it has got from the underlying chain, a block in the        *)
(* storage is on the main chain and stays there.                           *)
(***************************************************************************)
StoredIsFinal == \A c \in store : IsFinal(c)

(* What is returned is what the underlying chain may have returned. *)
Transparent == answer = TRUE

-----------------------------------------------------------------------------
(***************************************************************************)
(* The inductive invariant: the tip height that a process knows was one of *)
(* the base chain's, what is about to be stored is final like what is      *)
(* stored, and the base chain never gets so short that a block that is     *)
(* deep enough for the cache is missing.                                   *)
(***************************************************************************)
Inv ==
    /\ TypeOK
    /\ StoredIsFinal
    /\ \A blocks \in fetched : \A c \in blocks : IsFinal(c)
    /\ Transparent
    /\ \A p \in Process : lastTipHeight[p] =< baseHighest
    /\ Height[baseTip] =< baseHighest
    /\ baseHighest =< Height[baseTip] + ReorgDepth
=============================================================================
