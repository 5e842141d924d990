------------------------------ MODULE Database ------------------------------
(***************************************************************************)
(* The SQLite database of the chainstate, as its threads use it: the cache *)
(* of prepared statements, of which each can be in use only once, and the  *)
(* savepoints of update batches.  What the statements do to the data is in *)
(* BranchTable; here each method of Chainstate, Sync and RunData, and each *)
(* RPC method, is the set of the sequences of steps that it may take.      *)
(* Every destructor is a step, so that exceptions can be followed.         *)
(***************************************************************************)
EXTENDS Naturals, Sequences

CONSTANT MaxLoop    \* a bound on how often a loop over blocks is run through

ASSUME DatabaseAssumption == MaxLoop \in Nat

VARIABLES
    todo,           \* the steps that each thread still has to take
    used,           \* the cached statements that are in use
    batches         \* the methods whose UpdateBatch has a savepoint open

database == <<todo, used, batches>>

Step(op, arg) == [op |-> op, arg |-> arg]

Take(sql) == Step("take", sql)      \* Prepare
Put(sql) == Step("put", sql)        \* the Statement goes out of scope
Query(sql) == Step("query", sql)    \* both, with no other call in between
Call(method) == Step("call", method)
Maybe(method) == Step("maybe", method)  \* called under some condition
Loop(method, n) == [op |-> "loop", arg |-> method, times |-> n]
Savepoint(method) == Step("savepoint", method)
Commit(method) == Step("commit", method)
AskBase == Step("base", "")         \* a call to the base chain, which may throw
Publish == Step("publish", "")      \* ZmqPub or PendingManager, which may throw
Callback == Step("callback", "")    \* Sync::Callbacks, if set
EndTry == Step("endTry", "")        \* the end of a try block with its handler

-----------------------------------------------------------------------------
(* Sequences of steps. *)

(* A Statement is declared at the start of a block. *)
Using(sql, block) == <<Take(sql)>> \o block \o <<Put(sql)>>

(* The variable is assigned another one, which is prepared before the old  *)
(* one is released.                                                        *)
Assign(old, new) == <<Take(new), Put(old)>>

(* An UpdateBatch is declared and committed at the end of the block. *)
Batch(method, block) == <<Savepoint(method)>> \o block \o <<Commit(method)>>

Optional(block) == {<<>>, block}

Then(S, T) == {s \o t : s \in S, t \in T}

-----------------------------------------------------------------------------
(* Chainstate.  A statement is named for what it selects or changes; two   *)
(* methods use the same one where the text of the SQL is the same.         *)

GetTipHeight == Query("highest")
GetLowestUnprunedHeight == Query("lowest")
GetHashForHeight == Query("hash at height")
GetHeightForHash == Query("height")
InsertBlock == Query("insert")
GetFreeBranchNumber == Query("highest branch")

SetChain ==
    {<<Query("chain")>>,
     <<Take("chain")>> \o Assign("chain", "insert chain") \o <<Put("insert chain")>>}

(* Once around the loop for each branch on the way, and the end of the way. *)
FollowBranch ==
    {<<Take("branch, height")>> \o Assign("branch, height", "blocks below")
        \o <<Put("blocks below")>>}

GetForkBranch == {<<Loop("FollowBranch", n), Query("branch, height")>> : n \in 0 .. MaxLoop}

MakeMain == {<<Query("make main")>>}

MarkAsTip ==
    {Using("branch", Using("detach above", <<GetFreeBranchNumber>>))}
    \cup {Using("branch",
            <<Call("GetForkBranch")>>
              \o Using("detach from", <<GetFreeBranchNumber, Loop("MakeMain", n)>>)) :
            n \in 1 .. MaxLoop}

Prune == {<<Savepoint("Prune"), Take("delete"), Commit("Prune"), Put("delete")>>}

ImportTip ==
    {<<GetTipHeight>>
        \o Batch("ImportTip", <<GetHeightForHash, add, Maybe("Prune")>>)
        \o <<GetLowestUnprunedHeight, GetTipHeight>> :
            add \in {Call("MarkAsTip"), InsertBlock}}

(* Mutant: the parent's height is asked for once more with its query open. *)
SetTipAsksTwice ==
    {<<Take("tip")>> \o Assign("tip", "height") \o <<GetHeightForHash, Put("height")>>}

(* SetTip that returns true: for a known block, or one with a known parent. *)
SetTip ==
    LET lookup == <<Take("tip")>> \o Assign("tip", "parent, height")
    IN  {lookup \o Batch("SetTip", <<Call("MarkAsTip")>>) \o <<Put("parent, height")>>,
         lookup \o Assign("parent, height", "height")
            \o Batch("SetTip", <<GetFreeBranchNumber, InsertBlock, Call("MarkAsTip")>>)
            \o <<Put("height")>>}

(* SetTip that returns false: there are no blocks, or the parent is unknown. *)
SetTipFails ==
    {<<Query("tip")>>,
     <<Take("tip")>> \o Assign("tip", "parent, height")
        \o Assign("parent, height", "height") \o <<Put("height")>>}

(* Another round of the loop: the branch's blocks, and where it ends. *)
CheckBranch ==
    Then({Assign("branch, height", "branch blocks") \o Assign("branch blocks", "branch, height")},
         Optional(<<GetLowestUnprunedHeight>>))

(* No branch but the main one, or the loop over the others. *)
SanityCheck ==
    {<<Query("count")>>, Using("count", <<Query("branches")>>)}
    \cup Then({<<Take("count"), Take("branches")>> \o Assign("count", "branch blocks")
                   \o Assign("branch blocks", "branch, height")},
         Then(Optional(<<GetLowestUnprunedHeight>>),
              {<<Loop("CheckBranch", n), Put("branches"), Put("branch, height")>> :
                   n \in 0 .. MaxLoop}))

-----------------------------------------------------------------------------
(* RunData and Sync. *)

(* For a new tip; the blocks to attach are known. *)
PushZmqBlocks ==
    {<<Publish>>} \cup
    Then({<<GetLowestUnprunedHeight, Call("GetForkBranch")>>},
         {<<AskBase>>, <<AskBase, Publish>>, <<Publish>>, <<Publish, Publish>>,
          <<GetHeightForHash, Publish>>})

TipUpdatedFrom ==
    <<Call("PushZmqBlocks"), EndTry, Publish,
      Maybe("SanityCheck"), GetTipHeight, Maybe("Prune")>>

(* The base chain has the block or not. *)
ImportNewTip == {<<AskBase>>, <<AskBase, Call("ImportTip"), Callback>>}

(* Mutant: the batch is committed when the step is done. *)
AttachBlocksLateCommit ==
    {Batch("UpdateStep", <<Loop("SetTip", n), Callback>>) : n \in 0 .. MaxLoop}

(* The rest of UpdateStep, once the first block is attached. *)
AttachBlocks ==
    {Batch("UpdateStep", <<Loop("SetTip", n)>>)
        \o <<Maybe("Callback"), Maybe("ImportNewTip")>> : n \in 0 .. MaxLoop}

UpdateStep ==
    {<<AskBase, GetTipHeight, Call("ImportNewTip")>>} \cup
    Then(Then({<<AskBase>>}, Optional(<<GetTipHeight>>)),
         {<<AskBase, GetLowestUnprunedHeight>>,
          <<AskBase, Call("GetForkBranch"), Call("SetTipFails"),
            GetLowestUnprunedHeight>>,
          <<AskBase, Call("GetForkBranch"), Call("SetTip"), Call("AttachBlocks")>>})

-----------------------------------------------------------------------------
(* The RPC methods that lock the chainstate. *)

getblockchaininfo ==
    {<<GetTipHeight>>, <<GetTipHeight, GetHashForHeight>>}

getblockhash ==
    {<<GetHashForHeight>>,
     <<GetHashForHeight, GetLowestUnprunedHeight>>,
     <<GetHashForHeight, GetLowestUnprunedHeight, AskBase>>}

getblockheader ==
    {<<GetHeightForHash>>, <<GetHeightForHash, AskBase>>}

(* PushZmqBlocks for a request, with or without a "to" block. *)
game_sendupdates ==
    LET from == <<GetLowestUnprunedHeight, Call("GetForkBranch")>>
        attach == Then({<<AskBase>>},
                  Then(Optional(<<GetHeightForHash>>), Optional(<<Publish>>)))
        to == {<<AskBase>>, <<AskBase, AskBase>>, <<AskBase, AskBase, Publish>>}
    IN  {<<>>, from \o <<AskBase>>} \cup
        Then({from},
        Then({<<AskBase>>, <<Publish>>, <<GetHeightForHash>>},
             to \cup Then({<<AskBase>>, <<GetTipHeight>>}, attach)))

Request == getblockchaininfo \cup getblockhash \cup getblockheader \cup game_sendupdates

Body == [
    FollowBranch |-> FollowBranch,
    GetForkBranch |-> GetForkBranch,
    MakeMain |-> MakeMain,
    MarkAsTip |-> MarkAsTip,
    Prune |-> Prune,
    ImportTip |-> ImportTip,
    SetTip |-> SetTip,
    SetTipFails |-> SetTipFails,
    CheckBranch |-> CheckBranch,
    SanityCheck |-> SanityCheck,
    PushZmqBlocks |-> PushZmqBlocks,
    ImportNewTip |-> ImportNewTip,
    AttachBlocks |-> AttachBlocks,
    Callback |-> {<<Callback>>}]

-----------------------------------------------------------------------------
(* The steps of a thread. *)

DatabaseInit(threads) ==
    /\ todo = [t \in threads |-> <<>>]
    /\ used = {}
    /\ batches = {}

Busy(t) == todo[t] # <<>>
At(t, op) == Busy(t) /\ Head(todo[t]).op = op
Start(t, steps) == todo' = [todo EXCEPT ![t] = steps]
Advance(t) == todo' = [todo EXCEPT ![t] = Tail(@)]

(* The CHECK here aborts the process unless the statement is unused. *)
Acquire(t) ==
    /\ At(t, "take")
    /\ Head(todo[t]).arg \notin used
    /\ used' = used \cup {Head(todo[t]).arg}
    /\ Advance(t)
    /\ UNCHANGED batches

RunQuery(t) ==
    /\ At(t, "query")
    /\ Head(todo[t]).arg \notin used
    /\ Advance(t)
    /\ UNCHANGED <<used, batches>>

Release(t) ==
    /\ At(t, "put")
    /\ used' = used \ {Head(todo[t]).arg}
    /\ Advance(t)
    /\ UNCHANGED batches

(* UpdateBatch executes its statements one after the other. *)
OpenBatch(t) ==
    /\ At(t, "savepoint")
    /\ batches' = batches \cup {Head(todo[t]).arg}
    /\ Advance(t)
    /\ UNCHANGED used

CloseBatch(t) ==
    /\ At(t, "commit")
    /\ batches' = batches \ {Head(todo[t]).arg}
    /\ Advance(t)
    /\ UNCHANGED used

CallMethod(t) ==
    /\ At(t, "call") \/ At(t, "maybe")
    /\ \E body \in Body[Head(todo[t]).arg] : Start(t, body \o Tail(todo[t]))
    /\ UNCHANGED <<used, batches>>

SkipMethod(t) ==
    /\ At(t, "maybe")
    /\ Advance(t)
    /\ UNCHANGED <<used, batches>>

(* One round, and what is left of the loop; or the end of it. *)
LoopMethod(t) ==
    /\ At(t, "loop")
    /\ LET loop == Head(todo[t])
       IN  IF loop.times = 0
             THEN Advance(t)
             ELSE \E body \in Body[loop.arg] :
                     Start(t, body \o <<Loop(loop.arg, loop.times - 1)>> \o Tail(todo[t]))
    /\ UNCHANGED <<used, batches>>

(* What is not the database's returns. *)
CallOthers(t) ==
    /\ At(t, "base") \/ At(t, "publish")
    /\ Advance(t)
    /\ UNCHANGED <<used, batches>>

(***************************************************************************)
(* Or it throws: the destructors of what is in scope run up to the handler *)
(* or to the end.  They release the statements, and those of batches that  *)
(* are not committed roll back.                                            *)
(***************************************************************************)
OthersThrow(t) ==
    /\ At(t, "base") \/ At(t, "publish")
    /\ LET rest == Tail(todo[t])
       IN  \E n \in 0 .. Len(rest) :
             LET left(op) == {rest[i].arg : i \in {j \in 1 .. n : rest[j].op = op}}
             IN  /\ \A i \in 1 .. n : rest[i] # EndTry
                 /\ n < Len(rest) => rest[n + 1] = EndTry
                 /\ Start(t, SubSeq(rest, n + 2, Len(rest)))
                 /\ used' = used \ left("put")
                 /\ batches' = batches \ left("commit")

LeaveTry(t) ==
    /\ At(t, "endTry")
    /\ Advance(t)
    /\ UNCHANGED <<used, batches>>

CallBack(t, isSet) ==
    /\ At(t, "callback")
    /\ Start(t, (IF isSet THEN TipUpdatedFrom ELSE <<>>) \o Tail(todo[t]))
    /\ UNCHANGED <<used, batches>>

-----------------------------------------------------------------------------
(***************************************************************************)
(* The discipline of the methods, from which the invariants follow.        *)
(***************************************************************************)

Statement ==
    {"highest", "lowest", "hash at height", "height", "insert", "highest branch",
     "chain", "insert chain", "branch, height", "blocks below", "branch",
     "detach above", "detach from", "make main", "delete", "tip",
     "parent, height", "count", "branches", "branch blocks"}

Batcher == {"Prune", "ImportTip", "SetTip", "UpdateStep"}

Object == Statement \cup Batcher

Method == DOMAIN Body

(* What a method takes, directly or in what it calls; everything, if it    *)
(* calls what is not the database's.                                       *)
Uses ==
    LET fork == {"branch, height", "blocks below"}
        mark == {"branch", "detach above", "detach from", "highest branch",
                 "make main"} \cup fork
        prune == {"delete", "Prune"}
        find == {"tip", "parent, height", "height"}
        check == {"branch blocks", "branch, height", "lowest"}
    IN  [FollowBranch |-> fork,
         GetForkBranch |-> fork,
         MakeMain |-> {"make main"},
         MarkAsTip |-> mark,
         Prune |-> prune,
         ImportTip |-> {"highest", "lowest", "height", "insert", "ImportTip"}
                         \cup mark \cup prune,
         SetTip |-> {"insert", "SetTip"} \cup find \cup mark,
         SetTipFails |-> find,
         CheckBranch |-> check,
         SanityCheck |-> {"count", "branches"} \cup check,
         PushZmqBlocks |-> Object,
         ImportNewTip |-> Object,
         AttachBlocks |-> Object,
         Callback |-> Object]

(* What of it is open when the method is called, and open again after it. *)
Holds == [m \in Method |-> IF m = "CheckBranch" THEN {"branch, height"} ELSE {}]

Opening == {"take", "savepoint"}
Closing == {"put", "commit"}
Calling == {"call", "maybe", "loop"}
Talking == {"base", "publish", "callback", "endTry"}

StepType ==
    [op : {"take", "put", "query"}, arg : Statement]
    \cup [op : {"savepoint", "commit"}, arg : Batcher]
    \cup [op : {"call", "maybe"}, arg : Method]
    \cup [op : {"loop"}, arg : Method, times : Nat]
    \cup [op : Talking, arg : {""}]

(* The steps that lead to no publication unless Sync::Callbacks are set. *)
QuietStep == {s \in StepType : s.op # "publish" /\ s.arg # "PushZmqBlocks"}

(* The objects that the steps after the i-th one close before they open it. *)
OpenAfter(steps, i) ==
    {steps[k].arg : k \in {k \in i + 1 .. Len(steps) :
        /\ steps[k].op \in Closing
        /\ \A j \in i + 1 .. k - 1 :
              ~ (steps[j].op \in Opening /\ steps[j].arg = steps[k].arg)}}

(* Whether a step may be taken that leaves these objects open. *)
Fits(step, open) ==
    /\ step.op \in Opening => step.arg \in open
    /\ step.op \in Closing \cup {"query"} => step.arg \notin open
    /\ step.op \in Calling => Uses[step.arg] \cap open = Holds[step.arg]
    /\ step.op \in Talking => open = {}

WellFormed(steps) == \A i \in 1 .. Len(steps) : Fits(steps[i], OpenAfter(steps, i))

(***************************************************************************)
(* What a thread in the database has open is what it is still to close.    *)
(***************************************************************************)
InUse(t) ==
    /\ WellFormed(todo[t])
    /\ used \cup batches = OpenAfter(todo[t], 0)
=============================================================================
