---------------------------- MODULE SendUpdates ----------------------------
(***************************************************************************)
(* Sync with the RPC method game_sendupdates and a GSP (game state         *)
(* processor) that uses it.  A GSP is on some block; it follows the block  *)
(* notifications that TipUpdatedFrom pushes, may miss them, and then asks  *)
(* with game_sendupdates to be led from its block to the tip, or to a      *)
(* block it names.                                                         *)
(*                                                                         *)
(* The RPC thread holds mutChain for the whole of PushZmqBlocks, and Sync  *)
(* for the whole of UpdateStep: they exclude each other.  But the base     *)
(* chain goes on moving between the calls PushZmqBlocks makes to it.       *)
(***************************************************************************)
EXTENDS Sync

CONSTANTS
    Targets,        \* the "to" blocks GSPs ask for; NoBlock if they give none
    EarlyRequests   \* whether a GSP of an earlier run of X is still there, and
                    \* calls before Sync has imported a first block

ASSUME SendUpdatesAssumption ==
    /\ Targets \subseteq Block \cup {NoBlock}
    /\ EarlyRequests \in BOOLEAN

VARIABLES
    gsp,            \* the block the GSP is on; NoBlock before it starts
    \* the local state of game_sendupdates and PushZmqBlocks
    rpcPc,
    to,
    detach,         \* the blocks of the detach messages, in their order
    queriedAttach   \* the blocks of the attach messages, in their order

rpc == <<rpcPc, to, detach, queriedAttach>>
AllVars == <<vars, gsp, rpc>>

SystemInit ==
    /\ Init
    /\ gsp = IF EarlyRequests THEN baseTip ELSE NoBlock
    /\ rpcPc = "none"
    /\ to = NoBlock
    /\ detach = <<>>
    /\ queriedAttach = <<>>

OnBaseChain(b) == b \in Anc[baseTip]

LastOf(s) == s[Len(s)]

ReversedSeq(s) == [i \in 1 .. Len(s) |-> s[Len(s) + 1 - i]]

-----------------------------------------------------------------------------
(* PushZmqBlocks for a request of the GSP, that is, with from = gsp and    *)
(* without attaches, from one call to the base chain to the next.          *)

RpcForkPoint == IF detach = <<>> THEN gsp ELSE Parent[LastOf(detach)]

(* Mutant: the height of the last detached block, not of its parent. *)
RpcForkHeightTooHigh ==
    IF detach = <<>> THEN Height[gsp] ELSE Height[LastOf(detach)]

RpcForkHeight == Height[RpcForkPoint]

(* Where PushZmqBlocks goes on after the detaches. *)
AfterDetaches(t) == IF t = NoBlock THEN "attach" ELSE "to"

(***************************************************************************)
(* The chainstate knows the GSP's block, or the base chain is asked.  The  *)
(* CHECK on the lowest unpruned height aborts the process if there is no   *)
(* block at all yet.                                                       *)
(***************************************************************************)
RpcBegin(t) ==
    /\ rpcPc = "none"
    /\ pc = "idle"
    /\ gsp # NoBlock
    /\ EarlyRequests \/ Main(table) # {}
    /\ to' = t
    /\ detach' = ReversedSeq(SortByHeight(GetForkBranch(table, gsp)))
    /\ rpcPc' = IF Main(table) = {} THEN "abort"
                ELSE IF ForkBranchFound(table, gsp) THEN AfterDetaches(t)
                ELSE "from"
    /\ UNCHANGED <<vars, gsp, queriedAttach>>

(* Mutant: the base chain is not asked for pruned blocks. *)
RpcUnknownFrom ==
    /\ rpcPc = "from"
    /\ rpcPc' = "reply"
    /\ UNCHANGED <<vars, gsp, to, detach, queriedAttach>>

(* GetMainchainHeight for a block that is not known: is it a pruned one? *)
RpcFromHeight ==
    /\ rpcPc = "from"
    /\ rpcPc' = IF OnBaseChain(gsp) /\ Height[gsp] < GetLowestUnprunedHeight(table)
                THEN AfterDetaches(to) ELSE "reply"
    /\ UNCHANGED <<vars, gsp, to, detach, queriedAttach>>

(* GetMainchainHeight for the "to" block. *)
RpcToHeight ==
    /\ rpcPc = "to"
    /\ rpcPc' = IF ~ OnBaseChain(to) \/ Height[to] = RpcForkHeight THEN "reply"
                ELSE IF Height[to] < RpcForkHeight THEN "detach"
                ELSE "attach"
    /\ UNCHANGED <<vars, gsp, to, detach, queriedAttach>>

(***************************************************************************)
(* The "to" block is below the fork point: the blocks in between are       *)
(* detached as well, if the base chain still has them.  If it has become   *)
(* so short that it returns none of them, the code reads the last element  *)
(* of an empty vector, which is undefined.                                 *)
(***************************************************************************)
RpcDetach ==
    /\ rpcPc = "detach"
    /\ LET num == Smaller(BlockRange, RpcForkHeight - Height[to])
           found == GetBlockRange(RpcForkHeight - num + 1, num)
       IN  IF found = <<>>
           THEN rpcPc' = "undefined" /\ UNCHANGED detach
           ELSE /\ rpcPc' = "reply"
                /\ detach' = IF LastOf(found) = RpcForkPoint
                             THEN detach \o ReversedSeq(found) ELSE detach
    /\ UNCHANGED <<vars, gsp, to, queriedAttach>>

TargetHeight == IF to = NoBlock THEN GetTipHeight(table) ELSE Height[to]

(* Mutant: blocks that do not match up are sent. *)
MayAttachMismatch(found) ==
    \/ Height[LastOf(found)] < GetLowestUnprunedHeight(table)
    \/ LastOf(found) \in Known(table)

(* Mutant: blocks that X does not know yet are sent. *)
MayAttachUnknown(found) == Parent[found[1]] = RpcForkPoint

(***************************************************************************)
(* Blocks that do not match up, or that X does not know yet although they  *)
(* are not below its pruning depth, are not sent.                          *)
(***************************************************************************)
MayAttach(found) ==
    /\ Parent[found[1]] = RpcForkPoint
    /\ \/ Height[LastOf(found)] < GetLowestUnprunedHeight(table)
       \/ LastOf(found) \in Known(table)

(* GetBlockRange for the blocks to attach. *)
AttachFound(found) ==
    /\ rpcPc' = "reply"
    /\ queriedAttach' = IF found # <<>> /\ MayAttach(found) THEN found ELSE <<>>
    /\ UNCHANGED <<base, chain, members, pc, genesisHeight, locals, gsp, to, detach>>

ToAttach ==
    GetBlockRange(RpcForkHeight + 1, Smaller(BlockRange, TargetHeight - RpcForkHeight))

RpcAttach ==
    /\ rpcPc = "attach"
    /\ IF TargetHeight < RpcForkHeight
       THEN rpcPc' = "abort" /\ UNCHANGED <<vars, gsp, to, detach, queriedAttach>>
       ELSE AttachFound(ToAttach) /\ UNCHANGED faults

RpcAttachShort ==
    /\ rpcPc = "attach"
    /\ TargetHeight >= RpcForkHeight
    /\ faults < MaxFaults
    /\ faults' = faults + 1
    /\ \E found \in ShortAnswers(ToAttach) : AttachFound(found)

(* The "toblock" field of the reply. *)
ToBlock ==
    IF queriedAttach # <<>> THEN LastOf(queriedAttach)
    ELSE IF detach # <<>> THEN Parent[LastOf(detach)]
    ELSE gsp

EndRpc ==
    /\ rpcPc' = "none"
    /\ to' = NoBlock
    /\ detach' = <<>>
    /\ queriedAttach' = <<>>

(* The GSP has processed all the messages. *)
RpcReply ==
    /\ rpcPc = "reply"
    /\ gsp' = ToBlock
    /\ EndRpc
    /\ UNCHANGED vars

(***************************************************************************)
(* A call to the base chain, or sending a message, failed and threw: the   *)
(* GSP got only the messages sent before, and an error.                    *)
(***************************************************************************)
BlocksOnTheWay ==
    {gsp} \cup {Parent[detach[i]] : i \in 1 .. Len(detach)}
          \cup {queriedAttach[i] : i \in 1 .. Len(queriedAttach)}

RpcFails ==
    /\ faults < MaxFaults
    /\ rpcPc \in {"from", "to", "detach", "attach", "reply"}
    /\ faults' = faults + 1
    /\ gsp' \in BlocksOnTheWay
    /\ EndRpc
    /\ UNCHANGED <<base, chain, members, pc, genesisHeight, locals>>

-----------------------------------------------------------------------------
(* The RPC methods that only look at the chain.  Each holds mutChain, so   *)
(* that Sync is not in an update step.                                     *)

(* The process aborts unless there is a block at the height of the tip. *)
getblockchaininfo ==
    IF Main(table) = {} THEN [blocks |-> -1, bestblockhash |-> {}]
    ELSE [blocks |-> GetTipHeight(table),
          bestblockhash |-> {b \in Main(table) : Height[b] = GetTipHeight(table)}]

(* For pruned heights, the base chain is asked.  No block is an error. *)
getblockhash(h) ==
    LET stored == {b \in Main(table) : Height[b] = h}
    IN  IF stored # {} THEN stored
        ELSE IF h >= GetLowestUnprunedHeight(table) THEN {}
        ELSE {b \in Anc[baseTip] : Height[b] = h}

(* As above; and blocks that are stored off the main chain are found. *)
getblockheader(b) == IF b \in Known(table) \/ OnBaseChain(b) THEN {Height[b]} ELSE {}

(* A GSP starts at the block of the height at which its game begins. *)
GspStarts ==
    /\ gsp = NoBlock
    /\ pc = "idle"
    /\ \E h \in {Height[b] : b \in Block} : gsp' \in getblockhash(h)
    /\ UNCHANGED <<vars, rpc>>

(* The attaches that TipUpdatedFrom sends: those above the fork point. *)
SentAttaches ==
    {i \in 1 .. Len(attaches) : ~ OnlyDetaches /\ Height[attaches[i]] > ForkHeight}

(***************************************************************************)
(* A GSP on the branch of the old tip goes down towards the fork point, or *)
(* all the way and on to an attached block; one on an attached block goes  *)
(* on from there.  It need not get to the end: some of the messages may    *)
(* not be sent, or not reach it.                                           *)
(***************************************************************************)
GspFollows ==
    LET down == Detached \cup {ForkPoint}
    IN  \/ /\ gsp \in down
           /\ gsp' \in {b \in down : Height[b] =< Height[gsp]}
                       \cup {attaches[i] : i \in SentAttaches}
        \/ \E i, j \in SentAttaches :
              i =< j /\ gsp = attaches[i] /\ gsp' = attaches[j]

SyncStep ==
    /\ rpcPc = "none"
    /\ \/ BeginStep \/ AttachFirst \/ AttachShort \/ LookFurtherDown
       \/ BeginBatch \/ AttachNext \/ CommitBatch \/ FinishStep
       \/ pc # "notify" /\ CallFails
    /\ UNCHANGED <<gsp, rpc>>

(* The attach message for an imported block. *)
SyncImports ==
    /\ rpcPc = "none"
    /\ ImportNewTip
    /\ \/ UNCHANGED gsp
       \/ /\ table' # table
          /\ gsp = Parent[Tip(table')]
          /\ gsp' = Tip(table')
    /\ UNCHANGED rpc

SyncNotifies ==
    /\ TipUpdatedFrom \/ (pc = "notify" /\ CallFails)
    /\ GspFollows \/ UNCHANGED gsp
    /\ UNCHANGED rpc

BaseMoves ==
    /\ rpcPc # "reply"
    /\ \E b \in Block : BaseMove(b)
    /\ UNCHANGED <<gsp, rpc>>

(* A crash ends the request as well; the GSP is another process. *)
ServerCrashes ==
    /\ Crash
    /\ EndRpc
    /\ UNCHANGED gsp

RpcStep ==
    \/ \E t \in Targets : RpcBegin(t)
    \/ RpcFromHeight \/ RpcToHeight \/ RpcDetach \/ RpcAttach \/ RpcReply

SystemNext ==
    \/ BaseMoves
    \/ SyncStep
    \/ SyncImports
    \/ SyncNotifies
    \/ GspStarts
    \/ \E t \in Targets : RpcBegin(t)
    \/ RpcFromHeight
    \/ RpcToHeight
    \/ RpcDetach
    \/ RpcAttach
    \/ RpcAttachShort
    \/ RpcReply
    \/ RpcFails
    \/ ServerCrashes

(***************************************************************************)
(* Both threads go on: neither keeps mutChain for ever, and a GSP goes on  *)
(* asking until it is where it wants to be.                                *)
(***************************************************************************)
SystemFairness ==
    /\ []<><<UpdateStep>>_vars \/ <>(pc = "abort")
    /\ []<><<GspStarts \/ RpcStep>>_<<gsp, rpc>>

SystemSpec == SystemInit /\ [][SystemNext]_AllVars /\ SystemFairness

-----------------------------------------------------------------------------
(***************************************************************************)
(* The messages for a request fit together although the base chain may     *)
(* have moved between the calls: each detach is for the block the GSP is   *)
(* on by then, each attach for a child of it, and "toblock" is where they  *)
(* lead.                                                                   *)
(***************************************************************************)
MessagesFit ==
    rpcPc = "reply" =>
        /\ \A i \in 1 .. Len(detach) :
              detach[i] = IF i = 1 THEN gsp ELSE Parent[detach[i - 1]]
        /\ \A i \in 1 .. Len(queriedAttach) :
              Parent[queriedAttach[i]] =
                 IF i = 1 THEN RpcForkPoint ELSE queriedAttach[i - 1]
        /\ ToBlock = LastOf(<<RpcForkPoint>> \o queriedAttach)

(***************************************************************************)
(* "We need to make sure that we are not sending any attaches for blocks   *)
(* that are not in our local chain state, so GSPs cannot get stuck on them *)
(* in any case": X can always lead the GSP on from the block it is on.     *)
(* Even if it crashes now, that block is stored, or it is a pruned one     *)
(* that the base chain still has on its main chain.                        *)
(***************************************************************************)
GspNeverStuck ==
    gsp # NoBlock /\ Main(table) # {} =>
        LET durable == IF saves = <<>> THEN table ELSE saves[1]
        IN  \/ gsp \in Known(durable)
            \/ OnBaseChain(gsp) /\ Height[gsp] < GetLowestUnprunedHeight(durable)

(***************************************************************************)
(* Whoever asks for the blocks one after the other, from the genesis to    *)
(* the tip, is told of one chain that leads to bestblockhash, although its *)
(* lower part is pruned and comes from the base chain, which may be on     *)
(* another branch by now; and is told the right height for each of them.   *)
(***************************************************************************)
OneMainChain ==
    pc = "idle" /\ Main(table) # {} =>
        LET info == getblockchaininfo
        IN  /\ getblockhash(info.blocks) = info.bestblockhash
            /\ \A h \in 0 .. info.blocks : \E b \in Block :
                  /\ getblockhash(h) = {b}
                  /\ getblockheader(b) = {h}
                  /\ h > 0 => getblockhash(h - 1) = {Parent[b]}

(***************************************************************************)
(* No CHECK of PushZmqBlocks aborts the process because of a request: not  *)
(* the one that there is a main chain, and not the one that the target     *)
(* height is not below the fork point.                                     *)
(***************************************************************************)
RpcChecksHold == rpcPc # "abort"

(***************************************************************************)
(* PushZmqBlocks answers every request: "If there is an error, such as an  *)
(* unknown "from" block requested, then the method returns false".  It     *)
(* neither fails a CHECK nor does anything undefined.                      *)
(***************************************************************************)
RequestsAnswered == rpcPc \notin {"abort", "undefined"}

(***************************************************************************)
(* Once the base chain stays at a tip, and the GSP no longer asks for      *)
(* another block, it gets to the tip, and stays.                           *)
(***************************************************************************)
GspCatchesUp ==
    <>[][FALSE]_baseTip /\ <>[](to = NoBlock) => <>[](gsp = baseTip)

-----------------------------------------------------------------------------
(***************************************************************************)
(* The inductive invariant, on top of the one of Sync.                     *)
(***************************************************************************)
Durable == IF saves = <<>> THEN table ELSE saves[1]

Genesis == AncestorAt(baseTip, 0)

(* All that is stored descends from the genesis, which is never detached. *)
Grounded(t) ==
    /\ \A b \in Known(t) : Genesis \in Anc[b]
    /\ Genesis \notin OffMain(t)

(* A batch adds to what is durable. *)
DurableInv ==
    /\ Grounded(table) /\ Grounded(Durable)
    /\ Main(table) # {} => Main(Durable) # {}
    /\ Accounted(Durable) \subseteq Accounted(table)

GspInv ==
    gsp = NoBlock \/ gsp \in IF Main(table) = {} THEN {Genesis} ELSE Accounted(Durable)

(* The request: the detaches lead down from the GSP's block ... *)
DetachesInv ==
    /\ detach \in Seq(Block)
    /\ \A i \in 1 .. Len(detach) :
          /\ detach[i] = IF i = 1 THEN gsp ELSE Parent[detach[i - 1]]
          /\ detach[i] \in Accounted(table)
          /\ Parent[detach[i]] # NoBlock

(* ... and the attaches up from the fork point. *)
QueriedInv ==
    /\ queriedAttach \in Seq(Block)
    /\ rpcPc # "reply" => queriedAttach = <<>>
    /\ \A i \in 1 .. Len(queriedAttach) :
          /\ Parent[queriedAttach[i]] = IF i = 1 THEN RpcForkPoint ELSE queriedAttach[i - 1]
          /\ queriedAttach[i] \in Accounted(table)

RpcInv ==
    /\ rpcPc \in {"none", "from", "to", "detach", "attach", "reply", "abort", "undefined"}
    /\ to \in Block \cup {NoBlock}
    /\ rpcPc # "none" => pc = "idle"
    /\ rpcPc = "abort" => EarlyRequests
    /\ rpcPc \in {"none", "from"} => detach = <<>>
    /\ rpcPc \in {"from", "to", "detach", "attach", "reply"} =>
          gsp # NoBlock /\ Main(table) # {}
    /\ rpcPc \in {"to", "detach", "attach"} => RpcForkHeight =< Height[Tip(table)]
    /\ rpcPc \in {"to", "detach"} => to # NoBlock
    /\ rpcPc = "detach" => Height[to] < RpcForkHeight
    /\ rpcPc = "attach" /\ to # NoBlock => RpcForkHeight < Height[to]

SystemInv ==
    /\ Inv
    /\ DurableInv
    /\ GspInv
    /\ DetachesInv
    /\ QueriedInv
    /\ RpcInv
=============================================================================
