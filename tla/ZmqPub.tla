------------------------------- MODULE ZmqPub -------------------------------
(***************************************************************************)
(* The ZMQ publisher, with the trackedgames RPC and the GSPs that use it.  *)
(* It publishes block and pending-move notifications for each game that is *)
(* tracked, on one topic per kind of message and game, with a sequence     *)
(* number per topic.  Every method holds the instance's mutex and is one   *)
(* action; a method that sends to several games may throw after some.      *)
(***************************************************************************)
EXTENDS Naturals, Sequences, FiniteSets

CONSTANTS
    Game,
    Gsp,            \* the GSPs that connect to this instance
    GameOf,         \* the game of each GSP
    Block,          \* the blocks that are attached and detached
    MovesOf,        \* BlockData::moves of each block
    SeqNumbers,     \* how many sequence numbers there are: 2^32 in the code
    MaxDepth,       \* a bound on how often a game is tracked
    MaxMessages     \* a bound on the messages sent on one topic

Moves == UNION {{MovesOf[b][i] : i \in DOMAIN MovesOf[b]} : b \in Block}

ASSUME ZmqPubAssumption ==
    /\ GameOf \in [Gsp -> Game]
    /\ MovesOf \in [Block -> Seq(Moves)]
    /\ SeqNumbers \in Nat \ {0}
    /\ MaxDepth \in Nat
    /\ MaxMessages \in Nat

VARIABLES
    games,          \* the tracking depth of each game; 0 if it has no entry
    nextSeq,        \* per topic; 0 if it has no entry yet
    published,      \* (history) the messages sent on each topic
    running         \* the GSPs that run, and have their game tracked

vars == <<games, nextSeq, published, running>>

Topic == {"attach", "detach", "move"} \X Game

Init ==
    /\ games = [g \in Game |-> 0]
    /\ nextSeq = [p \in Topic |-> 0]
    /\ published = [p \in Topic |-> <<>>]
    /\ running = {}

Tracked == {g \in Game : games[g] > 0}

-----------------------------------------------------------------------------
(***************************************************************************)
(* PerTxData.  Of a move the model keeps its transaction, its namespace    *)
(* and name, whether its JSON is valid (ParseMoveJson), whether it has a   *)
(* "cmd" field, and the keys of its "g" object, if it has one.             *)
(***************************************************************************)
ParseMoveJson(mv) == mv.valid

GetMovesPerGame(mv) == IF ParseMoveJson(mv) /\ mv.ns = "p" THEN mv.g ELSE {}

AdminGames(mv) == IF ParseMoveJson(mv) /\ mv.ns = "g" /\ mv.cmd THEN {mv.name} ELSE {}

(* The loop over the moves: the ones in S are appended to an array. *)
Select(moves, S) ==
    LET array[i \in 0 .. Len(moves)] ==
            IF i = 0 THEN <<>>
            ELSE IF moves[i] \in S THEN Append(array[i - 1], moves[i]) ELSE array[i - 1]
    IN  array[Len(moves)]

MovesFor(moves, g) == Select(moves, {mv \in Moves : g \in GetMovesPerGame(mv)})

AdminFor(moves, g) == Select(moves, {mv \in Moves : g \in AdminGames(mv)})

-----------------------------------------------------------------------------
TrackGame(g) == games' = [games EXCEPT ![g] = @ + 1]

(* Mutant: the depth is not counted. *)
UntrackForAll(g) == games' = [games EXCEPT ![g] = 0]

UntrackGame(g) == games' = [games EXCEPT ![g] = IF @ = 0 THEN 0 ELSE @ - 1]

(* Mutant: a number is used up for games whose message was not sent. *)
SendMessagesNumbered(topics, data) ==
    /\ \A p \in topics : Len(published[p]) < MaxMessages
    /\ published' = [p \in Topic |->
          IF p \in topics
            THEN Append(published[p], [seq |-> nextSeq[p], data |-> data[p[2]]])
            ELSE published[p]]
    /\ nextSeq' = [p \in Topic |->
          IF games[p[2]] > 0 THEN (nextSeq[p] + 1) % SeqNumbers ELSE nextSeq[p]]

(***************************************************************************)
(* SendMessage on each of a set of topics; data gives the payload.  The    *)
(* number is increased after the message is sent.                          *)
(***************************************************************************)
SendMessages(topics, data) ==
    /\ \A p \in topics : Len(published[p]) < MaxMessages
    /\ published' = [p \in Topic |->
          IF p \in topics
            THEN Append(published[p], [seq |-> nextSeq[p], data |-> data[p[2]]])
            ELSE published[p]]
    /\ nextSeq' = [p \in Topic |->
          IF p \in topics THEN (nextSeq[p] + 1) % SeqNumbers ELSE nextSeq[p]]

(***************************************************************************)
(* SendBlock for all tracked games.  If sending throws, the games that got *)
(* the message are any ones: they are kept in an unordered map.            *)
(***************************************************************************)
SendBlock(prefix, b) ==
    LET data == [g \in Game |-> [block |-> b, moves |-> MovesFor(MovesOf[b], g),
                                admin |-> AdminFor(MovesOf[b], g)]]
    IN  /\ \E sent \in SUBSET Tracked : SendMessages({prefix} \X sent, data)
        /\ UNCHANGED <<games, running>>

SendBlockAttach(b) == SendBlock("attach", b)

SendBlockDetach(b) == SendBlock("detach", b)

(* Mutant: all the moves of the transaction are sent for each game. *)
SendAllPendingMoves(moves) ==
    LET data == [g \in Game |-> [tx |-> moves[1].txid, moves |-> moves]]
        affected == {g \in Tracked : MovesFor(moves, g) # <<>>}
    IN  /\ moves # <<>>
        /\ \E sent \in SUBSET affected : SendMessages({"move"} \X sent, data)
        /\ UNCHANGED <<games, running>>

(* The pending moves of one transaction. *)
SendPendingMoves(moves) ==
    LET data == [g \in Game |-> [tx |-> moves[1].txid, moves |-> MovesFor(moves, g)]]
        affected == {g \in Tracked : MovesFor(moves, g) # <<>>}
    IN  /\ moves # <<>>
        /\ \E sent \in SUBSET affected : SendMessages({"move"} \X sent, data)
        /\ UNCHANGED <<games, running>>

PendingMoves(b, x) == Select(MovesOf[b], {mv \in Moves : mv.txid = x})

Transactions == {mv.txid : mv \in Moves}

-----------------------------------------------------------------------------
(* A GSP has its game tracked while it runs, unless it dies. *)

GspStarts(c) ==
    /\ c \notin running
    /\ games[GameOf[c]] < MaxDepth
    /\ TrackGame(GameOf[c])
    /\ running' = running \cup {c}
    /\ UNCHANGED <<nextSeq, published>>

GspStops(c) ==
    /\ c \in running
    /\ UntrackGame(GameOf[c])
    /\ running' = running \ {c}
    /\ UNCHANGED <<nextSeq, published>>

GspDies(c) ==
    /\ c \in running
    /\ running' = running \ {c}
    /\ UNCHANGED <<games, nextSeq, published>>

(***************************************************************************)
(* Someone cleans up after a GSP that died, or untracks a game that is not *)
(* tracked.  The RPC method would let anyone untrack also the game of a    *)
(* GSP that runs; that nobody does is an assumption about the callers.     *)
(***************************************************************************)
CleansUp(g) ==
    /\ games[g] > Cardinality({c \in running : GameOf[c] = g}) \/ games[g] = 0
    /\ UntrackGame(g)
    /\ UNCHANGED <<nextSeq, published, running>>

Next ==
    \/ \E b \in Block : SendBlockAttach(b)
    \/ \E b \in Block : SendBlockDetach(b)
    \/ \E b \in Block, x \in Transactions : SendPendingMoves(PendingMoves(b, x))
    \/ \E c \in Gsp : GspStarts(c)
    \/ \E c \in Gsp : GspStops(c)
    \/ \E c \in Gsp : GspDies(c)
    \/ \E g \in Game : CleansUp(g)

Spec == Init /\ [][Next]_vars

-----------------------------------------------------------------------------
(***************************************************************************)
(* The depth "ensures that the logic will still work properly if multiple  *)
(* GSPs" for one game "share a single Xaya X instance": while a GSP runs,  *)
(* its game is tracked, in whatever order the others start, stop, die and  *)
(* are cleaned up after, as long as each tracking is undone at most once.  *)
(***************************************************************************)
TrackedWhileRunning == \A c \in running : GameOf[c] \in Tracked

(***************************************************************************)
(* A subscriber of a topic sees no gap and no repetition in the sequence   *)
(* numbers, although sending may throw for some games and not for others,  *)
(* and a game may be untracked and tracked again.                          *)
(***************************************************************************)
SequenceUnbroken ==
    \A p \in Topic : \A i \in 1 .. Len(published[p]) :
        published[p][i].seq = (i - 1) % SeqNumbers

(* The base chain has the same moves for a transaction wherever it has any. *)
SameMoves(b, x) == \A c \in Block : PendingMoves(c, x) \in {<<>>, PendingMoves(b, x)}

(***************************************************************************)
(* The moves of a transaction that a GSP is sent while it is pending are   *)
(* the ones it is sent again with the block that confirms it, in the same  *)
(* order: the filter by game does not depend on what else is in the block. *)
(* That the base chain has the same moves for it each time it is asked is  *)
(* a premise, since it is not this class's to promise.                     *)
(***************************************************************************)
PendingMatchesBlock ==
    \A g \in Game, i \in 1 .. MaxMessages, j \in 1 .. MaxMessages :
        LET pending == published[<<"move", g>>]
            attach == published[<<"attach", g>>]
        IN  i <= Len(pending) /\ j <= Len(attach) =>
               LET tx == pending[i].data.tx
                   b == attach[j].data.block
                   confirmed == Select(attach[j].data.moves,
                                       {mv \in Moves : mv.txid = tx})
               IN  PendingMoves(b, tx) # <<>> /\ SameMoves(b, tx)
                   => confirmed = pending[i].data.moves

-----------------------------------------------------------------------------
(***************************************************************************)
(* The inductive invariant: the next number of a topic is the number of    *)
(* messages it has seen, the depth of a game is at least the number of its *)
(* GSPs that run, and what was sent about a block or a transaction is what *)
(* the game has in it.                                                     *)
(***************************************************************************)
BlockMessage(b, g) ==
    [block |-> b, moves |-> MovesFor(MovesOf[b], g), admin |-> AdminFor(MovesOf[b], g)]

PendingMessage(b, x, g) ==
    [tx |-> PendingMoves(b, x)[1].txid, moves |-> MovesFor(PendingMoves(b, x), g)]

Pendings == {m \in Block \X Transactions : PendingMoves(m[1], m[2]) # <<>>}

DataFor(topic, g) ==
    IF topic = "move" THEN {PendingMessage(m[1], m[2], g) : m \in Pendings}
                      ELSE {BlockMessage(b, g) : b \in Block}

Data == UNION {DataFor(p[1], p[2]) : p \in Topic}

RunningFor(g) == {c \in running : GameOf[c] = g}

(* The type of the variables. *)
TypeOK ==
    /\ games \in [Game -> Nat]
    /\ nextSeq \in [Topic -> Nat]
    /\ published \in [Topic -> Seq([seq : Nat, data : Data])]
    /\ running \subseteq Gsp /\ IsFiniteSet(running)

NumberedByCount == \A p \in Topic : nextSeq[p] = Len(published[p]) % SeqNumbers

DepthCountsGsps == \A g \in Game : Cardinality(RunningFor(g)) =< games[g]

SentForGame ==
    \A p \in Topic : \A i \in 1 .. Len(published[p]) :
        published[p][i].data \in DataFor(p[1], p[2])

Inv == TypeOK /\ NumberedByCount /\ SequenceUnbroken /\ DepthCountsGsps /\ SentForGame
=============================================================================
