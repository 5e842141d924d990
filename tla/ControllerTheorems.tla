------------------------- MODULE ControllerTheorems -------------------------
(***************************************************************************)
(* Proofs about the Controller's parts: the publisher of ZmqPub, for every *)
(* set of games, GSPs and blocks, every width of the sequence numbers and  *)
(* any number of messages; and the threads of Lifecycle with the database, *)
(* for any number of RPC calls of each kind and any number of rounds that  *)
(* the loops over blocks take.                                             *)
(***************************************************************************)
EXTENDS ZmqPub, Lifecycle, SequenceTheorems, FiniteSetTheorems,
        WellFoundedInduction, TLAPS

-----------------------------------------------------------------------------
(* ZmqPub. *)

(* The number after the one of n messages is the one of n + 1. *)
LEMMA NextNumber ==
    ASSUME NEW n \in Nat
    PROVE  /\ n % SeqNumbers \in Nat
           /\ ((n % SeqNumbers) + 1) % SeqNumbers = (n + 1) % SeqNumbers
  <1> DEFINE N == SeqNumbers
             r == n % N
             q == n \div N
  <1>1. N \in Nat /\ N > 0
    BY ZmqPubAssumption
  <1> HIDE DEF N
  <1>2. r \in 0 .. N - 1 /\ q \in Nat /\ n = q * N + r
    BY <1>1
  <1> HIDE DEF r, q
  <1>3. (n + 1) % N = (r + 1) % N
    BY <1>1, <1>2
  <1> QED BY <1>2, <1>3 DEF N, r

LEMMA InitInv ==
    ASSUME Init
    PROVE  Inv
  <1>1. \A p \in Topic : published[p] = <<>> /\ nextSeq[p] = 0
    BY DEF Init
  <1>2. TypeOK
    <2>1. published \in [Topic -> Seq([seq : Nat, data : Data])]
      BY DEF Init
    <2> QED BY <2>1, FS_EmptySet DEF Init, TypeOK
  <1>3. NumberedByCount
    <2>1. 0 % SeqNumbers = 0 /\ Len(<<>>) = 0
      BY ZmqPubAssumption
    <2> QED BY <1>1, <2>1 DEF NumberedByCount
  <1>4. SequenceUnbroken
    BY <1>1 DEF SequenceUnbroken
  <1>5. DepthCountsGsps
    <2>1. \A g \in Game : RunningFor(g) = {} /\ games[g] = 0
      BY DEF Init, RunningFor
    <2> QED BY <2>1, FS_EmptySet DEF DepthCountsGsps
  <1>6. SentForGame
    BY <1>1 DEF SentForGame
  <1> QED BY <1>2, <1>3, <1>4, <1>5, <1>6 DEF Inv

(***************************************************************************)
(* One more message on each of some topics, with data that fits the topic. *)
(***************************************************************************)
LEMMA SendMessagesInv ==
    ASSUME Inv, NEW topics \in SUBSET Topic, NEW data,
           \A p \in topics : data[p[2]] \in DataFor(p[1], p[2]),
           SendMessages(topics, data), UNCHANGED <<games, running>>
    PROVE  Inv'
  <1> DEFINE Message == [seq : Nat, data : Data]
             e(p) == [seq |-> nextSeq[p], data |-> data[p[2]]]
  <1>1. /\ published \in [Topic -> Seq(Message)] /\ nextSeq \in [Topic -> Nat]
        /\ TypeOK /\ NumberedByCount /\ SequenceUnbroken /\ DepthCountsGsps /\ SentForGame
    BY DEF Inv, TypeOK
  <1>2. /\ published' = [p \in Topic |-> IF p \in topics THEN Append(published[p], e(p))
                                        ELSE published[p]]
        /\ nextSeq' = [p \in Topic |-> IF p \in topics THEN (nextSeq[p] + 1) % SeqNumbers
                                      ELSE nextSeq[p]]
    BY DEF SendMessages
  <1>3. ASSUME NEW p \in topics
        PROVE  /\ e(p) \in Message /\ e(p).seq = nextSeq[p]
               /\ e(p).data \in DataFor(p[1], p[2])
    <2>1. data[p[2]] \in DataFor(p[1], p[2])
      OBVIOUS
    <2>2. p \in Topic /\ data[p[2]] \in Data
      BY <2>1 DEF Data
    <2> QED BY <1>1, <2>1, <2>2
  <1>4. ASSUME NEW p \in Topic
        PROVE  /\ published'[p] \in Seq(Message) /\ nextSeq'[p] \in Nat
               /\ nextSeq'[p] = Len(published'[p]) % SeqNumbers
               /\ \A i \in 1 .. Len(published'[p]) :
                     /\ published'[p][i].seq = (i - 1) % SeqNumbers
                     /\ published'[p][i].data \in DataFor(p[1], p[2])
    <2>1. /\ published[p] \in Seq(Message) /\ Len(published[p]) \in Nat
          /\ nextSeq[p] \in Nat /\ nextSeq[p] = Len(published[p]) % SeqNumbers
          /\ \A i \in 1 .. Len(published[p]) :
                /\ published[p][i].seq = (i - 1) % SeqNumbers
                /\ published[p][i].data \in DataFor(p[1], p[2])
      <3> HIDE DEF Message
      <3>1. published[p] \in Seq(Message) /\ nextSeq[p] \in Nat
        BY <1>1
      <3>2. Len(published[p]) \in Nat
        BY <3>1
      <3>3. nextSeq[p] = Len(published[p]) % SeqNumbers
        BY <1>1 DEF NumberedByCount
      <3>4. \A i \in 1 .. Len(published[p]) : published[p][i].seq = (i - 1) % SeqNumbers
        BY <1>1 DEF SequenceUnbroken
      <3>5. \A i \in 1 .. Len(published[p]) : published[p][i].data \in DataFor(p[1], p[2])
        BY <1>1 DEF SentForGame
      <3> QED BY <3>1, <3>2, <3>3, <3>4, <3>5
    <2>2. CASE p \notin topics
      BY <1>2, <2>1, <2>2
    <2>3. CASE p \in topics
      <3>1. /\ published'[p] = Append(published[p], e(p))
            /\ nextSeq'[p] = (nextSeq[p] + 1) % SeqNumbers
        BY <1>2, <2>3
      <3>2. /\ e(p) \in Message /\ e(p).seq = nextSeq[p]
            /\ e(p).data \in DataFor(p[1], p[2])
        BY <1>3, <2>3
      <3> DEFINE n == Len(published[p])
      <3> HIDE DEF Message, e
      <3>3. /\ published'[p] \in Seq(Message) /\ Len(published'[p]) = n + 1
            /\ \A i \in 1 .. n : published'[p][i] = published[p][i]
            /\ published'[p][n + 1] = e(p)
        BY <2>1, <3>1, <3>2
      <3>4. /\ (n + 1) % SeqNumbers = (nextSeq[p] + 1) % SeqNumbers
            /\ (n + 1) % SeqNumbers \in Nat
        <4>1. n \in Nat /\ n + 1 \in Nat /\ nextSeq[p] = n % SeqNumbers
          BY <2>1
        <4> HIDE DEF n
        <4> QED BY <4>1, NextNumber
      <3>5. ASSUME NEW i \in 1 .. n + 1
            PROVE  /\ published'[p][i].seq = (i - 1) % SeqNumbers
                   /\ published'[p][i].data \in DataFor(p[1], p[2])
        <4>1. CASE i \in 1 .. n
          BY <2>1, <3>3, <4>1
        <4>2. CASE i = n + 1
          <5>1. i - 1 = n
            BY <2>1, <4>2
          <5> QED BY <2>1, <3>2, <3>3, <4>2, <5>1
        <4> QED BY <2>1, <4>1, <4>2
      <3> QED BY <3>1, <3>3, <3>4, <3>5
    <2> QED BY <2>2, <2>3
  <1> HIDE DEF e
  <1>5. published' \in [Topic -> Seq(Message)] /\ nextSeq' \in [Topic -> Nat]
    <2> HIDE DEF Message
    <2>1. DOMAIN published' = Topic /\ DOMAIN nextSeq' = Topic
      BY <1>2
    <2>2. /\ published' = [p \in Topic |-> published'[p]]
          /\ nextSeq' = [p \in Topic |-> nextSeq'[p]]
      BY <1>2
    <2> QED BY <1>4, <2>2
  <1>6. TypeOK'
    BY <1>1, <1>5 DEF TypeOK
  <1>7. NumberedByCount'
    BY <1>4 DEF NumberedByCount
  <1>8. SequenceUnbroken'
    BY <1>4 DEF SequenceUnbroken
  <1>9. DepthCountsGsps'
    BY <1>1 DEF DepthCountsGsps, RunningFor
  <1>10. SentForGame'
    BY <1>4 DEF SentForGame
  <1> QED BY <1>6, <1>7, <1>8, <1>9, <1>10 DEF Inv

(* A block, or the moves of a pending transaction, for some games. *)
LEMMA SendBlockInv ==
    ASSUME Inv, NEW prefix \in {"attach", "detach"}, NEW b \in Block, SendBlock(prefix, b)
    PROVE  Inv'
  <1> DEFINE data == [g \in Game |-> [block |-> b, moves |-> MovesFor(MovesOf[b], g),
                                     admin |-> AdminFor(MovesOf[b], g)]]
  <1>1. PICK sent \in SUBSET Tracked : SendMessages({prefix} \X sent, data)
    BY DEF SendBlock
  <1>2. UNCHANGED <<games, running>>
    BY DEF SendBlock
  <1>3. {prefix} \X sent \in SUBSET Topic
    BY DEF Tracked, Topic
  <1>4. ASSUME NEW p \in {prefix} \X sent
        PROVE  data[p[2]] \in DataFor(p[1], p[2])
    <2>1. p[1] = prefix /\ p[1] # "move" /\ p[2] \in Game
      BY DEF Tracked
    <2> QED BY <2>1 DEF DataFor, BlockMessage
  <1> HIDE DEF data
  <1> QED BY <1>1, <1>2, <1>3, <1>4, SendMessagesInv

LEMMA SendPendingMovesInv ==
    ASSUME Inv, NEW b \in Block, NEW x \in Transactions,
           SendPendingMoves(PendingMoves(b, x))
    PROVE  Inv'
  <1> DEFINE moves == PendingMoves(b, x)
             data == [g \in Game |-> [tx |-> moves[1].txid, moves |-> MovesFor(moves, g)]]
             affected == {g \in Tracked : MovesFor(moves, g) # <<>>}
  <1>1. PICK sent \in SUBSET affected : SendMessages({"move"} \X sent, data)
    BY DEF SendPendingMoves
  <1>2. UNCHANGED <<games, running>>
    BY DEF SendPendingMoves
  <1>3. {"move"} \X sent \in SUBSET Topic
    BY DEF Tracked, Topic
  <1>4. ASSUME NEW p \in {"move"} \X sent
        PROVE  data[p[2]] \in DataFor(p[1], p[2])
    <2>1. p[1] = "move" /\ p[2] \in Game
      BY DEF Tracked
    <2>2. <<b, x>> \in Pendings
      BY DEF Pendings, SendPendingMoves
    <2>3. data[p[2]] = PendingMessage(<<b, x>>[1], <<b, x>>[2], p[2])
      BY <2>1 DEF PendingMessage
    <2> HIDE DEF data
    <2> QED BY <2>1, <2>2, <2>3 DEF DataFor
  <1> HIDE DEF data
  <1> QED BY <1>1, <1>2, <1>3, <1>4, SendMessagesInv

-----------------------------------------------------------------------------
(* The GSPs of one game that run, when one starts or ends. *)
LEMMA RunningChanges ==
    ASSUME TypeOK, NEW c \in Gsp, NEW g \in Game
    PROVE  /\ IsFiniteSet(RunningFor(g)) /\ Cardinality(RunningFor(g)) \in Nat
           /\ c \notin running =>
                 Cardinality({d \in running \cup {c} : GameOf[d] = g})
                    = Cardinality(RunningFor(g)) + IF GameOf[c] = g THEN 1 ELSE 0
           /\ c \in running =>
                 Cardinality({d \in running \ {c} : GameOf[d] = g})
                    = Cardinality(RunningFor(g)) - IF GameOf[c] = g THEN 1 ELSE 0
  <1> DEFINE S == RunningFor(g)
             more == {d \in running \cup {c} : GameOf[d] = g}
             fewer == {d \in running \ {c} : GameOf[d] = g}
  <1>1. S \in SUBSET running /\ IsFiniteSet(running)
    BY DEF RunningFor, TypeOK
  <1>2. IsFiniteSet(S) /\ Cardinality(S) \in Nat
    BY <1>1, FS_Subset, FS_CardinalityType
  <1>3. more = IF GameOf[c] = g THEN S \cup {c} ELSE S
    BY DEF RunningFor
  <1>4. fewer = IF GameOf[c] = g THEN S \ {c} ELSE S
    BY DEF RunningFor
  <1>5. c \in S <=> c \in running /\ GameOf[c] = g
    BY DEF RunningFor
  <1> HIDE DEF S, more, fewer
  <1>6. /\ c \notin S => Cardinality(S \cup {c}) = Cardinality(S) + 1
        /\ c \in S => Cardinality(S \ {c}) = Cardinality(S) - 1
    BY <1>2, FS_AddElement, FS_RemoveElement
  <1>7. c \notin running =>
           Cardinality(more) = Cardinality(S) + IF GameOf[c] = g THEN 1 ELSE 0
    BY <1>2, <1>3, <1>5, <1>6
  <1>8. c \in running =>
           Cardinality(fewer) = Cardinality(S) - IF GameOf[c] = g THEN 1 ELSE 0
    BY <1>2, <1>4, <1>5, <1>6
  <1> QED BY <1>2, <1>7, <1>8 DEF S, more, fewer

(* What a GSP and trackedgames do leaves the messages alone. *)
LEMMA TrackingInv ==
    ASSUME Inv, UNCHANGED <<nextSeq, published>>,
           games' \in [Game -> Nat], running' \subseteq Gsp, IsFiniteSet(running'),
           DepthCountsGsps'
    PROVE  Inv'
  <1>1. TypeOK'
    BY DEF Inv, TypeOK
  <1>2. NumberedByCount' /\ SequenceUnbroken'
    BY DEF Inv, NumberedByCount, SequenceUnbroken
  <1>3. SentForGame'
    BY DEF Inv, SentForGame
  <1> QED BY <1>1, <1>2, <1>3 DEF Inv

LEMMA GspStartsInv ==
    ASSUME Inv, NEW c \in Gsp, GspStarts(c)
    PROVE  Inv'
  <1>1. /\ TypeOK /\ c \notin running /\ running' = running \cup {c}
        /\ games' = [games EXCEPT ![GameOf[c]] = @ + 1] /\ UNCHANGED <<nextSeq, published>>
    BY DEF Inv, GspStarts, TrackGame
  <1>2. games' \in [Game -> Nat] /\ running' \subseteq Gsp /\ IsFiniteSet(running')
    <2>1. IsFiniteSet(running')
      BY <1>1, FS_AddElement DEF TypeOK
    <2>2. GameOf[c] \in Game /\ games \in [Game -> Nat] /\ running \subseteq Gsp
      BY <1>1, ZmqPubAssumption DEF TypeOK
    <2> QED BY <1>1, <2>1, <2>2
  <1>3. ASSUME NEW g \in Game
        PROVE  Cardinality(RunningFor(g)') =< games'[g]
    <2>1. RunningFor(g)' = {d \in running \cup {c} : GameOf[d] = g}
      BY <1>1 DEF RunningFor
    <2>2. games'[g] = games[g] + (IF GameOf[c] = g THEN 1 ELSE 0) /\ games[g] \in Nat
      BY <1>1 DEF TypeOK
    <2>3. Cardinality(RunningFor(g)) =< games[g]
      BY DEF Inv, DepthCountsGsps
    <2>4. /\ Cardinality(RunningFor(g)) \in Nat
          /\ Cardinality(RunningFor(g)')
                = Cardinality(RunningFor(g)) + IF GameOf[c] = g THEN 1 ELSE 0
      BY <1>1, <2>1, RunningChanges
    <2> QED BY <2>2, <2>3, <2>4
  <1>4. DepthCountsGsps'
    BY <1>3 DEF DepthCountsGsps
  <1> QED BY <1>1, <1>2, <1>4, TrackingInv

(* A GSP ends with its game untracked, or without. *)
LEMMA GspEndsInv ==
    ASSUME Inv, NEW c \in Gsp, GspStops(c) \/ GspDies(c)
    PROVE  Inv'
  <1>1. /\ TypeOK /\ c \in running /\ running' = running \ {c}
        /\ UNCHANGED <<nextSeq, published>>
        /\ \/ games' = [games EXCEPT ![GameOf[c]] = IF @ = 0 THEN 0 ELSE @ - 1]
           \/ games' = games
    BY DEF Inv, GspStops, GspDies, UntrackGame
  <1>2. games' \in [Game -> Nat] /\ running' \subseteq Gsp /\ IsFiniteSet(running')
    <2>1. IsFiniteSet(running')
      BY <1>1, FS_RemoveElement DEF TypeOK
    <2>2. GameOf[c] \in Game /\ games \in [Game -> Nat] /\ running \subseteq Gsp
      BY <1>1, ZmqPubAssumption DEF TypeOK
    <2>3. games' \in [Game -> Nat]
      BY <1>1, <2>2
    <2> QED BY <1>1, <2>1, <2>2, <2>3
  <1>3. ASSUME NEW g \in Game
        PROVE  Cardinality(RunningFor(g)') =< games'[g]
    <2>1. RunningFor(g)' = {d \in running \ {c} : GameOf[d] = g}
      BY <1>1 DEF RunningFor
    <2>2. /\ games[g] \in Nat
          /\ \/ games'[g] = games[g]
             \/ GameOf[c] = g /\ games'[g] = (IF games[g] = 0 THEN 0 ELSE games[g] - 1)
      BY <1>1 DEF TypeOK
    <2>3. Cardinality(RunningFor(g)) =< games[g]
      BY DEF Inv, DepthCountsGsps
    <2>4. /\ Cardinality(RunningFor(g)) \in Nat
          /\ Cardinality(RunningFor(g)')
                = Cardinality(RunningFor(g)) - IF GameOf[c] = g THEN 1 ELSE 0
      BY <1>1, <2>1, RunningChanges
    <2> QED BY <2>2, <2>3, <2>4
  <1>4. DepthCountsGsps'
    BY <1>3 DEF DepthCountsGsps
  <1> QED BY <1>1, <1>2, <1>4, TrackingInv

LEMMA CleansUpInv ==
    ASSUME Inv, NEW g \in Game, CleansUp(g)
    PROVE  Inv'
  <1>1. /\ TypeOK /\ UNCHANGED <<nextSeq, published, running>>
        /\ games' = [games EXCEPT ![g] = IF @ = 0 THEN 0 ELSE @ - 1]
        /\ games[g] > Cardinality(RunningFor(g)) \/ games[g] = 0
    BY DEF Inv, CleansUp, UntrackGame, RunningFor
  <1>2. games' \in [Game -> Nat] /\ running' \subseteq Gsp /\ IsFiniteSet(running')
    BY <1>1 DEF TypeOK
  <1>3. ASSUME NEW h \in Game
        PROVE  Cardinality(RunningFor(h)') =< games'[h]
    <2>1. RunningFor(h)' = RunningFor(h)
      BY <1>1 DEF RunningFor
    <2>2. /\ games[h] \in Nat
          /\ games'[h] = IF h # g THEN games[h]
                         ELSE IF games[g] = 0 THEN 0 ELSE games[g] - 1
      BY <1>1 DEF TypeOK
    <2>3. Cardinality(RunningFor(h)) =< games[h] /\ Cardinality(RunningFor(h)) \in Nat
      <3>1. IsFiniteSet(RunningFor(h))
        BY <1>1, FS_Subset DEF TypeOK, RunningFor
      <3> QED BY <3>1, FS_CardinalityType DEF Inv, DepthCountsGsps
    <2> QED BY <1>1, <2>1, <2>2, <2>3
  <1>4. DepthCountsGsps'
    BY <1>3 DEF DepthCountsGsps
  <1> QED BY <1>1, <1>2, <1>4, TrackingInv

-----------------------------------------------------------------------------
(***************************************************************************)
(* The inductive invariant holds whatever is published, thrown, tracked    *)
(* and untracked.                                                          *)
(***************************************************************************)
THEOREM Invariance == Spec => []Inv
  <1>1. Init => Inv
    BY InitInv
  <1>2. Inv /\ [Next]_vars => Inv'
    <2> SUFFICES ASSUME Inv, [Next]_vars
                 PROVE  Inv'
      OBVIOUS
    <2>1. ASSUME NEW b \in Block, SendBlockAttach(b) \/ SendBlockDetach(b)
          PROVE  Inv'
      BY <2>1, SendBlockInv DEF SendBlockAttach, SendBlockDetach
    <2>2. ASSUME NEW b \in Block, NEW x \in Transactions,
                 SendPendingMoves(PendingMoves(b, x))
          PROVE  Inv'
      BY <2>2, SendPendingMovesInv
    <2>3. ASSUME NEW c \in Gsp, GspStarts(c)
          PROVE  Inv'
      BY <2>3, GspStartsInv
    <2>4. ASSUME NEW c \in Gsp, GspStops(c) \/ GspDies(c)
          PROVE  Inv'
      BY <2>4, GspEndsInv
    <2>5. ASSUME NEW g \in Game, CleansUp(g)
          PROVE  Inv'
      BY <2>5, CleansUpInv
    <2>6. CASE UNCHANGED vars
      <3>1. DepthCountsGsps' = DepthCountsGsps
        BY <2>6 DEF vars, DepthCountsGsps, RunningFor
      <3> QED BY <2>6, <3>1, TrackingInv DEF vars, Inv, TypeOK
    <2> QED BY <2>1, <2>2, <2>3, <2>4, <2>5, <2>6 DEF Next
  <1> QED BY <1>1, <1>2, PTL DEF Spec

(***************************************************************************)
(* The sequence numbers of each topic have no gap and no repetition, for   *)
(* every width of the counter: across its overflow, across exceptions that *)
(* let only some games have a message, and across games untracked and      *)
(* tracked again.                                                          *)
(***************************************************************************)
THEOREM NumbersUnbroken == Spec => []SequenceUnbroken
  <1>1. Inv => SequenceUnbroken
    BY DEF Inv
  <1> QED BY <1>1, Invariance, PTL

(***************************************************************************)
(* The game of a GSP that runs is tracked, however many GSPs share it and  *)
(* in whatever order they start, stop, die and are cleaned up after, as    *)
(* long as each tracking is undone at most once.                           *)
(***************************************************************************)
THEOREM RunningTracked == Spec => []TrackedWhileRunning
  <1>1. Inv => TrackedWhileRunning
    <2> SUFFICES ASSUME Inv, NEW c \in running
                 PROVE  GameOf[c] \in Tracked
      BY DEF TrackedWhileRunning
    <2> DEFINE g == GameOf[c]
    <2>1. c \in Gsp /\ g \in Game /\ games[g] \in Nat
      BY ZmqPubAssumption DEF Inv, TypeOK
    <2>2. IsFiniteSet(RunningFor(g)) /\ Cardinality(RunningFor(g)) \in Nat
      BY <2>1, RunningChanges DEF Inv
    <2>3. c \in RunningFor(g)
      BY DEF RunningFor
    <2>4. Cardinality(RunningFor(g)) # 0
      BY <2>2, <2>3, FS_EmptySet
    <2> QED BY <2>1, <2>2, <2>4 DEF Inv, DepthCountsGsps, Tracked
  <1> QED BY <1>1, Invariance, PTL

-----------------------------------------------------------------------------
(* The loops that select the moves of a game or of a transaction. *)

(* Every non-empty set of natural numbers has a least element. *)
LEMMA LeastNumber ==
    ASSUME NEW S \in SUBSET Nat, S # {}
    PROVE  \E m \in S : \A n \in S : m =< n
  <1>1. PICK m \in S : \A n \in S : ~ (<<n, m>> \in OpToRel(<, Nat))
    BY NatLessThanWellFounded, WFMin
  <1>2. \A n \in S : ~ (n < m)
    BY <1>1 DEF OpToRel
  <1> QED BY <1>2

(* One round of the loop of Select, and an array that n rounds build. *)
Round(moves, S, array, i) ==
    IF i = 0 THEN <<>>
    ELSE IF moves[i] \in S THEN Append(array[i - 1], moves[i]) ELSE array[i - 1]

Rounds(moves, S, n, array) ==
    array = [i \in 0 .. n |-> Round(moves, S, array, i)]

(* There is such an array; it holds selected moves. *)
LEMMA SelectExists ==
    ASSUME NEW X, NEW S, NEW moves \in Seq(X), NEW n \in 0 .. Len(moves)
    PROVE  \E array \in [0 .. n -> Seq(X \cap S)] : Rounds(moves, S, n, array)
  <1> DEFINE Good(k) == \E array \in [0 .. k -> Seq(X \cap S)] : Rounds(moves, S, k, array)
             T == {k \in 0 .. Len(moves) : ~ Good(k)}
  <1>0. Len(moves) \in Nat /\ \A k \in 1 .. Len(moves) : moves[k] \in X
    OBVIOUS
  <1>1. ASSUME T # {} PROVE FALSE
    <2>1. PICK k \in T : \A l \in T : k =< l
      <3>1. T \in SUBSET Nat BY <1>0
      <3> QED BY <1>1, <3>1, LeastNumber
    <2>2. k \in 0 .. Len(moves) /\ ~ Good(k)
      OBVIOUS
    <2>3. k # 0
      <3> DEFINE array == [i \in 0 .. 0 |-> <<>>]
      <3>1. array \in [0 .. 0 -> Seq(X \cap S)]
        OBVIOUS
      <3>2. Rounds(moves, S, 0, array)
        BY DEF Rounds, Round
      <3> QED BY <3>1, <3>2, <2>2
    <2>4. k - 1 \in 0 .. Len(moves) /\ k - 1 \notin T /\ k \in Nat /\ k - 1 \in Nat
      <3> HIDE DEF T
      <3> QED BY <1>0, <2>1, <2>2, <2>3
    <2>5. PICK array \in [0 .. k - 1 -> Seq(X \cap S)] : Rounds(moves, S, k - 1, array)
      BY <2>4
    <2> DEFINE last == Round(moves, S, array, k)
               more == [i \in 0 .. k |-> IF i = k THEN last ELSE array[i]]
    <2>6. array[k - 1] \in Seq(X \cap S) /\ moves[k] \in X
      BY <1>0, <2>2, <2>3, <2>4
    <2>7. last \in Seq(X \cap S)
      <3> HIDE DEF T
      <3>1. CASE moves[k] \in S
        <4>1. moves[k] \in X \cap S
          BY <2>6, <3>1
        <4>2. Append(array[k - 1], moves[k]) \in Seq(X \cap S)
          BY <2>6, <4>1
        <4> QED BY <2>3, <3>1, <4>2 DEF Round
      <3>2. CASE moves[k] \notin S
        BY <2>3, <2>6, <3>2 DEF Round
      <3> QED BY <3>1, <3>2
    <2> HIDE DEF last
    <2>8. more \in [0 .. k -> Seq(X \cap S)]
      <3> SUFFICES ASSUME NEW i \in 0 .. k
                   PROVE  more[i] \in Seq(X \cap S)
        OBVIOUS
      <3>1. i = k \/ i \in 0 .. k - 1
        BY <2>4
      <3> QED BY <2>5, <2>7, <3>1
    <2>9. Rounds(moves, S, k, more)
      <3> SUFFICES ASSUME NEW i \in 0 .. k
                   PROVE  more[i] = Round(moves, S, more, i)
        BY DEF Rounds
      <3>0. i \in Nat /\ k \in Nat /\ k # 0
        BY <2>3, <2>4
      <3>1. CASE i = k
        <4>1. more[k - 1] = array[k - 1]
          BY <3>0
        <4> QED BY <3>0, <3>1, <4>1 DEF last, Round
      <3>2. CASE i # k /\ i # 0
        <4>1. i \in 0 .. k - 1 /\ i - 1 \in 0 .. k - 1 /\ i - 1 # k /\ i - 1 \in 0 .. k
          BY <3>0, <3>2
        <4>2. more[i - 1] = array[i - 1] /\ more[i] = array[i]
          BY <3>2, <4>1
        <4>3. array[i] = Round(moves, S, array, i)
          BY <2>5, <4>1 DEF Rounds
        <4> HIDE DEF more
        <4> QED BY <3>2, <4>2, <4>3 DEF Round
      <3>3. CASE i # k /\ i = 0
        <4>1. i \in 0 .. k - 1
          BY <3>0, <3>3
        <4>2. array[i] = Round(moves, S, array, i)
          BY <2>5, <4>1 DEF Rounds
        <4> QED BY <3>3, <4>2 DEF Round
      <3> QED BY <3>1, <3>2, <3>3
    <2> HIDE DEF more
    <2> QED BY <2>2, <2>8, <2>9
  <1>2. n \notin T
    <2> HIDE DEF T
    <2> QED BY <1>1
  <1> QED BY <1>2

SameUpTo(s, t, m) == \A i \in 1 .. m : s[i] = t[i]

(* Two loops that see the same moves so far have the same array. *)
LEMMA RoundsAgree ==
    ASSUME NEW S, NEW s, NEW t, NEW m \in Nat, NEW n \in Nat, NEW f, NEW h,
           Rounds(s, S, m, f), Rounds(t, S, n, h), m =< n, SameUpTo(s, t, m)
    PROVE  f[m] = h[m]
  <1> DEFINE T == {k \in 0 .. m : f[k] # h[k]}
  <1>1. ASSUME T # {} PROVE FALSE
    <2>1. PICK k \in T : \A l \in T : k =< l
      <3>1. T \in SUBSET Nat OBVIOUS
      <3> QED BY <1>1, <3>1, LeastNumber
    <2>2. k \in 0 .. m /\ k \in 0 .. n /\ f[k] # h[k]
      OBVIOUS
    <2>3. f[k] = Round(s, S, f, k) /\ h[k] = Round(t, S, h, k)
      <3> HIDE DEF T
      <3> QED BY <2>2 DEF Rounds
    <2>4. CASE k = 0
      BY <2>2, <2>3, <2>4 DEF Round
    <2>5. CASE k # 0
      <3>1. k - 1 \in 0 .. m /\ k - 1 \notin T /\ k \in 1 .. m
        <4> HIDE DEF T
        <4> QED BY <2>1, <2>2, <2>5
      <3>2. f[k - 1] = h[k - 1] /\ s[k] = t[k]
        BY <3>1 DEF SameUpTo
      <3> QED BY <2>2, <2>3, <3>2 DEF Round
    <2> QED BY <2>4, <2>5
  <1>2. m \notin T
    <2> HIDE DEF T
    <2> QED BY <1>1
  <1> QED BY <1>2

(* Select is the last entry of it. *)
LEMMA SelectIs ==
    ASSUME NEW X, NEW S, NEW moves \in Seq(X)
    PROVE  \E array \in [0 .. Len(moves) -> Seq(X \cap S)] :
              Rounds(moves, S, Len(moves), array) /\ Select(moves, S) = array[Len(moves)]
  <1> DEFINE n == Len(moves)
             chosen == CHOOSE array : array = [i \in 0 .. n |->
                          IF i = 0 THEN <<>>
                          ELSE IF moves[i] \in S THEN Append(array[i - 1], moves[i])
                               ELSE array[i - 1]]
  <1>1. n \in Nat /\ n \in 0 .. Len(moves)
    OBVIOUS
  <1>2. PICK array \in [0 .. n -> Seq(X \cap S)] : Rounds(moves, S, n, array)
    BY <1>1, SelectExists
  <1>3. Rounds(moves, S, n, chosen)
    BY <1>2 DEF Rounds, Round
  <1>4. Select(moves, S) = chosen[n]
    BY DEF Select
  <1> HIDE DEF chosen
  <1>5. chosen[n] = array[n]
    <2>1. SameUpTo(moves, moves, n)
      BY DEF SameUpTo
    <2> QED BY <1>1, <1>2, <1>3, <2>1, RoundsAgree
  <1> QED BY <1>2, <1>4, <1>5

(* What is selected; no move; one more move. *)
LEMMA SelectFrom ==
    ASSUME NEW X, NEW S, NEW moves \in Seq(X)
    PROVE  Select(moves, S) \in Seq(X \cap S)
  <1>1. PICK array \in [0 .. Len(moves) -> Seq(X \cap S)] :
              Select(moves, S) = array[Len(moves)]
    BY SelectIs
  <1>2. Len(moves) \in 0 .. Len(moves)
    OBVIOUS
  <1> QED BY <1>1, <1>2

LEMMA SelectEmpty ==
    ASSUME NEW S
    PROVE  Select(<<>>, S) = <<>>
  <1>1. <<>> \in Seq({}) /\ Len(<<>>) = 0
    OBVIOUS
  <1>2. PICK array \in [0 .. Len(<<>>) -> Seq({} \cap S)] :
              Rounds(<<>>, S, Len(<<>>), array) /\ Select(<<>>, S) = array[Len(<<>>)]
    BY <1>1, SelectIs
  <1>3. Rounds(<<>>, S, 0, array) /\ Select(<<>>, S) = array[0]
    BY <1>1, <1>2
  <1>4. array[0] = Round(<<>>, S, array, 0)
    BY <1>3 DEF Rounds
  <1> QED BY <1>3, <1>4 DEF Round

LEMMA SelectAppend ==
    ASSUME NEW X, NEW S, NEW moves \in Seq(X), NEW mv \in X
    PROVE  Select(Append(moves, mv), S) =
              IF mv \in S THEN Append(Select(moves, S), mv) ELSE Select(moves, S)
  <1> DEFINE n == Len(moves)
             more == Append(moves, mv)
  <1>1. /\ n \in Nat /\ more \in Seq(X) /\ Len(more) = n + 1 /\ more[n + 1] = mv
        /\ \A i \in 1 .. n : moves[i] = more[i]
    OBVIOUS
  <1> HIDE DEF more
  <1>2. PICK f \in [0 .. n -> Seq(X \cap S)] :
              Rounds(moves, S, n, f) /\ Select(moves, S) = f[n]
    BY SelectIs
  <1> HIDE DEF n
  <1>3. PICK h \in [0 .. Len(more) -> Seq(X \cap S)] :
              Rounds(more, S, Len(more), h) /\ Select(more, S) = h[Len(more)]
    BY <1>1, SelectIs
  <1>4. f[n] = h[n]
    <2>1. n \in Nat /\ Len(more) \in Nat /\ n =< Len(more)
      BY <1>1
    <2>2. Rounds(moves, S, n, f) /\ Rounds(more, S, Len(more), h)
      BY <1>2, <1>3
    <2>3. SameUpTo(moves, more, n)
      BY <1>1 DEF SameUpTo
    <2> DEFINE k == Len(more)
    <2>4. k \in Nat /\ n =< k /\ Rounds(more, S, k, h)
      BY <2>1, <2>2
    <2> HIDE DEF k
    <2> QED BY <2>1, <2>2, <2>3, <2>4, RoundsAgree
  <1>5. h[n + 1] = Round(more, S, h, n + 1)
    <2>1. n + 1 \in 0 .. n + 1
      BY <1>1
    <2>2. h = [i \in 0 .. n + 1 |-> Round(more, S, h, i)]
      BY <1>1, <1>3 DEF Rounds
    <2> QED BY <2>1, <2>2
  <1>6. n + 1 # 0 /\ (n + 1) - 1 = n
    BY <1>1
  <1>7. h[n + 1] = IF more[n + 1] \in S THEN Append(h[n], more[n + 1]) ELSE h[n]
    BY <1>5, <1>6 DEF Round
  <1> QED BY <1>1, <1>2, <1>3, <1>4, <1>7 DEF more

(* Selecting twice is selecting once. *)
LEMMA SelectTwice ==
    ASSUME NEW X, NEW A, NEW B, NEW moves \in Seq(X)
    PROVE  Select(Select(moves, A), B) = Select(moves, A \cap B)
  <1> DEFINE Good(s) == Select(Select(s, A), B) = Select(s, A \cap B)
             T == {k \in Nat : \E s \in Seq(X) : Len(s) = k /\ ~ Good(s)}
  <1>1. ASSUME T # {} PROVE FALSE
    <2>1. PICK k \in T : \A l \in T : k =< l
      <3>1. T \in SUBSET Nat OBVIOUS
      <3> QED BY <1>1, <3>1, LeastNumber
    <2>2. PICK s \in Seq(X) : Len(s) = k /\ ~ Good(s)
      OBVIOUS
    <2>3. s # <<>>
      BY <2>2, SelectEmpty
    <2>4. PICK t \in Seq(X), mv \in X : s = Append(t, mv)
      BY <2>3, SequenceEmptyOrAppend
    <2>5. Len(t) \in Nat /\ Len(t) < k
      BY <2>2, <2>4
    <2>6. Good(t)
      <3>1. Len(t) \notin T
        <4> HIDE DEF T
        <4>1. k \in Nat BY <2>2
        <4> QED BY <2>1, <2>5, <4>1
      <3> QED BY <2>5, <3>1
    <2>7. Select(t, A) \in Seq(X \cap A)
      BY SelectFrom
    <2>8. Select(s, A) = IF mv \in A THEN Append(Select(t, A), mv) ELSE Select(t, A)
      BY <2>4, SelectAppend
    <2>9. Select(s, A \cap B) = IF mv \in A \cap B THEN Append(Select(t, A \cap B), mv)
                                ELSE Select(t, A \cap B)
      BY <2>4, SelectAppend
    <2>10. CASE mv \in A
      <3>1. Select(Append(Select(t, A), mv), B) =
               IF mv \in B THEN Append(Select(Select(t, A), B), mv)
                           ELSE Select(Select(t, A), B)
        <4>1. mv \in X \cap A
          BY <2>10
        <4> QED BY <2>7, <4>1, SelectAppend
      <3> QED BY <2>2, <2>6, <2>8, <2>9, <2>10, <3>1
    <2>11. CASE mv \notin A
      BY <2>2, <2>6, <2>8, <2>9, <2>11
    <2> QED BY <2>10, <2>11
  <1>2. Len(moves) \in Nat /\ Len(moves) \notin T
    <2>1. Len(moves) \in Nat OBVIOUS
    <2> HIDE DEF T
    <2> QED BY <1>1, <2>1
  <1> QED BY <1>2

(* The moves of a transaction in a block. *)
LEMMA PendingFacts ==
    ASSUME NEW b \in Block, NEW x
    PROVE  /\ MovesOf[b] \in Seq(Moves)
           /\ PendingMoves(b, x) \in Seq({mv \in Moves : mv.txid = x})
           /\ PendingMoves(b, x) # <<>> => PendingMoves(b, x)[1].txid = x
  <1> DEFINE X == {mv \in Moves : mv.txid = x}
  <1>1. MovesOf[b] \in Seq(Moves)
    BY ZmqPubAssumption
  <1>2. PendingMoves(b, x) \in Seq(Moves \cap X)
    BY <1>1, SelectFrom DEF PendingMoves
  <1>3. Moves \cap X = X
    OBVIOUS
  <1>4. PendingMoves(b, x) \in Seq(X)
    BY <1>2, <1>3
  <1>5. ASSUME PendingMoves(b, x) # <<>>
        PROVE  PendingMoves(b, x)[1].txid = x
    <2>1. PendingMoves(b, x)[1] \in X
      <3> HIDE DEF X
      <3> QED BY <1>4, <1>5
    <2> QED BY <2>1
  <1> QED BY <1>1, <1>4, <1>5

(* Filtering by game and by transaction commute. *)
LEMMA GameThenTransaction ==
    ASSUME NEW b \in Block, NEW x, NEW g \in Game
    PROVE  Select(MovesFor(MovesOf[b], g), {mv \in Moves : mv.txid = x})
              = MovesFor(PendingMoves(b, x), g)
  <1> DEFINE X == {mv \in Moves : mv.txid = x}
             G == {mv \in Moves : g \in GetMovesPerGame(mv)}
  <1>1. MovesOf[b] \in Seq(Moves)
    BY ZmqPubAssumption
  <1>2. MovesFor(MovesOf[b], g) = Select(MovesOf[b], G)
    BY DEF MovesFor
  <1>3. MovesFor(PendingMoves(b, x), g) = Select(Select(MovesOf[b], X), G)
    BY DEF MovesFor, PendingMoves
  <1> HIDE DEF X, G
  <1>4. G \cap X = X \cap G
    OBVIOUS
  <1>5. Select(Select(MovesOf[b], G), X) = Select(Select(MovesOf[b], X), G)
    <2>1. Select(Select(MovesOf[b], G), X) = Select(MovesOf[b], G \cap X)
      BY <1>1, SelectTwice
    <2>2. Select(Select(MovesOf[b], X), G) = Select(MovesOf[b], X \cap G)
      BY <1>1, SelectTwice
    <2> QED BY <1>4, <2>1, <2>2
  <1> QED BY <1>2, <1>3, <1>5 DEF X

(***************************************************************************)
(* What a game is sent of a pending transaction is what it is sent of it   *)
(* with the block that confirms it, for every content of the blocks: the   *)
(* filter by game keeps the order and commutes with the choice of the      *)
(* transaction, and no message is mixed up with another's.                 *)
(***************************************************************************)
THEOREM PendingConfirmed == Spec => []PendingMatchesBlock
  <1>1. Inv => PendingMatchesBlock
    <2> SUFFICES ASSUME Inv
                 PROVE  PendingMatchesBlock
      OBVIOUS
    <2> SUFFICES ASSUME NEW g \in Game, NEW i \in 1 .. MaxMessages, NEW j \in 1 .. MaxMessages,
                        i <= Len(published[<<"move", g>>]),
                        j <= Len(published[<<"attach", g>>])
                 PROVE  LET pending == published[<<"move", g>>]
                            attach == published[<<"attach", g>>]
                            tx == pending[i].data.tx
                            b == attach[j].data.block
                            confirmed == Select(attach[j].data.moves,
                                                {mv \in Moves : mv.txid = tx})
                        IN  PendingMoves(b, tx) # <<>> /\ SameMoves(b, tx)
                            => confirmed = pending[i].data.moves
      BY DEF PendingMatchesBlock
    <2>1. <<"move", g>> \in Topic /\ <<"attach", g>> \in Topic
      BY DEF Topic
    <2>2. i \in 1 .. Len(published[<<"move", g>>]) /\ j \in 1 .. Len(published[<<"attach", g>>])
      <3> DEFINE M == [seq : Nat, data : Data]
      <3>1. published \in [Topic -> Seq(M)]
        BY DEF Inv, TypeOK
      <3> HIDE DEF M
      <3>2. published[<<"move", g>>] \in Seq(M) /\ published[<<"attach", g>>] \in Seq(M)
        BY <2>1, <3>1
      <3>3. /\ Len(published[<<"move", g>>]) \in Nat
            /\ Len(published[<<"attach", g>>]) \in Nat
        BY <3>2
      <3> QED BY <3>3, ZmqPubAssumption
    <2> DEFINE sent == published[<<"move", g>>][i].data
               block == published[<<"attach", g>>][j].data
    <2>3. sent \in DataFor("move", g) /\ block \in DataFor("attach", g)
      <3>1. \A p \in Topic : \A k \in 1 .. Len(published[p]) :
                published[p][k].data \in DataFor(p[1], p[2])
        BY DEF Inv, SentForGame
      <3>2. sent \in DataFor(<<"move", g>>[1], <<"move", g>>[2])
        BY <2>1, <2>2, <3>1
      <3>3. block \in DataFor(<<"attach", g>>[1], <<"attach", g>>[2])
        BY <2>1, <2>2, <3>1
      <3> QED BY <3>2, <3>3
    <2>4. PICK m \in Pendings : sent = PendingMessage(m[1], m[2], g)
      BY <2>3 DEF DataFor
    <2>5. PICK c \in Block : block = BlockMessage(c, g)
      BY <2>3 DEF DataFor
    <2> HIDE DEF sent, block
    <2> DEFINE b == m[1]
               x == m[2]
    <2>6. b \in Block /\ PendingMoves(b, x) # <<>>
      BY <2>4 DEF Pendings
    <2>7. sent.tx = x /\ sent.moves = MovesFor(PendingMoves(b, x), g)
      BY <2>4, <2>6, PendingFacts DEF PendingMessage
    <2>8. block.block = c /\ block.moves = MovesFor(MovesOf[c], g)
      BY <2>5 DEF BlockMessage
    <2> HIDE DEF b, x
    <2>9. ASSUME SameMoves(c, x)
          PROVE  Select(block.moves, {mv \in Moves : mv.txid = x}) = sent.moves
      <3>1. PendingMoves(b, x) = PendingMoves(c, x)
        BY <2>6, <2>9 DEF SameMoves
      <3>2. Select(MovesFor(MovesOf[c], g), {mv \in Moves : mv.txid = x})
              = MovesFor(PendingMoves(c, x), g)
        BY GameThenTransaction
      <3> QED BY <2>7, <2>8, <3>1, <3>2
    <2> QED BY <2>7, <2>8, <2>9 DEF sent, block
  <1> QED BY <1>1, Invariance, PTL
-----------------------------------------------------------------------------
(* Database: steps, and what is open after them. *)

(* What a step is about. *)
LEMMA StepFacts ==
    ASSUME NEW s \in StepType
    PROVE  /\ s.op \in {"take", "put", "query"} => s.arg \in Statement
           /\ s.op \in {"savepoint", "commit"} => s.arg \in Batcher
           /\ s.op \in Calling => s.arg \in Method
           /\ s.op = "loop" => s.times \in Nat
           /\ s.op \in Talking => s.arg = ""
           /\ s.op \in {"take", "put", "query", "savepoint", "commit"} \cup Calling \cup Talking
    <1>1. s \in [op : {"take", "put", "query"}, arg : Statement] =>
            s.op \in {"take", "put", "query"} /\ s.arg \in Statement
        OBVIOUS
    <1>2. s \in [op : {"savepoint", "commit"}, arg : Batcher] =>
            s.op \in {"savepoint", "commit"} /\ s.arg \in Batcher
        OBVIOUS
    <1>3. s \in [op : {"call", "maybe"}, arg : Method] =>
            s.op \in {"call", "maybe"} /\ s.arg \in Method
        OBVIOUS
    <1>4. s \in [op : {"loop"}, arg : Method, times : Nat] =>
            s.op = "loop" /\ s.arg \in Method /\ s.times \in Nat
        OBVIOUS
    <1>5. s \in [op : Talking, arg : {""}] => s.op \in Talking /\ s.arg = ""
        OBVIOUS
    <1> HIDE DEF Statement, Batcher, Method
    <1> QED BY <1>1, <1>2, <1>3, <1>4, <1>5 DEF StepType, Calling, Talking

LEMMA DisjointObjects == Statement \cap Batcher = {}
    BY DEF Statement, Batcher

(* The open objects after a step are those before the steps that follow. *)
LEMMA SuffixOpen ==
    ASSUME NEW s \in Seq(StepType), NEW k \in 0 .. Len(s),
           NEW r, r = SubSeq(s, k + 1, Len(s))
    PROVE  /\ r \in Seq(StepType)
           /\ Len(r) = Len(s) - k
           /\ \A i \in 1 .. Len(r) : r[i] = s[k + i]
           /\ \A i \in 0 .. Len(r) : OpenAfter(r, i) = OpenAfter(s, k + i)
           /\ WellFormed(s) => WellFormed(r)
    <1>1. /\ r \in Seq(StepType)
          /\ Len(r) = Len(s) - k
          /\ \A i \in 1 .. Len(r) : r[i] = s[k + i]
        <2>1. \A i \in k + 1 .. Len(s) : s[i] \in StepType
            BY ElementOfSeq
        <2> QED BY <2>1, SubSeqProperties
    <1>2. ASSUME NEW i \in 0 .. Len(r)
          PROVE  OpenAfter(r, i) = OpenAfter(s, k + i)
        <2> DEFINE In(t, n, j) == /\ t[j].op \in Closing
                                  /\ \A l \in n + 1 .. j - 1 :
                                        ~ (t[l].op \in Opening /\ t[l].arg = t[j].arg)
        <2>1. \A j \in i + 1 .. Len(r) :
                /\ k + j \in k + i + 1 .. Len(s)
                /\ r[j] = s[k + j]
                /\ In(r, i, j) <=> In(s, k + i, k + j)
            <3> SUFFICES ASSUME NEW j \in i + 1 .. Len(r)
                         PROVE  /\ k + j \in k + i + 1 .. Len(s)
                                /\ r[j] = s[k + j]
                                /\ In(r, i, j) <=> In(s, k + i, k + j)
                OBVIOUS
            <3>1. \A l \in i + 1 .. j - 1 : k + l \in k + i + 1 .. k + j - 1 /\ r[l] = s[k + l]
                BY <1>1
            <3>2. \A m \in k + i + 1 .. k + j - 1 : m - k \in i + 1 .. j - 1 /\ r[m - k] = s[m]
                BY <1>1
            <3>3. k + j \in k + i + 1 .. Len(s) /\ r[j] = s[k + j]
                <4>1. Len(s) \in Nat /\ k \in Nat /\ Len(r) = Len(s) - k /\ i \in Nat /\ j \in 1 .. Len(r)
                    BY <1>1
                <4>2. k + j \in k + i + 1 .. Len(s)
                    BY ONLY <4>1, j \in i + 1 .. Len(r)
                <4>3. r[j] = s[k + j]
                    BY ONLY <1>1, <4>1
                <4> QED BY ONLY <4>2, <4>3
            <3>4. In(r, i, j) => In(s, k + i, k + j)
                <4> HAVE In(r, i, j)
                <4>1. s[k + j].op \in Closing
                    BY <3>3
                <4>2. ASSUME NEW m \in (k + i) + 1 .. (k + j) - 1
                      PROVE  ~ (s[m].op \in Opening /\ s[m].arg = s[k + j].arg)
                    <5>1. m - k \in i + 1 .. j - 1 /\ r[m - k] = s[m]
                        BY <3>2
                    <5> QED BY <3>3, <5>1
                <4> QED BY <4>1, <4>2
            <3>5. In(s, k + i, k + j) => In(r, i, j)
                BY <3>1, <3>3
            <3> QED BY <3>3, <3>4, <3>5
        <2>2. \A m \in k + i + 1 .. Len(s) : m - k \in i + 1 .. Len(r) /\ k + (m - k) = m
            BY <1>1
        <2>3. OpenAfter(r, i) = {r[j].arg : j \in {l \in i + 1 .. Len(r) : In(r, i, l)}}
            BY DEF OpenAfter
        <2>4. OpenAfter(s, k + i) = {s[j].arg : j \in {l \in k + i + 1 .. Len(s) : In(s, k + i, l)}}
            BY DEF OpenAfter
        <2> HIDE DEF In
        <2>5. ASSUME NEW j \in i + 1 .. Len(r), In(r, i, j)
              PROVE  r[j].arg \in OpenAfter(s, k + i)
            BY <2>1, <2>4, <2>5
        <2>6. ASSUME NEW m \in k + i + 1 .. Len(s), In(s, k + i, m)
              PROVE  s[m].arg \in OpenAfter(r, i)
            <3>1. m - k \in i + 1 .. Len(r) /\ k + (m - k) = m
                BY <2>2
            <3>2. r[m - k] = s[m] /\ In(r, i, m - k)
                BY <2>1, <2>6, <3>1
            <3> QED BY <2>3, <3>1, <3>2
        <2>7. OpenAfter(r, i) \subseteq OpenAfter(s, k + i)
            BY <2>3, <2>5
        <2>8. OpenAfter(s, k + i) \subseteq OpenAfter(r, i)
            BY <2>4, <2>6
        <2> QED BY <2>7, <2>8
    <1>3. WellFormed(s) => WellFormed(r)
        <2> SUFFICES ASSUME WellFormed(s), NEW i \in 1 .. Len(r)
                     PROVE  Fits(r[i], OpenAfter(r, i))
            BY DEF WellFormed
        <2>1. k + i \in 1 .. Len(s) /\ r[i] = s[k + i] /\ OpenAfter(r, i) = OpenAfter(s, k + i)
            BY <1>1, <1>2
        <2> QED BY <2>1 DEF WellFormed
    <1> QED BY <1>1, <1>2, <1>3

(* The same for the first step and the others. *)
LEMMA TailOpen ==
    ASSUME NEW s \in Seq(StepType), s # <<>>
    PROVE  /\ Tail(s) \in Seq(StepType)
           /\ Len(Tail(s)) = Len(s) - 1
           /\ Head(s) = s[1]
           /\ s[1] \in StepType
           /\ OpenAfter(Tail(s), 0) = OpenAfter(s, 1)
           /\ WellFormed(s) <=> WellFormed(Tail(s)) /\ Fits(s[1], OpenAfter(s, 1))
    <1>1. Len(s) \in Nat /\ Len(s) >= 1 /\ 1 \in 0 .. Len(s) /\ 1 + 1 = 2
        BY EmptySeq
    <1>2. Tail(s) = SubSeq(s, 1 + 1, Len(s))
        BY <1>1, TailIsSubSeq
    <1>3. /\ Tail(s) \in Seq(StepType)
          /\ Len(Tail(s)) = Len(s) - 1
          /\ \A i \in 1 .. Len(Tail(s)) : Tail(s)[i] = s[1 + i]
          /\ \A i \in 0 .. Len(Tail(s)) : OpenAfter(Tail(s), i) = OpenAfter(s, 1 + i)
          /\ WellFormed(s) => WellFormed(Tail(s))
        BY <1>1, <1>2, SuffixOpen
    <1>4. Head(s) = s[1] /\ s[1] \in StepType
        BY <1>1, ElementOfSeq
    <1>5. WellFormed(Tail(s)) /\ Fits(s[1], OpenAfter(s, 1)) => WellFormed(s)
        <2> SUFFICES ASSUME WellFormed(Tail(s)), Fits(s[1], OpenAfter(s, 1)), NEW i \in 1 .. Len(s)
                     PROVE  Fits(s[i], OpenAfter(s, i))
            BY DEF WellFormed
        <2>1. CASE i = 1
            BY <2>1
        <2>2. CASE i > 1
            <3>1. i - 1 \in 1 .. Len(Tail(s)) /\ 1 + (i - 1) = i
                BY <1>1, <1>3, <2>2
            <3>2. Tail(s)[i - 1] = s[i] /\ OpenAfter(Tail(s), i - 1) = OpenAfter(s, i)
                BY <1>3, <3>1
            <3> QED BY <3>1, <3>2 DEF WellFormed
        <2> QED BY <2>1, <2>2
    <1>6. WellFormed(s) => Fits(s[1], OpenAfter(s, 1))
        BY <1>1 DEF WellFormed
    <1> QED BY <1>1, <1>3, <1>4, <1>5, <1>6

LEMMA FirstOpen ==
    ASSUME NEW s \in Seq(StepType), s # <<>>
    PROVE  OpenAfter(s, 0) = IF s[1].op \in Opening THEN OpenAfter(s, 1) \ {s[1].arg}
                             ELSE IF s[1].op \in Closing THEN OpenAfter(s, 1) \cup {s[1].arg}
                             ELSE OpenAfter(s, 1)
    <1>1. Len(s) \in Nat /\ Len(s) >= 1
        BY EmptySeq
    <1> DEFINE In(n, j) == /\ s[j].op \in Closing
                           /\ \A l \in n + 1 .. j - 1 :
                                 ~ (s[l].op \in Opening /\ s[l].arg = s[j].arg)
    <1>2. OpenAfter(s, 0) = {s[j].arg : j \in {l \in 0 + 1 .. Len(s) : In(0, l)}}
        BY DEF OpenAfter
    <1>3. OpenAfter(s, 1) = {s[j].arg : j \in {l \in 1 + 1 .. Len(s) : In(1, l)}}
        BY DEF OpenAfter
    <1>4. \A j \in 2 .. Len(s) :
            In(0, j) <=> In(1, j) /\ ~ (s[1].op \in Opening /\ s[1].arg = s[j].arg)
        <2> SUFFICES ASSUME NEW j \in 2 .. Len(s)
                     PROVE  In(0, j) <=> In(1, j) /\ ~ (s[1].op \in Opening /\ s[1].arg = s[j].arg)
            OBVIOUS
        <2>1. 0 + 1 .. j - 1 = {1} \cup (1 + 1 .. j - 1)
            OBVIOUS
        <2> QED BY <2>1
    <1>5. In(0, 1) <=> s[1].op \in Closing
        OBVIOUS
    <1>6. Opening \cap Closing = {}
        BY DEF Opening, Closing
    <1> HIDE DEF In
    <1>7. 0 + 1 .. Len(s) = {1} \cup (2 .. Len(s)) /\ 1 + 1 .. Len(s) = 2 .. Len(s)
        BY <1>1
    <1>8. OpenAfter(s, 0) = {s[j].arg : j \in {l \in 2 .. Len(s) : In(0, l)}}
                               \cup (IF In(0, 1) THEN {s[1].arg} ELSE {})
        BY <1>2, <1>7
    <1>9. OpenAfter(s, 1) = {s[j].arg : j \in {l \in 2 .. Len(s) : In(1, l)}}
        BY <1>3, <1>7
    <1> QED BY <1>4, <1>5, <1>6, <1>8, <1>9

-----------------------------------------------------------------------------
(***************************************************************************)
(* A block of steps of the types in S, that takes and gives back nothing   *)
(* but objects of T, leads from P to Q: put before steps that find Q open, *)
(* and whatever its callers have open, it finds P open, and the same.      *)
(***************************************************************************)
Leads(S, T, P, block, Q) ==
    /\ block \in Seq(S)
    /\ \A F \in SUBSET (Object \ T) : \A r \in Seq(StepType) :
          WellFormed(r) /\ OpenAfter(r, 0) = Q \cup F
            => WellFormed(block \o r) /\ OpenAfter(block \o r, 0) = P \cup F

(* The steps that leave what is open as it is. *)
Neutral(S, T, P) ==
    {s \in S : \/ s.op = "query" /\ s.arg \in T \ P
               \/ s.op \in Calling /\ Uses[s.arg] \subseteq T /\ Uses[s.arg] \cap P = Holds[s.arg]
               \/ s.op \in Talking /\ T = Object /\ P = {}}

(* One step before others. *)
LEMMA OneStep ==
    ASSUME NEW s \in StepType, NEW r \in Seq(StepType)
    PROVE  /\ <<s>> \o r \in Seq(StepType)
           /\ WellFormed(<<s>> \o r) <=> WellFormed(r) /\ Fits(s, OpenAfter(r, 0))
           /\ OpenAfter(<<s>> \o r, 0) =
                IF s.op \in Opening THEN OpenAfter(r, 0) \ {s.arg}
                ELSE IF s.op \in Closing THEN OpenAfter(r, 0) \cup {s.arg}
                ELSE OpenAfter(r, 0)
    <1> DEFINE b == <<s>> \o r
    <1>1. <<s>> \in Seq(StepType) /\ Len(<<s>>) = 1 /\ <<s>>[1] = s
        OBVIOUS
    <1>2. /\ b \in Seq(StepType)
          /\ Len(b) = 1 + Len(r)
          /\ \A i \in 1 .. 1 + Len(r) : b[i] = IF i <= 1 THEN <<s>>[i] ELSE r[i - 1]
        BY <1>1, ConcatProperties
    <1>3. Len(r) \in Nat
        BY LenProperties
    <1>4. b # <<>> /\ b[1] = s
        BY <1>1, <1>2, <1>3
    <1> HIDE DEF b
    <1>5. /\ Tail(b) \in Seq(StepType)
          /\ Len(Tail(b)) = Len(r)
          /\ \A i \in 1 .. Len(Tail(b)) : Tail(b)[i] = b[i + 1]
        BY <1>2, <1>3, <1>4, HeadTailProperties
    <1>6. \A i \in 1 .. Len(Tail(b)) : Tail(b)[i] = r[i]
        <2> TAKE i \in 1 .. Len(Tail(b))
        <2>1. Tail(b)[i] = b[i + 1] /\ i + 1 \in 1 .. 1 + Len(r) /\ ~ (i + 1 <= 1) /\ (i + 1) - 1 = i
            BY <1>3, <1>5
        <2> QED BY <1>2, <2>1
    <1>7. Tail(b) = r
        BY <1>5, <1>6, SeqEqual
    <1> QED BY <1>2, <1>4, <1>7, TailOpen, FirstOpen DEF b

(* A statement is taken, or a batch is opened. *)
LEMMA OpenLeads ==
    ASSUME NEW S \in SUBSET StepType, NEW T, NEW P, NEW s \in S,
           s.op \in Opening, s.arg \in T, s.arg \notin P
    PROVE  Leads(S, T, P, <<s>>, P \cup {s.arg})
    <1>1. <<s>> \in Seq(S)
        OBVIOUS
    <1>2. ASSUME NEW F \in SUBSET (Object \ T), NEW r \in Seq(StepType),
                 WellFormed(r), OpenAfter(r, 0) = (P \cup {s.arg}) \cup F
          PROVE  WellFormed(<<s>> \o r) /\ OpenAfter(<<s>> \o r, 0) = P \cup F
        <2>1. Fits(s, OpenAfter(r, 0))
            BY <1>2 DEF Fits, Opening, Closing, Calling, Talking
        <2>2. s.arg \notin F
            OBVIOUS
        <2>3. s \in StepType
            OBVIOUS
        <2>4. /\ WellFormed(<<s>> \o r)
              /\ OpenAfter(<<s>> \o r, 0) = OpenAfter(r, 0) \ {s.arg}
            BY ONLY <1>2, <2>1, <2>3, r \in Seq(StepType), s.op \in Opening, OneStep
        <2>5. ((P \cup {s.arg}) \cup F) \ {s.arg} = P \cup F
            BY ONLY <2>2, s.arg \notin P
        <2> QED BY ONLY <1>2, <2>4, <2>5
    <1> QED BY <1>1, <1>2 DEF Leads

(* It is given back, or committed. *)
LEMMA CloseLeads ==
    ASSUME NEW S \in SUBSET StepType, NEW T, NEW P, NEW s \in S,
           s.op \in Closing, s.arg \in T, s.arg \notin P
    PROVE  Leads(S, T, P \cup {s.arg}, <<s>>, P)
    <1>1. <<s>> \in Seq(S)
        OBVIOUS
    <1>2. ASSUME NEW F \in SUBSET (Object \ T), NEW r \in Seq(StepType),
                 WellFormed(r), OpenAfter(r, 0) = P \cup F
          PROVE  WellFormed(<<s>> \o r) /\ OpenAfter(<<s>> \o r, 0) = (P \cup {s.arg}) \cup F
        <2>1. s.op \notin Opening \cup Calling \cup Talking
            BY DEF Opening, Closing, Calling, Talking
        <2>2. s.arg \notin F
            OBVIOUS
        <2>3. Fits(s, OpenAfter(r, 0))
            BY <1>2, <2>1, <2>2 DEF Fits
        <2>4. s \in StepType /\ s.op \notin Opening
            BY <2>1
        <2>5. /\ WellFormed(<<s>> \o r)
              /\ OpenAfter(<<s>> \o r, 0) = OpenAfter(r, 0) \cup {s.arg}
            BY ONLY <1>2, <2>3, <2>4, r \in Seq(StepType), s.op \in Closing, OneStep
        <2>6. (P \cup F) \cup {s.arg} = (P \cup {s.arg}) \cup F
            OBVIOUS
        <2> QED BY ONLY <1>2, <2>5, <2>6
    <1> QED BY <1>1, <1>2 DEF Leads

(* One block after another. *)
LEMMA SequenceLeads ==
    ASSUME NEW S \in SUBSET StepType, NEW T, NEW P, NEW Q, NEW R, NEW b, NEW c,
           Leads(S, T, P, b, Q), Leads(S, T, Q, c, R)
    PROVE  Leads(S, T, P, b \o c, R)
    <1>1. b \in Seq(S) /\ c \in Seq(S)
        BY DEF Leads
    <1>2. b \o c \in Seq(S)
        BY <1>1, ConcatProperties
    <1>3. b \in Seq(StepType) /\ c \in Seq(StepType)
        BY <1>1, SeqMonotonic
    <1>4. ASSUME NEW F \in SUBSET (Object \ T), NEW r \in Seq(StepType),
                 WellFormed(r), OpenAfter(r, 0) = R \cup F
          PROVE  WellFormed((b \o c) \o r) /\ OpenAfter((b \o c) \o r, 0) = P \cup F
        <2>1. c \o r \in Seq(StepType)
            BY <1>3, ConcatProperties
        <2>2. WellFormed(c \o r) /\ OpenAfter(c \o r, 0) = Q \cup F
            BY <1>4 DEF Leads
        <2>3. WellFormed(b \o (c \o r)) /\ OpenAfter(b \o (c \o r), 0) = P \cup F
            BY <2>1, <2>2 DEF Leads
        <2>4. (b \o c) \o r = b \o (c \o r)
            BY <1>3, ConcatAssociative
        <2> QED BY <2>3, <2>4
    <1> QED BY <1>2, <1>4 DEF Leads

(* Steps of which each leaves what is open as it is. *)
LEMMA NeutralLeads ==
    ASSUME NEW S \in SUBSET StepType, NEW T, NEW P, NEW b \in Seq(Neutral(S, T, P))
    PROVE  Leads(S, T, P, b, P)
    <1>1. Neutral(S, T, P) \subseteq S
        BY DEF Neutral
    <1>2. b \in Seq(S) /\ b \in Seq(StepType) /\ Len(b) \in Nat
        BY <1>1, SeqMonotonic, LenProperties
    <1>3. ASSUME NEW F \in SUBSET (Object \ T), NEW r \in Seq(StepType),
                 WellFormed(r), OpenAfter(r, 0) = P \cup F
          PROVE  WellFormed(b \o r) /\ OpenAfter(b \o r, 0) = P \cup F
        <2> DEFINE s == b \o r
                   n == Len(b)
        <2>1. Len(r) \in Nat
            BY LenProperties
        <2>2. /\ s \in Seq(StepType)
              /\ Len(s) = n + Len(r)
              /\ \A i \in 1 .. n + Len(r) : s[i] = IF i <= n THEN b[i] ELSE r[i - n]
            BY <1>2, ConcatProperties
        <2> HIDE DEF s
        <2>3. \A i \in 1 .. n : s[i] \in Neutral(S, T, P)
            <3> TAKE i \in 1 .. n
            <3>1. i \in 1 .. n + Len(r) /\ i <= n
                BY <1>2, <2>1
            <3>2. s[i] = b[i]
                BY <2>2, <3>1
            <3> QED BY <3>2, ElementOfSeq
        <2> HIDE DEF n
        <2>4. n \in Nat
            BY <1>2 DEF n
        <2>5. /\ \A i \in 1 .. Len(r) : r[i] = s[n + i]
              /\ \A i \in 0 .. Len(r) : OpenAfter(r, i) = OpenAfter(s, n + i)
            <3> DEFINE q == SubSeq(s, n + 1, Len(s))
            <3>1. n \in 0 .. Len(s) /\ s \in Seq(StepType) /\ q = SubSeq(s, n + 1, Len(s))
                BY <2>1, <2>2, <2>4
            <3> HIDE DEF q
            <3>2. /\ q \in Seq(StepType)
                  /\ Len(q) = Len(s) - n
                  /\ \A i \in 1 .. Len(q) : q[i] = s[n + i]
                BY <3>1, SuffixOpen
            <3>6. \A i \in 0 .. Len(q) : OpenAfter(q, i) = OpenAfter(s, n + i)
                BY ONLY <3>1, SuffixOpen, ZenonT(60)
            <3>3. Len(q) = Len(r)
                BY <2>1, <2>2, <2>4, <3>2
            <3>4. \A i \in 1 .. Len(r) : q[i] = r[i]
                <4> TAKE i \in 1 .. Len(r)
                <4>1. n + i \in 1 .. n + Len(r) /\ ~ (n + i <= n) /\ (n + i) - n = i
                    BY <2>1, <2>4
                <4>2. q[i] = s[n + i] /\ s[n + i] = r[i]
                    BY <2>2, <3>2, <3>3, <4>1
                <4> QED BY <4>2
            <3>5. q = r
                BY <3>2, <3>3, <3>4, SeqEqual
            <3> QED BY <3>2, <3>5, <3>6
        <2>6. n \in 0 .. Len(s)
            BY <2>1, <2>2, <2>4
        <2>8. OpenAfter(s, n) = P \cup F
            <3>1. 0 \in 0 .. Len(r) /\ n + 0 = n
                BY <2>1, <2>4
            <3> QED BY <1>3, <2>5, <3>1
        <2>9. ASSUME NEW i \in 1 .. n
              PROVE  /\ s[i].op \notin Opening \cup Closing
                     /\ Fits(s[i], P \cup F)
            <3>1. s[i] \in Neutral(S, T, P)
                BY <2>3
            <3>2. CASE s[i].op = "query" /\ s[i].arg \in T \ P
                BY <3>2 DEF Fits, Opening, Closing, Calling, Talking
            <3>3. CASE /\ s[i].op \in Calling
                       /\ Uses[s[i].arg] \subseteq T
                       /\ Uses[s[i].arg] \cap P = Holds[s[i].arg]
                <4>1. s[i].op \notin Opening \cup Closing \cup Talking \cup {"query"}
                    BY <3>3 DEF Opening, Closing, Calling, Talking
                <4>2. Uses[s[i].arg] \cap (P \cup F) = Holds[s[i].arg]
                    BY <3>3
                <4> QED BY <4>1, <4>2 DEF Fits
            <3>4. CASE s[i].op \in Talking /\ T = Object /\ P = {}
                <4>1. P \cup F = {}
                    BY <3>4
                <4> QED BY <3>4, <4>1 DEF Fits, Opening, Closing, Calling, Talking
            <3> QED BY <3>1, <3>2, <3>3, <3>4 DEF Neutral
        <2>10. ASSUME NEW i \in 0 .. n
               PROVE  OpenAfter(s, i) = P \cup F
            <3> DEFINE In(m, j) == /\ s[j].op \in Closing
                                   /\ \A l \in m + 1 .. j - 1 :
                                        ~ (s[l].op \in Opening /\ s[l].arg = s[j].arg)
            <3>1. OpenAfter(s, i) = {s[j].arg : j \in {l \in i + 1 .. Len(s) : In(i, l)}}
                BY DEF OpenAfter
            <3>2. OpenAfter(s, n) = {s[j].arg : j \in {l \in n + 1 .. Len(s) : In(n, l)}}
                BY DEF OpenAfter
            <3>3. \A j \in n + 1 .. Len(s) : In(i, j) <=> In(n, j)
                <4> TAKE j \in n + 1 .. Len(s)
                <4>1. In(i, j) => In(n, j)
                    BY <2>4
                <4>2. ASSUME In(n, j), NEW l \in i + 1 .. j - 1
                      PROVE  ~ (s[l].op \in Opening /\ s[l].arg = s[j].arg)
                    <5>1. CASE l \in 1 .. n
                        BY <2>9, <5>1
                    <5>2. CASE l \in n + 1 .. j - 1
                        BY <4>2, <5>2
                    <5> QED BY <2>4, <2>6, <5>1, <5>2
                <4> QED BY <4>1, <4>2
            <3>4. \A j \in i + 1 .. n : ~ In(i, j)
                BY <2>9
            <3>5. i + 1 .. Len(s) = (i + 1 .. n) \cup (n + 1 .. Len(s))
                BY <2>1, <2>2, <2>4, <2>6
            <3> HIDE DEF In
            <3>6. {l \in i + 1 .. Len(s) : In(i, l)} = {l \in n + 1 .. Len(s) : In(n, l)}
                BY <3>3, <3>4, <3>5
            <3> QED BY <2>8, <3>1, <3>2, <3>6
        <2>11. WellFormed(s)
            <3> SUFFICES ASSUME NEW i \in 1 .. Len(s)
                         PROVE  Fits(s[i], OpenAfter(s, i))
                BY DEF WellFormed
            <3>1. CASE i <= n
                <4>1. i \in 1 .. n /\ i \in 0 .. n
                    BY <2>4, <3>1
                <4> QED BY <2>9, <2>10, <4>1
            <3>2. CASE i > n
                <4>1. i - n \in 1 .. Len(r) /\ i - n \in 0 .. Len(r) /\ n + (i - n) = i
                    BY <2>1, <2>2, <2>4, <3>2
                <4>2. r[i - n] = s[i] /\ OpenAfter(r, i - n) = OpenAfter(s, i)
                    BY <2>5, <4>1
                <4> QED BY <1>3, <4>1, <4>2 DEF WellFormed
            <3> QED BY <2>4, <2>6, <3>1, <3>2
        <2>12. 0 \in 0 .. n
            BY <2>4
        <2> QED BY <2>10, <2>11, <2>12 DEF s
    <1> QED BY <1>2, <1>3 DEF Leads

-----------------------------------------------------------------------------
(* The steps that methods are made of. *)

LEMMA Methods ==
    /\ Method = {"FollowBranch", "GetForkBranch", "MakeMain", "MarkAsTip", "Prune",
                 "ImportTip", "SetTip", "SetTipFails", "CheckBranch", "SanityCheck",
                 "PushZmqBlocks", "ImportNewTip", "AttachBlocks", "Callback"}
    /\ \A m \in Method : Holds[m] = IF m = "CheckBranch" THEN {"branch, height"} ELSE {}
    /\ \A m \in Method : Uses[m] \subseteq Object
    <1>1. Method = {"FollowBranch", "GetForkBranch", "MakeMain", "MarkAsTip", "Prune",
                    "ImportTip", "SetTip", "SetTipFails", "CheckBranch", "SanityCheck",
                    "PushZmqBlocks", "ImportNewTip", "AttachBlocks", "Callback"}
        BY DEF Method, Body
    <1>2. \A m \in Method : Holds[m] = IF m = "CheckBranch" THEN {"branch, height"} ELSE {}
        BY DEF Holds
    <1>3. \A m \in Method : Uses[m] \subseteq Object
        <2>1. /\ Uses["FollowBranch"] \subseteq Object
              /\ Uses["GetForkBranch"] \subseteq Object
              /\ Uses["MakeMain"] \subseteq Object
              /\ Uses["MarkAsTip"] \subseteq Object
              /\ Uses["Prune"] \subseteq Object
              /\ Uses["SetTipFails"] \subseteq Object
              /\ Uses["CheckBranch"] \subseteq Object
            BY DEF Uses, Object, Statement, Batcher
        <2>2. /\ Uses["ImportTip"] \subseteq Object
              /\ Uses["SetTip"] \subseteq Object
              /\ Uses["SanityCheck"] \subseteq Object
            BY DEF Uses, Object, Statement, Batcher
        <2>3. /\ Uses["PushZmqBlocks"] \subseteq Object
              /\ Uses["ImportNewTip"] \subseteq Object
              /\ Uses["AttachBlocks"] \subseteq Object
              /\ Uses["Callback"] \subseteq Object
            BY DEF Uses
        <2> QED BY <1>1, <2>1, <2>2, <2>3
    <1> QED BY <1>1, <1>2, <1>3

LEMMA QuietSteps ==
    /\ QuietStep \subseteq StepType
    /\ \A x \in Statement : {Take(x), Put(x), Query(x)} \subseteq QuietStep
    /\ \A x \in Batcher : {Savepoint(x), Commit(x)} \subseteq QuietStep
    /\ \A m \in Method \ {"PushZmqBlocks"} :
          /\ {Call(m), Maybe(m)} \subseteq QuietStep
          /\ \A n \in Nat : Loop(m, n) \in QuietStep
    /\ {AskBase, Callback, EndTry} \subseteq QuietStep
    /\ {Publish, Call("PushZmqBlocks")} \subseteq StepType
    <1>1. \A x \in Statement \cup Batcher : x # "PushZmqBlocks"
        BY DEF Statement, Batcher
    <1>2. "PushZmqBlocks" \in Method
        BY Methods
    <1> HIDE DEF Statement, Batcher, Method
    <1>3. \A x \in Statement : {Take(x), Put(x), Query(x)} \subseteq QuietStep
        <2> TAKE x \in Statement
        <2>1. \A op \in {"take", "put", "query"} :
                /\ Step(op, x) \in [op : {"take", "put", "query"}, arg : Statement]
                /\ Step(op, x).op = op /\ Step(op, x).arg = x
            BY DEF Step
        <2>2. \A op \in {"take", "put", "query"} : Step(op, x) \in StepType
            BY <2>1 DEF StepType
        <2> HIDE DEF Step
        <2> QED BY <1>1, <2>1, <2>2 DEF QuietStep, Take, Put, Query
    <1>4. \A x \in Batcher : {Savepoint(x), Commit(x)} \subseteq QuietStep
        <2> TAKE x \in Batcher
        <2>1. \A op \in {"savepoint", "commit"} :
                /\ Step(op, x) \in [op : {"savepoint", "commit"}, arg : Batcher]
                /\ Step(op, x).op = op /\ Step(op, x).arg = x
            BY DEF Step
        <2>2. \A op \in {"savepoint", "commit"} : Step(op, x) \in StepType
            BY <2>1 DEF StepType
        <2> QED BY <1>1, <2>1, <2>2 DEF QuietStep, Savepoint, Commit
    <1>5. \A m \in Method :
            /\ \A op \in {"call", "maybe"} :
                 /\ Step(op, m) \in StepType
                 /\ Step(op, m).op = op /\ Step(op, m).arg = m
            /\ \A n \in Nat :
                 /\ Loop(m, n) \in StepType
                 /\ Loop(m, n).op = "loop" /\ Loop(m, n).arg = m
        <2> TAKE m \in Method
        <2>1. \A op \in {"call", "maybe"} :
                /\ Step(op, m) \in [op : {"call", "maybe"}, arg : Method]
                /\ Step(op, m).op = op /\ Step(op, m).arg = m
            BY DEF Step
        <2>2. \A n \in Nat :
                /\ Loop(m, n) \in [op : {"loop"}, arg : Method, times : Nat]
                /\ Loop(m, n).op = "loop" /\ Loop(m, n).arg = m
            BY DEF Loop
        <2> QED BY <2>1, <2>2 DEF StepType
    <1>6. \A m \in Method \ {"PushZmqBlocks"} :
             /\ {Call(m), Maybe(m)} \subseteq QuietStep
             /\ \A n \in Nat : Loop(m, n) \in QuietStep
        BY <1>5 DEF QuietStep, Call, Maybe
    <1>7. \A op \in Talking :
            /\ Step(op, "") \in StepType
            /\ Step(op, "").op = op /\ Step(op, "").arg = ""
        <2> TAKE op \in Talking
        <2>1. /\ Step(op, "") \in [op : Talking, arg : {""}]
              /\ Step(op, "").op = op /\ Step(op, "").arg = ""
            BY DEF Step
        <2> QED BY <2>1 DEF StepType
    <1>8. {AskBase, Callback, EndTry} \subseteq QuietStep /\ Publish \in StepType
        BY <1>7 DEF QuietStep, AskBase, Callback, EndTry, Publish, Talking
    <1>9. Call("PushZmqBlocks") \in StepType
        BY <1>2, <1>5 DEF Call
    <1> QED BY <1>3, <1>4, <1>6, <1>8, <1>9 DEF QuietStep

LEMMA TakeLeads ==
    ASSUME NEW T, NEW P, NEW Q, NEW x \in Statement \cap T, x \notin P, Q = P \cup {x}
    PROVE  Leads(QuietStep, T, P, <<Take(x)>>, Q)
    <1>1. Take(x) \in QuietStep /\ Take(x).op \in Opening /\ Take(x).arg = x
        BY QuietSteps DEF Take, Step, Opening
    <1> QED BY <1>1, QuietSteps, OpenLeads

LEMMA PutLeads ==
    ASSUME NEW T, NEW P, NEW Q, NEW x \in Statement \cap T, x \in P, Q = P \ {x}
    PROVE  Leads(QuietStep, T, P, <<Put(x)>>, Q)
    <1>1. Put(x) \in QuietStep /\ Put(x).op \in Closing /\ Put(x).arg = x
        BY QuietSteps DEF Put, Step, Closing
    <1>2. P = Q \cup {x} /\ x \notin Q
        OBVIOUS
    <1> QED BY <1>1, <1>2, QuietSteps, CloseLeads

LEMMA SavepointLeads ==
    ASSUME NEW T, NEW P, NEW Q, NEW x \in Batcher \cap T, x \notin P, Q = P \cup {x}
    PROVE  Leads(QuietStep, T, P, <<Savepoint(x)>>, Q)
    <1>1. Savepoint(x) \in QuietStep /\ Savepoint(x).op \in Opening /\ Savepoint(x).arg = x
        BY QuietSteps DEF Savepoint, Step, Opening
    <1> QED BY <1>1, QuietSteps, OpenLeads

LEMMA CommitLeads ==
    ASSUME NEW T, NEW P, NEW Q, NEW x \in Batcher \cap T, x \in P, Q = P \ {x}
    PROVE  Leads(QuietStep, T, P, <<Commit(x)>>, Q)
    <1>1. Commit(x) \in QuietStep /\ Commit(x).op \in Closing /\ Commit(x).arg = x
        BY QuietSteps DEF Commit, Step, Closing
    <1>2. P = Q \cup {x} /\ x \notin Q
        OBVIOUS
    <1> QED BY <1>1, <1>2, QuietSteps, CloseLeads

LEMMA AssignLeads ==
    ASSUME NEW T, NEW P, NEW Q,
           NEW old \in Statement \cap T, NEW new \in Statement \cap T,
           old \in P, new \notin P, Q = (P \ {old}) \cup {new}
    PROVE  Leads(QuietStep, T, P, Assign(old, new), Q)
    <1>1. Leads(QuietStep, T, P, <<Take(new)>>, P \cup {new})
        BY TakeLeads
    <1>2. Q = (P \cup {new}) \ {old} /\ old \in P \cup {new}
        OBVIOUS
    <1>3. Leads(QuietStep, T, P \cup {new}, <<Put(old)>>, Q)
        BY <1>2, PutLeads
    <1>4. Assign(old, new) = <<Take(new)>> \o <<Put(old)>>
        BY DEF Assign
    <1> QED BY <1>1, <1>3, <1>4, QuietSteps, SequenceLeads

LEMMA UsingLeads ==
    ASSUME NEW T, NEW P, NEW x \in Statement \cap T, x \notin P, NEW block,
           Leads(QuietStep, T, P \cup {x}, block, P \cup {x})
    PROVE  Leads(QuietStep, T, P, Using(x, block), P)
    <1>1. Leads(QuietStep, T, P, <<Take(x)>>, P \cup {x})
        BY TakeLeads
    <1>2. P = (P \cup {x}) \ {x}
        OBVIOUS
    <1>3. Leads(QuietStep, T, P \cup {x}, <<Put(x)>>, P)
        BY <1>2, PutLeads
    <1>4. Leads(QuietStep, T, P, <<Take(x)>> \o block, P \cup {x})
        BY <1>1, QuietSteps, SequenceLeads
    <1> QED BY <1>3, <1>4, QuietSteps, SequenceLeads DEF Using

LEMMA BatchLeads ==
    ASSUME NEW T, NEW P, NEW x \in Batcher \cap T, x \notin P, NEW block,
           Leads(QuietStep, T, P \cup {x}, block, P \cup {x})
    PROVE  Leads(QuietStep, T, P, Batch(x, block), P)
    <1>1. Leads(QuietStep, T, P, <<Savepoint(x)>>, P \cup {x})
        BY SavepointLeads
    <1>2. P = (P \cup {x}) \ {x}
        OBVIOUS
    <1>3. Leads(QuietStep, T, P \cup {x}, <<Commit(x)>>, P)
        BY <1>2, CommitLeads
    <1>4. Leads(QuietStep, T, P, <<Savepoint(x)>> \o block, P \cup {x})
        BY <1>1, QuietSteps, SequenceLeads
    <1> QED BY <1>3, <1>4, QuietSteps, SequenceLeads DEF Batch

LEMMA QueryNeutral ==
    ASSUME NEW T, NEW P, NEW x \in Statement \cap T, x \notin P
    PROVE  Query(x) \in Neutral(QuietStep, T, P)
    <1>1. Query(x) \in QuietStep /\ Query(x).op = "query" /\ Query(x).arg = x
        BY QuietSteps DEF Query, Step
    <1> QED BY <1>1 DEF Neutral

LEMMA CallNeutral ==
    ASSUME NEW T, NEW P, NEW m \in Method \ {"PushZmqBlocks"},
           Uses[m] \subseteq T, Uses[m] \cap P = Holds[m]
    PROVE  /\ Call(m) \in Neutral(QuietStep, T, P)
           /\ Maybe(m) \in Neutral(QuietStep, T, P)
           /\ \A n \in Nat : Loop(m, n) \in Neutral(QuietStep, T, P)
    <1>1. /\ Call(m) \in QuietStep /\ Call(m).op = "call" /\ Call(m).arg = m
          /\ Maybe(m) \in QuietStep /\ Maybe(m).op = "maybe" /\ Maybe(m).arg = m
        BY QuietSteps DEF Call, Maybe, Step
    <1>2. \A n \in Nat : Loop(m, n) \in QuietStep /\ Loop(m, n).op = "loop" /\ Loop(m, n).arg = m
        BY QuietSteps DEF Loop
    <1>3. Call(m) \in Neutral(QuietStep, T, P)
        BY <1>1 DEF Neutral, Calling
    <1>4. Maybe(m) \in Neutral(QuietStep, T, P)
        BY <1>1 DEF Neutral, Calling
    <1>5. \A n \in Nat : Loop(m, n) \in Neutral(QuietStep, T, P)
        BY <1>2 DEF Neutral, Calling
    <1> QED BY <1>3, <1>4, <1>5

(* With nothing open, and everything given back, all but one may be called. *)
LEMMA FreelyNeutral ==
    /\ \A x \in Statement : Query(x) \in Neutral(QuietStep, Object, {})
    /\ \A m \in Method \ {"PushZmqBlocks", "CheckBranch"} :
          Call(m) \in Neutral(QuietStep, Object, {}) /\ Maybe(m) \in Neutral(QuietStep, Object, {})
    /\ {AskBase, Callback, EndTry} \subseteq Neutral(QuietStep, Object, {})
    /\ {Publish, Call("PushZmqBlocks")} \subseteq Neutral(StepType, Object, {})
    /\ Neutral(QuietStep, Object, {}) \subseteq Neutral(StepType, Object, {})
    <1>1. \A x \in Statement : Query(x) \in Neutral(QuietStep, Object, {})
        BY QueryNeutral DEF Object
    <1>2. \A m \in Method \ {"PushZmqBlocks", "CheckBranch"} :
             Call(m) \in Neutral(QuietStep, Object, {}) /\ Maybe(m) \in Neutral(QuietStep, Object, {})
        <2> TAKE m \in Method \ {"PushZmqBlocks", "CheckBranch"}
        <2>1. Uses[m] \subseteq Object /\ Uses[m] \cap {} = Holds[m]
            BY Methods
        <2> QED BY <2>1, CallNeutral
    <1>3. {AskBase, Callback, EndTry} \subseteq Neutral(QuietStep, Object, {})
        <2>1. AskBase.op \in Talking /\ Callback.op \in Talking /\ EndTry.op \in Talking
            BY DEF AskBase, Callback, EndTry, Step, Talking
        <2> QED BY <2>1, QuietSteps DEF Neutral
    <1>4. {Publish, Call("PushZmqBlocks")} \subseteq Neutral(StepType, Object, {})
        <2>1. Publish.op \in Talking
            BY DEF Publish, Step, Talking
        <2>2. Call("PushZmqBlocks").op \in Calling /\ Call("PushZmqBlocks").arg = "PushZmqBlocks"
            BY DEF Call, Step, Calling
        <2>3. Uses["PushZmqBlocks"] \subseteq Object /\ Uses["PushZmqBlocks"] \cap {} = Holds["PushZmqBlocks"]
            BY Methods
        <2> QED BY <2>1, <2>2, <2>3, QuietSteps DEF Neutral
    <1>5. Neutral(QuietStep, Object, {}) \subseteq Neutral(StepType, Object, {})
        BY QuietSteps DEF Neutral
    <1> QED BY <1>1, <1>2, <1>3, <1>4, <1>5

-----------------------------------------------------------------------------
(* Tuples of a few steps. *)

LEMMA Tuples ==
    ASSUME NEW X, NEW a \in X, NEW b \in X, NEW c \in X
    PROVE  <<a>> \in Seq(X) /\ <<a, b>> \in Seq(X) /\ <<a, b, c>> \in Seq(X)
    OBVIOUS

LEMMA LongTuples ==
    ASSUME NEW X, NEW a \in X, NEW b \in X, NEW c \in X, NEW d \in X, NEW e \in X, NEW f \in X
    PROVE  <<a, b, c, d>> \in Seq(X) /\ <<a, b, c, d, e, f>> \in Seq(X)
    OBVIOUS

LEMMA PairConcat ==
    ASSUME NEW a, NEW b
    PROVE  <<a, b>> = <<a>> \o <<b>>
    <1> DEFINE X == {a, b}
               s == <<a>> \o <<b>>
    <1>1. /\ <<a>> \in Seq(X) /\ <<b>> \in Seq(X) /\ <<a, b>> \in Seq(X)
          /\ Len(<<a>>) = 1 /\ Len(<<b>>) = 1
        OBVIOUS
    <1>2. /\ s \in Seq(X)
          /\ Len(s) = 1 + 1
          /\ \A i \in 1 .. 1 + 1 : s[i] = IF i <= 1 THEN <<a>>[i] ELSE <<b>>[i - 1]
        BY <1>1, ConcatProperties
    <1> HIDE DEF s, X
    <1>3. Len(<<a, b>>) = Len(s) /\ \A i \in 1 .. Len(s) : s[i] = <<a, b>>[i]
        BY <1>2
    <1> QED BY <1>1, <1>2, <1>3, SeqEqual DEF s

LEMMA TripleConcat ==
    ASSUME NEW a, NEW b, NEW c
    PROVE  <<a, b, c>> = <<a, b>> \o <<c>>
    OBVIOUS

LEMMA QuadrupleConcat ==
    ASSUME NEW a, NEW b, NEW c, NEW d
    PROVE  <<a, b, c, d>> = <<a, b, c>> \o <<d>>
    OBVIOUS

(* A step after a step, or after a few. *)
LEMMA PairLeads ==
    ASSUME NEW T, NEW P, NEW Q, NEW R, NEW a, NEW b,
           Leads(QuietStep, T, P, <<a>>, Q), Leads(QuietStep, T, Q, <<b>>, R)
    PROVE  Leads(QuietStep, T, P, <<a, b>>, R)
    <1>1. Leads(QuietStep, T, P, <<a>> \o <<b>>, R)
        BY QuietSteps, SequenceLeads
    <1>2. <<a, b>> = <<a>> \o <<b>>
        BY PairConcat, Zenon
    <1> QED BY <1>1, <1>2, Zenon

LEMMA TripleLeads ==
    ASSUME NEW T, NEW P, NEW Q, NEW R, NEW a, NEW b, NEW c,
           Leads(QuietStep, T, P, <<a, b>>, Q), Leads(QuietStep, T, Q, <<c>>, R)
    PROVE  Leads(QuietStep, T, P, <<a, b, c>>, R)
    <1>1. Leads(QuietStep, T, P, <<a, b>> \o <<c>>, R)
        BY QuietSteps, SequenceLeads
    <1>2. <<a, b, c>> = <<a, b>> \o <<c>>
        BY TripleConcat, Zenon
    <1> QED BY <1>1, <1>2, Zenon

LEMMA QuadrupleLeads ==
    ASSUME NEW T, NEW P, NEW Q, NEW R, NEW a, NEW b, NEW c, NEW d,
           Leads(QuietStep, T, P, <<a, b, c>>, Q), Leads(QuietStep, T, Q, <<d>>, R)
    PROVE  Leads(QuietStep, T, P, <<a, b, c, d>>, R)
    <1>1. Leads(QuietStep, T, P, <<a, b, c>> \o <<d>>, R)
        BY QuietSteps, SequenceLeads
    <1>2. <<a, b, c, d>> = <<a, b, c>> \o <<d>>
        BY QuadrupleConcat, Zenon
    <1> QED BY <1>1, <1>2, Zenon

LEMMA NeutralTuples ==
    ASSUME NEW T, NEW P,
           NEW a \in Neutral(QuietStep, T, P), NEW b \in Neutral(QuietStep, T, P),
           NEW c \in Neutral(QuietStep, T, P)
    PROVE  /\ Leads(QuietStep, T, P, <<a>>, P)
           /\ Leads(QuietStep, T, P, <<a, b>>, P)
           /\ Leads(QuietStep, T, P, <<a, b, c>>, P)
    BY Tuples, QuietSteps, NeutralLeads

(* Each method leaves open what it found open. *)

LEMMA SomeStatements ==
    {"highest", "lowest", "hash at height", "height", "insert", "highest branch",
     "chain", "insert chain", "branch, height", "blocks below", "branch",
     "detach above", "detach from", "make main", "delete", "tip",
     "parent, height", "count", "branches", "branch blocks"} \subseteq Statement
    BY DEF Statement

LEMMA FollowBranchLeads ==
    ASSUME NEW b \in FollowBranch
    PROVE  Leads(QuietStep, Uses["FollowBranch"], {}, b, {})
    <1> DEFINE T == {"branch, height", "blocks below"}
    <1>1. Uses["FollowBranch"] = T
        BY DEF Uses
    <1>2. Leads(QuietStep, T, {}, <<Take("branch, height")>>, {"branch, height"})
        BY SomeStatements, TakeLeads
    <1>3. Leads(QuietStep, T, {"branch, height"},
                Assign("branch, height", "blocks below"), {"blocks below"})
        BY SomeStatements, AssignLeads
    <1>4. Leads(QuietStep, T, {"blocks below"}, <<Put("blocks below")>>, {})
        BY SomeStatements, PutLeads
    <1> HIDE DEF T
    <1>5. Leads(QuietStep, T, {},
                <<Take("branch, height")>> \o Assign("branch, height", "blocks below"),
                {"blocks below"})
        BY <1>2, <1>3, QuietSteps, SequenceLeads
    <1>6. Leads(QuietStep, T, {}, b, {})
        BY <1>4, <1>5, QuietSteps, SequenceLeads DEF FollowBranch
    <1> QED BY <1>1, <1>6

LEMMA GetForkBranchLeads ==
    ASSUME NEW b \in GetForkBranch
    PROVE  Leads(QuietStep, Uses["GetForkBranch"], {}, b, {})
    <1> DEFINE T == {"branch, height", "blocks below"}
    <1>1. Uses["FollowBranch"] = T /\ Uses["GetForkBranch"] = T
        BY DEF Uses
    <1>2. PICK n \in 0 .. MaxLoop : b = <<Loop("FollowBranch", n), Query("branch, height")>>
        BY DEF GetForkBranch
    <1>3. n \in Nat
        BY DatabaseAssumption
    <1>4. Loop("FollowBranch", n) \in Neutral(QuietStep, T, {})
        <2>1. "FollowBranch" \in Method \ {"PushZmqBlocks"} /\ Holds["FollowBranch"] = {}
            BY Methods
        <2> QED BY <1>1, <1>3, <2>1, CallNeutral
    <1>5. Query("branch, height") \in Neutral(QuietStep, T, {})
        BY SomeStatements, QueryNeutral
    <1> HIDE DEF T
    <1>6. Leads(QuietStep, T, {}, b, {})
        BY <1>2, <1>4, <1>5, NeutralTuples
    <1> QED BY <1>1, <1>6

LEMMA MakeMainLeads ==
    ASSUME NEW b \in MakeMain
    PROVE  Leads(QuietStep, Uses["MakeMain"], {}, b, {})
    <1>1. Uses["MakeMain"] = {"make main"}
        BY DEF Uses
    <1>2. Query("make main") \in Neutral(QuietStep, {"make main"}, {})
        BY SomeStatements, QueryNeutral
    <1>3. b = <<Query("make main")>>
        BY DEF MakeMain
    <1> QED BY <1>1, <1>2, <1>3, NeutralTuples

LEMMA MarkAsTipLeads ==
    ASSUME NEW b \in MarkAsTip
    PROVE  Leads(QuietStep, Uses["MarkAsTip"], {}, b, {})
    <1> DEFINE T == {"branch", "detach above", "detach from", "highest branch", "make main",
                     "branch, height", "blocks below"}
    <1>1. /\ Uses["MarkAsTip"] = T
          /\ Uses["GetForkBranch"] = {"branch, height", "blocks below"}
          /\ Uses["MakeMain"] = {"make main"}
        BY DEF Uses
    <1>2. \A P : "highest branch" \notin P =>
             GetFreeBranchNumber \in Neutral(QuietStep, T, P)
        BY SomeStatements, QueryNeutral DEF GetFreeBranchNumber
    <1>3. /\ "GetForkBranch" \in Method \ {"PushZmqBlocks"} /\ Holds["GetForkBranch"] = {}
          /\ "MakeMain" \in Method \ {"PushZmqBlocks"} /\ Holds["MakeMain"] = {}
        BY Methods
    <1>4. CASE b = Using("branch", Using("detach above", <<GetFreeBranchNumber>>))
        <2>1. GetFreeBranchNumber \in Neutral(QuietStep, T, ({} \cup {"branch"}) \cup {"detach above"})
            BY <1>2
        <2>2. Leads(QuietStep, T, ({} \cup {"branch"}) \cup {"detach above"},
                    <<GetFreeBranchNumber>>, ({} \cup {"branch"}) \cup {"detach above"})
            BY <2>1, NeutralTuples
        <2>3. Leads(QuietStep, T, {} \cup {"branch"},
                    Using("detach above", <<GetFreeBranchNumber>>), {} \cup {"branch"})
            BY <2>2, SomeStatements, UsingLeads
        <2>4. Leads(QuietStep, T, {}, b, {})
            BY <1>4, <2>3, SomeStatements, UsingLeads
        <2> QED BY <1>1, <2>4
    <1>5. ASSUME NEW n \in 1 .. MaxLoop,
                 b = Using("branch", <<Call("GetForkBranch")>>
                        \o Using("detach from", <<GetFreeBranchNumber, Loop("MakeMain", n)>>))
          PROVE  Leads(QuietStep, Uses["MarkAsTip"], {}, b, {})
        <2> DEFINE P == {} \cup {"branch"}
                   Q == P \cup {"detach from"}
        <2>1. GetFreeBranchNumber \in Neutral(QuietStep, T, Q)
            BY <1>2
        <2>2. Loop("MakeMain", n) \in Neutral(QuietStep, T, Q)
            <3>1. n \in Nat
                BY DatabaseAssumption
            <3>2. Uses["MakeMain"] \subseteq T /\ Uses["MakeMain"] \cap Q = Holds["MakeMain"]
                BY <1>1, <1>3
            <3> QED BY <1>3, <3>1, <3>2, CallNeutral
        <2>4. Leads(QuietStep, T, Q, <<GetFreeBranchNumber, Loop("MakeMain", n)>>, Q)
            BY <2>1, <2>2, NeutralTuples
        <2>5. Leads(QuietStep, T, P,
                    Using("detach from", <<GetFreeBranchNumber, Loop("MakeMain", n)>>), P)
            BY <2>4, SomeStatements, UsingLeads
        <2>6. Call("GetForkBranch") \in Neutral(QuietStep, T, P)
            <3>1. Uses["GetForkBranch"] \subseteq T /\ Uses["GetForkBranch"] \cap P = Holds["GetForkBranch"]
                BY <1>1, <1>3
            <3> QED BY <1>3, <3>1, CallNeutral
        <2>7. Leads(QuietStep, T, P, <<Call("GetForkBranch")>>, P)
            BY <2>6, NeutralTuples
        <2>8. Leads(QuietStep, T, P, <<Call("GetForkBranch")>>
                        \o Using("detach from", <<GetFreeBranchNumber, Loop("MakeMain", n)>>), P)
            BY <2>5, <2>7, QuietSteps, SequenceLeads
        <2>9. Leads(QuietStep, T, {}, b, {})
            BY <1>5, <2>8, SomeStatements, UsingLeads
        <2> QED BY <1>1, <2>9
    <1> QED BY <1>4, <1>5 DEF MarkAsTip

LEMMA PruneLeads ==
    ASSUME NEW b \in Prune
    PROVE  Leads(QuietStep, Uses["Prune"], {}, b, {})
    <1> DEFINE T == {"delete", "Prune"}
    <1>1. Uses["Prune"] = T /\ "Prune" \in Batcher
        BY DEF Uses, Batcher
    <1>2. Leads(QuietStep, T, {}, <<Savepoint("Prune")>>, {"Prune"})
        BY <1>1, SavepointLeads
    <1>3. Leads(QuietStep, T, {"Prune"}, <<Take("delete")>>, {"Prune", "delete"})
        BY SomeStatements, TakeLeads
    <1>4. Leads(QuietStep, T, {"Prune", "delete"}, <<Commit("Prune")>>, {"delete"})
        BY <1>1, CommitLeads
    <1>5. Leads(QuietStep, T, {"delete"}, <<Put("delete")>>, {})
        BY SomeStatements, PutLeads
    <1> HIDE DEF T
    <1>6. Leads(QuietStep, T, {}, <<Savepoint("Prune"), Take("delete")>>, {"Prune", "delete"})
        BY <1>2, <1>3, PairLeads
    <1>7. Leads(QuietStep, T, {}, <<Savepoint("Prune"), Take("delete"), Commit("Prune")>>, {"delete"})
        BY <1>4, <1>6, TripleLeads
    <1>8. Leads(QuietStep, T, {},
                <<Savepoint("Prune"), Take("delete"), Commit("Prune"), Put("delete")>>, {})
        BY <1>5, <1>7, QuadrupleLeads
    <1> QED BY <1>1, <1>8 DEF Prune

LEMMA ImportTipLeads ==
    ASSUME NEW b \in ImportTip
    PROVE  Leads(QuietStep, Uses["ImportTip"], {}, b, {})
    <1> DEFINE T == Uses["ImportTip"]
               P == {} \cup {"ImportTip"}
    <1>1. /\ {"highest", "lowest", "height", "insert", "ImportTip"} \subseteq T
          /\ Uses["MarkAsTip"] \subseteq T /\ Uses["MarkAsTip"] \cap P = {}
          /\ Uses["Prune"] \subseteq T /\ Uses["Prune"] \cap P = {}
        BY DEF Uses
    <1>2. "ImportTip" \in Batcher
        BY DEF Batcher
    <1>3. /\ "MarkAsTip" \in Method \ {"PushZmqBlocks"} /\ Holds["MarkAsTip"] = {}
          /\ "Prune" \in Method \ {"PushZmqBlocks"} /\ Holds["Prune"] = {}
        BY Methods
    <1> HIDE DEF T
    <1>4. PICK add \in {Call("MarkAsTip"), InsertBlock} :
            b = (<<GetTipHeight>> \o Batch("ImportTip", <<GetHeightForHash, add, Maybe("Prune")>>))
                  \o <<GetLowestUnprunedHeight, GetTipHeight>>
        BY DEF ImportTip
    <1>5. add \in Neutral(QuietStep, T, P)
        <2>1. Call("MarkAsTip") \in Neutral(QuietStep, T, P)
            BY <1>1, <1>3, CallNeutral
        <2>2. InsertBlock \in Neutral(QuietStep, T, P)
            BY <1>1, SomeStatements, QueryNeutral DEF InsertBlock
        <2> QED BY <2>1, <2>2
    <1>6. GetHeightForHash \in Neutral(QuietStep, T, P)
        BY <1>1, SomeStatements, QueryNeutral DEF GetHeightForHash
    <1>7. Maybe("Prune") \in Neutral(QuietStep, T, P)
        BY <1>1, <1>3, CallNeutral
    <1>8. Leads(QuietStep, T, P, <<GetHeightForHash, add, Maybe("Prune")>>, P)
        BY <1>5, <1>6, <1>7, NeutralTuples
    <1>9. Leads(QuietStep, T, {}, Batch("ImportTip", <<GetHeightForHash, add, Maybe("Prune")>>), {})
        BY <1>1, <1>2, <1>8, BatchLeads
    <1>10. GetTipHeight \in Neutral(QuietStep, T, {}) /\ GetLowestUnprunedHeight \in Neutral(QuietStep, T, {})
        BY <1>1, SomeStatements, QueryNeutral DEF GetTipHeight, GetLowestUnprunedHeight
    <1>11. /\ Leads(QuietStep, T, {}, <<GetTipHeight>>, {})
           /\ Leads(QuietStep, T, {}, <<GetLowestUnprunedHeight, GetTipHeight>>, {})
        BY <1>10, NeutralTuples
    <1>12. Leads(QuietStep, T, {},
                 <<GetTipHeight>> \o Batch("ImportTip", <<GetHeightForHash, add, Maybe("Prune")>>), {})
        BY <1>9, <1>11, QuietSteps, SequenceLeads
    <1>13. Leads(QuietStep, T, {}, b, {})
        BY <1>4, <1>11, <1>12, QuietSteps, SequenceLeads
    <1> QED BY <1>13 DEF T

(* The block's own row is looked up first. *)
LEMMA LookupLeads ==
    ASSUME NEW T, {"tip", "parent, height"} \subseteq T
    PROVE  Leads(QuietStep, T, {}, <<Take("tip")>> \o Assign("tip", "parent, height"),
                 {"parent, height"})
    <1>1. Leads(QuietStep, T, {}, <<Take("tip")>>, {"tip"})
        BY SomeStatements, TakeLeads
    <1>2. Leads(QuietStep, T, {"tip"}, Assign("tip", "parent, height"), {"parent, height"})
        BY SomeStatements, AssignLeads
    <1> QED BY <1>1, <1>2, QuietSteps, SequenceLeads

LEMMA SetTipLeads ==
    ASSUME NEW b \in SetTip
    PROVE  Leads(QuietStep, Uses["SetTip"], {}, b, {})
    <1> DEFINE T == Uses["SetTip"]
               lookup == <<Take("tip")>> \o Assign("tip", "parent, height")
               known == {"parent, height"} \cup {"SetTip"}
               new == {"height"} \cup {"SetTip"}
               attach == <<GetFreeBranchNumber, InsertBlock, Call("MarkAsTip")>>
    <1>1. /\ {"tip", "parent, height", "height", "insert", "highest branch", "SetTip"} \subseteq T
          /\ Uses["MarkAsTip"] \subseteq T
          /\ Uses["MarkAsTip"] \cap known = {}
          /\ Uses["MarkAsTip"] \cap new = {}
        BY DEF Uses
    <1>2. "SetTip" \in Batcher
        BY DEF Batcher
    <1>3. "MarkAsTip" \in Method \ {"PushZmqBlocks"} /\ Holds["MarkAsTip"] = {}
        BY Methods
    <1>4. b \in {(lookup \o Batch("SetTip", <<Call("MarkAsTip")>>)) \o <<Put("parent, height")>>,
                 ((lookup \o Assign("parent, height", "height")) \o Batch("SetTip", attach))
                    \o <<Put("height")>>}
        BY DEF SetTip
    <1> HIDE DEF T
    <1>5. Leads(QuietStep, T, {}, lookup, {"parent, height"})
        BY <1>1, LookupLeads
    <1> HIDE DEF lookup
    <1>6. CASE b = (lookup \o Batch("SetTip", <<Call("MarkAsTip")>>)) \o <<Put("parent, height")>>
        <2>1. Call("MarkAsTip") \in Neutral(QuietStep, T, known)
            BY <1>1, <1>3, CallNeutral
        <2>2. Leads(QuietStep, T, known, <<Call("MarkAsTip")>>, known)
            BY <2>1, NeutralTuples
        <2>3. Leads(QuietStep, T, {"parent, height"}, Batch("SetTip", <<Call("MarkAsTip")>>),
                    {"parent, height"})
            BY <1>1, <1>2, <2>2, BatchLeads
        <2>4. Leads(QuietStep, T, {"parent, height"}, <<Put("parent, height")>>, {})
            BY <1>1, SomeStatements, PutLeads
        <2>5. Leads(QuietStep, T, {}, lookup \o Batch("SetTip", <<Call("MarkAsTip")>>),
                    {"parent, height"})
            BY <1>5, <2>3, QuietSteps, SequenceLeads
        <2> QED BY <1>6, <2>4, <2>5, QuietSteps, SequenceLeads DEF T
    <1>7. CASE b = ((lookup \o Assign("parent, height", "height")) \o Batch("SetTip", attach))
                     \o <<Put("height")>>
        <2>1. Leads(QuietStep, T, {"parent, height"}, Assign("parent, height", "height"), {"height"})
            BY <1>1, SomeStatements, AssignLeads
        <2>2. Call("MarkAsTip") \in Neutral(QuietStep, T, new)
            BY <1>1, <1>3, CallNeutral
        <2>3. GetFreeBranchNumber \in Neutral(QuietStep, T, new) /\ InsertBlock \in Neutral(QuietStep, T, new)
            BY <1>1, SomeStatements, QueryNeutral DEF GetFreeBranchNumber, InsertBlock
        <2>4. Leads(QuietStep, T, new, attach, new)
            BY <2>2, <2>3, NeutralTuples
        <2> HIDE DEF attach
        <2>5. Leads(QuietStep, T, {"height"}, Batch("SetTip", attach), {"height"})
            BY <1>1, <1>2, <2>4, BatchLeads
        <2>6. Leads(QuietStep, T, {"height"}, <<Put("height")>>, {})
            BY <1>1, SomeStatements, PutLeads
        <2>7. Leads(QuietStep, T, {}, lookup \o Assign("parent, height", "height"), {"height"})
            BY <1>5, <2>1, QuietSteps, SequenceLeads
        <2>8. Leads(QuietStep, T, {},
                    (lookup \o Assign("parent, height", "height")) \o Batch("SetTip", attach), {"height"})
            BY <2>5, <2>7, QuietSteps, SequenceLeads
        <2> QED BY <1>7, <2>6, <2>8, QuietSteps, SequenceLeads DEF T
    <1> QED BY <1>4, <1>6, <1>7

LEMMA SetTipFailsLeads ==
    ASSUME NEW b \in SetTipFails
    PROVE  Leads(QuietStep, Uses["SetTipFails"], {}, b, {})
    <1> DEFINE T == {"tip", "parent, height", "height"}
               lookup == <<Take("tip")>> \o Assign("tip", "parent, height")
    <1>1. Uses["SetTipFails"] = T
        BY DEF Uses
    <1>2. b \in {<<Query("tip")>>,
                 (lookup \o Assign("parent, height", "height")) \o <<Put("height")>>}
        BY DEF SetTipFails
    <1>3. Leads(QuietStep, T, {}, lookup, {"parent, height"})
        BY LookupLeads
    <1>4. Leads(QuietStep, T, {"parent, height"}, Assign("parent, height", "height"), {"height"})
        BY SomeStatements, AssignLeads
    <1>5. Leads(QuietStep, T, {"height"}, <<Put("height")>>, {})
        BY SomeStatements, PutLeads
    <1>6. Query("tip") \in Neutral(QuietStep, T, {})
        BY SomeStatements, QueryNeutral
    <1> HIDE DEF T, lookup
    <1>7. Leads(QuietStep, T, {}, <<Query("tip")>>, {})
        BY <1>6, NeutralTuples
    <1>8. Leads(QuietStep, T, {}, lookup \o Assign("parent, height", "height"), {"height"})
        BY <1>3, <1>4, QuietSteps, SequenceLeads
    <1>9. Leads(QuietStep, T, {}, (lookup \o Assign("parent, height", "height")) \o <<Put("height")>>, {})
        BY <1>5, <1>8, QuietSteps, SequenceLeads
    <1> QED BY <1>1, <1>2, <1>7, <1>9

LEMMA SetChainLeads ==
    ASSUME NEW b \in SetChain
    PROVE  Leads(QuietStep, Object, {}, b, {})
    <1>1. /\ "chain" \in Statement \cap Object
          /\ "insert chain" \in Statement \cap Object
        BY SomeStatements DEF Object
    <1>2. b \in {<<Query("chain")>>,
                 (<<Take("chain")>> \o Assign("chain", "insert chain")) \o <<Put("insert chain")>>}
        BY DEF SetChain
    <1>3. Leads(QuietStep, Object, {}, <<Query("chain")>>, {})
        BY FreelyNeutral, SomeStatements, NeutralTuples
    <1>4. Leads(QuietStep, Object, {}, <<Take("chain")>>, {"chain"})
        BY <1>1, TakeLeads
    <1>5. Leads(QuietStep, Object, {"chain"}, Assign("chain", "insert chain"), {"insert chain"})
        BY <1>1, AssignLeads
    <1>6. Leads(QuietStep, Object, {"insert chain"}, <<Put("insert chain")>>, {})
        BY <1>1, PutLeads
    <1>7. Leads(QuietStep, Object, {}, <<Take("chain")>> \o Assign("chain", "insert chain"), {"insert chain"})
        BY <1>4, <1>5, QuietSteps, SequenceLeads
    <1>8. Leads(QuietStep, Object, {},
                (<<Take("chain")>> \o Assign("chain", "insert chain")) \o <<Put("insert chain")>>, {})
        BY <1>6, <1>7, QuietSteps, SequenceLeads
    <1> QED BY <1>2, <1>3, <1>8

(* The same of every block of a set. *)
AllLead(S, T, P, A, Q) == \A a \in A : Leads(S, T, P, a, Q)

LEMMA ThenLeads ==
    ASSUME NEW S \in SUBSET StepType, NEW T, NEW P, NEW Q, NEW R, NEW A, NEW B,
           AllLead(S, T, P, A, Q), AllLead(S, T, Q, B, R)
    PROVE  AllLead(S, T, P, Then(A, B), R)
    <1> SUFFICES ASSUME NEW c \in Then(A, B)
                 PROVE  Leads(S, T, P, c, R)
        BY DEF AllLead
    <1>1. PICK a \in A, b \in B : c = a \o b
        BY DEF Then
    <1>2. Leads(S, T, P, a, Q) /\ Leads(S, T, Q, b, R)
        BY DEF AllLead
    <1> QED BY <1>1, <1>2, SequenceLeads

LEMMA OptionalLeads ==
    ASSUME NEW T, NEW P, NEW a \in Neutral(QuietStep, T, P)
    PROVE  AllLead(QuietStep, T, P, Optional(<<a>>), P)
    <1>1. <<>> \in Seq(Neutral(QuietStep, T, P))
        BY EmptySeq
    <1>2. Leads(QuietStep, T, P, <<>>, P)
        BY <1>1, QuietSteps, NeutralLeads
    <1>3. Leads(QuietStep, T, P, <<a>>, P)
        BY NeutralTuples
    <1> QED BY <1>2, <1>3 DEF AllLead, Optional

(* The loop of SanityCheck replaces the statement that it holds. *)
LEMMA CheckBranchLeads ==
    ASSUME NEW b \in CheckBranch
    PROVE  Leads(QuietStep, Uses["CheckBranch"], {"branch, height"}, b, {"branch, height"})
    <1> DEFINE T == {"branch blocks", "branch, height", "lowest"}
               round == Assign("branch, height", "branch blocks")
                          \o Assign("branch blocks", "branch, height")
    <1>1. Uses["CheckBranch"] = T
        BY DEF Uses
    <1>2. Leads(QuietStep, T, {"branch, height"}, Assign("branch, height", "branch blocks"),
                {"branch blocks"})
        BY SomeStatements, AssignLeads
    <1>3. Leads(QuietStep, T, {"branch blocks"}, Assign("branch blocks", "branch, height"),
                {"branch, height"})
        BY SomeStatements, AssignLeads
    <1>4. GetLowestUnprunedHeight \in Neutral(QuietStep, T, {"branch, height"})
        BY SomeStatements, QueryNeutral DEF GetLowestUnprunedHeight
    <1> HIDE DEF T
    <1>5. Leads(QuietStep, T, {"branch, height"}, round, {"branch, height"})
        BY <1>2, <1>3, QuietSteps, SequenceLeads
    <1>6. AllLead(QuietStep, T, {"branch, height"}, {round}, {"branch, height"})
        BY <1>5 DEF AllLead
    <1>7. CheckBranch = Then({round}, Optional(<<GetLowestUnprunedHeight>>))
        BY DEF CheckBranch
    <1> HIDE DEF round
    <1>8. AllLead(QuietStep, T, {"branch, height"}, Optional(<<GetLowestUnprunedHeight>>),
                  {"branch, height"})
        BY <1>4, OptionalLeads
    <1>9. AllLead(QuietStep, T, {"branch, height"}, CheckBranch, {"branch, height"})
        BY <1>6, <1>7, <1>8, QuietSteps, ThenLeads
    <1> QED BY <1>1, <1>9 DEF AllLead

LEMMA SanityCheckLeads ==
    ASSUME NEW b \in SanityCheck
    PROVE  Leads(QuietStep, Uses["SanityCheck"], {}, b, {})
    <1> DEFINE T == {"count", "branches", "branch blocks", "branch, height", "lowest"}
               both == {"branches", "branch, height"}
               start == (<<Take("count"), Take("branches")>> \o Assign("count", "branch blocks"))
                          \o Assign("branch blocks", "branch, height")
               end == {<<Loop("CheckBranch", n), Put("branches"), Put("branch, height")>> :
                          n \in 0 .. MaxLoop}
    <1>1. Uses["SanityCheck"] = T /\ Uses["CheckBranch"] = {"branch blocks", "branch, height", "lowest"}
        BY DEF Uses
    <1>2. CASE b = <<Query("count")>>
        <2>1. Query("count") \in Neutral(QuietStep, T, {})
            BY SomeStatements, QueryNeutral
        <2> QED BY <1>1, <1>2, <2>1, NeutralTuples
    <1>3. CASE b = Using("count", <<Query("branches")>>)
        <2>1. Query("branches") \in Neutral(QuietStep, T, {} \cup {"count"})
            BY SomeStatements, QueryNeutral
        <2>2. Leads(QuietStep, T, {} \cup {"count"}, <<Query("branches")>>, {} \cup {"count"})
            BY <2>1, NeutralTuples
        <2>3. Leads(QuietStep, T, {}, Using("count", <<Query("branches")>>), {})
            BY <2>2, SomeStatements, UsingLeads
        <2> QED BY <1>1, <1>3, <2>3
    <1>4. AllLead(QuietStep, T, {}, {start}, both)
        <2>1. Leads(QuietStep, T, {}, <<Take("count")>>, {"count"})
            BY SomeStatements, TakeLeads
        <2>2. Leads(QuietStep, T, {"count"}, <<Take("branches")>>, {"count", "branches"})
            BY SomeStatements, TakeLeads
        <2>3. Leads(QuietStep, T, {"count", "branches"}, Assign("count", "branch blocks"),
                    {"branches", "branch blocks"})
            BY SomeStatements, AssignLeads
        <2>4. Leads(QuietStep, T, {"branches", "branch blocks"},
                    Assign("branch blocks", "branch, height"), both)
            BY SomeStatements, AssignLeads
        <2> HIDE DEF T, both
        <2>5. Leads(QuietStep, T, {}, <<Take("count"), Take("branches")>>, {"count", "branches"})
            BY <2>1, <2>2, PairLeads
        <2>6. Leads(QuietStep, T, {},
                    <<Take("count"), Take("branches")>> \o Assign("count", "branch blocks"),
                    {"branches", "branch blocks"})
            BY <2>3, <2>5, QuietSteps, SequenceLeads
        <2>7. Leads(QuietStep, T, {}, start, both)
            BY <2>4, <2>6, QuietSteps, SequenceLeads
        <2> QED BY <2>7 DEF AllLead
    <1>5. AllLead(QuietStep, T, both, Optional(<<GetLowestUnprunedHeight>>), both)
        <2>1. GetLowestUnprunedHeight \in Neutral(QuietStep, T, both)
            BY SomeStatements, QueryNeutral DEF GetLowestUnprunedHeight
        <2> QED BY <2>1, OptionalLeads
    <1>6. AllLead(QuietStep, T, both, end, {})
        <2> SUFFICES ASSUME NEW n \in 0 .. MaxLoop
                     PROVE  Leads(QuietStep, T, both,
                                  <<Loop("CheckBranch", n), Put("branches"), Put("branch, height")>>, {})
            BY DEF AllLead
        <2>1. Leads(QuietStep, T, both, <<Loop("CheckBranch", n)>>, both)
            <3>1. n \in Nat
                BY DatabaseAssumption
            <3>2. /\ "CheckBranch" \in Method \ {"PushZmqBlocks"}
                  /\ Holds["CheckBranch"] = {"branch, height"}
                BY Methods
            <3>3. Uses["CheckBranch"] \subseteq T /\ Uses["CheckBranch"] \cap both = Holds["CheckBranch"]
                BY <1>1, <3>2
            <3>4. Loop("CheckBranch", n) \in Neutral(QuietStep, T, both)
                BY <3>1, <3>2, <3>3, CallNeutral
            <3> QED BY <3>4, NeutralTuples
        <2>2. Leads(QuietStep, T, both, <<Put("branches")>>, {"branch, height"})
            BY SomeStatements, PutLeads
        <2>3. Leads(QuietStep, T, {"branch, height"}, <<Put("branch, height")>>, {})
            BY SomeStatements, PutLeads
        <2> HIDE DEF T, both
        <2>4. Leads(QuietStep, T, both, <<Loop("CheckBranch", n), Put("branches")>>, {"branch, height"})
            BY <2>1, <2>2, PairLeads
        <2> QED BY <2>3, <2>4, TripleLeads
    <1>7. b \in {<<Query("count")>>, Using("count", <<Query("branches")>>)}
                  \cup Then({start}, Then(Optional(<<GetLowestUnprunedHeight>>), end))
        BY DEF SanityCheck
    <1> HIDE DEF T, both, start, end
    <1>8. AllLead(QuietStep, T, both, Then(Optional(<<GetLowestUnprunedHeight>>), end), {})
        BY <1>5, <1>6, QuietSteps, ThenLeads
    <1>9. AllLead(QuietStep, T, {}, Then({start}, Then(Optional(<<GetLowestUnprunedHeight>>), end)), {})
        BY <1>4, <1>8, QuietSteps, ThenLeads
    <1> QED BY <1>1, <1>2, <1>3, <1>7, <1>9 DEF AllLead

LEMMA AttachBlocksLeads ==
    ASSUME NEW b \in AttachBlocks
    PROVE  Leads(QuietStep, Object, {}, b, {})
    <1> DEFINE P == {} \cup {"UpdateStep"}
    <1>1. PICK n \in 0 .. MaxLoop :
            b = Batch("UpdateStep", <<Loop("SetTip", n)>>) \o <<Maybe("Callback"), Maybe("ImportNewTip")>>
        BY DEF AttachBlocks
    <1>2. /\ "SetTip" \in Method \ {"PushZmqBlocks"} /\ Holds["SetTip"] = {}
          /\ Uses["SetTip"] \subseteq Object
          /\ "Callback" \in Method \ {"PushZmqBlocks", "CheckBranch"}
          /\ "ImportNewTip" \in Method \ {"PushZmqBlocks", "CheckBranch"}
        BY Methods
    <1>3. Uses["SetTip"] \cap P = {}
        BY DEF Uses
    <1>4. "UpdateStep" \in Batcher \cap Object
        BY DEF Batcher, Object
    <1>5. n \in Nat
        BY DatabaseAssumption
    <1>6. Loop("SetTip", n) \in Neutral(QuietStep, Object, P)
        BY <1>2, <1>3, <1>5, CallNeutral
    <1>7. Leads(QuietStep, Object, P, <<Loop("SetTip", n)>>, P)
        BY <1>6, NeutralTuples
    <1>8. Leads(QuietStep, Object, {}, Batch("UpdateStep", <<Loop("SetTip", n)>>), {})
        BY <1>4, <1>7, BatchLeads
    <1>9. Leads(QuietStep, Object, {}, <<Maybe("Callback"), Maybe("ImportNewTip")>>, {})
        BY <1>2, FreelyNeutral, NeutralTuples
    <1> QED BY <1>1, <1>8, <1>9, QuietSteps, SequenceLeads

(* Methods that call others have nothing open meanwhile. *)
LEMMA NeutralThen ==
    ASSUME NEW X, NEW A \in SUBSET Seq(X), NEW B \in SUBSET Seq(X)
    PROVE  Then(A, B) \subseteq Seq(X)
    <1> SUFFICES ASSUME NEW c \in Then(A, B)
                 PROVE  c \in Seq(X)
        OBVIOUS
    <1>1. PICK a \in A, b \in B : c = a \o b
        BY DEF Then
    <1> QED BY <1>1, ConcatProperties

LEMMA NeutralOptional ==
    ASSUME NEW X, NEW a \in X
    PROVE  Optional(<<a>>) \subseteq Seq(X)
    BY Tuples, EmptySeq DEF Optional

LEMMA FreeSteps ==
    LET N == Neutral(QuietStep, Object, {})
    IN  /\ {AskBase, Callback, EndTry} \subseteq N
        /\ {GetTipHeight, GetLowestUnprunedHeight, GetHashForHeight, GetHeightForHash} \subseteq N
        /\ {Call("GetForkBranch"), Call("SetTip"), Call("SetTipFails"), Call("ImportTip"),
            Call("ImportNewTip"), Call("AttachBlocks"), Maybe("SanityCheck"), Maybe("Prune")}
              \subseteq N
        /\ N \subseteq Neutral(StepType, Object, {})
        /\ {Publish, Call("PushZmqBlocks")} \subseteq Neutral(StepType, Object, {})
    <1> DEFINE N == Neutral(QuietStep, Object, {})
    <1>1. {GetTipHeight, GetLowestUnprunedHeight, GetHashForHeight, GetHeightForHash} \subseteq N
        BY FreelyNeutral, SomeStatements
           DEF GetTipHeight, GetLowestUnprunedHeight, GetHashForHeight, GetHeightForHash
    <1>2. {"GetForkBranch", "SetTip", "SetTipFails", "ImportTip", "ImportNewTip", "AttachBlocks",
           "SanityCheck", "Prune"} \subseteq Method \ {"PushZmqBlocks", "CheckBranch"}
        BY Methods
    <1>3. \A m \in Method \ {"PushZmqBlocks", "CheckBranch"} : Call(m) \in N /\ Maybe(m) \in N
        BY FreelyNeutral
    <1>4. {Call("GetForkBranch"), Call("SetTip"), Call("SetTipFails"), Call("ImportTip"),
           Call("ImportNewTip"), Call("AttachBlocks"), Maybe("SanityCheck"), Maybe("Prune")}
             \subseteq N
        BY <1>2, <1>3
    <1> QED BY <1>1, <1>4, FreelyNeutral

LEMMA ImportNewTipLeads == AllLead(QuietStep, Object, {}, ImportNewTip, {})
    <1> DEFINE N == Neutral(QuietStep, Object, {})
    <1>1. AskBase \in N /\ Call("ImportTip") \in N /\ Callback \in N
        BY FreeSteps
    <1> HIDE DEF N
    <1>2. <<AskBase>> \in Seq(N) /\ <<AskBase, Call("ImportTip"), Callback>> \in Seq(N)
        BY <1>1, Tuples
    <1>3. ImportNewTip \subseteq Seq(N)
        BY <1>2 DEF ImportNewTip
    <1> QED BY <1>3, QuietSteps, NeutralLeads DEF AllLead, N

LEMMA CallbackLeads == Leads(QuietStep, Object, {}, <<Callback>>, {})
    BY FreeSteps, NeutralTuples

LEMMA UpdateStepLeads == AllLead(QuietStep, Object, {}, UpdateStep, {})
    <1> DEFINE N == Neutral(QuietStep, Object, {})
               first == <<AskBase, GetTipHeight, Call("ImportNewTip")>>
               rest == {<<AskBase, GetLowestUnprunedHeight>>,
                        <<AskBase, Call("GetForkBranch"), Call("SetTipFails"), GetLowestUnprunedHeight>>,
                        <<AskBase, Call("GetForkBranch"), Call("SetTip"), Call("AttachBlocks")>>}
    <1>1. /\ AskBase \in N /\ GetTipHeight \in N /\ GetLowestUnprunedHeight \in N
          /\ Call("ImportNewTip") \in N /\ Call("GetForkBranch") \in N /\ Call("SetTipFails") \in N
          /\ Call("SetTip") \in N /\ Call("AttachBlocks") \in N
        BY FreeSteps
    <1> HIDE DEF N
    <1>2. first \in Seq(N) /\ <<AskBase>> \in Seq(N) /\ <<AskBase, GetLowestUnprunedHeight>> \in Seq(N)
        BY <1>1, Tuples
    <1>3. /\ <<AskBase, Call("GetForkBranch"), Call("SetTipFails"), GetLowestUnprunedHeight>> \in Seq(N)
          /\ <<AskBase, Call("GetForkBranch"), Call("SetTip"), Call("AttachBlocks")>> \in Seq(N)
        BY <1>1, LongTuples
    <1>4. rest \subseteq Seq(N)
        BY <1>2, <1>3
    <1>5. Optional(<<GetTipHeight>>) \subseteq Seq(N)
        BY <1>1, NeutralOptional
    <1>6. UpdateStep = {first} \cup Then(Then({<<AskBase>>}, Optional(<<GetTipHeight>>)), rest)
        BY DEF UpdateStep
    <1> HIDE DEF first, rest
    <1>7. Then({<<AskBase>>}, Optional(<<GetTipHeight>>)) \subseteq Seq(N)
        BY <1>2, <1>5, NeutralThen
    <1>8. Then(Then({<<AskBase>>}, Optional(<<GetTipHeight>>)), rest) \subseteq Seq(N)
        BY <1>4, <1>7, NeutralThen
    <1>9. UpdateStep \subseteq Seq(N)
        BY <1>2, <1>6, <1>8
    <1> QED BY <1>9, QuietSteps, NeutralLeads DEF AllLead, N

LEMMA PushZmqBlocksLeads == AllLead(StepType, Object, {}, PushZmqBlocks, {})
    <1> DEFINE N == Neutral(StepType, Object, {})
               from == <<GetLowestUnprunedHeight, Call("GetForkBranch")>>
               rest == {<<AskBase>>, <<AskBase, Publish>>, <<Publish>>, <<Publish, Publish>>,
                        <<GetHeightForHash, Publish>>}
    <1>1. /\ AskBase \in N /\ Publish \in N /\ GetLowestUnprunedHeight \in N
          /\ GetHeightForHash \in N /\ Call("GetForkBranch") \in N
        BY FreeSteps
    <1> HIDE DEF N
    <1>2. from \in Seq(N) /\ <<Publish>> \in Seq(N)
        BY <1>1, Tuples
    <1>3. rest \subseteq Seq(N)
        <2>1. /\ <<AskBase>> \in Seq(N) /\ <<AskBase, Publish>> \in Seq(N)
              /\ <<Publish, Publish>> \in Seq(N) /\ <<GetHeightForHash, Publish>> \in Seq(N)
            BY <1>1, Tuples
        <2> QED BY <1>2, <2>1
    <1>4. PushZmqBlocks = {<<Publish>>} \cup Then({from}, rest)
        BY DEF PushZmqBlocks
    <1> HIDE DEF from, rest
    <1>5. Then({from}, rest) \subseteq Seq(N)
        BY <1>2, <1>3, NeutralThen
    <1>6. PushZmqBlocks \subseteq Seq(N)
        BY <1>2, <1>4, <1>5
    <1> QED BY <1>6, NeutralLeads DEF AllLead, N

LEMMA TipUpdatedFromLeads == Leads(StepType, Object, {}, TipUpdatedFrom, {})
    <1> DEFINE N == Neutral(StepType, Object, {})
    <1>1. /\ Call("PushZmqBlocks") \in N /\ EndTry \in N /\ Publish \in N
          /\ Maybe("SanityCheck") \in N /\ GetTipHeight \in N /\ Maybe("Prune") \in N
        BY FreeSteps
    <1> HIDE DEF N
    <1>2. TipUpdatedFrom \in Seq(N)
        BY <1>1, LongTuples DEF TipUpdatedFrom
    <1> QED BY <1>2, NeutralLeads DEF N

LEMMA RequestLeads == AllLead(StepType, Object, {}, Request, {})
    <1> DEFINE N == Neutral(StepType, Object, {})
    <1>1. /\ AskBase \in N /\ Publish \in N /\ GetLowestUnprunedHeight \in N
          /\ GetHeightForHash \in N /\ GetTipHeight \in N /\ GetHashForHeight \in N
          /\ Call("GetForkBranch") \in N
        BY FreeSteps
    <1> HIDE DEF N
    <1>2. getblockchaininfo \subseteq Seq(N)
        BY <1>1, Tuples DEF getblockchaininfo
    <1>3. getblockhash \subseteq Seq(N)
        BY <1>1, Tuples DEF getblockhash
    <1>4. getblockheader \subseteq Seq(N)
        BY <1>1, Tuples DEF getblockheader
    <1>5. game_sendupdates \subseteq Seq(N)
        <2> DEFINE from == <<GetLowestUnprunedHeight, Call("GetForkBranch")>>
                   attach == Then({<<AskBase>>},
                             Then(Optional(<<GetHeightForHash>>), Optional(<<Publish>>)))
                   to == {<<AskBase>>, <<AskBase, AskBase>>, <<AskBase, AskBase, Publish>>}
                   some == {<<AskBase>>, <<Publish>>, <<GetHeightForHash>>}
                   tip == {<<AskBase>>, <<GetTipHeight>>}
        <2>1. /\ <<>> \in Seq(N) /\ <<AskBase>> \in Seq(N) /\ <<Publish>> \in Seq(N)
              /\ <<GetHeightForHash>> \in Seq(N) /\ <<GetTipHeight>> \in Seq(N)
              /\ <<AskBase, AskBase>> \in Seq(N) /\ <<AskBase, AskBase, Publish>> \in Seq(N)
              /\ from \in Seq(N)
            BY <1>1, Tuples, EmptySeq
        <2>2. {from} \subseteq Seq(N) /\ to \subseteq Seq(N) /\ some \subseteq Seq(N) /\ tip \subseteq Seq(N)
            BY <2>1
        <2>3. from \o <<AskBase>> \in Seq(N)
            BY <2>1, ConcatProperties
        <2>4. Optional(<<GetHeightForHash>>) \subseteq Seq(N) /\ Optional(<<Publish>>) \subseteq Seq(N)
            BY <1>1, NeutralOptional
        <2>5. game_sendupdates =
                {<<>>, from \o <<AskBase>>} \cup
                Then({from}, Then(some, to \cup Then(tip, attach)))
            BY DEF game_sendupdates
        <2>6. Then(Optional(<<GetHeightForHash>>), Optional(<<Publish>>)) \subseteq Seq(N)
            BY <2>4, NeutralThen
        <2>7. attach \subseteq Seq(N)
            BY <2>1, <2>6, NeutralThen
        <2> HIDE DEF from, attach, to, some, tip
        <2>8. Then(tip, attach) \subseteq Seq(N)
            BY <2>2, <2>7, NeutralThen
        <2>9. to \cup Then(tip, attach) \subseteq Seq(N)
            BY <2>2, <2>8
        <2>10. Then(some, to \cup Then(tip, attach)) \subseteq Seq(N)
            BY <2>2, <2>9, NeutralThen
        <2>11. Then({from}, Then(some, to \cup Then(tip, attach))) \subseteq Seq(N)
            BY <2>2, <2>10, NeutralThen
        <2> QED BY <2>1, <2>3, <2>5, <2>11
    <1>6. Request \subseteq Seq(N)
        BY <1>2, <1>3, <1>4, <1>5 DEF Request
    <1> QED BY <1>6, NeutralLeads DEF AllLead, N

-----------------------------------------------------------------------------
(* Every method keeps its contract: it uses what Uses says and leaves open *)
(* what it found open, and only PushZmqBlocks publishes by itself.         *)
LEMMA Contract ==
    ASSUME NEW m \in Method, NEW b \in Body[m]
    PROVE  /\ Leads(StepType, Uses[m], Holds[m], b, Holds[m])
           /\ m # "PushZmqBlocks" => Leads(QuietStep, Uses[m], Holds[m], b, Holds[m])
    <1>1. /\ Holds[m] = IF m = "CheckBranch" THEN {"branch, height"} ELSE {}
          /\ m \in {"FollowBranch", "GetForkBranch", "MakeMain", "MarkAsTip", "Prune",
                    "ImportTip", "SetTip", "SetTipFails", "CheckBranch", "SanityCheck",
                    "PushZmqBlocks", "ImportNewTip", "AttachBlocks", "Callback"}
        BY Methods
    <1>2. m = "PushZmqBlocks" => Leads(StepType, Uses[m], Holds[m], b, Holds[m])
        <2> HAVE m = "PushZmqBlocks"
        <2>1. b \in PushZmqBlocks /\ Uses[m] = Object
            BY DEF Body, Uses
        <2> QED BY <1>1, <2>1, PushZmqBlocksLeads DEF AllLead
    <1>3. m # "PushZmqBlocks" => Leads(QuietStep, Uses[m], Holds[m], b, Holds[m])
        <2>1. CASE m = "FollowBranch"
            BY <1>1, <2>1, FollowBranchLeads DEF Body
        <2>2. CASE m = "GetForkBranch"
            BY <1>1, <2>2, GetForkBranchLeads DEF Body
        <2>3. CASE m = "MakeMain"
            BY <1>1, <2>3, MakeMainLeads DEF Body
        <2>4. CASE m = "MarkAsTip"
            BY <1>1, <2>4, MarkAsTipLeads DEF Body
        <2>5. CASE m = "Prune"
            BY <1>1, <2>5, PruneLeads DEF Body
        <2>6. CASE m = "ImportTip"
            BY <1>1, <2>6, ImportTipLeads DEF Body
        <2>7. CASE m = "SetTip"
            BY <1>1, <2>7, SetTipLeads DEF Body
        <2>8. CASE m = "SetTipFails"
            BY <1>1, <2>8, SetTipFailsLeads DEF Body
        <2>9. CASE m = "CheckBranch"
            BY <1>1, <2>9, CheckBranchLeads DEF Body
        <2>10. CASE m = "SanityCheck"
            BY <1>1, <2>10, SanityCheckLeads DEF Body
        <2>11. CASE m = "ImportNewTip"
            <3>1. b \in ImportNewTip /\ Uses[m] = Object
                BY <2>11 DEF Body, Uses
            <3> QED BY <1>1, <2>11, <3>1, ImportNewTipLeads DEF AllLead
        <2>12. CASE m = "AttachBlocks"
            <3>1. b \in AttachBlocks /\ Uses[m] = Object
                BY <2>12 DEF Body, Uses
            <3> QED BY <1>1, <2>12, <3>1, AttachBlocksLeads
        <2>13. CASE m = "Callback"
            <3>1. b = <<Callback>> /\ Uses[m] = Object
                BY <2>13 DEF Body, Uses
            <3> QED BY <1>1, <2>13, <3>1, CallbackLeads
        <2> QED BY <1>1, <2>1, <2>2, <2>3, <2>4, <2>5, <2>6, <2>7, <2>8, <2>9, <2>10, <2>11,
                   <2>12, <2>13
    <1>4. Leads(QuietStep, Uses[m], Holds[m], b, Holds[m]) =>
            Leads(StepType, Uses[m], Holds[m], b, Holds[m])
        <2>1. b \in Seq(QuietStep) => b \in Seq(StepType)
            BY QuietSteps, SeqMonotonic
        <2> QED BY <2>1 DEF Leads
    <1> QED BY <1>2, <1>3, <1>4

LEMMA OpenObjects ==
    ASSUME NEW s \in Seq(StepType)
    PROVE  OpenAfter(s, 0) \subseteq Object
    <1> SUFFICES ASSUME NEW k \in 1 .. Len(s), s[k].op \in Closing
                 PROVE  s[k].arg \in Object
        BY DEF OpenAfter
    <1>1. s[k] \in StepType
        BY ElementOfSeq
    <1> QED BY <1>1, StepFacts DEF Closing, Object

LEMMA NothingOpen == <<>> \in Seq(StepType) /\ WellFormed(<<>>) /\ OpenAfter(<<>>, 0) = {}
    BY EmptySeq DEF WellFormed, OpenAfter

(* What a call, or a round of a loop, puts in front of the other steps. *)
LEMMA BodyFits ==
    ASSUME NEW m \in Method, NEW b \in Body[m], NEW r \in Seq(StepType), WellFormed(r),
           Uses[m] \cap OpenAfter(r, 0) = Holds[m]
    PROVE  /\ b \o r \in Seq(StepType)
           /\ WellFormed(b \o r)
           /\ OpenAfter(b \o r, 0) = OpenAfter(r, 0)
           /\ m # "PushZmqBlocks" /\ r \in Seq(QuietStep) => b \o r \in Seq(QuietStep)
    <1> DEFINE F == OpenAfter(r, 0) \ Uses[m]
    <1>1. F \in SUBSET (Object \ Uses[m]) /\ OpenAfter(r, 0) = Holds[m] \cup F
        BY OpenObjects
    <1>2. b \in Seq(StepType) /\ (m # "PushZmqBlocks" => b \in Seq(QuietStep))
        BY Contract DEF Leads
    <1>3. Leads(StepType, Uses[m], Holds[m], b, Holds[m])
        BY Contract
    <1> HIDE DEF F
    <1>4. WellFormed(b \o r) /\ OpenAfter(b \o r, 0) = Holds[m] \cup F
        BY <1>1, <1>3 DEF Leads
    <1>5. b \o r \in Seq(StepType)
        BY <1>2, ConcatProperties
    <1>6. m # "PushZmqBlocks" /\ r \in Seq(QuietStep) => b \o r \in Seq(QuietStep)
        BY <1>2, ConcatProperties
    <1> QED BY <1>1, <1>4, <1>5, <1>6

(* The steps that a thread starts with, or that a callback adds. *)
LEMMA BlockFits ==
    ASSUME NEW S \in SUBSET StepType, NEW b, Leads(S, Object, {}, b, {}),
           NEW r \in Seq(StepType), WellFormed(r), OpenAfter(r, 0) = {}
    PROVE  /\ b \in Seq(S)
           /\ b \o r \in Seq(StepType)
           /\ WellFormed(b \o r)
           /\ OpenAfter(b \o r, 0) = {}
    <1>1. {} \in SUBSET (Object \ Object) /\ {} \cup {} = {}
        OBVIOUS
    <1>2. b \in Seq(S) /\ b \in Seq(StepType)
        BY SeqMonotonic DEF Leads
    <1>3. WellFormed(b \o r) /\ OpenAfter(b \o r, 0) = {} \cup {}
        BY <1>1 DEF Leads
    <1> QED BY <1>2, <1>3, ConcatProperties

LEMMA StartFits ==
    ASSUME NEW S \in SUBSET StepType, NEW b, Leads(S, Object, {}, b, {})
    PROVE  b \in Seq(S) /\ b \in Seq(StepType) /\ WellFormed(b) /\ OpenAfter(b, 0) = {}
    <1>1. b \in Seq(S) /\ b \in Seq(StepType)
        BY SeqMonotonic DEF Leads
    <1>2. b \o <<>> = b
        BY <1>1, ConcatEmptySeq
    <1> QED BY <1>1, <1>2, NothingOpen, BlockFits

-----------------------------------------------------------------------------
(* The steps of a thread in the database. *)

LEMMA NextStep ==
    ASSUME NEW s \in Seq(StepType), s # <<>>, WellFormed(s)
    PROVE  /\ Head(s) \in StepType
           /\ Tail(s) \in Seq(StepType)
           /\ WellFormed(Tail(s))
           /\ Fits(Head(s), OpenAfter(Tail(s), 0))
           /\ OpenAfter(s, 0) =
                IF Head(s).op \in Opening THEN OpenAfter(Tail(s), 0) \ {Head(s).arg}
                ELSE IF Head(s).op \in Closing THEN OpenAfter(Tail(s), 0) \cup {Head(s).arg}
                ELSE OpenAfter(Tail(s), 0)
           /\ s \in Seq(QuietStep) => Head(s) \in QuietStep /\ Tail(s) \in Seq(QuietStep)
    <1>1. s \in Seq(QuietStep) => Head(s) \in QuietStep /\ Tail(s) \in Seq(QuietStep)
        BY HeadTailProperties
    <1> QED BY <1>1, TailOpen, FirstOpen

(* A thread in the database, whose steps fit to what is open. *)
Working(t) ==
    /\ todo \in [Thread -> Seq(StepType)]
    /\ used \subseteq Statement
    /\ batches \subseteq Batcher
    /\ InUse(t)

(* It has gone on to these steps. *)
GoesOnWith(t, s) ==
    /\ todo' = [todo EXCEPT ![t] = s]
    /\ s \in Seq(StepType)
    /\ WellFormed(s)
    /\ used' \cup batches' = OpenAfter(s, 0)
    /\ used' \subseteq Statement
    /\ batches' \subseteq Batcher
    /\ todo[t] \in Seq(QuietStep) /\ ~ syncCb => s \in Seq(QuietStep)

LEMMA StaysWorking ==
    ASSUME NEW t \in Thread, Working(t), NEW s, GoesOnWith(t, s)
    PROVE  /\ Working(t)'
           /\ \A u \in Thread \ {t} : todo'[u] = todo[u]
           /\ todo[t] \in Seq(QuietStep) /\ ~ syncCb => todo'[t] \in Seq(QuietStep)
    <1>1. todo'[t] = s /\ todo' \in [Thread -> Seq(StepType)]
        BY DEF Working, GoesOnWith
    <1>2. InUse(t)'
        BY <1>1 DEF GoesOnWith, InUse
    <1> QED BY <1>1, <1>2 DEF GoesOnWith, Working

(* The cases in which the thread takes its next step. *)
LEMMA AdvanceWorks ==
    ASSUME NEW t \in Thread, Working(t), Busy(t), Advance(t),
           used' \cup batches' = OpenAfter(Tail(todo[t]), 0),
           used' \subseteq Statement, batches' \subseteq Batcher
    PROVE  GoesOnWith(t, Tail(todo[t]))
    <1>1. todo[t] \in Seq(StepType) /\ todo[t] # <<>> /\ WellFormed(todo[t])
        BY DEF Working, InUse, Busy
    <1>2. todo' = [todo EXCEPT ![t] = Tail(todo[t])]
        BY DEF Advance
    <1> QED BY <1>1, <1>2, NextStep DEF GoesOnWith

LEMMA AcquireWorks ==
    ASSUME NEW t \in Thread, Working(t), Acquire(t)
    PROVE  GoesOnWith(t, Tail(todo[t]))
    <1>1. todo[t] \in Seq(StepType) /\ todo[t] # <<>> /\ WellFormed(todo[t])
        BY DEF Working, InUse, Busy, Acquire, At
    <1> DEFINE e == Head(todo[t])
               open == OpenAfter(Tail(todo[t]), 0)
    <1>2. e \in StepType /\ e.op = "take"
        BY <1>1, NextStep DEF Acquire, At
    <1>3. e.arg \in Statement /\ e.arg \in open /\ OpenAfter(todo[t], 0) = open \ {e.arg}
        BY <1>1, <1>2, NextStep, StepFacts DEF Fits, Opening
    <1>4. used' = used \cup {e.arg} /\ batches' = batches /\ Advance(t) /\ Busy(t)
        BY DEF Acquire, At
    <1>5. used \cup batches = open \ {e.arg}
        BY <1>3 DEF Working, InUse
    <1>6. used' \cup batches' = open /\ used' \subseteq Statement /\ batches' \subseteq Batcher
        BY <1>3, <1>4, <1>5 DEF Working
    <1> QED BY <1>4, <1>6, AdvanceWorks

LEMMA ReleaseWorks ==
    ASSUME NEW t \in Thread, Working(t), Release(t)
    PROVE  GoesOnWith(t, Tail(todo[t]))
    <1>1. todo[t] \in Seq(StepType) /\ todo[t] # <<>> /\ WellFormed(todo[t])
        BY DEF Working, InUse, Busy, Release, At
    <1> DEFINE e == Head(todo[t])
               open == OpenAfter(Tail(todo[t]), 0)
    <1>2. e \in StepType /\ e.op = "put"
        BY <1>1, NextStep DEF Release, At
    <1>3. e.arg \in Statement /\ e.arg \notin open /\ OpenAfter(todo[t], 0) = open \cup {e.arg}
        BY <1>1, <1>2, NextStep, StepFacts DEF Fits, Opening, Closing
    <1>4. used' = used \ {e.arg} /\ batches' = batches /\ Advance(t) /\ Busy(t)
        BY DEF Release, At
    <1>5. used \cup batches = open \cup {e.arg} /\ used \subseteq Statement /\ batches \subseteq Batcher
        BY <1>3 DEF Working, InUse
    <1>6. e.arg \notin batches
        BY <1>3, <1>5, DisjointObjects
    <1>7. used' \cup batches' = open /\ used' \subseteq Statement /\ batches' \subseteq Batcher
        BY <1>3, <1>4, <1>5, <1>6
    <1> QED BY <1>4, <1>7, AdvanceWorks

LEMMA OpenBatchWorks ==
    ASSUME NEW t \in Thread, Working(t), OpenBatch(t)
    PROVE  GoesOnWith(t, Tail(todo[t]))
    <1>1. todo[t] \in Seq(StepType) /\ todo[t] # <<>> /\ WellFormed(todo[t])
        BY DEF Working, InUse, Busy, OpenBatch, At
    <1> DEFINE e == Head(todo[t])
               open == OpenAfter(Tail(todo[t]), 0)
    <1>2. e \in StepType /\ e.op = "savepoint"
        BY <1>1, NextStep DEF OpenBatch, At
    <1>3. e.arg \in Batcher /\ e.arg \in open /\ OpenAfter(todo[t], 0) = open \ {e.arg}
        BY <1>1, <1>2, NextStep, StepFacts DEF Fits, Opening
    <1>4. batches' = batches \cup {e.arg} /\ used' = used /\ Advance(t) /\ Busy(t)
        BY DEF OpenBatch, At
    <1>5. used \cup batches = open \ {e.arg}
        BY <1>3 DEF Working, InUse
    <1>6. used' \cup batches' = open /\ used' \subseteq Statement /\ batches' \subseteq Batcher
        BY <1>3, <1>4, <1>5 DEF Working
    <1> QED BY <1>4, <1>6, AdvanceWorks

LEMMA CloseBatchWorks ==
    ASSUME NEW t \in Thread, Working(t), CloseBatch(t)
    PROVE  GoesOnWith(t, Tail(todo[t]))
    <1>1. todo[t] \in Seq(StepType) /\ todo[t] # <<>> /\ WellFormed(todo[t])
        BY DEF Working, InUse, Busy, CloseBatch, At
    <1> DEFINE e == Head(todo[t])
               open == OpenAfter(Tail(todo[t]), 0)
    <1>2. e \in StepType /\ e.op = "commit"
        BY <1>1, NextStep DEF CloseBatch, At
    <1>3. e.arg \in Batcher /\ e.arg \notin open /\ OpenAfter(todo[t], 0) = open \cup {e.arg}
        BY <1>1, <1>2, NextStep, StepFacts DEF Fits, Opening, Closing
    <1>4. batches' = batches \ {e.arg} /\ used' = used /\ Advance(t) /\ Busy(t)
        BY DEF CloseBatch, At
    <1>5. used \cup batches = open \cup {e.arg} /\ used \subseteq Statement /\ batches \subseteq Batcher
        BY <1>3 DEF Working, InUse
    <1>6. e.arg \notin used
        BY <1>3, <1>5, DisjointObjects
    <1>7. used' \cup batches' = open /\ used' \subseteq Statement /\ batches' \subseteq Batcher
        BY <1>3, <1>4, <1>5, <1>6
    <1> QED BY <1>4, <1>7, AdvanceWorks

(* The other steps open and close nothing. *)
LEMMA PlainStep ==
    ASSUME NEW t \in Thread, Working(t), Busy(t),
           Head(todo[t]).op \in {"query"} \cup Calling \cup Talking
    PROVE  /\ todo[t] \in Seq(StepType) /\ todo[t] # <<>> /\ WellFormed(todo[t])
           /\ Head(todo[t]) \in StepType
           /\ Tail(todo[t]) \in Seq(StepType)
           /\ WellFormed(Tail(todo[t]))
           /\ Fits(Head(todo[t]), OpenAfter(Tail(todo[t]), 0))
           /\ used \cup batches = OpenAfter(Tail(todo[t]), 0)
    <1>1. todo[t] \in Seq(StepType) /\ todo[t] # <<>> /\ WellFormed(todo[t])
        BY DEF Working, InUse, Busy
    <1>2. Head(todo[t]).op \notin Opening \cup Closing
        BY DEF Opening, Closing, Calling, Talking
    <1>3. used \cup batches = OpenAfter(todo[t], 0)
        BY DEF Working, InUse
    <1> QED BY <1>1, <1>2, <1>3, NextStep

LEMMA PlainAdvance ==
    ASSUME NEW t \in Thread, Working(t), Busy(t), Advance(t), UNCHANGED <<used, batches>>,
           Head(todo[t]).op \in {"query"} \cup Calling \cup Talking
    PROVE  GoesOnWith(t, Tail(todo[t]))
    BY PlainStep, AdvanceWorks DEF Working

LEMMA CallMethodWorks ==
    ASSUME NEW t \in Thread, Working(t), CallMethod(t)
    PROVE  \E s : GoesOnWith(t, s)
    <1> DEFINE e == Head(todo[t])
               r == Tail(todo[t])
    <1>1. Busy(t) /\ e.op \in {"call", "maybe"}
        BY DEF CallMethod, At
    <1>2. e.op \in Calling
        BY <1>1 DEF Calling
    <1>3. PICK b \in Body[e.arg] : todo' = [todo EXCEPT ![t] = b \o r]
        BY DEF CallMethod, Start
    <1>4. /\ todo[t] \in Seq(StepType) /\ todo[t] # <<>> /\ WellFormed(todo[t])
          /\ e \in StepType /\ r \in Seq(StepType) /\ WellFormed(r) /\ Fits(e, OpenAfter(r, 0))
          /\ used \cup batches = OpenAfter(r, 0)
        BY <1>1, <1>2, PlainStep
    <1>5. e.arg \in Method /\ Uses[e.arg] \cap OpenAfter(r, 0) = Holds[e.arg]
        BY <1>2, <1>4, StepFacts DEF Fits
    <1>6. todo[t] \in Seq(QuietStep) => e.arg # "PushZmqBlocks" /\ r \in Seq(QuietStep)
        BY <1>4, NextStep DEF QuietStep
    <1> HIDE DEF e, r
    <1>7. /\ b \o r \in Seq(StepType) /\ WellFormed(b \o r)
          /\ OpenAfter(b \o r, 0) = OpenAfter(r, 0)
          /\ todo[t] \in Seq(QuietStep) => b \o r \in Seq(QuietStep)
        BY <1>3, <1>4, <1>5, <1>6, BodyFits
    <1>8. used' = used /\ batches' = batches
        BY DEF CallMethod
    <1>9. GoesOnWith(t, b \o r)
        BY <1>3, <1>4, <1>7, <1>8 DEF GoesOnWith, Working
    <1> QED BY <1>9

LEMMA LoopMethodWorks ==
    ASSUME NEW t \in Thread, Working(t), LoopMethod(t)
    PROVE  \E s : GoesOnWith(t, s)
    <1> DEFINE e == Head(todo[t])
               r == Tail(todo[t])
               again == Loop(e.arg, e.times - 1)
    <1>1. Busy(t) /\ e.op = "loop" /\ e.op \in Calling
        BY DEF LoopMethod, At, Calling
    <1>2. /\ todo[t] \in Seq(StepType) /\ todo[t] # <<>> /\ WellFormed(todo[t])
          /\ e \in StepType /\ r \in Seq(StepType) /\ WellFormed(r) /\ Fits(e, OpenAfter(r, 0))
          /\ used \cup batches = OpenAfter(r, 0)
        BY <1>1, PlainStep
    <1>3. used' = used /\ batches' = batches
        BY DEF LoopMethod
    <1>4. e.times \in Nat /\ e.arg \in Method /\ Uses[e.arg] \cap OpenAfter(r, 0) = Holds[e.arg]
        BY <1>1, <1>2, StepFacts DEF Fits
    <1>5. CASE e.times = 0
        <2>1. Advance(t)
            BY <1>5 DEF LoopMethod
        <2> QED BY <1>1, <1>3, <2>1, PlainAdvance
    <1>6. CASE e.times # 0
        <2>1. PICK b \in Body[e.arg] : todo' = [todo EXCEPT ![t] = (b \o <<again>>) \o r]
            BY <1>6 DEF LoopMethod, Start
        <2>2. e.times - 1 \in Nat
            BY <1>4, <1>6
        <2>3. todo[t] \in Seq(QuietStep) =>
                e.arg \in Method \ {"PushZmqBlocks"} /\ r \in Seq(QuietStep)
            BY <1>2, <1>4, NextStep DEF QuietStep
        <2> HIDE DEF e, r
        <2>4. again \in StepType /\ again.op = "loop" /\ again.arg = e.arg
            <3>1. again \in [op : {"loop"}, arg : Method, times : Nat]
                BY <1>4, <2>2 DEF Loop
            <3>2. again \in StepType
                BY <3>1 DEF StepType
            <3> QED BY <3>2 DEF Loop
        <2>5. todo[t] \in Seq(QuietStep) => again \in QuietStep
            BY <2>2, <2>3, QuietSteps
        <2> HIDE DEF again
        <2>6. Fits(again, OpenAfter(r, 0))
            BY <1>4, <2>4 DEF Fits, Opening, Closing, Calling, Talking
        <2>7. /\ <<again>> \o r \in Seq(StepType)
              /\ WellFormed(<<again>> \o r)
              /\ OpenAfter(<<again>> \o r, 0) = OpenAfter(r, 0)
            BY <1>2, <2>4, <2>6, OneStep DEF Opening, Closing
        <2>8. todo[t] \in Seq(QuietStep) => <<again>> \o r \in Seq(QuietStep)
            <3> HAVE todo[t] \in Seq(QuietStep)
            <3>1. <<again>> \in Seq(QuietStep)
                BY <2>5
            <3> QED BY <2>3, <3>1, ConcatProperties
        <2>9. Uses[e.arg] \cap OpenAfter(<<again>> \o r, 0) = Holds[e.arg]
            BY <1>4, <2>7
        <2>10. /\ b \o (<<again>> \o r) \in Seq(StepType)
               /\ WellFormed(b \o (<<again>> \o r))
               /\ OpenAfter(b \o (<<again>> \o r), 0) = OpenAfter(r, 0)
               /\ todo[t] \in Seq(QuietStep) => b \o (<<again>> \o r) \in Seq(QuietStep)
            <3> DEFINE q == <<again>> \o r
            <3>1. q \in Seq(StepType) /\ WellFormed(q) /\ Uses[e.arg] \cap OpenAfter(q, 0) = Holds[e.arg]
                BY ONLY <2>7, <2>9
            <3>2. e.arg \in Method /\ b \in Body[e.arg]
                BY ONLY <1>4, <2>1
            <3>3. OpenAfter(q, 0) = OpenAfter(r, 0)
                BY ONLY <2>7
            <3>4. todo[t] \in Seq(QuietStep) => e.arg # "PushZmqBlocks" /\ q \in Seq(QuietStep)
                BY ONLY <2>3, <2>8
            <3> HIDE DEF q
            <3>5. /\ b \o q \in Seq(StepType)
                  /\ WellFormed(b \o q)
                  /\ OpenAfter(b \o q, 0) = OpenAfter(q, 0)
                  /\ e.arg # "PushZmqBlocks" /\ q \in Seq(QuietStep) => b \o q \in Seq(QuietStep)
                BY ONLY <3>1, <3>2, BodyFits
            <3> QED BY ONLY <3>3, <3>4, <3>5 DEF q
        <2>11. (b \o <<again>>) \o r = b \o (<<again>> \o r)
            <3>1. b \in Seq(StepType) /\ <<again>> \in Seq(StepType)
                BY <1>4, <2>1, <2>4, Contract DEF Leads
            <3> QED BY <1>2, <3>1, ConcatAssociative
        <2>12. GoesOnWith(t, b \o (<<again>> \o r))
            BY <1>2, <1>3, <2>1, <2>10, <2>11 DEF GoesOnWith, Working
        <2> QED BY <2>12
    <1> QED BY <1>5, <1>6

LEMMA SuffixWellFormed ==
    ASSUME NEW s \in Seq(StepType), WellFormed(s), NEW k \in 0 .. Len(s)
    PROVE  LET r == SubSeq(s, k + 1, Len(s))
           IN  r \in Seq(StepType) /\ WellFormed(r) /\ OpenAfter(r, 0) = OpenAfter(s, k)
    <1> DEFINE r == SubSeq(s, k + 1, Len(s))
    <1>1. r = SubSeq(s, k + 1, Len(s))
        OBVIOUS
    <1> HIDE DEF r
    <1>2. r \in Seq(StepType) /\ Len(r) = Len(s) - k /\ \A i \in 1 .. Len(r) : r[i] = s[k + i]
        BY <1>1, SuffixOpen
    <1>3. \A i \in 0 .. Len(r) : OpenAfter(r, i) = OpenAfter(s, k + i)
        BY <1>1, SuffixOpen
    <1>4. ASSUME NEW i \in 1 .. Len(r)
          PROVE  Fits(r[i], OpenAfter(r, i))
        <2>1. k + i \in 1 .. Len(s) /\ r[i] = s[k + i] /\ OpenAfter(r, i) = OpenAfter(s, k + i)
            BY <1>2, <1>3
        <2> QED BY <2>1 DEF WellFormed
    <1>5. 0 \in 0 .. Len(r) /\ k + 0 = k
        BY <1>2, LenProperties
    <1> QED BY <1>2, <1>3, <1>4, <1>5 DEF r, WellFormed

(* Nothing is open where the handler of an exception ends. *)
LEMMA HandlerOpen ==
    ASSUME NEW r \in Seq(StepType), WellFormed(r), NEW n \in Nat, n < Len(r), r[n + 1] = EndTry
    PROVE  LET q == SubSeq(r, n + 2, Len(r))
           IN  /\ q \in Seq(StepType)
               /\ WellFormed(q)
               /\ OpenAfter(q, 0) = {}
               /\ r \in Seq(QuietStep) => q \in Seq(QuietStep)
    <1> DEFINE q == SubSeq(r, n + 2, Len(r))
               k == n + 1
    <1>1. Len(r) \in Nat
        BY LenProperties
    <1>2. k \in 1 .. Len(r) /\ k \in 0 .. Len(r) /\ k + 1 = n + 2
        BY <1>1
    <1>3. OpenAfter(r, k) = {}
        <2>1. Fits(EndTry, OpenAfter(r, k))
            BY <1>2 DEF WellFormed
        <2> QED BY <2>1 DEF Fits, EndTry, Step, Talking
    <1>4. r \in Seq(QuietStep) => q \in Seq(QuietStep)
        <2> HAVE r \in Seq(QuietStep)
        <2>1. \A i \in n + 2 .. Len(r) : r[i] \in QuietStep
            BY <1>2, ElementOfSeq
        <2> QED BY <1>1, <1>2, <2>1, SubSeqProperties
    <1>5. q = SubSeq(r, k + 1, Len(r))
        BY <1>2
    <1> HIDE DEF q, k
    <1>6. q \in Seq(StepType) /\ WellFormed(q) /\ OpenAfter(q, 0) = OpenAfter(r, k)
        BY <1>2, <1>5, SuffixWellFormed
    <1> QED BY <1>3, <1>4, <1>6 DEF q

(* An exception leaves nothing open behind, as nothing is where one starts. *)
LEMMA OthersThrowWorks ==
    ASSUME NEW t \in Thread, Working(t), OthersThrow(t)
    PROVE  \E s : GoesOnWith(t, s)
    <1> DEFINE e == Head(todo[t])
               r == Tail(todo[t])
    <1>1. Busy(t) /\ e.op \in {"base", "publish"} /\ e.op \in Talking
        BY DEF OthersThrow, At, Talking
    <1>2. /\ todo[t] \in Seq(StepType) /\ todo[t] # <<>> /\ WellFormed(todo[t])
          /\ e \in StepType /\ r \in Seq(StepType) /\ WellFormed(r) /\ Fits(e, OpenAfter(r, 0))
          /\ used \cup batches = OpenAfter(r, 0)
        BY <1>1, PlainStep
    <1>3. used = {} /\ batches = {}
        BY <1>1, <1>2 DEF Fits
    <1>4. todo[t] \in Seq(QuietStep) => r \in Seq(QuietStep)
        BY <1>2, NextStep
    <1>5. PICK n \in 0 .. Len(r) :
            /\ n < Len(r) => r[n + 1] = EndTry
            /\ todo' = [todo EXCEPT ![t] = SubSeq(r, n + 2, Len(r))]
            /\ used' \subseteq used
            /\ batches' \subseteq batches
        BY DEF OthersThrow, Start
    <1>6. used' = {} /\ batches' = {}
        BY <1>3, <1>5
    <1> HIDE DEF e, r
    <1> DEFINE q == SubSeq(r, n + 2, Len(r))
    <1>7. Len(r) \in Nat
        BY <1>2, LenProperties
    <1>8. CASE n = Len(r)
        <2>1. q = <<>>
            BY <1>2, <1>7, <1>8, SubSeqEmpty
        <2>2. <<>> \in Seq(QuietStep)
            BY EmptySeq
        <2>3. GoesOnWith(t, <<>>)
            BY <1>5, <1>6, <2>1, <2>2, NothingOpen DEF GoesOnWith
        <2> QED BY <2>3
    <1>9. CASE n < Len(r)
        <2>1. n \in Nat /\ r[n + 1] = EndTry
            BY <1>5, <1>9
        <2> HIDE DEF q
        <2>2. /\ q \in Seq(StepType)
              /\ WellFormed(q)
              /\ OpenAfter(q, 0) = {}
              /\ r \in Seq(QuietStep) => q \in Seq(QuietStep)
            BY <1>2, <1>9, <2>1, HandlerOpen DEF q
        <2>3. GoesOnWith(t, q)
            BY <1>4, <1>5, <1>6, <2>2 DEF GoesOnWith, q
        <2> QED BY <2>3
    <1> QED BY <1>7, <1>8, <1>9

LEMMA CallBackWorks ==
    ASSUME NEW t \in Thread, Working(t), CallBack(t, syncCb)
    PROVE  \E s : GoesOnWith(t, s)
    <1> DEFINE e == Head(todo[t])
               r == Tail(todo[t])
               b == IF syncCb THEN TipUpdatedFrom ELSE <<>>
    <1>1. Busy(t) /\ e.op = "callback" /\ e.op \in Talking
        BY DEF CallBack, At, Talking
    <1>2. /\ todo[t] \in Seq(StepType) /\ todo[t] # <<>> /\ WellFormed(todo[t])
          /\ e \in StepType /\ r \in Seq(StepType) /\ WellFormed(r) /\ Fits(e, OpenAfter(r, 0))
          /\ used \cup batches = OpenAfter(r, 0)
        BY <1>1, PlainStep
    <1>3. OpenAfter(r, 0) = {}
        BY <1>1, <1>2 DEF Fits
    <1>4. todo' = [todo EXCEPT ![t] = b \o r] /\ used' = used /\ batches' = batches
        BY DEF CallBack, Start
    <1>5. todo[t] \in Seq(QuietStep) => r \in Seq(QuietStep)
        BY <1>2, NextStep
    <1> HIDE DEF e, r
    <1>6. CASE syncCb
        <2>1. b = TipUpdatedFrom
            BY <1>6
        <2> HIDE DEF b
        <2>2. b \o r \in Seq(StepType) /\ WellFormed(b \o r) /\ OpenAfter(b \o r, 0) = {}
            BY <1>2, <1>3, <2>1, TipUpdatedFromLeads, BlockFits
        <2>3. GoesOnWith(t, b \o r)
            BY <1>2, <1>3, <1>4, <1>6, <2>2 DEF GoesOnWith, Working
        <2> QED BY <2>3
    <1>7. CASE ~ syncCb
        <2>1. b \o r = r
            BY <1>2, <1>7, ConcatEmptySeq
        <2>2. GoesOnWith(t, r)
            BY <1>2, <1>4, <1>5, <2>1 DEF GoesOnWith, Working
        <2> QED BY <2>2
    <1> QED BY <1>6, <1>7

(* Whatever a thread does in the database, it goes on to steps that fit. *)
LEMMA UseDatabaseWorks ==
    ASSUME NEW t \in Thread, Working(t), UseDatabase(t)
    PROVE  /\ Working(t)'
           /\ \A u \in Thread \ {t} : todo'[u] = todo[u]
           /\ todo[t] \in Seq(QuietStep) /\ ~ syncCb => todo'[t] \in Seq(QuietStep)
           /\ UNCHANGED <<runPc, flags, updaterPc, notifierPc, handlerPc, owner>>
    <1>1. \E s : GoesOnWith(t, s)
        <2>1. CASE Acquire(t)
            BY <2>1, AcquireWorks
        <2>2. CASE Release(t)
            BY <2>2, ReleaseWorks
        <2>3. CASE OpenBatch(t)
            BY <2>3, OpenBatchWorks
        <2>4. CASE CloseBatch(t)
            BY <2>4, CloseBatchWorks
        <2>5. CASE CallMethod(t)
            BY <2>5, CallMethodWorks
        <2>6. CASE LoopMethod(t)
            BY <2>6, LoopMethodWorks
        <2>7. CASE OthersThrow(t)
            BY <2>7, OthersThrowWorks
        <2>8. CASE CallBack(t, syncCb)
            BY <2>8, CallBackWorks
        <2>9. CASE RunQuery(t) \/ SkipMethod(t) \/ CallOthers(t) \/ LeaveTry(t)
            <3>1. /\ Busy(t) /\ Advance(t) /\ UNCHANGED <<used, batches>>
                  /\ Head(todo[t]).op \in {"query", "maybe", "base", "publish", "endTry"}
                BY <2>9 DEF RunQuery, SkipMethod, CallOthers, LeaveTry, At
            <3>2. Head(todo[t]).op \in {"query"} \cup Calling \cup Talking
                BY <3>1 DEF Calling, Talking
            <3> QED BY <3>1, <3>2, PlainAdvance
        <2> QED BY <2>1, <2>2, <2>3, <2>4, <2>5, <2>6, <2>7, <2>8, <2>9 DEF UseDatabase
    <1>2. UNCHANGED <<runPc, flags, updaterPc, notifierPc, handlerPc, owner>>
        BY DEF UseDatabase
    <1> QED BY <1>1, <1>2, StaysWorking

(* Who has steps to take gets what they need, and publishes nothing else. *)
LEMMA NextStepFits ==
    ASSUME NEW t \in Thread, Working(t)
    PROVE  /\ At(t, "take") \/ At(t, "query") => Head(todo[t]).arg \notin used
           /\ At(t, "publish") => batches = {} /\ used = {}
           /\ At(t, "publish") => todo[t] \notin Seq(QuietStep)
           /\ ~ Busy(t) => used = {} /\ batches = {}
    <1> DEFINE e == Head(todo[t])
               r == Tail(todo[t])
    <1>1. todo[t] \in Seq(StepType) /\ WellFormed(todo[t]) /\ used \cup batches = OpenAfter(todo[t], 0)
        BY DEF Working, InUse
    <1>2. At(t, "take") => e.arg \notin used
        <2> HAVE At(t, "take")
        <2>1. todo[t] # <<>> /\ e.op = "take"
            BY DEF At, Busy
        <2>2. OpenAfter(todo[t], 0) = OpenAfter(r, 0) \ {e.arg}
            BY <1>1, <2>1, NextStep DEF Opening
        <2> QED BY <1>1, <2>2
    <1>3. At(t, "query") => e.arg \notin used
        <2> HAVE At(t, "query")
        <2>1. Busy(t) /\ e.op = "query"
            BY DEF At
        <2>2. Fits(e, OpenAfter(r, 0)) /\ used \cup batches = OpenAfter(r, 0)
            BY <2>1, PlainStep
        <2> QED BY <2>1, <2>2 DEF Fits
    <1>4. At(t, "publish") => batches = {} /\ used = {}
        <2> HAVE At(t, "publish")
        <2>1. Busy(t) /\ e.op = "publish" /\ e.op \in Talking
            BY DEF At, Talking
        <2>2. Fits(e, OpenAfter(r, 0)) /\ used \cup batches = OpenAfter(r, 0)
            BY <2>1, PlainStep
        <2> QED BY <2>1, <2>2 DEF Fits
    <1>5. At(t, "publish") => todo[t] \notin Seq(QuietStep)
        <2> HAVE At(t, "publish")
        <2>1. todo[t] # <<>> /\ e.op = "publish"
            BY DEF At, Busy
        <2>2. todo[t] \in Seq(QuietStep) => e \in QuietStep
            BY <1>1, <2>1, NextStep
        <2> QED BY <2>1, <2>2 DEF QuietStep
    <1>6. ~ Busy(t) => used = {} /\ batches = {}
        BY <1>1, NothingOpen DEF Busy
    <1> QED BY <1>2, <1>3, <1>4, <1>5, <1>6

-----------------------------------------------------------------------------
(* The inductive invariant. *)

LEMMA Names ==
    /\ {"run", "updater"} \subseteq Thread /\ ChainRequest \subseteq Thread
    /\ ChainRequest \subseteq Handler
    /\ \A t \in Thread : t # Free /\ t # "notifier"
    /\ \A h \in Handler : h # "run" /\ h # "updater" /\ h # "notifier" /\ h # Free
    /\ \A t \in Thread : t \in {"run", "updater"} \/ t \in Handler
    BY LifecycleAssumption DEF Thread, Handler, Free

LEMMA OwnerWorks ==
    ASSUME NEW t \in Thread, LifecycleTypeOK, DatabaseOwned
    PROVE  /\ owner["chain"] = t => Working(t)
           /\ Busy(t) => owner["chain"] = t
    BY DEF LifecycleTypeOK, DatabaseOwned, Working, Busy

(* Nobody gets the chain's mutex or gives it back. *)
LEMMA DatabaseStays ==
    ASSUME LifecycleInv, UNCHANGED database, owner'["chain"] = owner["chain"],
           syncCb' = syncCb \/ todo["updater"] = <<>>
    PROVE  DatabaseOwned' /\ SyncQuiet'
    <1>1. todo' = todo /\ used' = used /\ batches' = batches
        BY DEF database
    <1>2. \A t \in Thread : InUse(t)' <=> InUse(t)
        BY <1>1 DEF InUse
    <1>3. DatabaseOwned'
        BY <1>1, <1>2 DEF LifecycleInv, DatabaseOwned
    <1>4. SyncQuiet'
        BY <1>1, EmptySeq DEF LifecycleInv, SyncQuiet
    <1> QED BY <1>3, <1>4

(* It is given back by who has nothing left to do. *)
LEMMA DatabaseLeft ==
    ASSUME LifecycleInv, UNCHANGED <<database, syncCb>>, NEW t \in Thread,
           owner["chain"] = t, ~ Busy(t), owner'["chain"] = Free
    PROVE  DatabaseOwned' /\ SyncQuiet'
    <1>1. todo' = todo /\ used' = used /\ batches' = batches
        BY DEF database
    <1>2. Working(t)
        BY OwnerWorks DEF LifecycleInv
    <1>3. used = {} /\ batches = {}
        BY <1>2, NextStepFits
    <1>4. \A u \in Thread : todo[u] = <<>>
        BY DEF LifecycleInv, DatabaseOwned, Busy
    <1>5. DatabaseOwned'
        BY <1>1, <1>3, <1>4, Names DEF DatabaseOwned
    <1>6. SyncQuiet'
        BY <1>1 DEF LifecycleInv, SyncQuiet
    <1> QED BY <1>5, <1>6

(* It is taken by who starts with steps that leave nothing open. *)
LEMMA DatabaseEntered ==
    ASSUME LifecycleInv, NEW t \in Thread, NEW S \in SUBSET StepType, NEW b,
           Leads(S, Object, {}, b, {}), Start(t, b), UNCHANGED <<used, batches, syncCb>>,
           owner["chain"] = Free, owner'["chain"] = t, t = "updater" => S = QuietStep
    PROVE  /\ DatabaseOwned' /\ SyncQuiet'
           /\ todo' \in [Thread -> Seq(StepType)]
    <1>1. used = {} /\ batches = {} /\ \A u \in Thread : todo[u] = <<>>
        BY Names DEF LifecycleInv, DatabaseOwned
    <1>2. b \in Seq(S) /\ b \in Seq(StepType) /\ WellFormed(b) /\ OpenAfter(b, 0) = {}
        BY StartFits
    <1>3. todo \in [Thread -> Seq(StepType)] /\ "updater" \in Thread
        BY Names DEF LifecycleInv, LifecycleTypeOK
    <1>4. /\ todo' \in [Thread -> Seq(StepType)]
          /\ todo'[t] = b
          /\ \A u \in Thread \ {t} : todo'[u] = <<>>
        BY <1>1, <1>2, <1>3 DEF Start
    <1>5. InUse(t)'
        BY <1>1, <1>2, <1>4 DEF InUse
    <1>6. DatabaseOwned'
        BY <1>4, <1>5, Names DEF DatabaseOwned
    <1>7. SyncQuiet'
        <2>1. <<>> \in Seq(QuietStep)
            BY EmptySeq
        <2> QED BY <1>2, <1>3, <1>4, <2>1 DEF SyncQuiet
    <1> QED BY <1>4, <1>6, <1>7

(* What is there and who waits for what, on its own. *)
Stages == LifecycleTypeOK /\ StagesInOrder /\ OwnersInside

LEMMA RunStages ==
    ASSUME LifecycleInv,
           \/ RunStarts \/ StartListening \/ SetBaseCallbacks \/ SetSyncCallbacks
           \/ StartSync \/ SyncStarts \/ RunWaits \/ RunWakes
           \/ StopListening \/ HandlersDrained \/ ClearBaseCallbacks
           \/ ClearSyncCallbacks \/ DestroyPublisher \/ StopSync \/ RunReturns
    PROVE  Stages'
    <1> USE Names DEF LifecycleInv, Stages, LifecycleTypeOK, StagesInOrder, OwnersInside,
                      flags, database, Lock, Unlock, Mutex, SyncCalls, BaseCalls, Serving, Complete
    <1>1. CASE RunStarts
        <2>1. LifecycleTypeOK'
            BY <1>1 DEF RunStarts
        <2>2. StagesInOrder'
            BY <1>1 DEF RunStarts
        <2>3. OwnersInside'
            BY <1>1 DEF RunStarts
        <2> QED BY <2>1, <2>2, <2>3
    <1>2. CASE StartListening
        <2>1. LifecycleTypeOK'
            BY <1>2 DEF StartListening
        <2>2. StagesInOrder'
            BY <1>2 DEF StartListening
        <2>3. OwnersInside'
            BY <1>2 DEF StartListening
        <2> QED BY <2>1, <2>2, <2>3
    <1>3. CASE SetBaseCallbacks
        <2>1. LifecycleTypeOK'
            BY <1>3 DEF SetBaseCallbacks
        <2>2. StagesInOrder'
            BY <1>3 DEF SetBaseCallbacks
        <2>3. OwnersInside'
            BY <1>3 DEF SetBaseCallbacks
        <2> QED BY <2>1, <2>2, <2>3
    <1>4. CASE SetSyncCallbacks
        <2>1. LifecycleTypeOK'
            BY <1>4 DEF SetSyncCallbacks
        <2>2. StagesInOrder'
            BY <1>4 DEF SetSyncCallbacks
        <2>3. OwnersInside'
            BY <1>4 DEF SetSyncCallbacks
        <2> QED BY <2>1, <2>2, <2>3
    <1>5. CASE StartSync
        <2>1. LifecycleTypeOK'
            BY <1>5 DEF StartSync
        <2>2. StagesInOrder'
            BY <1>5 DEF StartSync
        <2>3. OwnersInside'
            BY <1>5 DEF StartSync
        <2> QED BY <2>1, <2>2, <2>3
    <1>6. CASE SyncStarts
        <2>1. LifecycleTypeOK'
            BY <1>6 DEF SyncStarts
        <2>2. StagesInOrder'
            BY <1>6 DEF SyncStarts
        <2>3. OwnersInside'
            <3>1. owner' = [owner EXCEPT !["chain"] = Free, !["sync"] = Free]
                BY <1>6 DEF SyncStarts
            <3>2. owner'["chain"] = Free /\ owner'["sync"] = Free /\ owner'["base"] = owner["base"]
                BY <3>1
            <3>3. \A h \in Handler : handlerPc[h] # "working"
                BY <1>6 DEF SyncStarts
            <3>4. /\ runPc' = "wait" /\ updaterPc' = "lock"
                  /\ notifierPc' = notifierPc /\ handlerPc' = handlerPc
                BY <1>6 DEF SyncStarts
            <3>5. Free \notin {"run", "updater", "notifier"} /\ \A h \in Handler : h # Free
                BY Names DEF Free
            <3> QED BY ONLY LifecycleInv, <3>2, <3>3, <3>4, <3>5 DEF LifecycleInv, OwnersInside
        <2> QED BY <2>1, <2>2, <2>3
    <1>7. CASE RunWaits
        <2>1. LifecycleTypeOK'
            BY <1>7 DEF RunWaits
        <2>2. StagesInOrder'
            BY <1>7 DEF RunWaits
        <2>3. OwnersInside'
            BY <1>7 DEF RunWaits
        <2> QED BY <2>1, <2>2, <2>3
    <1>8. CASE RunWakes
        <2>1. LifecycleTypeOK'
            BY <1>8 DEF RunWakes
        <2>2. StagesInOrder'
            BY <1>8 DEF RunWakes
        <2>3. OwnersInside'
            BY <1>8 DEF RunWakes
        <2> QED BY <2>1, <2>2, <2>3
    <1>9. CASE StopListening
        <2>1. LifecycleTypeOK'
            BY <1>9 DEF StopListening
        <2>2. StagesInOrder'
            BY <1>9 DEF StopListening
        <2>3. OwnersInside'
            BY <1>9 DEF StopListening
        <2> QED BY <2>1, <2>2, <2>3
    <1>10. CASE HandlersDrained
        <2>1. LifecycleTypeOK'
            BY <1>10 DEF HandlersDrained
        <2>2. StagesInOrder'
            BY <1>10 DEF HandlersDrained
        <2>3. OwnersInside'
            BY <1>10 DEF HandlersDrained
        <2> QED BY <2>1, <2>2, <2>3
    <1>11. CASE ClearBaseCallbacks
        <2>1. LifecycleTypeOK'
            BY <1>11 DEF ClearBaseCallbacks
        <2>2. StagesInOrder'
            <3>1. notifierPc = "idle"
                BY <1>11 DEF ClearBaseCallbacks, Free
            <3> QED BY <1>11, <3>1 DEF ClearBaseCallbacks
        <2>3. OwnersInside'
            BY <1>11 DEF ClearBaseCallbacks
        <2> QED BY <2>1, <2>2, <2>3
    <1>12. CASE ClearSyncCallbacks
        <2>1. LifecycleTypeOK'
            BY <1>12 DEF ClearSyncCallbacks
        <2>2. StagesInOrder'
            BY <1>12 DEF ClearSyncCallbacks
        <2>3. OwnersInside'
            BY <1>12 DEF ClearSyncCallbacks
        <2> QED BY <2>1, <2>2, <2>3
    <1>13. CASE DestroyPublisher
        <2>1. LifecycleTypeOK'
            BY <1>13 DEF DestroyPublisher
        <2>2. StagesInOrder'
            BY <1>13 DEF DestroyPublisher
        <2>3. OwnersInside'
            BY <1>13 DEF DestroyPublisher
        <2> QED BY <2>1, <2>2, <2>3
    <1>14. CASE StopSync
        <2>1. LifecycleTypeOK'
            BY <1>14 DEF StopSync
        <2>2. StagesInOrder'
            BY <1>14 DEF StopSync
        <2>3. OwnersInside'
            BY <1>14 DEF StopSync
        <2> QED BY <2>1, <2>2, <2>3
    <1>15. CASE RunReturns
        <2>1. LifecycleTypeOK'
            BY <1>15 DEF RunReturns
        <2>2. StagesInOrder'
            BY <1>15 DEF RunReturns
        <2>3. OwnersInside'
            BY <1>15 DEF RunReturns
        <2> QED BY <2>1, <2>2, <2>3
    <1> QED BY <1>1, <1>2, <1>3, <1>4, <1>5, <1>6, <1>7, <1>8, <1>9, <1>10, <1>11, <1>12, <1>13, <1>14, <1>15

(* The other threads do not change the stage of Controller::Run. *)
LEMMA OtherStages ==
    ASSUME LifecycleInv,
           \/ UpdaterLocks \/ UpdaterEnds \/ UpdaterReleases \/ NotifierStep
           \/ \E h \in Handler : CallArrives(h) \/ HandleController(h) \/ HandleBase(h) \/ HandleDone(h)
    PROVE  Stages'
    <1> USE Names DEF LifecycleInv, Stages, LifecycleTypeOK, StagesInOrder, OwnersInside,
                      flags, database, Lock, Unlock, Mutex
    <1>1. CASE UpdaterLocks
        <2>1. LifecycleTypeOK'
            BY <1>1 DEF UpdaterLocks
        <2>2. StagesInOrder'
            BY <1>1 DEF UpdaterLocks
        <2>3. OwnersInside'
            BY <1>1 DEF UpdaterLocks
        <2> QED BY <2>1, <2>2, <2>3
    <1>2. CASE UpdaterEnds
        <2>1. LifecycleTypeOK'
            BY <1>2 DEF UpdaterEnds
        <2>2. StagesInOrder'
            BY <1>2 DEF UpdaterEnds
        <2>3. OwnersInside'
            BY <1>2 DEF UpdaterEnds
        <2> QED BY <2>1, <2>2, <2>3
    <1>3. CASE UpdaterReleases
        <2>1. LifecycleTypeOK'
            BY <1>3 DEF UpdaterReleases
        <2>2. StagesInOrder'
            BY <1>3 DEF UpdaterReleases
        <2>3. OwnersInside'
            <3>1. owner' = [owner EXCEPT !["chain"] = Free, !["sync"] = Free]
                BY <1>3 DEF UpdaterReleases
            <3>2. owner'["chain"] = Free /\ owner'["sync"] = Free /\ owner'["base"] = owner["base"]
                BY <3>1
            <3>3. runPc # "setChain" /\ \A h \in Handler : handlerPc[h] # "working"
                BY <1>3 DEF UpdaterReleases
            <3>4. /\ runPc' = runPc /\ updaterPc' = "lock"
                  /\ notifierPc' = notifierPc /\ handlerPc' = handlerPc
                BY <1>3 DEF UpdaterReleases
            <3>5. Free \notin {"run", "updater", "notifier"} /\ \A h \in Handler : h # Free
                BY Names DEF Free
            <3> QED BY ONLY LifecycleInv, <3>2, <3>3, <3>4, <3>5 DEF LifecycleInv, OwnersInside
        <2> QED BY <2>1, <2>2, <2>3
    <1>4. CASE NotifierStep
        <2>1. Free # "notifier"
            BY DEF Free
        <2>2. LifecycleTypeOK'
            <3>1. notifierPc' \in {"idle", "pendings", "newTip", "release"}
                BY <1>4 DEF NotifierStep, Notify, NotifyPendings, NotifySync, NotifyDone
            <3>2. owner' \in [Mutex -> Thread \cup {"notifier", Free}]
                <4>1. \/ owner' = owner
                      \/ owner' = [owner EXCEPT !["base"] = "notifier"]
                      \/ owner' = [owner EXCEPT !["base"] = Free]
                    BY <1>4 DEF NotifierStep, Notify, NotifyPendings, NotifySync, NotifyDone
                <4>2. owner \in [Mutex -> Thread \cup {"notifier", Free}]
                    OBVIOUS
                <4> QED BY ONLY <4>1, <4>2
            <3>3. UNCHANGED <<runPc, flags, updaterPc, handlerPc, database>>
                BY <1>4 DEF NotifierStep, Notify, NotifyPendings, NotifySync, NotifyDone
            <3> QED BY <3>1, <3>2, <3>3
        <2>3. StagesInOrder'
            BY <1>4 DEF NotifierStep, Notify, NotifyPendings, NotifySync, NotifyDone
        <2>4. OwnersInside'
            BY <1>4, <2>1 DEF NotifierStep, Notify, NotifyPendings, NotifySync, NotifyDone
        <2> QED BY <2>2, <2>3, <2>4
    <1>5. ASSUME NEW h \in Handler, CallArrives(h) \/ HandleController(h) \/ HandleBase(h)
          PROVE  Stages'
        <2>1. listening \/ handlerPc[h] = "called"
            BY <1>5 DEF CallArrives, HandleController, HandleBase
        <2>2. runPc \in Serving \cup {"drain"}
            BY <2>1
        <2>3. LifecycleTypeOK'
            <3>1. handlerPc' \in [Handler -> {"idle", "called", "working", "done"}]
                <4>1. handlerPc \in [Handler -> {"idle", "called", "working", "done"}]
                    BY ONLY LifecycleInv DEF LifecycleInv, LifecycleTypeOK
                <4>2. \E pc \in {"called", "done"} : handlerPc' = [handlerPc EXCEPT ![h] = pc]
                    BY ONLY <1>5 DEF CallArrives, HandleController, HandleBase
                <4> QED BY ONLY <4>1, <4>2, h \in Handler
            <3>2. shouldStop' \in BOOLEAN
                BY <1>5 DEF CallArrives, HandleController, HandleBase
            <3>3. UNCHANGED <<runPc, exists, listening, baseCb, syncCb, syncShouldStop,
                              updaterPc, notifierPc, owner, database>>
                BY <1>5 DEF CallArrives, HandleController, HandleBase
            <3> QED BY <3>1, <3>2, <3>3
        <2>4. StagesInOrder'
            BY <1>5, <2>2 DEF CallArrives, HandleController, HandleBase
        <2>5. OwnersInside'
            BY <1>5 DEF CallArrives, HandleController, HandleBase
        <2> QED BY <2>3, <2>4, <2>5
    <1>6. ASSUME NEW h \in Handler, HandleDone(h)
          PROVE  Stages'
        <2>1. LifecycleTypeOK'
            BY <1>6 DEF HandleDone
        <2>2. StagesInOrder'
            BY <1>6 DEF HandleDone
        <2>3. OwnersInside'
            <3>1. owner["chain"] = h /\ \A g \in Handler \ {h} : handlerPc[g] # "working"
                BY <1>6 DEF HandleDone
            <3>2. owner'["chain"] = Free /\ \A m \in Mutex \ {"chain"} : owner'[m] = owner[m]
                BY <1>6 DEF HandleDone
            <3>3. Free \notin {"run", "updater", "notifier"}
                BY DEF Free
            <3> QED BY <1>6, <3>1, <3>2, <3>3 DEF HandleDone
        <2> QED BY <2>1, <2>2, <2>3
    <1> QED BY <1>1, <1>2, <1>3, <1>4, <1>5, <1>6

(* A thread that takes the chain's mutex. *)
LEMMA SyncSetsChainKeeps ==
    ASSUME LifecycleInv, SyncSetsChain
    PROVE  LifecycleInv'
    <1>1. PICK b \in SetChain : Start("run", b)
        BY DEF SyncSetsChain
    <1>2. Leads(QuietStep, Object, {}, b, {}) /\ QuietStep \in SUBSET StepType
        BY SetChainLeads, QuietSteps
    <1>3. /\ owner["chain"] = Free /\ owner' = [owner EXCEPT !["chain"] = "run"]
          /\ runPc = "lockChain" /\ runPc' = "setChain"
          /\ UNCHANGED <<flags, updaterPc, notifierPc, handlerPc, used, batches>>
        BY DEF SyncSetsChain, Lock
    <1>4. owner \in [Mutex -> Thread \cup {"notifier", Free}] /\ "run" \in Thread
        BY Names DEF LifecycleInv, LifecycleTypeOK
    <1>5. /\ owner' \in [Mutex -> Thread \cup {"notifier", Free}]
          /\ owner'["chain"] = "run" /\ \A m \in Mutex \ {"chain"} : owner'[m] = owner[m]
        BY <1>3, <1>4 DEF Mutex
    <1>6. DatabaseOwned' /\ SyncQuiet' /\ todo' \in [Thread -> Seq(StepType)]
        BY <1>1, <1>2, <1>3, <1>4, <1>5, DatabaseEntered DEF flags
    <1>7. LifecycleTypeOK'
        BY <1>3, <1>5, <1>6 DEF LifecycleInv, LifecycleTypeOK, flags, Complete, SyncCalls
    <1>8. StagesInOrder'
        BY <1>3 DEF LifecycleInv, StagesInOrder, flags, Complete, SyncCalls, BaseCalls, Serving
    <1>9. OwnersInside'
        <2>1. updaterPc # "step" /\ \A h \in Handler : handlerPc[h] # "working"
            BY <1>3, Names DEF LifecycleInv, OwnersInside
        <2> QED BY <1>3, <1>5, <2>1, Names DEF LifecycleInv, OwnersInside, Mutex
    <1> QED BY <1>6, <1>7, <1>8, <1>9 DEF LifecycleInv

LEMMA UpdaterStepsKeeps ==
    ASSUME LifecycleInv, UpdaterSteps
    PROVE  LifecycleInv'
    <1>1. PICK b \in UpdateStep : Start("updater", b)
        BY DEF UpdaterSteps
    <1>2. Leads(QuietStep, Object, {}, b, {}) /\ QuietStep \in SUBSET StepType
        BY UpdateStepLeads, QuietSteps DEF AllLead
    <1>3. /\ owner["chain"] = Free /\ owner' = [owner EXCEPT !["chain"] = "updater"]
          /\ updaterPc = "check" /\ updaterPc' = "step"
          /\ UNCHANGED <<runPc, flags, notifierPc, handlerPc, used, batches>>
        BY DEF UpdaterSteps, Lock
    <1>4. owner \in [Mutex -> Thread \cup {"notifier", Free}] /\ "updater" \in Thread
        BY Names DEF LifecycleInv, LifecycleTypeOK
    <1>5. /\ owner' \in [Mutex -> Thread \cup {"notifier", Free}]
          /\ owner'["chain"] = "updater" /\ \A m \in Mutex \ {"chain"} : owner'[m] = owner[m]
        BY <1>3, <1>4 DEF Mutex
    <1>6. DatabaseOwned' /\ SyncQuiet' /\ todo' \in [Thread -> Seq(StepType)]
        BY <1>1, <1>2, <1>3, <1>4, <1>5, DatabaseEntered DEF flags
    <1>7. LifecycleTypeOK'
        BY <1>3, <1>5, <1>6 DEF LifecycleInv, LifecycleTypeOK, flags
    <1>8. StagesInOrder'
        BY <1>3 DEF LifecycleInv, StagesInOrder, flags
    <1>9. OwnersInside'
        <2>1. runPc # "setChain" /\ \A h \in Handler : handlerPc[h] # "working"
            BY <1>3, Names DEF LifecycleInv, OwnersInside
        <2> QED BY <1>3, <1>5, <2>1, Names DEF LifecycleInv, OwnersInside, Mutex
    <1> QED BY <1>6, <1>7, <1>8, <1>9 DEF LifecycleInv

LEMMA HandleChainKeeps ==
    ASSUME LifecycleInv, NEW h \in Handler, HandleChain(h)
    PROVE  LifecycleInv'
    <1>1. PICK b \in Request : Start(h, b)
        BY DEF HandleChain
    <1>2. Leads(StepType, Object, {}, b, {}) /\ StepType \in SUBSET StepType
        BY RequestLeads DEF AllLead
    <1>3. /\ owner["chain"] = Free /\ owner' = [owner EXCEPT !["chain"] = h]
          /\ handlerPc[h] = "called" /\ handlerPc' = [handlerPc EXCEPT ![h] = "working"]
          /\ UNCHANGED <<runPc, flags, updaterPc, notifierPc, used, batches>>
        BY DEF HandleChain, Lock
    <1>4. owner \in [Mutex -> Thread \cup {"notifier", Free}] /\ h \in Thread /\ h # "updater"
        BY Names DEF LifecycleInv, LifecycleTypeOK, HandleChain
    <1>5. /\ owner' \in [Mutex -> Thread \cup {"notifier", Free}]
          /\ owner'["chain"] = h /\ \A m \in Mutex \ {"chain"} : owner'[m] = owner[m]
        BY <1>3, <1>4 DEF Mutex
    <1>6. DatabaseOwned' /\ SyncQuiet' /\ todo' \in [Thread -> Seq(StepType)]
        BY <1>1, <1>2, <1>3, <1>4, <1>5, DatabaseEntered DEF flags
    <1>7. handlerPc \in [Handler -> {"idle", "called", "working", "done"}]
        BY DEF LifecycleInv, LifecycleTypeOK
    <1>8. /\ handlerPc' \in [Handler -> {"idle", "called", "working", "done"}]
          /\ handlerPc'[h] = "working" /\ \A g \in Handler \ {h} : handlerPc'[g] = handlerPc[g]
        BY <1>3, <1>7
    <1>9. LifecycleTypeOK'
        BY <1>3, <1>5, <1>6, <1>8 DEF LifecycleInv, LifecycleTypeOK, flags
    <1>10. StagesInOrder'
        <2>1. runPc \in Serving \cup {"drain"}
            BY <1>3 DEF LifecycleInv, StagesInOrder
        <2> QED BY <1>3, <2>1 DEF LifecycleInv, StagesInOrder, flags
    <1>11. OwnersInside'
        <2>1. runPc # "setChain" /\ updaterPc # "step" /\ \A g \in Handler : handlerPc[g] # "working"
            BY <1>3, Names DEF LifecycleInv, OwnersInside
        <2> QED BY <1>3, <1>5, <1>8, <2>1, Names DEF LifecycleInv, OwnersInside, Mutex
    <1> QED BY <1>6, <1>9, <1>10, <1>11 DEF LifecycleInv

(* The owner of the chain's mutex at work. *)
LEMMA UseDatabaseKeeps ==
    ASSUME LifecycleInv, NEW t \in Thread, UseDatabase(t)
    PROVE  LifecycleInv'
    <1>1. Busy(t)
        BY DEF UseDatabase, Acquire, RunQuery, Release, OpenBatch, CloseBatch, CallMethod,
               SkipMethod, LoopMethod, CallOthers, OthersThrow, LeaveTry, CallBack, At
    <1>2. owner["chain"] = t /\ Working(t)
        BY <1>1, OwnerWorks DEF LifecycleInv
    <1>3. /\ Working(t)'
          /\ \A u \in Thread \ {t} : todo'[u] = todo[u]
          /\ todo[t] \in Seq(QuietStep) /\ ~ syncCb => todo'[t] \in Seq(QuietStep)
          /\ UNCHANGED <<runPc, flags, updaterPc, notifierPc, handlerPc, owner>>
        BY <1>2, UseDatabaseWorks
    <1>4. LifecycleTypeOK'
        BY <1>3 DEF LifecycleInv, LifecycleTypeOK, Working, flags
    <1>5. StagesInOrder'
        BY <1>3 DEF LifecycleInv, StagesInOrder, flags
    <1>6. OwnersInside'
        BY <1>3 DEF LifecycleInv, OwnersInside
    <1>7. DatabaseOwned'
        <2>1. owner'["chain"] = t /\ t # Free /\ InUse(t)'
            BY <1>2, <1>3, Names DEF Working
        <2>2. \A u \in Thread \ {t} : todo'[u] = <<>>
            BY <1>2, <1>3 DEF LifecycleInv, DatabaseOwned
        <2> QED BY <2>1, <2>2 DEF DatabaseOwned
    <1>8. SyncQuiet'
        <2>1. syncCb' = syncCb
            BY <1>3 DEF flags
        <2>2. CASE t = "updater"
            BY <1>3, <2>1, <2>2 DEF LifecycleInv, SyncQuiet
        <2>3. CASE t # "updater"
            <3>1. todo'["updater"] = todo["updater"]
                BY <1>3, <2>3, Names
            <3> QED BY <2>1, <3>1 DEF LifecycleInv, SyncQuiet
        <2> QED BY <2>2, <2>3
    <1> QED BY <1>4, <1>5, <1>6, <1>7, <1>8 DEF LifecycleInv

(* The threads that neither take the chain's mutex nor give it back. *)
LEMMA OutsideKeeps ==
    ASSUME LifecycleInv, Stages', UNCHANGED database, owner'["chain"] = owner["chain"],
           syncCb' = syncCb \/ todo["updater"] = <<>>
    PROVE  LifecycleInv'
    BY DatabaseStays DEF Stages, LifecycleInv

LEMMA LeavingKeeps ==
    ASSUME LifecycleInv, Stages', UNCHANGED <<database, syncCb>>, NEW t \in Thread,
           owner["chain"] = t, ~ Busy(t), owner'["chain"] = Free
    PROVE  LifecycleInv'
    BY DatabaseLeft DEF Stages, LifecycleInv

LEMMA RunKeeps ==
    ASSUME LifecycleInv, RunStep
    PROVE  LifecycleInv'
    <1>1. owner \in [Mutex -> Thread \cup {"notifier", Free}]
        BY DEF LifecycleInv, LifecycleTypeOK
    <1>2. CASE \/ RunStarts \/ StartListening \/ SetBaseCallbacks \/ SetSyncCallbacks
               \/ StartSync \/ RunWaits \/ RunWakes
               \/ StopListening \/ HandlersDrained \/ ClearBaseCallbacks
               \/ DestroyPublisher \/ StopSync \/ RunReturns
        <2>1. Stages'
            BY <1>2, RunStages
        <2>2. UNCHANGED database
            BY <1>2 DEF RunStarts, StartListening, SetBaseCallbacks, SetSyncCallbacks, StartSync,
                        RunWaits, RunWakes, StopListening, HandlersDrained, ClearBaseCallbacks,
                        DestroyPublisher, StopSync, RunReturns
        <2>3. owner'["chain"] = owner["chain"]
            BY <1>1, <1>2 DEF RunStarts, StartListening, SetBaseCallbacks, SetSyncCallbacks, StartSync,
                        RunWaits, RunWakes, StopListening, HandlersDrained, ClearBaseCallbacks,
                        DestroyPublisher, StopSync, RunReturns, Lock, Unlock, Mutex
        <2>4. syncCb' = syncCb \/ todo["updater"] = <<>>
            <3>1. CASE SetSyncCallbacks
                <4>1. owner["chain"] # "updater"
                    BY <3>1 DEF SetSyncCallbacks, LifecycleInv, StagesInOrder, OwnersInside
                <4> QED BY <4>1, Names DEF LifecycleInv, DatabaseOwned
            <3>2. CASE ~ SetSyncCallbacks
                BY <1>2, <3>2 DEF RunStarts, StartListening, SetBaseCallbacks, StartSync,
                        RunWaits, RunWakes, StopListening, HandlersDrained, ClearBaseCallbacks,
                        DestroyPublisher, StopSync, RunReturns, flags
            <3> QED BY <3>1, <3>2
        <2> QED BY <2>1, <2>2, <2>3, <2>4, OutsideKeeps
    <1>3. CASE ClearSyncCallbacks
        <2>1. Stages'
            BY <1>3, RunStages
        <2>2. UNCHANGED database /\ owner' = owner /\ owner["sync"] = Free
            BY <1>3 DEF ClearSyncCallbacks
        <2>3. updaterPc # "step" /\ owner["chain"] # "updater"
            BY <2>2, Names DEF LifecycleInv, OwnersInside
        <2>4. todo["updater"] = <<>>
            BY <2>3, Names DEF LifecycleInv, DatabaseOwned
        <2> QED BY <2>1, <2>2, <2>4, OutsideKeeps
    <1>4. CASE SyncStarts
        <2>1. Stages'
            BY <1>4, RunStages
        <2>2. UNCHANGED <<database, syncCb>> /\ owner["chain"] = "run" /\ ~ Busy("run")
            BY <1>4 DEF SyncStarts, flags, LifecycleInv, OwnersInside
        <2>3. owner'["chain"] = Free
            BY <1>1, <1>4 DEF SyncStarts, Mutex
        <2> QED BY <2>1, <2>2, <2>3, Names, LeavingKeeps
    <1>5. CASE SyncSetsChain
        BY <1>5, SyncSetsChainKeeps
    <1>6. CASE UseDatabase("run")
        BY <1>6, Names, UseDatabaseKeeps
    <1> QED BY <1>2, <1>3, <1>4, <1>5, <1>6 DEF RunStep

LEMMA UpdaterKeeps ==
    ASSUME LifecycleInv, UpdaterStep
    PROVE  LifecycleInv'
    <1>1. owner \in [Mutex -> Thread \cup {"notifier", Free}]
        BY DEF LifecycleInv, LifecycleTypeOK
    <1>2. CASE UpdaterLocks \/ UpdaterEnds
        <2>1. Stages'
            BY <1>2, OtherStages
        <2>2. UNCHANGED <<database, syncCb>>
            BY <1>2 DEF UpdaterLocks, UpdaterEnds, flags
        <2>3. owner'["chain"] = owner["chain"]
            BY <1>1, <1>2 DEF UpdaterLocks, UpdaterEnds, Lock, Unlock, Mutex
        <2> QED BY <2>1, <2>2, <2>3, OutsideKeeps
    <1>3. CASE UpdaterReleases
        <2>1. Stages'
            BY <1>3, OtherStages
        <2>2. UNCHANGED <<database, syncCb>> /\ owner["chain"] = "updater" /\ ~ Busy("updater")
            BY <1>3 DEF UpdaterReleases, flags, LifecycleInv, OwnersInside
        <2>3. owner'["chain"] = Free
            BY <1>1, <1>3 DEF UpdaterReleases, Mutex
        <2> QED BY <2>1, <2>2, <2>3, Names, LeavingKeeps
    <1>4. CASE UpdaterSteps
        BY <1>4, UpdaterStepsKeeps
    <1>5. CASE UseDatabase("updater")
        BY <1>5, Names, UseDatabaseKeeps
    <1> QED BY <1>2, <1>3, <1>4, <1>5 DEF UpdaterStep

LEMMA NotifierKeeps ==
    ASSUME LifecycleInv, NotifierStep
    PROVE  LifecycleInv'
    <1>1. owner \in [Mutex -> Thread \cup {"notifier", Free}]
        BY DEF LifecycleInv, LifecycleTypeOK
    <1>2. Stages'
        BY OtherStages
    <1>3. UNCHANGED <<database, syncCb>>
        BY DEF NotifierStep, Notify, NotifyPendings, NotifySync, NotifyDone, flags
    <1>4. owner'["chain"] = owner["chain"]
        BY <1>1 DEF NotifierStep, Notify, NotifyPendings, NotifySync, NotifyDone, Lock, Unlock, Mutex
    <1> QED BY <1>2, <1>3, <1>4, OutsideKeeps

LEMMA HandlerKeeps ==
    ASSUME LifecycleInv, NEW h \in Handler, CallArrives(h) \/ HandlerStep(h)
    PROVE  LifecycleInv'
    <1>1. owner \in [Mutex -> Thread \cup {"notifier", Free}]
        BY DEF LifecycleInv, LifecycleTypeOK
    <1>2. CASE CallArrives(h) \/ HandleController(h) \/ HandleBase(h)
        <2>1. Stages'
            BY <1>2, OtherStages
        <2>2. UNCHANGED <<database, syncCb, owner>>
            BY <1>2 DEF CallArrives, HandleController, HandleBase, flags
        <2> QED BY <2>1, <2>2, OutsideKeeps
    <1>3. CASE HandleDone(h)
        <2>1. Stages'
            BY <1>3, OtherStages
        <2>2. UNCHANGED <<database, syncCb>> /\ owner["chain"] = h /\ ~ Busy(h)
            BY <1>3 DEF HandleDone, flags, LifecycleInv, OwnersInside
        <2>3. owner'["chain"] = Free
            BY <1>1, <1>3 DEF HandleDone, Unlock, Mutex
        <2>4. h \in Thread
            BY <1>1, <2>2, Names DEF Mutex
        <2> QED BY <2>1, <2>2, <2>3, <2>4, LeavingKeeps
    <1>4. CASE HandleChain(h)
        BY <1>4, HandleChainKeeps
    <1>5. CASE h \in ChainRequest /\ UseDatabase(h)
        BY <1>5, Names, UseDatabaseKeeps
    <1> QED BY <1>2, <1>3, <1>4, <1>5 DEF HandlerStep

LEMMA LifecycleInitInv == LifecycleInit => LifecycleInv
    <1> HAVE LifecycleInit
    <1> USE DEF LifecycleInit, DatabaseInit
    <1>1. <<>> \in Seq(StepType) /\ <<>> \in Seq(QuietStep)
        BY EmptySeq
    <1>2. LifecycleTypeOK
        BY <1>1 DEF LifecycleTypeOK
    <1>3. StagesInOrder
        BY DEF StagesInOrder, Complete, SyncCalls, BaseCalls, Serving
    <1>4. OwnersInside
        BY Names DEF OwnersInside, Mutex, Free
    <1>5. DatabaseOwned
        BY Names DEF DatabaseOwned, Mutex
    <1>6. SyncQuiet
        BY <1>1, Names DEF SyncQuiet
    <1> QED BY <1>2, <1>3, <1>4, <1>5, <1>6 DEF LifecycleInv

LEMMA LifecycleNextInv == LifecycleInv /\ [LifecycleNext]_lifecycleVars => LifecycleInv'
    <1> SUFFICES ASSUME LifecycleInv, [LifecycleNext]_lifecycleVars
                 PROVE  LifecycleInv'
        OBVIOUS
    <1>1. CASE RunStep
        BY <1>1, RunKeeps
    <1>2. CASE UpdaterStep
        BY <1>2, UpdaterKeeps
    <1>3. CASE NotifierStep
        BY <1>3, NotifierKeeps
    <1>4. ASSUME NEW h \in Handler, CallArrives(h) \/ HandlerStep(h)
          PROVE  LifecycleInv'
        BY <1>4, HandlerKeeps
    <1>5. CASE UNCHANGED lifecycleVars
        <2>1. UNCHANGED <<runPc, flags, updaterPc, notifierPc, handlerPc, owner, database>>
            BY <1>5 DEF lifecycleVars
        <2>2. Stages'
            BY <2>1 DEF LifecycleInv, Stages, LifecycleTypeOK, StagesInOrder, OwnersInside, flags, database
        <2>3. syncCb' = syncCb /\ owner' = owner
            BY <2>1 DEF flags
        <2> QED BY <2>1, <2>2, <2>3, OutsideKeeps
    <1> QED BY <1>1, <1>2, <1>3, <1>4, <1>5 DEF LifecycleNext

(***************************************************************************)
(* From its first step to its last, each stage of Controller::Run has the  *)
(* members, the callbacks and the mutexes that it should, and what is open *)
(* in the database is what the owner of the chain's mutex is to close.     *)
(***************************************************************************)
THEOREM LifecycleInvariant == LifecycleSpec => []LifecycleInv
    BY LifecycleInitInv, LifecycleNextInv, PTL DEF LifecycleSpec

(***************************************************************************)
(* Who publishes: an RPC thread that the server waits for before anything  *)
(* is destroyed, or the updater while Sync::Callbacks are set.             *)
(***************************************************************************)
LEMMA PublisherThere ==
    ASSUME LifecycleInv, NEW t \in Thread, At(t, "publish")
    PROVE  runPc \in Complete
    <1>1. owner["chain"] = t /\ Working(t)
        BY OwnerWorks DEF LifecycleInv, At
    <1>2. todo[t] \notin Seq(QuietStep)
        BY <1>1, NextStepFits
    <1>3. CASE t = "run"
        BY <1>1, <1>3 DEF LifecycleInv, OwnersInside, Complete, SyncCalls
    <1>4. CASE t = "updater"
        <2>1. syncCb
            BY <1>2, <1>4 DEF LifecycleInv, SyncQuiet
        <2> QED BY <2>1 DEF LifecycleInv, StagesInOrder, Complete
    <1>5. CASE t \in Handler
        <2>1. handlerPc[t] = "working"
            BY <1>1, <1>5 DEF LifecycleInv, OwnersInside
        <2>2. runPc \in Serving \cup {"drain"}
            BY <1>5, <2>1 DEF LifecycleInv, StagesInOrder
        <2> QED BY <2>2 DEF Complete, SyncCalls
    <1> QED BY <1>3, <1>4, <1>5, Names

(***************************************************************************)
(* The destructor of RunData never destroys a member that a thread is in,  *)
(* although ZmqPub and PendingManager go before the updater is joined.     *)
(***************************************************************************)
THEOREM MembersOutliveTheirUsers == LifecycleSpec => []NothingUsedAfterDestruction
    <1>1. LifecycleInv => NothingUsedAfterDestruction
        <2> SUFFICES ASSUME LifecycleInv
                     PROVE  NothingUsedAfterDestruction
            OBVIOUS
        <2>1. updaterPc \in {"check", "step"} => {"chain", "sync"} \subseteq exists
            BY DEF LifecycleInv, StagesInOrder
        <2>2. ASSUME NEW t \in Thread, At(t, "publish")
              PROVE  {"zmq", "pendings"} \subseteq exists
            <3>1. runPc \in Complete
                BY <2>2, PublisherThere
            <3> QED BY <3>1 DEF LifecycleInv, StagesInOrder
        <2>3. notifierPc \in {"pendings", "newTip"} => {"pendings", "sync"} \subseteq exists
            BY DEF LifecycleInv, StagesInOrder, Complete, Serving, BaseCalls
        <2>4. ASSUME NEW h \in Handler, handlerPc[h] \notin {"idle", "done"}
              PROVE  {"chain", "zmq"} \subseteq exists
            <3>1. runPc \in Serving \cup {"drain"}
                BY <2>4 DEF LifecycleInv, StagesInOrder
            <3>2. runPc \in Complete
                BY <3>1 DEF Complete, SyncCalls
            <3> QED BY <3>2 DEF LifecycleInv, StagesInOrder
        <2> QED BY <2>1, <2>2, <2>3, <2>4 DEF NothingUsedAfterDestruction
    <1> QED BY <1>1, LifecycleInvariant, PTL

(***************************************************************************)
(* The CHECK in Database::Prepare never fails: no method of Chainstate,    *)
(* whatever calls it and however often it goes around its loops, prepares  *)
(* a statement that it or a caller has open.                               *)
(***************************************************************************)
THEOREM NoStatementPreparedTwice == LifecycleSpec => []StatementsUsedOnce
    <1>1. LifecycleInv => StatementsUsedOnce
        <2> SUFFICES ASSUME LifecycleInv, NEW t \in Thread, At(t, "take") \/ At(t, "query")
                     PROVE  Head(todo[t]).arg \notin used
            BY DEF StatementsUsedOnce
        <2>1. Working(t)
            BY OwnerWorks DEF LifecycleInv, At
        <2> QED BY <2>1, NextStepFits
    <1> QED BY <1>1, LifecycleInvariant, PTL

(***************************************************************************)
(* The database is used only under the chain's mutex, and is left with no  *)
(* statement in use and no savepoint open, also by way of an exception.    *)
(***************************************************************************)
THEOREM DatabaseLeftClean == LifecycleSpec => []DatabaseGuarded
    <1>1. LifecycleInv => DatabaseGuarded
        BY OwnerWorks DEF LifecycleInv, DatabaseOwned, DatabaseGuarded
    <1> QED BY <1>1, LifecycleInvariant, PTL

(* ZMQ messages are sent only when every UpdateBatch is committed. *)
THEOREM CommittedBeforePublished == LifecycleSpec => []PublishedIsCommitted
    <1>1. LifecycleInv => PublishedIsCommitted
        <2> SUFFICES ASSUME LifecycleInv, NEW t \in Thread, At(t, "publish")
                     PROVE  batches = {}
            BY DEF PublishedIsCommitted
        <2>1. Working(t)
            BY OwnerWorks DEF LifecycleInv, At
        <2> QED BY <2>1, NextStepFits
    <1> QED BY <1>1, LifecycleInvariant, PTL
=============================================================================
