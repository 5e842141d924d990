------------------------- MODULE ChainstateTheorems -------------------------
(***************************************************************************)
(* Proofs about Chainstate, for every tree of blocks.  What its operations *)
(* do to a table is in BlocksTheorems.                                     *)
(***************************************************************************)
EXTENDS Chainstate, BlocksTheorems, SequenceTheorems

(* TreeStore's ancestors are those of Chainstate. *)
LEMMA StoreAnc == Store!Anc = Anc
  <1>1. ASSUME NEW S
        PROVE  Store!AncestorClosed(S) <=> AncestorClosed(S)
    BY DEF Store!AncestorClosed, AncestorClosed
  <1> QED BY <1>1 DEF Store!Anc, Anc

(* The path from the root to the tip of the tree is the main chain. *)
LEMMA TreeOfTable ==
    ASSUME NEW t, TableInv(t), Main(t) # {}
    PROVE  /\ TreeOf(t) = [stored |-> Known(t), root |-> Lowest(t), tip |-> Tip(t)]
           /\ TreeOf(t).tip # NoBlock
           /\ Store!MainPath(TreeOf(t)) = Main(t)
  <1>1. TreeOf(t) = [stored |-> Known(t), root |-> Lowest(t), tip |-> Tip(t)]
    BY DEF TreeOf
  <1>2. Tip(t) # NoBlock
    BY TipOfMain, KnownType, BlocksAssumption
  <1>3. TreeOf(t).root = Lowest(t) /\ TreeOf(t).tip = Tip(t)
    BY <1>1
  <1>4. Main(t) = {c \in Anc[Tip(t)] : Height[c] >= Height[Lowest(t)]}
    BY InvHasNoGaps DEF MainIsAncestry
  <1> QED BY <1>1, <1>2, <1>3, <1>4, StoreAnc DEF Store!MainPath

LEMMA TreeOfEmpty ==
    ASSUME NEW t, TableInv(t), Main(t) = {}
    PROVE  /\ TreeOf(t) = [stored |-> {}, root |-> NoBlock, tip |-> NoBlock]
           /\ Store!MainPath(TreeOf(t)) = {}
  <1>1. Known(t) = {}
    BY DEF TableInv
  <1> QED BY <1>1 DEF TreeOf, Store!MainPath

(* The tree of a table on which b was made the tip. *)
LEMMA TreeOfNewTip ==
    ASSUME NEW t, NEW u, NEW b \in Block, NewTip(t, u, b)
    PROVE  /\ TableInv(u) /\ Main(u) # {} /\ Lowest(u) \in Anc[b]
           /\ TreeOf(u) = [stored |-> Known(u), root |-> Lowest(u), tip |-> b]
  <1>1. TableInv(u) /\ b \in Main(u) /\ \A c \in Main(u) : Height[c] =< Height[b]
    BY DEF NewTip
  <1>2. b = Tip(u)
    BY <1>1, EndsOfMain
  <1>3. Lowest(u) \in Main(u) /\ Height[Lowest(u)] =< Height[b]
    BY <1>1, LowestOfMain
  <1>4. Lowest(u) \in Anc[b]
    BY <1>1, <1>3, MainIsLinear
  <1> QED BY <1>1, <1>2, <1>4, TreeOfTable

-----------------------------------------------------------------------------
(* An operation that replaces the current table and leaves the batches. *)
LEMMA TableReplaced ==
    ASSUME Inv, saves' = saves, Record, TableInv(table'),
           Accounted(table) \subseteq Accounted(table')
    PROVE  Inv'
  <1>1. /\ \A t \in Tables : TableInv(t) /\ seen \subseteq Accounted(t)
        /\ Known(Durable) \subseteq seen
        /\ TypeOK
    BY DEF Inv
  <1>2. /\ table \in Tables
        /\ \A t \in Tables' : t = table' \/ t \in Tables
    BY DEF Tables
  <1>3. seen \subseteq seen' /\ Known(Durable)' \subseteq seen'
    BY DEF Record
  <1>4. ASSUME NEW t \in Tables'
        PROVE  TableInv(t) /\ seen' \subseteq Accounted(t)
    <2>1. TableInv(t) /\ seen \subseteq Accounted(t)
      BY <1>1, <1>2
    <2>2. CASE saves = <<>>
      <3>1. t = table' /\ Durable' = table'
        BY <2>2 DEF Tables, Durable
      <3>2. Known(Durable') \subseteq Accounted(t)
        BY <3>1 DEF Accounted
      <3> QED BY <2>1, <3>2 DEF Record
    <2>3. CASE saves # <<>>
      <3>1. Durable' = Durable
        BY <2>3 DEF Durable
      <3> QED BY <1>1, <2>1, <3>1 DEF Record
    <2> QED BY <2>2, <2>3
  <1>5. TypeOK'
    <2>1. IsTable(table')
      BY DEF TableInv
    <2>2. seen' \subseteq Block
      BY <1>1, KnownType DEF Record, TypeOK
    <2> QED BY <1>1, <2>1, <2>2 DEF TypeOK
  <1> QED BY <1>3, <1>4, <1>5 DEF Inv

(* An operation on the batches only brings back tables that were there. *)
LEMMA TableKept ==
    ASSUME Inv, Record, Tables' \subseteq Tables,
           IsTable(table'), saves' \in Seq([Block -> Nat \cup {NotStored}]),
           Durable' = Durable \/ Tables' = {Durable'}
    PROVE  Inv'
  <1>1. /\ \A t \in Tables : TableInv(t) /\ seen \subseteq Accounted(t)
        /\ Known(Durable) \subseteq seen
        /\ TypeOK
    BY DEF Inv
  <1>2. ASSUME NEW t \in Tables'
        PROVE  TableInv(t) /\ seen' \subseteq Accounted(t)
    <2>1. TableInv(t) /\ seen \subseteq Accounted(t)
      BY <1>1, <1>2
    <2>2. CASE Durable' = Durable
      BY <1>1, <2>1, <2>2 DEF Record
    <2>3. CASE Tables' = {Durable'}
      <3>1. Known(Durable') \subseteq Accounted(t)
        BY <1>2, <2>3 DEF Accounted
      <3> QED BY <2>1, <3>1 DEF Record
    <2> QED BY <2>2, <2>3
  <1>3. seen' \subseteq Block /\ Known(Durable)' \subseteq seen'
    BY <1>1, KnownType DEF Record, TypeOK
  <1>4. TypeOK'
    BY <1>3 DEF TypeOK
  <1> QED BY <1>2, <1>3, <1>4 DEF Inv

(* The empty database. *)
LEMMA InitInv ==
    ASSUME Init
    PROVE  Inv
  <1>1. Known(EmptyTable) = {} /\ Main(EmptyTable) = {} /\ IsTable(EmptyTable)
    BY DEF Known, Main, OnBranch, EmptyTable, NotStored, MainBranch, IsTable
  <1>2. Accounted(EmptyTable) = {}
    BY <1>1 DEF Accounted
  <1>3. TableInv(EmptyTable)
    BY <1>1, <1>2 DEF TableInv, UniqueHeights, BranchesLinked, AncestorClosed
  <1>4. Tables = {EmptyTable} /\ Durable = EmptyTable
    BY DEF Init, Tables, Durable
  <1>5. TypeOK
    BY <1>1 DEF Init, TypeOK
  <1> QED BY <1>1, <1>3, <1>4, <1>5 DEF Inv, Init

(* What is left of the batches when the innermost one is closed. *)
LEMMA InnermostClosed ==
    ASSUME NEW S, NEW s \in Seq(S), s # <<>>,
           NEW u, u = SubSeq(s, 1, Len(s) - 1)
    PROVE  /\ Len(s) \in Nat \ {0}
           /\ u \in Seq(S)
           /\ Len(u) = Len(s) - 1
           /\ \A i \in 1 .. Len(s) - 1 : u[i] = s[i]
           /\ Len(s) = 1 => u = <<>>
           /\ Len(s) > 1 => u # <<>> /\ u[1] = s[1]
  <1> DEFINE n == Len(s)
  <1>1. n \in Nat \ {0} /\ \A i \in 1 .. n - 1 : s[i] \in S
    BY EmptySeq, ElementOfSeq
  <1>2. /\ u \in Seq(S)
        /\ Len(u) = IF 1 <= n - 1 THEN (n - 1) - 1 + 1 ELSE 0
        /\ \A i \in 1 .. (n - 1) - 1 + 1 : u[i] = s[1 + i - 1]
    BY <1>1, SubSeqProperties, SMT
  <1> HIDE DEF n
  <1>3. Len(u) = n - 1 /\ \A i \in 1 .. n - 1 : u[i] = s[i]
    BY <1>1, <1>2
  <1>4. n = 1 => u = <<>>
    BY <1>2, <1>3, EmptySeq
  <1>5. n > 1 => u # <<>> /\ u[1] = s[1]
    <2> SUFFICES ASSUME n > 1
                 PROVE  u # <<>> /\ u[1] = s[1]
      OBVIOUS
    <2>1. 1 \in 1 .. n - 1 /\ n - 1 # 0
      BY <1>1
    <2>2. u[1] = s[1]
      BY <1>3, <2>1
    <2>3. Len(u) # Len(<<>>)
      BY <1>3, <2>1
    <2> QED BY <2>2, <2>3
  <1> QED BY <1>1, <1>2, <1>3, <1>4, <1>5 DEF n

(* Every operation of Chainstate preserves the invariant. *)
LEMMA NextInv ==
    ASSUME Inv, [Next]_vars
    PROVE  Inv'
  <1>0. /\ table \in Tables /\ TableInv(table) /\ TypeOK
        /\ \A i \in 1 .. Len(saves) : saves[i] \in Tables /\ IsTable(saves[i])
        /\ Len(saves) \in Nat
        /\ saves \in Seq([Block -> Nat \cup {NotStored}])
    BY DEF Inv, Tables, TypeOK, TableInv
  <1>1. ASSUME NEW b \in Block, DoImportTip(b)
        PROVE  Inv'
    <2>1. NewTip(table, table', b)
      BY <1>0, <1>1, ImportTipCorrect DEF DoImportTip
    <2> QED BY <1>1, <2>1, TableReplaced DEF DoImportTip, NewTip
  <1>2. ASSUME NEW b \in Block, DoSetTip(b)
        PROVE  Inv'
    <2>1. NewTip(table, table', b)
      BY <1>0, <1>2, SetTipCorrect DEF DoSetTip
    <2> QED BY <1>2, <2>1, TableReplaced DEF DoSetTip, NewTip
  <1>3. ASSUME NEW h \in {Height[b] : b \in Block}, DoPrune(h)
        PROVE  Inv'
    <2>1. h \in Int /\ h >= 0
      BY HeightType
    <2>2. Main(table) # {}
      BY <1>3, <2>1 DEF DoPrune, GetTipHeight
    <2>3. Tip(table) \in Main(table) /\ h < Height[Tip(table)]
      BY <1>3, <2>2, TipOfMain, TipHeight DEF DoPrune
    <2>4. TableInv(table') /\ Accounted(table) \subseteq Accounted(table')
      BY <1>0, <1>3, <2>1, <2>3, PruneCorrect DEF DoPrune
    <2> QED BY <1>3, <2>4, TableReplaced DEF DoPrune
  <1>4. CASE BeginBatch
    <2>1. /\ saves' = Append(saves, table) /\ table' = table /\ Record
      BY <1>4 DEF BeginBatch
    <2>2. /\ saves' \in Seq([Block -> Nat \cup {NotStored}])
          /\ Len(saves') = Len(saves) + 1
          /\ \A i \in 1 .. Len(saves') :
                saves'[i] = IF i = Len(saves) + 1 THEN table ELSE saves[i]
      BY <1>0, <2>1 DEF TypeOK, IsTable
    <2>3. Tables' \subseteq Tables
      BY <1>0, <2>1, <2>2 DEF Tables
    <2>4. Durable' = Durable
      BY <1>0, <2>1, <2>2 DEF Durable
    <2> QED BY <1>0, <2>1, <2>2, <2>3, <2>4, TableKept DEF TypeOK
  <1>5. CASE CommitBatch
    <2> DEFINE n == Len(saves)
    <2>1. saves # <<>> /\ saves' = SubSeq(saves, 1, n - 1) /\ table' = table /\ Record
      BY <1>5 DEF CommitBatch
    <2>2. /\ n \in Nat \ {0}
          /\ saves' \in Seq([Block -> Nat \cup {NotStored}])
          /\ Len(saves') = n - 1
          /\ \A i \in 1 .. n - 1 : saves'[i] = saves[i]
          /\ n = 1 => saves' = <<>>
          /\ n > 1 => saves' # <<>> /\ saves'[1] = saves[1]
      BY <1>0, <2>1, InnermostClosed, ZenonT(60) DEF n
    <2> HIDE DEF n
    <2>3. Tables' \subseteq Tables
      BY <1>0, <2>1, <2>2 DEF Tables, n
    <2>4. CASE n = 1
      <3>1. saves' = <<>>
        BY <2>2, <2>4
      <3>2. Tables' = {table'} /\ Durable' = table'
        BY <3>1 DEF Tables, Durable
      <3> QED BY <1>0, <2>1, <2>2, <2>3, <3>2, TableKept DEF TypeOK
    <2>5. CASE n > 1
      <3>1. Durable' = Durable
        BY <2>1, <2>2, <2>5 DEF Durable
      <3> QED BY <1>0, <2>1, <2>2, <2>3, <3>1, TableKept DEF TypeOK
    <2> QED BY <2>2, <2>4, <2>5
  <1>6. CASE RevertBatch
    <2> DEFINE n == Len(saves)
    <2>1. /\ saves # <<>> /\ saves' = SubSeq(saves, 1, n - 1)
          /\ table' = saves[n] /\ Record
      BY <1>6 DEF RevertBatch
    <2>2. /\ n \in Nat \ {0}
          /\ saves' \in Seq([Block -> Nat \cup {NotStored}])
          /\ Len(saves') = n - 1
          /\ \A i \in 1 .. n - 1 : saves'[i] = saves[i]
          /\ n = 1 => saves' = <<>>
          /\ n > 1 => saves' # <<>> /\ saves'[1] = saves[1]
      BY <1>0, <2>1, InnermostClosed, ZenonT(60) DEF n
    <2>a. saves[n] \in Tables /\ IsTable(saves[n])
      BY <1>0, <2>2
    <2> HIDE DEF n
    <2>3. Tables' \subseteq Tables
      BY <1>0, <2>1, <2>2, <2>a DEF Tables, n
    <2>4. Durable' = Durable
      <3>1. CASE n = 1
        <4>1. saves' = <<>>
          BY <2>2, <3>1
        <4> QED BY <2>1, <3>1, <4>1 DEF Durable
      <3>2. CASE n > 1
        BY <2>1, <2>2, <3>2 DEF Durable
      <3> QED BY <2>2, <3>1, <3>2
    <2> QED BY <2>1, <2>2, <2>3, <2>4, <2>a, TableKept
  <1>7. CASE Crash
    <2>1. saves # <<>> /\ table' = saves[1] /\ saves' = <<>> /\ Record
      BY <1>7 DEF Crash
    <2>2. saves[1] \in Tables /\ IsTable(saves[1])
      BY <1>0, <2>1
    <2>3. Tables' = {table'} /\ Durable' = Durable
      BY <2>1 DEF Tables, Durable
    <2>4. saves' \in Seq([Block -> Nat \cup {NotStored}])
      BY <2>1
    <2> QED BY <2>1, <2>2, <2>3, <2>4, TableKept
  <1>8. CASE UNCHANGED vars
    BY <1>8 DEF vars, Inv, TypeOK, Tables, Durable
  <1> QED BY <1>1, <1>2, <1>3, <1>4, <1>5, <1>6, <1>7, <1>8 DEF Next

-----------------------------------------------------------------------------
(* SetTip, as an operation on the tree. *)
LEMMA SetTipRefines ==
    ASSUME TableInv(table), NEW b \in Block, DoSetTip(b)
    PROVE  Store!SetTip(b)
  <1>0. /\ Main(table) # {} /\ table' = SetTip(table, b) /\ saves' = saves
        /\ ReorgAllowed(table, b) /\ CanSetTip(table, b)
    BY DEF DoSetTip, CanSetTip
  <1>1. /\ NewTip(table, table', b)
        /\ Known(table') = Known(table) \cup {b}
        /\ RootKept(table, table', b)
    BY <1>0, SetTipCorrect
  <1>2. /\ TableInv(table') /\ Main(table') # {} /\ Lowest(table') \in Anc[b]
        /\ TreeOf(table') = [stored |-> Known(table'), root |-> Lowest(table'), tip |-> b]
    BY <1>1, TreeOfNewTip
  <1>3. /\ TreeOf(table).tip # NoBlock
        /\ TreeOf(table).stored = Known(table)
        /\ TreeOf(table).root = Lowest(table)
    BY <1>0, TreeOfTable
  <1>4. Lowest(table) \in Anc[b] => Lowest(table') = Lowest(table)
    BY <1>0, <1>1, <1>2, EndsOfMain DEF RootKept
  <1>5. Store!MainPath(TreeOf(table')) \subseteq TreeOf(table').stored
    BY <1>2, TreeOfTable, KnownType
  <1> QED BY <1>0, <1>1, <1>2, <1>3, <1>4, <1>5, StoreAnc DEF Store!SetTip

(* ImportTip, as an operation on the tree. *)
LEMMA ImportTipRefines ==
    ASSUME TableInv(table), NEW b \in Block, DoImportTip(b)
    PROVE  Store!Import(b)
  <1>0. /\ table' = ImportTip(table, b) /\ saves' = saves
        /\ ImportAllowed(table, b) /\ CanImportTip(table, b)
    BY DEF DoImportTip
  <1>1. /\ NewTip(table, table', b) /\ Main(table') = {b}
        /\ Known(table') \subseteq Known(table) \cup {b}
        /\ Known(table) \ (Anc[b] \ {b}) \subseteq Known(table')
        /\ Main(table) \cap Known(table') = {}
    BY <1>0, ImportTipCorrect
  <1>2. TreeOf(table') = [stored |-> Known(table'), root |-> b, tip |-> b]
    <2>1. Main(table') # {} /\ Lowest(table') \in Main(table')
      BY <1>1, LowestOfMain
    <2> QED BY <1>1, <2>1, TreeOfNewTip
  <1>3. Known(table') = Known(table') \cup {b}
    BY <1>1, KnownType
  <1>4. /\ TreeOf(table).stored = Known(table)
        /\ Store!MainPath(TreeOf(table)) = Main(table)
    BY TreeOfTable, TreeOfEmpty DEF TreeOf
  <1>5. TreeOf(table).tip # NoBlock => TreeOf(table).tip \in Anc[b] \ {b}
    <2>1. CASE Main(table) = {}
      BY <2>1, TreeOfEmpty
    <2>2. CASE Main(table) # {}
      <3>1. TreeOf(table).tip = Tip(table) /\ Tip(table) \in Anc[b]
        BY <1>0, <2>2, TreeOfTable DEF ImportAllowed
      <3>2. Height[Tip(table)] < Height[b]
        BY <1>0, <2>2, TipHeight DEF CanImportTip
      <3>3. Tip(table) # b
        BY <3>2, HeightType
      <3> QED BY <3>1, <3>3
    <2> QED BY <2>1, <2>2
  <1> QED BY <1>0, <1>1, <1>2, <1>3, <1>4, <1>5, StoreAnc DEF Store!Import

(* Pruning moves the root up, to the lowest block that stays. *)
LEMMA PruneRefines ==
    ASSUME TableInv(table), NEW h \in Nat, DoPrune(h)
    PROVE  \E r \in Block : Store!Prune(r)
  <1>0. /\ table' = Prune(table, h) /\ saves' = saves /\ Main(table) # {}
        /\ \A c \in Block : Height[c] \in Nat
        /\ Main(table) \subseteq Block
    BY HeightType, KnownType DEF DoPrune, GetTipHeight
  <1>1. /\ Tip(table) \in Main(table) /\ h < Height[Tip(table)]
        /\ \A c \in Main(table) : Height[c] =< Height[Tip(table)]
    BY <1>0, TipOfMain, TipHeight DEF DoPrune
  <1>2. /\ TableInv(table')
        /\ Known(table') = Known(table) \ {c \in Main(table) : Height[c] =< h}
        /\ Main(table') = {c \in Main(table) : Height[c] > h}
    BY <1>0, <1>1, PruneCorrect
  <1>3. Main(table') # {} /\ Tip(table) = Tip(table')
    <2>1. Tip(table) \in Main(table')
      BY <1>0, <1>1, <1>2
    <2>2. \A c \in Main(table') : Height[c] =< Height[Tip(table)]
      BY <1>1, <1>2
    <2> QED BY <1>2, <2>1, <2>2, EndsOfMain
  <1> DEFINE r == Lowest(table')
  <1>4. /\ r \in Main(table') /\ r \in Main(table) /\ r \in Block /\ Height[r] > h
        /\ \A c \in Main(table') : Height[r] =< Height[c]
    BY <1>0, <1>2, <1>3, LowestOfMain
  <1>5. {c \in Main(table) : Height[c] =< h} = Main(table) \cap (Anc[r] \ {r})
    <2>1. ASSUME NEW c \in Main(table), Height[c] =< h
          PROVE  c \in Anc[r] \ {r}
      <3>1. Height[c] =< Height[r] /\ c # r
        BY <1>0, <1>4, <2>1
      <3> QED BY <1>4, <3>1, MainIsLinear
    <2>2. ASSUME NEW c \in Main(table), c \in Anc[r] \ {r}
          PROVE  Height[c] =< h
      <3>1. Height[c] < Height[r]
        BY <1>4, <2>2, AncHeight
      <3>2. c \notin Main(table')
        BY <1>0, <1>4, <3>1
      <3> QED BY <1>0, <1>2, <3>2
    <2> QED BY <2>1, <2>2
  <1>6. /\ TreeOf(table) = [stored |-> Known(table), root |-> Lowest(table), tip |-> Tip(table)]
        /\ TreeOf(table') = [stored |-> Known(table'), root |-> r, tip |-> Tip(table)]
        /\ Store!MainPath(TreeOf(table)) = Main(table)
    BY <1>0, <1>2, <1>3, TreeOfTable
  <1> HIDE DEF r
  <1>7. Known(table') = Known(table) \ (Main(table) \cap (Anc[r] \ {r}))
    BY <1>2, <1>5
  <1>8. TreeOf(table).stored = Known(table) /\ TreeOf(table).tip = Tip(table)
    BY <1>6
  <1>9. Store!Prune(r)
    BY <1>0, <1>4, <1>6, <1>7, <1>8, StoreAnc DEF Store!Prune
  <1> QED BY <1>4, <1>9

-----------------------------------------------------------------------------
(* The trees to which open batches would revert, as a sequence. *)
Trees(s) == [i \in 1 .. Len(s) |-> TreeOf(s[i])]

LEMMA TreesOfSaves ==
    ASSUME NEW S, NEW s \in Seq(S)
    PROVE  /\ Trees(s) \in Seq({TreeOf(t) : t \in S})
           /\ Len(Trees(s)) = Len(s)
           /\ \A i \in 1 .. Len(s) : Trees(s)[i] = TreeOf(s[i])
  <1>1. \A i \in 1 .. Len(s) : s[i] \in S
    OBVIOUS
  <1>2. Len(s) \in Nat
    OBVIOUS
  <1>3. Trees(s) \in [1 .. Len(s) -> {TreeOf(t) : t \in S}]
    BY <1>1 DEF Trees
  <1>4. Trees(s) \in Seq({TreeOf(t) : t \in S})
    BY <1>2, <1>3, SeqDef
  <1>5. Len(Trees(s)) = Len(s)
    BY <1>2, <1>3, <1>4, LenProperties
  <1> QED BY <1>4, <1>5 DEF Trees

(* The trees of the first n batches. *)
LEMMA TreesOfPrefix ==
    ASSUME NEW S, NEW s \in Seq(S), NEW n \in 0 .. Len(s)
    PROVE  Trees(SubSeq(s, 1, n)) = SubSeq(Trees(s), 1, n)
  <1> DEFINE R == {TreeOf(t) : t \in S}
  <1>0. /\ Trees(s) \in Seq(R) /\ Len(Trees(s)) = Len(s) /\ Len(s) \in Nat
        /\ \A i \in 1 .. Len(s) : Trees(s)[i] = TreeOf(s[i])
    BY TreesOfSaves
  <1>1. /\ SubSeq(s, 1, n) \in Seq(S) /\ Len(SubSeq(s, 1, n)) = n
        /\ \A i \in 1 .. n : SubSeq(s, 1, n)[i] = s[i]
    BY <1>0
  <1> HIDE DEF R
  <1>2. /\ SubSeq(Trees(s), 1, n) \in Seq(R) /\ Len(SubSeq(Trees(s), 1, n)) = n
        /\ \A i \in 1 .. n : SubSeq(Trees(s), 1, n)[i] = Trees(s)[i]
    BY <1>0
  <1>3. /\ Trees(SubSeq(s, 1, n)) \in Seq(R) /\ Len(Trees(SubSeq(s, 1, n))) = n
        /\ \A i \in 1 .. n : Trees(SubSeq(s, 1, n))[i] = TreeOf(s[i])
    BY <1>1, TreesOfSaves DEF R
  <1>4. \A i \in 1 .. n : Trees(SubSeq(s, 1, n))[i] = SubSeq(Trees(s), 1, n)[i]
    BY <1>0, <1>2, <1>3
  <1> QED BY <1>2, <1>3, <1>4, SeqEqual

(* Every step of Chainstate is one of TreeStore, or leaves the tree as is. *)
LEMMA NextRefines ==
    ASSUME Inv, [Next]_vars
    PROVE  [Store!Next]_<<TreeOf(table), Trees(saves)>>
  <1> DEFINE T == [Block -> Nat \cup {NotStored}]
  <1>0. /\ TableInv(table) /\ saves \in Seq(T) /\ Len(saves) \in Nat
        /\ Trees(saves) \in Seq({TreeOf(t) : t \in T})
        /\ Len(Trees(saves)) = Len(saves)
        /\ \A i \in 1 .. Len(saves) : Trees(saves)[i] = TreeOf(saves[i])
    <2>1. TableInv(table) /\ saves \in Seq(T)
      BY DEF Inv, Tables, TypeOK
    <2> HIDE DEF T
    <2>2. Len(saves) \in Nat
      BY <2>1
    <2> QED BY <2>1, <2>2, TreesOfSaves
  <1>1. ASSUME NEW b \in Block, DoImportTip(b)
        PROVE  Store!Next
    BY <1>0, <1>1, ImportTipRefines DEF Store!Next
  <1>2. ASSUME NEW b \in Block, DoSetTip(b)
        PROVE  Store!Next
    BY <1>0, <1>2, SetTipRefines DEF Store!Next
  <1>3. ASSUME NEW h \in {Height[b] : b \in Block}, DoPrune(h)
        PROVE  Store!Next
    <2>1. h \in Nat
      BY HeightType
    <2> QED BY <1>0, <1>3, <2>1, PruneRefines DEF Store!Next
  <1> HIDE DEF T
  <1>4. CASE BeginBatch
    <2>1. /\ saves' = Append(saves, table) /\ table' = table /\ table \in T
      BY <1>4 DEF BeginBatch, Inv, TypeOK, IsTable, T
    <2> DEFINE n == Len(saves)
    <2>2. /\ saves' \in Seq(T) /\ Len(saves') = n + 1
          /\ saves'[n + 1] = table
          /\ \A i \in 1 .. n : saves'[i] = saves[i]
      BY <1>0, <2>1
    <2>3. /\ Trees(saves') \in Seq({TreeOf(t) : t \in T}) /\ Len(Trees(saves')) = n + 1
          /\ \A i \in 1 .. n + 1 : Trees(saves')[i] = TreeOf(saves'[i])
      BY <2>2, TreesOfSaves
    <2> DEFINE R == {TreeOf(t) : t \in T}
    <2>4. TreeOf(table) \in R
      BY <2>1
    <2> HIDE DEF R
    <2>5. /\ Append(Trees(saves), TreeOf(table)) \in Seq(R)
          /\ Len(Append(Trees(saves), TreeOf(table))) = n + 1
          /\ Append(Trees(saves), TreeOf(table))[n + 1] = TreeOf(table)
          /\ \A i \in 1 .. n : Append(Trees(saves), TreeOf(table))[i] = Trees(saves)[i]
      BY <1>0, <2>4 DEF R
    <2>6. \A i \in 1 .. n + 1 : Trees(saves')[i] = Append(Trees(saves), TreeOf(table))[i]
      <3> HIDE DEF n
      <3> SUFFICES ASSUME NEW i \in 1 .. n + 1
                   PROVE  Trees(saves')[i] = Append(Trees(saves), TreeOf(table))[i]
        OBVIOUS
      <3>1. i = n + 1 \/ i \in 1 .. n
        BY <1>0 DEF n
      <3> QED BY <1>0, <2>2, <2>3, <2>5, <3>1 DEF n
    <2>7. Trees(saves') = Append(Trees(saves), TreeOf(table))
      BY <2>3, <2>5, <2>6, SeqEqual DEF R
    <2>8. Store!Begin
      BY <2>1, <2>7 DEF Store!Begin, Trees
    <2> QED BY <2>8 DEF Store!Next
  <1>5. CASE CommitBatch
    <2>1. saves # <<>> /\ saves' = SubSeq(saves, 1, Len(saves) - 1) /\ table' = table
      BY <1>5 DEF CommitBatch
    <2>2. Len(saves) - 1 \in 0 .. Len(saves)
      BY <1>0, <2>1, EmptySeq
    <2>3. Trees(saves') = SubSeq(Trees(saves), 1, Len(Trees(saves)) - 1)
      BY <1>0, <2>1, <2>2, TreesOfPrefix
    <2>4. Trees(saves) # <<>>
      BY <1>0, <2>2
    <2>5. Store!Commit
      BY <2>1, <2>3, <2>4 DEF Store!Commit, Trees
    <2> QED BY <2>5 DEF Store!Next
  <1>6. CASE RevertBatch
    <2> DEFINE n == Len(saves)
    <2>1. saves # <<>> /\ saves' = SubSeq(saves, 1, n - 1) /\ table' = saves[n]
      BY <1>6 DEF RevertBatch
    <2>2. n - 1 \in 0 .. n /\ n \in 1 .. n
      BY <1>0, <2>1, EmptySeq
    <2>3. Trees(saves') = SubSeq(Trees(saves), 1, n - 1)
      BY <1>0, <2>1, <2>2, TreesOfPrefix
    <2>4. TreeOf(table') = Trees(saves)[n]
      BY <1>0, <2>1, <2>2
    <2>5. Store!Revert(n)
      BY <2>3, <2>4 DEF Store!Revert, Trees
    <2> QED BY <1>0, <2>2, <2>5 DEF Store!Next, Trees
  <1>7. CASE Crash
    <2>1. saves # <<>> /\ saves' = <<>> /\ table' = saves[1]
      BY <1>7 DEF Crash
    <2>2. 0 \in 0 .. Len(saves) /\ 1 \in 1 .. Len(saves)
      BY <1>0, <2>1, EmptySeq
    <2>3. Trees(saves') = SubSeq(Trees(saves), 1, 0)
      <3>1. SubSeq(saves, 1, 0) = <<>>
        BY <1>0
      <3> QED BY <1>0, <2>1, <2>2, <3>1, TreesOfPrefix
    <2>4. TreeOf(table') = Trees(saves)[1]
      BY <1>0, <2>1, <2>2
    <2>5. Store!Revert(1)
      BY <2>3, <2>4 DEF Store!Revert, Trees
    <2> QED BY <1>0, <2>2, <2>5 DEF Store!Next, Trees
  <1>8. CASE UNCHANGED vars
    <2>1. table' = table /\ saves' = saves
      BY <1>8 DEF vars
    <2> QED BY <2>1 DEF Trees
  <1> QED BY <1>1, <1>2, <1>3, <1>4, <1>5, <1>6, <1>7, <1>8 DEF Next

-----------------------------------------------------------------------------
(***************************************************************************)
(* The inductive invariant holds, for every tree of blocks and every depth *)
(* of nested batches.                                                      *)
(***************************************************************************)
THEOREM Invariance == Spec => []Inv
  <1>1. Init => Inv
    BY InitInv
  <1>2. Inv /\ [Next]_vars => Inv'
    BY NextInv
  <1> QED BY <1>1, <1>2, PTL DEF Spec

(* The variables of Chainstate keep their types. *)
THEOREM TypeCorrect == Spec => []TypeOK
  <1>1. Inv => TypeOK
    BY DEF Inv
  <1> QED BY <1>1, Invariance, PTL

(***************************************************************************)
(* The CHECKs of Chainstate::SanityCheck never fail, on the current table  *)
(* or on one that a reverted batch or a crash brings back.                 *)
(***************************************************************************)
THEOREM NeverInsane == Spec => []SanityChecked
  <1>1. Inv => SanityChecked
    BY InvIsSane DEF Inv, SanityChecked
  <1> QED BY <1>1, Invariance, PTL

(* SQLite never reports a violation of UNIQUE (`branch`, `height`). *)
THEOREM NeverDuplicate == Spec => []UniqueConstraint
  <1>1. Inv => UniqueConstraint
    BY DEF Inv, TableInv, UniqueConstraint
  <1> QED BY <1>1, Invariance, PTL

(***************************************************************************)
(* Branch number 0 always is the ancestry of the tip, down to the lowest   *)
(* unpruned height.                                                        *)
(***************************************************************************)
THEOREM NeverGap == Spec => []MainHasNoGaps
  <1>1. Inv => MainHasNoGaps
    BY InvHasNoGaps DEF Inv, MainHasNoGaps
  <1> QED BY <1>1, Invariance, PTL

(***************************************************************************)
(* GetForkBranch, which walks by branch numbers and heights, returns the   *)
(* blocks from the given one to the main chain.                            *)
(***************************************************************************)
THEOREM ForkBranchAlwaysPath == Spec => []ForkBranchIsPath
  <1>1. Inv => ForkBranchIsPath
    BY ForkBranchCorrect DEF Inv, ForkBranchIsPath
  <1> QED BY <1>1, Invariance, PTL

(***************************************************************************)
(* A block that was ever committed stays stored, or is below the main      *)
(* chain of the database; reorganisations, pruning and crashes included.   *)
(***************************************************************************)
THEOREM NeverLost == Spec => []NoBlockLost
  <1>1. Inv => NoBlockLost
    BY DEF Inv, NoBlockLost
  <1> QED BY <1>1, Invariance, PTL

(***************************************************************************)
(* Chainstate implements TreeStore: the branch numbers, however often they *)
(* are reassigned by reorganisations, pruning, imports, reverted batches   *)
(* and crashes, always encode a set of blocks with a path from a root to   *)
(* the tip.                                                                *)
(***************************************************************************)
THEOREM Refinement == Spec => ImplementsTreeStore
  <1>1. Init => Store!Init
    <2> SUFFICES ASSUME Init PROVE Store!Init
      OBVIOUS
    <2>1. table = EmptyTable /\ saves = <<>>
      BY DEF Init
    <2>2. TreeOf(table) = [stored |-> {}, root |-> NoBlock, tip |-> NoBlock]
      <3>1. Main(table) = {} /\ Known(table) = {}
        BY <2>1 DEF Main, Known, OnBranch, EmptyTable, NotStored, MainBranch
      <3> QED BY <3>1 DEF TreeOf
    <2>3. [i \in 1 .. Len(saves) |-> TreeOf(saves[i])] = <<>>
      BY <2>1
    <2> QED BY <2>2, <2>3 DEF Store!Init, Store!NoTree
  <1>2. Inv /\ [Next]_vars => [Store!Next]_<<TreeOf(table), Trees(saves)>>
    BY NextRefines
  <1> QED BY <1>1, <1>2, Invariance, PTL
          DEF Spec, ImplementsTreeStore, Store!Spec, Trees
=============================================================================
