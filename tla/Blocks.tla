------------------------------- MODULE Blocks -------------------------------
(***************************************************************************)
(* The tree of blocks that the base chain may ever produce.  Every module  *)
(* of this project that talks about blocks extends this one.  A block is   *)
(* what the code calls BlockData: of its fields the model keeps the hash   *)
(* (the element of Block itself), the parent hash and the height; moves    *)
(* and metadata are payload that no operation of the chain logic looks at. *)
(***************************************************************************)
EXTENDS Integers, FiniteSets

CONSTANTS
    Block,      \* all the blocks, identified by their hash
    NoBlock,    \* a hash that belongs to no block (the parent of a genesis)
    Height,     \* BlockData::height
    Parent      \* BlockData::parent

ASSUME BlocksAssumption ==
    /\ IsFiniteSet(Block)
    /\ NoBlock \notin Block
    /\ Height \in [Block -> Nat]
    /\ Parent \in [Block -> Block \cup {NoBlock}]
    /\ \A b \in Block : Parent[b] = NoBlock <=> Height[b] = 0
    /\ \A b \in Block : Parent[b] # NoBlock => Height[b] = Height[Parent[b]] + 1

(* A set of blocks that contains the parent of each of its members. *)
AncestorClosed(S) == \A b \in S : Parent[b] # NoBlock => Parent[b] \in S

(***************************************************************************)
(* Anc[b] is b with all its ancestors: the least set that contains b and   *)
(* is closed under Parent.                                                 *)
(***************************************************************************)
Anc == [b \in Block |->
          {c \in Block : \A S \in SUBSET Block :
                            b \in S /\ AncestorClosed(S) => c \in S}]
=============================================================================
