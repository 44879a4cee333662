-------------------------- MODULE OrderBookProofs --------------------------
(* Theorems about OrderBook, for every ladder, every number of exchanges   *)
(* and all prices and locations of the updates.                            *)
EXTENDS OrderBook, TLAPS

-----------------------------------------------------------------------------
(* The inductive invariant.  That no node falls below zero is not          *)
(* inductive: the updates compare with the pointer's level, so what has to *)
(* hold as well is that the pointers never leave level zero.               *)

PointersStayAtZero == level = [side \in Sides |-> 0]

\* Unset's mask leaves the bit of LIQUID alone, and Set finds it set.
AllLiquid == liquid = [side \in Sides |-> [p \in Ladder |-> LIQUID]]

BookInv == TypeOK /\ PointersStayAtZero /\ AllLiquid /\ LiquidityNonNegative /\ TraverseReturns

\* The flags that set_level and unset_level make of a level that is liquid.
LEMMA FlagsStay == Set(LIQUID) = LIQUID /\ Unset(LIQUID) = LIQUID
BY DEF Set, Unset, LIQUID

LEMMA InitBookInv == Init => BookInv
<1> USE BookAssumption
<1> SUFFICES ASSUME Init PROVE BookInv
  OBVIOUS
<1>1. liquid \in [Sides -> [Ladder -> 0 .. 255]] /\ level \in [Sides -> Int]
  BY DEF Init, LIQUID
<1>2. node \in [Sides -> [Ladder -> [0 .. Exchanges - 1 -> Int]]] /\ LiquidityNonNegative
  BY DEF Init, PerNode, LiquidityNonNegative
<1>3. spinning \in BOOLEAN /\ TraverseReturns
  BY DEF Init, TraverseReturns
<1> QED  BY <1>1, <1>2, <1>3 DEF Init, BookInv, TypeOK, PointersStayAtZero, AllLiquid

LEMMA UpdateBookInv ==
  ASSUME BookInv, NEW side \in Sides, NEW p \in Prices, NEW l \in Locations, Update(side, p, l)
  PROVE  BookInv'
<1> USE BookAssumption
<1>1. /\ UNCHANGED <<book, liquid, level, spinning>>
      /\ answer' \in {"none", "Ok", "NoLevel", "TraverseFailedInvalidLevel"}
  BY DEF Update
<1>2. CASE node' = node
  BY <1>1, <1>2
     DEF BookInv, TypeOK, PointersStayAtZero, AllLiquid, LiquidityNonNegative, TraverseReturns
<1>3. CASE /\ p \in Ladder /\ l \in 0 .. Exchanges - 1 /\ Accepts(side, p, l)
           /\ node' = [node EXCEPT ![side][p][l] = Liquidity(side, p, l)]
  <2>1. PICK x \in Int : x = Liquidity(side, p, l)
    BY <1>3 DEF BookInv, TypeOK, Liquidity
  <2>2. x >= 0
    BY <1>3, <2>1 DEF BookInv, PointersStayAtZero, Accepts
  <2>3. /\ node' \in [Sides -> [Ladder -> [0 .. Exchanges - 1 -> Int]]]
        /\ \A s \in Sides, q \in Ladder, m \in 0 .. Exchanges - 1 :
             node'[s][q][m] = IF s = side /\ q = p /\ m = l THEN x ELSE node[s][q][m]
    BY <1>3, <2>1 DEF BookInv, TypeOK
  <2>4. LiquidityNonNegative'
    <3>1. ASSUME NEW s \in Sides, NEW q \in Ladder, NEW m \in 0 .. Exchanges - 1
          PROVE  node'[s][q][m] >= 0
      <4>1. node'[s][q][m] = x \/ node'[s][q][m] = node[s][q][m]
        BY <2>3
      <4>2. node[s][q][m] >= 0
        BY DEF BookInv, LiquidityNonNegative
      <4> QED  BY <2>2, <4>1, <4>2
    <3> QED  BY <3>1 DEF LiquidityNonNegative
  <2> QED  BY <1>1, <2>3, <2>4
           DEF BookInv, TypeOK, PointersStayAtZero, AllLiquid, TraverseReturns
<1> QED  BY <1>2, <1>3 DEF Update

LEMMA FlagBookInv ==
  ASSUME BookInv, NEW side \in Sides, NEW p \in Ladder,
         SetLevel(side, p) \/ UnsetLevel(side, p)
  PROVE  BookInv'
<1>1. liquid' = liquid
  BY FlagsStay DEF BookInv, AllLiquid, SetLevel, UnsetLevel
<1> QED  BY <1>1 DEF SetLevel, UnsetLevel, BookInv, TypeOK, PointersStayAtZero, AllLiquid,
                     LiquidityNonNegative, TraverseReturns

LEMMA TraverseBookInv ==
  ASSUME BookInv, NEW side \in Sides, Traverse(side)
  PROVE  BookInv'
<1>1. level[side] \in Ladder => liquid[side][level[side]] = LIQUID
  BY DEF BookInv, AllLiquid
<1>2. /\ UNCHANGED <<book, liquid, node, spinning>>
      /\ answer' \in {"none", "Ok", "NoLevel", "TraverseFailedInvalidLevel"}
  BY <1>1 DEF Traverse
<1>3. level' = level
  BY <1>1 DEF Traverse, BookInv, PointersStayAtZero
<1> QED  BY <1>2, <1>3 DEF BookInv, TypeOK, PointersStayAtZero, AllLiquid,
                           LiquidityNonNegative, TraverseReturns

LEMMA NextBookInv == BookInv /\ [Next]_vars => BookInv'
<1> SUFFICES ASSUME BookInv, [Next]_vars PROVE BookInv'
  OBVIOUS
<1>1. CASE Build \/ UNCHANGED vars
  <2>1. /\ UNCHANGED <<liquid, node, level, spinning, answer>>
        /\ book' \in {"none", "built", "panicked"}
    BY <1>1 DEF Build, vars, BookInv, TypeOK
  <2> QED  BY <2>1 DEF BookInv, TypeOK, PointersStayAtZero, AllLiquid,
                       LiquidityNonNegative, TraverseReturns
<1> QED  BY <1>1, UpdateBookInv, FlagBookInv, TraverseBookInv DEF Next

LEMMA BookInvHolds == Spec => []BookInv
BY InitBookInv, NextBookInv, PTL DEF Spec

-----------------------------------------------------------------------------

\* Every variable of the book keeps its type: the flags of a level stay a byte,
\* and node and pointer stay decimals.
THEOREM BookTypeCorrect == Spec => []TypeOK
<1>1. BookInv => TypeOK
  BY DEF BookInv
<1> QED  BY <1>1, BookInvHolds, PTL

\* ask_update and bid_update leave no node with less than nothing, though they
\* add the price of an update and not its quantity, and a deep ladder has
\* prices below zero: they refuse a sum below the pointer's level, and no call
\* moves a pointer from level zero (orderbook.rs).
THEOREM NoNegativeLiquidity == Spec => []LiquidityNonNegative
<1>1. BookInv => LiquidityNonNegative
  BY DEF BookInv
<1> QED  BY <1>1, BookInvHolds, PTL

\* Pointer::traverse returns: its loop cannot leave a level that is not liquid,
\* but no call of unset makes one.
THEOREM TraverseAlwaysReturns == Spec => []TraverseReturns
<1>1. BookInv => TraverseReturns
  BY DEF BookInv
<1> QED  BY <1>1, BookInvHolds, PTL
=============================================================================
