----------------------------- MODULE OrderBook -----------------------------
(***************************************************************************)
(* The orderbook crate: for each side a fixed ladder of price levels, each *)
(* an array with the liquidity of every exchange, and a pointer that is to *)
(* stand on the best level.                                                *)
(*                                                                         *)
(* Nothing else in the repository calls the updates, the level flags or    *)
(* the pointer yet, so the caller here makes any of these calls in any     *)
(* order.  Decimals are integers, counted in their smallest unit.          *)
(***************************************************************************)
EXTENDS Integers

CONSTANTS
  Mid, Tick, Depth,   \* config.mid_price, tick_size, depth
  Exchanges,          \* DEFAULT_EXCHANGE_COUNT: nodes in a level
  Precision,          \* DEFAULT_DECIMAL_PRECISION
  MaxScale,           \* the largest scale rust_decimal accepts
  Prices,             \* prices of the updates
  Locations,          \* locations of the updates
  MaxSum              \* bound: liquidity of a node

ASSUME BookAssumption ==
  /\ Mid \in Int /\ Tick \in Int /\ Depth \in Nat
  /\ Exchanges \in Nat /\ Precision \in Nat /\ MaxScale \in Nat
  /\ Prices \subseteq Int /\ Locations \subseteq Nat
  /\ MaxSum \in Nat

Sides == {"Ask", "Bid"}
Ladder == {Mid + i * Tick : i \in - Depth .. Depth}

VARIABLES
  book,      \* "none", "built" or "panicked"
  liquid,    \* the flag byte of each level of each side
  node,      \* the liquidity of each exchange at each level of each side
  level,     \* where each side's pointer stands
  spinning,  \* a traverse that does not return
  answer     \* what the last call answered

vars == <<book, liquid, node, level, spinning, answer>>

LIQUID == 16

\* Mutant: a shift where the bits are to be or-ed.
SetByShifting(flags) == flags * 16
\* liquid | LIQUID
Set(flags) == IF (flags \div 16) % 2 = 1 THEN flags ELSE flags + 16
\* Mutant: the mask clears the bit that LIQUID sets.
UnsetLiquid(flags) == IF (flags \div 16) % 2 = 1 THEN flags - 16 ELSE flags
\* liquid & UNLIQUID, the mask 1111_0111
Unset(flags) == IF (flags \div 8) % 2 = 1 THEN flags - 8 ELSE flags

PerNode(x) == [side \in Sides |-> [p \in Ladder |-> [l \in 0 .. Exchanges - 1 |-> x]]]

\* The pointers are made apart from the book and start at level zero.
Init ==
  /\ book = "none"
  /\ liquid = [side \in Sides |-> [p \in Ladder |-> LIQUID]]
  /\ node = PerNode(0)
  /\ level = [side \in Sides |-> 0]
  /\ spinning = FALSE
  /\ answer = "none"

\* OrderBook::new and build_orderbook.  Level::new makes its zeros with
\* Decimal::new(0, Precision), which panics on a scale that is too large.
Build ==
  /\ book = "none"
  /\ book' = IF Precision <= MaxScale THEN "built" ELSE "panicked"
  /\ UNCHANGED <<liquid, node, level, spinning, answer>>

Ready == book = "built" /\ ~spinning

-----------------------------------------------------------------------------
(* ask_update and bid_update, which do the same.                           *)

\* The liquidity an update of price p makes of node l.
Liquidity(side, p, l) == node[side][p][l] + p

\* Mutant: whatever the sum is, it is stored.
AcceptsAny(side, p, l) == TRUE

\* The comparison with the pointer's level
Accepts(side, p, l) == Liquidity(side, p, l) >= level[side]

Rejects(side, p, l) == Liquidity(side, p, l) < level[side]

\* The quantity of an update is never read.  The closure's error is
\* discarded: its caller answers Ok.
Update(side, p, l) ==
  /\ Ready
  /\ \/ /\ p \notin Ladder
        /\ answer' = "NoLevel"
        /\ node' = node
     \/ /\ p \in Ladder /\ l \notin 0 .. Exchanges - 1
        /\ answer' = "Ok"
        /\ node' = node
     \/ /\ p \in Ladder /\ l \in 0 .. Exchanges - 1
        /\ Rejects(side, p, l)
        /\ answer' = "Ok"
        /\ node' = node
     \/ /\ p \in Ladder /\ l \in 0 .. Exchanges - 1
        /\ Accepts(side, p, l)
        /\ Liquidity(side, p, l) <= MaxSum
        /\ node' = [node EXCEPT ![side][p][l] = Liquidity(side, p, l)]
        /\ answer' = "Ok"
  /\ UNCHANGED <<book, liquid, level, spinning>>

-----------------------------------------------------------------------------

SetLevel(side, p) ==
  /\ Ready
  /\ liquid' = [liquid EXCEPT ![side][p] = Set(@)]
  /\ answer' = "none"
  /\ UNCHANGED <<book, node, level, spinning>>

UnsetLevel(side, p) ==
  /\ Ready
  /\ liquid' = [liquid EXCEPT ![side][p] = Unset(@)]
  /\ answer' = "none"
  /\ UNCHANGED <<book, node, level, spinning>>

\* Pointer::traverse.  The level stepped to is computed and thrown away, so
\* on a level that is not liquid the loop looks at it for ever.
Traverse(side) ==
  /\ Ready
  /\ \/ /\ level[side] \notin Ladder
        /\ answer' = "TraverseFailedInvalidLevel"
        /\ UNCHANGED <<level, spinning>>
     \/ /\ level[side] \in Ladder /\ liquid[side][level[side]] = LIQUID
        /\ level' = [level EXCEPT ![side] = level[side]]
        /\ answer' = "Ok"
        /\ spinning' = spinning
     \/ /\ level[side] \in Ladder /\ liquid[side][level[side]] # LIQUID
        /\ spinning' = TRUE
        /\ UNCHANGED <<level, answer>>
  /\ UNCHANGED <<book, liquid, node>>

Next ==
  \/ Build
  \/ \E side \in Sides :
       \/ \E p \in Prices, l \in Locations : Update(side, p, l)
       \/ \E p \in Ladder : SetLevel(side, p) \/ UnsetLevel(side, p)
       \/ Traverse(side)

Spec == Init /\ [][Next]_vars

-----------------------------------------------------------------------------

\* The flags are a byte, the liquidity of a node a bounded number and the
\* pointers stand on a decimal.
TypeOK ==
  /\ book \in {"none", "built", "panicked"}
  /\ liquid \in [Sides -> [Ladder -> 0 .. 255]]
  /\ node \in [Sides -> [Ladder -> [0 .. Exchanges - 1 -> Int]]]
  /\ level \in [Sides -> Int]
  /\ spinning \in BOOLEAN
  /\ answer \in {"none", "Ok", "NoLevel", "TraverseFailedInvalidLevel"}

\* No sequence of updates, flag changes and traversals leaves a node with
\* less than nothing, although a deep ladder has levels below zero: what the
\* updates compare with is the pointer's level, which no call moves from zero.
LiquidityNonNegative ==
  \A side \in Sides, p \in Ladder, l \in 0 .. Exchanges - 1 : node[side][p][l] >= 0

\* A traverse returns, whatever levels were unset before it.  Its loop cannot
\* leave a level that is not liquid, and is safe only as unset's mask does not
\* clear the bit of LIQUID: with either of the two repaired alone it is wrong.
TraverseReturns == ~spinning
=============================================================================
