------------------------------ MODULE DepthPath ------------------------------
(***************************************************************************)
(* What the exchanges promise of the path from their sources to the reader *)
(* of depths.  A depth that was taken in waits until the reader views it,  *)
(* which it does once and one depth at a time.  A depth is lost only when  *)
(* the reader has gone.  The order in which depths are viewed, and whether *)
(* a waiting depth is ever viewed, is left open.                           *)
(***************************************************************************)
EXTENDS Sequences

VARIABLES
  waiting,  \* depths taken in and not yet viewed
  viewing,  \* the depth the reader views: none or one
  viewed,   \* the depths viewed so far, in order
  lost,     \* depths given up
  open      \* the reader is there

path == <<waiting, viewing, viewed, lost, open>>

Init == waiting = {} /\ viewing = {} /\ viewed = <<>> /\ lost = {} /\ open = TRUE

Seen == waiting \cup {viewed[i] : i \in DOMAIN viewed} \cup lost

\* Depths never seen before are taken in.
Accept ==
  /\ waiting \subseteq waiting'
  /\ (waiting' \ waiting) \cap Seen = {}
  /\ UNCHANGED <<viewing, viewed, lost, open>>

View(d) ==
  /\ open /\ viewing = {}
  /\ viewing' = {d}
  /\ viewed' = Append(viewed, d)
  /\ waiting' = waiting \ {d}
  /\ UNCHANGED <<lost, open>>

\* The reader has done with a depth; it may be told so after it has closed.
Done == viewing # {} /\ viewing' = {} /\ UNCHANGED <<waiting, viewed, lost, open>>

Lose(d) ==
  /\ ~open
  /\ lost' = lost \cup {d}
  /\ waiting' = waiting \ {d}
  /\ UNCHANGED <<viewing, viewed, open>>

Close == open /\ open' = FALSE /\ UNCHANGED <<waiting, viewing, viewed, lost>>

Next == Accept \/ Done \/ Close \/ \E d \in waiting : View(d) \/ Lose(d)

Spec == Init /\ [][Next]_path
=============================================================================
