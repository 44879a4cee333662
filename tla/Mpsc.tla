-------------------------------- MODULE Mpsc --------------------------------
(***************************************************************************)
(* What zc_async_channel promises its users, with no ring buffer, no       *)
(* wakers and no sender ids: a bounded first-in first-out queue between a  *)
(* set of live senders and at most one receiver.  Channel.tla is shown to  *)
(* implement it.                                                           *)
(***************************************************************************)
EXTENDS Naturals, Sequences, FiniteSets

CONSTANTS
  N,          \* capacity of the queue
  S,          \* most senders that may be live at once
  Handles,    \* the Sender objects a program may hold
  Messages    \* the values that may be sent

VARIABLES
  queue,      \* accepted and not yet received
  got,        \* everything received so far, oldest first
  senders,    \* the live Sender objects
  receiver,   \* the Receiver object is alive
  ended       \* a recv has answered None since the last Open

vars == <<queue, got, senders, receiver, ended>>

Init ==
  /\ queue = <<>>
  /\ got = <<>>
  /\ senders = {}
  /\ receiver = FALSE
  /\ ended = FALSE

\* A channel nobody holds is split into its first sender and its receiver.
\* What an earlier pair left in the queue stays there.
Open(h) ==
  /\ senders = {} /\ ~receiver
  /\ senders' = {h}
  /\ receiver' = TRUE
  /\ ended' = FALSE
  /\ UNCHANGED <<queue, got>>

Clone(h) ==
  /\ senders # {} /\ h \notin senders
  /\ Cardinality(senders) < S
  /\ senders' = senders \cup {h}
  /\ UNCHANGED <<queue, got, receiver, ended>>

CloseSender(h) ==
  /\ h \in senders
  /\ senders' = senders \ {h}
  /\ UNCHANGED <<queue, got, receiver, ended>>

CloseReceiver ==
  /\ receiver
  /\ receiver' = FALSE
  /\ UNCHANGED <<queue, got, senders, ended>>

Accept(m) ==
  /\ receiver /\ senders # {}
  /\ Len(queue) < N
  /\ queue' = Append(queue, m)
  /\ UNCHANGED <<got, senders, receiver, ended>>

Deliver ==
  /\ receiver /\ queue # <<>>
  /\ got' = Append(got, Head(queue))
  /\ queue' = Tail(queue)
  /\ UNCHANGED <<senders, receiver, ended>>

\* None is answered only once every sender is gone and the queue is drained.
End ==
  /\ receiver /\ senders = {} /\ queue = <<>>
  /\ ended' = TRUE
  /\ UNCHANGED <<queue, got, senders, receiver>>

Next ==
  \/ \E h \in Handles : Open(h) \/ Clone(h) \/ CloseSender(h)
  \/ CloseReceiver
  \/ \E m \in Messages : Accept(m)
  \/ Deliver
  \/ End

Spec == Init /\ [][Next]_vars
=============================================================================
