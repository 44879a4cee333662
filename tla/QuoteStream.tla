----------------------------- MODULE QuoteStream -----------------------------
(***************************************************************************)
(* What the quoter promises its clients, whatever buffers lie between.     *)
(* Quotes are numbered as they are published.  A client is given each      *)
(* quote from its subscription on, one after the other; it may leave, and  *)
(* it may be cut off, but only when RING quotes and more are waiting for   *)
(* it.  A client that is not being given quotes holds nobody up.           *)
(***************************************************************************)
EXTENDS Integers, Sequences

CONSTANTS Clients, RING

VARIABLES
  sent,   \* number of quotes published
  first,  \* the first quote meant for each client
  got,    \* the quotes given to each client, in order
  state   \* "none", "open", "over" (the client left) or "cut"

stream == <<sent, first, got, state>>

Init ==
  /\ sent = 0
  /\ first = [c \in Clients |-> 1]
  /\ got = [c \in Clients |-> <<>>]
  /\ state = [c \in Clients |-> "none"]

\* The next quote a client is to be given.
Due(c) == first[c] + Len(got[c])

Publish == sent' = sent + 1 /\ UNCHANGED <<first, got, state>>

Open(c) ==
  /\ state[c] = "none"
  /\ state' = [state EXCEPT ![c] = "open"]
  /\ first' = [first EXCEPT ![c] = sent + 1]
  /\ UNCHANGED <<sent, got>>

\* A client may leave with the quote it is given.
Give(c) ==
  /\ state[c] = "open" /\ Due(c) <= sent
  /\ got' = [got EXCEPT ![c] = Append(@, Due(c))]
  /\ state' \in {state, [state EXCEPT ![c] = "over"]}
  /\ UNCHANGED <<sent, first>>

Leave(c) ==
  /\ state[c] = "open"
  /\ state' = [state EXCEPT ![c] = "over"]
  /\ UNCHANGED <<sent, first, got>>

Cut(c) ==
  /\ state[c] = "open" /\ sent - Due(c) >= RING
  /\ state' = [state EXCEPT ![c] = "cut"]
  /\ UNCHANGED <<sent, first, got>>

Next == Publish \/ \E c \in Clients : Open(c) \/ Give(c) \/ Leave(c) \/ Cut(c)

Spec == Init /\ [][Next]_stream
=============================================================================
