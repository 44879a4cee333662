------------------------------ MODULE Channel ------------------------------
(***************************************************************************)
(* zc_async_channel: a bounded multi-producer, single-consumer channel for *)
(* the tasks of ONE thread (every field is a Cell).  A poll runs to its    *)
(* end before another task runs, so every action below is one poll, one    *)
(* synchronous call, or one drop.                                          *)
(*                                                                         *)
(* A producer is a task that sends through one Sender, a consumer a task   *)
(* that receives through the Receiver; each has a waker of its own.  Its   *)
(* state is "idle" (no future outstanding), "parked" (its future answered  *)
(* Pending and nothing has woken the task since) or "woken" (the executor  *)
(* will poll the future).                                                  *)
(***************************************************************************)
EXTENDS Integers, Sequences, FiniteSets

CONSTANTS
  N,           \* capacity of the ring
  S,           \* most live senders: the number of sender waker slots
  Handles,     \* the Sender objects a program may hold
  Producers,   \* the tasks that send
  Consumers,   \* the tasks that receive
  HandleOf,    \* the Sender each producer sends through
  MaxSends,    \* bound: values one producer may send
  None         \* an empty slot, an absent waker, no id

\* The n-th value producer p ever tries to send.
Messages == Producers \X (1 .. MaxSends)
Ids == 0 .. S - 1

ASSUME ChannelAssumption ==
  /\ N \in Nat \ {0}
  /\ S \in 1 .. 64
  /\ MaxSends \in Nat
  /\ HandleOf \in [Producers -> Handles]
  /\ None \notin Producers \cup Consumers \cup Messages \cup Ids

VARIABLES
  slots,       \* the ring: a value or None at each index
  head,        \* index of the oldest value
  len,         \* number of values held
  rx_waker,    \* the waker in the receiver's slot
  tx_wakers,   \* the waker in each sender's slot
  tx_ids,      \* the sender ids in use: the set bits of the mask
  rx_alive,    \* the Receiver exists
  txId,        \* the id of each live Sender, None for the others
  prod,        \* state of each producer
  cons,        \* state of each consumer
  sends,       \* number of values each producer has tried to send
  got,         \* history: the values received, oldest first
  handed,      \* history: the values handed back by Err(v)
  ended        \* history: a recv of this split answered None

ring == <<slots, head, len>>
history == <<got, handed, ended>>
vars == <<slots, head, len, rx_waker, tx_wakers, tx_ids, rx_alive, txId,
          prod, cons, sends, got, handed, ended>>

Live(h) == txId[h] # None
LiveHandles == {h \in Handles : Live(h)}
TxAlive == tx_ids # {}
MyId(p) == txId[HandleOf[p]]

\* The value producer p holds while its send is outstanding.
Held(p) == <<p, sends[p]>>
\* The value a new send of producer p carries.
Fresh(p) == <<p, sends[p] + 1>>

\* The values in the ring, oldest first.
Buffered == [i \in 1 .. len |-> slots[(head + i - 1) % N]]

Init ==
  /\ slots = [i \in 0 .. N - 1 |-> None]
  /\ head = 0 /\ len = 0
  /\ rx_waker = None
  /\ tx_wakers = [i \in Ids |-> None]
  /\ tx_ids = {}
  /\ rx_alive = FALSE
  /\ txId = [h \in Handles |-> None]
  /\ prod = [p \in Producers |-> "idle"]
  /\ cons = [c \in Consumers |-> "idle"]
  /\ sends = [p \in Producers |-> 0]
  /\ got = <<>> /\ handed = {} /\ ended = FALSE

-----------------------------------------------------------------------------
(* Wakers.  Waking takes the waker out of its slot; it matters only to a   *)
(* task that is parked.                                                    *)

Woken(state, t) == IF state[t] = "parked" THEN "woken" ELSE state[t]

\* wake(&rx_waker)
WakeRx ==
  /\ rx_waker' = None
  /\ cons' = [c \in Consumers |-> IF c = rx_waker THEN Woken(cons, c) ELSE cons[c]]

\* Mutant: one waker is taken, that of the lowest slot.
WakeTxFirst ==
  LET parked == {i \in Ids : tx_wakers[i] # None}
      first == CHOOSE i \in parked : \A j \in parked : i <= j
  IN  IF parked = {} THEN UNCHANGED <<tx_wakers, prod>>
      ELSE /\ tx_wakers' = [tx_wakers EXCEPT ![first] = None]
           /\ prod' = [p \in Producers |-> IF tx_wakers[first] = p THEN Woken(prod, p) ELSE prod[p]]

\* wake_tx: every parked sender is woken, not only the first.
WakeTx ==
  /\ tx_wakers' = [i \in Ids |-> None]
  /\ prod' = [p \in Producers |->
                IF \E i \in Ids : tx_wakers[i] = p THEN Woken(prod, p) ELSE prod[p]]

-----------------------------------------------------------------------------
(* The ring.                                                               *)

\* Mutant: the receiver is not woken.
PushSilently(m) ==
  /\ len < N
  /\ slots' = [slots EXCEPT ![(head + len) % N] = m]
  /\ len' = len + 1
  /\ UNCHANGED <<head, rx_waker, cons>>

\* push on a ring that is not full
Push(m) ==
  /\ len < N
  /\ slots' = [slots EXCEPT ![(head + len) % N] = m]
  /\ len' = len + 1
  /\ head' = head
  /\ WakeRx

\* Mutants: the head does not wrap; the value is copied, not taken; the
\* newest value comes out.
PopUnwrapped ==
  /\ len > 0
  /\ slots' = [slots EXCEPT ![head] = None]
  /\ head' = head + 1 /\ len' = len - 1
  /\ got' = Append(got, slots[head])
  /\ WakeTx
PopCopying ==
  /\ len > 0
  /\ head' = (head + 1) % N /\ len' = len - 1
  /\ got' = Append(got, slots[head])
  /\ WakeTx /\ slots' = slots
PopNewest ==
  /\ len > 0
  /\ LET newest == (head + len - 1) % N
     IN  /\ slots' = [slots EXCEPT ![newest] = None]
         /\ got' = Append(got, slots[newest])
  /\ head' = head /\ len' = len - 1
  /\ WakeTx

\* pop on a ring that is not empty
Pop ==
  /\ len > 0
  /\ slots' = [slots EXCEPT ![head] = None]
  /\ head' = (head + 1) % N
  /\ len' = len - 1
  /\ got' = Append(got, slots[head])
  /\ WakeTx

-----------------------------------------------------------------------------
(* Handles.                                                                *)

FreeIds == Ids \ tx_ids

\* Mutant: the number of live senders is taken for the next id.
IsCount(i) == i = Cardinality(tx_ids)

\* alloc_tx: the lowest clear bit of the mask, if any of the S is clear
IsLowestFree(i) == i \in FreeIds /\ \A j \in FreeIds : i <= j

\* Mutant: the ring is emptied.
SplitClearing(h) ==
  /\ LiveHandles = {} /\ ~rx_alive
  /\ slots' = [i \in 0 .. N - 1 |-> None] /\ head' = 0 /\ len' = 0
  /\ rx_alive' = TRUE
  /\ tx_ids' = {0}
  /\ txId' = [txId EXCEPT ![h] = 0]
  /\ ended' = FALSE
  /\ UNCHANGED <<rx_waker, tx_wakers, prod, cons, sends, got, handed>>

\* split needs &mut Channel, so no half of an earlier split is alive.  It
\* resets the mask and the receiver flag, and leaves the ring as it is.
Split(h) ==
  /\ LiveHandles = {} /\ ~rx_alive
  /\ rx_alive' = TRUE
  /\ tx_ids' = {0}
  /\ txId' = [txId EXCEPT ![h] = 0]
  /\ ended' = FALSE
  /\ UNCHANGED <<ring, rx_waker, tx_wakers, prod, cons, sends, got, handed>>

\* try_clone; with no id free it answers None and changes nothing.
TryClone(h, g) ==
  /\ Live(h) /\ ~Live(g)
  /\ \E i \in Ids :
       /\ IsLowestFree(i)
       /\ tx_ids' = tx_ids \cup {i}
       /\ txId' = [txId EXCEPT ![g] = i]
  /\ UNCHANGED <<ring, rx_waker, tx_wakers, rx_alive, prod, cons, sends, history>>

\* Mutant: the last sender to go does not wake the receiver.
DropSenderSilently(h) ==
  /\ Live(h)
  /\ \A p \in Producers : HandleOf[p] = h => prod[p] = "idle"
  /\ tx_wakers' = [tx_wakers EXCEPT ![txId[h]] = None]
  /\ tx_ids' = tx_ids \ {txId[h]}
  /\ txId' = [txId EXCEPT ![h] = None]
  /\ UNCHANGED <<ring, rx_waker, cons, rx_alive, prod, sends, history>>

\* Drop for Sender.  A send borrows its Sender, so none is outstanding.
DropSender(h) ==
  /\ Live(h)
  /\ \A p \in Producers : HandleOf[p] = h => prod[p] = "idle"
  /\ tx_wakers' = [tx_wakers EXCEPT ![txId[h]] = None]
  /\ tx_ids' = tx_ids \ {txId[h]}
  /\ txId' = [txId EXCEPT ![h] = None]
  /\ IF tx_ids' = {} THEN WakeRx ELSE UNCHANGED <<rx_waker, cons>>
  /\ UNCHANGED <<ring, rx_alive, prod, sends, history>>

\* Mutant: the parked senders are not woken.
DropReceiverSilently ==
  /\ rx_alive
  /\ \A c \in Consumers : cons[c] = "idle"
  /\ rx_alive' = FALSE
  /\ UNCHANGED <<ring, rx_waker, tx_wakers, tx_ids, txId, prod, cons, sends, history>>

\* Drop for Receiver.  The values in the ring stay there.
DropReceiver ==
  /\ rx_alive
  /\ \A c \in Consumers : cons[c] = "idle"
  /\ rx_alive' = FALSE
  /\ WakeTx
  /\ UNCHANGED <<ring, rx_waker, tx_ids, txId, cons, sends, history>>

-----------------------------------------------------------------------------
(* Sending.  The closure of send is polled once when the future is first   *)
(* polled and again each time its task is.                                 *)

\* One poll of a send of m by p.
Attempt(p, m) ==
  \/ /\ ~rx_alive
     /\ handed' = handed \cup {m}
     /\ prod' = [prod EXCEPT ![p] = "idle"]
     /\ UNCHANGED <<ring, rx_waker, tx_wakers, cons>>
  \/ /\ rx_alive /\ Push(m)
     /\ prod' = [prod EXCEPT ![p] = "idle"]
     /\ UNCHANGED <<tx_wakers, handed>>
  \/ /\ rx_alive /\ len = N
     /\ tx_wakers' = [tx_wakers EXCEPT ![MyId(p)] = p]
     /\ prod' = [prod EXCEPT ![p] = "parked"]
     /\ UNCHANGED <<ring, rx_waker, cons, handed>>

MaySend(p) == prod[p] = "idle" /\ Live(HandleOf[p]) /\ sends[p] < MaxSends

SendFirst(p) ==
  /\ MaySend(p)
  /\ sends' = [sends EXCEPT ![p] = @ + 1]
  /\ Attempt(p, Fresh(p))
  /\ UNCHANGED <<tx_ids, rx_alive, txId, got, ended>>

SendAgain(p) ==
  /\ prod[p] = "woken"
  /\ Attempt(p, Held(p))
  /\ UNCHANGED <<tx_ids, rx_alive, txId, sends, got, ended>>

\* Mutant: a value that does not fit is not given back.
TrySendLossy(p) ==
  /\ MaySend(p)
  /\ sends' = [sends EXCEPT ![p] = @ + 1]
  /\ handed' = handed
  /\ \/ rx_alive /\ Push(Fresh(p))
     \/ /\ ~rx_alive \/ len = N
        /\ UNCHANGED <<ring, rx_waker, cons>>
  /\ UNCHANGED <<tx_wakers, tx_ids, rx_alive, txId, prod, got, ended>>

\* try_send: the value comes back when the receiver is gone or the ring full.
TrySend(p) ==
  /\ MaySend(p)
  /\ sends' = [sends EXCEPT ![p] = @ + 1]
  /\ \/ rx_alive /\ Push(Fresh(p)) /\ handed' = handed
     \/ /\ ~rx_alive \/ len = N
        /\ handed' = handed \cup {Fresh(p)}
        /\ UNCHANGED <<ring, rx_waker, cons>>
  /\ UNCHANGED <<tx_wakers, tx_ids, rx_alive, txId, prod, got, ended>>

\* The future is dropped, and with it the value it holds.  Its waker stays
\* in the slot.
CancelSend(p) ==
  /\ prod[p] # "idle"
  /\ prod' = [prod EXCEPT ![p] = "idle"]
  /\ handed' = handed \cup {Held(p)}
  /\ UNCHANGED <<ring, rx_waker, tx_wakers, tx_ids, rx_alive, txId, cons,
                 sends, got, ended>>

-----------------------------------------------------------------------------
(* Receiving.                                                              *)

\* Mutant: "closed" is answered before the ring is drained.
ReceiveClosedFirst(c) ==
  \/ /\ TxAlive /\ Pop
     /\ cons' = [cons EXCEPT ![c] = "idle"]
     /\ UNCHANGED <<rx_waker, ended>>
  \/ /\ ~TxAlive
     /\ ended' = TRUE
     /\ cons' = [cons EXCEPT ![c] = "idle"]
     /\ UNCHANGED <<ring, rx_waker, tx_wakers, prod, got>>
  \/ /\ len = 0 /\ TxAlive
     /\ rx_waker' = c
     /\ cons' = [cons EXCEPT ![c] = "parked"]
     /\ UNCHANGED <<ring, tx_wakers, prod, got, ended>>

\* One poll of a recv by c.
Receive(c) ==
  \/ /\ Pop
     /\ cons' = [cons EXCEPT ![c] = "idle"]
     /\ UNCHANGED <<rx_waker, ended>>
  \/ /\ len = 0 /\ ~TxAlive
     /\ ended' = TRUE
     /\ cons' = [cons EXCEPT ![c] = "idle"]
     /\ UNCHANGED <<ring, rx_waker, tx_wakers, prod, got>>
  \/ /\ len = 0 /\ TxAlive
     /\ rx_waker' = c
     /\ cons' = [cons EXCEPT ![c] = "parked"]
     /\ UNCHANGED <<ring, tx_wakers, prod, got, ended>>

RecvFirst(c) ==
  /\ rx_alive /\ cons[c] = "idle"
  /\ Receive(c)
  /\ UNCHANGED <<tx_ids, rx_alive, txId, sends, handed>>

RecvAgain(c) ==
  /\ cons[c] = "woken"
  /\ Receive(c)
  /\ UNCHANGED <<tx_ids, rx_alive, txId, sends, handed>>

\* try_recv; on an empty ring it answers None and changes nothing.
TryRecv(c) ==
  /\ rx_alive /\ cons[c] = "idle"
  /\ Pop
  /\ UNCHANGED <<rx_waker, tx_ids, rx_alive, txId, cons, sends, handed, ended>>

CancelRecv(c) ==
  /\ cons[c] # "idle"
  /\ cons' = [cons EXCEPT ![c] = "idle"]
  /\ UNCHANGED <<ring, rx_waker, tx_wakers, tx_ids, rx_alive, txId, prod,
                 sends, history>>

-----------------------------------------------------------------------------
(* A task that waits for something else too (a join, a select, a timer) is *)
(* woken by that something, and polls its channel future again.            *)

SpuriousWake ==
  /\ \/ \E p \in Producers : /\ prod[p] = "parked"
                             /\ prod' = [prod EXCEPT ![p] = "woken"]
                             /\ cons' = cons
     \/ \E c \in Consumers : /\ cons[c] = "parked"
                             /\ cons' = [cons EXCEPT ![c] = "woken"]
                             /\ prod' = prod
  /\ UNCHANGED <<ring, rx_waker, tx_wakers, tx_ids, rx_alive, txId, sends, history>>

Next ==
  \/ \E h \in Handles : Split(h) \/ DropSender(h)
  \/ \E h, g \in Handles : TryClone(h, g)
  \/ DropReceiver
  \/ \E p \in Producers : SendFirst(p) \/ SendAgain(p) \/ TrySend(p) \/ CancelSend(p)
  \/ \E c \in Consumers : RecvFirst(c) \/ RecvAgain(c) \/ TryRecv(c) \/ CancelRecv(c)
  \/ SpuriousWake

Spec == Init /\ [][Next]_vars

\* The executor polls a task that was woken.  Nothing obliges a task to start
\* a send or a receive, to cancel one, or to drop its half.
FairSpec ==
  /\ Spec
  /\ \A p \in Producers : WF_vars(SendAgain(p))
  /\ \A c \in Consumers : WF_vars(RecvAgain(c))

-----------------------------------------------------------------------------
(* Properties.                                                             *)

\* Every variable has its type.
TypeOK ==
  /\ slots \in [0 .. N - 1 -> Messages \cup {None}]
  /\ head \in 0 .. N - 1
  /\ len \in 0 .. N
  /\ rx_waker \in Consumers \cup {None}
  /\ tx_wakers \in [Ids -> Producers \cup {None}]
  /\ tx_ids \in SUBSET Ids
  /\ rx_alive \in BOOLEAN
  /\ txId \in [Handles -> Ids \cup {None}]
  /\ prod \in [Producers -> {"idle", "parked", "woken"}]
  /\ cons \in [Consumers -> {"idle", "parked", "woken"}]
  /\ sends \in [Producers -> 0 .. MaxSends]
  /\ got \in Seq(Messages)
  /\ handed \in SUBSET Messages
  /\ ended \in BOOLEAN

\* The occupied slots are exactly the len slots that follow head, around the
\* end of the array: a push never lands on a value nobody has received, and a
\* pop never takes an empty slot (which recv would report as "closed").
RingWindow ==
  \A i \in 0 .. N - 1 :
    slots[i] # None <=> (IF i >= head THEN i - head ELSE i - head + N) < len

\* "Bit i set => waker slot i is owned by a live Sender" (channel.rs:11), and
\* no two senders own the same slot: cloning and dropping senders in any order
\* never lets one sender's parked waker be overwritten by another's.
IdsAreOwned ==
  /\ tx_ids = {txId[h] : h \in LiveHandles}
  /\ \A h, g \in LiveHandles : txId[h] = txId[g] => h = g

\* A send is outstanding only through a live Sender, a receive only through
\* a live Receiver: the borrows that make the drops above safe.
FuturesBorrow ==
  /\ \A p \in Producers : prod[p] # "idle" => Live(HandleOf[p])
  /\ \A c \in Consumers : cons[c] # "idle" => rx_alive

\* How the repository uses the channel: one task sends through each Sender and
\* one receives.  The types do not ask for it (send and recv take &self).
OneTaskPerHalf ==
  /\ \A p, q \in Producers : HandleOf[p] = HandleOf[q] => p = q
  /\ \A c, d \in Consumers : c = d

\* "Waits while full" (channel.rs:114): a send whose task nobody will wake is
\* one that must still wait, for the ring is full and the receiver alive.
SendWaitsOnlyWhileFull ==
  \A p \in Producers : prod[p] = "parked" => rx_alive /\ len = N

\* "Waits while empty" (channel.rs:157): a recv whose task nobody will wake is
\* one that must still wait, for the ring is empty and a sender is alive.
RecvWaitsOnlyWhileEmpty ==
  \A c \in Consumers : cons[c] = "parked" => len = 0 /\ TxAlive

\* The waker of a parked task is in its slot, where the event that ends the
\* wait looks for it, whatever was cancelled, cloned or dropped meanwhile.
WakersRegistered ==
  /\ \A p \in Producers : prod[p] = "parked" => tx_wakers[MyId(p)] = p
  /\ \A c \in Consumers : cons[c] = "parked" => rx_waker = c

\* What the channel has accepted, in order.
Accepted == got \o Buffered
Occurs(m, s) == \E i \in DOMAIN s : s[i] = m

\* The values of one sender are accepted and received in the order they were
\* sent, and none of them twice, through the wrap-around of the ring, the
\* retries of a parked send and a re-split of the channel.
PerSenderOrder ==
  \A i, j \in DOMAIN Accepted :
    i < j /\ Accepted[i][1] = Accepted[j][1] => Accepted[i][2] < Accepted[j][2]

\* Each value a producer ever tried to send is in exactly one place: with the
\* channel (buffered or received), still held by its outstanding send, or back
\* with its sender.  A value is never both delivered and handed back, which a
\* caller that retries on Err(v) would turn into a duplicate, nor lost.
ValuesConserved ==
  \A p \in Producers : \A n \in 1 .. sends[p] :
    LET m == <<p, n>>
        pending == prod[p] # "idle" /\ n = sends[p]
    IN  /\ ~(pending /\ m \in handed)
        /\ Occurs(m, Accepted) <=> ~pending /\ m \notin handed

\* "Returns None once every sender is dropped and the buffer is drained"
\* (channel.rs:157): no sender and no value can appear after a None.
NoneIsFinal == ended => ~TxAlive /\ len = 0

\* The channel implements the abstract bounded queue.
Abstract == INSTANCE Mpsc WITH
  queue <- Buffered, senders <- LiveHandles, receiver <- rx_alive
Refinement == Abstract!Spec

\* A send that could finish does not stay outstanding: either it ends or the
\* ring fills up again before its turn (a sender may lose that race for ever:
\* wake_tx wakes all, and the first to be polled takes the slot).
SendIsAnswered ==
  \A p \in Producers :
    (prod[p] # "idle" /\ (len < N \/ ~rx_alive)) ~> (prod[p] = "idle" \/ len = N)

\* Senders parked on a full ring are let go when the receiver is dropped.
DropReceiverReleasesSenders ==
  \A p \in Producers : ~rx_alive /\ prod[p] # "idle" ~> prod[p] = "idle"

\* A receive that could finish, because a value arrived or the last sender was
\* dropped, does not stay outstanding.
RecvIsAnswered ==
  \A c \in Consumers :
    (cons[c] # "idle" /\ (len > 0 \/ ~TxAlive)) ~> (cons[c] = "idle" \/ (len = 0 /\ TxAlive))
=============================================================================
