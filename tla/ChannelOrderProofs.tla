------------------------- MODULE ChannelOrderProofs -------------------------
(* Theorems about the values that pass through Channel: what was accepted, *)
(* in which order, and where each value is.  They rest on the invariants   *)
(* of ChannelProofs.                                                       *)
EXTENDS ChannelProofs

-----------------------------------------------------------------------------
(* What is accepted: received or buffered.                                 *)

\* The accepted values are messages.
LEMMA AcceptedType == Basis => Accepted \in Seq(Messages)
  BY BufferedType, ConcatProperties DEF Basis, Sound, TypeOK, Accepted

\* A push accepts its value after all others.
LEMMA PushAccepts ==
  ASSUME Basis, NEW m \in Messages, Push(m), got' = got
  PROVE  Accepted' = Append(Accepted, m)
<1>1. got \in Seq(Messages) /\ Buffered \in Seq(Messages)
  BY BufferedType DEF Basis, Sound, TypeOK
<1>2. Buffered' = Append(Buffered, m)
  BY PushAppends
<1>3. Append(Buffered, m) = Buffered \o <<m>> /\ <<m>> \in Seq(Messages)
  BY <1>1, AppendIsConcat
<1>4. Accepted \in Seq(Messages) /\ Append(Accepted, m) = Accepted \o <<m>>
  BY <1>1, AcceptedType, AppendIsConcat
<1>5. got \o (Buffered \o <<m>>) = (got \o Buffered) \o <<m>>
  BY <1>1, <1>3, ConcatAssociative
<1> QED  BY <1>2, <1>3, <1>4, <1>5 DEF Accepted

\* A non-empty sequence is its head and its tail.
LEMMA HeadAndTail ==
  ASSUME NEW T, NEW s \in Seq(T), s # <<>>
  PROVE  <<Head(s)>> \o Tail(s) = s
<1>1. Head(s) \in T /\ Tail(s) \in Seq(T) /\ Len(Tail(s)) = Len(s) - 1
      /\ \A i \in 1 .. Len(Tail(s)) : Tail(s)[i] = s[i + 1]
  BY HeadTailProperties
<1>2. <<Head(s)>> \in Seq(T) /\ Len(<<Head(s)>>) = 1 /\ <<Head(s)>>[1] = Head(s)
  BY <1>1
<1> DEFINE u == <<Head(s)>> \o Tail(s)
<1>3. /\ u \in Seq(T) /\ Len(u) = 1 + Len(Tail(s))
      /\ \A i \in 1 .. 1 + Len(Tail(s)) :
           u[i] = IF i <= 1 THEN <<Head(s)>>[i] ELSE Tail(s)[i - 1]
  BY <1>1, <1>2, ConcatProperties
<1>4. Len(s) \in Nat \ {0} /\ Head(s) = s[1]
  BY EmptySeq
<1>5. ASSUME NEW i \in 1 .. Len(u) PROVE u[i] = s[i]
  <2>1. CASE i = 1
    BY <2>1, <1>2, <1>3, <1>4
  <2>2. CASE i > 1
    <3>1. i - 1 \in 1 .. Len(Tail(s)) /\ (i - 1) + 1 = i
      BY <2>2, <1>1, <1>3, <1>4
    <3>2. Tail(s)[i - 1] = s[(i - 1) + 1]
      BY <3>1, <1>1
    <3>3. u[i] = Tail(s)[i - 1]
      BY <2>2, <1>1, <1>3, <1>4
    <3> QED  BY <3>1, <3>2, <3>3
  <2> QED  BY <2>1, <2>2, <1>1, <1>3, <1>4
<1>6. Len(u) = Len(s)
  BY <1>1, <1>3, <1>4
<1> HIDE DEF u
<1>7. u = s
  BY <1>3, <1>5, <1>6, SeqEqual
<1> QED  BY <1>7 DEF u

\* A pop moves a value from what is buffered to what is received: what was
\* accepted, and its order, stay the same.
LEMMA PopAcceptsNothing ==
  ASSUME Basis, Pop
  PROVE  Accepted' = Accepted
<1>1. got \in Seq(Messages) /\ Buffered \in Seq(Messages)
  BY BufferedType DEF Basis, Sound, TypeOK
<1>2. Buffered # <<>> /\ got' = Append(got, Head(Buffered)) /\ Buffered' = Tail(Buffered)
  BY PopDelivers
<1> DEFINE h == Head(Buffered)
           t == Tail(Buffered)
<1>3. h \in Messages /\ t \in Seq(Messages)
  BY <1>1, <1>2, HeadTailProperties
<1>4. <<h>> \o t = Buffered
  BY <1>1, <1>2, HeadAndTail
<1> HIDE DEF h, t
<1>5. <<h>> \in Seq(Messages)
  BY <1>3
<1>6. Append(got, h) = got \o <<h>>
  BY <1>1, <1>3, AppendIsConcat
<1>7. (got \o <<h>>) \o t = got \o (<<h>> \o t)
  BY <1>1, <1>3, <1>5, ConcatAssociative
<1>8. got' = Append(got, h) /\ Buffered' = t
  BY <1>2 DEF h, t
<1> QED  BY <1>4, <1>6, <1>7, <1>8 DEF Accepted

\* Nothing is accepted while the ring and the history stay as they are.
LEMMA SameAccepted == UNCHANGED <<ring, got>> => Accepted' = Accepted
  BY SameBuffer DEF Accepted

-----------------------------------------------------------------------------
(* What a step does to the values: it offers none, or one task offers one, *)
(* which is accepted, handed back, or held until the task is polled again. *)

Busy(p) == prod[p] # "idle"

NoOffer ==
  /\ Accepted' = Accepted
  /\ UNCHANGED <<sends, handed>>
  /\ \A p \in Producers : Busy(p)' <=> Busy(p)

\* The value p offers is the one it holds, or else a fresh one.
Offer(p) ==
  /\ \/ Busy(p) /\ sends' = sends
     \/ ~Busy(p) /\ sends[p] < MaxSends /\ sends' = [sends EXCEPT ![p] = @ + 1]
  /\ \A q \in Producers \ {p} : Busy(q)' <=> Busy(q)
  /\ LET m == <<p, sends'[p]>>
     IN  \/ Accepted' = Append(Accepted, m) /\ handed' = handed /\ ~Busy(p)'
         \/ Accepted' = Accepted /\ handed' = handed \cup {m} /\ ~Busy(p)'
         \/ Accepted' = Accepted /\ handed' = handed /\ Busy(p)'

\* One poll of a send.
LEMMA AttemptOffers ==
  ASSUME Basis, NEW p \in Producers, NEW m \in Messages, Attempt(p, m),
         UNCHANGED got
  PROVE  /\ \A q \in Producers \ {p} : Busy(q)' <=> Busy(q)
         /\ \/ Accepted' = Append(Accepted, m) /\ handed' = handed /\ ~Busy(p)'
            \/ Accepted' = Accepted /\ handed' = handed \cup {m} /\ ~Busy(p)'
            \/ Accepted' = Accepted /\ handed' = handed /\ Busy(p)'
<1>1. prod \in [Producers -> {"idle", "parked", "woken"}]
  BY DEF Basis, Sound, TypeOK
<1>2. CASE /\ handed' = handed \cup {m} /\ prod' = [prod EXCEPT ![p] = "idle"]
           /\ UNCHANGED ring
  BY <1>1, <1>2, SameAccepted DEF Busy
<1>3. CASE Push(m) /\ prod' = [prod EXCEPT ![p] = "idle"] /\ UNCHANGED handed
  BY <1>1, <1>3, PushAccepts DEF Busy
<1>4. CASE prod' = [prod EXCEPT ![p] = "parked"] /\ UNCHANGED <<ring, handed>>
  BY <1>1, <1>4, SameAccepted DEF Busy
<1> QED  BY <1>2, <1>3, <1>4 DEF Attempt

\* Every step is one or the other.
LEMMA StepOffers ==
  ASSUME Basis, [Next]_vars
  PROVE  NoOffer \/ \E p \in Producers : Offer(p)
<1>0. /\ TypeOK
      /\ WakeTx => \A p \in Producers : Busy(p)' <=> Busy(p)
  BY WakesPreserveIdle DEF Basis, Sound, Busy
<1>1. ASSUME NEW p \in Producers, SendFirst(p) PROVE Offer(p)
  <2>1. /\ Fresh(p) \in Messages /\ sends'[p] = sends[p] + 1
        /\ sends' = [sends EXCEPT ![p] = @ + 1] /\ sends[p] < MaxSends /\ ~Busy(p)
    BY <1>0, <1>1, Offered DEF SendFirst, MaySend, Busy, TypeOK
  <2>2. Fresh(p) = <<p, sends'[p]>>
    BY <2>1 DEF Fresh
  <2> QED  BY <1>1, <2>1, <2>2, AttemptOffers DEF SendFirst, Offer
<1>2. ASSUME NEW p \in Producers, SendAgain(p) PROVE Offer(p)
  <2>1. Held(p) \in Messages /\ sends' = sends /\ Busy(p)
    BY <1>0, <1>2, Offered DEF SendAgain, Busy, Basis, Outstanding
  <2>2. Held(p) = <<p, sends'[p]>>
    BY <2>1 DEF Held
  <2> QED  BY <1>2, <2>1, <2>2, AttemptOffers DEF SendAgain, Offer
<1>3. ASSUME NEW p \in Producers, TrySend(p) PROVE Offer(p)
  <2>1. /\ Fresh(p) \in Messages /\ sends'[p] = sends[p] + 1
        /\ sends' = [sends EXCEPT ![p] = @ + 1] /\ sends[p] < MaxSends /\ ~Busy(p)
    BY <1>0, <1>3, Offered DEF TrySend, MaySend, Busy, TypeOK
  <2>2. Fresh(p) = <<p, sends'[p]>>
    BY <2>1 DEF Fresh
  <2>3. \A q \in Producers : Busy(q)' <=> Busy(q)
    BY <1>3 DEF TrySend, Busy
  <2>4. CASE Push(Fresh(p)) /\ handed' = handed
    <3>1. Accepted' = Append(Accepted, Fresh(p))
      BY <1>3, <2>1, <2>4, PushAccepts DEF TrySend
    <3> QED  BY <2>1, <2>2, <2>3, <2>4, <3>1 DEF Offer
  <2>5. CASE handed' = handed \cup {Fresh(p)} /\ UNCHANGED ring
    <3>1. Accepted' = Accepted
      BY <1>3, <2>5, SameAccepted DEF TrySend
    <3> QED  BY <2>1, <2>2, <2>3, <2>5, <3>1 DEF Offer
  <2> QED  BY <1>3, <2>4, <2>5 DEF TrySend
<1>4. ASSUME NEW p \in Producers, CancelSend(p) PROVE Offer(p)
  <2>1. Accepted' = Accepted /\ sends' = sends /\ Busy(p)
    BY <1>4, SameAccepted DEF CancelSend, Busy
  <2>2. ~Busy(p)' /\ \A q \in Producers \ {p} : Busy(q)' <=> Busy(q)
    BY <1>0, <1>4 DEF CancelSend, Busy, TypeOK
  <2> QED  BY <1>4, <2>1, <2>2 DEF CancelSend, Held, Offer
<1>5. ASSUME Pop, UNCHANGED <<sends, handed>> PROVE NoOffer
  BY <1>0, <1>5, PopAcceptsNothing DEF NoOffer, Pop
<1>6. ASSUME UNCHANGED <<ring, got, sends, handed>>, prod' = prod \/ WakeTx PROVE NoOffer
  BY <1>0, <1>6, SameAccepted DEF NoOffer, Busy
<1>7. ASSUME NEW c \in Consumers, RecvFirst(c) \/ RecvAgain(c) \/ TryRecv(c) PROVE NoOffer
  BY <1>5, <1>6, <1>7 DEF RecvFirst, RecvAgain, TryRecv, Receive
<1>8. CASE SpuriousWake
  <2>1. \A p \in Producers : Busy(p)' <=> Busy(p)
    BY <1>0, <1>8 DEF SpuriousWake, Busy, TypeOK
  <2> QED  BY <1>8, <2>1, SameAccepted DEF SpuriousWake, NoOffer, history
<1>9. CASE \/ \E h \in Handles : Split(h) \/ DropSender(h)
           \/ \E h, g \in Handles : TryClone(h, g)
           \/ DropReceiver
           \/ \E c \in Consumers : CancelRecv(c)
           \/ UNCHANGED vars
  BY <1>6, <1>9 DEF Split, DropSender, TryClone, DropReceiver, CancelRecv, vars, ring, history
<1> QED
  BY <1>1, <1>2, <1>3, <1>4, <1>7, <1>8, <1>9 DEF Next

-----------------------------------------------------------------------------
(* The inductive invariant.  Neither property is inductive: a value could  *)
(* be accepted that was accepted, or handed back, before its producer had  *)
(* ever tried to send it.  Tried and Attempts say that there is no such    *)
(* value: what was accepted or handed back was tried, and its send is over.*)

\* A value whose send is over.
Tried(m) ==
  /\ m[1] \in Producers /\ m[2] \in 1 .. sends[m[1]]
  /\ Busy(m[1]) => m[2] # sends[m[1]]

Attempts ==
  /\ \A i \in DOMAIN Accepted : Tried(Accepted[i])
  /\ \A m \in handed : Tried(m)

\* An offered value has not been tried before; the values tried before stay
\* tried, and the offered one is when its send is over.
LEMMA OfferIsNew ==
  ASSUME Basis, NEW p \in Producers, Offer(p), NEW o, o = <<p, sends'[p]>>
  PROVE  /\ o \in Messages /\ o[1] = p /\ ~Tried(o)
         /\ \A m : Tried(m) => Tried(m)' /\ (m[1] = p => m[2] < o[2])
         /\ ~Busy(p)' => Tried(o)'
<1>1. sends \in [Producers -> 0 .. MaxSends] /\ MaxSends \in Nat
  BY ChannelAssumption DEF Basis, Sound, TypeOK
<1>2. /\ \A q \in Producers : sends[q] \in Nat
      /\ \A q \in Producers \ {p} : sends'[q] = sends[q]
      /\ \/ Busy(p) /\ o[2] = sends[p] /\ sends[p] > 0
         \/ ~Busy(p) /\ o[2] = sends[p] + 1 /\ sends[p] < MaxSends
  BY <1>1 DEF Offer, Basis, Outstanding, Busy
<1>3. o[1] = p /\ o[2] = sends'[p] /\ o[2] \in 1 .. MaxSends
  BY <1>1, <1>2
<1>4. o \in Messages /\ ~Tried(o)
  BY <1>2, <1>3 DEF Tried, Messages
<1>5. ASSUME NEW m, Tried(m) PROVE Tried(m)' /\ (m[1] = p => m[2] < o[2])
  <2>1. CASE m[1] = p
    BY <1>2, <1>3, <1>5, <2>1 DEF Tried
  <2>2. CASE m[1] # p
    BY <1>2, <1>5, <2>2 DEF Tried, Offer
  <2> QED  BY <2>1, <2>2
<1>6. ~Busy(p)' => Tried(o)'
  BY <1>3 DEF Tried
<1> QED  BY <1>3, <1>4, <1>5, <1>6

\* Attempts is kept by every step.
LEMMA NextAttempts == Basis /\ Attempts /\ [Next]_vars => Attempts'
<1> SUFFICES ASSUME Basis, Attempts, [Next]_vars PROVE Attempts'
  OBVIOUS
<1>1. Accepted \in Seq(Messages)
  BY AcceptedType
<1>2. CASE NoOffer
  <2>1. \A m : Tried(m) => Tried(m)'
    BY <1>2 DEF NoOffer, Tried
  <2> QED  BY <1>2, <2>1 DEF NoOffer, Attempts
<1>3. ASSUME NEW p \in Producers, Offer(p) PROVE Attempts'
  <2>0. PICK o : o = <<p, sends'[p]>>
    OBVIOUS
  <2>1. o \in Messages /\ (\A m : Tried(m) => Tried(m)') /\ (~Busy(p)' => Tried(o)')
    BY <1>3, <2>0, OfferIsNew
  <2>2. CASE Accepted' = Append(Accepted, o) /\ handed' = handed /\ ~Busy(p)'
    <3>1. ASSUME NEW i \in DOMAIN Accepted' PROVE Tried(Accepted[i])'
      <4>1. \/ i = Len(Accepted) + 1 /\ Accepted'[i] = o
            \/ i \in DOMAIN Accepted /\ Accepted'[i] = Accepted[i]
        BY <1>1, <2>1, <2>2, <3>1, AppendProperties, LenProperties
      <4> QED  BY <2>1, <2>2, <4>1 DEF Attempts
    <3> QED  BY <2>1, <2>2, <3>1 DEF Attempts
  <2>3. CASE Accepted' = Accepted /\ handed' = handed \cup {o} /\ ~Busy(p)'
    BY <2>1, <2>3 DEF Attempts
  <2>4. CASE Accepted' = Accepted /\ handed' = handed
    BY <2>1, <2>4 DEF Attempts
  <2> QED  BY <1>3, <2>0, <2>2, <2>3, <2>4 DEF Offer
<1> QED  BY <1>2, <1>3, StepOffers

LEMMA AttemptsHold == Spec => [](Basis /\ Attempts)
<1>1. Init => Attempts
  BY DEF Init, Attempts, Accepted, Buffered
<1>2. Basis /\ Attempts /\ [Next]_vars => Attempts'
  BY NextAttempts
<1> QED  BY BasisHolds, <1>1, <1>2, PTL DEF Spec

-----------------------------------------------------------------------------
(* The order of the values.                                                *)

LEMMA NextOrder == Basis /\ Attempts /\ PerSenderOrder /\ [Next]_vars => PerSenderOrder'
<1> SUFFICES ASSUME Basis, Attempts, PerSenderOrder, [Next]_vars PROVE PerSenderOrder'
  OBVIOUS
<1>1. CASE Accepted' = Accepted
  BY <1>1 DEF PerSenderOrder
<1>2. ASSUME NEW p \in Producers, Offer(p), Accepted' = Append(Accepted, <<p, sends'[p]>>)
      PROVE  PerSenderOrder'
  <2>0. PICK o : o = <<p, sends'[p]>>
    OBVIOUS
  <2>1. Accepted \in Seq(Messages) /\ o \in Messages
    BY <1>2, <2>0, AcceptedType, OfferIsNew
  <2>2. /\ DOMAIN Accepted = 1 .. Len(Accepted) /\ Len(Accepted) \in Nat
        /\ DOMAIN Accepted' = 1 .. Len(Accepted) + 1
        /\ \A i \in 1 .. Len(Accepted) : Accepted'[i] = Accepted[i]
        /\ Accepted'[Len(Accepted) + 1] = o
    BY <1>2, <2>0, <2>1, AppendProperties, LenProperties
  <2>3. \A i \in DOMAIN Accepted : Accepted[i][1] = o[1] => Accepted[i][2] < o[2]
    BY <1>2, <2>0, OfferIsNew DEF Attempts
  <2>4. ASSUME NEW i \in DOMAIN Accepted', NEW j \in DOMAIN Accepted',
               i < j, Accepted'[i][1] = Accepted'[j][1]
        PROVE  Accepted'[i][2] < Accepted'[j][2]
    <3>1. i \in DOMAIN Accepted
      BY <2>2, <2>4
    <3>2. CASE j \in DOMAIN Accepted
      BY <2>2, <2>4, <3>1, <3>2 DEF PerSenderOrder
    <3>3. CASE j \notin DOMAIN Accepted
      <4>1. j = Len(Accepted) + 1
        BY <2>2, <3>3
      <4> QED  BY <2>2, <2>3, <2>4, <3>1, <4>1
    <3> QED  BY <3>2, <3>3
  <2> QED  BY <2>4 DEF PerSenderOrder
<1> QED  BY <1>1, <1>2, StepOffers DEF NoOffer, Offer

\* The values of a sender are accepted and received in the order in which they
\* were sent, none of them twice: for every capacity, every number of senders
\* and every set of tasks, whoever shares a Sender (push and pop of channel.rs
\* around the end of the ring, the retries of send, split on a used ring).
THEOREM OrderKept == Spec => []PerSenderOrder
<1>1. Init => PerSenderOrder
  BY DEF Init, PerSenderOrder, Accepted, Buffered
<1>2. Basis /\ Attempts /\ PerSenderOrder /\ [Next]_vars => PerSenderOrder'
  BY NextOrder
<1> QED  BY AttemptsHold, <1>1, <1>2, PTL DEF Spec

-----------------------------------------------------------------------------
(* Where each value is.                                                    *)

Pending(m) == Busy(m[1]) /\ m[2] = sends[m[1]]

\* The value m is in exactly one place.
Placed(m) ==
  /\ ~(Pending(m) /\ m \in handed)
  /\ Occurs(m, Accepted) <=> ~Pending(m) /\ m \notin handed

LEMMA ConservedIsPlaced ==
  ValuesConserved <=> \A p \in Producers : \A n \in 1 .. sends[p] : Placed(<<p, n>>)
  BY DEF ValuesConserved, Placed, Pending, Busy

\* A value occurs in what an append makes where it did, or is the value appended.
LEMMA OccursInAppend ==
  ASSUME NEW T, NEW s \in Seq(T), NEW o \in T, NEW m
  PROVE  Occurs(m, Append(s, o)) <=> Occurs(m, s) \/ m = o
<1>1. /\ DOMAIN s = 1 .. Len(s) /\ Len(s) \in Nat
      /\ DOMAIN Append(s, o) = 1 .. Len(s) + 1
      /\ \A i \in 1 .. Len(s) : Append(s, o)[i] = s[i]
      /\ Append(s, o)[Len(s) + 1] = o
  BY AppendProperties, LenProperties
<1>2. \A i \in 1 .. Len(s) + 1 : i \in 1 .. Len(s) \/ i = Len(s) + 1
  BY <1>1
<1>3. Len(s) + 1 \in 1 .. Len(s) + 1 /\ 1 .. Len(s) \subseteq 1 .. Len(s) + 1
  BY <1>1
<1> QED  BY <1>1, <1>2, <1>3 DEF Occurs

LEMMA NextConserved ==
  Basis /\ Attempts /\ ValuesConserved /\ [Next]_vars => ValuesConserved'
<1> SUFFICES ASSUME Basis, Attempts, ValuesConserved, [Next]_vars PROVE ValuesConserved'
  OBVIOUS
<1> SUFFICES ASSUME NEW q \in Producers, NEW n \in 1 .. sends'[q], NEW m, m = <<q, n>>
             PROVE  Placed(m)'
  <2>1. \A q \in Producers : \A n \in 1 .. sends'[q] : \A m : m = <<q, n>> => Placed(m)'
    OBVIOUS
  <2>2. ASSUME NEW q \in Producers, NEW n \in 1 .. sends'[q], NEW m, m = <<q, n>>
        PROVE  LET pending == Busy(q)' /\ n = sends'[q]
               IN  /\ ~(pending /\ m \in handed')
                   /\ Occurs(m, Accepted') <=> ~pending /\ m \notin handed'
    BY <2>1, <2>2 DEF Placed, Pending
  <2> QED  BY <2>2 DEF ValuesConserved, Busy
<1>0. sends \in [Producers -> Nat]
  BY DEF Basis, Sound, TypeOK
<1>1. CASE NoOffer
  <2>1. Placed(m)
    BY <1>1, ConservedIsPlaced DEF NoOffer
  <2> QED  BY <1>1, <2>1 DEF NoOffer, Placed, Pending
<1>2. ASSUME NEW p \in Producers, Offer(p) PROVE Placed(m)'
  <2>0. PICK o : o = <<p, sends'[p]>>
    OBVIOUS
  <2>1. o \in Messages /\ ~Tried(o) /\ Accepted \in Seq(Messages)
    BY <1>2, <2>0, OfferIsNew, AcceptedType
  <2>2. CASE m = o
    <3>1. ~Occurs(m, Accepted) /\ m \notin handed
      BY <2>1, <2>2 DEF Attempts, Occurs
    <3>2. Pending(m)' <=> Busy(p)'
      BY <2>0, <2>2 DEF Pending
    <3>3. Occurs(m, Append(Accepted, o))
      BY <2>1, <2>2, OccursInAppend
    <3> QED  BY <1>2, <2>0, <2>2, <3>1, <3>2, <3>3 DEF Offer, Placed
  <2>3. CASE m # o
    <3>1. n \in 1 .. sends[q] /\ (Pending(m)' <=> Pending(m))
      <4>1. CASE q = p
        BY <1>0, <1>2, <2>0, <2>3, <4>1 DEF Offer, Pending
      <4>2. CASE q # p
        BY <1>0, <1>2, <4>2 DEF Offer, Pending
      <4> QED  BY <4>1, <4>2
    <3>2. Placed(m)
      BY <3>1, ConservedIsPlaced
    <3>3. Occurs(m, Append(Accepted, o)) <=> Occurs(m, Accepted)
      BY <2>1, <2>3, OccursInAppend
    <3> QED  BY <1>2, <2>0, <2>3, <3>1, <3>2, <3>3 DEF Offer, Placed
  <2> QED  BY <2>2, <2>3
<1> QED  BY <1>1, <1>2, StepOffers

\* No value is lost, delivered twice, or both delivered and handed back: each
\* is with the channel, with its outstanding send, or back with its sender
\* (send, try_send and a dropped future, channel.rs).
THEOREM NoValueLost == Spec => []ValuesConserved
<1>1. Init => ValuesConserved
  BY DEF Init, ValuesConserved
<1>2. Basis /\ Attempts /\ ValuesConserved /\ [Next]_vars => ValuesConserved'
  BY NextConserved
<1> QED  BY AttemptsHold, <1>1, <1>2, PTL DEF Spec

-----------------------------------------------------------------------------
(* The end of the values.                                                  *)

LEMMA NextFinal ==
  Basis /\ IdsAreOwned /\ NoneIsFinal /\ [Next]_vars => NoneIsFinal'
<1> SUFFICES ASSUME Basis, IdsAreOwned, NoneIsFinal, [Next]_vars PROVE NoneIsFinal'
  OBVIOUS
<1>0. /\ \A p \in Producers : Busy(p) => TxAlive
      /\ \A h \in Handles : Live(h) => TxAlive
      /\ len \in Nat
  BY ChannelAssumption
  DEF Basis, Sound, TypeOK, FuturesBorrow, Busy, IdsAreOwned, LiveHandles, TxAlive
<1>1. ASSUME NEW h \in Handles, Split(h) PROVE NoneIsFinal'
  BY <1>1 DEF Split, NoneIsFinal
<1>2. ASSUME NEW h \in Handles, DropSender(h) PROVE NoneIsFinal'
  BY <1>0, <1>2 DEF DropSender, NoneIsFinal, TxAlive, history
<1>3. ASSUME NEW h \in Handles, NEW g \in Handles, TryClone(h, g) PROVE NoneIsFinal'
  BY <1>0, <1>3 DEF TryClone, NoneIsFinal, history
<1>4. ASSUME NEW p \in Producers, SendFirst(p) \/ SendAgain(p) \/ TrySend(p)
      PROVE  NoneIsFinal'
  <2>1. TxAlive
    BY <1>0, <1>4, ChannelAssumption DEF SendFirst, SendAgain, TrySend, MaySend, Busy
  <2> QED  BY <1>4, <2>1 DEF SendFirst, SendAgain, TrySend, NoneIsFinal
<1>5. ASSUME NEW c \in Consumers, RecvFirst(c) \/ RecvAgain(c) \/ TryRecv(c)
      PROVE  NoneIsFinal'
  <2>1. CASE Pop /\ UNCHANGED ended
    BY <1>0, <2>1 DEF Pop, NoneIsFinal
  <2>2. CASE UNCHANGED <<ring, tx_ids>> /\ ((~TxAlive /\ len = 0) \/ UNCHANGED ended)
    BY <2>2 DEF NoneIsFinal, TxAlive, ring
  <2> QED  BY <1>5, <2>1, <2>2 DEF RecvFirst, RecvAgain, TryRecv, Receive
<1>6. CASE UNCHANGED <<len, tx_ids, ended>>
  BY <1>6 DEF NoneIsFinal, TxAlive
<1> QED
  BY <1>1, <1>2, <1>3, <1>4, <1>5, <1>6
  DEF Next, DropReceiver, CancelSend, CancelRecv, SpuriousWake, vars, ring, history

\* Once a recv has answered None, no sender is left and nothing is buffered:
\* what "closed" means to the receiver (recv, channel.rs:157) stays true.
THEOREM NoneMeansTheEnd == Spec => []NoneIsFinal
<1>1. Init => NoneIsFinal
  BY DEF Init, NoneIsFinal
<1>2. Basis /\ IdsAreOwned /\ NoneIsFinal /\ [Next]_vars => NoneIsFinal'
  BY NextFinal
<1> QED  BY IdsHold, <1>1, <1>2, PTL DEF Spec

-----------------------------------------------------------------------------
(* What NoLostWakeup says of each side.                                    *)

\* A recv whose task nobody will wake must still wait, when one task receives
\* (channel.rs:157, the wake of push and of the last Sender's drop).
THEOREM ReceiverWaitsRightly ==
  ASSUME OneTaskPerHalf
  PROVE  Spec => []RecvWaitsOnlyWhileEmpty
  BY NoLostWakeup, PTL

\* The waker of a parked task is in its slot, when one task uses each half
\* (register, wake and wake_tx of channel.rs).
THEOREM WakersAreFound ==
  ASSUME OneTaskPerHalf
  PROVE  Spec => []WakersRegistered
  BY NoLostWakeup, PTL
=============================================================================
