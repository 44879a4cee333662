----------------------------- MODULE PathProofs -----------------------------
(* Theorems about the depths that ExchangeStream carries: none is lost,    *)
(* none comes twice, the whole is the path DepthPath promises, and the     *)
(* depths of a snapshot are sent in order and before those held back.      *)
EXTENDS StreamProofs

-----------------------------------------------------------------------------
(* The inductive invariant, beside Stocked: where each depth is that was   *)
(* taken in.  That a depth never comes back when its slot is used again    *)
(* needs the numbers of the payloads: a new one is larger than any seen.   *)

\* The payload of depth d has been counted.
Known(d) ==
  /\ d.of.ex \in Exchanges /\ d.of.n \in Nat
  /\ IF d.of.src = "snap" THEN d.of.n <= pulls[d.of.ex] ELSE d.of.n <= texts[d.of.ex]

InWait == {pool[s] : s \in DOMAIN pool \ {held}}

Traced ==
  /\ \A d \in accepted : Known(d)
  /\ \A s, r \in DOMAIN pool : pool[s] = pool[r] => s = r
  /\ delivered \in Seq(accepted) /\ Once(delivered)
  /\ accepted = InWait \cup Entries(delivered) \cup lost
  /\ InWait \cap Entries(delivered) = {}
  /\ InWait \cap lost = {}
  /\ Entries(delivered) \cap lost = {}
  /\ lost # {} => ~rx_open
  /\ held # NoSlot => pool[held] \in Entries(delivered)

\* The slots that are sent, received and released are taken, and only one of
\* them is the reader's.
LEMMA InStock ==
  ASSUME Stock
  PROVE  /\ NoSlot \notin DOMAIN pool
         /\ held # NoSlot => held \in DOMAIN pool
         /\ channel # <<>> => Head(channel) \in DOMAIN pool /\ Head(channel) # held
         /\ \A e \in Exchanges : buffer[e] # <<>> => Top(e) \in DOMAIN pool /\ Top(e) # held
<1>1. Channelled /\ \A e \in Exchanges : Owned(e)
  BY DEF Stock
<1>2. NoSlot \notin DOMAIN pool
  BY <1>1, NoSlotAssumption DEF Channelled
<1>3. \A s \in Slots : s \in Entries(channel) \/ s = held => s \in DOMAIN pool
  <2>1. ASSUME NEW s \in Slots, s \in Entries(channel) \/ s = held
        PROVE  s \in DOMAIN pool
    <3>1. PICK e \in Exchanges : s \in SlotsOf(e)
      BY SlotsOfOne
    <3> QED  BY <1>1, <2>1, <3>1 DEF Owned, Away
  <2> QED  BY <2>1
<1>4. held # NoSlot => held \in DOMAIN pool
  BY <1>1, <1>3 DEF Channelled
<1>5. channel # <<>> => Head(channel) \in DOMAIN pool /\ Head(channel) # held
  <2>1. channel # <<>> => Head(channel) \in Slots /\ Head(channel) \in Entries(channel)
    BY <1>1, TailOnce DEF Channelled
  <2> QED  BY <1>1, <1>3, <2>1 DEF Channelled
<1>6. ASSUME NEW e \in Exchanges, buffer[e] # <<>>
      PROVE  Top(e) \in DOMAIN pool /\ Top(e) # held
  <2>1. Top(e) \in SlotsOf(e) /\ Top(e) \in Entries(buffer[e])
    BY <1>1, <1>6, FrontOnce DEF Owned, Top
  <2> QED  BY <1>1, <2>1 DEF Owned, Kept, Away
<1> QED  BY <1>2, <1>4, <1>5, <1>6

LEMMA InitTraced == Init => Traced
<1> SUFFICES ASSUME Init PROVE Traced
  OBVIOUS
<1>1. Entries(<<>>) = {} /\ Once(<<>>) /\ <<>> \in Seq(accepted)
  BY EmptySeq DEF Entries, Once
<1>2. DOMAIN pool = {}
  <2>1. pool = <<>> /\ Len(<<>>) = 0 /\ 1 .. 0 = {}
    BY EmptySeq DEF Init
  <2> QED  BY <2>1, EmptySeq
<1>3. InWait = {}
  BY <1>2 DEF InWait
<1> QED  BY <1>1, <1>2, <1>3 DEF Init, Traced

\* Nothing happens to the depths.
LEMMA SameTrace ==
  ASSUME Traced, UNCHANGED <<pool, held, delivered, accepted, lost>>,
         rx_open' => rx_open, \A d \in accepted : Known(d) => Known(d)'
  PROVE  Traced' /\ InWait' = InWait
BY DEF Traced, InWait

\* The depths of a payload archived in the slots of t.
DepthsOf(payload, t) == {Entry(payload, i) : i \in DOMAIN t}

\* An ingest in the slots of t adds the depths new and nothing else.
Adds(t, payload, new) ==
  /\ accepted' = accepted \cup new
  /\ DOMAIN pool' = DOMAIN pool \cup Entries(t) /\ Entries(t) \cap DOMAIN pool = {}
  /\ \A s \in DOMAIN pool : pool'[s] = pool[s]
  /\ \A i \in DOMAIN t : pool'[t[i]] = Entry(payload, i)
  /\ \A s \in Entries(t) : pool'[s] \in new
  /\ \A s, r \in Entries(t) : pool'[s] = pool'[r] => s = r
  /\ \A d \in new : d.of = payload
  /\ InWait' = InWait \cup new

LEMMA IngestAdds ==
  ASSUME Stock, NEW e \in Exchanges, NEW k \in Nat, NEW t \in Takings(e, k), NEW payload,
         Ingest(t, payload), held' = held, NEW new, new = DepthsOf(payload, t)
  PROVE  Adds(t, payload, new)
<1> USE DEF DepthsOf
<1>1. /\ Len(t) = k /\ DOMAIN t = 1 .. k /\ Once(t)
      /\ Entries(t) \cap DOMAIN pool = {} /\ Entries(t) \subseteq SlotsOf(e)
  BY TakingsFresh, EntriesType
<1>2. DOMAIN pool' = DOMAIN pool \cup Entries(t)
  BY <1>1 DEF Ingest, Entries
<1>3. pool' = [s \in DOMAIN pool' |->
                IF s \in DOMAIN pool THEN pool[s]
                ELSE Entry(payload, CHOOSE i \in DOMAIN t : t[i] = s)]
  BY <1>2 DEF Ingest
<1>4. \A i, j \in DOMAIN t : t[i] = t[j] => i = j
  BY <1>1 DEF Once
<1>5. ASSUME NEW i \in DOMAIN t
      PROVE  t[i] \in Entries(t) /\ pool'[t[i]] = Entry(payload, i)
  <2>1. t[i] \in Entries(t) /\ t[i] \notin DOMAIN pool /\ t[i] \in DOMAIN pool'
    BY <1>1, <1>2 DEF Entries
  <2>2. PICK c : c = CHOOSE j \in DOMAIN t : t[j] = t[i]
    OBVIOUS
  <2>3. c \in DOMAIN t /\ t[c] = t[i]
    BY <2>2
  <2>4. c = i
    BY <1>4, <2>3
  <2> QED  BY <1>3, <2>1, <2>2, <2>4
<1>6. \A s \in Entries(t) : \E i \in DOMAIN t : s = t[i] /\ pool'[s] = Entry(payload, i)
  BY <1>1, <1>5 DEF Entries
<1>7. \A i, j : Entry(payload, i) = Entry(payload, j) => i = j
  BY DEF Entry
<1>8. \A i : Entry(payload, i).of = payload
  BY DEF Entry
<1>9. \A s \in DOMAIN pool : pool'[s] = pool[s]
  BY <1>2, <1>3
<1>10. InWait' = InWait \cup new
  <2>1. held \notin Entries(t)
    <3>1. \A s \in Entries(t) : s \in Slots
      BY <1>1, SlotsOfOne
    <3> QED  BY <1>1, <3>1, InStock, NoSlotAssumption
  <2>2. InWait' = {pool'[s] : s \in (DOMAIN pool \cup Entries(t)) \ {held}}
    BY <1>2 DEF InWait
  <2>3. InWait' = {pool[s] : s \in DOMAIN pool \ {held}} \cup {pool'[s] : s \in Entries(t)}
    BY <1>9, <2>1, <2>2
  <2>4. {pool'[s] : s \in Entries(t)} = new
    <3>1. \A s \in Entries(t) : pool'[s] \in new
      BY <1>6
    <3>2. \A d \in new : \E s \in Entries(t) : d = pool'[s]
      BY <1>5
    <3> QED  BY <3>1, <3>2
  <2> QED  BY <2>3, <2>4 DEF InWait
<1>11. \A s \in Entries(t) : pool'[s] \in new
  BY <1>6
<1>12. \A s, r \in Entries(t) : pool'[s] = pool'[r] => s = r
  BY <1>6, <1>7
<1>13. \A d \in new : d.of = payload
  BY <1>8
<1>14. accepted' = accepted \cup new
  BY DEF Ingest
<1>15. \A i \in DOMAIN t : pool'[t[i]] = Entry(payload, i)
  BY <1>5
<1> QED  BY <1>1, <1>2, <1>9, <1>10, <1>11, <1>12, <1>13, <1>14, <1>15 DEF Adds

\* The depth the reader views.
Viewing == {pool[s] : s \in {held} \ {NoSlot}}

\* An ingest takes in depths that were never seen.
LEMMA IngestTraced ==
  ASSUME Stock, Traced, NEW e \in Exchanges, NEW k \in Nat, NEW t \in Takings(e, k),
         NEW payload, Ingest(t, payload), UNCHANGED <<held, delivered, lost, rx_open>>
  PROVE  (\A d \in accepted : Known(d)' /\ d.of # payload) /\ (\A d : d.of = payload => Known(d)')
         => /\ Traced'
            /\ InWait \subseteq InWait' /\ (InWait' \ InWait) \cap accepted = {}
            /\ Viewing' = Viewing
<1>1. PICK new : new = DepthsOf(payload, t)
  OBVIOUS
<1>2. /\ accepted' = accepted \cup new
      /\ DOMAIN pool' = DOMAIN pool \cup Entries(t) /\ Entries(t) \cap DOMAIN pool = {}
      /\ \A s \in DOMAIN pool : pool'[s] = pool[s]
      /\ \A s \in Entries(t) : pool'[s] \in new
      /\ \A s, r \in Entries(t) : pool'[s] = pool'[r] => s = r
      /\ \A d \in new : d.of = payload
      /\ InWait' = InWait \cup new
  <2>1. held' = held
    OBVIOUS
  <2>2. Adds(t, payload, new)
    BY <1>1, <2>1, IngestAdds
  <2> QED  BY <2>2 DEF Adds
<1> HAVE (\A d \in accepted : Known(d)' /\ d.of # payload) /\ \A d : d.of = payload => Known(d)'
<1>3. \A d \in new : d \notin accepted
  BY <1>2
<1>4. \A s \in DOMAIN pool : pool[s] \in accepted
  BY DEF Stock, Archived
<1>5. \A s, r \in DOMAIN pool' : pool'[s] = pool'[r] => s = r
  BY <1>2, <1>3, <1>4 DEF Traced
<1>6. /\ accepted = InWait \cup Entries(delivered) \cup lost
      /\ InWait \cap Entries(delivered) = {} /\ InWait \cap lost = {}
      /\ Entries(delivered) \cap lost = {}
      /\ lost # {} => ~rx_open
      /\ delivered \in Seq(accepted) /\ Once(delivered)
  BY DEF Traced
<1>7. delivered \in Seq(accepted')
  BY <1>2, <1>6, SeqMonotonic
<1>8. held # NoSlot => held \in DOMAIN pool /\ pool[held] \in Entries(delivered)
  BY InStock DEF Traced
<1>9. held # NoSlot => pool'[held] \in Entries(delivered)
  BY <1>2, <1>8
<1>10. \A d \in accepted' : Known(d)'
  BY <1>2
<1>11. /\ accepted' = InWait' \cup Entries(delivered) \cup lost
       /\ InWait' \cap Entries(delivered) = {} /\ InWait' \cap lost = {}
  BY <1>2, <1>3, <1>6
<1>12. Traced'
  BY <1>5, <1>6, <1>7, <1>9, <1>10, <1>11 DEF Traced
<1>13. InWait \subseteq InWait' /\ (InWait' \ InWait) \cap accepted = {}
  BY <1>2, <1>3
<1>14. Viewing' = Viewing
  BY <1>2, <1>8 DEF Viewing
<1> QED  BY <1>12, <1>13, <1>14

\* The depth of a slot is none of the others'.
LEMMA WaitWithout ==
  ASSUME Traced, NEW s \in DOMAIN pool, s # held
  PROVE  /\ pool[s] \in InWait
         /\ {pool[r] : r \in (DOMAIN pool \ {held}) \ {s}} = InWait \ {pool[s]}
BY DEF Traced, InWait

\* A slot is released because the reader has gone.
LEMMA LoseTraced ==
  ASSUME Stock, Traced, ~rx_open, NEW s \in DOMAIN pool, s # held,
         pool' = Released(s), lost' = lost \cup {pool[s]},
         UNCHANGED <<held, delivered, accepted, rx_open, texts, pulls>>
  PROVE  /\ Traced'
         /\ pool[s] \in InWait /\ InWait' = InWait \ {pool[s]}
         /\ Viewing' = Viewing
<1>1. pool[s] \in InWait /\ InWait' = InWait \ {pool[s]}
  <2>1. /\ DOMAIN pool' = DOMAIN pool \ {s}
        /\ \A r \in DOMAIN pool \ {s} : pool'[r] = pool[r]
    BY DEF Released
  <2>2. InWait' = {pool[r] : r \in (DOMAIN pool \ {held}) \ {s}}
    BY <2>1 DEF InWait
  <2> QED  BY <2>2, WaitWithout
<1>2. Viewing' = Viewing
  BY InStock DEF Viewing, Released
<1>3. held # NoSlot => pool'[held] = pool[held]
  BY InStock DEF Released
<1>4. \A d \in accepted : Known(d)'
  BY DEF Traced, Known
<1>5. \A q, r \in DOMAIN pool' : pool'[q] = pool'[r] => q = r
  BY DEF Traced, Released
<1>6. /\ accepted = InWait \cup Entries(delivered) \cup lost
      /\ InWait \cap Entries(delivered) = {} /\ InWait \cap lost = {}
      /\ Entries(delivered) \cap lost = {}
  BY DEF Traced
<1>7. /\ accepted = InWait' \cup Entries(delivered) \cup lost'
      /\ InWait' \cap Entries(delivered) = {} /\ InWait' \cap lost' = {}
      /\ Entries(delivered) \cap lost' = {}
  BY <1>1, <1>6
<1>8. Traced'
  BY <1>3, <1>4, <1>5, <1>7 DEF Traced
<1> QED  BY <1>1, <1>2, <1>8

LEMMA TakeTraced ==
  ASSUME Stock, Traced, Take, NEW d, d = pool[Head(channel)]
  PROVE  /\ Traced'
         /\ d \in InWait /\ InWait' = InWait \ {d}
         /\ Viewing = {} /\ Viewing' = {d} /\ delivered' = Append(delivered, d)
<1>1. PICK s : s = Head(channel)
  OBVIOUS
<1>2. /\ held = NoSlot /\ held' = s /\ rx_open
      /\ delivered' = Append(delivered, d) /\ UNCHANGED <<pool, rx_open, accepted, lost, texts, pulls>>
  BY <1>1 DEF Take
<1>3. s \in DOMAIN pool /\ s # NoSlot /\ pool[s] = d
  BY <1>1, InStock DEF Take
<1>4. DOMAIN pool \ {held} = DOMAIN pool
  BY <1>2, InStock
<1>5. d \in InWait /\ InWait' = InWait \ {d}
  <2>1. InWait' = {pool[r] : r \in (DOMAIN pool \ {held}) \ {s}}
    BY <1>2, <1>4 DEF InWait
  <2> QED  BY <1>2, <1>3, <2>1, WaitWithout
<1>6. Viewing = {} /\ Viewing' = {d}
  <2>1. {held} \ {NoSlot} = {} /\ {s} \ {NoSlot} = {s}
    BY <1>2, <1>3
  <2> QED  BY <1>2, <1>3, <2>1 DEF Viewing
<1>7. /\ accepted = InWait \cup Entries(delivered) \cup lost
      /\ InWait \cap Entries(delivered) = {} /\ InWait \cap lost = {}
      /\ Entries(delivered) \cap lost = {}
      /\ lost # {} => ~rx_open
      /\ delivered \in Seq(accepted) /\ Once(delivered)
  BY DEF Traced
<1>8. d \in accepted /\ d \notin Entries(delivered) /\ d \notin lost
  BY <1>5, <1>7
<1>9. delivered' \in Seq(accepted) /\ Once(delivered') /\ Entries(delivered') = Entries(delivered) \cup {d}
  BY <1>2, <1>7, <1>8, AppendOnce
<1>10. \A x \in accepted : Known(x)'
  BY <1>2 DEF Traced, Known
<1>11. /\ accepted = InWait' \cup Entries(delivered') \cup lost
       /\ InWait' \cap Entries(delivered') = {} /\ InWait' \cap lost = {}
       /\ Entries(delivered') \cap lost = {}
  BY <1>5, <1>7, <1>8, <1>9
<1>12. pool'[held'] \in Entries(delivered')
  BY <1>2, <1>3, <1>9
<1>13. \A q, r \in DOMAIN pool' : pool'[q] = pool'[r] => q = r
  BY <1>2 DEF Traced
<1>14. Traced'
  BY <1>2, <1>7, <1>9, <1>10, <1>11, <1>12, <1>13 DEF Traced
<1> QED  BY <1>2, <1>5, <1>6, <1>14

LEMMA ReleaseTraced ==
  ASSUME Stock, Traced, Release
  PROVE  /\ Traced'
         /\ InWait' = InWait /\ Viewing # {} /\ Viewing' = {}
<1>1. /\ held \in DOMAIN pool /\ held # NoSlot /\ held' = NoSlot /\ pool' = Released(held)
      /\ UNCHANGED <<delivered, accepted, lost, rx_open, texts, pulls>>
  BY InStock DEF Release
<1>2. /\ DOMAIN pool' = DOMAIN pool \ {held}
      /\ \A r \in DOMAIN pool \ {held} : pool'[r] = pool[r]
  BY <1>1 DEF Released
<1>3. InWait' = InWait
  <2>1. (DOMAIN pool \ {held}) \ {NoSlot} = DOMAIN pool \ {held}
    BY InStock
  <2> QED  BY <1>1, <1>2, <2>1 DEF InWait
<1>4. Viewing # {} /\ Viewing' = {}
  BY <1>1 DEF Viewing
<1>5. \A d \in accepted : Known(d)'
  BY <1>1 DEF Traced, Known
<1>6. \A q, r \in DOMAIN pool' : pool'[q] = pool'[r] => q = r
  BY <1>2 DEF Traced
<1>7. Traced'
  BY <1>1, <1>3, <1>5, <1>6 DEF Traced
<1> QED  BY <1>3, <1>4, <1>7

-----------------------------------------------------------------------------
(* What a step does to the depths.                                         *)

Untouched ==
  Traced' /\ InWait' = InWait /\ Viewing' = Viewing /\ UNCHANGED <<delivered, lost, rx_open>>
Accepting ==
  /\ Traced' /\ InWait \subseteq InWait' /\ (InWait' \ InWait) \cap accepted = {}
  /\ Viewing' = Viewing /\ UNCHANGED <<delivered, lost, rx_open>>
Losing ==
  /\ Traced' /\ ~rx_open
  /\ \E d \in InWait : InWait' = InWait \ {d} /\ lost' = lost \cup {d}
  /\ Viewing' = Viewing /\ UNCHANGED <<delivered, rx_open>>
Taking ==
  /\ Traced' /\ rx_open /\ Viewing = {}
  /\ \E d \in InWait :
       InWait' = InWait \ {d} /\ Viewing' = {d} /\ delivered' = Append(delivered, d)
  /\ UNCHANGED <<lost, rx_open>>
Releasing ==
  /\ Traced' /\ InWait' = InWait /\ Viewing # {} /\ Viewing' = {}
  /\ UNCHANGED <<delivered, lost, rx_open>>
Closing ==
  /\ Traced' /\ InWait' = InWait /\ Viewing' = Viewing /\ rx_open /\ rx_open' = FALSE
  /\ UNCHANGED <<delivered, lost>>

\* What was counted stays counted.
LEMMA KnownStays ==
  ASSUME Counts, Counts', \A e \in Exchanges : texts[e] <= texts'[e] /\ pulls[e] <= pulls'[e]
  PROVE  \A d : Known(d) => Known(d)'
BY DEF Known, Counts

LEMMA CountsGrow ==
  ASSUME Counts, [Next]_vars
  PROVE  \A e \in Exchanges : texts[e] <= texts'[e] /\ pulls[e] <= pulls'[e]
<1>1. texts \in [Exchanges -> Nat] /\ pulls \in [Exchanges -> Nat]
  BY DEF Counts
<1>2. CASE texts' = texts /\ pulls' = pulls
  BY <1>1, <1>2
<1>3. ASSUME NEW e \in Exchanges, texts' = [texts EXCEPT ![e] = @ + 1], pulls' = pulls
      PROVE  \A f \in Exchanges : texts[f] <= texts'[f] /\ pulls[f] <= pulls'[f]
  BY <1>1, <1>3
<1>4. ASSUME NEW e \in Exchanges, pulls' = [pulls EXCEPT ![e] = @ + 1], texts' = texts
      PROVE  \A f \in Exchanges : texts[f] <= texts'[f] /\ pulls[f] <= pulls'[f]
  BY <1>1, <1>4
<1>5. ASSUME NEW e \in Exchanges, Poll(e)
      PROVE  \A f \in Exchanges : texts[f] <= texts'[f] /\ pulls[f] <= pulls'[f]
  BY <1>2, <1>3, <1>5 DEF Poll, Iterate, PollSend, PollEnds, PollSkips, PollText
<1>6. ASSUME NEW e \in Exchanges, PullOk(e) \/ PullErr(e) \/ PullPanic(e)
      PROVE  \A f \in Exchanges : texts[f] <= texts'[f] /\ pulls[f] <= pulls'[f]
  BY <1>2, <1>4, <1>6 DEF PullOk, PullErr, PullPanic
<1>7. ASSUME NEW e \in Exchanges,
             Connect(e) \/ Run(e) \/ RunSnapshot(e) \/ RunWithSnapshot(e)
               \/ PushBufferedWsDepths(e) \/ Cancel(e)
      PROVE  texts' = texts /\ pulls' = pulls
  BY <1>7 DEF Connect, Run, RunSnapshot, RunWithSnapshot, PushBufferedWsDepths, Cancel
<1>8. Take \/ Release \/ Close \/ UNCHANGED vars => texts' = texts /\ pulls' = pulls
  BY DEF Take, Release, Close, vars
<1> QED  BY <1>2, <1>5, <1>6, <1>7, <1>8 DEF Next

LEMMA PullOkPath ==
  ASSUME Counts, Counts', Stock, Traced, [Next]_vars, NEW e \in Exchanges, PullOk(e)
  PROVE  Accepting
<1>1. PICK k \in Sizes : \E t \in Takings(e, k) :
        Ingest(t, Payload(e, "snap", pulls[e] + 1, pulls[e] + 1))
  BY DEF PullOk
<1>2. PICK t \in Takings(e, k) : Ingest(t, Payload(e, "snap", pulls[e] + 1, pulls[e] + 1))
  BY <1>1
<1>3. PICK payload : payload = Payload(e, "snap", pulls[e] + 1, pulls[e] + 1)
  OBVIOUS
<1>4. k \in Nat /\ held' = held /\ delivered' = delivered /\ lost' = lost /\ rx_open' = rx_open
  BY StreamAssumption DEF PullOk, reader
<1>5. /\ pulls[e] \in Nat /\ pulls'[e] = pulls[e] + 1
      /\ payload.ex = e /\ payload.src = "snap" /\ payload.n = pulls[e] + 1
  BY <1>3 DEF PullOk, Payload, Counts
<1>6. \A d \in accepted : Known(d)' /\ d.of # payload
  BY <1>5, KnownStays, CountsGrow DEF Traced, Known
<1>7. \A d : d.of = payload => Known(d)'
  BY <1>5 DEF Known
<1>8. Ingest(t, payload)
  BY <1>2, <1>3
<1>9. /\ Traced' /\ InWait \subseteq InWait' /\ (InWait' \ InWait) \cap accepted = {}
      /\ Viewing' = Viewing
  BY <1>4, <1>6, <1>7, <1>8, IngestTraced
<1> QED  BY <1>4, <1>9 DEF Accepting

LEMMA PollTextPath ==
  ASSUME Counts, Counts', Stock, Traced, [Next]_vars, NEW e \in Exchanges, PollText(e)
  PROVE  Accepting \/ Untouched
<1>1. UNCHANGED <<held, delivered, lost, rx_open>>
  BY DEF PollText, reader
<1>2. \A d \in accepted : Known(d) /\ Known(d)'
  BY KnownStays, CountsGrow DEF Traced
<1>3. CASE UNCHANGED <<pool, accepted>>
  <2>1. Traced' /\ InWait' = InWait
    BY <1>1, <1>2, <1>3, SameTrace
  <2>2. Viewing' = Viewing
    BY <1>1, <1>3 DEF Viewing
  <2> QED  BY <1>1, <2>1, <2>2 DEF Untouched
<1>4. CASE \E k \in Sizes : \E t \in Takings(e, k) : Ingest(t, Text(e))
  <2>1. PICK k \in Sizes : \E t \in Takings(e, k) : Ingest(t, Text(e))
    BY <1>4
  <2>2. PICK t \in Takings(e, k) : Ingest(t, Text(e))
    BY <2>1
  <2>3. PICK payload : payload = Text(e)
    OBVIOUS
  <2>4. k \in Nat
    BY StreamAssumption
  <2>5. /\ texts[e] \in Nat /\ texts'[e] = texts[e] + 1
        /\ payload.ex = e /\ payload.src # "snap" /\ payload.n = texts[e] + 1
    BY <2>3 DEF PollText, Text, Payload, Counts
  <2>6. \A d \in accepted : d.of # payload
    BY <1>2, <2>5 DEF Known
  <2>7. \A d : d.of = payload => Known(d)'
    BY <2>5 DEF Known
  <2>8. Ingest(t, payload)
    BY <2>2, <2>3
  <2>9. /\ Traced' /\ InWait \subseteq InWait' /\ (InWait' \ InWait) \cap accepted = {}
        /\ Viewing' = Viewing
    BY <1>1, <1>2, <2>4, <2>6, <2>7, <2>8, IngestTraced
  <2> QED  BY <1>1, <2>9 DEF Accepting
<1> QED  BY <1>3, <1>4 DEF PollText

LEMMA PollSendPath ==
  ASSUME Counts, Stock, Traced, NEW e \in Exchanges, PollSend(e)
  PROVE  Untouched \/ Losing
<1>1. UNCHANGED <<held, delivered, rx_open, accepted, texts, pulls>>
  BY DEF PollSend, reader
<1>2. CASE UNCHANGED <<pool, lost>>
  <2>1. Traced' /\ InWait' = InWait
    BY <1>1, <1>2, SameTrace DEF Known
  <2>2. Viewing' = Viewing
    BY <1>1, <1>2 DEF Viewing
  <2> QED  BY <1>1, <1>2, <2>1, <2>2 DEF Untouched
<1>3. CASE /\ buffer[e] # <<>> /\ ~rx_open
           /\ pool' = Released(Top(e)) /\ lost' = lost \cup {pool[Top(e)]}
  <2>1. PICK s : s = Top(e)
    OBVIOUS
  <2>2. s \in DOMAIN pool /\ s # held
    BY <1>3, <2>1, InStock
  <2>3. Traced' /\ pool[s] \in InWait /\ InWait' = InWait \ {pool[s]} /\ Viewing' = Viewing
    BY <1>1, <1>3, <2>1, <2>2, LoseTraced
  <2> QED  BY <1>1, <1>3, <2>1, <2>3 DEF Losing
<1> QED  BY <1>2, <1>3 DEF PollSend, PutBack

LEMMA NextPath ==
  ASSUME Stocked, Traced, [Next]_vars
  PROVE  Untouched \/ Accepting \/ Losing \/ Taking \/ Releasing \/ Closing
<1>1. Counts /\ Counts' /\ Stock
  BY NextStocked DEF Stocked
<1>2. \A d : Known(d) => Known(d)'
  BY <1>1, KnownStays, CountsGrow
<1>3. CASE UNCHANGED <<pool, held, delivered, accepted, lost, rx_open>>
  <2>1. Traced' /\ InWait' = InWait
    BY <1>2, <1>3, SameTrace
  <2>2. Viewing' = Viewing
    BY <1>3 DEF Viewing
  <2> QED  BY <1>3, <2>1, <2>2 DEF Untouched
<1>4. ASSUME NEW e \in Exchanges,
             Connect(e) \/ Run(e) \/ RunSnapshot(e) \/ RunWithSnapshot(e)
               \/ PushBufferedWsDepths(e) \/ Cancel(e) \/ PullErr(e) \/ PullPanic(e)
      PROVE  UNCHANGED <<pool, held, delivered, accepted, lost, rx_open>>
  BY <1>4 DEF Connect, Run, RunSnapshot, RunWithSnapshot, PushBufferedWsDepths, Cancel,
              PullErr, PullPanic, reader
<1>5. ASSUME NEW e \in Exchanges, Iterate(e) \/ PollEnds(e) \/ PollSkips(e)
      PROVE  UNCHANGED <<pool, held, delivered, accepted, lost, rx_open>>
  BY <1>5 DEF Iterate, PollEnds, PollSkips, reader
<1>6. Take => Taking
  <2> SUFFICES ASSUME Take PROVE Taking
    OBVIOUS
  <2>1. PICK d : d = pool[Head(channel)]
    OBVIOUS
  <2>2. /\ Traced' /\ d \in InWait /\ InWait' = InWait \ {d}
        /\ Viewing = {} /\ Viewing' = {d} /\ delivered' = Append(delivered, d)
    BY <1>1, <2>1, TakeTraced
  <2>3. rx_open /\ UNCHANGED <<lost, rx_open>>
    BY DEF Take
  <2> QED  BY <2>2, <2>3 DEF Taking
<1>7. Release => Releasing
  BY <1>1, ReleaseTraced DEF Release, Releasing
<1>8. Close => Closing
  <2> SUFFICES ASSUME Close PROVE Closing
    OBVIOUS
  <2>1. UNCHANGED <<pool, held, delivered, accepted, lost>> /\ rx_open /\ rx_open' = FALSE
    BY DEF Close
  <2>2. Traced' /\ InWait' = InWait
    BY <1>2, <2>1, SameTrace
  <2>3. Viewing' = Viewing
    BY <2>1 DEF Viewing
  <2> QED  BY <2>1, <2>2, <2>3 DEF Closing
<1>9. UNCHANGED vars => UNCHANGED <<pool, held, delivered, accepted, lost, rx_open>>
  BY DEF vars
<1> QED  BY <1>1, <1>3, <1>4, <1>5, <1>6, <1>7, <1>8, <1>9, PullOkPath, PollTextPath, PollSendPath
         DEF Next, Poll

LEMMA TracedHolds == Spec => [](Stocked /\ Traced)
<1>1. Traced /\ Stocked /\ [Next]_vars => Traced'
  BY NextPath DEF Untouched, Accepting, Losing, Taking, Releasing, Closing
<1> QED  BY <1>1, InitTraced, InitStocked, NextStocked, PTL DEF Spec

-----------------------------------------------------------------------------
(* What the runs check.                                                    *)

\* A depth that was taken in is never dropped while the reader is there and
\* never viewed twice: poll_next gives a slot up only when the channel is
\* closed, and a slot that is used again holds a depth with a new number.
THEOREM NoDepthLost == Spec => []DepthsConserved
<1>1. ASSUME Stocked, Traced PROVE DepthsConserved
  <2>1. PICK waiting : waiting = DOMAIN pool \ {held}
    OBVIOUS
  <2>2. PICK n \in Nat : n = Len(delivered) /\ DOMAIN delivered = 1 .. n
    BY <1>1, LenProperties DEF Traced
  <2>3. {delivered[i] : i \in DOMAIN delivered} = Entries(delivered)
    BY <2>2 DEF Entries
  <2>4. Cardinality(InWait) = Cardinality(waiting)
    <3>1. IsFiniteSet(waiting)
      <4>1. PoolCap \in Nat
        BY StreamAssumption DEF PoolCap
      <4>2. IsFiniteSet(Slots)
        <5>1. PICK R : R = 1 .. PoolCap
          OBVIOUS
        <5>2. IsFiniteSet(R) /\ IsFiniteSet(Exchanges)
          BY <4>1, <5>1, StreamAssumption, FS_Interval
        <5>3. IsFiniteSet(Exchanges \X R)
          BY <5>2, FS_Product
        <5> QED  BY <5>1, <5>3 DEF Slots
      <4>3. waiting \subseteq Slots
        BY <1>1, <2>1 DEF Stocked, Stock, Channelled
      <4> QED  BY <4>2, <4>3, FS_Subset
    <3>2. PICK f : f = [s \in waiting |-> pool[s]]
      OBVIOUS
    <3>3. f \in Bijection(waiting, InWait)
      <4>1. f \in [waiting -> InWait]
        BY <2>1, <3>2 DEF InWait
      <4>2. \A s, r \in waiting : f[s] = f[r] => s = r
        BY <1>1, <2>1, <3>2 DEF Traced
      <4>3. \A d \in InWait : \E s \in waiting : f[s] = d
        BY <2>1, <3>2 DEF InWait
      <4> QED  BY <4>1, <4>2, <4>3 DEF Bijection, Injection, Surjection, IsInjective
    <3> QED  BY <3>1, <3>3, FS_Bijection DEF ExistsBijection
  <2>5. Cardinality(Entries(delivered)) = n
    <3>1. IsFiniteSet(1 .. n) /\ Cardinality(1 .. n) = n
      BY FS_Interval
    <3>2. delivered \in Bijection(1 .. n, Entries(delivered))
      <4>1. delivered \in [1 .. n -> Entries(delivered)]
        BY <1>1, <2>2, LenProperties DEF Traced, Entries
      <4>2. \A i, j \in 1 .. n : delivered[i] = delivered[j] => i = j
        BY <1>1, <2>2 DEF Traced, Once
      <4>3. \A d \in Entries(delivered) : \E i \in 1 .. n : delivered[i] = d
        BY <2>2 DEF Entries
      <4> QED  BY <4>1, <4>2, <4>3 DEF Bijection, Injection, Surjection, IsInjective
    <3> QED  BY <3>1, <3>2, FS_Bijection DEF ExistsBijection
  <2>6. {pool[s] : s \in DOMAIN pool \ {held}} = InWait
    BY DEF InWait
  <2> QED  BY <1>1, <2>1, <2>2, <2>3, <2>4, <2>5, <2>6 DEF DepthsConserved, Traced
<1> QED  BY <1>1, TracedHolds, PTL

\* The pools, the streams' arrays and the channel are together the path that
\* DepthPath describes: every step of the code accepts depths, gives one up,
\* shows one to the reader, is done with it, closes, or changes nothing there.
THEOREM StreamImplementsPath == Spec => Refinement
<1>1. Init => Path!Init
  <2> SUFFICES ASSUME Init PROVE Path!Init
    OBVIOUS
  <2>1. DOMAIN pool = {}
    <3>1. pool = <<>> /\ 1 .. 0 = {}
      BY DEF Init
    <3> QED  BY <3>1, EmptySeq
  <2>2. {pool[s] : s \in DOMAIN pool \ {held}} = {} /\ {pool[s] : s \in {held} \ {NoSlot}} = {}
    BY <2>1 DEF Init
  <2> QED  BY <2>2 DEF Init, Path!Init
<1>2. ASSUME Stocked, Traced, [Next]_vars
      PROVE  [Path!Next]_(Path!path)
  <2> DEFINE W == {pool[s] : s \in DOMAIN pool \ {held}}
             V == {pool[s] : s \in {held} \ {NoSlot}}
  <2>1. W = InWait /\ W' = InWait' /\ V = Viewing /\ V' = Viewing'
    BY DEF InWait, Viewing
  <2>2. CASE Untouched
    <3>1. UNCHANGED Path!path
      BY <2>1, <2>2 DEF Untouched, Path!path
    <3> QED  BY <3>1
  <2>3. CASE Accepting
    <3>1. Path!Seen = accepted
      BY <1>2, <2>1, LenProperties DEF Path!Seen, Traced, Entries
    <3>2. Path!Accept
      BY <2>1, <2>3, <3>1 DEF Accepting, Path!Accept
    <3> QED  BY <3>2 DEF Path!Next
  <2>4. CASE Losing
    <3>1. \E d \in W : Path!Lose(d)
      BY <1>2, <2>1, <2>4 DEF Losing, Path!Lose
    <3> QED  BY <3>1 DEF Path!Next
  <2>5. CASE Taking
    <3>1. \E d \in W : Path!View(d)
      BY <1>2, <2>1, <2>5 DEF Taking, Path!View
    <3> QED  BY <3>1 DEF Path!Next
  <2>6. CASE Releasing
    <3>1. Path!Done
      BY <2>1, <2>6 DEF Releasing, Path!Done
    <3> QED  BY <3>1 DEF Path!Next
  <2>7. CASE Closing
    <3>1. Path!Close
      BY <2>1, <2>7 DEF Closing, Path!Close
    <3> QED  BY <3>1 DEF Path!Next
  <2> QED  BY <1>2, <2>2, <2>3, <2>4, <2>5, <2>6, <2>7, NextPath
<1> QED  BY <1>1, <1>2, TracedHolds, PTL DEF Spec, Refinement, Path!Spec

-----------------------------------------------------------------------------
(* The order in which depths are sent.  What matters of an exchange are    *)
(* three sequences of depths: what was sent, what is in its buffer, whose  *)
(* top is sent next, and what is left of the snapshot it takes over.       *)

\* The depths in the slots of q, where pl is the pool.
DepthsAt(pl, q) == [i \in 1 .. Len(q) |-> pl[q[i]]]

\* x is a websocket depth read while the snapshot that y is of was taken over.
HeldAt(x, y) ==
  x.of.src = "held" /\ y.of.src = "snap" /\ x.of.ex = y.of.ex /\ x.of.pull = y.of.n

\* d is of snapshot p of e.
OfSnap(d, e, p) == d.of.ex = e /\ d.of.src = "snap" /\ d.of.n = p

\* Where e is in the loop over a snapshot: run_with_snapshot pushes the depths
\* on the buffer, run_snapshot puts them aside.
Place(e) ==
  CASE call[e] = "run_with_snapshot" -> pc[e]
    [] call[e] = "run_snapshot" ->
         IF pc[e] \in {"iter", "send", "read"} THEN "aside" ELSE pc[e]
    [] OTHER -> "out"
Loop == {"iter", "send", "read"}

Gate == IF rx_open /\ Len(channel) = ChannelCap THEN "full" ELSE "free"

\* Of e: S was sent, b are the n depths in its buffer, w the m that are left of
\* snapshot p.  Held depths lie below those of the snapshot, which are pushed
\* and sent one by one in their order; if the channel is found full they pile
\* up, and nothing is read until the loop has ended.
Layered(e, S, b, n, w, m, at, gate, p, late) ==
  /\ n \in Nat /\ \A j \in 1 .. n : b[j].of.ex = e /\ b[j].i \in Nat
  /\ m \in Nat /\ \A j \in 1 .. m : OfSnap(w[j], e, p) /\ w[j].i \in Nat
  /\ m > 0 => at \in Loop \cup {"aside", "panicked"}
  /\ \A i, j \in 1 .. n : HeldAt(b[i], b[j]) => i < j
  /\ \A i \in DOMAIN S, j \in 1 .. n : ~HeldAt(S[i], b[j])
  /\ at \in Loop => \A i \in DOMAIN S, j \in 1 .. m : ~HeldAt(S[i], w[j])
  /\ \A j \in 1 .. n : OfSnap(b[j], e, p) =>
       /\ at \notin {"read", "aside"}
       /\ at = "iter" => gate = "full"
       /\ at = "send" => gate = "full" \/ j = n
  /\ \A i, j \in 1 .. m : i < j => w[i].i < w[j].i
  /\ \A i \in DOMAIN S, j \in 1 .. m : OfSnap(S[i], e, p) => S[i].i < w[j].i
  /\ at = "send" =>
       /\ n > 0 /\ OfSnap(b[n], e, p)
       /\ \A i \in DOMAIN S : OfSnap(S[i], e, p) => S[i].i < b[n].i
       /\ \A j \in 1 .. m : b[n].i < w[j].i
  /\ e \notin late => \A j \in 1 .. n : b[j].of.src = "snap" => at = "send" /\ j = n

LayeredIn(e) ==
  Layered(e, Sent, DepthsAt(pool, buffer[e]), Len(buffer[e]),
          DepthsAt(pool, snapshot[e]), Len(snapshot[e]), Place(e), Gate, pulls[e], refused)

\* Depths are numbered in their payload, and marked with the last snapshot.
Dated(d) ==
  /\ d.i \in Nat
  /\ d.of.src = "held" => d.of.pull \in Nat /\ d.of.pull <= pulls[d.of.ex]

\* SnapshotBeforeHeld and SnapshotInOrder of a sequence of depths.
HeldLast(S) == \A i, j \in DOMAIN S : HeldAt(S[i], S[j]) => j < i
BookOrder(S, late) ==
  \A i, j \in DOMAIN S :
    /\ S[i].of.src = "snap" /\ S[i].of.ex \notin late
    /\ S[j].of = S[i].of /\ S[i].i < S[j].i
    => i < j

Stamped ==
  /\ \A d \in accepted : Dated(d)
  /\ \A s \in DOMAIN pool : pool[s].of.ex = s[1]

Sequenced ==
  /\ \A e \in Exchanges : LayeredIn(e)
  /\ HeldLast(Sent) /\ BookOrder(Sent, refused)

\* The task of the exchange goes elsewhere without sending, or a buffered depth
\* is no longer about to be sent.
LEMMA LayersLeave ==
  ASSUME NEW e, NEW S, NEW b, NEW n, NEW w, NEW m, NEW at, NEW gate, NEW p, NEW late,
         Layered(e, S, b, n, w, m, at, gate, p, late),
         NEW at2, at # "send", at2 \notin Loop \cup {"aside"}, m > 0 => at2 = "panicked",
         NEW gate2
  PROVE  Layered(e, S, b, n, w, m, at2, gate2, p, late)
BY DEF Layered, Loop

\* A poll of the loop has read what there was.
LEMMA LayersRead ==
  ASSUME NEW e, NEW S, NEW b, NEW n, NEW w, NEW m, NEW gate, NEW p, NEW late,
         Layered(e, S, b, n, w, m, "read", gate, p, late)
  PROVE  Layered(e, S, b, n, w, m, "iter", gate, p, late)
BY DEF Layered, Loop

\* The channel was found full.
LEMMA LayersRefused ==
  ASSUME NEW e, NEW S, NEW b, NEW n, NEW w, NEW m, NEW at, NEW p, NEW late,
         Layered(e, S, b, n, w, m, at, "full", p, late),
         NEW at2, (at = "send" /\ at2 = "iter") \/ (at \in {"aside", "out"} /\ at2 = at)
  PROVE  Layered(e, S, b, n, w, m, at2, "full", p, late \cup {e})
BY DEF Layered, Loop

\* Another exchange finds the channel full.
LEMMA LayersLate ==
  ASSUME NEW e, NEW S, NEW b, NEW n, NEW w, NEW m, NEW at, NEW gate, NEW p, NEW late,
         Layered(e, S, b, n, w, m, at, gate, p, late),
         NEW late2, late \subseteq late2
  PROVE  Layered(e, S, b, n, w, m, at, gate, p, late2)
BY DEF Layered

\* Another exchange sends x.
LEMMA LayersApart ==
  ASSUME NEW e, NEW S, NEW b, NEW n, NEW w, NEW m, NEW at, NEW gate, NEW p, NEW late,
         Layered(e, S, b, n, w, m, at, gate, p, late),
         NEW k \in Nat, DOMAIN S = 1 .. k,
         NEW S2, DOMAIN S2 = 1 .. k + 1, \A i \in 1 .. k : S2[i] = S[i], S2[k + 1].of.ex # e,
         NEW gate2, gate # "full"
  PROVE  Layered(e, S2, b, n, w, m, at, gate2, p, late)
<1>1. \A i \in DOMAIN S2 : (i \in DOMAIN S /\ S2[i] = S[i]) \/ S2[i].of.ex # e
  OBVIOUS
<1>2. n \in Nat /\ m \in Nat /\ \A j \in 1 .. n : b[j].of.ex = e
  BY DEF Layered
<1>3. \A j \in 1 .. m : w[j].of.ex = e
  BY DEF Layered, OfSnap
<1>4. \A i \in DOMAIN S2, j \in 1 .. n : ~HeldAt(S2[i], b[j])
  <2>1. \A i \in DOMAIN S, j \in 1 .. n : ~HeldAt(S[i], b[j])
    BY DEF Layered
  <2> QED  BY <1>1, <1>2, <2>1 DEF HeldAt
<1>5. at \in Loop => \A i \in DOMAIN S2, j \in 1 .. m : ~HeldAt(S2[i], w[j])
  <2>1. at \in Loop => \A i \in DOMAIN S, j \in 1 .. m : ~HeldAt(S[i], w[j])
    BY DEF Layered
  <2> QED  BY <1>1, <1>3, <2>1 DEF HeldAt
<1>6. \A i \in DOMAIN S2 : OfSnap(S2[i], e, p) => i \in DOMAIN S /\ S2[i] = S[i]
  BY <1>1 DEF OfSnap
<1>7. \A i \in DOMAIN S2, j \in 1 .. m : OfSnap(S2[i], e, p) => S2[i].i < w[j].i
  BY <1>6 DEF Layered
<1>8. at = "send" => \A i \in DOMAIN S2 : OfSnap(S2[i], e, p) => S2[i].i < b[n].i
  BY <1>6 DEF Layered
<1> QED  BY <1>4, <1>5, <1>7, <1>8 DEF Layered

\* What is left of w without its head.
LEMMA LayersTail ==
  ASSUME NEW e, NEW S, NEW b, NEW n, NEW w, NEW m, NEW at, NEW gate, NEW p, NEW late,
         Layered(e, S, b, n, w, m, at, gate, p, late), m > 0,
         NEW w2, \A i \in 1 .. m - 1 : w2[i] = w[i + 1]
  PROVE  /\ m - 1 \in Nat /\ 1 \in 1 .. m
         /\ \A j \in 1 .. m - 1 : OfSnap(w2[j], e, p) /\ w2[j].i \in Nat /\ w[1].i < w2[j].i
         /\ at \in Loop => \A i \in DOMAIN S, j \in 1 .. m - 1 : ~HeldAt(S[i], w2[j])
         /\ \A i, j \in 1 .. m - 1 : i < j => w2[i].i < w2[j].i
         /\ \A i \in DOMAIN S, j \in 1 .. m - 1 : OfSnap(S[i], e, p) => S[i].i < w2[j].i
<1>1. m \in Nat /\ 1 \in 1 .. m /\ m - 1 \in Nat
  BY DEF Layered
<1>2. \A i \in 1 .. m - 1 : i + 1 \in 1 .. m /\ 1 < i + 1 /\ w2[i] = w[i + 1]
  BY <1>1
<1>3. \A i, j \in 1 .. m : i < j => w[i].i < w[j].i
  BY DEF Layered
<1>4. \A i, j \in 1 .. m - 1 : i < j => w2[i].i < w2[j].i
  <2> SUFFICES ASSUME NEW i \in 1 .. m - 1, NEW j \in 1 .. m - 1, i < j
               PROVE  w2[i].i < w2[j].i
    OBVIOUS
  <2>1. i + 1 \in 1 .. m /\ j + 1 \in 1 .. m /\ i + 1 < j + 1
    BY <1>1
  <2> QED  BY <1>2, <1>3, <2>1
<1>5. \A j \in 1 .. m - 1 : OfSnap(w2[j], e, p) /\ w2[j].i \in Nat
  BY <1>2 DEF Layered
<1>6. \A j \in 1 .. m - 1 : w[1].i < w2[j].i
  BY <1>1, <1>2, <1>3
<1>7. at \in Loop => \A i \in DOMAIN S, j \in 1 .. m - 1 : ~HeldAt(S[i], w2[j])
  BY <1>2 DEF Layered
<1>8. \A i \in DOMAIN S, j \in 1 .. m - 1 : OfSnap(S[i], e, p) => S[i].i < w2[j].i
  BY <1>2 DEF Layered
<1> QED  BY <1>1, <1>4, <1>5, <1>6, <1>7, <1>8

\* run_snapshot puts the head of the snapshot aside.
LEMMA LayersAside ==
  ASSUME NEW e, NEW S, NEW b, NEW n, NEW w, NEW m, NEW gate, NEW p, NEW late,
         Layered(e, S, b, n, w, m, "aside", gate, p, late), m > 0,
         NEW w2, \A i \in 1 .. m - 1 : w2[i] = w[i + 1]
  PROVE  Layered(e, S, b, n, w2, m - 1, "aside", gate, p, late)
BY LayersTail DEF Layered, Loop

\* The head of the snapshot is pushed, by run_with_snapshot on the buffer.
LEMMA LayersPush ==
  ASSUME NEW e, NEW S, NEW b, NEW n, NEW w, NEW m, NEW gate, NEW p, NEW late,
         Layered(e, S, b, n, w, m, "iter", gate, p, late), m > 0,
         NEW b2, \A i \in 1 .. n : b2[i] = b[i], b2[n + 1] = w[1],
         NEW w2, \A i \in 1 .. m - 1 : w2[i] = w[i + 1]
  PROVE  Layered(e, S, b2, n + 1, w2, m - 1, "send", gate, p, late)
<1>1. n \in Nat /\ n + 1 \in Nat /\ n + 1 > 0 /\ m \in Nat /\ 1 \in 1 .. m
  BY DEF Layered
<1>2. \A i \in 1 .. n + 1 : i = n + 1 \/ (i \in 1 .. n /\ i < n + 1 /\ b2[i] = b[i])
  BY <1>1
<1>3. OfSnap(w[1], e, p) /\ w[1].i \in Nat
  BY <1>1 DEF Layered
<1>4. \A x : ~HeldAt(w[1], x)
  BY <1>3 DEF HeldAt, OfSnap
<1>5. /\ \A i \in DOMAIN S : ~HeldAt(S[i], w[1])
      /\ \A i \in DOMAIN S : OfSnap(S[i], e, p) => S[i].i < w[1].i
  BY <1>1 DEF Layered, Loop
<1>6. \A j \in 1 .. n + 1 : b2[j].of.ex = e /\ b2[j].i \in Nat
  BY <1>2, <1>3 DEF Layered, OfSnap
<1>7. \A i, j \in 1 .. n + 1 : HeldAt(b2[i], b2[j]) => i < j
  <2>1. \A i, j \in 1 .. n : HeldAt(b[i], b[j]) => i < j
    BY DEF Layered
  <2> QED  BY <1>2, <1>4, <2>1
<1>8. \A i \in DOMAIN S, j \in 1 .. n + 1 : ~HeldAt(S[i], b2[j])
  BY <1>2, <1>5 DEF Layered
<1>9. \A j \in 1 .. n + 1 : OfSnap(b2[j], e, p) => gate = "full" \/ j = n + 1
  BY <1>2 DEF Layered
<1>10. e \notin late => \A j \in 1 .. n + 1 : b2[j].of.src = "snap" => j = n + 1
  BY <1>2 DEF Layered
<1>11. PICK c, h : c = n + 1 /\ h = m - 1
  OBVIOUS
<1>12. /\ h \in Nat
       /\ \A j \in 1 .. h : OfSnap(w2[j], e, p) /\ w2[j].i \in Nat /\ w[1].i < w2[j].i
       /\ \A i \in DOMAIN S, j \in 1 .. h : ~HeldAt(S[i], w2[j])
       /\ \A i, j \in 1 .. h : i < j => w2[i].i < w2[j].i
       /\ \A i \in DOMAIN S, j \in 1 .. h : OfSnap(S[i], e, p) => S[i].i < w2[j].i
  <2>1. "iter" \in Loop
    BY DEF Loop
  <2> QED  BY <2>1, <1>11, LayersTail
<1>13. Layered(e, S, b2, c, w2, h, "send", gate, p, late)
  <2>1. "send" \in Loop /\ "send" # "iter" /\ "send" \notin {"read", "aside"} /\ b2[c] = w[1]
    BY <1>11 DEF Loop
  <2>2. /\ c \in Nat /\ \A j \in 1 .. c : b2[j].of.ex = e /\ b2[j].i \in Nat
        /\ \A i, j \in 1 .. c : HeldAt(b2[i], b2[j]) => i < j
        /\ \A i \in DOMAIN S, j \in 1 .. c : ~HeldAt(S[i], b2[j])
    BY <1>1, <1>6, <1>7, <1>8, <1>11
  <2>3. \A j \in 1 .. c : OfSnap(b2[j], e, p) => gate = "full" \/ j = c
    BY <1>9, <1>11
  <2>4. /\ c > 0 /\ OfSnap(b2[c], e, p)
        /\ \A i \in DOMAIN S : OfSnap(S[i], e, p) => S[i].i < b2[c].i
        /\ \A j \in 1 .. h : b2[c].i < w2[j].i
    BY <1>1, <1>3, <1>5, <1>11, <1>12, <2>1
  <2>5. e \notin late => \A j \in 1 .. c : b2[j].of.src = "snap" => j = c
    BY <1>10, <1>11
  <2> QED  BY <1>12, <2>1, <2>2, <2>3, <2>4, <2>5 DEF Layered
<1> QED  BY <1>11, <1>13

\* S2 is S, which holds elements of T, and then d.
Longer(S, S2, T, d) ==
  \E k \in Nat : /\ DOMAIN S = 1 .. k /\ DOMAIN S2 = 1 .. k + 1
                 /\ \A i \in 1 .. k : S2[i] = S[i] /\ S[i] \in T
                 /\ S2[k + 1] = d

\* The top of the buffer is sent.
LEMMA LayersSend ==
  ASSUME NEW e, NEW S, NEW b, NEW n, NEW w, NEW m, NEW at, NEW gate, NEW p, NEW late,
         Layered(e, S, b, n, w, m, at, gate, p, late), n > 0, gate # "full",
         NEW S2, NEW T, Longer(S, S2, T, b[n]),
         NEW b2, \A i \in 1 .. n - 1 : b2[i] = b[i],
         NEW at2, (at = "send" /\ at2 = "read") \/ (at \in {"aside", "out"} /\ at2 = at),
         NEW gate2
  PROVE  Layered(e, S2, b2, n - 1, w, m, at2, gate2, p, late)
<1>1. n \in Nat /\ n \in 1 .. n /\ m \in Nat
  BY DEF Layered
<1>2. PICK c : c = n - 1
  OBVIOUS
<1>3. c \in Nat /\ \A i \in 1 .. c : i \in 1 .. n /\ i < n /\ i # n /\ b2[i] = b[i]
  BY <1>1, <1>2
<1>4. \A i \in DOMAIN S2 : (i \in DOMAIN S /\ S2[i] = S[i]) \/ S2[i] = b[n]
  BY DEF Longer
<1>5. \A j \in 1 .. c : b2[j].of.ex = e /\ b2[j].i \in Nat
  BY <1>3 DEF Layered
<1>6. \A i, j \in 1 .. c : HeldAt(b2[i], b2[j]) => i < j
  BY <1>3 DEF Layered
<1>7. \A j \in 1 .. c : ~HeldAt(b[n], b[j])
  <2>1. \A i, j \in 1 .. n : HeldAt(b[i], b[j]) => i < j
    BY DEF Layered
  <2> SUFFICES ASSUME NEW j \in 1 .. c, HeldAt(b[n], b[j]) PROVE FALSE
    OBVIOUS
  <2>2. n < j /\ j < n /\ j \in Int /\ n \in Int
    BY <1>1, <1>3, <2>1
  <2> QED  BY <2>2
<1>8. \A i \in DOMAIN S2, j \in 1 .. c : ~HeldAt(S2[i], b2[j])
  <2>1. \A i \in DOMAIN S, j \in 1 .. n : ~HeldAt(S[i], b[j])
    BY DEF Layered
  <2> QED  BY <1>3, <1>4, <1>7, <2>1
<1>9. at = "send" => OfSnap(b[n], e, p) /\ \A j \in 1 .. m : b[n].i < w[j].i
  BY DEF Layered
<1>10. at2 \in Loop => \A i \in DOMAIN S2, j \in 1 .. m : ~HeldAt(S2[i], w[j])
  <2> SUFFICES ASSUME at2 \in Loop PROVE \A i \in DOMAIN S2, j \in 1 .. m : ~HeldAt(S2[i], w[j])
    OBVIOUS
  <2>1. at = "send" /\ at \in Loop
    BY DEF Loop
  <2>2. \A i \in DOMAIN S, j \in 1 .. m : ~HeldAt(S[i], w[j])
    BY <2>1 DEF Layered
  <2>3. \A x : ~HeldAt(b[n], x)
    BY <1>9, <2>1 DEF HeldAt, OfSnap
  <2> QED  BY <1>4, <2>2, <2>3
<1>11. \A j \in 1 .. c : OfSnap(b2[j], e, p) => at2 = "out"
  <2> SUFFICES ASSUME NEW j \in 1 .. c, OfSnap(b2[j], e, p) PROVE at2 = "out"
    OBVIOUS
  <2>1. j \in 1 .. n /\ j # n /\ OfSnap(b[j], e, p)
    BY <1>3
  <2>2. at \notin {"read", "aside"} /\ (at = "send" => gate = "full" \/ j = n)
    BY <2>1 DEF Layered
  <2> QED  BY <2>1, <2>2
<1>12. \A i \in DOMAIN S2, j \in 1 .. m : OfSnap(S2[i], e, p) => S2[i].i < w[j].i
  <2>1. \A i \in DOMAIN S, j \in 1 .. m : OfSnap(S[i], e, p) => S[i].i < w[j].i
    BY DEF Layered
  <2>2. CASE at = "send"
    BY <1>4, <1>9, <2>1, <2>2
  <2>3. CASE at = "aside"
    <3>1. ~OfSnap(b[n], e, p)
      BY <1>1, <2>3 DEF Layered
    <3> QED  BY <1>4, <2>1, <3>1
  <2>4. CASE at = "out"
    <3>1. ~(m > 0)
      BY <2>4 DEF Layered, Loop
    <3>2. \A j \in 1 .. m : FALSE
      BY <1>1, <3>1
    <3> QED  BY <3>2
  <2> QED  BY <2>2, <2>3, <2>4
<1>13. e \notin late => \A j \in 1 .. c : b2[j].of.src # "snap"
  BY <1>3 DEF Layered
<1>14. m > 0 => at2 \in Loop \cup {"aside", "panicked"}
  BY DEF Layered, Loop
<1>15. Layered(e, S2, b2, c, w, m, at2, gate2, p, late)
  <2>1. at2 \notin {"send", "iter"}
    OBVIOUS
  <2>2. \A j \in 1 .. c : OfSnap(b2[j], e, p) => at2 \notin {"read", "aside"}
    BY <1>11
  <2>3. /\ \A j \in 1 .. m : OfSnap(w[j], e, p) /\ w[j].i \in Nat
        /\ \A i, j \in 1 .. m : i < j => w[i].i < w[j].i
    BY DEF Layered
  <2> QED  BY <1>1, <1>3, <1>5, <1>6, <1>8, <1>10, <1>12, <1>13, <1>14, <2>1, <2>2, <2>3 DEF Layered
<1> QED  BY <1>2, <1>15

\* The top of the buffer is released, as nobody receives any more.
LEMMA LayersDrop ==
  ASSUME NEW e, NEW S, NEW b, NEW n, NEW w, NEW m, NEW at, NEW gate, NEW p, NEW late,
         Layered(e, S, b, n, w, m, at, gate, p, late), n > 0, gate # "full",
         NEW b2, \A i \in 1 .. n - 1 : b2[i] = b[i],
         NEW at2, (at = "send" /\ at2 = "iter") \/ (at \in {"aside", "out"} /\ at2 = at)
  PROVE  Layered(e, S, b2, n - 1, w, m, at2, gate, p, late)
<1>1. n \in Nat /\ n \in 1 .. n /\ m \in Nat
  BY DEF Layered
<1>2. PICK c : c = n - 1
  OBVIOUS
<1>3. c \in Nat /\ \A i \in 1 .. c : i \in 1 .. n /\ i < n /\ i # n /\ b2[i] = b[i]
  BY <1>1, <1>2
<1>4. \A j \in 1 .. c : b2[j].of.ex = e /\ b2[j].i \in Nat
  BY <1>3 DEF Layered
<1>5. \A i, j \in 1 .. c : HeldAt(b2[i], b2[j]) => i < j
  BY <1>3 DEF Layered
<1>6. \A i \in DOMAIN S, j \in 1 .. c : ~HeldAt(S[i], b2[j])
  BY <1>3 DEF Layered
<1>7. at2 \in Loop => \A i \in DOMAIN S, j \in 1 .. m : ~HeldAt(S[i], w[j])
  BY DEF Layered, Loop
<1>8. \A j \in 1 .. c : OfSnap(b2[j], e, p) => at2 = "out"
  <2> SUFFICES ASSUME NEW j \in 1 .. c, OfSnap(b2[j], e, p) PROVE at2 = "out"
    OBVIOUS
  <2>1. j \in 1 .. n /\ j # n /\ OfSnap(b[j], e, p)
    BY <1>3
  <2>2. at \notin {"read", "aside"} /\ (at = "send" => gate = "full" \/ j = n)
    BY <2>1 DEF Layered
  <2> QED  BY <2>1, <2>2
<1>9. e \notin late => \A j \in 1 .. c : b2[j].of.src # "snap"
  BY <1>3 DEF Layered
<1>10. m > 0 => at2 \in Loop \cup {"aside", "panicked"}
  BY DEF Layered, Loop
<1>11. Layered(e, S, b2, c, w, m, at2, gate, p, late)
  <2>1. at2 # "send"
    OBVIOUS
  <2>2. \A j \in 1 .. c : OfSnap(b2[j], e, p) => at2 \notin {"read", "aside", "iter"}
    BY <1>8
  <2>3. /\ \A j \in 1 .. m : OfSnap(w[j], e, p) /\ w[j].i \in Nat
        /\ \A i, j \in 1 .. m : i < j => w[i].i < w[j].i
        /\ \A i \in DOMAIN S, j \in 1 .. m : OfSnap(S[i], e, p) => S[i].i < w[j].i
    BY DEF Layered
  <2> QED  BY <1>1, <1>3, <1>4, <1>5, <1>6, <1>7, <1>9, <1>10, <2>1, <2>2, <2>3 DEF Layered
<1> QED  BY <1>2, <1>11

\* Depths of a text are put on the buffer; they are held depths in the loop.
LEMMA LayersText ==
  ASSUME NEW e, NEW S, NEW b, NEW n, NEW w, NEW m, NEW at, NEW gate, NEW p, NEW late,
         Layered(e, S, b, n, w, m, at, gate, p, late), at \in {"read", "aside", "out"},
         NEW k \in Nat, NEW b2, \A i \in 1 .. n : b2[i] = b[i],
         \A i \in n + 1 .. n + k :
           /\ b2[i].of.ex = e /\ b2[i].of.src # "snap" /\ b2[i].i \in Nat
           /\ b2[i].of.src = "held" => at # "out" /\ b2[i].of.pull = p
  PROVE  Layered(e, S, b2, n + k, w, m, at, gate, p, late)
<1>1. n \in Nat /\ m \in Nat
  BY DEF Layered
<1>2. PICK c : c = n + k
  OBVIOUS
<1>3. /\ c \in Nat
      /\ \A i \in 1 .. c : (i \in 1 .. n /\ b2[i] = b[i]) \/ (i \in n + 1 .. n + k /\ n < i)
  <2>1. \A i \in 1 .. c : i \in 1 .. n \/ (i \in n + 1 .. n + k /\ n < i)
    BY <1>1, <1>2
  <2> QED  BY <1>1, <1>2, <2>1
<1>4. \A j \in 1 .. c : b2[j].of.ex = e /\ b2[j].i \in Nat
  BY <1>3 DEF Layered
<1>5. \A j \in 1 .. c : b2[j].of.src = "snap" => j \in 1 .. n /\ b2[j] = b[j]
  BY <1>3
<1>6. \A i, j \in 1 .. c : HeldAt(b2[i], b2[j]) => i < j
  <2> SUFFICES ASSUME NEW i \in 1 .. c, NEW j \in 1 .. c, HeldAt(b2[i], b2[j]) PROVE i < j
    OBVIOUS
  <2>1. j \in 1 .. n /\ b2[j] = b[j]
    BY <1>5 DEF HeldAt
  <2>2. CASE i \in 1 .. n /\ b2[i] = b[i]
    BY <2>1, <2>2 DEF Layered
  <2>3. CASE i \in n + 1 .. n + k
    <3>1. at # "out" /\ OfSnap(b[j], e, p)
      BY <1>4, <2>1, <2>3 DEF HeldAt, OfSnap
    <3> QED  BY <2>1, <3>1 DEF Layered
  <2> QED  BY <1>3, <2>2, <2>3
<1>7. \A i \in DOMAIN S, j \in 1 .. c : ~HeldAt(S[i], b2[j])
  <2>1. \A i \in DOMAIN S, j \in 1 .. n : ~HeldAt(S[i], b[j])
    BY DEF Layered
  <2> QED  BY <1>5, <2>1 DEF HeldAt
<1>8. \A j \in 1 .. c : OfSnap(b2[j], e, p) => at \notin {"read", "aside"}
  BY <1>5 DEF Layered, OfSnap
<1>9. e \notin late => \A j \in 1 .. c : b2[j].of.src # "snap"
  BY <1>5 DEF Layered
<1>10. Layered(e, S, b2, c, w, m, at, gate, p, late)
  BY <1>3, <1>4, <1>6, <1>7, <1>8, <1>9 DEF Layered
<1> QED  BY <1>2, <1>10

\* A snapshot has been pulled, and is numbered one higher than the last.
LEMMA LayersPulled ==
  ASSUME NEW e, NEW S, NEW b, NEW n, NEW w, NEW m, NEW gate, NEW p \in Nat, NEW late,
         Layered(e, S, b, n, w, m, "pull", gate, p, late),
         NEW at2 \in {"iter", "aside"}, NEW k \in Nat,
         NEW w2, \A j \in 1 .. k : OfSnap(w2[j], e, p + 1) /\ w2[j].i = j,
         \A i \in DOMAIN S : S[i].of.src = "held" /\ S[i].of.ex = e => S[i].of.pull # p + 1,
         \A i \in DOMAIN S : ~OfSnap(S[i], e, p + 1),
         \A j \in 1 .. n : ~OfSnap(b[j], e, p + 1)
  PROVE  Layered(e, S, b, n, w2, k, at2, gate, p + 1, late)
<1>1. \A j \in 1 .. k : OfSnap(w2[j], e, p + 1) /\ w2[j].i \in Nat
  OBVIOUS
<1>2. \A i, j \in 1 .. k : i < j => w2[i].i < w2[j].i
  OBVIOUS
<1>3. \A i \in DOMAIN S, j \in 1 .. k : ~HeldAt(S[i], w2[j])
  BY DEF HeldAt, OfSnap
<1>4. e \notin late => \A j \in 1 .. n : b[j].of.src # "snap"
  BY DEF Layered
<1>5. /\ n \in Nat /\ \A j \in 1 .. n : b[j].of.ex = e /\ b[j].i \in Nat
      /\ \A i, j \in 1 .. n : HeldAt(b[i], b[j]) => i < j
      /\ \A i \in DOMAIN S, j \in 1 .. n : ~HeldAt(S[i], b[j])
  BY DEF Layered
<1> QED  BY <1>1, <1>2, <1>3, <1>4, <1>5 DEF Layered, Loop

\* What the top of a buffer is sent after.
LEMMA SentInOrder ==
  ASSUME NEW e, NEW S, NEW b, NEW n, NEW w, NEW m, NEW at, NEW gate, NEW p, NEW late,
         Layered(e, S, b, n, w, m, at, gate, p, late), n > 0,
         NEW S2, NEW T, Longer(S, S2, T, b[n]), \A d \in T : d.i \in Nat,
         HeldLast(S), BookOrder(S, late)
  PROVE  HeldLast(S2) /\ BookOrder(S2, late)
<1> PICK k \in Nat :
      /\ DOMAIN S = 1 .. k /\ DOMAIN S2 = 1 .. k + 1
      /\ \A i \in 1 .. k : S2[i] = S[i] /\ S[i] \in T
      /\ S2[k + 1] = b[n]
  BY DEF Longer
<1>1. n \in Nat /\ n \in 1 .. n
  BY DEF Layered
<1>2. \A i \in 1 .. k + 1 : \/ i \in 1 .. k /\ i < k + 1 /\ S2[i] = S[i]
                            \/ i = k + 1 /\ S2[i] = b[n]
  OBVIOUS
<1>3. HeldLast(S2)
  <2> SUFFICES ASSUME NEW i \in 1 .. k + 1, NEW j \in 1 .. k + 1, HeldAt(S2[i], S2[j])
               PROVE  j < i
    BY DEF HeldLast
  <2>1. CASE i \in 1 .. k /\ j \in 1 .. k
    BY <2>1, <1>2 DEF HeldLast
  <2>2. CASE i = k + 1 /\ j \in 1 .. k
    BY <2>2
  <2>3. CASE i \in 1 .. k /\ j = k + 1
    <3>1. ~HeldAt(S[i], b[n])
      BY <1>1, <2>3 DEF Layered
    <3> QED  BY <2>3, <3>1
  <2>4. CASE i = k + 1 /\ j = k + 1
    BY <2>4 DEF HeldAt
  <2> QED  BY <2>1, <2>2, <2>3, <2>4
<1>4. BookOrder(S2, late)
  <2> SUFFICES ASSUME NEW i \in 1 .. k + 1, NEW j \in 1 .. k + 1,
                      S2[i].of.src = "snap", S2[i].of.ex \notin late,
                      S2[j].of = S2[i].of, S2[i].i < S2[j].i
               PROVE  i < j
    BY DEF BookOrder
  <2>1. CASE i \in 1 .. k /\ j \in 1 .. k
    BY <2>1, <1>2 DEF BookOrder
  <2>2. CASE i \in 1 .. k /\ j = k + 1
    BY <2>2
  <2>3. CASE i = k + 1 /\ j \in 1 .. k
    <3>1. b[n].of.ex = e /\ e \notin late /\ b[n].of.src = "snap" /\ b[n].i \in Nat
      BY <1>1, <1>2, <2>3 DEF Layered
    <3>2. at = "send"
      BY <1>1, <3>1 DEF Layered
    <3>3. OfSnap(b[n], e, p)
      BY <3>2 DEF Layered
    <3>4. OfSnap(S[j], e, p) /\ S[j].i \in Nat
      BY <2>3, <3>3 DEF OfSnap
    <3>5. S[j].i < b[n].i
      BY <2>3, <3>2, <3>4 DEF Layered
    <3> QED  BY <2>3, <3>1, <3>4, <3>5
  <2>4. CASE i = k + 1 /\ j = k + 1
    <3>1. b[n].i \in Nat
      BY <1>1 DEF Layered
    <3> QED  BY <2>4, <3>1
  <2> QED  BY <2>1, <2>2, <2>3, <2>4
<1> QED  BY <1>3, <1>4

-----------------------------------------------------------------------------
(* What was sent: the depths viewed and those in the channel.              *)

Carried(dl, ch, pl) == dl \o [i \in DOMAIN ch |-> pl[ch[i]]]

\* S are the a depths of dl and then those in the c slots of ch.
Shaped(S, T, dl, ch, pl, a, c) ==
  /\ S \in [1 .. a + c -> T]
  /\ \A i \in 1 .. a : S[i] = dl[i]
  /\ \A i \in 1 .. c : S[a + i] = pl[ch[i]]

LEMMA CarriedShape ==
  ASSUME NEW T, NEW U, NEW dl \in Seq(T), NEW ch \in Seq(U), NEW pl,
         \A x \in Entries(ch) : pl[x] \in T,
         NEW a \in Nat, a = Len(dl), NEW c \in Nat, c = Len(ch)
  PROVE  Shaped(Carried(dl, ch, pl), T, dl, ch, pl, a, c)
<1>1. DOMAIN ch = 1 .. c
  BY LenProperties
<1>2. PICK u : u = [i \in 1 .. c |-> pl[ch[i]]]
  OBVIOUS
<1>3. u \in [1 .. c -> T]
  BY <1>2 DEF Entries
<1>4. u \in Seq(T) /\ Len(u) = c
  BY <1>3
<1>5. Carried(dl, ch, pl) = dl \o u
  BY <1>1, <1>2 DEF Carried
<1>6. PICK v : v = dl \o u
  OBVIOUS
<1>7. v \in Seq(T) /\ Len(v) = a + c /\ \A i \in 1 .. a + c : v[i] = IF i <= a THEN dl[i] ELSE u[i - a]
  <2>1. /\ dl \o u \in Seq(T) /\ Len(dl \o u) = Len(dl) + Len(u)
        /\ \A i \in 1 .. Len(dl) + Len(u) :
             (dl \o u)[i] = IF i <= Len(dl) THEN dl[i] ELSE u[i - Len(dl)]
    BY <1>4, ConcatProperties
  <2> QED  BY <2>1, <1>4, <1>6
<1>8. v \in [1 .. a + c -> T]
  BY <1>7, LenProperties
<1>9. \A i \in 1 .. a : i \in 1 .. a + c /\ i <= a
  OBVIOUS
<1>10. \A i \in 1 .. c : a + i \in 1 .. a + c /\ ~(a + i <= a) /\ (a + i) - a = i
  OBVIOUS
<1>11. ASSUME NEW i \in 1 .. c PROVE v[a + i] = pl[ch[i]]
  <2>1. PICK x \in 1 .. a + c : x = a + i /\ ~(x <= a) /\ x - a = i
    BY <1>10
  <2>2. v[x] = u[i]
    BY <1>7, <2>1
  <2> QED  BY <1>2, <2>1, <2>2
<1>12. \A i \in 1 .. a : v[i] = dl[i]
  BY <1>7, <1>9
<1> QED  BY <1>5, <1>6, <1>8, <1>11, <1>12 DEF Shaped

LEMMA CarriedSame ==
  ASSUME NEW U, NEW ch \in Seq(U), NEW dl, NEW pl, NEW pl2, \A x \in Entries(ch) : pl2[x] = pl[x]
  PROVE  Carried(dl, ch, pl2) = Carried(dl, ch, pl)
<1>1. PICK c \in Nat : c = Len(ch)
  BY LenProperties
<1>2. DOMAIN ch = 1 .. c /\ \A i \in 1 .. c : pl2[ch[i]] = pl[ch[i]]
  BY <1>1, LenProperties DEF Entries
<1>3. [i \in 1 .. c |-> pl2[ch[i]]] = [i \in 1 .. c |-> pl[ch[i]]]
  BY <1>2
<1> QED  BY <1>2, <1>3 DEF Carried

\* The reader takes the head of the channel.
LEMMA CarriedTaken ==
  ASSUME NEW T, NEW U, NEW dl \in Seq(T), NEW ch \in Seq(U), NEW pl, ch # <<>>,
         \A x \in Entries(ch) : pl[x] \in T, Once(ch)
  PROVE  Carried(Append(dl, pl[Head(ch)]), Tail(ch), pl) = Carried(dl, ch, pl)
<1>1. PICK a \in Nat, c \in Nat : a = Len(dl) /\ c = Len(ch)
  BY LenProperties
<1>2. PICK h, u, d, v : h = Head(ch) /\ u = Tail(ch) /\ d = pl[h] /\ v = Append(dl, d)
  OBVIOUS
<1>3. /\ h \in Entries(ch) /\ u \in Seq(U) /\ Len(u) = c - 1 /\ c # 0 /\ h = ch[1]
      /\ \A i \in 1 .. c - 1 : u[i] = ch[i + 1]
  <2>1. h \in Entries(ch) /\ u \in Seq(U) /\ Len(u) = c - 1 /\ \A i \in 1 .. Len(u) : u[i] = ch[i + 1]
    BY <1>1, <1>2, TailOnce, HeadTailProperties
  <2>2. c # 0 /\ h = ch[1]
    BY <1>1, <1>2, EmptySeq
  <2> QED  BY <2>1, <2>2
<1>4. d \in T
  BY <1>2, <1>3
<1>5. v \in Seq(T) /\ Len(v) = a + 1 /\ (\A i \in 1 .. a : v[i] = dl[i]) /\ v[a + 1] = d
  BY <1>1, <1>2, <1>4, AppendProperties
<1>6. \A x \in Entries(u) : pl[x] \in T
  BY <1>2, TailOnce
<1>7. PICK x, y : x = Carried(dl, ch, pl) /\ y = Carried(v, u, pl)
  OBVIOUS
<1>8. x \in [1 .. a + c -> T] /\ (\A i \in 1 .. a : x[i] = dl[i]) /\ \A i \in 1 .. c : x[a + i] = pl[ch[i]]
  <2>1. Shaped(x, T, dl, ch, pl, a, c)
    BY <1>1, <1>7, CarriedShape
  <2> QED  BY <2>1 DEF Shaped
<1>9. PICK b \in Nat, m \in Nat : b = a + 1 /\ m = c - 1
  BY <1>3
<1>10. y \in [1 .. b + m -> T] /\ (\A i \in 1 .. b : y[i] = v[i]) /\ \A i \in 1 .. m : y[b + i] = pl[u[i]]
  <2>1. b = Len(v) /\ m = Len(u)
    BY <1>3, <1>5, <1>9
  <2>2. Shaped(y, T, v, u, pl, b, m)
    BY <2>1, <1>3, <1>5, <1>6, <1>7, CarriedShape
  <2> QED  BY <2>2 DEF Shaped
<1>11. b + m = a + c
  BY <1>9
<1>12. ASSUME NEW i \in 1 .. a + c PROVE y[i] = x[i]
  <2>1. CASE i <= a
    BY <2>1, <1>5, <1>8, <1>9, <1>10
  <2>2. CASE i = a + 1
    <3>1. 1 \in 1 .. c /\ i \in 1 .. b
      BY <2>2, <1>3, <1>9
    <3>2. y[i] = d
      BY <2>2, <3>1, <1>5, <1>10
    <3>3. x[i] = pl[ch[1]]
      BY <2>2, <3>1, <1>8
    <3> QED  BY <3>2, <3>3, <1>2, <1>3
  <2>3. CASE a + 1 < i
    <3>1. PICK j \in 1 .. m : i = b + j
      <4>1. i - b \in 1 .. m /\ i = b + (i - b)
        BY <2>3, <1>9
      <4> QED  BY <4>1
    <3>2. j + 1 \in 1 .. c /\ i = a + (j + 1) /\ j \in 1 .. c - 1
      BY <3>1, <1>9
    <3>3. y[i] = pl[u[j]] /\ u[j] = ch[j + 1]
      BY <3>1, <3>2, <1>3, <1>10
    <3>4. x[i] = pl[ch[j + 1]]
      BY <3>2, <1>8
    <3> QED  BY <3>3, <3>4
  <2> QED  BY <2>1, <2>2, <2>3
<1>13. y = x
  BY <1>8, <1>10, <1>11, <1>12
<1> QED  BY <1>2, <1>7, <1>13

\* A slot is put in the channel.
LEMMA CarriedMore ==
  ASSUME NEW T, NEW U, NEW dl \in Seq(T), NEW ch \in Seq(U), NEW pl,
         \A x \in Entries(ch) : pl[x] \in T, Once(ch),
         NEW s \in U, pl[s] \in T, s \notin Entries(ch),
         NEW S, S = Carried(dl, ch, pl), NEW S2, S2 = Carried(dl, Append(ch, s), pl)
  PROVE  Longer(S, S2, T, pl[s])
<1>1. PICK a \in Nat, c \in Nat : a = Len(dl) /\ c = Len(ch)
  BY LenProperties
<1>2. PICK u : u = Append(ch, s)
  OBVIOUS
<1>3. u \in Seq(U) /\ Len(u) = c + 1 /\ (\A i \in 1 .. c : u[i] = ch[i]) /\ u[c + 1] = s
  BY <1>1, <1>2, AppendProperties
<1>4. \A x \in Entries(u) : pl[x] \in T
  BY <1>2, AppendOnce
<1>5. S \in [1 .. a + c -> T] /\ (\A i \in 1 .. a : S[i] = dl[i]) /\ \A i \in 1 .. c : S[a + i] = pl[ch[i]]
  <2>1. Shaped(S, T, dl, ch, pl, a, c)
    BY <1>1, CarriedShape
  <2> QED  BY <2>1 DEF Shaped
<1>6. PICK m \in Nat : m = c + 1
  OBVIOUS
<1>7. S2 \in [1 .. a + m -> T] /\ (\A i \in 1 .. a : S2[i] = dl[i]) /\ \A i \in 1 .. m : S2[a + i] = pl[u[i]]
  <2>1. Shaped(S2, T, dl, u, pl, a, m)
    BY <1>1, <1>2, <1>3, <1>4, <1>6, CarriedShape
  <2> QED  BY <2>1 DEF Shaped
<1>8. PICK k \in Nat : k = a + c
  OBVIOUS
<1>9. a + m = k + 1
  BY <1>6, <1>8
<1>10. ASSUME NEW i \in 1 .. k PROVE S2[i] = S[i] /\ S[i] \in T
  <2>1. CASE i <= a
    BY <2>1, <1>5, <1>7, <1>8
  <2>2. CASE a < i
    <3>1. PICK j \in 1 .. c : i = a + j
      <4>1. i - a \in 1 .. c /\ i = a + (i - a)
        BY <2>2, <1>8
      <4> QED  BY <4>1
    <3>2. j \in 1 .. m
      BY <1>6
    <3>3. S2[i] = pl[u[j]] /\ S[i] = pl[ch[j]]
      BY <3>1, <3>2, <1>5, <1>7
    <3>4. i \in 1 .. a + c
      BY <1>8
    <3> QED  BY <3>1, <3>3, <3>4, <1>3, <1>5
  <2> QED  BY <2>1, <2>2
<1>11. S2[k + 1] = pl[s]
  <2>1. m \in 1 .. m /\ a + m = k + 1
    BY <1>6, <1>9
  <2> QED  BY <2>1, <1>3, <1>6, <1>7
<1> QED  BY <1>5, <1>7, <1>8, <1>9, <1>10, <1>11 DEF Longer

-----------------------------------------------------------------------------
(* What the depths say of themselves.                                      *)

\* What was dated stays so.
LEMMA DatedStays ==
  ASSUME Counts, Counts', \A e \in Exchanges : pulls[e] <= pulls'[e]
  PROVE  \A d : Known(d) /\ Dated(d) => Dated(d)'
BY DEF Known, Dated, Counts

LEMMA InitStamped == Init => Stamped
<1> SUFFICES ASSUME Init PROVE Stamped
  OBVIOUS
<1>1. DOMAIN pool = {} /\ accepted = {}
  <2>1. pool = <<>> /\ accepted = {} /\ Len(<<>>) = 0 /\ 1 .. 0 = {}
    BY EmptySeq DEF Init
  <2> QED  BY <2>1, EmptySeq
<1> QED  BY <1>1 DEF Stamped

LEMMA IngestStamped ==
  ASSUME Stock, Traced, Stamped, NEW e \in Exchanges, NEW k \in Nat, NEW t \in Takings(e, k),
         NEW payload, Ingest(t, payload), held' = held, payload.ex = e
  PROVE  (\A d : Known(d) /\ Dated(d) => Dated(d)')
         /\ (payload.src = "held" => payload.pull \in Nat /\ payload.pull <= pulls'[e])
         => Stamped'
<1>1. PICK new : new = DepthsOf(payload, t)
  OBVIOUS
<1>2. Adds(t, payload, new)
  BY <1>1, IngestAdds
<1>3. /\ DOMAIN t = 1 .. k /\ Entries(t) \subseteq SlotsOf(e)
  BY TakingsFresh, EntriesType
<1>4. \A d \in new : d.of = payload /\ d.i \in Nat
  BY <1>1, <1>3 DEF DepthsOf, Entry
<1>5. \A s \in DOMAIN pool' : pool'[s].of.ex = s[1]
  <2>1. \A s \in Entries(t) : pool'[s].of.ex = e /\ s[1] = e
    BY <1>2, <1>3, <1>4 DEF Adds, SlotsOf
  <2> QED  BY <1>2, <2>1 DEF Adds, Stamped
<1> HAVE /\ \A d : Known(d) /\ Dated(d) => Dated(d)'
         /\ payload.src = "held" => payload.pull \in Nat /\ payload.pull <= pulls'[e]
<1>6. \A d \in new : Dated(d)'
  BY <1>4 DEF Dated
<1>7. \A d \in accepted : Dated(d)'
  BY DEF Traced, Stamped
<1>8. accepted' = accepted \cup new
  BY <1>2 DEF Adds
<1> QED  BY <1>5, <1>6, <1>7, <1>8 DEF Stamped

LEMMA NextStamped ==
  ASSUME Stocked, Traced, Stamped, [Next]_vars
  PROVE  Stamped'
<1>1. Counts /\ Counts' /\ Stock
  BY NextStocked DEF Stocked
<1>2. \A e \in Exchanges : pulls[e] <= pulls'[e]
  BY <1>1, CountsGrow
<1>3. \A d : Known(d) /\ Dated(d) => Dated(d)'
  BY <1>1, <1>2, DatedStays
<1>4. CASE accepted' = accepted /\ \E s : pool' = pool \/ pool' = Released(s)
  <2>1. \A s \in DOMAIN pool' : s \in DOMAIN pool /\ pool'[s] = pool[s]
    BY <1>4 DEF Released
  <2> QED  BY <1>3, <1>4, <2>1 DEF Stamped, Traced
<1>5. ASSUME NEW e \in Exchanges,
             Connect(e) \/ Run(e) \/ RunSnapshot(e) \/ RunWithSnapshot(e)
               \/ PushBufferedWsDepths(e) \/ Cancel(e) \/ PullErr(e) \/ PullPanic(e)
      PROVE  UNCHANGED <<pool, accepted>>
  BY <1>5 DEF Connect, Run, RunSnapshot, RunWithSnapshot, PushBufferedWsDepths, Cancel,
              PullErr, PullPanic
<1>6. ASSUME NEW e \in Exchanges, Iterate(e) \/ PollEnds(e) \/ PollSkips(e)
      PROVE  UNCHANGED <<pool, accepted>>
  BY <1>6 DEF Iterate, PollEnds, PollSkips
<1>7. ASSUME NEW e \in Exchanges, PollSend(e)
      PROVE  accepted' = accepted /\ (pool' = pool \/ pool' = Released(Top(e)))
  BY <1>7 DEF PollSend, PutBack
<1>8. Take \/ Release \/ Close \/ UNCHANGED vars
        => accepted' = accepted /\ (pool' = pool \/ pool' = Released(held))
  BY DEF Take, Release, Close, vars
<1>9. ASSUME NEW e \in Exchanges, PullOk(e) PROVE Stamped'
  <2>1. PICK k \in Sizes : \E t \in Takings(e, k) :
          Ingest(t, Payload(e, "snap", pulls[e] + 1, pulls[e] + 1))
    BY <1>9 DEF PullOk
  <2>2. PICK t \in Takings(e, k) : Ingest(t, Payload(e, "snap", pulls[e] + 1, pulls[e] + 1))
    BY <2>1
  <2>3. PICK payload : payload = Payload(e, "snap", pulls[e] + 1, pulls[e] + 1)
    OBVIOUS
  <2>4. k \in Nat /\ held' = held
    BY <1>9, StreamAssumption DEF PullOk, reader
  <2>5. payload.ex = e /\ payload.src = "snap"
    BY <2>3 DEF Payload
  <2>6. Ingest(t, payload)
    BY <2>2, <2>3
  <2> QED  BY <1>1, <1>3, <2>4, <2>5, <2>6, IngestStamped
<1>10. ASSUME NEW e \in Exchanges, PollText(e) PROVE Stamped'
  <2>1. CASE UNCHANGED <<pool, accepted>>
    BY <1>4, <2>1
  <2>2. CASE \E k \in Sizes : \E t \in Takings(e, k) : Ingest(t, Text(e))
    <3>1. PICK k \in Sizes : \E t \in Takings(e, k) : Ingest(t, Text(e))
      BY <2>2
    <3>2. PICK t \in Takings(e, k) : Ingest(t, Text(e))
      BY <3>1
    <3>3. PICK payload : payload = Text(e)
      OBVIOUS
    <3>4. k \in Nat /\ held' = held /\ pulls' = pulls
      BY <1>10, StreamAssumption DEF PollText, reader
    <3>5. payload.ex = e /\ payload.pull = pulls[e] /\ pulls[e] \in Nat /\ pulls'[e] = pulls[e]
      BY <1>1, <3>3, <3>4 DEF Text, Payload, Counts
    <3>6. Ingest(t, payload)
      BY <3>2, <3>3
    <3>7. payload.src = "held" => payload.pull \in Nat /\ payload.pull <= pulls'[e]
      BY <3>5
    <3> QED  BY <1>1, <1>3, <3>4, <3>5, <3>6, <3>7, IngestStamped
  <2> QED  BY <1>10, <2>1, <2>2 DEF PollText
<1> QED  BY <1>4, <1>5, <1>6, <1>7, <1>8, <1>9, <1>10 DEF Next, Poll

-----------------------------------------------------------------------------
(* What a step does to the order.                                          *)

LEMMA DepthsSame ==
  ASSUME NEW U, NEW q \in Seq(U), NEW pl, NEW pl2, \A s \in Entries(q) : pl2[s] = pl[s]
  PROVE  DepthsAt(pl2, q) = DepthsAt(pl, q)
<1>1. PICK c \in Nat : c = Len(q)
  BY LenProperties
<1>2. \A i \in 1 .. c : pl2[q[i]] = pl[q[i]]
  BY <1>1 DEF Entries
<1> QED  BY <1>1, <1>2 DEF DepthsAt

\* The task of f moves, or the channel fills or empties while it waits.
Moves(f) ==
  \/ Place(f)' = Place(f) /\ Gate' = Gate
  \/ /\ Place(f) # "send" /\ Place(f)' \notin Loop \cup {"aside"}
     /\ snapshot[f] # <<>> => Place(f)' = "panicked"
  \/ Place(f) = "read" /\ Place(f)' = "iter" /\ Gate' = Gate

LEMMA MovesKeep ==
  ASSUME Stock, NEW f \in Exchanges, LayeredIn(f), Moves(f), Sent' = Sent,
         buffer'[f] = buffer[f], snapshot'[f] = snapshot[f], pulls'[f] = pulls[f],
         refused \subseteq refused', \A s \in Kept(f) : pool'[s] = pool[s]
  PROVE  LayeredIn(f)'
<1>1. PICK q, r : q = buffer[f] /\ r = snapshot[f]
  OBVIOUS
<1>2. /\ q \in Seq(SlotsOf(f)) /\ r \in Seq(SlotsOf(f))
      /\ Entries(q) \subseteq Kept(f) /\ Entries(r) \subseteq Kept(f)
  BY <1>1 DEF Stock, Owned, Kept
<1>3. PICK b, w, n, m : /\ b = DepthsAt(pool, q) /\ n = Len(q)
                        /\ w = DepthsAt(pool, r) /\ m = Len(r)
  OBVIOUS
<1>4. DepthsAt(pool', q) = b
  BY <1>2, <1>3, DepthsSame
<1>5. DepthsAt(pool', r) = w
  BY <1>2, <1>3, DepthsSame
<1>6. PICK S, at, gate, p, late :
        S = Sent /\ at = Place(f) /\ gate = Gate /\ p = pulls[f] /\ late = refused
  OBVIOUS
<1>7. PICK at2, gate2, late2 : at2 = Place(f)' /\ gate2 = Gate' /\ late2 = refused'
  OBVIOUS
<1>8. Layered(f, S, b, n, w, m, at, gate, p, late)
  BY <1>1, <1>3, <1>6 DEF LayeredIn
<1>9. Layered(f, S, b, n, w, m, at2, gate2, p, late)
  <2>1. CASE at2 = at /\ gate2 = gate
    BY <1>8, <2>1
  <2>2. CASE at # "send" /\ at2 \notin Loop \cup {"aside"} /\ (r # <<>> => at2 = "panicked")
    <3>1. m > 0 => r # <<>>
      BY <1>2, <1>3, EmptySeq
    <3> QED  BY <1>8, <2>2, <3>1, LayersLeave
  <2>3. CASE at = "read" /\ at2 = "iter" /\ gate2 = gate
    BY <1>8, <2>3, LayersRead
  <2> QED  BY <1>1, <1>6, <1>7, <2>1, <2>2, <2>3 DEF Moves
<1>10. Layered(f, S, b, n, w, m, at2, gate2, p, late2)
  BY <1>6, <1>7, <1>9, LayersLate
<1> QED  BY <1>1, <1>3, <1>4, <1>5, <1>6, <1>7, <1>10 DEF LayeredIn

\* Nothing moves in the places of f.
LEMMA SamePlace ==
  ASSUME NEW f, pc'[f] = pc[f], call'[f] = call[f]
  PROVE  Place(f)' = Place(f)
BY DEF Place

\* While all wait, the channel may fill or empty.
LEMMA QuietPlaces ==
  ASSUME Control, Quiet, NEW f \in Exchanges
  PROVE  /\ Place(f) \notin Loop \cup {"aside"}
         /\ snapshot[f] # <<>> => Place(f) = "panicked"
BY DEF Control, Quiet, AtAwait, Place, Loop

LEMMA SameSent ==
  ASSUME Stock, UNCHANGED <<delivered, channel>>, \A x \in Entries(channel) : pool'[x] = pool[x]
  PROVE  Sent' = Sent
<1>1. channel \in Seq(Slots)
  BY DEF Stock, Channelled
<1>2. Carried(delivered, channel, pool') = Carried(delivered, channel, pool)
  BY <1>1, CarriedSame
<1> QED  BY <1>2 DEF Sent, Carried

LEMMA SameOrder ==
  ASSUME Sequenced, Sent' = Sent, refused \subseteq refused'
  PROVE  HeldLast(Sent)' /\ BookOrder(Sent, refused)'
<1>1. PICK S : S = Sent
  OBVIOUS
<1>2. HeldLast(S) /\ BookOrder(S, refused')
  BY <1>1 DEF Sequenced, BookOrder
<1> QED  BY <1>1, <1>2 DEF HeldLast, BookOrder

\* Whose slots are whose.
LEMMA KeptApart ==
  ASSUME Stock
  PROVE  /\ \A f \in Exchanges : Kept(f) \subseteq DOMAIN pool /\ held \notin Kept(f)
         /\ Entries(channel) \subseteq DOMAIN pool /\ held \notin Entries(channel)
         /\ \A e \in Exchanges : buffer[e] # <<>> =>
              /\ Top(e) \in Kept(e) /\ Top(e) \in SlotsOf(e) /\ Top(e) \notin Entries(channel)
              /\ \A f \in Exchanges : f # e => Top(e) \notin Kept(f)
<1>1. Channelled /\ \A e \in Exchanges : Owned(e)
  BY DEF Stock
<1>2. ASSUME NEW f \in Exchanges
      PROVE  Kept(f) \subseteq SlotsOf(f) /\ Kept(f) \subseteq DOMAIN pool /\ held \notin Kept(f)
  <2>1. Kept(f) \subseteq SlotsOf(f)
    BY <1>1, EntriesType DEF Owned, Kept
  <2> QED  BY <1>1, <2>1 DEF Owned, Away
<1>3. Entries(channel) \subseteq DOMAIN pool /\ held \notin Entries(channel)
  <2>1. Entries(channel) \subseteq Slots
    BY <1>1, EntriesType DEF Channelled
  <2>2. ASSUME NEW s \in Entries(channel) PROVE s \in DOMAIN pool
    <3>1. PICK e \in Exchanges : s \in SlotsOf(e)
      BY <2>1, SlotsOfOne
    <3> QED  BY <1>1, <3>1 DEF Owned, Away
  <2> QED  BY <1>1, <2>2 DEF Channelled
<1>4. ASSUME NEW e \in Exchanges, buffer[e] # <<>>
      PROVE  /\ Top(e) \in Kept(e) /\ Top(e) \in SlotsOf(e) /\ Top(e) \notin Entries(channel)
             /\ \A f \in Exchanges : f # e => Top(e) \notin Kept(f)
  <2>1. Top(e) \in SlotsOf(e) /\ Top(e) \in Entries(buffer[e])
    BY <1>1, <1>4, FrontOnce DEF Owned, Top
  <2>2. Top(e) \in Kept(e) /\ Top(e) \notin Entries(channel)
    BY <1>1, <2>1 DEF Owned, Kept, Away
  <2> QED  BY <1>2, <2>1, <2>2, SlotsOfOne
<1> QED  BY <1>2, <1>3, <1>4

\* Nothing is sent, pushed or pulled.
LEMMA MovingKeeps ==
  ASSUME Stock, Sequenced, Sent' = Sent, UNCHANGED <<buffer, snapshot, pulls, refused>>,
         \A f \in Exchanges : \A s \in Kept(f) : pool'[s] = pool[s],
         \A f \in Exchanges : Moves(f)
  PROVE  Sequenced'
<1>1. ASSUME NEW f \in Exchanges PROVE LayeredIn(f)'
  BY MovesKeep DEF Sequenced
<1> QED  BY <1>1, SameOrder DEF Sequenced

\* The reader's steps.
LEMMA ReaderOrder ==
  ASSUME Stocked, Traced, Sequenced, Take \/ Release \/ Close
  PROVE  Sequenced'
<1>1. Control /\ Stock /\ Quiet
  BY DEF Stocked, Take, Release, Close
<1>2. UNCHANGED <<buffer, snapshot, pulls, refused, pc, call>>
  BY DEF Take, Release, Close, buffers, control
<1>3. \A f \in Exchanges : Moves(f)
  <2> SUFFICES ASSUME NEW f \in Exchanges PROVE Moves(f)
    OBVIOUS
  <2>1. Place(f)' = Place(f)
    BY <1>2, SamePlace
  <2>2. Place(f) \notin Loop \cup {"aside"} /\ (snapshot[f] # <<>> => Place(f) = "panicked")
    BY <1>1, QuietPlaces
  <2>3. Place(f) # "send"
    BY <2>2 DEF Loop
  <2> QED  BY <2>1, <2>2, <2>3 DEF Moves
<1>4. /\ \A f \in Exchanges : \A s \in Kept(f) : pool'[s] = pool[s]
      /\ \A s \in Entries(channel) : pool'[s] = pool[s]
  BY <1>1, KeptApart DEF Take, Release, Close, Released
<1>5. Sent' = Sent
  <2>1. CASE Take
    <3>1. PICK U, T : U = Slots /\ T = accepted
      OBVIOUS
    <3>2. /\ channel \in Seq(U) /\ Once(channel) /\ channel # <<>>
          /\ delivered \in Seq(T) /\ \A x \in Entries(channel) : pool[x] \in T
      BY <1>1, <2>1, <3>1, KeptApart DEF Stock, Channelled, Archived, Traced, Take
    <3>3. Carried(Append(delivered, pool[Head(channel)]), Tail(channel), pool)
            = Carried(delivered, channel, pool)
      BY <3>2, CarriedTaken
    <3>4. /\ delivered' = Append(delivered, pool[Head(channel)]) /\ channel' = Tail(channel)
          /\ pool' = pool
      BY <2>1 DEF Take
    <3>5. Sent' = Carried(delivered', channel', pool') /\ Sent = Carried(delivered, channel, pool)
      BY DEF Sent, Carried
    <3> QED  BY <3>3, <3>4, <3>5
  <2>2. CASE Release \/ Close
    <3>1. UNCHANGED <<delivered, channel>>
      BY <2>2 DEF Release, Close
    <3> QED  BY <1>1, <1>4, <3>1, SameSent
  <2> QED  BY <2>1, <2>2
<1> QED  BY <1>1, <1>2, <1>3, <1>4, <1>5, MovingKeeps

\* What matters of the order, but for where the tasks are.
Still == UNCHANGED <<buffer, snapshot, pool, channel, rx_open, delivered, pulls, refused>>

LEMMA StillKeeps ==
  ASSUME Stock, Sequenced, Still, NEW e \in Exchanges,
         \A f \in Exchanges : f # e => pc'[f] = pc[f] /\ call'[f] = call[f],
         Gate' = Gate => Moves(e)
  PROVE  Sequenced'
<1>1. Sent' = Sent /\ Gate' = Gate
  BY DEF Still, Sent, Gate
<1>2. ASSUME NEW f \in Exchanges PROVE Moves(f)
  <2>1. CASE f = e
    BY <1>1, <2>1
  <2>2. CASE f # e
    BY <1>1, <2>2, SamePlace DEF Moves
  <2> QED  BY <2>1, <2>2
<1>3. UNCHANGED <<buffer, snapshot, pulls, refused, pool>>
  BY DEF Still
<1> QED  BY <1>1, <1>2, <1>3, MovingKeeps

\* Calls begin, are cancelled, or fail.
LEMMA CallsOrder ==
  ASSUME Stocked, Sequenced, NEW e \in Exchanges,
         Connect(e) \/ Run(e) \/ RunSnapshot(e) \/ RunWithSnapshot(e)
           \/ PushBufferedWsDepths(e) \/ Cancel(e) \/ PullErr(e) \/ PullPanic(e)
  PROVE  Sequenced'
<1>1. Control /\ Stock
  BY DEF Stocked
<1>2. Still /\ Quiet
  BY DEF Still, Connect, Run, RunSnapshot, RunWithSnapshot, PushBufferedWsDepths, Cancel,
         PullErr, PullPanic, Begin, buffers, reader
<1>3. \A f \in Exchanges : f # e => pc'[f] = pc[f] /\ call'[f] = call[f]
  BY <1>1 DEF Connect, Run, RunSnapshot, RunWithSnapshot, PushBufferedWsDepths, Cancel,
     PullErr, PullPanic, Begin, End, Panic, control, Control
<1>4. pc[e] \in {"idle", "pull"} /\ snapshot[e] = <<>>
  BY <1>1 DEF Connect, Run, RunSnapshot, RunWithSnapshot, PushBufferedWsDepths, Cancel,
     PullErr, PullPanic, Begin, Control
<1>5. \/ pc'[e] = pc[e] /\ call'[e] = call[e]
      \/ pc'[e] \in {"idle", "pull", "panicked"}
      \/ call'[e] = "run"
  BY <1>1 DEF Connect, Run, RunSnapshot, RunWithSnapshot, PushBufferedWsDepths, Cancel,
     PullErr, PullPanic, Begin, End, Panic, control, Control
<1>6. Place(e)' \notin Loop \cup {"aside"}
  BY <1>4, <1>5 DEF Place, Loop
<1>7. Place(e) # "send"
  BY <1>4 DEF Place
<1>8. Moves(e)
  BY <1>4, <1>6, <1>7 DEF Moves
<1> QED  BY <1>1, <1>2, <1>3, <1>8, StillKeeps

\* A poll answers: the loop goes on.
LEMMA AnswerMoves ==
  ASSUME Control, NEW e \in Exchanges, NEW state, pc[e] \in {"send", "read"}, PollAnswers(e, state)
  PROVE  /\ \A f \in Exchanges : f # e => pc'[f] = pc[f] /\ call'[f] = call[f]
         /\ IF Place(e) \in {"send", "read"} THEN Place(e)' = "iter"
            ELSE Place(e) \in {"aside", "out"} /\ Place(e)' = Place(e)
<1>1. CASE call[e] = "run"
  BY <1>1 DEF PollAnswers, End, Control, Place
<1>2. CASE call[e] # "run"
  BY <1>2 DEF PollAnswers, Goto, Control, Place
<1> QED  BY <1>1, <1>2

LEMMA GotoMoves ==
  ASSUME Control, NEW e \in Exchanges, pc[e] \in {"iter", "send"}, NEW place \in {"send", "read"},
         Goto(e, place)
  PROVE  /\ \A f \in Exchanges : f # e => pc'[f] = pc[f] /\ call'[f] = call[f]
         /\ IF Place(e) \in {"iter", "send"} THEN Place(e) = pc[e] /\ Place(e)' = place
            ELSE Place(e) \in {"aside", "out"} /\ Place(e)' = Place(e)
BY DEF Goto, Control, Place

\* What the socket yields, short of depths.
LEMMA ReadOrder ==
  ASSUME Stocked, Sequenced, NEW e \in Exchanges,
         PollEnds(e) \/ PollSkips(e)
  PROVE  Sequenced'
<1>1. Control /\ Stock
  BY DEF Stocked
<1>2. Still /\ pc[e] = "read" /\ \E state : PollAnswers(e, state)
  BY DEF Still, PollEnds, PollSkips, buffers, reader
<1>3. PICK state : PollAnswers(e, state)
  BY <1>2
<1>4. /\ \A f \in Exchanges : f # e => pc'[f] = pc[f] /\ call'[f] = call[f]
      /\ IF Place(e) \in {"send", "read"} THEN Place(e)' = "iter"
         ELSE Place(e) \in {"aside", "out"} /\ Place(e)' = Place(e)
  BY <1>1, <1>2, <1>3, AnswerMoves
<1>5. Place(e) # "send"
  BY <1>2 DEF Place
<1>6. Gate' = Gate => Moves(e)
  BY <1>4, <1>5 DEF Moves
<1> QED  BY <1>1, <1>2, <1>4, <1>6, StillKeeps

\* run_snapshot puts a depth aside, or a loop ends.
LEMMA LoopOrder ==
  ASSUME Stocked, Sequenced, NEW e \in Exchanges, Iterate(e),
         ~(snapshot[e] # <<>> /\ call[e] = "run_with_snapshot" /\ Len(buffer[e]) < BUF)
  PROVE  Sequenced'
<1>1. Control /\ Stock /\ pc[e] = "iter"
  BY DEF Stocked, Iterate
<1>2. CASE UNCHANGED buffers /\ (Panic(e) \/ (snapshot[e] = <<>> /\ End(e, "Ok")))
  <2>1. Still
    BY <1>2 DEF Still, Iterate, reader, buffers
  <2>2. /\ \A f \in Exchanges : f # e => pc'[f] = pc[f] /\ call'[f] = call[f]
        /\ \/ pc'[e] = "panicked"
           \/ pc'[e] = "idle" /\ snapshot[e] = <<>>
    <3>1. CASE Panic(e)
      BY <1>1, <3>1 DEF Panic, Control
    <3>2. CASE snapshot[e] = <<>> /\ End(e, "Ok")
      BY <1>1, <3>2 DEF End, Control
    <3> QED  BY <1>2, <3>1, <3>2
  <2>3. Place(e)' \notin Loop \cup {"aside"} /\ (snapshot[e] # <<>> => Place(e)' = "panicked")
    <3>1. call[e] \notin {"run", "none"} /\ call' = call
      BY <1>1, <1>2 DEF Control, Panic, End
    <3> QED  BY <2>2, <3>1, <1>1 DEF Place, Loop, Control
  <2>4. Place(e) # "send"
    BY <1>1 DEF Place
  <2>5. Moves(e)
    BY <2>3, <2>4 DEF Moves
  <2> QED  BY <1>1, <2>1, <2>2, <2>5, StillKeeps
<1>3. CASE /\ snapshot[e] # <<>> /\ call[e] = "run_snapshot"
           /\ snapshot' = [snapshot EXCEPT ![e] = Tail(@)] /\ Goto(e, "send") /\ buffer' = buffer
  <2>1. Place(e) = "aside" /\ Place(e)' = "aside"
    BY <1>1, <1>3 DEF Place, Goto, Control
  <2>2. UNCHANGED <<pool, channel, rx_open, delivered, pulls, refused>>
    BY DEF Iterate, reader
  <2>3. Sent' = Sent /\ Gate' = Gate
    BY <2>2 DEF Sent, Gate
  <2>4. ASSUME NEW f \in Exchanges PROVE LayeredIn(f)'
    <3>1. CASE f # e
      <4>1. pc'[f] = pc[f] /\ call'[f] = call[f] /\ snapshot'[f] = snapshot[f]
        BY <1>1, <1>3, <3>1 DEF Goto, Control, Stock, Arrays
      <4>2. Moves(f)
        BY <2>3, <4>1, SamePlace DEF Moves
      <4> QED  BY <1>1, <1>3, <2>2, <2>3, <4>1, <4>2, MovesKeep DEF Sequenced
    <3>2. CASE f = e
      <4>1. PICK q, r : q = snapshot[e] /\ r = Tail(q)
        OBVIOUS
      <4>2. q \in Seq(SlotsOf(e)) /\ q # <<>> /\ snapshot'[e] = r
        BY <1>1, <1>3, <4>1 DEF Stock, Owned, Arrays
      <4>3. PICK m \in Nat : m = Len(q)
        BY <4>2, LenProperties
      <4>4. m > 0 /\ Len(r) = m - 1 /\ \A i \in 1 .. m - 1 : r[i] = q[i + 1]
        <5>1. Len(r) = Len(q) - 1 /\ \A i \in 1 .. Len(r) : r[i] = q[i + 1]
          BY <4>1, <4>2, HeadTailProperties
        <5>2. m # 0
          BY <4>2, <4>3, EmptySeq
        <5> QED  BY <4>3, <5>1, <5>2
      <4>5. PICK w, w2 : w = DepthsAt(pool, q) /\ w2 = DepthsAt(pool, r)
        OBVIOUS
      <4>6. \A i \in 1 .. m - 1 : w2[i] = w[i + 1]
        BY <4>3, <4>4, <4>5 DEF DepthsAt
      <4>7. PICK S, b, n, gate, p, late :
              /\ S = Sent /\ b = DepthsAt(pool, buffer[e]) /\ n = Len(buffer[e])
              /\ gate = Gate /\ p = pulls[e] /\ late = refused
        OBVIOUS
      <4>8. Layered(e, S, b, n, w, m, "aside", gate, p, late)
        BY <2>1, <4>1, <4>3, <4>5, <4>7 DEF Sequenced, LayeredIn
      <4>9. Layered(e, S, b, n, w2, m - 1, "aside", gate, p, late)
        BY <4>4, <4>6, <4>8, LayersAside
      <4> QED  BY <1>3, <2>1, <2>2, <2>3, <3>2, <4>2, <4>4, <4>5, <4>7, <4>9 DEF LayeredIn
    <3> QED  BY <3>1, <3>2
  <2> QED  BY <2>2, <2>3, <2>4, SameOrder DEF Sequenced
<1> QED  BY <1>1, <1>2, <1>3 DEF Iterate, PollAfterPush, buffers

\* run_with_snapshot pushes a depth on the buffer.
LEMMA PushOrder ==
  ASSUME Stocked, Sequenced, NEW e \in Exchanges, Iterate(e),
         snapshot[e] # <<>> /\ call[e] = "run_with_snapshot" /\ Len(buffer[e]) < BUF
  PROVE  Sequenced'
<1>1. Control /\ Stock /\ pc[e] = "iter"
  BY DEF Stocked, Iterate
<1>2. Owned(e) /\ Arrays
  BY <1>1 DEF Stock
<1>3. Len(buffer[e]) # BUF
  <2>1. PICK n \in Nat : n = Len(buffer[e])
    BY <1>2, LenProperties DEF Owned
  <2> QED  BY <2>1, StreamAssumption
<1>4. /\ buffer' = [buffer EXCEPT ![e] = Append(@, Head(snapshot[e]))]
      /\ snapshot' = [snapshot EXCEPT ![e] = Tail(@)] /\ Goto(e, "send")
  BY <1>2, <1>3 DEF Iterate, PollAfterPush, Stacked, Arrays
<1>5. UNCHANGED <<pool, channel, rx_open, delivered, pulls, refused>>
  BY DEF Iterate, reader
<1>6. Sent' = Sent /\ Gate' = Gate
  BY <1>5 DEF Sent, Gate
<1>7. Place(e) = "iter" /\ Place(e)' = "send"
  BY <1>1, <1>4 DEF Place, Goto, Control
<1>8. ASSUME NEW f \in Exchanges PROVE LayeredIn(f)'
  <2>1. CASE f # e
    <3>1. /\ pc'[f] = pc[f] /\ call'[f] = call[f]
          /\ snapshot'[f] = snapshot[f] /\ buffer'[f] = buffer[f]
      BY <1>1, <1>2, <1>4, <2>1 DEF Goto, Control, Arrays
    <3>2. Moves(f)
      BY <1>6, <3>1, SamePlace DEF Moves
    <3> QED  BY <1>1, <1>5, <1>6, <3>1, <3>2, MovesKeep DEF Sequenced
  <2>2. CASE f = e
    <3>1. PICK q, r, h, u, v :
            /\ q = snapshot[e] /\ r = Tail(q) /\ h = Head(q)
            /\ u = buffer[e] /\ v = Append(u, h)
      OBVIOUS
    <3>2. /\ q \in Seq(SlotsOf(e)) /\ q # <<>> /\ u \in Seq(SlotsOf(e))
          /\ snapshot'[e] = r /\ buffer'[e] = v
      BY <1>2, <1>4, <3>1 DEF Owned, Arrays
    <3>3. PICK m \in Nat, n \in Nat : m = Len(q) /\ n = Len(u)
      BY <3>2, LenProperties
    <3>4. m > 0 /\ Len(r) = m - 1 /\ h = q[1] /\ \A i \in 1 .. m - 1 : r[i] = q[i + 1]
      <4>1. h = q[1] /\ Len(r) = Len(q) - 1 /\ \A i \in 1 .. Len(r) : r[i] = q[i + 1]
        BY <3>1, <3>2, HeadTailProperties
      <4>2. m # 0
        BY <3>2, <3>3, EmptySeq
      <4> QED  BY <3>3, <4>1, <4>2
    <3>5. h \in SlotsOf(e)
      BY <3>1, <3>2, HeadTailProperties
    <3>6. Len(v) = n + 1 /\ (\A i \in 1 .. n : v[i] = u[i]) /\ v[n + 1] = h
      BY <3>1, <3>2, <3>3, <3>5, AppendProperties
    <3>7. PICK w, w2, b, b2 :
            /\ w = DepthsAt(pool, q) /\ w2 = DepthsAt(pool, r)
            /\ b = DepthsAt(pool, u) /\ b2 = DepthsAt(pool, v)
      OBVIOUS
    <3>8. \A i \in 1 .. m - 1 : w2[i] = w[i + 1]
      BY <3>3, <3>4, <3>7 DEF DepthsAt
    <3>9. (\A i \in 1 .. n : b2[i] = b[i]) /\ b2[n + 1] = w[1]
      BY <3>3, <3>4, <3>6, <3>7 DEF DepthsAt
    <3>10. PICK S, gate, p, late : S = Sent /\ gate = Gate /\ p = pulls[e] /\ late = refused
      OBVIOUS
    <3>11. Layered(e, S, b, n, w, m, "iter", gate, p, late)
      BY <1>7, <3>1, <3>3, <3>7, <3>10 DEF Sequenced, LayeredIn
    <3>12. Layered(e, S, b2, n + 1, w2, m - 1, "send", gate, p, late)
      <4>1. m > 0
        BY <3>4
      <4>2. \A i \in 1 .. n : b2[i] = b[i]
        BY <3>9
      <4>3. b2[n + 1] = w[1]
        BY <3>9
      <4> QED  BY <4>1, <4>2, <4>3, <3>8, <3>11, LayersPush, SMTT(30)
    <3>13. /\ Sent' = S /\ DepthsAt(pool', buffer'[e]) = b2 /\ Len(buffer'[e]) = n + 1
           /\ DepthsAt(pool', snapshot'[e]) = w2 /\ Len(snapshot'[e]) = m - 1
           /\ Place(e)' = "send" /\ Gate' = gate /\ pulls'[e] = p /\ refused' = late
      BY <1>5, <1>6, <1>7, <3>2, <3>4, <3>6, <3>7, <3>10
    <3> QED  BY <2>2, <3>12, <3>13 DEF LayeredIn
  <2> QED  BY <2>1, <2>2
<1> QED  BY <1>5, <1>6, <1>8, SameOrder DEF Sequenced

\* The channel is found full: the slot stays where it is.
LEMMA RefusedOrder ==
  ASSUME Stocked, Sequenced, NEW e \in Exchanges, pc[e] = "send",
         rx_open, Len(channel) = ChannelCap,
         UNCHANGED <<buffer, snapshot, pool, channel, rx_open, delivered, pulls>>,
         PollAnswers(e, "SenderError"), refused' = refused \cup {e}
  PROVE  Sequenced'
<1>1. Control /\ Stock
  BY DEF Stocked
<1>2. /\ \A f \in Exchanges : f # e => pc'[f] = pc[f] /\ call'[f] = call[f]
      /\ IF Place(e) \in {"send", "read"} THEN Place(e)' = "iter"
         ELSE Place(e) \in {"aside", "out"} /\ Place(e)' = Place(e)
  BY <1>1, AnswerMoves
<1>3. Sent' = Sent /\ Gate' = "full" /\ Gate = "full"
  BY DEF Sent, Gate
<1>4. ASSUME NEW f \in Exchanges PROVE LayeredIn(f)'
  <2>1. CASE f # e
    <3>1. Moves(f)
      BY <1>2, <1>3, <2>1, SamePlace DEF Moves
    <3> QED  BY <1>1, <1>3, <3>1, MovesKeep DEF Sequenced
  <2>2. CASE f = e
    <3>1. PICK S, b, n, w, m, at, at2, p, late :
            /\ S = Sent /\ b = DepthsAt(pool, buffer[e]) /\ n = Len(buffer[e])
            /\ w = DepthsAt(pool, snapshot[e]) /\ m = Len(snapshot[e])
            /\ at = Place(e) /\ at2 = Place(e)' /\ p = pulls[e] /\ late = refused
      OBVIOUS
    <3>2. Layered(e, S, b, n, w, m, at, "full", p, late)
      BY <1>3, <3>1 DEF Sequenced, LayeredIn
    <3>3. (at = "send" /\ at2 = "iter") \/ (at \in {"aside", "out"} /\ at2 = at)
      <4>1. at # "read"
        BY <3>1 DEF Place
      <4> QED  BY <1>2, <3>1, <4>1
    <3>4. Layered(e, S, b, n, w, m, at2, "full", p, late \cup {e})
      BY <3>2, <3>3, LayersRefused
    <3> QED  BY <1>3, <2>2, <3>1, <3>4 DEF LayeredIn
  <2> QED  BY <2>1, <2>2
<1> QED  BY <1>3, <1>4, SameOrder DEF Sequenced

\* The stack without its top.
LEMMA PoppedFront ==
  ASSUME NEW U, NEW s \in Seq(U), s # <<>>, NEW u, u = SubSeq(s, 1, Len(s) - 1),
         NEW n \in Nat, n = Len(s)
  PROVE  n > 0 /\ Len(u) = n - 1 /\ \A i \in 1 .. n - 1 : u[i] = s[i]
<1>1. n # 0
  BY EmptySeq
<1> QED  BY <1>1

\* Nobody receives any more: the slot is released.
LEMMA DroppedOrder ==
  ASSUME Stocked, Sequenced, NEW e \in Exchanges, pc[e] = "send",
         ~rx_open, buffer[e] # <<>>, buffer' = Popped(e), pool' = Released(Top(e)),
         UNCHANGED <<snapshot, channel, rx_open, delivered, pulls, refused>>,
         PollAnswers(e, "SenderError")
  PROVE  Sequenced'
<1>1. Control /\ Stock /\ Arrays /\ Owned(e)
  BY DEF Stocked, Stock
<1>2. /\ \A f \in Exchanges : f # e => pc'[f] = pc[f] /\ call'[f] = call[f]
      /\ IF Place(e) \in {"send", "read"} THEN Place(e)' = "iter"
         ELSE Place(e) \in {"aside", "out"} /\ Place(e)' = Place(e)
  BY <1>1, AnswerMoves
<1>3. /\ \A s \in Entries(channel) : pool'[s] = pool[s]
      /\ \A f \in Exchanges : f # e => \A s \in Kept(f) : pool'[s] = pool[s]
      /\ \A s \in Kept(e) : s # Top(e) => pool'[s] = pool[s]
  BY <1>1, KeptApart DEF Released
<1>4. Gate' = "free" /\ Gate = "free"
  BY DEF Gate
<1>5. Sent' = Sent
  BY <1>1, <1>3, SameSent
<1>6. ASSUME NEW f \in Exchanges PROVE LayeredIn(f)'
  <2>1. CASE f # e
    <3>1. Moves(f)
      BY <1>2, <1>4, <2>1, SamePlace DEF Moves
    <3>2. buffer'[f] = buffer[f]
      BY <1>1, <2>1 DEF Popped, Arrays
    <3> QED  BY <1>1, <1>3, <1>5, <2>1, <3>1, <3>2, MovesKeep DEF Sequenced
  <2>2. CASE f = e
    <3>1. PICK q, u, n, r : /\ q = buffer[e] /\ n = Len(q) /\ u = SubSeq(q, 1, n - 1)
                            /\ r = snapshot[e]
      OBVIOUS
    <3>2. /\ q \in Seq(SlotsOf(e)) /\ q # <<>> /\ buffer'[e] = u /\ Once(q) /\ Top(e) = q[n]
          /\ r \in Seq(SlotsOf(e)) /\ Entries(q) \cap Entries(r) = {}
          /\ Entries(q) \subseteq Kept(e) /\ Entries(r) \subseteq Kept(e)
      BY <1>1, <3>1 DEF Popped, Arrays, Owned, Top, Kept
    <3>3. n \in Nat /\ n > 0 /\ Len(u) = n - 1 /\ \A i \in 1 .. n - 1 : u[i] = q[i]
      <4>1. n \in Nat
        BY <3>1, <3>2, LenProperties
      <4> QED  BY <3>1, <3>2, <4>1, PoppedFront
    <3>4. Top(e) \in Entries(q)
      BY <3>1, <3>2, <3>3 DEF Entries
    <3>5. \A s \in Entries(r) : pool'[s] = pool[s]
      BY <1>3, <3>2, <3>4
    <3>6. \A i \in 1 .. n - 1 : pool'[u[i]] = pool[q[i]]
      <4>1. ASSUME NEW i \in 1 .. n - 1 PROVE pool'[u[i]] = pool[q[i]]
        <5>1. i \in 1 .. n /\ n \in 1 .. n /\ i # n
          BY <3>3
        <5>2. q[i] \in Kept(e) /\ q[i] # Top(e)
          BY <3>1, <3>2, <5>1 DEF Once, Entries
        <5> QED  BY <1>3, <3>3, <5>2
      <4> QED  BY <4>1
    <3>7. PICK b, b2, w :
            /\ b = DepthsAt(pool, q) /\ b2 = DepthsAt(pool', u) /\ w = DepthsAt(pool, r)
      OBVIOUS
    <3>8. DepthsAt(pool', r) = w
      BY <3>2, <3>5, <3>7, DepthsSame
    <3>9. \A i \in 1 .. n - 1 : b2[i] = b[i]
      BY <3>1, <3>3, <3>6, <3>7 DEF DepthsAt
    <3>10. PICK S, m, at, at2, p, late :
            /\ S = Sent /\ m = Len(r)
            /\ at = Place(e) /\ at2 = Place(e)' /\ p = pulls[e] /\ late = refused
      OBVIOUS
    <3>11. Layered(e, S, b, n, w, m, at, "free", p, late)
      BY <1>4, <3>1, <3>7, <3>10 DEF Sequenced, LayeredIn
    <3>12. (at = "send" /\ at2 = "iter") \/ (at \in {"aside", "out"} /\ at2 = at)
      <4>1. at # "read"
        BY <3>10 DEF Place
      <4> QED  BY <1>2, <3>10, <4>1
    <3>13. Layered(e, S, b2, n - 1, w, m, at2, "free", p, late)
      BY <3>3, <3>9, <3>11, <3>12, LayersDrop
    <3> QED  BY <1>4, <1>5, <2>2, <3>1, <3>2, <3>3, <3>7, <3>8, <3>10, <3>13 DEF LayeredIn
  <2> QED  BY <2>1, <2>2
<1> QED  BY <1>5, <1>6, SameOrder DEF Sequenced

\* The top of the stack is sent.
LEMMA SentOrder ==
  ASSUME Stocked, Traced, Stamped, Sequenced, NEW e \in Exchanges, pc[e] = "send",
         buffer[e] # <<>>, rx_open, Len(channel) < ChannelCap,
         channel' = Append(channel, Top(e)), buffer' = Popped(e), Goto(e, "read"),
         UNCHANGED <<snapshot, pool, rx_open, delivered, pulls, refused>>
  PROVE  Sequenced'
<1>1. Control /\ Stock /\ Arrays /\ Owned(e) /\ Channelled /\ Archived
  BY DEF Stocked, Stock
<1>2. /\ \A f \in Exchanges : f # e => pc'[f] = pc[f] /\ call'[f] = call[f]
      /\ IF Place(e) \in {"iter", "send"} THEN Place(e) = "send" /\ Place(e)' = "read"
         ELSE Place(e) \in {"aside", "out"} /\ Place(e)' = Place(e)
  BY <1>1, GotoMoves
<1>3. Gate # "full"
  <2>1. PICK c \in Nat : c = Len(channel)
    BY <1>1, LenProperties DEF Channelled
  <2> QED  BY <2>1, StreamAssumption DEF Gate
<1>4. PICK x, q, n, u : /\ x = Top(e) /\ q = buffer[e] /\ n = Len(q)
                        /\ u = SubSeq(q, 1, n - 1)
  OBVIOUS
<1>5. /\ x \in Slots /\ x \in DOMAIN pool /\ x \in SlotsOf(e) /\ x \notin Entries(channel)
      /\ pool[x] \in accepted /\ pool[x].of.ex = e
  <2>1. x \in Kept(e) /\ x \in SlotsOf(e) /\ x \notin Entries(channel) /\ x \in DOMAIN pool
    BY <1>1, <1>4, KeptApart
  <2>2. x \in Slots /\ x[1] = e
    BY <2>1 DEF SlotsOf
  <2> QED  BY <1>1, <2>1, <2>2 DEF Archived, Stamped
<1>6. /\ q \in Seq(SlotsOf(e)) /\ q # <<>> /\ buffer'[e] = u /\ x = q[n]
      /\ \A f \in Exchanges : f # e => buffer'[f] = buffer[f]
  BY <1>1, <1>4 DEF Popped, Arrays, Owned, Top
<1>7. n \in Nat /\ n > 0 /\ Len(u) = n - 1 /\ \A i \in 1 .. n - 1 : u[i] = q[i]
  <2>1. n \in Nat
    BY <1>4, <1>6, LenProperties
  <2> QED  BY <1>4, <1>6, <2>1, PoppedFront
<1>8. PICK S, S2, d : S = Sent /\ S2 = Carried(delivered, Append(channel, x), pool) /\ d = pool[x]
  OBVIOUS
<1>9. Sent' = S2 /\ S = Carried(delivered, channel, pool)
  BY <1>4, <1>8 DEF Sent, Carried
<1>10. PICK k \in Nat :
         /\ DOMAIN S = 1 .. k /\ DOMAIN S2 = 1 .. k + 1
         /\ \A i \in 1 .. k : S2[i] = S[i] /\ S[i] \in accepted
         /\ S2[k + 1] = d
  <2>1. PICK U, T : U = Slots /\ T = accepted
    OBVIOUS
  <2>2. /\ delivered \in Seq(T) /\ channel \in Seq(U) /\ Once(channel)
        /\ \A y \in Entries(channel) : pool[y] \in T
    BY <1>1, <2>1, KeptApart DEF Traced, Channelled, Archived
  <2>3. x \in U /\ pool[x] \in T
    BY <1>5, <2>1
  <2>4. Longer(S, S2, T, d)
    BY <1>5, <1>8, <1>9, <2>2, <2>3, CarriedMore
  <2> QED  BY <2>1, <2>4 DEF Longer
<1>11. \A i \in 1 .. k : S2[i] = S[i]
  BY <1>10
<1>12. \A y \in accepted : y.i \in Nat
  BY DEF Stamped, Dated
<1>13. PICK b, b2, w, m, at, at2, gate, gate2, p, late :
         /\ b = DepthsAt(pool, q) /\ b2 = DepthsAt(pool, u)
         /\ w = DepthsAt(pool, snapshot[e]) /\ m = Len(snapshot[e])
         /\ at = Place(e) /\ at2 = Place(e)' /\ gate = Gate /\ gate2 = Gate'
         /\ p = pulls[e] /\ late = refused
  OBVIOUS
<1>14. Layered(e, S, b, n, w, m, at, gate, p, late)
  BY <1>4, <1>8, <1>13 DEF Sequenced, LayeredIn
<1>15. (\A i \in 1 .. n - 1 : b2[i] = b[i]) /\ S2[k + 1] = b[n]
  BY <1>4, <1>6, <1>7, <1>8, <1>10, <1>13 DEF DepthsAt
<1>16. Longer(S, S2, accepted, b[n])
  BY <1>10, <1>15 DEF Longer
<1>17. HeldLast(S2) /\ BookOrder(S2, late)
  <2>1. HeldLast(S) /\ BookOrder(S, late)
    BY <1>8, <1>13 DEF Sequenced
  <2>2. n > 0
    BY <1>7
  <2> QED  BY <1>12, <1>14, <1>16, <2>1, <2>2, SentInOrder
<1>18. Layered(e, S2, b2, n - 1, w, m, at2, gate2, p, late)
  <2>1. (at = "send" /\ at2 = "read") \/ (at \in {"aside", "out"} /\ at2 = at)
    BY <1>2, <1>13
  <2>2. \A i \in 1 .. n - 1 : b2[i] = b[i]
    BY <1>15
  <2>3. gate # "full"
    BY <1>3, <1>13
  <2>4. n > 0
    BY <1>7
  <2> QED  BY <1>14, <1>16, <2>1, <2>2, <2>3, <2>4, LayersSend
<1>19. ASSUME NEW f \in Exchanges PROVE LayeredIn(f)'
  <2>1. CASE f = e
    <3>1. /\ Sent' = S2 /\ DepthsAt(pool', buffer'[e]) = b2 /\ Len(buffer'[e]) = n - 1
          /\ DepthsAt(pool', snapshot'[e]) = w /\ Len(snapshot'[e]) = m
          /\ Place(e)' = at2 /\ Gate' = gate2 /\ pulls'[e] = p /\ refused' = late
      BY <1>6, <1>7, <1>9, <1>13
    <3> QED  BY <1>18, <2>1, <3>1 DEF LayeredIn
  <2>2. CASE f # e
    <3>1. PICK c, l, v, g, place :
            /\ c = DepthsAt(pool, buffer[f]) /\ l = Len(buffer[f])
            /\ v = DepthsAt(pool, snapshot[f]) /\ g = Len(snapshot[f]) /\ place = Place(f)
      OBVIOUS
    <3>2. PICK r : r = pulls[f]
      OBVIOUS
    <3>3. Layered(f, S, c, l, v, g, place, gate, r, late)
      BY <1>8, <1>13, <3>1, <3>2 DEF Sequenced, LayeredIn
    <3>4. S2[k + 1].of.ex # f
      BY <1>5, <1>8, <1>10, <2>2
    <3>5. gate # "full"
      BY <1>3, <1>13
    <3>6. Layered(f, S2, c, l, v, g, place, gate2, r, late)
      BY <1>10, <1>11, <3>3, <3>4, <3>5, LayersApart
    <3>7. Place(f)' = place
      BY <1>2, <2>2, <3>1, SamePlace
    <3>8. /\ Sent' = S2 /\ DepthsAt(pool', buffer'[f]) = c /\ Len(buffer'[f]) = l
          /\ DepthsAt(pool', snapshot'[f]) = v /\ Len(snapshot'[f]) = g
          /\ Gate' = gate2 /\ pulls'[f] = r /\ refused' = late
      BY <1>6, <1>9, <1>13, <2>2, <3>1, <3>2
    <3> QED  BY <3>6, <3>7, <3>8 DEF LayeredIn
  <2> QED  BY <2>1, <2>2
<1>20. HeldLast(Sent)' /\ BookOrder(Sent, refused)'
  <2>1. Sent' = S2 /\ refused' = late
    BY <1>9, <1>13
  <2> QED  BY <1>17, <2>1 DEF HeldLast, BookOrder
<1> QED  BY <1>19, <1>20 DEF Sequenced

LEMMA PollSendOrder ==
  ASSUME Stocked, Traced, Stamped, Sequenced, NEW e \in Exchanges, PollSend(e)
  PROVE  Sequenced'
<1>1. pc[e] = "send" /\ UNCHANGED <<snapshot, rx_open, delivered, pulls>>
  BY DEF PollSend, reader
<1>2. CASE buffer[e] = <<>> /\ Goto(e, "read") /\ UNCHANGED <<buffer, channel, pool, refused>>
  <2>1. Control /\ Stock
    BY DEF Stocked
  <2>2. /\ \A f \in Exchanges : f # e => pc'[f] = pc[f] /\ call'[f] = call[f]
        /\ IF Place(e) \in {"iter", "send"} THEN Place(e) = "send" /\ Place(e)' = "read"
           ELSE Place(e) \in {"aside", "out"} /\ Place(e)' = Place(e)
    BY <1>1, <1>2, <2>1, GotoMoves
  <2>3. Place(e) # "send"
    <3>1. Len(buffer[e]) = 0
      BY <1>2
    <3>2. Place(e) = "send" => Len(buffer[e]) > 0
      BY DEF Sequenced, LayeredIn, Layered
    <3> QED  BY <3>1, <3>2
  <2>4. Gate' = Gate => Moves(e)
    BY <2>2, <2>3 DEF Moves
  <2>5. Still
    BY <1>1, <1>2 DEF Still
  <2> QED  BY <2>1, <2>2, <2>4, <2>5, StillKeeps
<1>3. CASE /\ buffer[e] # <<>> /\ rx_open /\ Len(channel) < ChannelCap
           /\ channel' = Append(channel, Top(e)) /\ buffer' = Popped(e) /\ Goto(e, "read")
           /\ UNCHANGED <<pool, refused>>
  BY <1>1, <1>3, SentOrder
<1>4. CASE /\ rx_open /\ Len(channel) = ChannelCap /\ UNCHANGED <<buffer, pool, channel>>
           /\ PollAnswers(e, "SenderError") /\ refused' = refused \cup {e}
  BY <1>1, <1>4, RefusedOrder
<1>5. CASE /\ buffer[e] # <<>> /\ ~rx_open /\ buffer' = Popped(e) /\ pool' = Released(Top(e))
           /\ PollAnswers(e, "SenderError") /\ UNCHANGED <<channel, refused>>
  BY <1>1, <1>5, DroppedOrder
<1> QED  BY <1>2, <1>3, <1>4, <1>5 DEF PollSend, PutBack

\* What is kept and what was sent stays when a payload is ingested.
LEMMA IngestKeeps ==
  ASSUME Stock, NEW e \in Exchanges, NEW k \in Nat, NEW t \in Takings(e, k), NEW payload,
         Ingest(t, payload), UNCHANGED <<held, delivered, channel>>
  PROVE  /\ \A f \in Exchanges : \A s \in Kept(f) : pool'[s] = pool[s]
         /\ Sent' = Sent
         /\ \A i \in 1 .. k : pool'[t[i]] = Entry(payload, i)
<1>1. PICK new : new = DepthsOf(payload, t)
  OBVIOUS
<1>2. Adds(t, payload, new)
  BY <1>1, IngestAdds
<1>3. \A s \in DOMAIN pool : pool'[s] = pool[s]
  BY <1>2 DEF Adds
<1>4. Sent' = Sent
  BY <1>3, KeptApart, SameSent
<1>5. DOMAIN t = 1 .. k
  BY TakingsFresh
<1> QED  BY <1>2, <1>3, <1>4, <1>5, KeptApart DEF Adds

LEMMA Joined ==
  ASSUME NEW U, NEW q \in Seq(U), NEW t \in Seq(U), NEW n \in Nat, n = Len(q),
         NEW k \in Nat, k = Len(t), NEW u, u = q \o t
  PROVE  /\ Len(u) = n + k /\ \A i \in 1 .. n : u[i] = q[i]
         /\ \A i \in n + 1 .. n + k : i - n \in 1 .. k /\ u[i] = t[i - n]
<1>1. /\ Len(u) = n + k
      /\ \A i \in 1 .. n + k : u[i] = IF i <= n THEN q[i] ELSE t[i - n]
  BY ConcatProperties
<1> QED  BY <1>1

\* A text is ingested.
LEMMA TextOrder ==
  ASSUME Stocked, Traced, Stamped, Sequenced, NEW e \in Exchanges, pc[e] = "read",
         NEW k \in Nat, NEW t \in Takings(e, k), Ingest(t, Text(e)),
         \/ buffer' = [buffer EXCEPT ![e] = @ \o t]
         \/ buffer' = buffer,
         UNCHANGED <<control, snapshot, channel, reader, pulls, refused>>
  PROVE  Sequenced'
<1>1. Control /\ Counts /\ Stock /\ Arrays /\ Owned(e)
  BY DEF Stocked, Stock
<1>2. UNCHANGED <<held, delivered, rx_open, pc, call>>
  BY DEF reader, control
<1>3. PICK payload : payload = Text(e)
  OBVIOUS
<1>4. /\ \A f \in Exchanges : \A s \in Kept(f) : pool'[s] = pool[s]
      /\ Sent' = Sent
      /\ \A i \in 1 .. k : pool'[t[i]] = Entry(payload, i)
  BY <1>1, <1>2, <1>3, IngestKeeps
<1>5. Gate' = Gate /\ \A f \in Exchanges : Place(f)' = Place(f)
  BY <1>2, SamePlace DEF Gate
<1>6. \A f \in Exchanges : Moves(f)
  BY <1>5 DEF Moves
<1>7. ASSUME NEW f \in Exchanges, buffer'[f] = buffer[f] PROVE LayeredIn(f)'
  BY <1>1, <1>4, <1>6, <1>7, MovesKeep DEF Sequenced
<1>8. ASSUME buffer' = [buffer EXCEPT ![e] = @ \o t] PROVE LayeredIn(e)'
  <2>1. PICK q, n, u : q = buffer[e] /\ n = Len(q) /\ u = q \o t
    OBVIOUS
  <2>2. /\ q \in Seq(SlotsOf(e)) /\ n \in Nat /\ buffer'[e] = u /\ Entries(q) \subseteq Kept(e)
    BY <1>1, <1>8, <2>1, LenProperties DEF Owned, Arrays, Kept
  <2>3. t \in Seq(SlotsOf(e)) /\ Len(t) = k
    BY TakingsFresh
  <2>4. /\ Len(u) = n + k /\ (\A i \in 1 .. n : u[i] = q[i])
        /\ \A i \in n + 1 .. n + k : i - n \in 1 .. k /\ u[i] = t[i - n]
    <3>1. PICK U : U = SlotsOf(e)
      OBVIOUS
    <3>2. q \in Seq(U) /\ t \in Seq(U) /\ n \in Nat /\ n = Len(q) /\ k = Len(t) /\ u = q \o t
      BY <2>1, <2>2, <2>3, <3>1
    <3> QED  BY <3>2, Joined
  <2>5. PICK b, b2, w, m, S, at, gate, p, late :
          /\ b = DepthsAt(pool, q) /\ b2 = DepthsAt(pool', u)
          /\ w = DepthsAt(pool, snapshot[e]) /\ m = Len(snapshot[e])
          /\ S = Sent /\ at = Place(e) /\ gate = Gate /\ p = pulls[e] /\ late = refused
    OBVIOUS
  <2>6. Layered(e, S, b, n, w, m, at, gate, p, late)
    BY <2>1, <2>5 DEF Sequenced, LayeredIn
  <2>7. \A i \in 1 .. n : b2[i] = b[i]
    <3>1. \A i \in 1 .. n : q[i] \in Kept(e)
      BY <2>1, <2>2 DEF Entries
    <3>2. \A i \in 1 .. n : i \in 1 .. Len(u)
      BY <2>2, <2>4
    <3> QED  BY <1>4, <2>1, <2>4, <2>5, <3>1, <3>2 DEF DepthsAt
  <2>8. ASSUME NEW i \in n + 1 .. n + k
        PROVE  /\ b2[i].of.ex = e /\ b2[i].of.src # "snap" /\ b2[i].i \in Nat
               /\ b2[i].of.src = "held" => at # "out" /\ b2[i].of.pull = p
    <3>1. PICK j \in 1 .. k : u[i] = t[j]
      BY <2>4
    <3>2. b2[i] = Entry(payload, j)
      <4>1. i \in 1 .. Len(u)
        BY <2>2, <2>4
      <4> QED  BY <1>4, <2>5, <3>1, <4>1 DEF DepthsAt
    <3>3. b2[i].of = payload /\ b2[i].i \in Nat
      BY <3>2 DEF Entry
    <3>4. /\ payload.ex = e /\ payload.src # "snap" /\ payload.pull = p
          /\ payload.src = "held" => call[e] # "run"
      BY <1>3, <2>5 DEF Text, Payload
    <3>5. call[e] # "run" => at # "out"
      BY <1>1, <2>5 DEF Place, Control
    <3> QED  BY <3>3, <3>4, <3>5
  <2>9. at \in {"read", "aside", "out"}
    BY <1>1, <2>5 DEF Place, Control
  <2>10. Layered(e, S, b2, n + k, w, m, at, gate, p, late)
    BY <2>6, <2>7, <2>8, <2>9, LayersText
  <2>11. DepthsAt(pool', snapshot[e]) = w
    <3>1. snapshot[e] \in Seq(SlotsOf(e)) /\ Entries(snapshot[e]) \subseteq Kept(e)
      BY <1>1 DEF Owned, Kept
    <3> QED  BY <1>4, <2>5, <3>1, DepthsSame
  <2> QED  BY <1>4, <1>5, <2>2, <2>4, <2>5, <2>10, <2>11 DEF LayeredIn
<1>9. ASSUME NEW f \in Exchanges PROVE LayeredIn(f)'
  <2>1. CASE f = e /\ buffer' = [buffer EXCEPT ![e] = @ \o t]
    BY <1>8, <2>1
  <2>2. CASE buffer' = buffer
    BY <1>7, <2>2
  <2>3. CASE f # e /\ buffer' = [buffer EXCEPT ![e] = @ \o t]
    BY <1>1, <1>7, <2>3 DEF Arrays
  <2> QED  BY <2>1, <2>2, <2>3
<1> QED  BY <1>4, <1>9, SameOrder DEF Sequenced

LEMMA PollTextOrder ==
  ASSUME Stocked, Traced, Stamped, Sequenced, NEW e \in Exchanges, PollText(e)
  PROVE  Sequenced'
<1>1. pc[e] = "read" /\ UNCHANGED <<snapshot, channel, reader, pulls, refused>>
  BY DEF PollText
<1>2. CASE PollAnswers(e, "BufferFull") /\ UNCHANGED <<pool, buffer>>
  <2>1. Control /\ Stock
    BY DEF Stocked
  <2>2. /\ \A f \in Exchanges : f # e => pc'[f] = pc[f] /\ call'[f] = call[f]
        /\ IF Place(e) \in {"send", "read"} THEN Place(e)' = "iter"
           ELSE Place(e) \in {"aside", "out"} /\ Place(e)' = Place(e)
    BY <1>1, <1>2, <2>1, AnswerMoves
  <2>3. Place(e) # "send"
    BY <1>1 DEF Place
  <2>4. Gate' = Gate => Moves(e)
    BY <2>2, <2>3 DEF Moves
  <2>5. Still
    BY <1>1, <1>2 DEF Still, reader
  <2> QED  BY <2>1, <2>2, <2>4, <2>5, StillKeeps
<1>3. ASSUME NEW k \in Sizes, NEW t \in Takings(e, k), Ingest(t, Text(e)), UNCHANGED control,
             buffer' = [buffer EXCEPT ![e] = @ \o t] \/ buffer' = buffer
      PROVE  Sequenced'
  <2>1. k \in Nat
    BY StreamAssumption
  <2> QED  BY <1>1, <1>3, <2>1, TextOrder
<1> QED  BY <1>2, <1>3 DEF PollText

\* What was sent was taken in, and so is what waits in the buffers.
LEMMA AllAccepted ==
  ASSUME Stock, Traced
  PROVE  /\ \A i \in DOMAIN Sent : Sent[i] \in accepted
         /\ \A f \in Exchanges : \A s \in Kept(f) : pool[s] \in accepted
<1>1. Channelled /\ Archived
  BY DEF Stock
<1>2. PICK U, T : U = Slots /\ T = accepted
  OBVIOUS
<1>3. /\ delivered \in Seq(T) /\ channel \in Seq(U)
      /\ \A y \in Entries(channel) : pool[y] \in T
  BY <1>1, <1>2, KeptApart DEF Traced, Channelled, Archived
<1>4. PICK a \in Nat, c \in Nat : a = Len(delivered) /\ c = Len(channel)
  BY <1>3, LenProperties
<1>5. Shaped(Carried(delivered, channel, pool), T, delivered, channel, pool, a, c)
  BY <1>3, <1>4, CarriedShape
<1>6. Sent \in [1 .. a + c -> T]
  BY <1>5 DEF Shaped, Sent, Carried
<1>7. \A f \in Exchanges : \A s \in Kept(f) : pool[s] \in accepted
  BY <1>1, KeptApart DEF Archived
<1> QED  BY <1>2, <1>6, <1>7

\* A snapshot is pulled.
LEMMA PulledOrder ==
  ASSUME Stocked, Traced, Stamped, Sequenced, NEW e \in Exchanges, PullOk(e)
  PROVE  Sequenced'
<1>1. Control /\ Counts /\ Stock /\ Arrays /\ Owned(e)
  BY DEF Stocked, Stock
<1>2. /\ UNCHANGED <<buffer, held, delivered, rx_open, channel, refused>>
      /\ pulls' = [pulls EXCEPT ![e] = @ + 1] /\ pc[e] = "pull" /\ Goto(e, "iter")
  BY DEF PullOk, reader
<1>3. PICK k \in Sizes : \E t \in Takings(e, k) :
        /\ snapshot' = [snapshot EXCEPT ![e] = t]
        /\ Ingest(t, Payload(e, "snap", pulls[e] + 1, pulls[e] + 1))
  BY DEF PullOk
<1>4. PICK t \in Takings(e, k) :
        /\ snapshot' = [snapshot EXCEPT ![e] = t]
        /\ Ingest(t, Payload(e, "snap", pulls[e] + 1, pulls[e] + 1))
  BY <1>3
<1>5. PICK p : p = pulls[e]
  OBVIOUS
<1>6. PICK payload : payload = Payload(e, "snap", p + 1, p + 1)
  OBVIOUS
<1>7. Ingest(t, payload) /\ k \in Nat
  BY <1>4, <1>5, <1>6, StreamAssumption
<1>8. /\ \A f \in Exchanges : \A s \in Kept(f) : pool'[s] = pool[s]
      /\ Sent' = Sent
      /\ \A i \in 1 .. k : pool'[t[i]] = Entry(payload, i)
  BY <1>1, <1>2, <1>7, IngestKeeps
<1>9. Gate' = Gate /\ \A f \in Exchanges : f # e => Place(f)' = Place(f)
  BY <1>1, <1>2, SamePlace DEF Gate, Goto, Control
<1>10. ASSUME NEW f \in Exchanges, f # e PROVE LayeredIn(f)'
  <2>1. /\ buffer'[f] = buffer[f] /\ snapshot'[f] = snapshot[f] /\ pulls'[f] = pulls[f]
        /\ refused' = refused
    BY <1>1, <1>2, <1>4, <1>10 DEF Arrays, Counts
  <2>2. Moves(f)
    BY <1>9, <1>10 DEF Moves
  <2> QED  BY <1>1, <1>8, <2>1, <2>2, MovesKeep DEF Sequenced
<1>11. LayeredIn(e)'
  <2>1. PICK q, b, n, w, w2, m, S, at2, gate, late :
          /\ q = buffer[e] /\ b = DepthsAt(pool, q) /\ n = Len(q)
          /\ w = DepthsAt(pool, snapshot[e]) /\ m = Len(snapshot[e])
          /\ w2 = DepthsAt(pool', t)
          /\ S = Sent /\ at2 = Place(e)' /\ gate = Gate /\ late = refused
    OBVIOUS
  <2>2. p \in Nat /\ pulls'[e] = p + 1 /\ snapshot'[e] = t
    BY <1>1, <1>2, <1>4, <1>5 DEF Counts, Arrays
  <2>3. Place(e) = "pull" /\ at2 \in {"iter", "aside"}
    BY <1>1, <1>2, <2>1 DEF Place, Goto, Control
  <2>4. Layered(e, S, b, n, w, m, "pull", gate, p, late)
    BY <1>5, <2>1, <2>3 DEF Sequenced, LayeredIn
  <2>5. Len(t) = k
    BY <1>7, TakingsFresh
  <2>6. \A j \in 1 .. k : OfSnap(w2[j], e, p + 1) /\ w2[j].i = j
    <3>1. \A j \in 1 .. k : w2[j] = Entry(payload, j)
      BY <1>8, <2>1, <2>5 DEF DepthsAt
    <3>2. payload.ex = e /\ payload.src = "snap" /\ payload.n = p + 1
      BY <1>6 DEF Payload
    <3>3. \A j : Entry(payload, j).of = payload /\ Entry(payload, j).i = j
      BY DEF Entry
    <3>4. \A j : OfSnap(Entry(payload, j), e, p + 1)
      BY <3>2, <3>3 DEF OfSnap
    <3> QED  BY <3>1, <3>3, <3>4
  <2>7. ASSUME NEW d \in accepted
        PROVE  /\ d.of.src = "held" /\ d.of.ex = e => d.of.pull # p + 1
               /\ ~OfSnap(d, e, p + 1)
    BY <1>5, <2>2 DEF Traced, Known, Stamped, Dated, OfSnap
  <2>8. \A i \in DOMAIN S : S[i] \in accepted
    BY <1>1, <2>1, AllAccepted
  <2>9. \A j \in 1 .. n : b[j] \in accepted
    <3>1. \A j \in 1 .. n : q[j] \in Kept(e)
      BY <2>1 DEF Kept, Entries
    <3> QED  BY <1>1, <2>1, <3>1, AllAccepted DEF DepthsAt
  <2>10. /\ \A i \in DOMAIN S : S[i].of.src = "held" /\ S[i].of.ex = e => S[i].of.pull # p + 1
         /\ \A i \in DOMAIN S : ~OfSnap(S[i], e, p + 1)
         /\ \A j \in 1 .. n : ~OfSnap(b[j], e, p + 1)
    BY <2>7, <2>8, <2>9
  <2>11. Layered(e, S, b, n, w2, k, at2, gate, p + 1, late)
    BY <1>7, <2>2, <2>3, <2>4, <2>6, <2>10, LayersPulled
  <2>12. DepthsAt(pool', q) = b
    <3>1. q \in Seq(SlotsOf(e)) /\ Entries(q) \subseteq Kept(e)
      BY <1>1, <2>1 DEF Owned, Kept
    <3> QED  BY <1>8, <2>1, <3>1, DepthsSame
  <2>13. /\ Sent' = S /\ DepthsAt(pool', buffer'[e]) = b /\ Len(buffer'[e]) = n
         /\ DepthsAt(pool', snapshot'[e]) = w2 /\ Len(snapshot'[e]) = k
         /\ Place(e)' = at2 /\ Gate' = gate /\ pulls'[e] = p + 1 /\ refused' = late
    BY <1>2, <1>8, <1>9, <2>1, <2>2, <2>5, <2>12
  <2> QED  BY <2>11, <2>13 DEF LayeredIn
<1> QED  BY <1>2, <1>8, <1>10, <1>11, SameOrder DEF Sequenced

LEMMA InitSequenced == Init => Sequenced
<1> SUFFICES ASSUME Init PROVE Sequenced
  OBVIOUS
<1>1. Len(<<>>) = 0 /\ DOMAIN <<>> = {} /\ 1 .. 0 = {}
  BY EmptySeq
<1>2. PICK u : u = [i \in DOMAIN channel |-> pool[channel[i]]]
  OBVIOUS
<1>3. Sent = <<>>
  <2>1. channel = <<>> /\ delivered = <<>>
    BY DEF Init
  <2>2. u = <<>>
    BY <1>1, <1>2, <2>1
  <2>3. Sent = delivered \o u
    BY <1>2 DEF Sent
  <2> QED  BY <2>1, <2>2, <2>3
<1>4. ASSUME NEW e \in Exchanges PROVE LayeredIn(e)
  <2>1. Len(buffer[e]) = 0 /\ Len(snapshot[e]) = 0 /\ Place(e) = "out"
    BY <1>1 DEF Init, Place
  <2>2. PICK b, w, gate, p, late :
          /\ b = DepthsAt(pool, buffer[e]) /\ w = DepthsAt(pool, snapshot[e])
          /\ gate = Gate /\ p = pulls[e] /\ late = refused
    OBVIOUS
  <2>3. Layered(e, <<>>, b, 0, w, 0, "out", gate, p, late)
    BY <1>1 DEF Layered, Loop
  <2> QED  BY <1>3, <2>1, <2>2, <2>3 DEF LayeredIn
<1>5. HeldLast(Sent) /\ BookOrder(Sent, refused)
  BY <1>1, <1>3 DEF HeldLast, BookOrder
<1> QED  BY <1>4, <1>5 DEF Sequenced

LEMMA NextSequenced ==
  ASSUME Stocked, Traced, Stamped, Sequenced, [Next]_vars
  PROVE  Sequenced'
<1>1. CASE UNCHANGED vars
  <2>1. Stock
    BY DEF Stocked
  <2>2. Sent' = Sent /\ Gate' = Gate /\ \A f \in Exchanges : Place(f)' = Place(f)
    BY <1>1 DEF vars, Sent, Gate, Place
  <2>3. \A f \in Exchanges : Moves(f)
    BY <2>2 DEF Moves
  <2>4. UNCHANGED <<buffer, snapshot, pulls, refused, pool>>
    BY <1>1 DEF vars
  <2> QED  BY <2>1, <2>2, <2>3, <2>4, MovingKeeps
<1>2. ASSUME NEW e \in Exchanges, Iterate(e) PROVE Sequenced'
  BY <1>2, LoopOrder, PushOrder
<1>3. ASSUME NEW e \in Exchanges, Poll(e) PROVE Sequenced'
  BY <1>2, <1>3, ReadOrder, PollSendOrder, PollTextOrder DEF Poll
<1>4. ASSUME NEW e \in Exchanges,
             \/ Connect(e) \/ Run(e) \/ RunSnapshot(e) \/ RunWithSnapshot(e)
             \/ PushBufferedWsDepths(e) \/ Cancel(e) \/ PullErr(e) \/ PullPanic(e)
      PROVE  Sequenced'
  BY <1>4, CallsOrder
<1> QED  BY <1>1, <1>3, <1>4, ReaderOrder, PulledOrder DEF Next

LEMMA SequencedHolds == Spec => [](Stocked /\ Traced /\ Stamped /\ Sequenced)
<1>1. Stocked /\ Traced /\ [Next]_vars => Traced'
  BY NextPath DEF Untouched, Accepting, Losing, Taking, Releasing, Closing
<1>2. Stocked /\ Traced /\ Stamped /\ Sequenced /\ [Next]_vars => Stamped' /\ Sequenced'
  BY NextStamped, NextSequenced
<1> QED  BY <1>1, <1>2, InitStocked, InitTraced, InitStamped, InitSequenced, NextStocked, PTL
         DEF Spec

\* The websocket depths that run_with_snapshot reads while it takes a snapshot
\* over are sent after the last depth of the snapshot ("to be sequenced aftr
\* snapshot depths are processed", stream.rs:213), also when the channel is
\* full on the way: they lie below the snapshot's depths on the stack.
THEOREM SnapshotPrecedesHeld == Spec => []SnapshotBeforeHeld
<1>1. Sequenced => SnapshotBeforeHeld
  BY DEF Sequenced, HeldLast, HeldAt, SnapshotBeforeHeld
<1> QED  BY <1>1, SequencedHolds, PTL

\* An exchange whose sends have never found the channel full sends the depths
\* of a snapshot in the order of the book: each is sent by the poll that follows
\* its push, before the next one is stacked upon it.
THEOREM SnapshotSentInOrder == Spec => []SnapshotInOrder
<1>1. Sequenced => SnapshotInOrder
  BY DEF Sequenced, BookOrder, SnapshotInOrder
<1> QED  BY <1>1, SequencedHolds, PTL
=============================================================================
