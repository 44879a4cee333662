--------------------------- MODULE ExchangeStream ---------------------------
(***************************************************************************)
(* The exchange crate: each exchange's stream turns websocket messages and *)
(* HTTP snapshots into depths archived in a pool of its own, and sends the *)
(* slots through one bounded channel to the reader, which releases them.   *)
(*                                                                         *)
(* Everything runs on one compio thread.  poll_next always answers Ready,  *)
(* so a caller that awaits it never yields: others run only while a stream *)
(* waits for a timer ("idle") or for an HTTP answer ("pull").              *)
(*                                                                         *)
(* websocket_depth_buffer is left out: the code drains it (push_buffered_  *)
(* ws_depths, run_with_snapshot) and nothing ever puts a depth in it.      *)
(***************************************************************************)
EXTENDS Integers, Sequences, FiniteSets

CONSTANTS
  Exchanges,    \* the exchanges that share the channel
  Name,         \* exchange_name: 1, 2, or a number without a parser
  SnapshotEnabled, \* what the configuration may say of each exchange
  BUF,          \* DEPTH_BUFFER_SIZE
  ChannelCap,   \* capacity of the depth channel
  Retries,      \* pull_retry_count
  Sizes,        \* how many depths a payload may hold
  MaxTexts,     \* bound: websocket texts each exchange may send
  MaxPulls,     \* bound: snapshots each exchange may answer
  NoSlot        \* the reader holds no slot

ASSUME StreamAssumption ==
  /\ IsFiniteSet(Exchanges)
  /\ Name \in [Exchanges -> 1 .. 3]
  /\ SnapshotEnabled \in [Exchanges -> SUBSET BOOLEAN]
  /\ BUF \in Nat \ {0} /\ ChannelCap \in Nat \ {0} /\ Retries \in Nat \ {0}
  /\ Sizes \subseteq Nat
  /\ MaxTexts \in [Exchanges -> Nat] /\ MaxPulls \in [Exchanges -> Nat]

\* Mutant: one buffer per exchange is forgotten.
PoolCapThreeBuffers == ChannelCap + 3 * BUF

\* The capacity of each exchange's own pool: a full channel, its three buffers
\* and the snapshot being ingested.
PoolCap == ChannelCap + 4 * BUF

\* A slot names the pool it lies in (pool_id).
Slots == Exchanges \X (1 .. PoolCap)

ASSUME NoSlotAssumption == NoSlot \notin Slots

VARIABLES
  socket,                   \* websocket reader: "none", "open" or "ended"
  stream_count,             \* the first message has been skipped
  buffer,                   \* slots to be sent, the next one last
  depth_update_buffer,      \* slots put aside
  buffer_websocket_depths,  \* a snapshot is being processed
  snapshot,                 \* slots of a pulled snapshot not yet pushed
  pc,                       \* where the exchange's task is
  call,                     \* which method it runs
  tries,                    \* failed pulls of this call
  result,                   \* how the last call ended
  pool,                     \* the depth archived in each slot taken, of all pools
  channel,                  \* slots sent and not yet received
  rx_open,                  \* the reader has not closed the channel
  held,                     \* the slot the reader views
  texts,                    \* number of websocket texts read
  skipped,                  \* history: texts taken for the answer to the subscription
  pulls,                    \* number of snapshots answered
  accepted,                 \* history: depths taken into the buffers
  delivered,                \* history: depths the reader has viewed, in order
  lost,                     \* history: depths released without being sent
  refused,                  \* history: exchanges that found the channel full
  http_client               \* the stream has an HTTP client; never changes

buffers == <<buffer, depth_update_buffer, snapshot>>
control == <<pc, call, tries, result>>
reader == <<rx_open, held, delivered>>
vars == <<socket, stream_count, buffer, depth_update_buffer,
          buffer_websocket_depths, snapshot, pc, call, tries, result, pool,
          channel, rx_open, held, texts, skipped, pulls, accepted, delivered, lost,
          refused, http_client>>

Init ==
  /\ socket = [e \in Exchanges |-> "none"]
  /\ stream_count = [e \in Exchanges |-> 0]
  /\ buffer = [e \in Exchanges |-> <<>>]
  /\ depth_update_buffer = [e \in Exchanges |-> <<>>]
  /\ buffer_websocket_depths = [e \in Exchanges |-> FALSE]
  /\ snapshot = [e \in Exchanges |-> <<>>]
  /\ pc = [e \in Exchanges |-> "idle"]
  /\ call = [e \in Exchanges |-> "none"]
  /\ tries = [e \in Exchanges |-> 0]
  /\ result = [e \in Exchanges |-> "none"]
  /\ pool = <<>>
  /\ channel = <<>>
  /\ rx_open = TRUE
  /\ held = NoSlot
  /\ texts = [e \in Exchanges |-> 0]
  /\ skipped = [e \in Exchanges |-> {}]
  /\ pulls = [e \in Exchanges |-> 0]
  /\ accepted = {}
  /\ delivered = <<>>
  /\ lost = {} /\ refused = {}
  /\ http_client \in {f \in [Exchanges -> BOOLEAN] :
                       \A e \in Exchanges : f[e] \in SnapshotEnabled[e]}

\* The task of an exchange is at an await that really waits.
AtAwait(e) == pc[e] \in {"idle", "pull", "panicked"}
Quiet == \A e \in Exchanges : AtAwait(e)

-----------------------------------------------------------------------------
(* The depth pools.  Which free slot an insert takes does not matter; the  *)
(* model takes the lowest.                                                 *)

FreeSlots(e) == {s \in Slots : s[1] = e} \ DOMAIN pool

\* The slots that k inserts in a row take in the pool of e.
Takings(e, k) ==
  {t \in [1 .. k -> FreeSlots(e)] :
     \A i \in 1 .. k : {s \in FreeSlots(e) : s[2] < t[i][2]} = {t[j] : j \in 1 .. i - 1}}

\* A payload: src tells a websocket text ("ws", or "held" when a snapshot loop
\* read it) from a snapshot ("snap"); n is its number, pull that of the last
\* snapshot.  A depth is an entry of a payload.
Payload(e, src, n, pull) == [ex |-> e, src |-> src, n |-> n, pull |-> pull]
Entry(payload, i) == [of |-> payload, i |-> i]

\* The depths of a payload are archived in the slots of t.
Ingest(t, payload) ==
  /\ pool' = [s \in DOMAIN pool \cup {t[i] : i \in DOMAIN t} |->
               IF s \in DOMAIN pool THEN pool[s]
               ELSE Entry(payload, CHOOSE i \in DOMAIN t : t[i] = s)]
  /\ accepted' = accepted \cup {Entry(payload, i) : i \in DOMAIN t}

\* pool without slot s
Released(s) == [r \in DOMAIN pool \ {s} |-> pool[r]]

\* Mutant: one depth too many.
FitsOneMore(e, k, used) == used + k <= BUF + 1 /\ k <= Cardinality(FreeSlots(e))

\* ingest_book has room for a payload of k depths in a buffer of e that
\* holds used.
Fits(e, k, used) == used + k <= BUF /\ k <= Cardinality(FreeSlots(e))

-----------------------------------------------------------------------------
(* Calls begin and end.                                                    *)

Begin(e, name, place) ==
  /\ Quiet /\ pc[e] = "idle"
  /\ pc' = [pc EXCEPT ![e] = place]
  /\ call' = [call EXCEPT ![e] = name]
  /\ tries' = [tries EXCEPT ![e] = 0]
  /\ result' = [result EXCEPT ![e] = "none"]

End(e, answer) ==
  /\ pc' = [pc EXCEPT ![e] = "idle"]
  /\ result' = [result EXCEPT ![e] = answer]
  /\ UNCHANGED <<call, tries>>

Panic(e) ==
  /\ pc' = [pc EXCEPT ![e] = "panicked"]
  /\ result' = [result EXCEPT ![e] = "panic"]
  /\ UNCHANGED <<call, tries>>

Goto(e, place) ==
  /\ pc' = [pc EXCEPT ![e] = place]
  /\ UNCHANGED <<call, tries, result>>

\* Mutant: a new connection starts with the answer to its own subscription.
ConnectAfresh(e) ==
  /\ Quiet /\ pc[e] = "idle" /\ socket[e] # "open"
  /\ socket' = [socket EXCEPT ![e] = "open"]
  /\ stream_count' = [stream_count EXCEPT ![e] = 0]
  /\ UNCHANGED <<buffers, buffer_websocket_depths, control, pool, channel, reader,
                 texts, skipped, pulls, accepted, lost, refused, http_client>>

\* start, and reconnect: a new connection replaces the reader and nothing else.
Connect(e) ==
  /\ Quiet /\ pc[e] = "idle" /\ socket[e] # "open"
  /\ socket' = [socket EXCEPT ![e] = "open"]
  /\ UNCHANGED <<stream_count, buffers, buffer_websocket_depths, control, pool,
                 channel, reader, texts, skipped, pulls, accepted,
                 lost, refused, http_client>>

\* run, after its sleep
Run(e) ==
  /\ Begin(e, "run", "send")
  /\ UNCHANGED <<socket, stream_count, buffers, buffer_websocket_depths, pool,
                 channel, reader, texts, skipped, pulls, accepted,
                 lost, refused, http_client>>

RunSnapshot(e) ==
  /\ Begin(e, "run_snapshot", "pull")
  /\ buffer_websocket_depths' = [buffer_websocket_depths EXCEPT ![e] = TRUE]
  /\ UNCHANGED <<socket, stream_count, buffers, pool, channel, reader, texts, skipped,
                 pulls, accepted, lost, refused, http_client>>

\* run_with_snapshot: woken by the snapshot trigger, or by its poll timer
RunWithSnapshot(e) ==
  /\ \/ /\ Begin(e, "run_with_snapshot", "pull")
        /\ buffer_websocket_depths' = [buffer_websocket_depths EXCEPT ![e] = TRUE]
     \/ /\ Begin(e, "run", "send")
        /\ UNCHANGED buffer_websocket_depths
  /\ UNCHANGED <<socket, stream_count, buffers, pool, channel, reader, texts, skipped,
                 pulls, accepted, lost, refused, http_client>>

PushBufferedWsDepths(e) ==
  /\ Quiet /\ pc[e] = "idle"
  /\ buffer_websocket_depths' = [buffer_websocket_depths EXCEPT ![e] = FALSE]
  /\ UNCHANGED <<socket, stream_count, buffers, control, pool, channel, reader,
                 texts, skipped, pulls, accepted, lost, refused, http_client>>

\* The task that awaits a snapshot is cancelled: its future is dropped.
Cancel(e) ==
  /\ Quiet /\ pc[e] = "pull"
  /\ End(e, "none")
  /\ UNCHANGED <<socket, stream_count, buffers, buffer_websocket_depths, pool,
                 channel, reader, texts, skipped, pulls, accepted,
                 lost, refused, http_client>>

-----------------------------------------------------------------------------
(* pull_depths: the HTTP answer is awaited, then parsed into pool slots.   *)

\* A pull fails: an exchange without a snapshot format, an HTTP error, a
\* malformed body or a body that does not fit.  Slots taken for a part of it
\* are released again.  run_snapshot gives up at once and leaves the flag
\* set; run_with_snapshot tries again, and when its tries are used up it goes
\* on as after a success.
PullErr(e) ==
  /\ Quiet /\ pc[e] = "pull"
  /\ Name[e] \in {1, 2} => http_client[e]
  /\ \/ /\ call[e] = "run_snapshot"
        /\ End(e, "Err")
        /\ UNCHANGED buffer_websocket_depths
     \/ /\ call[e] = "run_with_snapshot" /\ tries[e] + 1 < Retries
        /\ tries' = [tries EXCEPT ![e] = @ + 1]
        /\ UNCHANGED <<pc, call, result, buffer_websocket_depths>>
     \/ /\ call[e] = "run_with_snapshot" /\ tries[e] + 1 = Retries
        /\ tries' = [tries EXCEPT ![e] = @ + 1]
        /\ pc' = [pc EXCEPT ![e] = "idle"]
        /\ result' = [result EXCEPT ![e] = "Ok"]
        /\ call' = call
        /\ buffer_websocket_depths' = [buffer_websocket_depths EXCEPT ![e] = FALSE]
  /\ UNCHANGED <<socket, stream_count, buffers, pool, channel, reader, texts, skipped,
                 pulls, accepted, lost, refused, http_client>>

\* http_client is None: as_ref().unwrap() panics.
PullPanic(e) ==
  /\ Quiet /\ pc[e] = "pull"
  /\ Name[e] \in {1, 2} /\ ~http_client[e]
  /\ Panic(e)
  /\ UNCHANGED <<socket, stream_count, buffers, buffer_websocket_depths, pool,
                 channel, reader, texts, skipped, pulls, accepted,
                 lost, refused, http_client>>

PullOk(e) ==
  /\ Quiet /\ pc[e] = "pull"
  /\ Name[e] \in {1, 2} /\ http_client[e]
  /\ pulls[e] < MaxPulls[e]
  /\ pulls' = [pulls EXCEPT ![e] = @ + 1]
  /\ \E k \in Sizes : \E t \in Takings(e, k) :
       /\ Fits(e, k, 0)
       /\ snapshot' = [snapshot EXCEPT ![e] = t]
       /\ Ingest(t, Payload(e, "snap", pulls[e] + 1, pulls[e] + 1))
  /\ Goto(e, "iter")
  /\ UNCHANGED <<socket, stream_count, buffer, depth_update_buffer,
                 buffer_websocket_depths, channel, reader, texts, skipped,
                 lost, refused, http_client>>

\* Mutant: a snapshot depth goes below the depths already in the buffer.
StackedBelow(e, s) == <<s>> \o buffer[e]

\* buffer with slot s on top
Stacked(e, s) == Append(buffer[e], s)

\* Mutant: the stream is polled once, when the last depth has been pushed.
PollAfterLoop(e) == Goto(e, IF Len(snapshot[e]) > 1 THEN "iter" ELSE "send")

\* The stream is polled after each push.
PollAfterPush(e) == Goto(e, "send")

\* The loop over the pulled depths.  ArrayVec::push on a full buffer panics.
\* The loop goes on whatever the polls answer.
Iterate(e) ==
  /\ pc[e] = "iter"
  /\ \/ /\ snapshot[e] # <<>>
        /\ \/ /\ call[e] = "run_snapshot" /\ Len(depth_update_buffer[e]) < BUF
              /\ depth_update_buffer' =
                   [depth_update_buffer EXCEPT ![e] = Append(@, Head(snapshot[e]))]
              /\ snapshot' = [snapshot EXCEPT ![e] = Tail(@)]
              /\ buffer' = buffer
              /\ PollAfterPush(e)
           \/ /\ call[e] = "run_with_snapshot" /\ Len(buffer[e]) < BUF
              /\ buffer' = [buffer EXCEPT ![e] = Stacked(e, Head(snapshot[e]))]
              /\ snapshot' = [snapshot EXCEPT ![e] = Tail(@)]
              /\ depth_update_buffer' = depth_update_buffer
              /\ PollAfterPush(e)
           \/ /\ \/ call[e] = "run_snapshot" /\ Len(depth_update_buffer[e]) = BUF
                 \/ call[e] = "run_with_snapshot" /\ Len(buffer[e]) = BUF
              /\ Panic(e)
              /\ UNCHANGED buffers
        /\ UNCHANGED buffer_websocket_depths
     \/ /\ snapshot[e] = <<>>
        /\ buffer_websocket_depths' =
             [buffer_websocket_depths EXCEPT ![e] = @ /\ call[e] = "run_snapshot"]
        /\ End(e, "Ok")
        /\ UNCHANGED buffers
  /\ UNCHANGED <<socket, stream_count, pool, channel, reader, texts, skipped, pulls,
                 accepted, lost, refused, http_client>>

-----------------------------------------------------------------------------
(* poll_next.  First at most one slot is sent, then every message that the *)
(* socket has ready is read.                                               *)

\* The caller of next() goes on: run maps the poll's answer to its own, the
\* snapshot loops ignore it.
PollAnswers(e, state) ==
  IF call[e] = "run"
  THEN End(e, IF state \in {"Success", "WaitingForDepth"} THEN "Ok" ELSE "Err")
  ELSE Goto(e, "iter")

Top(e) == buffer[e][Len(buffer[e])]
Popped(e) == [buffer EXCEPT ![e] = SubSeq(@, 1, Len(@) - 1)]

\* Mutants: the slot is forgotten; it is released as on a closed channel.
Forget(e) == buffer' = Popped(e) /\ UNCHANGED <<pool, lost>>
GiveUp(e) ==
  /\ buffer' = Popped(e)
  /\ pool' = Released(Top(e))
  /\ lost' = lost \cup {pool[Top(e)]}

\* On a full channel the slot goes back where it was.
PutBack(e) == UNCHANGED <<buffer, pool, lost>>

PollSend(e) ==
  /\ pc[e] = "send"
  /\ \/ /\ buffer[e] = <<>>
        /\ Goto(e, "read")
        /\ UNCHANGED <<buffer, channel, pool, lost, refused>>
     \/ /\ buffer[e] # <<>> /\ rx_open /\ Len(channel) < ChannelCap
        /\ channel' = Append(channel, Top(e))
        /\ buffer' = Popped(e)
        /\ Goto(e, "read")
        /\ UNCHANGED <<pool, lost, refused>>
     \/ /\ buffer[e] # <<>> /\ rx_open /\ Len(channel) = ChannelCap
        /\ PutBack(e)
        /\ PollAnswers(e, "SenderError")
        /\ refused' = refused \cup {e}
        /\ channel' = channel
     \* closed: the slot is released
     \/ /\ buffer[e] # <<>> /\ ~rx_open
        /\ buffer' = Popped(e)
        /\ pool' = Released(Top(e))
        /\ lost' = lost \cup {pool[Top(e)]}
        /\ PollAnswers(e, "SenderError")
        /\ UNCHANGED <<channel, refused>>
  /\ UNCHANGED <<socket, stream_count, depth_update_buffer, snapshot,
                 buffer_websocket_depths, reader, texts, skipped, pulls,
                 accepted, http_client>>

\* The buffer ingest_book appends a text's depths to.
Target(e) == IF Name[e] = 1 THEN buffer[e] ELSE depth_update_buffer[e]

\* The next text of e.
Text(e) ==
  Payload(e, IF call[e] = "run" THEN "ws" ELSE "held", texts[e] + 1, pulls[e])

\* What the socket yields ends the poll, before any depth is ingested.
PollEnds(e) ==
  /\ pc[e] = "read"
  /\ \/ /\ socket[e] = "none"
        /\ PollAnswers(e, "FailedStream")
        /\ UNCHANGED socket
     \* nothing ready, the connection has ended, or a name without a parser
     \/ /\ socket[e] # "none"
        /\ PollAnswers(e, "WaitingForDepth")
        /\ socket' \in {socket, [socket EXCEPT ![e] = "ended"]}
     \/ /\ socket[e] = "open"
        /\ PollAnswers(e, "WSError")
        /\ socket' \in {socket, [socket EXCEPT ![e] = "ended"]}
  /\ UNCHANGED <<stream_count, buffers, buffer_websocket_depths, pool, channel, reader,
                 texts, skipped, pulls, accepted, lost, refused, http_client>>

\* The first message ever is taken for the answer to the subscription.  It may
\* be a ping, or, of an exchange that does not answer, a text with depths.
PollSkips(e) ==
  /\ pc[e] = "read"
  /\ socket[e] = "open" /\ Name[e] \in {1, 2} /\ stream_count[e] # 1
  /\ stream_count' = [stream_count EXCEPT ![e] = 1]
  /\ PollAnswers(e, "Success")
  /\ \/ UNCHANGED <<texts, skipped>>
     \/ /\ texts[e] < MaxTexts[e]
        /\ texts' = [texts EXCEPT ![e] = @ + 1]
        /\ skipped' = [skipped EXCEPT ![e] = @ \cup {texts[e] + 1}]
  /\ UNCHANGED <<socket, buffers, buffer_websocket_depths, pool, channel, reader,
                 pulls, accepted, lost, refused, http_client>>

\* A text is read.  Pings, pongs, binary messages and malformed texts that
\* would have fitted leave the loop where it is: no step of the model.
PollText(e) ==
  /\ pc[e] = "read"
  /\ socket[e] = "open" /\ Name[e] \in {1, 2} /\ stream_count[e] = 1
  /\ texts[e] < MaxTexts[e]
  /\ texts' = [texts EXCEPT ![e] = @ + 1]
  /\ \E k \in Sizes :
       \/ /\ Fits(e, k, Len(Target(e)))
          /\ \E t \in Takings(e, k) :
               /\ Ingest(t, Text(e))
               /\ IF Name[e] = 1
                  THEN /\ buffer' = [buffer EXCEPT ![e] = @ \o t]
                       /\ UNCHANGED depth_update_buffer
                  ELSE /\ depth_update_buffer' = [depth_update_buffer EXCEPT ![e] = @ \o t]
                       /\ UNCHANGED buffer
          /\ UNCHANGED control
       \* no room: the slots taken so far are released
       \/ /\ ~Fits(e, k, Len(Target(e)))
          /\ PollAnswers(e, "BufferFull")
          /\ UNCHANGED <<pool, accepted, buffer, depth_update_buffer>>
  /\ UNCHANGED <<socket, stream_count, snapshot, buffer_websocket_depths,
                 channel, reader, skipped, pulls, lost, refused, http_client>>

-----------------------------------------------------------------------------
(* The reader of the channel, which is outside this crate: it takes a      *)
(* slot, views the depth in place, and releases the slot when done.        *)

Take ==
  /\ Quiet /\ rx_open /\ held = NoSlot /\ channel # <<>>
  /\ held' = Head(channel)
  /\ channel' = Tail(channel)
  /\ delivered' = Append(delivered, pool[Head(channel)])
  /\ UNCHANGED <<socket, stream_count, buffers, buffer_websocket_depths, control,
                 pool, rx_open, texts, skipped, pulls, accepted,
                 lost, refused, http_client>>

Release ==
  /\ Quiet /\ held # NoSlot
  /\ held' = NoSlot
  /\ pool' = Released(held)
  /\ UNCHANGED <<socket, stream_count, buffers, buffer_websocket_depths, control,
                 channel, rx_open, delivered, texts, skipped, pulls, accepted,
                 lost, refused, http_client>>

\* The reader goes away; nobody releases the slots left in the channel.
Close ==
  /\ Quiet /\ rx_open
  /\ rx_open' = FALSE
  /\ UNCHANGED <<socket, stream_count, buffers, buffer_websocket_depths, control,
                 pool, channel, held, delivered, texts, skipped, pulls, accepted,
                 lost, refused, http_client>>

-----------------------------------------------------------------------------

\* What a stream does by itself once a call has begun, HTTP apart.
Poll(e) == Iterate(e) \/ PollSend(e) \/ PollEnds(e) \/ PollSkips(e) \/ PollText(e)

Next ==
  \/ \E e \in Exchanges :
       \/ Connect(e) \/ Run(e) \/ RunSnapshot(e) \/ RunWithSnapshot(e)
       \/ PushBufferedWsDepths(e) \/ Cancel(e)
       \/ PullOk(e) \/ PullErr(e) \/ PullPanic(e)
       \/ Poll(e)
  \/ Take \/ Release \/ Close

Spec == Init /\ [][Next]_vars

\* The executor runs every task in turn: a socket poll that began goes on to
\* its answer, the streams are polled again and again, an HTTP request is
\* answered or fails, and the reader goes on reading.  An action that only
\* waits for its turn between polls is strongly fair.
FairSpec ==
  /\ Spec
  /\ \A e \in Exchanges :
       /\ WF_vars(Poll(e))
       /\ SF_vars(Run(e))
       /\ SF_vars(PullOk(e) \/ PullErr(e) \/ PullPanic(e))
  /\ SF_vars(Take) /\ SF_vars(Release)

-----------------------------------------------------------------------------
(* Properties.                                                             *)

\* Every variable has its type.
TypeOK ==
  /\ socket \in [Exchanges -> {"none", "open", "ended"}]
  /\ stream_count \in [Exchanges -> {0, 1}]
  /\ \A e \in Exchanges : \A s \in {buffer[e], depth_update_buffer[e], snapshot[e]} :
       DOMAIN s = 1 .. Len(s) /\ Len(s) <= BUF /\ \A i \in DOMAIN s : s[i] \in Slots
  /\ buffer_websocket_depths \in [Exchanges -> BOOLEAN]
  /\ pc \in [Exchanges -> {"idle", "pull", "iter", "send", "read", "panicked"}]
  /\ call \in [Exchanges -> {"none", "run", "run_snapshot", "run_with_snapshot"}]
  /\ tries \in [Exchanges -> 0 .. Retries]
  /\ result \in [Exchanges -> {"none", "Ok", "Err", "panic"}]
  /\ DOMAIN pool \subseteq Slots /\ \A s \in DOMAIN pool : pool[s] \in accepted
  /\ Len(channel) <= ChannelCap /\ \A i \in DOMAIN channel : channel[i] \in Slots
  /\ rx_open \in BOOLEAN
  /\ held \in Slots \cup {NoSlot}
  /\ \A e \in Exchanges : texts[e] \in 0 .. MaxTexts[e] /\ pulls[e] \in 0 .. MaxPulls[e]
  /\ \A e \in Exchanges : skipped[e] \subseteq 1 .. MaxTexts[e]
  /\ http_client \in [Exchanges -> BOOLEAN]

\* Where slot s is kept.
PlacesOf(s) ==
  (UNION { {<<e, "buffer", i>> : i \in {j \in DOMAIN buffer[e] : buffer[e][j] = s}}
           \cup {<<e, "aside", i>> : i \in {j \in DOMAIN depth_update_buffer[e] :
                                             depth_update_buffer[e][j] = s}}
           \cup {<<e, "snapshot", i>> : i \in {j \in DOMAIN snapshot[e] : snapshot[e][j] = s}}
         : e \in Exchanges })
  \cup {<<"channel", i>> : i \in {j \in DOMAIN channel : channel[j] = s}}
  \cup {<<"reader">> : x \in {held} \cap {s}}

\* "On any failure every slot taken for this payload is released so nothing
\* leaks" (stream.rs:55), and beyond: between the parser, the four places of a
\* stream, the channel and the reader, a slot that is taken is in exactly one
\* place and a free slot in none, so no slot leaks, none is sent twice, and
\* none is reused while somebody still holds it.
SlotsConserved ==
  \A s \in Slots : Cardinality(PlacesOf(s)) = IF s \in DOMAIN pool THEN 1 ELSE 0

\* "it only runs dry if the reader stops releasing slots" (exchange.rs:39): a
\* payload is never refused for want of a slot while its buffer has room.
PoolOutlastsBuffers ==
  \A e \in Exchanges :
    /\ pc[e] = "read" => Cardinality(FreeSlots(e)) >= BUF - Len(Target(e))
    /\ pc[e] = "pull" => Cardinality(FreeSlots(e)) >= BUF

\* A depth taken into the buffers is viewed by the reader at most once, and is
\* not dropped on the way while the reader is there: it waits in a slot of its
\* own, was viewed, or was released because the reader has gone.
DepthsConserved ==
  LET waiting == DOMAIN pool \ {held}
      inWait == {pool[s] : s \in waiting}
      viewed == {delivered[i] : i \in DOMAIN delivered}
  IN  /\ accepted = inWait \cup viewed \cup lost
      /\ inWait \cap viewed = {} /\ inWait \cap lost = {} /\ viewed \cap lost = {}
      /\ Cardinality(inWait) = Cardinality(waiting)
      /\ Cardinality(viewed) = Len(delivered)
      /\ lost # {} => ~rx_open

\* Through the pool, the exchanges and the channel are the path DepthPath
\* describes: a depth waits in a slot of its own, is viewed in its slot, and
\* never comes back when the slot is used again.
Path == INSTANCE DepthPath WITH
  waiting <- {pool[s] : s \in DOMAIN pool \ {held}},
  viewing <- {pool[s] : s \in {held} \ {NoSlot}},
  viewed <- delivered,
  open <- rx_open
Refinement == Path!Spec

\* What went into the channel, in order.
Sent == delivered \o [i \in DOMAIN channel |-> pool[channel[i]]]

\* "websocket depths are stored in their own buffer to be sequenced aftr
\* snapshot depths are processed" (stream.rs:213): no websocket depth read
\* during a snapshot is sent before a depth of that snapshot.
SnapshotBeforeHeld ==
  \A i, j \in DOMAIN Sent :
    /\ Sent[i].of.src = "held" /\ Sent[j].of.src = "snap"
    /\ Sent[i].of.ex = Sent[j].of.ex /\ Sent[i].of.pull = Sent[j].of.n
    => j < i

\* As long as no send of an exchange has found the channel full, the depths of
\* its snapshots are sent in the order of the book, though buffer is a stack
\* and websocket depths pile up in it.
SnapshotInOrder ==
  \A i, j \in DOMAIN Sent :
    /\ Sent[i].of.src = "snap" /\ Sent[i].of.ex \notin refused
    /\ Sent[j].of = Sent[i].of /\ Sent[i].i < Sent[j].i
    => i < j

\* No depth is lost to a reconnection: the message that is skipped unread as
\* "the NULL message from binance" (stream.rs:447) is the first the stream ever
\* reads, however often the connection is lost and made again, and the answer
\* to a later subscription is left to the parser.
ReconnectSkipsNothing == \A e \in Exchanges : skipped[e] \subseteq {1}

\* The same comment, where it stands, in run_snapshot: while the loop over a
\* snapshot runs, the websocket depths it reads are stored, not sent.
HeldDepthsAreKept ==
  \A e \in Exchanges : pc[e] \in {"iter", "send", "read"} /\ call[e] # "run" =>
    \A i \in DOMAIN Sent : ~(/\ Sent[i].of.ex = e /\ Sent[i].of.src = "held"
                              /\ Sent[i].of.pull = pulls[e])

Reached(e, source, n, i) ==
  \E k \in DOMAIN delivered :
    /\ delivered[k].of.ex = e /\ delivered[k].of.src \in source
    /\ delivered[k].of.n = n /\ delivered[k].i = i
Expected(e, source, n, i) ==
  \E d \in accepted : d.of.ex = e /\ d.of.src \in source /\ d.of.n = n /\ d.i = i
Stopped(e) == ~rx_open \/ pc[e] = "panicked"

\* Every websocket depth that was taken in reaches the reader, through full
\* channels ("keep the depth for the next poll", stream.rs:423), snapshots and
\* later texts stacked above it.
WsDepthsReachReader ==
  \A e \in Exchanges : \A n \in 1 .. MaxTexts[e], i \in 1 .. BUF :
    Expected(e, {"ws", "held"}, n, i) ~> Reached(e, {"ws", "held"}, n, i) \/ Stopped(e)
=============================================================================
