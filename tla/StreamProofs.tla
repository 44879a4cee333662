---------------------------- MODULE StreamProofs ----------------------------
(* Theorems about ExchangeStream, for every set of exchanges, every size   *)
(* of the buffers and of the channel, and all payloads.                    *)
EXTENDS ExchangeStream, SequenceTheorems, FiniteSetTheorems, TLAPS

-----------------------------------------------------------------------------
(* Sequences in which nothing comes twice.                                 *)

Entries(s) == {s[i] : i \in 1 .. Len(s)}

\* No entry of s comes twice.
Once(s) == \A i, j \in 1 .. Len(s) : s[i] = s[j] => i = j

LEMMA EntriesType ==
  ASSUME NEW T, NEW s \in Seq(T)
  PROVE  /\ Entries(s) \subseteq T
         /\ Entries(s) = {} <=> s = <<>>
<1>1. PICK k \in Nat : k = Len(s)
  BY LenProperties
<1>2. \A i \in 1 .. k : s[i] \in T
  BY <1>1, ElementOfSeq
<1>3. s # <<>> => 1 \in 1 .. k
  BY <1>1, EmptySeq
<1>4. s = <<>> => k = 0
  BY <1>1, EmptySeq
<1>5. Entries(s) = {s[i] : i \in 1 .. k}
  BY <1>1 DEF Entries
<1>6. Entries(s) \subseteq T
  BY <1>2, <1>5
<1>7. s # <<>> => Entries(s) # {}
  BY <1>3, <1>5
<1>8. s = <<>> => Entries(s) = {}
  <2>1. k = 0 => 1 .. k = {}
    OBVIOUS
  <2> QED  BY <1>4, <1>5, <2>1
<1> QED  BY <1>6, <1>7, <1>8

LEMMA AppendOnce ==
  ASSUME NEW T, NEW s \in Seq(T), NEW x \in T, x \notin Entries(s), Once(s)
  PROVE  /\ Append(s, x) \in Seq(T) /\ Len(Append(s, x)) = Len(s) + 1
         /\ Entries(Append(s, x)) = Entries(s) \cup {x} /\ Once(Append(s, x))
<1>1. PICK u : u = Append(s, x)
  OBVIOUS
<1>2. PICK k \in Nat : k = Len(s)
  BY LenProperties
<1>3. u \in Seq(T) /\ Len(u) = k + 1 /\ (\A i \in 1 .. k : u[i] = s[i]) /\ u[k + 1] = x
  BY <1>1, <1>2, AppendProperties
<1>4. \A i \in 1 .. k + 1 : i \in 1 .. k \/ i = k + 1
  BY <1>2
<1>5. 1 .. k \subseteq 1 .. k + 1 /\ k + 1 \in 1 .. k + 1
  BY <1>2
<1>6. \A i \in 1 .. k : s[i] # x
  BY <1>2 DEF Entries
<1>7. Entries(u) = Entries(s) \cup {x}
  BY <1>2, <1>3, <1>4, <1>5 DEF Entries
<1>8. Once(u)
  BY <1>2, <1>3, <1>4, <1>6 DEF Once
<1> QED  BY <1>1, <1>2, <1>3, <1>7, <1>8

LEMMA TailOnce ==
  ASSUME NEW T, NEW s \in Seq(T), s # <<>>, Once(s)
  PROVE  /\ Head(s) \in T /\ Head(s) \in Entries(s)
         /\ Tail(s) \in Seq(T) /\ Len(Tail(s)) = Len(s) - 1
         /\ Entries(Tail(s)) = Entries(s) \ {Head(s)} /\ Once(Tail(s))
<1>1. PICK u, h : u = Tail(s) /\ h = Head(s)
  OBVIOUS
<1>2. PICK k \in Nat : k = Len(s)
  BY LenProperties
<1>3. k # 0 /\ h = s[1]
  BY <1>1, <1>2, EmptySeq
<1>4. /\ h \in T /\ u \in Seq(T) /\ Len(u) = k - 1
      /\ \A i \in 1 .. k - 1 : u[i] = s[i + 1]
  BY <1>1, <1>2, HeadTailProperties
<1>5. \A i \in 1 .. k : i = 1 \/ (i - 1 \in 1 .. k - 1 /\ (i - 1) + 1 = i)
  BY <1>2
<1>6. \A i \in 1 .. k - 1 : i + 1 \in 1 .. k /\ i + 1 # 1
  BY <1>2
<1>7. 1 \in 1 .. k
  BY <1>2, <1>3
<1>8. Entries(u) = Entries(s) \ {h}
  <2>1. ASSUME NEW x \in Entries(u) PROVE x \in Entries(s) \ {h}
    <3>1. PICK i \in 1 .. k - 1 : x = u[i]
      BY <1>4 DEF Entries
    <3>2. x = s[i + 1] /\ i + 1 \in 1 .. k /\ i + 1 # 1
      BY <3>1, <1>4, <1>6
    <3>3. x # s[1]
      BY <3>2, <1>2, <1>7 DEF Once
    <3> QED  BY <3>2, <3>3, <1>2, <1>3 DEF Entries
  <2>2. ASSUME NEW x \in Entries(s) \ {h} PROVE x \in Entries(u)
    <3>1. PICK i \in 1 .. k : x = s[i]
      BY <1>2 DEF Entries
    <3>2. i - 1 \in 1 .. k - 1 /\ (i - 1) + 1 = i
      BY <3>1, <2>2, <1>3, <1>5
    <3>3. u[i - 1] = x
      BY <3>1, <3>2, <1>4
    <3> QED  BY <3>2, <3>3, <1>4 DEF Entries
  <2> QED  BY <2>1, <2>2
<1>9. Once(u)
  BY <1>2, <1>4, <1>6 DEF Once
<1>10. h \in Entries(s)
  BY <1>2, <1>3, <1>7 DEF Entries
<1> QED  BY <1>1, <1>2, <1>4, <1>8, <1>9, <1>10

LEMMA FrontOnce ==
  ASSUME NEW T, NEW s \in Seq(T), s # <<>>, Once(s)
  PROVE  /\ s[Len(s)] \in T /\ s[Len(s)] \in Entries(s)
         /\ SubSeq(s, 1, Len(s) - 1) \in Seq(T)
         /\ Len(SubSeq(s, 1, Len(s) - 1)) = Len(s) - 1
         /\ Entries(SubSeq(s, 1, Len(s) - 1)) = Entries(s) \ {s[Len(s)]}
         /\ Once(SubSeq(s, 1, Len(s) - 1))
<1>1. PICK k \in Nat : k = Len(s)
  BY LenProperties
<1>2. k # 0
  BY <1>1, EmptySeq
<1>3. PICK u : u = SubSeq(s, 1, k - 1)
  OBVIOUS
<1>4. /\ u \in Seq(T) /\ Len(u) = k - 1
      /\ \A i \in 1 .. k - 1 : u[i] = s[i]
  <2>1. /\ 1 \in 1 .. Len(s) + 1 /\ k - 1 \in 1 - 1 .. Len(s)
    BY <1>1, <1>2
  <2>2. u \in Seq(T)
    BY <1>1, <1>2, <1>3
  <2>3. Len(u) = k - 1 /\ \A i \in 1 .. k - 1 : u[i] = s[i]
    BY <1>1, <1>2, <1>3
  <2> QED  BY <2>2, <2>3
<1>5. \A i \in 1 .. k : i = k \/ i \in 1 .. k - 1
  BY <1>1
<1>6. k \in 1 .. k /\ \A i \in 1 .. k - 1 : i \in 1 .. k /\ i # k
  BY <1>1, <1>2
<1>7. \A i, j \in 1 .. k : s[i] = s[j] => i = j
  BY <1>1 DEF Once
<1>8. Entries(u) = Entries(s) \ {s[k]}
  <2>1. Entries(u) = {u[i] : i \in 1 .. k - 1} /\ Entries(s) = {s[i] : i \in 1 .. k}
    BY <1>1, <1>4 DEF Entries
  <2> QED  BY <2>1, <1>4, <1>5, <1>6, <1>7
<1>9. Once(u)
  BY <1>4, <1>6, <1>7 DEF Once
<1>10. s[k] \in Entries(s) /\ s[k] \in T
  BY <1>1, <1>6, ElementOfSeq DEF Entries
<1> QED  BY <1>1, <1>3, <1>4, <1>8, <1>9, <1>10

LEMMA ConcatOnce ==
  ASSUME NEW T, NEW s \in Seq(T), NEW t \in Seq(T),
         Once(s), Once(t), Entries(s) \cap Entries(t) = {}
  PROVE  /\ s \o t \in Seq(T) /\ Len(s \o t) = Len(s) + Len(t)
         /\ Entries(s \o t) = Entries(s) \cup Entries(t) /\ Once(s \o t)
<1>1. PICK k \in Nat : k = Len(s)
  BY LenProperties
<1>2. PICK m \in Nat : m = Len(t)
  BY LenProperties
<1>3. PICK u : u = s \o t
  OBVIOUS
<1>4. /\ u \in Seq(T) /\ Len(u) = k + m
      /\ \A i \in 1 .. k + m : u[i] = IF i <= k THEN s[i] ELSE t[i - k]
  BY <1>1, <1>2, <1>3
<1>5. /\ \A i \in 1 .. k + m : IF i <= k THEN i \in 1 .. k ELSE i - k \in 1 .. m
      /\ \A i \in 1 .. k : i \in 1 .. k + m /\ i <= k
      /\ \A j \in 1 .. m : k + j \in 1 .. k + m /\ ~(k + j <= k) /\ (k + j) - k = j
  BY <1>1, <1>2
<1>6. \A i \in 1 .. k, j \in 1 .. m : s[i] # t[j]
  BY <1>1, <1>2 DEF Entries
<1>7. Entries(u) = Entries(s) \cup Entries(t)
  <2>1. ASSUME NEW x \in Entries(u) PROVE x \in Entries(s) \cup Entries(t)
    <3>1. PICK i \in 1 .. k + m : x = u[i]
      BY <1>4 DEF Entries
    <3>2. CASE i <= k
      BY <3>1, <3>2, <1>1, <1>4, <1>5 DEF Entries
    <3>3. CASE ~(i <= k)
      BY <3>1, <3>3, <1>2, <1>4, <1>5 DEF Entries
    <3> QED  BY <3>2, <3>3
  <2>2. Entries(s) \subseteq Entries(u)
    BY <1>1, <1>4, <1>5 DEF Entries
  <2>3. ASSUME NEW x \in Entries(t) PROVE x \in Entries(u)
    <3>1. PICK j \in 1 .. m : x = t[j]
      BY <1>2 DEF Entries
    <3>2. k + j \in 1 .. k + m /\ u[k + j] = x
      BY <3>1, <1>4, <1>5
    <3> QED  BY <3>2, <1>4 DEF Entries
  <2> QED  BY <2>1, <2>2, <2>3
<1>8. Once(u)
  <2>1. ASSUME NEW i \in 1 .. k + m, NEW j \in 1 .. k + m, u[i] = u[j]
        PROVE  i = j
    <3>1. CASE i <= k /\ j <= k
      BY <2>1, <3>1, <1>1, <1>4, <1>5 DEF Once
    <3>2. CASE ~(i <= k) /\ ~(j <= k)
      <4>1. i - k \in 1 .. m /\ j - k \in 1 .. m /\ t[i - k] = t[j - k]
        BY <2>1, <3>2, <1>4, <1>5
      <4>2. i - k = j - k
        BY <4>1, <1>2 DEF Once
      <4> QED  BY <4>2, <1>1, <1>2
    <3>3. CASE (i <= k) # (j <= k)
      BY <2>1, <3>3, <1>4, <1>5, <1>6
    <3> QED  BY <3>1, <3>2, <3>3
  <2> QED  BY <2>1, <1>4 DEF Once
<1> QED  BY <1>1, <1>2, <1>3, <1>4, <1>7, <1>8

-----------------------------------------------------------------------------
(* The inductive invariant.                                                *)

SlotsOf(e) == {s \in Slots : s[1] = e}

\* Where the task of each exchange is, and what follows from it: while a pull
\* is awaited, and between two calls, no pulled depth waits to be pushed.
Control ==
  /\ socket \in [Exchanges -> {"none", "open", "ended"}]
  /\ buffer_websocket_depths \in [Exchanges -> BOOLEAN]
  /\ pc \in [Exchanges -> {"idle", "pull", "iter", "send", "read", "panicked"}]
  /\ call \in [Exchanges -> {"none", "run", "run_snapshot", "run_with_snapshot"}]
  /\ tries \in [Exchanges -> 0 .. Retries]
  /\ result \in [Exchanges -> {"none", "Ok", "Err", "panic"}]
  /\ http_client \in [Exchanges -> BOOLEAN]
  /\ \A e \in Exchanges :
       /\ pc[e] # "idle" => call[e] # "none"
       /\ pc[e] \in {"pull", "iter", "panicked"} => call[e] # "run"
       /\ pc[e] \in {"idle", "pull"} \/ call[e] = "run" => snapshot[e] = <<>>

\* Texts are skipped only before the first has been read.
Counts ==
  /\ stream_count \in [Exchanges -> {0, 1}]
  /\ texts \in [Exchanges -> Nat] /\ pulls \in [Exchanges -> Nat]
  /\ skipped \in [Exchanges -> SUBSET {1}]
  /\ \A e \in Exchanges :
       /\ texts[e] <= MaxTexts[e] /\ pulls[e] <= MaxPulls[e]
       /\ stream_count[e] = 0 => texts[e] = 0
       /\ texts[e] = 0 => skipped[e] = {}

\* The slots that e keeps, and its slots that it has sent.
Kept(e) == Entries(buffer[e]) \cup Entries(depth_update_buffer[e]) \cup Entries(snapshot[e])
Away(e) == {s \in SlotsOf(e) : s \in Entries(channel) \/ s = held}

\* Each slot of the pool of e is in one place if it is taken, in none if not.
Owned(e) ==
  /\ buffer[e] \in Seq(SlotsOf(e)) /\ Len(buffer[e]) <= BUF /\ Once(buffer[e])
  /\ /\ depth_update_buffer[e] \in Seq(SlotsOf(e)) /\ Len(depth_update_buffer[e]) <= BUF
     /\ Once(depth_update_buffer[e])
  /\ snapshot[e] \in Seq(SlotsOf(e)) /\ Len(snapshot[e]) <= BUF /\ Once(snapshot[e])
  /\ Entries(buffer[e]) \cap Entries(depth_update_buffer[e]) = {}
  /\ Entries(buffer[e]) \cap Entries(snapshot[e]) = {}
  /\ Entries(depth_update_buffer[e]) \cap Entries(snapshot[e]) = {}
  /\ Kept(e) \cap Away(e) = {}
  /\ SlotsOf(e) \cap DOMAIN pool = Kept(e) \cup Away(e)

Channelled ==
  /\ channel \in Seq(Slots) /\ Len(channel) <= ChannelCap /\ Once(channel)
  /\ rx_open \in BOOLEAN
  /\ held \in Slots \cup {NoSlot} /\ held \notin Entries(channel)
  /\ DOMAIN pool \subseteq Slots

\* The pool holds depths that were taken in.
Archived == pool \in [DOMAIN pool -> accepted]

Arrays ==
  /\ buffer \in [Exchanges -> Seq(Slots)]
  /\ depth_update_buffer \in [Exchanges -> Seq(Slots)]
  /\ snapshot \in [Exchanges -> Seq(Slots)]

Stock == Arrays /\ Channelled /\ Archived /\ \A e \in Exchanges : Owned(e)

Stocked == Control /\ Counts /\ Stock

-----------------------------------------------------------------------------
(* Where the tasks are, and what they have counted.                        *)

LEMMA InitControl == Init => Control
<1> SUFFICES ASSUME Init PROVE Control
  OBVIOUS
<1>1. \A e \in Exchanges : pc[e] = "idle" /\ call[e] = "none" /\ snapshot[e] = <<>>
  BY DEF Init
<1>2. tries \in [Exchanges -> 0 .. Retries]
  BY StreamAssumption DEF Init
<1>3. http_client \in [Exchanges -> BOOLEAN] /\ buffer_websocket_depths \in [Exchanges -> BOOLEAN]
  BY DEF Init
<1> QED  BY <1>1, <1>2, <1>3 DEF Init, Control

LEMMA CallControl ==
  ASSUME Control, NEW e \in Exchanges,
         Run(e) \/ RunSnapshot(e) \/ RunWithSnapshot(e) \/ Connect(e)
           \/ PushBufferedWsDepths(e) \/ Cancel(e)
  PROVE  Control'
<1> USE StreamAssumption
<1>1. CASE Run(e)
  BY <1>1 DEF Run, Begin, Control, buffers
<1>2. CASE RunSnapshot(e)
  BY <1>2 DEF RunSnapshot, Begin, Control, buffers
<1>3. CASE RunWithSnapshot(e)
  <2>1. UNCHANGED <<socket, snapshot, http_client>>
    BY <1>3 DEF RunWithSnapshot, buffers
  <2>2. buffer_websocket_depths' \in [Exchanges -> BOOLEAN]
    BY <1>3 DEF RunWithSnapshot, Control
  <2>3. CASE Begin(e, "run_with_snapshot", "pull")
    BY <2>1, <2>2, <2>3 DEF Begin, Control
  <2>4. CASE Begin(e, "run", "send")
    BY <2>1, <2>2, <2>4 DEF Begin, Control
  <2> QED  BY <1>3, <2>3, <2>4 DEF RunWithSnapshot
<1>4. CASE Connect(e)
  BY <1>4 DEF Connect, Control, buffers, control
<1>5. CASE PushBufferedWsDepths(e)
  BY <1>5 DEF PushBufferedWsDepths, Control, buffers, control
<1>6. CASE Cancel(e)
  BY <1>6 DEF Cancel, End, Control, buffers
<1> QED  BY <1>1, <1>2, <1>3, <1>4, <1>5, <1>6

LEMMA PullControl ==
  ASSUME Control, NEW e \in Exchanges, PullOk(e) \/ PullErr(e) \/ PullPanic(e)
  PROVE  Control'
<1> USE StreamAssumption
<1>1. CASE PullOk(e)
  BY <1>1 DEF PullOk, Goto, Control
<1>2. CASE PullErr(e)
  <2>1. UNCHANGED <<socket, snapshot, http_client>>
    BY <1>2 DEF PullErr, buffers
  <2>2. CASE End(e, "Err") /\ UNCHANGED buffer_websocket_depths
    BY <1>2, <2>1, <2>2 DEF PullErr, End, Control
  <2>3. CASE /\ tries' = [tries EXCEPT ![e] = @ + 1] /\ tries[e] + 1 < Retries
             /\ UNCHANGED <<pc, call, result, buffer_websocket_depths>>
    <3>1. tries' \in [Exchanges -> 0 .. Retries]
      BY <2>3 DEF Control
    <3> QED  BY <2>1, <2>3, <3>1 DEF Control
  <2>4. CASE /\ tries' = [tries EXCEPT ![e] = @ + 1] /\ tries[e] + 1 = Retries
             /\ call[e] = "run_with_snapshot"
             /\ pc' = [pc EXCEPT ![e] = "idle"]
             /\ result' = [result EXCEPT ![e] = "Ok"] /\ call' = call
             /\ buffer_websocket_depths' = [buffer_websocket_depths EXCEPT ![e] = FALSE]
    <3>1. tries' \in [Exchanges -> 0 .. Retries]
      BY <2>4 DEF Control
    <3>2. buffer_websocket_depths' \in [Exchanges -> BOOLEAN]
      BY <2>4 DEF Control
    <3>3. pc[e] = "pull"
      BY <1>2 DEF PullErr
    <3> QED  BY <2>1, <2>4, <3>1, <3>2, <3>3 DEF Control
  <2> QED  BY <1>2, <2>2, <2>3, <2>4 DEF PullErr
<1>3. CASE PullPanic(e)
  BY <1>3 DEF PullPanic, Panic, Control, buffers
<1> QED  BY <1>1, <1>2, <1>3

LEMMA AnswersControl ==
  ASSUME Control, NEW e \in Exchanges, NEW state, pc[e] \in {"send", "read"},
         PollAnswers(e, state) \/ Goto(e, "read"),
         UNCHANGED <<buffer_websocket_depths, http_client, snapshot>>,
         socket' \in {socket, [socket EXCEPT ![e] = "ended"], [socket EXCEPT ![e] = "open"]}
  PROVE  Control'
<1>1. socket' \in [Exchanges -> {"none", "open", "ended"}]
  BY DEF Control
<1>2. CASE call[e] = "run" /\ PollAnswers(e, state)
  <2>1. PICK r \in {"Ok", "Err"} : End(e, r)
    BY <1>2 DEF PollAnswers
  <2> QED  BY <1>1, <1>2, <2>1 DEF End, Control
<1>3. CASE call[e] # "run" /\ PollAnswers(e, state)
  BY <1>1, <1>3 DEF PollAnswers, Goto, Control
<1>4. CASE Goto(e, "read")
  BY <1>1, <1>4 DEF Goto, Control
<1> QED  BY <1>2, <1>3, <1>4

LEMMA PollControl ==
  ASSUME Control, NEW e \in Exchanges, Poll(e)
  PROVE  Control'
<1>1. CASE Iterate(e)
  <2>1. CASE snapshot[e] # <<>> /\ UNCHANGED buffer_websocket_depths /\ PollAfterPush(e)
             /\ snapshot' = [snapshot EXCEPT ![e] = Tail(@)]
    BY <1>1, <2>1 DEF Iterate, PollAfterPush, Goto, Control
  <2>2. CASE UNCHANGED <<buffer_websocket_depths, buffers>> /\ Panic(e)
    BY <1>1, <2>2 DEF Iterate, Panic, Control, buffers
  <2>3. CASE snapshot[e] = <<>> /\ End(e, "Ok") /\ UNCHANGED buffers
    BY <1>1, <2>3 DEF Iterate, End, Control, buffers
  <2> QED  BY <1>1, <2>1, <2>2, <2>3 DEF Iterate
<1>2. CASE PollSend(e)
  <2>1. /\ pc[e] \in {"send", "read"} /\ UNCHANGED <<buffer_websocket_depths, http_client, snapshot>>
        /\ socket' = socket /\ (PollAnswers(e, "SenderError") \/ Goto(e, "read"))
    BY <1>2 DEF PollSend
  <2> QED  BY <2>1, AnswersControl
<1>3. CASE PollEnds(e)
  <2>1. /\ pc[e] \in {"send", "read"} /\ UNCHANGED <<buffer_websocket_depths, http_client, snapshot>>
        /\ socket' \in {socket, [socket EXCEPT ![e] = "ended"]}
        /\ \E state \in {"FailedStream", "WaitingForDepth", "WSError"} : PollAnswers(e, state)
    BY <1>3 DEF PollEnds, buffers
  <2> QED  BY <2>1, AnswersControl
<1>4. CASE PollSkips(e)
  <2>1. /\ pc[e] \in {"send", "read"} /\ UNCHANGED <<buffer_websocket_depths, http_client, snapshot>>
        /\ socket' = socket /\ PollAnswers(e, "Success")
    BY <1>4 DEF PollSkips, buffers
  <2> QED  BY <2>1, AnswersControl
<1>5. CASE PollText(e)
  <2>1. /\ pc[e] \in {"send", "read"} /\ UNCHANGED <<buffer_websocket_depths, http_client, snapshot>>
        /\ socket' = socket /\ (PollAnswers(e, "BufferFull") \/ UNCHANGED control)
    BY <1>5 DEF PollText
  <2>2. CASE UNCHANGED control
    BY <2>1, <2>2 DEF control, Control
  <2> QED  BY <2>1, <2>2, AnswersControl
<1> QED  BY <1>1, <1>2, <1>3, <1>4, <1>5 DEF Poll

LEMMA NextControl == Control /\ [Next]_vars => Control'
<1> SUFFICES ASSUME Control, [Next]_vars PROVE Control'
  OBVIOUS
<1>1. CASE Take \/ Release \/ Close \/ UNCHANGED vars
  <2>1. UNCHANGED <<socket, buffer_websocket_depths, pc, call, tries, result, http_client, snapshot>>
    BY <1>1 DEF Take, Release, Close, vars, buffers, control
  <2> QED  BY <2>1 DEF Control
<1> QED  BY <1>1, CallControl, PullControl, PollControl DEF Next

LEMMA InitCounts == Init => Counts
BY StreamAssumption DEF Init, Counts

LEMMA NextCounts == Counts /\ [Next]_vars => Counts'
<1> USE StreamAssumption
<1> SUFFICES ASSUME Counts, [Next]_vars PROVE Counts'
  OBVIOUS
<1>1. CASE UNCHANGED <<stream_count, texts, pulls, skipped>>
  BY <1>1 DEF Counts
<1>2. ASSUME NEW e \in Exchanges, PollSkips(e) PROVE Counts'
  <2>1. stream_count[e] = 0 /\ texts[e] = 0
    BY <1>2 DEF PollSkips, Counts
  <2>2. CASE UNCHANGED <<texts, skipped>>
    BY <1>2, <2>2 DEF PollSkips, Counts
  <2>3. CASE /\ texts[e] < MaxTexts[e]
             /\ texts' = [texts EXCEPT ![e] = @ + 1]
             /\ skipped' = [skipped EXCEPT ![e] = @ \cup {texts[e] + 1}]
    <3>1. skipped' \in [Exchanges -> SUBSET {1}] /\ texts' \in [Exchanges -> Nat]
      BY <2>1, <2>3 DEF Counts
    <3> QED  BY <1>2, <2>1, <2>3, <3>1 DEF PollSkips, Counts
  <2> QED  BY <1>2, <2>2, <2>3 DEF PollSkips
<1>3. ASSUME NEW e \in Exchanges, PollText(e) PROVE Counts'
  BY <1>3 DEF PollText, Counts
<1>4. ASSUME NEW e \in Exchanges, PullOk(e) PROVE Counts'
  BY <1>4 DEF PullOk, Counts
<1>5. CASE Take \/ Release \/ Close \/ UNCHANGED vars
  BY <1>1, <1>5 DEF Take, Release, Close, vars
<1>6. ASSUME NEW e \in Exchanges,
             Connect(e) \/ Run(e) \/ RunSnapshot(e) \/ RunWithSnapshot(e)
               \/ PushBufferedWsDepths(e) \/ Cancel(e) \/ PullErr(e) \/ PullPanic(e)
      PROVE  Counts'
  BY <1>1, <1>6 DEF Connect, Run, RunSnapshot, RunWithSnapshot, PushBufferedWsDepths, Cancel,
                    PullErr, PullPanic
<1>7. ASSUME NEW e \in Exchanges, Iterate(e) \/ PollSend(e) \/ PollEnds(e)
      PROVE  Counts'
  BY <1>1, <1>7 DEF Iterate, PollSend, PollEnds
<1> QED  BY <1>2, <1>3, <1>4, <1>5, <1>6, <1>7 DEF Next, Poll

-----------------------------------------------------------------------------
(* Where the slots are.                                                    *)

LEMMA SlotsOfOne ==
  /\ \A e \in Exchanges : SlotsOf(e) \subseteq Slots
  /\ \A s \in Slots : s[1] \in Exchanges /\ s \in SlotsOf(s[1])
  /\ \A e, f \in Exchanges : \A s \in SlotsOf(e) : s \in SlotsOf(f) => e = f
BY DEF SlotsOf, Slots

\* The slots an ingest takes are free and no two of them are the same.
LEMMA TakingsFresh ==
  ASSUME NEW e \in Exchanges, NEW k \in Nat, NEW t \in Takings(e, k)
  PROVE  /\ t \in Seq(SlotsOf(e)) /\ Len(t) = k /\ DOMAIN t = 1 .. k /\ Once(t)
         /\ Entries(t) \cap DOMAIN pool = {}
<1>1. /\ t \in [1 .. k -> FreeSlots(e)]
      /\ \A i \in 1 .. k : {s \in FreeSlots(e) : s[2] < t[i][2]} = {t[j] : j \in 1 .. i - 1}
  BY DEF Takings
<1>2. FreeSlots(e) \subseteq SlotsOf(e) /\ FreeSlots(e) \cap DOMAIN pool = {}
  BY DEF FreeSlots, SlotsOf
<1>3. t \in [1 .. k -> SlotsOf(e)]
  BY <1>1, <1>2
<1>4. t \in Seq(SlotsOf(e)) /\ Len(t) = k /\ DOMAIN t = 1 .. k
  BY <1>3
<1>5. Entries(t) \cap DOMAIN pool = {}
  BY <1>1, <1>2, <1>4 DEF Entries
<1>6. ASSUME NEW i \in 1 .. k, NEW j \in 1 .. k, i < j PROVE t[i] # t[j]
  <2>1. i \in 1 .. j - 1
    BY <1>6
  <2>2. t[i] \in {s \in FreeSlots(e) : s[2] < t[j][2]}
    BY <1>1, <2>1
  <2>3. t[i][2] < t[j][2] /\ t[i][2] \in Int
    BY <2>2 DEF FreeSlots, Slots
  <2> QED  BY <2>3
<1>7. Once(t)
  <2>1. \A i, j \in 1 .. k : i < j \/ j < i \/ i = j
    OBVIOUS
  <2> QED  BY <1>4, <1>6, <2>1 DEF Once
<1> QED  BY <1>4, <1>5, <1>7

LEMMA OwnedFrame ==
  ASSUME NEW f \in Exchanges, Owned(f),
         buffer'[f] = buffer[f], depth_update_buffer'[f] = depth_update_buffer[f],
         snapshot'[f] = snapshot[f], Away(f)' = Away(f),
         SlotsOf(f) \cap DOMAIN pool' = SlotsOf(f) \cap DOMAIN pool
  PROVE  Owned(f)'
BY DEF Owned, Kept

LEMMA SameStock ==
  ASSUME Stock, UNCHANGED <<buffers, pool, channel, held, accepted>>, rx_open' \in BOOLEAN
  PROVE  Stock'
<1>1. Arrays' /\ Channelled' /\ Archived'
  BY DEF Stock, Arrays, Channelled, Archived, buffers
<1>2. ASSUME NEW f \in Exchanges PROVE Owned(f)'
  BY OwnedFrame DEF Stock, buffers, Away
<1> QED  BY <1>1, <1>2 DEF Stock

\* A buffer of e is replaced by another sequence of its slots.
LEMMA ArraysKept ==
  ASSUME Arrays, NEW e \in Exchanges, NEW x \in Seq(SlotsOf(e))
  PROVE  /\ [buffer EXCEPT ![e] = x] \in [Exchanges -> Seq(Slots)]
         /\ [depth_update_buffer EXCEPT ![e] = x] \in [Exchanges -> Seq(Slots)]
         /\ [snapshot EXCEPT ![e] = x] \in [Exchanges -> Seq(Slots)]
<1>1. x \in Seq(Slots)
  BY SlotsOfOne, SeqMonotonic
<1> QED  BY <1>1 DEF Arrays

LEMMA IngestStock ==
  ASSUME Stock, NEW e \in Exchanges, NEW k \in Nat, NEW t \in Takings(e, k), NEW payload,
         Ingest(t, payload), UNCHANGED <<channel, rx_open, held>>,
         \/ /\ buffer' = [buffer EXCEPT ![e] = @ \o t] /\ Len(buffer[e]) + k <= BUF
            /\ UNCHANGED <<depth_update_buffer, snapshot>>
         \/ /\ depth_update_buffer' = [depth_update_buffer EXCEPT ![e] = @ \o t]
            /\ Len(depth_update_buffer[e]) + k <= BUF
            /\ UNCHANGED <<buffer, snapshot>>
         \/ /\ snapshot' = [snapshot EXCEPT ![e] = t] /\ snapshot[e] = <<>> /\ k <= BUF
            /\ UNCHANGED <<buffer, depth_update_buffer>>
  PROVE  Stock'
<1>1. Arrays /\ Channelled /\ Archived /\ Owned(e)
  BY DEF Stock
<1>2. /\ t \in Seq(SlotsOf(e)) /\ Len(t) = k /\ DOMAIN t = 1 .. k /\ Once(t)
      /\ Entries(t) \cap DOMAIN pool = {} /\ Entries(t) \subseteq SlotsOf(e)
  BY TakingsFresh, EntriesType
<1>3. DOMAIN pool' = DOMAIN pool \cup Entries(t)
  BY <1>2 DEF Ingest, Entries
<1>4. Archived'
  <2>1. pool' = [s \in DOMAIN pool' |->
                  IF s \in DOMAIN pool THEN pool[s]
                  ELSE Entry(payload, CHOOSE i \in DOMAIN t : t[i] = s)]
    BY <1>3 DEF Ingest
  <2>2. ASSUME NEW s \in DOMAIN pool' PROVE pool'[s] \in accepted'
    <3>1. CASE s \in DOMAIN pool
      BY <1>1, <2>1, <3>1 DEF Archived, Ingest
    <3>2. CASE s \notin DOMAIN pool
      <4>1. (CHOOSE i \in DOMAIN t : t[i] = s) \in DOMAIN t
        BY <1>2, <1>3, <3>2 DEF Entries
      <4>2. PICK i \in DOMAIN t : i = CHOOSE j \in DOMAIN t : t[j] = s
        BY <4>1
      <4>3. pool'[s] = Entry(payload, i)
        BY <2>1, <3>2, <4>2
      <4>4. Entry(payload, i) \in {Entry(payload, j) : j \in DOMAIN t}
        BY <4>2
      <4> QED  BY <4>3, <4>4 DEF Ingest
    <3> QED  BY <3>1, <3>2
  <2> QED  BY <2>1, <2>2 DEF Archived
<1>5. \A f \in Exchanges : Away(f)' = Away(f)
  BY DEF Away
<1>6. Kept(e) \subseteq DOMAIN pool /\ Away(e) \subseteq DOMAIN pool
      /\ SlotsOf(e) \cap DOMAIN pool = Kept(e) \cup Away(e)
  BY <1>1 DEF Owned
<1>7. /\ Entries(t) \cap Entries(buffer[e]) = {}
       /\ Entries(t) \cap Entries(depth_update_buffer[e]) = {}
       /\ Entries(t) \cap Entries(snapshot[e]) = {}
       /\ Entries(t) \cap Away(e) = {}
  BY <1>2, <1>6 DEF Kept
<1>8. ASSUME NEW f \in Exchanges, f # e PROVE Owned(f)'
  <2>1. SlotsOf(f) \cap DOMAIN pool' = SlotsOf(f) \cap DOMAIN pool
    BY <1>2, <1>3, <1>8, SlotsOfOne
  <2>2. /\ buffer'[f] = buffer[f] /\ depth_update_buffer'[f] = depth_update_buffer[f]
        /\ snapshot'[f] = snapshot[f]
    BY <1>1, <1>8 DEF Arrays
  <2> QED  BY <1>5, <2>1, <2>2, OwnedFrame DEF Stock
<1>9. SlotsOf(e) \cap DOMAIN pool' = Kept(e) \cup Away(e) \cup Entries(t)
  BY <1>2, <1>3, <1>6
<1>10. Arrays' /\ Owned(e)'
  <2>1. CASE /\ buffer' = [buffer EXCEPT ![e] = @ \o t] /\ Len(buffer[e]) + k <= BUF
             /\ UNCHANGED <<depth_update_buffer, snapshot>>
    <3>1. /\ buffer[e] \in Seq(SlotsOf(e)) /\ Once(buffer[e])
          /\ Entries(buffer[e]) \cap Entries(t) = {}
      BY <1>1, <1>2, <1>6 DEF Owned, Kept
    <3>2. PICK T, r, u : T = SlotsOf(e) /\ r = buffer[e] /\ u = r \o t
      OBVIOUS
    <3>3. /\ u \in Seq(SlotsOf(e)) /\ Len(u) = Len(buffer[e]) + k /\ Once(u)
          /\ Entries(u) = Entries(buffer[e]) \cup Entries(t)
      <4>1. /\ r \in Seq(T) /\ t \in Seq(T) /\ Once(r) /\ Once(t)
            /\ Entries(r) \cap Entries(t) = {} /\ Len(t) = k
        BY <1>2, <3>1, <3>2
      <4>2. /\ r \o t \in Seq(T) /\ Len(r \o t) = Len(r) + Len(t) /\ Once(r \o t)
            /\ Entries(r \o t) = Entries(r) \cup Entries(t)
        BY <4>1, ConcatOnce
      <4> QED  BY <3>2, <4>1, <4>2
    <3>4. Arrays'
      BY <1>1, <2>1, <3>2, <3>3, ArraysKept DEF Arrays
    <3>5. /\ buffer'[e] = u /\ depth_update_buffer'[e] = depth_update_buffer[e]
          /\ snapshot'[e] = snapshot[e]
      BY <1>1, <2>1, <3>2 DEF Arrays
    <3>6. Kept(e)' = Kept(e) \cup Entries(t)
      BY <3>3, <3>5 DEF Kept
    <3>7. Kept(e)' \cap Away(e)' = {} /\ SlotsOf(e) \cap DOMAIN pool' = Kept(e)' \cup Away(e)'
      BY <1>1, <1>5, <1>9, <1>7, <3>6 DEF Owned
    <3>8. /\ Entries(u) \cap Entries(depth_update_buffer[e]) = {}
          /\ Entries(u) \cap Entries(snapshot[e]) = {}
          /\ Len(u) <= BUF
      BY <1>1, <1>7, <2>1, <3>3 DEF Owned
    <3> QED  BY <1>1, <3>3, <3>4, <3>5, <3>7, <3>8 DEF Owned
  <2>2. CASE /\ depth_update_buffer' = [depth_update_buffer EXCEPT ![e] = @ \o t]
             /\ Len(depth_update_buffer[e]) + k <= BUF
             /\ UNCHANGED <<buffer, snapshot>>
    <3>1. /\ depth_update_buffer[e] \in Seq(SlotsOf(e)) /\ Once(depth_update_buffer[e])
          /\ Entries(depth_update_buffer[e]) \cap Entries(t) = {}
      BY <1>1, <1>2, <1>6 DEF Owned, Kept
    <3>2. PICK T, r, u : T = SlotsOf(e) /\ r = depth_update_buffer[e] /\ u = r \o t
      OBVIOUS
    <3>3. /\ u \in Seq(SlotsOf(e)) /\ Len(u) = Len(depth_update_buffer[e]) + k /\ Once(u)
          /\ Entries(u) = Entries(depth_update_buffer[e]) \cup Entries(t)
      <4>1. /\ r \in Seq(T) /\ t \in Seq(T) /\ Once(r) /\ Once(t)
            /\ Entries(r) \cap Entries(t) = {} /\ Len(t) = k
        BY <1>2, <3>1, <3>2
      <4>2. /\ r \o t \in Seq(T) /\ Len(r \o t) = Len(r) + Len(t) /\ Once(r \o t)
            /\ Entries(r \o t) = Entries(r) \cup Entries(t)
        BY <4>1, ConcatOnce
      <4> QED  BY <3>2, <4>1, <4>2
    <3>4. Arrays'
      BY <1>1, <2>2, <3>2, <3>3, ArraysKept DEF Arrays
    <3>5. /\ depth_update_buffer'[e] = u /\ buffer'[e] = buffer[e]
          /\ snapshot'[e] = snapshot[e]
      BY <1>1, <2>2, <3>2 DEF Arrays
    <3>6. Kept(e)' = Kept(e) \cup Entries(t)
      BY <3>3, <3>5 DEF Kept
    <3>7. Kept(e)' \cap Away(e)' = {} /\ SlotsOf(e) \cap DOMAIN pool' = Kept(e)' \cup Away(e)'
      BY <1>1, <1>5, <1>9, <1>7, <3>6 DEF Owned
    <3>8. /\ Entries(buffer[e]) \cap Entries(u) = {}
          /\ Entries(u) \cap Entries(snapshot[e]) = {}
          /\ Len(u) <= BUF
      BY <1>1, <1>7, <2>2, <3>3 DEF Owned
    <3> QED  BY <1>1, <3>3, <3>4, <3>5, <3>7, <3>8 DEF Owned
  <2>3. CASE /\ snapshot' = [snapshot EXCEPT ![e] = t] /\ snapshot[e] = <<>> /\ k <= BUF
             /\ UNCHANGED <<buffer, depth_update_buffer>>
    <3>1. Arrays'
      BY <1>1, <1>2, <2>3, ArraysKept DEF Arrays
    <3>2. /\ snapshot'[e] = t /\ buffer'[e] = buffer[e]
          /\ depth_update_buffer'[e] = depth_update_buffer[e]
      BY <1>1, <2>3 DEF Arrays
    <3>3. Entries(snapshot[e]) = {}
      BY <1>1, <2>3, EntriesType DEF Owned
    <3>4. Kept(e)' = Kept(e) \cup Entries(t)
      BY <3>2, <3>3 DEF Kept
    <3> QED  BY <1>1, <1>2, <1>5, <1>6, <1>9, <2>3, <3>1, <3>2, <3>4 DEF Owned, Kept
  <2> QED  BY <2>1, <2>2, <2>3
<1>11. Channelled'
  BY <1>1, <1>2, <1>3, SlotsOfOne DEF Channelled
<1> QED  BY <1>4, <1>8, <1>10, <1>11 DEF Stock

\* One pulled depth is pushed on top of a buffer.
LEMMA PushStock ==
  ASSUME Stock, NEW e \in Exchanges, snapshot[e] # <<>>,
         snapshot' = [snapshot EXCEPT ![e] = Tail(@)],
         UNCHANGED <<pool, channel, rx_open, held, accepted>>,
         \/ /\ buffer' = [buffer EXCEPT ![e] = Stacked(e, Head(snapshot[e]))]
            /\ Len(buffer[e]) < BUF /\ UNCHANGED depth_update_buffer
         \/ /\ depth_update_buffer' =
                 [depth_update_buffer EXCEPT ![e] = Append(@, Head(snapshot[e]))]
            /\ Len(depth_update_buffer[e]) < BUF /\ UNCHANGED buffer
  PROVE  Stock'
<1>1. Arrays /\ Channelled /\ Archived /\ Owned(e)
  BY DEF Stock
<1>2. PICK T, x, r : T = SlotsOf(e) /\ x = Head(snapshot[e]) /\ r = Tail(snapshot[e])
  OBVIOUS
<1>3. /\ x \in T /\ x \in Entries(snapshot[e])
      /\ r \in Seq(T) /\ Len(r) = Len(snapshot[e]) - 1
      /\ Entries(r) = Entries(snapshot[e]) \ {x} /\ Once(r)
  BY <1>1, <1>2, TailOnce DEF Owned
<1>4. Len(r) <= BUF
  <2>1. PICK k \in Nat : k = Len(snapshot[e])
    BY <1>1, LenProperties DEF Owned
  <2>2. k <= BUF /\ Len(r) = k - 1
    BY <1>1, <1>3, <2>1 DEF Owned
  <2> QED  BY <2>1, <2>2, StreamAssumption
<1>5. /\ \A f \in Exchanges : Away(f)' = Away(f)
      /\ \A f \in Exchanges : SlotsOf(f) \cap DOMAIN pool' = SlotsOf(f) \cap DOMAIN pool
  BY DEF Away
<1>6. /\ x \notin Entries(buffer[e]) /\ x \notin Entries(depth_update_buffer[e])
      /\ Entries(buffer[e]) \cap Entries(r) = {}
      /\ Entries(depth_update_buffer[e]) \cap Entries(r) = {} /\ x \notin Entries(r)
  BY <1>1, <1>3 DEF Owned
<1>7. ASSUME NEW f \in Exchanges, f # e PROVE Owned(f)'
  <2>1. /\ buffer'[f] = buffer[f] /\ depth_update_buffer'[f] = depth_update_buffer[f]
        /\ snapshot'[f] = snapshot[f]
    BY <1>1, <1>7 DEF Arrays
  <2> QED  BY <1>5, <2>1, OwnedFrame DEF Stock
<1>8. snapshot' \in [Exchanges -> Seq(Slots)] /\ snapshot'[e] = r
  BY <1>1, <1>2, <1>3, ArraysKept DEF Arrays
<1>9. Arrays' /\ Owned(e)'
  <2>1. CASE /\ buffer' = [buffer EXCEPT ![e] = Stacked(e, Head(snapshot[e]))]
             /\ Len(buffer[e]) < BUF /\ UNCHANGED depth_update_buffer
    <3>1. PICK u : u = Append(buffer[e], x)
      OBVIOUS
    <3>2. /\ u \in Seq(T) /\ Len(u) = Len(buffer[e]) + 1
          /\ Entries(u) = Entries(buffer[e]) \cup {x} /\ Once(u)
      BY <1>1, <1>2, <1>3, <1>6, <3>1, AppendOnce DEF Owned
    <3>3. Arrays' /\ buffer'[e] = u /\ depth_update_buffer'[e] = depth_update_buffer[e]
      BY <1>1, <1>2, <1>8, <2>1, <3>1, <3>2, ArraysKept DEF Arrays, Stacked
    <3>4. Kept(e)' = Kept(e)
      BY <1>3, <1>8, <3>2, <3>3 DEF Kept
    <3>5. Len(u) <= BUF
      BY <1>1, <2>1, <3>2, StreamAssumption, LenProperties DEF Owned
    <3>6. /\ Entries(u) \cap Entries(depth_update_buffer[e]) = {}
          /\ Entries(u) \cap Entries(r) = {}
      BY <1>1, <1>6, <3>2 DEF Owned
    <3> QED  BY <1>1, <1>2, <1>3, <1>4, <1>5, <1>6, <1>8, <3>2, <3>3, <3>4, <3>5, <3>6 DEF Owned
  <2>2. CASE /\ depth_update_buffer' =
                  [depth_update_buffer EXCEPT ![e] = Append(@, Head(snapshot[e]))]
             /\ Len(depth_update_buffer[e]) < BUF /\ UNCHANGED buffer
    <3>1. PICK u : u = Append(depth_update_buffer[e], x)
      OBVIOUS
    <3>2. /\ u \in Seq(T) /\ Len(u) = Len(depth_update_buffer[e]) + 1
          /\ Entries(u) = Entries(depth_update_buffer[e]) \cup {x} /\ Once(u)
      BY <1>1, <1>2, <1>3, <1>6, <3>1, AppendOnce DEF Owned
    <3>3. Arrays' /\ depth_update_buffer'[e] = u /\ buffer'[e] = buffer[e]
      BY <1>1, <1>2, <1>8, <2>2, <3>1, <3>2, ArraysKept DEF Arrays
    <3>4. Kept(e)' = Kept(e)
      BY <1>3, <1>8, <3>2, <3>3 DEF Kept
    <3>5. Len(u) <= BUF
      BY <1>1, <2>2, <3>2, StreamAssumption, LenProperties DEF Owned
    <3>6. /\ Entries(buffer[e]) \cap Entries(u) = {}
          /\ Entries(u) \cap Entries(r) = {}
      BY <1>1, <1>6, <3>2 DEF Owned
    <3> QED  BY <1>1, <1>2, <1>3, <1>4, <1>5, <1>6, <1>8, <3>2, <3>3, <3>4, <3>5, <3>6 DEF Owned
  <2> QED  BY <2>1, <2>2
<1>10. Channelled' /\ Archived'
  BY <1>1 DEF Channelled, Archived
<1> QED  BY <1>7, <1>9, <1>10 DEF Stock

\* The top of a buffer is sent, or released as there is nobody to send it to.
LEMMA PopStock ==
  ASSUME Stock, NEW e \in Exchanges, buffer[e] # <<>>, buffer' = Popped(e),
         UNCHANGED <<depth_update_buffer, snapshot, rx_open, held, accepted>>,
         \/ channel' = Append(channel, Top(e)) /\ Len(channel) < ChannelCap /\ pool' = pool
         \/ channel' = channel /\ pool' = Released(Top(e))
  PROVE  Stock'
<1>1. Arrays /\ Channelled /\ Archived /\ Owned(e)
  BY DEF Stock
<1>2. PICK T, x, u : T = SlotsOf(e) /\ x = Top(e)
                     /\ u = SubSeq(buffer[e], 1, Len(buffer[e]) - 1)
  OBVIOUS
<1>3. /\ x \in T /\ x \in Entries(buffer[e])
      /\ u \in Seq(T) /\ Len(u) = Len(buffer[e]) - 1
      /\ Entries(u) = Entries(buffer[e]) \ {x} /\ Once(u)
  BY <1>1, <1>2, FrontOnce DEF Owned, Top
<1>4. Len(u) <= BUF
  <2>1. PICK k \in Nat : k = Len(buffer[e])
    BY <1>1, LenProperties DEF Owned
  <2>2. k <= BUF /\ Len(u) = k - 1
    BY <1>1, <1>3, <2>1 DEF Owned
  <2> QED  BY <2>1, <2>2, StreamAssumption
<1>5. Arrays' /\ buffer'[e] = u
  BY <1>1, <1>2, <1>3, ArraysKept DEF Arrays, Popped
<1>6. Kept(e)' = Kept(e) \ {x} /\ x \in Kept(e) /\ x \notin Away(e) /\ x \in DOMAIN pool
  BY <1>1, <1>3, <1>5 DEF Kept, Owned
<1>7. \A f \in Exchanges : f # e => x \notin SlotsOf(f)
  BY <1>2, <1>3, SlotsOfOne
<1>8. /\ depth_update_buffer'[e] = depth_update_buffer[e] /\ snapshot'[e] = snapshot[e]
      /\ \A f \in Exchanges : f # e =>
           /\ buffer'[f] = buffer[f] /\ depth_update_buffer'[f] = depth_update_buffer[f]
           /\ snapshot'[f] = snapshot[f]
  BY <1>1 DEF Arrays, Popped
<1>9. /\ Entries(u) \cap Entries(depth_update_buffer[e]) = {}
      /\ Entries(u) \cap Entries(snapshot[e]) = {}
  BY <1>1, <1>3 DEF Owned
<1>10. CASE channel' = Append(channel, x) /\ Len(channel) < ChannelCap /\ pool' = pool
  <2>1. x \in Slots /\ x \notin Entries(channel) /\ x # held
    BY <1>2, <1>3, <1>6, SlotsOfOne DEF Away
  <2>2. /\ channel' \in Seq(Slots) /\ Len(channel') = Len(channel) + 1
        /\ Entries(channel') = Entries(channel) \cup {x} /\ Once(channel')
    BY <1>1, <1>10, <2>1, AppendOnce DEF Channelled
  <2>3. Channelled' /\ Archived'
    <3>1. Len(channel') <= ChannelCap
      BY <1>1, <1>10, <2>2, StreamAssumption, LenProperties DEF Channelled
    <3> QED  BY <1>1, <1>10, <2>1, <2>2, <3>1 DEF Channelled, Archived
  <2>4. Away(e)' = Away(e) \cup {x} /\ \A f \in Exchanges : f # e => Away(f)' = Away(f)
    BY <1>2, <1>3, <1>7, <2>2 DEF Away
  <2>5. \A f \in Exchanges : f # e => Owned(f)'
    BY <1>8, <1>10, <2>4, OwnedFrame DEF Stock
  <2>6. Kept(e)' \cap Away(e)' = {} /\ SlotsOf(e) \cap DOMAIN pool' = Kept(e)' \cup Away(e)'
    BY <1>1, <1>6, <1>10, <2>4 DEF Owned
  <2>7. Owned(e)'
    BY <1>1, <1>2, <1>3, <1>4, <1>5, <1>8, <1>9, <2>6 DEF Owned
  <2> QED  BY <1>5, <2>3, <2>5, <2>7 DEF Stock
<1>11. CASE channel' = channel /\ pool' = Released(x)
  <2>1. DOMAIN pool' = DOMAIN pool \ {x} /\ \A s \in DOMAIN pool' : pool'[s] = pool[s]
    BY <1>11 DEF Released
  <2>2. Channelled' /\ Archived'
    BY <1>1, <1>11, <2>1 DEF Channelled, Archived, Released
  <2>3. \A f \in Exchanges : Away(f)' = Away(f)
    BY <1>11 DEF Away
  <2>4. \A f \in Exchanges : f # e => Owned(f)'
    <3>1. \A f \in Exchanges : f # e => SlotsOf(f) \cap DOMAIN pool' = SlotsOf(f) \cap DOMAIN pool
      BY <1>7, <2>1
    <3> QED  BY <1>8, <2>3, <3>1, OwnedFrame DEF Stock
  <2>5. Kept(e)' \cap Away(e)' = {} /\ SlotsOf(e) \cap DOMAIN pool' = Kept(e)' \cup Away(e)'
    BY <1>1, <1>6, <2>1, <2>3 DEF Owned
  <2>6. Owned(e)'
    BY <1>1, <1>2, <1>3, <1>4, <1>5, <1>8, <1>9, <2>5 DEF Owned
  <2> QED  BY <1>5, <2>2, <2>4, <2>6 DEF Stock
<1> QED  BY <1>2, <1>10, <1>11

\* The reader takes a slot out of the channel.
LEMMA TakeStock ==
  ASSUME Stock, Take
  PROVE  Stock'
<1>1. Arrays /\ Channelled /\ Archived
  BY DEF Stock
<1>2. PICK x : x = Head(channel)
  OBVIOUS
<1>3. /\ channel # <<>> /\ held = NoSlot /\ held' = x /\ channel' = Tail(channel)
      /\ UNCHANGED <<buffers, pool, rx_open, accepted>>
  BY <1>2 DEF Take
<1>4. /\ x \in Slots /\ x \in Entries(channel)
      /\ channel' \in Seq(Slots) /\ Len(channel') = Len(channel) - 1
      /\ Entries(channel') = Entries(channel) \ {x} /\ Once(channel')
  BY <1>1, <1>2, <1>3, TailOnce DEF Channelled
<1>5. Len(channel') <= ChannelCap
  <2>1. PICK k \in Nat : k = Len(channel)
    BY <1>1, LenProperties DEF Channelled
  <2>2. k <= ChannelCap /\ Len(channel') = k - 1
    BY <1>1, <1>4, <2>1 DEF Channelled
  <2> QED  BY <2>1, <2>2, StreamAssumption
<1>6. Arrays' /\ Channelled' /\ Archived'
  BY <1>1, <1>3, <1>4, <1>5 DEF Arrays, Channelled, Archived, buffers
<1>7. \A f \in Exchanges : Away(f)' = Away(f)
  <2>1. \A s \in Slots : s # held
    BY <1>3, NoSlotAssumption
  <2> QED  BY <1>3, <1>4, <2>1 DEF Away, SlotsOf
<1>8. \A f \in Exchanges : Owned(f)'
  BY <1>3, <1>7, OwnedFrame DEF Stock, buffers
<1> QED  BY <1>6, <1>8 DEF Stock

\* The reader has done with its slot.
LEMMA ReleaseStock ==
  ASSUME Stock, Release
  PROVE  Stock'
<1>1. Arrays /\ Channelled /\ Archived
  BY DEF Stock
<1>2. /\ held \in Slots /\ held' = NoSlot /\ pool' = Released(held)
      /\ UNCHANGED <<buffers, channel, rx_open, accepted>>
  BY <1>1 DEF Release, Channelled
<1>3. DOMAIN pool' = DOMAIN pool \ {held} /\ \A s \in DOMAIN pool' : pool'[s] = pool[s]
  BY <1>2 DEF Released
<1>4. NoSlot \notin Entries(channel)
  BY <1>1, EntriesType, NoSlotAssumption DEF Channelled
<1>5. Arrays' /\ Channelled' /\ Archived'
  BY <1>1, <1>2, <1>3, <1>4 DEF Arrays, Channelled, Archived, buffers, Released
<1>6. ASSUME NEW f \in Exchanges PROVE Owned(f)'
  <2>1. Owned(f)
    BY DEF Stock
  <2>2. Away(f)' = Away(f) \ {held}
    BY <1>1, <1>2, NoSlotAssumption DEF Away, SlotsOf, Channelled
  <2>3. Kept(f)' = Kept(f) /\ held \notin Kept(f)
    <3>1. held \in Kept(f) => held \in SlotsOf(f)
      BY <2>1, EntriesType DEF Owned, Kept
    <3> QED  BY <1>2, <2>1, <3>1 DEF Owned, Away, Kept, buffers
  <2>4. /\ Kept(f)' \cap Away(f)' = {}
        /\ SlotsOf(f) \cap DOMAIN pool' = Kept(f)' \cup Away(f)'
    BY <1>3, <2>1, <2>2, <2>3 DEF Owned
  <2> QED  BY <1>2, <2>1, <2>4 DEF Owned, buffers
<1> QED  BY <1>5, <1>6 DEF Stock

LEMMA InitStock == Init => Stock
<1> USE StreamAssumption
<1> SUFFICES ASSUME Init PROVE Stock
  OBVIOUS
<1>1. \A S : <<>> \in Seq(S) /\ Len(<<>>) = 0
  BY EmptySeq
<1>2. 1 .. 0 = {}
  OBVIOUS
<1>3. Entries(<<>>) = {} /\ Once(<<>>)
  BY <1>1, <1>2 DEF Entries, Once
<1>4. DOMAIN pool = {}
  BY <1>1, <1>2 DEF Init
<1>5. Arrays /\ Channelled /\ Archived
  BY <1>1, <1>3, <1>4, NoSlotAssumption DEF Init, Arrays, Channelled, Archived
<1>6. ASSUME NEW e \in Exchanges PROVE Owned(e)
  <2>1. Away(e) = {}
    BY <1>3, NoSlotAssumption DEF Init, Away, SlotsOf
  <2>2. /\ buffer[e] = <<>> /\ depth_update_buffer[e] = <<>> /\ snapshot[e] = <<>>
    BY DEF Init
  <2> QED  BY <1>1, <1>3, <1>4, <2>1, <2>2 DEF Owned, Kept
<1> QED  BY <1>5, <1>6 DEF Stock

LEMMA PollTextStock ==
  ASSUME Stock, NEW e \in Exchanges, PollText(e)
  PROVE  Stock'
<1> USE StreamAssumption
<1>1. rx_open' = rx_open /\ rx_open \in BOOLEAN /\ UNCHANGED <<channel, held, snapshot>>
  BY DEF PollText, reader, Stock, Channelled
<1>2. ASSUME NEW k \in Sizes, NEW t \in Takings(e, k),
             Fits(e, k, Len(Target(e))), Ingest(t, Text(e)),
             IF Name[e] = 1
             THEN /\ buffer' = [buffer EXCEPT ![e] = @ \o t]
                  /\ UNCHANGED depth_update_buffer
             ELSE /\ depth_update_buffer' = [depth_update_buffer EXCEPT ![e] = @ \o t]
                  /\ UNCHANGED buffer
      PROVE  Stock'
  <2>1. k \in Nat
    OBVIOUS
  <2>2. CASE Name[e] = 1
    <3>1. Len(buffer[e]) + k <= BUF
      BY <1>2, <2>2 DEF Fits, Target
    <3> QED  BY <1>1, <1>2, <2>1, <2>2, <3>1, IngestStock
  <2>3. CASE Name[e] # 1
    <3>1. Len(depth_update_buffer[e]) + k <= BUF
      BY <1>2, <2>3 DEF Fits, Target
    <3> QED  BY <1>1, <1>2, <2>1, <2>3, <3>1, IngestStock
  <2> QED  BY <2>2, <2>3
<1>3. CASE UNCHANGED <<pool, accepted, buffer, depth_update_buffer>>
  BY <1>1, <1>3, SameStock DEF buffers
<1> QED  BY <1>2, <1>3 DEF PollText

LEMMA NextStock == Control /\ Stock /\ [Next]_vars => Stock'
<1> USE StreamAssumption
<1> SUFFICES ASSUME Control, Stock, [Next]_vars PROVE Stock'
  OBVIOUS
<1>1. rx_open \in BOOLEAN
  BY DEF Stock, Channelled
<1>2. ASSUME NEW e \in Exchanges,
             Connect(e) \/ Run(e) \/ RunSnapshot(e) \/ RunWithSnapshot(e)
               \/ PushBufferedWsDepths(e) \/ Cancel(e) \/ PullErr(e) \/ PullPanic(e)
      PROVE  Stock'
  <2>1. UNCHANGED <<buffers, pool, channel, held, accepted>> /\ rx_open' = rx_open
    BY <1>2 DEF Connect, Run, RunSnapshot, RunWithSnapshot, PushBufferedWsDepths, Cancel,
                PullErr, PullPanic, reader
  <2> QED  BY <1>1, <2>1, SameStock
<1>3. ASSUME NEW e \in Exchanges, PollEnds(e) \/ PollSkips(e)
      PROVE  Stock'
  <2>1. UNCHANGED <<buffers, pool, channel, held, accepted>> /\ rx_open' = rx_open
    BY <1>3 DEF PollEnds, PollSkips, reader
  <2> QED  BY <1>1, <2>1, SameStock
<1>4. ASSUME NEW e \in Exchanges, PullOk(e) PROVE Stock'
  <2>1. snapshot[e] = <<>>
    BY <1>4 DEF PullOk, Control
  <2>2. PICK k \in Sizes : \E t \in Takings(e, k) :
          /\ Fits(e, k, 0) /\ snapshot' = [snapshot EXCEPT ![e] = t]
          /\ Ingest(t, Payload(e, "snap", pulls[e] + 1, pulls[e] + 1))
    BY <1>4 DEF PullOk
  <2>3. PICK t \in Takings(e, k) :
          /\ Fits(e, k, 0) /\ snapshot' = [snapshot EXCEPT ![e] = t]
          /\ Ingest(t, Payload(e, "snap", pulls[e] + 1, pulls[e] + 1))
    BY <2>2
  <2>4. k \in Nat /\ k <= BUF
    BY <2>3 DEF Fits
  <2>5. UNCHANGED <<buffer, depth_update_buffer, channel, rx_open, held>>
    BY <1>4 DEF PullOk, reader
  <2> QED  BY <2>1, <2>3, <2>4, <2>5, IngestStock
<1>5. ASSUME NEW e \in Exchanges, Iterate(e) PROVE Stock'
  <2>1. UNCHANGED <<pool, channel, rx_open, held, accepted>>
    BY <1>5 DEF Iterate, reader
  <2>2. CASE UNCHANGED buffers
    BY <1>1, <2>1, <2>2, SameStock
  <2> QED  BY <1>5, <2>1, <2>2, PushStock DEF Iterate
<1>6. ASSUME NEW e \in Exchanges, PollSend(e) PROVE Stock'
  <2>1. UNCHANGED <<depth_update_buffer, snapshot, rx_open, held, accepted>>
    BY <1>6 DEF PollSend, reader
  <2>2. CASE UNCHANGED <<buffer, channel, pool>>
    BY <1>1, <2>1, <2>2, SameStock DEF buffers
  <2> QED  BY <1>6, <2>1, <2>2, PopStock DEF PollSend, PutBack
<1>7. CASE Close \/ UNCHANGED vars
  <2>1. UNCHANGED <<buffers, pool, channel, held, accepted>> /\ rx_open' \in BOOLEAN
    BY <1>1, <1>7 DEF Close, vars, buffers
  <2> QED  BY <2>1, SameStock
<1> QED  BY <1>2, <1>3, <1>4, <1>5, <1>6, <1>7, PollTextStock, TakeStock, ReleaseStock
         DEF Next, Poll

LEMMA InitStocked == Init => Stocked
BY InitControl, InitCounts, InitStock DEF Stocked

LEMMA NextStocked == Stocked /\ [Next]_vars => Stocked'
BY NextControl, NextCounts, NextStock DEF Stocked

LEMMA StockedHolds == Spec => []Stocked
BY InitStocked, NextStocked, PTL DEF Spec

-----------------------------------------------------------------------------
(* What a run checks.                                                      *)

\* Every variable keeps its type: no buffer outgrows BUF, the channel does not
\* outgrow its capacity, and the pools hold depths that were taken in.
THEOREM StreamTypeCorrect == Spec => []TypeOK
<1>1. ASSUME Stocked PROVE TypeOK
  <2>1. ASSUME NEW e \in Exchanges,
               NEW s \in {buffer[e], depth_update_buffer[e], snapshot[e]}
        PROVE  DOMAIN s = 1 .. Len(s) /\ Len(s) <= BUF /\ \A i \in DOMAIN s : s[i] \in Slots
    <3>1. s \in Seq(Slots) /\ Len(s) <= BUF
      BY <1>1 DEF Stocked, Stock, Arrays, Owned
    <3> QED  BY <3>1, LenProperties, ElementOfSeq
  <2>2. Len(channel) <= ChannelCap /\ \A i \in DOMAIN channel : channel[i] \in Slots
    BY <1>1, LenProperties, ElementOfSeq DEF Stocked, Stock, Channelled
  <2>3. DOMAIN pool \subseteq Slots /\ \A s \in DOMAIN pool : pool[s] \in accepted
    BY <1>1 DEF Stocked, Stock, Channelled, Archived
  <2>4. /\ \A e \in Exchanges : texts[e] \in 0 .. MaxTexts[e] /\ pulls[e] \in 0 .. MaxPulls[e]
        /\ \A e \in Exchanges : skipped[e] \subseteq 1 .. MaxTexts[e]
    <3>1. ASSUME NEW e \in Exchanges
          PROVE  /\ texts[e] \in 0 .. MaxTexts[e] /\ pulls[e] \in 0 .. MaxPulls[e]
                 /\ skipped[e] \subseteq 1 .. MaxTexts[e]
      <4>1. /\ texts[e] \in Nat /\ pulls[e] \in Nat /\ skipped[e] \subseteq {1}
            /\ texts[e] <= MaxTexts[e] /\ pulls[e] <= MaxPulls[e]
            /\ texts[e] = 0 => skipped[e] = {}
            /\ MaxTexts[e] \in Nat /\ MaxPulls[e] \in Nat
        BY <1>1, StreamAssumption DEF Stocked, Counts
      <4>2. skipped[e] # {} => 1 \in 1 .. MaxTexts[e]
        BY <4>1
      <4> QED  BY <4>1, <4>2
    <3> QED  BY <3>1
  <2>5. rx_open \in BOOLEAN /\ held \in Slots \cup {NoSlot}
    BY <1>1 DEF Stocked, Stock, Channelled
  <2>6. stream_count \in [Exchanges -> {0, 1}]
    BY <1>1 DEF Stocked, Counts
  <2> QED  BY <1>1, <2>1, <2>2, <2>3, <2>4, <2>5, <2>6 DEF TypeOK, Stocked, Control
<1> QED  BY <1>1, StockedHolds, PTL

\* Reconnecting skips no message beyond the first that the stream ever reads:
\* stream_count survives the connection (stream.rs:447).
THEOREM OnlyFirstTextSkipped == Spec => []ReconnectSkipsNothing
<1>1. Stocked => ReconnectSkipsNothing
  BY DEF Stocked, Counts, ReconnectSkipsNothing
<1> QED  BY <1>1, StockedHolds, PTL

LEMMA OnePlace ==
  ASSUME NEW S, NEW x, x \in S, \A p \in S : p = x
  PROVE  Cardinality(S) = 1
<1>1. S = {x}
  OBVIOUS
<1> QED  BY <1>1, FS_Singleton

\* PlacesOf, place by place.
LEMMA PlacesUnfold ==
  ASSUME NEW s, NEW p
  PROVE  p \in PlacesOf(s) <=>
           \/ \E f \in Exchanges :
                \/ \E i \in DOMAIN buffer[f] : p = <<f, "buffer", i>> /\ buffer[f][i] = s
                \/ \E i \in DOMAIN depth_update_buffer[f] :
                     p = <<f, "aside", i>> /\ depth_update_buffer[f][i] = s
                \/ \E i \in DOMAIN snapshot[f] : p = <<f, "snapshot", i>> /\ snapshot[f][i] = s
           \/ \E i \in DOMAIN channel : p = <<"channel", i>> /\ channel[i] = s
           \/ s = held /\ p = <<"reader">>
<1> DEFINE B(f) == {<<f, "buffer", i>> : i \in {j \in DOMAIN buffer[f] : buffer[f][j] = s}}
           A(f) == {<<f, "aside", i>> : i \in {j \in DOMAIN depth_update_buffer[f] :
                                                depth_update_buffer[f][j] = s}}
           S(f) == {<<f, "snapshot", i>> : i \in {j \in DOMAIN snapshot[f] : snapshot[f][j] = s}}
           K == {B(f) \cup A(f) \cup S(f) : f \in Exchanges}
           C == {<<"channel", i>> : i \in {j \in DOMAIN channel : channel[j] = s}}
           R == {<<"reader">> : x \in {held} \cap {s}}
<1>1. p \in R <=> s = held /\ p = <<"reader">>
  OBVIOUS
<1>2. p \in C <=> \E i \in DOMAIN channel : p = <<"channel", i>> /\ channel[i] = s
  OBVIOUS
<1>3. \A f \in Exchanges :
       /\ p \in B(f) <=> \E i \in DOMAIN buffer[f] : p = <<f, "buffer", i>> /\ buffer[f][i] = s
       /\ p \in A(f) <=> \E i \in DOMAIN depth_update_buffer[f] :
                           p = <<f, "aside", i>> /\ depth_update_buffer[f][i] = s
       /\ p \in S(f) <=> \E i \in DOMAIN snapshot[f] :
                           p = <<f, "snapshot", i>> /\ snapshot[f][i] = s
  OBVIOUS
<1>4. PlacesOf(s) = (UNION K) \cup C \cup R
  BY DEF PlacesOf
<1>5. p \in UNION K <=> \E f \in Exchanges : p \in B(f) \/ p \in A(f) \/ p \in S(f)
  <2> HIDE DEF B, A, S
  <2>1. p \in UNION K <=> \E k \in K : p \in k
    OBVIOUS
  <2> QED  BY <2>1
<1> HIDE DEF B, A, S, K, C, R
<1> QED  BY <1>1, <1>2, <1>3, <1>4, <1>5

\* Where a slot that is in its place can be: in one of its own exchange.
LEMMA InPlaces ==
  ASSUME Stocked, NEW s \in Slots, NEW e, e = s[1], NEW p, p \in PlacesOf(s)
  PROVE  \/ s \in Entries(buffer[e])
            /\ \E i \in DOMAIN buffer[e] : p = <<e, "buffer", i>> /\ buffer[e][i] = s
         \/ s \in Entries(depth_update_buffer[e])
            /\ \E i \in DOMAIN depth_update_buffer[e] :
                 p = <<e, "aside", i>> /\ depth_update_buffer[e][i] = s
         \/ s \in Entries(snapshot[e])
            /\ \E i \in DOMAIN snapshot[e] : p = <<e, "snapshot", i>> /\ snapshot[e][i] = s
         \/ s \in Entries(channel)
            /\ \E i \in DOMAIN channel : p = <<"channel", i>> /\ channel[i] = s
         \/ s = held /\ p = <<"reader">>
<1>1. /\ \A f \in Exchanges : Owned(f)
      /\ DOMAIN channel = 1 .. Len(channel)
  BY LenProperties DEF Stocked, Stock, Channelled
<1>2. ASSUME NEW f \in Exchanges, NEW q \in Seq(SlotsOf(f)), NEW i \in DOMAIN q, q[i] = s
      PROVE  f = e /\ s \in Entries(q)
  <2>1. DOMAIN q = 1 .. Len(q)
    BY LenProperties
  <2>2. s \in Entries(q)
    BY <1>2, <2>1 DEF Entries
  <2>3. s \in SlotsOf(f)
    BY <2>2, EntriesType
  <2> QED  BY <2>2, <2>3 DEF SlotsOf
<1>3. \/ \E f \in Exchanges :
           \/ \E i \in DOMAIN buffer[f] : p = <<f, "buffer", i>> /\ buffer[f][i] = s
           \/ \E i \in DOMAIN depth_update_buffer[f] :
                p = <<f, "aside", i>> /\ depth_update_buffer[f][i] = s
           \/ \E i \in DOMAIN snapshot[f] : p = <<f, "snapshot", i>> /\ snapshot[f][i] = s
      \/ \E i \in DOMAIN channel : p = <<"channel", i>> /\ channel[i] = s
      \/ s = held /\ p = <<"reader">>
  BY PlacesUnfold
<1>4. ASSUME NEW f \in Exchanges, NEW i \in DOMAIN buffer[f],
             p = <<f, "buffer", i>>, buffer[f][i] = s
      PROVE  /\ s \in Entries(buffer[e])
             /\ \E j \in DOMAIN buffer[e] : p = <<e, "buffer", j>> /\ buffer[e][j] = s
  BY <1>1, <1>2, <1>4 DEF Owned
<1>5. ASSUME NEW f \in Exchanges, NEW i \in DOMAIN depth_update_buffer[f],
             p = <<f, "aside", i>>, depth_update_buffer[f][i] = s
      PROVE  /\ s \in Entries(depth_update_buffer[e])
             /\ \E j \in DOMAIN depth_update_buffer[e] :
                  p = <<e, "aside", j>> /\ depth_update_buffer[e][j] = s
  BY <1>1, <1>2, <1>5 DEF Owned
<1>6. ASSUME NEW f \in Exchanges, NEW i \in DOMAIN snapshot[f],
             p = <<f, "snapshot", i>>, snapshot[f][i] = s
      PROVE  /\ s \in Entries(snapshot[e])
             /\ \E j \in DOMAIN snapshot[e] : p = <<e, "snapshot", j>> /\ snapshot[e][j] = s
  BY <1>1, <1>2, <1>6 DEF Owned
<1>7. (\E i \in DOMAIN channel : channel[i] = s) => s \in Entries(channel)
  BY <1>1 DEF Entries
<1> QED  BY <1>3, <1>4, <1>5, <1>6, <1>7

\* The parser, a stream's four places, the channel and the reader neither lose a
\* slot nor have one twice: ingest_book takes only free slots, and a slot is
\* moved, or released, by whoever has it.
THEOREM NoSlotLeaks == Spec => []SlotsConserved
<1>1. ASSUME Stocked, NEW s \in Slots
      PROVE  Cardinality(PlacesOf(s)) = IF s \in DOMAIN pool THEN 1 ELSE 0
  <2>1. PICK e \in Exchanges : e = s[1] /\ s \in SlotsOf(e)
    BY SlotsOfOne
  <2>2. Owned(e) /\ Channelled
    BY <1>1 DEF Stocked, Stock
  <2>3. /\ s \in DOMAIN pool <=> s \in Kept(e) \/ s \in Away(e)
        /\ s \in Kept(e) => s \notin Away(e)
        /\ s \in Away(e) <=> s \in Entries(channel) \/ s = held
        /\ s = held => s \notin Entries(channel)
    BY <2>1, <2>2 DEF Owned, Away, Channelled
  <2>4. CASE s \notin DOMAIN pool
    <3>1. s \notin Kept(e) /\ s \notin Entries(channel) /\ s # held
      BY <2>3, <2>4
    <3>2. PlacesOf(s) = {}
      BY <1>1, <2>1, <3>1, InPlaces DEF Kept
    <3> QED  BY <2>4, <3>2, FS_EmptySet
  <2>5. CASE s \in DOMAIN pool
    <3>1. ASSUME NEW q, NEW i \in 1 .. Len(q), NEW j \in DOMAIN q,
                 Once(q), DOMAIN q = 1 .. Len(q), q[i] = s, q[j] = s
          PROVE  j = i
      BY <3>1 DEF Once
    <3>2. CASE s \in Entries(buffer[e])
      <4>1. PICK i \in 1 .. Len(buffer[e]) : buffer[e][i] = s
        BY <3>2 DEF Entries
      <4>2. DOMAIN buffer[e] = 1 .. Len(buffer[e]) /\ Once(buffer[e])
        BY <2>2, LenProperties DEF Owned
      <4>3. /\ s \notin Entries(depth_update_buffer[e]) /\ s \notin Entries(snapshot[e])
            /\ s \notin Entries(channel) /\ s # held
        BY <2>2, <2>3, <3>2 DEF Owned, Kept
      <4>4. <<e, "buffer", i>> \in PlacesOf(s)
        BY <4>1, <4>2, PlacesUnfold
      <4>5. \A p \in PlacesOf(s) : p = <<e, "buffer", i>>
        BY <1>1, <2>1, <3>1, <4>1, <4>2, <4>3, InPlaces
      <4> QED  BY <2>5, <4>4, <4>5, OnePlace
    <3>3. CASE s \in Entries(depth_update_buffer[e])
      <4>1. PICK i \in 1 .. Len(depth_update_buffer[e]) : depth_update_buffer[e][i] = s
        BY <3>3 DEF Entries
      <4>2. /\ DOMAIN depth_update_buffer[e] = 1 .. Len(depth_update_buffer[e])
            /\ Once(depth_update_buffer[e])
        BY <2>2, LenProperties DEF Owned
      <4>3. /\ s \notin Entries(buffer[e]) /\ s \notin Entries(snapshot[e])
            /\ s \notin Entries(channel) /\ s # held
        BY <2>2, <2>3, <3>3 DEF Owned, Kept
      <4>4. <<e, "aside", i>> \in PlacesOf(s)
        BY <4>1, <4>2, PlacesUnfold
      <4>5. \A p \in PlacesOf(s) : p = <<e, "aside", i>>
        BY <1>1, <2>1, <3>1, <4>1, <4>2, <4>3, InPlaces
      <4> QED  BY <2>5, <4>4, <4>5, OnePlace
    <3>4. CASE s \in Entries(snapshot[e])
      <4>1. PICK i \in 1 .. Len(snapshot[e]) : snapshot[e][i] = s
        BY <3>4 DEF Entries
      <4>2. DOMAIN snapshot[e] = 1 .. Len(snapshot[e]) /\ Once(snapshot[e])
        BY <2>2, LenProperties DEF Owned
      <4>3. /\ s \notin Entries(buffer[e]) /\ s \notin Entries(depth_update_buffer[e])
            /\ s \notin Entries(channel) /\ s # held
        BY <2>2, <2>3, <3>4 DEF Owned, Kept
      <4>4. <<e, "snapshot", i>> \in PlacesOf(s)
        BY <4>1, <4>2, PlacesUnfold
      <4>5. \A p \in PlacesOf(s) : p = <<e, "snapshot", i>>
        BY <1>1, <2>1, <3>1, <4>1, <4>2, <4>3, InPlaces
      <4> QED  BY <2>5, <4>4, <4>5, OnePlace
    <3>5. CASE s \in Entries(channel)
      <4>1. PICK i \in 1 .. Len(channel) : channel[i] = s
        BY <3>5 DEF Entries
      <4>2. DOMAIN channel = 1 .. Len(channel) /\ Once(channel)
        BY <2>2, LenProperties DEF Channelled
      <4>3. s \notin Kept(e) /\ s # held
        BY <2>3, <3>5
      <4>4. <<"channel", i>> \in PlacesOf(s)
        BY <4>1, <4>2, PlacesUnfold
      <4>5. \A p \in PlacesOf(s) : p = <<"channel", i>>
        BY <1>1, <2>1, <3>1, <4>1, <4>2, <4>3, InPlaces DEF Kept
      <4> QED  BY <2>5, <4>4, <4>5, OnePlace
    <3>6. CASE s = held
      <4>1. s \notin Kept(e) /\ s \notin Entries(channel)
        BY <2>3, <3>6
      <4>2. <<"reader">> \in PlacesOf(s)
        BY <3>6, PlacesUnfold
      <4>3. \A p \in PlacesOf(s) : p = <<"reader">>
        BY <1>1, <2>1, <4>1, InPlaces DEF Kept
      <4> QED  BY <2>5, <4>2, <4>3, OnePlace
    <3> QED  BY <2>3, <2>5, <3>2, <3>3, <3>4, <3>5, <3>6 DEF Kept
  <2> QED  BY <2>4, <2>5
<1>2. Stocked => SlotsConserved
  BY <1>1 DEF SlotsConserved
<1> QED  BY <1>2, StockedHolds, PTL

LEMMA EntriesCard ==
  ASSUME NEW T, NEW s \in Seq(T)
  PROVE  IsFiniteSet(Entries(s)) /\ Cardinality(Entries(s)) <= Len(s)
<1>1. PICK k \in Nat : k = Len(s)
  BY LenProperties
<1>2. s \in [1 .. k -> Entries(s)] /\ \A x \in Entries(s) : \E i \in 1 .. k : s[i] = x
  BY <1>1, LenProperties DEF Entries
<1>3. s \in Surjection(1 .. k, Entries(s))
  BY <1>2 DEF Surjection
<1>4. IsFiniteSet(1 .. k) /\ Cardinality(1 .. k) = k
  BY FS_Interval
<1> QED  BY <1>1, <1>3, <1>4, FS_Surjection

LEMMA UnionBound ==
  ASSUME NEW S, NEW T, IsFiniteSet(S), IsFiniteSet(T)
  PROVE  /\ IsFiniteSet(S \cup T)
         /\ Cardinality(S \cup T) <= Cardinality(S) + Cardinality(T)
<1>1. IsFiniteSet(S \cap T)
  BY FS_Intersection
<1>2. /\ Cardinality(S) \in Nat /\ Cardinality(T) \in Nat /\ Cardinality(S \cap T) \in Nat
      /\ Cardinality(S \cup T) \in Nat /\ IsFiniteSet(S \cup T)
  BY <1>1, FS_CardinalityType, FS_Union
<1>3. Cardinality(S \cup T) = Cardinality(S) + Cardinality(T) - Cardinality(S \cap T)
  BY FS_Union
<1> QED  BY <1>2, <1>3

LEMMA PoolSize ==
  ASSUME NEW e \in Exchanges
  PROVE  IsFiniteSet(SlotsOf(e)) /\ Cardinality(SlotsOf(e)) = PoolCap
<1> DEFINE f == [i \in 1 .. PoolCap |-> <<e, i>>]
<1>1. PoolCap \in Nat
  BY StreamAssumption DEF PoolCap
<1>2. \A i \in 1 .. PoolCap : <<e, i>> \in SlotsOf(e)
  BY DEF SlotsOf, Slots
<1>3. \A s \in SlotsOf(e) : \E i \in 1 .. PoolCap : s = <<e, i>>
  BY DEF SlotsOf, Slots
<1>4. f \in Bijection(1 .. PoolCap, SlotsOf(e))
  BY <1>2, <1>3 DEF Bijection, Injection, Surjection, IsInjective
<1>5. IsFiniteSet(1 .. PoolCap) /\ Cardinality(1 .. PoolCap) = PoolCap
  BY <1>1, FS_Interval
<1>6. ExistsBijection(1 .. PoolCap, SlotsOf(e))
  BY <1>4 DEF ExistsBijection
<1> QED  BY <1>5, <1>6, FS_Bijection

\* A pool is so large that what its exchange keeps and what it has sent leaves
\* this much of it free.
LEMMA FreeInPool ==
  ASSUME Stock, NEW e \in Exchanges
  PROVE  /\ Cardinality(FreeSlots(e)) \in Nat
         /\ Cardinality(FreeSlots(e)) + 1 + Len(buffer[e]) + Len(depth_update_buffer[e])
              + Len(snapshot[e]) >= 4 * BUF
<1>1. Owned(e) /\ Channelled
  BY DEF Stock
<1>2. PICK b \in Nat : b = Len(buffer[e])
  BY <1>1, LenProperties DEF Owned
<1>3. PICK d \in Nat : d = Len(depth_update_buffer[e])
  BY <1>1, LenProperties DEF Owned
<1>4. PICK n \in Nat : n = Len(snapshot[e])
  BY <1>1, LenProperties DEF Owned
<1>5. PICK c \in Nat : c = Len(channel)
  BY <1>1, LenProperties DEF Channelled
<1>6. IsFiniteSet(Kept(e)) /\ Cardinality(Kept(e)) <= b + d + n
  <2>1. /\ IsFiniteSet(Entries(buffer[e])) /\ Cardinality(Entries(buffer[e])) <= b
        /\ IsFiniteSet(Entries(depth_update_buffer[e]))
        /\ Cardinality(Entries(depth_update_buffer[e])) <= d
        /\ IsFiniteSet(Entries(snapshot[e])) /\ Cardinality(Entries(snapshot[e])) <= n
    BY <1>1, <1>2, <1>3, <1>4, EntriesCard DEF Owned
  <2>2. PICK U : U = Entries(buffer[e]) \cup Entries(depth_update_buffer[e])
    OBVIOUS
  <2>3. /\ IsFiniteSet(U)
        /\ Cardinality(U) <= Cardinality(Entries(buffer[e]))
                               + Cardinality(Entries(depth_update_buffer[e]))
    BY <2>1, <2>2, UnionBound
  <2>4. /\ IsFiniteSet(U \cup Entries(snapshot[e]))
        /\ Cardinality(U \cup Entries(snapshot[e]))
             <= Cardinality(U) + Cardinality(Entries(snapshot[e]))
    BY <2>1, <2>3, UnionBound
  <2>5. /\ Cardinality(U) \in Nat /\ Cardinality(Entries(buffer[e])) \in Nat
        /\ Cardinality(Entries(depth_update_buffer[e])) \in Nat
        /\ Cardinality(Entries(snapshot[e])) \in Nat
        /\ Cardinality(U \cup Entries(snapshot[e])) \in Nat
    BY <2>1, <2>3, <2>4, FS_CardinalityType
  <2>6. Kept(e) = U \cup Entries(snapshot[e])
    BY <2>2 DEF Kept
  <2>7. Cardinality(U \cup Entries(snapshot[e])) <= b + d + n
    BY <2>1, <2>3, <2>4, <2>5
  <2> QED  BY <2>4, <2>6, <2>7
<1>7. IsFiniteSet(Away(e)) /\ Cardinality(Away(e)) <= c + 1
  <2>1. IsFiniteSet(Entries(channel)) /\ Cardinality(Entries(channel)) <= c
    BY <1>1, <1>5, EntriesCard DEF Channelled
  <2>2. PICK U : U = Entries(channel) \cup {held}
    OBVIOUS
  <2>3. /\ IsFiniteSet(U)
        /\ Cardinality(U) = IF held \in Entries(channel) THEN Cardinality(Entries(channel))
                            ELSE Cardinality(Entries(channel)) + 1
    BY <2>1, <2>2, FS_AddElement
  <2>4. Away(e) \in SUBSET U
    BY <2>2 DEF Away
  <2>5. IsFiniteSet(Away(e)) /\ Cardinality(Away(e)) <= Cardinality(U)
    BY <2>3, <2>4, FS_Subset
  <2>6. /\ Cardinality(Away(e)) \in Nat /\ Cardinality(U) \in Nat
        /\ Cardinality(Entries(channel)) \in Nat
    BY <2>1, <2>3, <2>5, FS_CardinalityType
  <2> QED  BY <2>1, <2>3, <2>5, <2>6
<1>8. PICK taken : taken = SlotsOf(e) \cap DOMAIN pool
  OBVIOUS
<1>9. /\ IsFiniteSet(taken) /\ Cardinality(taken) \in Nat
      /\ Cardinality(taken) <= b + d + n + c + 1
  <2>1. taken = Kept(e) \cup Away(e)
    BY <1>1, <1>8 DEF Owned
  <2>2. IsFiniteSet(taken) /\ Cardinality(taken) <= Cardinality(Kept(e)) + Cardinality(Away(e))
    BY <1>6, <1>7, <2>1, UnionBound
  <2>3. /\ Cardinality(taken) \in Nat /\ Cardinality(Kept(e)) \in Nat
        /\ Cardinality(Away(e)) \in Nat
    BY <1>6, <1>7, <2>2, FS_CardinalityType
  <2> QED  BY <1>6, <1>7, <2>2, <2>3
<1>10. /\ Cardinality(FreeSlots(e)) \in Nat
       /\ Cardinality(FreeSlots(e)) = PoolCap - Cardinality(taken)
  <2>1. FreeSlots(e) = SlotsOf(e) \ DOMAIN pool
    BY DEF FreeSlots, SlotsOf
  <2>2. /\ IsFiniteSet(SlotsOf(e) \ DOMAIN pool)
        /\ Cardinality(SlotsOf(e) \ DOMAIN pool)
             = Cardinality(SlotsOf(e)) - Cardinality(SlotsOf(e) \cap DOMAIN pool)
    BY PoolSize, FS_Difference
  <2> QED  BY <1>8, <2>1, <2>2, PoolSize, FS_CardinalityType
<1>11. c <= ChannelCap /\ ChannelCap \in Nat /\ BUF \in Nat /\ PoolCap = ChannelCap + 4 * BUF
  BY <1>1, <1>5, StreamAssumption DEF Channelled, PoolCap
<1>12. Cardinality(FreeSlots(e)) + 1 + b + d + n >= 4 * BUF
  BY <1>9, <1>10, <1>11
<1> QED  BY <1>2, <1>3, <1>4, <1>10, <1>12

\* A pool of a full channel and four buffers never refuses a payload that its
\* buffer has room for, whether the reader ever releases a slot or has gone:
\* three buffers and the reader's one slot leave a buffer's worth free
\* (exchange.rs:39).
THEOREM PoolIsLargeEnough == Spec => []PoolOutlastsBuffers
<1>1. ASSUME Stocked, NEW e \in Exchanges
      PROVE  /\ pc[e] = "read" => Cardinality(FreeSlots(e)) >= BUF - Len(Target(e))
             /\ pc[e] = "pull" => Cardinality(FreeSlots(e)) >= BUF
  <2>1. Owned(e) /\ Stock
    BY <1>1 DEF Stocked, Stock
  <2>2. PICK b \in Nat : b = Len(buffer[e])
    BY <2>1, LenProperties DEF Owned
  <2>3. PICK d \in Nat : d = Len(depth_update_buffer[e])
    BY <2>1, LenProperties DEF Owned
  <2>4. PICK n \in Nat : n = Len(snapshot[e])
    BY <2>1, LenProperties DEF Owned
  <2>5. PICK x \in Nat : x = Cardinality(FreeSlots(e))
    BY <2>1, FreeInPool
  <2>6. /\ x + 1 + b + d + n >= 4 * BUF
        /\ b <= BUF /\ d <= BUF /\ n <= BUF /\ BUF \in Nat \ {0}
    BY <2>1, <2>2, <2>3, <2>4, <2>5, FreeInPool, StreamAssumption DEF Owned
  <2>7. x >= BUF - b /\ x >= BUF - d
    BY <2>6
  <2>8. Len(Target(e)) \in {b, d}
    BY <2>2, <2>3 DEF Target
  <2>9. pc[e] = "pull" => n = 0
    <3>1. pc[e] = "pull" => snapshot[e] = <<>>
      BY <1>1 DEF Stocked, Control
    <3> QED  BY <2>4, <3>1, EmptySeq
  <2>10. n = 0 => x >= BUF
    BY <2>6
  <2> QED  BY <2>5, <2>7, <2>8, <2>9, <2>10
<1>2. Stocked => PoolOutlastsBuffers
  BY <1>1 DEF PoolOutlastsBuffers
<1> QED  BY <1>2, StockedHolds, PTL
=============================================================================
