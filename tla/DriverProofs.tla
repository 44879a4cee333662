---------------------------- MODULE DriverProofs ----------------------------
(* Theorems about DepthDriver: it calls the exchanges only as they may be  *)
(* called, so what was proved of them holds under it; its start-up leaves  *)
(* every stream synced; and no stream of name 1 panics in the order in     *)
(* which it makes its calls.                                               *)
EXTENDS DepthDriver, PathProofs

-----------------------------------------------------------------------------
(* The order of the exchanges.                                             *)

LEMMA OrderLength ==
  /\ Len(Order) \in Nat \ {0} /\ DOMAIN Order = 1 .. Len(Order)
  /\ \A i \in DOMAIN Order : Order[i] \in Exchanges
<1>1. PICK n : n = Cardinality(Exchanges)
  OBVIOUS
<1>2. n \in Nat /\ n # 0
  BY <1>1, StreamAssumption, OrderAssumption, FS_CardinalityType, FS_EmptySet
<1>3. Order \in [1 .. n -> Exchanges]
  BY <1>1, OrderAssumption
<1>4. Order \in Seq(Exchanges)
  BY <1>2, <1>3, SeqDef
<1>5. PICK k \in Nat : k = Len(Order) /\ DOMAIN Order = 1 .. k
  BY <1>4, LenProperties
<1>6. 1 .. n = 1 .. k
  BY <1>3, <1>5
<1>7. k = n
  BY <1>2, <1>6
<1> QED  BY <1>2, <1>3, <1>5, <1>7

\* Every exchange has its turn.
LEMMA OrderCovers == \A x \in Exchanges : \E i \in DOMAIN Order : Order[i] = x
<1>1. PICK n : n = Cardinality(Exchanges)
  OBVIOUS
<1>2. n \in Nat
  BY <1>1, StreamAssumption, FS_CardinalityType
<1>3. Order \in Injection(1 .. n, Exchanges)
  BY <1>1, OrderAssumption DEF Injection, IsInjective
<1>4. Cardinality(1 .. n) = n
  BY <1>2, FS_Interval
<1>5. Order \in Surjection(1 .. n, Exchanges)
  BY <1>1, <1>3, <1>4, StreamAssumption, FS_Injection
<1>6. DOMAIN Order = 1 .. n
  BY <1>1, OrderAssumption
<1> QED  BY <1>5, <1>6 DEF Surjection

-----------------------------------------------------------------------------
(* Types, and the driver as a caller of ExchangeStream.                    *)

LEMMA AdvanceTyped ==
  ASSUME at \in DOMAIN Order, NEW next, Advance(next)
  PROVE  at' \in DOMAIN Order /\ phase' \in {phase, next}
<1>1. PICK n \in Nat \ {0} : n = Len(Order) /\ DOMAIN Order = 1 .. n
  BY OrderLength
<1> QED  BY <1>1 DEF Advance

LEMMA InitTyped == DInit => DriverTypeOK
BY OrderLength DEF DInit, DriverTypeOK

LEMMA NextTyped ==
  ASSUME DriverTypeOK, [DNext]_dvars
  PROVE  DriverTypeOK'
<1> USE DEF DriverTypeOK
<1>1. Turn \in Exchanges
  BY OrderLength DEF Turn
<1>2. CASE ConnectOne
  BY <1>1, <1>2, AdvanceTyped DEF ConnectOne, ConnectThen, Answer
<1>3. CASE SubscribeOne
  BY <1>3, AdvanceTyped DEF SubscribeOne, Answer
<1>4. CASE SnapshotEnds
  BY <1>4, AdvanceTyped DEF SnapshotEnds, Answer
<1>5. CASE PushOne
  BY <1>5, AdvanceTyped DEF PushOne
<1>6. CASE SnapshotBegins
  BY <1>6 DEF SnapshotBegins, driver
<1>7. CASE JoinAll
  BY <1>7 DEF JoinAll, Answer
<1>8. ASSUME NEW e \in Exchanges, StreamAgain(e) \/ StreamEnds(e) \/ Inside(e)
      PROVE  DriverTypeOK'
  BY <1>8 DEF StreamAgain, StreamEnds, Inside, driver
<1>9. CASE CancelRun
  BY <1>9 DEF CancelRun, Answer
<1>10. CASE Reader \/ UNCHANGED dvars
  BY <1>10 DEF Reader, dvars, driver
<1> QED  BY <1>2, <1>3, <1>4, <1>5, <1>6, <1>7, <1>8, <1>9, <1>10 DEF DNext, DriverStep

\* The driver's variables keep their types: its turn never leaves the Vec.
THEOREM DriverTypeCorrect == DSpec => []DriverTypeOK
<1>1. DriverTypeOK /\ [DNext]_dvars => DriverTypeOK'
  BY NextTyped
<1> QED  BY <1>1, InitTyped, PTL DEF DSpec

LEMMA DriverCalls ==
  ASSUME DriverTypeOK, [DNext]_dvars
  PROVE  [Next]_vars
<1>1. Turn \in Exchanges
  BY OrderLength DEF DriverTypeOK, Turn
<1>2. CASE DriverStep
  <2>1. Connect(Turn) \/ RunSnapshot(Turn) \/ PushBufferedWsDepths(Turn) \/ UNCHANGED vars
    BY <1>2 DEF DriverStep, ConnectOne, ConnectThen, SubscribeOne, SnapshotBegins,
                SnapshotEnds, PushOne, JoinAll
  <2> QED  BY <1>1, <2>1 DEF Next
<1>3. ASSUME NEW e \in Exchanges, StreamAgain(e) \/ StreamEnds(e) \/ Inside(e)
      PROVE  [Next]_vars
  <2>1. \/ Run(e) \/ UNCHANGED vars
        \/ PullOk(e) \/ PullErr(e) \/ PullPanic(e) \/ Poll(e)
    BY <1>3 DEF StreamAgain, StreamEnds, Inside
  <2> QED  BY <2>1 DEF Next
<1>4. CASE CancelRun
  <2>1. Cancel(Turn) \/ UNCHANGED vars
    BY <1>4 DEF CancelRun
  <2> QED  BY <1>1, <2>1 DEF Next
<1>5. CASE Reader \/ UNCHANGED dvars
  <2>1. Take \/ Release \/ Close \/ UNCHANGED vars
    BY <1>5 DEF Reader, dvars
  <2> QED  BY <2>1 DEF Next
<1> QED  BY <1>2, <1>3, <1>4, <1>5 DEF DNext

\* The driver is a caller as ExchangeStream allows for: it makes each call
\* where the executor may run it, so its behaviours are among those of Spec.
THEOREM DriverIsACaller == DSpec => Spec
<1>1. DInit => Init
  BY DEF DInit
<1>2. DriverTypeOK /\ [DNext]_dvars => [Next]_vars
  BY DriverCalls
<1> QED  BY <1>1, <1>2, DriverTypeCorrect, PTL DEF DSpec, Spec

\* Under the driver, too, no slot of any pool leaks or is reused too early.
THEOREM DriverLeaksNoSlot == DSpec => []SlotsConserved
BY DriverIsACaller, NoSlotLeaks, PTL

\* Under the driver, too, no depth is dropped while the reader is there.
THEOREM DriverLosesNoDepth == DSpec => []DepthsConserved
BY DriverIsACaller, NoDepthLost, PTL

\* Under the driver the path of depths is DepthPath: the reader views each depth
\* accepted at most once, and only a reader that has gone loses one.
THEOREM DriverImplementsPath == DSpec => Refinement
BY DriverIsACaller, StreamImplementsPath

-----------------------------------------------------------------------------
(* Start-up.  The invariant says of every exchange how far it has come,    *)
(* phase by phase, and of those that had their turn in this phase what     *)
(* they have gained by it.                                                 *)

Unused(x) == call[x] = "none" /\ pc[x] = "idle"
Linked(x) == socket[x] # "none" /\ sink[x] = "open"
\* The depths of a snapshot were taken over.
Pulled(x) == call[x] = "run_snapshot" /\ pc[x] = "idle" /\ pulls[x] > 0
Launched(x) ==
  /\ Linked(x) /\ pulls[x] > 0 /\ ~buffer_websocket_depths[x]
  /\ call[x] = "run" \/ Pulled(x)

\* run_snapshot goes on after the pull only if the pull was answered.
Answered(x) ==
  call[x] = "run_snapshot" /\ (pc[x] \in {"iter", "send", "read"} \/ result[x] = "Ok")
    => pulls[x] > 0

Streaming == phase = "stream" \/ \E e \in Exchanges : task[e] # "none"

Course ==
  /\ \A x \in Exchanges : Answered(x)
  /\ phase = "connect" => \A i \in 1 .. at - 1 : Linked(Order[i])
  /\ phase \in {"subscribe", "snapshot", "push"} => \A x \in Exchanges : Linked(x)
  /\ phase \in {"connect", "subscribe"} => \A x \in Exchanges : Unused(x)
  /\ phase = "snapshot" =>
       /\ \A i \in 1 .. at - 1 : Pulled(Order[i])
       /\ \A i \in DOMAIN Order : i > at => Unused(Order[i])
       /\ call[Turn] = "none" => Unused(Turn)
       /\ call[Turn] \in {"none", "run_snapshot"}
  /\ phase = "push" =>
       /\ \A x \in Exchanges : Pulled(x)
       /\ \A i \in 1 .. at - 1 : ~buffer_websocket_depths[Order[i]]
  /\ Streaming => phase \in {"stream", "done"} /\ \A x \in Exchanges : Launched(x)

\* Of an exchange of name 1 only run_snapshot fills the array of depths put
\* aside, and it is called once: the array takes a whole snapshot.
Roomy(e) ==
  Name[e] = 1 =>
    /\ Len(depth_update_buffer[e]) + Len(snapshot[e]) <= BUF
    /\ call[e] = "none" \/ pc[e] = "pull" => depth_update_buffer[e] = <<>>
    /\ http_client[e] => pc[e] # "panicked"

Sound == \A e \in Exchanges : call[e] # "run_with_snapshot" /\ Roomy(e)

LEMMA InitCourse == DInit => Course /\ Sound
<1> SUFFICES ASSUME DInit PROVE Course /\ Sound
  OBVIOUS
<1>1. \A x \in Exchanges : /\ call[x] = "none" /\ pc[x] = "idle" /\ task[x] = "none"
                           /\ depth_update_buffer[x] = <<>> /\ snapshot[x] = <<>>
  BY DEF DInit, Init
<1>2. phase = "connect" /\ at = 1
  BY DEF DInit
<1>3. Course
  BY <1>1, <1>2 DEF Course, Answered, Unused, Streaming
<1>4. Len(<<>>) + Len(<<>>) <= BUF
  BY StreamAssumption
<1>5. \A x \in Exchanges : Len(depth_update_buffer[x]) + Len(snapshot[x]) <= BUF
  BY <1>1, <1>4
<1>6. Sound
  BY <1>1, <1>5 DEF Sound, Roomy
<1> QED  BY <1>3, <1>6

\* What the driver reads of the exchanges.
seen == <<socket, pc, call, result, pulls, buffer_websocket_depths>>

LEMMA SameCourse ==
  ASSUME Course, UNCHANGED seen, UNCHANGED <<phase, at, sink>>,
         \A e \in Exchanges : task'[e] # "none" => task[e] # "none"
  PROVE  Course'
BY DEF Course, seen, Answered, Linked, Unused, Pulled, Launched, Streaming, Turn

\* The driver answers: the tasks there are have their exchanges launched.
LEMMA AnswerCourse ==
  ASSUME Course, UNCHANGED seen, UNCHANGED sink, phase' = "done", task' = task
  PROVE  Course'
<1>1. \A x \in Exchanges : Answered(x)'
  BY DEF Course, Answered, seen
<1>2. Streaming' => Streaming
  BY DEF Streaming
<1>3. \A x \in Exchanges : Launched(x) => Launched(x)'
  BY DEF Launched, Linked, Pulled, seen
<1> QED  BY <1>1, <1>2, <1>3 DEF Course

\* Those that had their turn, when the turn goes on.
LEMMA TurnGoesOn ==
  ASSUME at \in DOMAIN Order, NEW next, Advance(next),
         NEW S, \A i \in 1 .. at - 1 : Order[i] \in S, Turn \in S
  PROVE  \/ /\ at < Len(Order) /\ at' = at + 1 /\ phase' = phase
            /\ \A i \in 1 .. at' - 1 : Order[i] \in S
         \/ /\ at = Len(Order) /\ at' = 1 /\ phase' = next
            /\ \A x \in Exchanges : x \in S
            /\ \A i \in 1 .. at' - 1 : FALSE
<1>1. PICK n \in Nat \ {0} : n = Len(Order) /\ DOMAIN Order = 1 .. n
  BY OrderLength
<1>2. at \in 1 .. n
  BY <1>1
<1>3. CASE at < n
  <2>1. at' = at + 1 /\ phase' = phase
    BY <1>1, <1>3 DEF Advance
  <2>2. \A i \in 1 .. at' - 1 : i = at \/ i \in 1 .. at - 1
    BY <1>2, <2>1
  <2>3. \A i \in 1 .. at' - 1 : Order[i] \in S
    BY <2>2 DEF Turn
  <2> QED  BY <1>1, <1>3, <2>1, <2>3
<1>4. CASE at = n
  <2>1. at' = 1 /\ phase' = next
    BY <1>1, <1>4 DEF Advance
  <2>2. \A i \in DOMAIN Order : i = at \/ i \in 1 .. at - 1
    BY <1>1, <1>2, <1>4
  <2>3. \A i \in DOMAIN Order : Order[i] \in S
    BY <2>2 DEF Turn
  <2>4. \A x \in Exchanges : x \in S
    BY <2>3, OrderCovers
  <2> QED  BY <1>1, <1>4, <2>1, <2>4
<1> QED  BY <1>2, <1>3, <1>4

LEMMA ConnectCourse ==
  ASSUME DriverTypeOK, Control, Course, ConnectOne
  PROVE  Course'
<1>1. /\ phase = "connect" /\ task' = task /\ \A x \in Exchanges : Unused(x) /\ task[x] = "none"
      /\ at \in DOMAIN Order
  BY DEF ConnectOne, ConnectThen, Course, Streaming, DriverTypeOK
<1>2. CASE Answer("Err") /\ UNCHANGED <<vars, sink>>
  BY <1>1, <1>2, AnswerCourse DEF Answer, vars, seen
<1>3. CASE Connect(Turn) /\ sink' = [sink EXCEPT ![Turn] = "open"] /\ Advance("subscribe")
  <2>1. PICK S : S = {x \in Exchanges : socket'[x] # "none" /\ sink'[x] = "open"}
    OBVIOUS
  <2>2. Turn \in Exchanges /\ \A i \in 1 .. at - 1 : i \in DOMAIN Order /\ Order[i] \in Exchanges
    <3>1. PICK n \in Nat \ {0} : n = Len(Order) /\ DOMAIN Order = 1 .. n
      BY OrderLength
    <3> QED  BY <1>1, <3>1, OrderLength DEF Turn
  <2>3. /\ socket' = [socket EXCEPT ![Turn] = "open"] /\ UNCHANGED <<pc, call, result, pulls>>
        /\ UNCHANGED buffer_websocket_depths
    BY <1>3 DEF Connect, control
  <2>4. socket \in [Exchanges -> {"none", "open", "ended"}]
        /\ sink \in [Exchanges -> {"none", "open", "closed"}]
    BY DEF Control, DriverTypeOK
  <2>5. Turn \in S /\ \A x \in Exchanges : Linked(x) => x \in S
    BY <1>3, <2>1, <2>2, <2>3, <2>4 DEF Linked
  <2>6. \A i \in 1 .. at - 1 : Order[i] \in S
    BY <1>1, <2>2, <2>5 DEF Course
  <2>7. \A x \in S : Linked(x)'
    BY <2>1 DEF Linked
  <2>8. \A x \in Exchanges : Unused(x)' /\ Answered(x)'
    BY <1>1, <2>3 DEF Unused, Answered
  <2>9. CASE phase' = phase /\ \A i \in 1 .. at' - 1 : Order[i] \in S
    BY <1>1, <2>7, <2>8, <2>9 DEF Course, Streaming
  <2>10. CASE phase' = "subscribe" /\ \A x \in Exchanges : x \in S
    BY <1>1, <2>7, <2>8, <2>10 DEF Course, Streaming
  <2> QED  BY <1>1, <1>3, <2>5, <2>6, <2>9, <2>10, TurnGoesOn
<1> QED  BY <1>2, <1>3 DEF ConnectOne, ConnectThen

LEMMA SubscribeCourse ==
  ASSUME DriverTypeOK, Course, SubscribeOne
  PROVE  Course'
<1>1. /\ phase = "subscribe" /\ UNCHANGED seen /\ UNCHANGED <<sink, task>>
      /\ \A x \in Exchanges : Unused(x) /\ Linked(x) /\ task[x] = "none" /\ Answered(x)
      /\ at \in DOMAIN Order
  BY DEF SubscribeOne, Course, Streaming, DriverTypeOK, vars, seen
<1>2. CASE Answer("Err")
  BY <1>1, <1>2, AnswerCourse DEF Answer
<1>3. CASE Advance("snapshot")
  <2>1. \A x \in Exchanges : Unused(x)' /\ Linked(x)' /\ Answered(x)' /\ task'[x] = "none"
    BY <1>1 DEF Unused, Linked, Answered, seen
  <2>2. phase' = "subscribe" \/ (phase' = "snapshot" /\ at' = 1)
    BY <1>1, <1>3 DEF Advance
  <2>3. at' \in DOMAIN Order
    BY <1>1, <1>3, AdvanceTyped
  <2>4. (\A i \in DOMAIN Order : Order[i] \in Exchanges) /\ Turn' \in Exchanges
    BY <2>3, OrderLength DEF Turn
  <2>5. 1 .. 1 - 1 = {}
    OBVIOUS
  <2>6. CASE phase' = "subscribe"
    BY <2>1, <2>6 DEF Course, Streaming
  <2>7. CASE phase' = "snapshot" /\ at' = 1
    <3>1. call'[Turn'] = "none"
      BY <2>1, <2>4 DEF Unused
    <3> QED  BY <2>1, <2>4, <2>5, <2>7, <3>1 DEF Course, Streaming, Unused
  <2> QED  BY <2>2, <2>6, <2>7
<1> QED  BY <1>2, <1>3 DEF SubscribeOne

\* The others of the Vec.
LEMMA OthersTurn ==
  ASSUME at \in DOMAIN Order, NEW i \in DOMAIN Order, i # at
  PROVE  Order[i] \in Exchanges /\ Order[i] # Turn
BY OrderLength, OrderAssumption DEF Turn

LEMMA BeforeTurn ==
  ASSUME at \in DOMAIN Order
  PROVE  \A i \in 1 .. at - 1 : i \in DOMAIN Order /\ i # at
<1>1. PICK n \in Nat \ {0} : n = Len(Order) /\ DOMAIN Order = 1 .. n
  BY OrderLength
<1> QED  BY <1>1

LEMMA SnapshotBeginsCourse ==
  ASSUME DriverTypeOK, Control, Course, SnapshotBegins
  PROVE  Course'
<1>1. /\ phase = "snapshot" /\ UNCHANGED driver /\ at \in DOMAIN Order /\ Turn \in Exchanges
      /\ \A x \in Exchanges : task[x] = "none" /\ Linked(x) /\ Answered(x)
  BY OrderLength DEF SnapshotBegins, Course, Streaming, DriverTypeOK, Turn
<1>2. /\ pc' = [pc EXCEPT ![Turn] = "pull"] /\ call' = [call EXCEPT ![Turn] = "run_snapshot"]
      /\ result' = [result EXCEPT ![Turn] = "none"] /\ UNCHANGED <<socket, pulls>>
  BY DEF SnapshotBegins, RunSnapshot, Begin
<1>3. /\ pc'[Turn] = "pull" /\ call'[Turn] = "run_snapshot" /\ result'[Turn] = "none"
      /\ \A x \in Exchanges : x # Turn =>
           pc'[x] = pc[x] /\ call'[x] = call[x] /\ result'[x] = result[x]
  BY <1>1, <1>2 DEF Control
<1>4. UNCHANGED <<phase, at, sink, task>> /\ Turn' = Turn
  BY <1>1 DEF driver, Turn
<1>5. \A x \in Exchanges : Linked(x)' /\ Answered(x)'
  BY <1>1, <1>2, <1>3, <1>4 DEF Linked, Answered
<1>6. /\ \A i \in 1 .. at - 1 : Pulled(Order[i])'
      /\ \A i \in DOMAIN Order : i > at => Unused(Order[i])'
  <2>1. ASSUME NEW i \in 1 .. at - 1 PROVE Pulled(Order[i])'
    <3>1. Order[i] \in Exchanges /\ Order[i] # Turn /\ Pulled(Order[i])
      BY <1>1, BeforeTurn, OthersTurn DEF Course
    <3> QED  BY <1>2, <1>3, <3>1 DEF Pulled
  <2>2. ASSUME NEW i \in DOMAIN Order, i > at PROVE Unused(Order[i])'
    <3>1. i # at
      BY <1>1, <2>2, OrderLength
    <3>2. Order[i] \in Exchanges /\ Order[i] # Turn /\ Unused(Order[i])
      BY <1>1, <2>2, <3>1, OthersTurn DEF Course
    <3> QED  BY <1>3, <3>2 DEF Unused
  <2> QED  BY <2>1, <2>2
<1> QED  BY <1>1, <1>3, <1>4, <1>5, <1>6 DEF Course, Streaming

LEMMA SnapshotEndsCourse ==
  ASSUME DriverTypeOK, Course, SnapshotEnds
  PROVE  Course'
<1>1. /\ phase = "snapshot" /\ UNCHANGED seen /\ UNCHANGED <<sink, task>>
      /\ at \in DOMAIN Order /\ Turn \in Exchanges /\ call[Turn] = "run_snapshot"
      /\ \A x \in Exchanges : task[x] = "none" /\ Linked(x) /\ Answered(x)
  BY OrderLength DEF SnapshotEnds, Course, Streaming, DriverTypeOK, Turn, vars, seen
<1>2. ASSUME NEW a, Answer(a) PROVE Course'
  BY <1>1, <1>2, AnswerCourse DEF Answer
<1>3. CASE pc[Turn] = "idle" /\ result[Turn] = "Ok" /\ Advance("push")
  <2>1. PICK S : S = {x \in Exchanges : Pulled(x)}
    OBVIOUS
  <2>2. Turn \in S
    BY <1>1, <1>3, <2>1 DEF Pulled, Answered
  <2>3. \A i \in 1 .. at - 1 : Order[i] \in S
    BY <1>1, <2>1, BeforeTurn, OthersTurn DEF Course
  <2>4. \A x \in Exchanges : /\ Linked(x)' /\ Answered(x)' /\ task'[x] = "none"
                             /\ Pulled(x) => Pulled(x)'
                             /\ Unused(x) => Unused(x)'
    BY <1>1 DEF Linked, Answered, Pulled, Unused, seen
  <2>5. CASE /\ at < Len(Order) /\ at' = at + 1 /\ phase' = phase
             /\ \A i \in 1 .. at' - 1 : Order[i] \in S
    <3>1. PICK n \in Nat \ {0} : n = Len(Order) /\ DOMAIN Order = 1 .. n
      BY OrderLength
    <3>2. at' \in DOMAIN Order /\ at' > at /\ \A i \in DOMAIN Order : i > at' => i > at
      BY <1>1, <2>5, <3>1
    <3>3. call'[Turn'] = "none" /\ pc'[Turn'] = "idle"
      <4>1. PICK x : x = Order[at + 1]
        OBVIOUS
      <4>2. Turn' = x /\ x \in Exchanges /\ Unused(x)
        BY <1>1, <2>5, <3>2, <4>1, OrderLength DEF Course, Turn
      <4>3. Unused(x)'
        BY <2>4, <4>2
      <4> QED  BY <4>2, <4>3 DEF Unused
    <3>4. \A i \in DOMAIN Order : i > at' => Unused(Order[i])'
      BY <1>1, <2>4, <3>2, OrderLength DEF Course
    <3>5. \A i \in 1 .. at' - 1 : Pulled(Order[i])'
      BY <2>1, <2>4, <2>5
    <3> QED  BY <1>1, <2>4, <2>5, <3>3, <3>4, <3>5 DEF Course, Streaming, Unused
  <2>6. CASE phase' = "push" /\ (\A x \in Exchanges : x \in S) /\ \A i \in 1 .. at' - 1 : FALSE
    BY <2>1, <2>4, <2>6 DEF Course, Streaming
  <2> QED  BY <1>1, <1>3, <2>2, <2>3, <2>5, <2>6, TurnGoesOn
<1> QED  BY <1>2, <1>3 DEF SnapshotEnds

LEMMA PushCourse ==
  ASSUME DriverTypeOK, Control, Course, PushOne
  PROVE  Course'
<1>1. /\ phase = "push" /\ sink' = sink /\ at \in DOMAIN Order /\ Turn \in Exchanges
      /\ UNCHANGED <<socket, pc, call, result, pulls>>
      /\ buffer_websocket_depths' = [buffer_websocket_depths EXCEPT ![Turn] = FALSE]
      /\ Advance("stream")
      /\ \A x \in Exchanges : Linked(x) /\ Pulled(x) /\ Answered(x) /\ task[x] = "none"
  BY OrderLength DEF PushOne, PushBufferedWsDepths, Course, Streaming, DriverTypeOK, Turn, control
<1>2. \A x \in Exchanges : Linked(x)' /\ Pulled(x)' /\ Answered(x)'
  BY <1>1 DEF Linked, Pulled, Answered
<1>3. PICK S : S = {x \in Exchanges : ~buffer_websocket_depths'[x]}
  OBVIOUS
<1>4. buffer_websocket_depths \in [Exchanges -> BOOLEAN]
  BY DEF Control
<1>5. Turn \in S /\ \A x \in Exchanges : ~buffer_websocket_depths[x] => x \in S
  BY <1>1, <1>3, <1>4
<1>6. \A i \in 1 .. at - 1 : Order[i] \in S
  BY <1>1, <1>5, BeforeTurn, OthersTurn DEF Course
<1>7. CASE /\ at < Len(Order) /\ phase' = phase /\ \A i \in 1 .. at' - 1 : Order[i] \in S
  <2>1. \A x \in Exchanges : task'[x] = "none"
    <3>1. at # Len(Order)
      BY <1>1, <1>7, OrderLength
    <3> QED  BY <1>1, <3>1 DEF PushOne
  <2> QED  BY <1>1, <1>2, <1>3, <1>7, <2>1 DEF Course, Streaming
<1>8. CASE phase' = "stream" /\ \A x \in Exchanges : x \in S
  <2>1. \A x \in Exchanges : Launched(x)'
    BY <1>2, <1>3, <1>8 DEF Launched, Linked, Pulled
  <2> QED  BY <1>2, <1>8, <2>1 DEF Course
<1> QED  BY <1>1, <1>5, <1>6, <1>7, <1>8, TurnGoesOn

LEMMA StreamsCourse ==
  ASSUME DriverTypeOK, Control, Course, NEW e \in Exchanges, StreamAgain(e) \/ StreamEnds(e)
  PROVE  Course'
<1>1. CASE StreamEnds(e)
  <2>1. UNCHANGED seen /\ UNCHANGED <<phase, at, sink>>
    BY <1>1 DEF StreamEnds, vars, seen
  <2>2. \A x \in Exchanges : task'[x] # "none" => task[x] # "none"
    BY <1>1 DEF StreamEnds, DriverTypeOK
  <2> QED  BY <2>1, <2>2, SameCourse
<1>2. CASE StreamAgain(e)
  <2>1. /\ phase = "stream" /\ phase' = phase /\ sink' = sink
        /\ call' = [call EXCEPT ![e] = "run"] /\ result' = [result EXCEPT ![e] = "none"]
        /\ pc' = [pc EXCEPT ![e] = "send"]
        /\ UNCHANGED <<socket, pulls, buffer_websocket_depths>>
    BY <1>2 DEF StreamAgain, Run, Begin, driver
  <2>2. /\ call'[e] = "run"
        /\ \A x \in Exchanges : x # e =>
             pc'[x] = pc[x] /\ call'[x] = call[x] /\ result'[x] = result[x]
    BY <2>1 DEF Control
  <2>3. \A x \in Exchanges : Launched(x) /\ Answered(x)
    BY <2>1 DEF Course, Streaming
  <2>4. \A x \in Exchanges : Launched(x)' /\ Answered(x)'
    BY <2>1, <2>2, <2>3 DEF Launched, Linked, Pulled, Answered
  <2> QED  BY <2>1, <2>4 DEF Course
<1> QED  BY <1>1, <1>2

\* A step inside the call of e leaves the others alone, and keeps what e has
\* gained.
Within(e) ==
  /\ call' = call
  /\ \A x \in Exchanges : x # e =>
       /\ pc'[x] = pc[x] /\ result'[x] = result[x] /\ pulls'[x] = pulls[x]
       /\ socket'[x] = socket[x] /\ buffer_websocket_depths'[x] = buffer_websocket_depths[x]
  /\ socket[e] # "none" => socket'[e] # "none"
  /\ pulls[e] > 0 => pulls'[e] > 0
  /\ ~buffer_websocket_depths[e] => ~buffer_websocket_depths'[e]
  /\ Answered(e)'

LEMMA PollWithin ==
  ASSUME Control, NEW e \in Exchanges, Answered(e), pc[e] \in {"send", "read"},
         (\E state : PollAnswers(e, state)) \/ Goto(e, "read") \/ UNCHANGED control,
         socket' \in {socket, [socket EXCEPT ![e] = "ended"]},
         UNCHANGED <<pulls, buffer_websocket_depths>>
  PROVE  Within(e)
<1>1. /\ call' = call
      /\ \A x \in Exchanges : x # e => pc'[x] = pc[x] /\ result'[x] = result[x]
  BY DEF PollAnswers, Goto, End, control, Control
<1>2. /\ \A x \in Exchanges : x # e => socket'[x] = socket[x]
      /\ socket[e] # "none" => socket'[e] # "none"
  BY DEF Control
<1>3. Answered(e)'
  BY <1>1 DEF Answered
<1> QED  BY <1>1, <1>2, <1>3 DEF Within

LEMMA PullWithin ==
  ASSUME Control, Counts, NEW e \in Exchanges, Answered(e),
         PullOk(e) \/ PullErr(e) \/ PullPanic(e)
  PROVE  Within(e) /\ pc[e] = "pull"
<1>1. pc[e] = "pull" /\ socket' = socket
  BY DEF PullOk, PullErr, PullPanic
<1>2. CASE PullOk(e)
  <2>1. /\ pc' = [pc EXCEPT ![e] = "iter"] /\ pulls' = [pulls EXCEPT ![e] = @ + 1]
        /\ UNCHANGED <<call, result, buffer_websocket_depths>>
    BY <1>2 DEF PullOk, Goto
  <2>2. pulls'[e] > 0 /\ \A x \in Exchanges : x # e => pulls'[x] = pulls[x]
    BY <2>1 DEF Counts
  <2>3. \A x \in Exchanges : x # e => pc'[x] = pc[x]
    BY <2>1 DEF Control
  <2> QED  BY <1>1, <2>1, <2>2, <2>3 DEF Within, Answered
<1>3. CASE PullPanic(e)
  <2>1. /\ pc' = [pc EXCEPT ![e] = "panicked"] /\ result' = [result EXCEPT ![e] = "panic"]
        /\ UNCHANGED <<call, pulls, buffer_websocket_depths>>
    BY <1>3 DEF PullPanic, Panic
  <2>2. /\ pc'[e] = "panicked" /\ result'[e] = "panic"
        /\ \A x \in Exchanges : x # e => pc'[x] = pc[x] /\ result'[x] = result[x]
    BY <2>1 DEF Control
  <2> QED  BY <1>1, <2>1, <2>2 DEF Within, Answered
<1>4. CASE PullErr(e)
  <2>1. /\ UNCHANGED <<call, pulls>>
        /\ \/ /\ call[e] = "run_snapshot" /\ UNCHANGED buffer_websocket_depths
              /\ pc' = [pc EXCEPT ![e] = "idle"] /\ result' = [result EXCEPT ![e] = "Err"]
           \/ /\ call[e] = "run_with_snapshot"
              /\ pc' \in {pc, [pc EXCEPT ![e] = "idle"]}
              /\ result' \in {result, [result EXCEPT ![e] = "Ok"]}
              /\ buffer_websocket_depths' \in
                   {buffer_websocket_depths, [buffer_websocket_depths EXCEPT ![e] = FALSE]}
    BY <1>4 DEF PullErr, End
  <2>2. \A x \in Exchanges : x # e => pc'[x] = pc[x] /\ result'[x] = result[x]
    BY <2>1 DEF Control
  <2>3. /\ \A x \in Exchanges : x # e => buffer_websocket_depths'[x] = buffer_websocket_depths[x]
        /\ ~buffer_websocket_depths[e] => ~buffer_websocket_depths'[e]
    <3>1. CASE buffer_websocket_depths' = buffer_websocket_depths
      BY <3>1
    <3>2. CASE buffer_websocket_depths' = [buffer_websocket_depths EXCEPT ![e] = FALSE]
      BY <3>2 DEF Control
    <3> QED  BY <2>1, <3>1, <3>2
  <2>4. Answered(e)'
    BY <2>1 DEF Answered, Control
  <2> QED  BY <1>1, <2>1, <2>2, <2>3, <2>4 DEF Within
<1> QED  BY <1>1, <1>2, <1>3, <1>4

LEMMA IterateWithin ==
  ASSUME Control, NEW e \in Exchanges, Answered(e), Iterate(e)
  PROVE  Within(e)
<1>1. pc[e] = "iter" /\ UNCHANGED <<socket, pulls>>
  BY DEF Iterate
<1>2. CASE buffer_websocket_depths' = buffer_websocket_depths /\ (PollAfterPush(e) \/ Panic(e))
  <2>1. /\ call' = call
        /\ \A x \in Exchanges : x # e => pc'[x] = pc[x] /\ result'[x] = result[x]
    BY <1>2 DEF PollAfterPush, Goto, Panic, Control
  <2>2. Answered(e)'
    BY <1>1, <2>1 DEF Answered
  <2> QED  BY <1>1, <1>2, <2>1, <2>2 DEF Within
<1>3. CASE /\ buffer_websocket_depths' =
                [buffer_websocket_depths EXCEPT ![e] = @ /\ call[e] = "run_snapshot"]
           /\ End(e, "Ok")
  <2>1. /\ call' = call
        /\ \A x \in Exchanges : x # e => pc'[x] = pc[x] /\ result'[x] = result[x]
    BY <1>3 DEF End, Control
  <2>2. \A x \in Exchanges : x # e => buffer_websocket_depths'[x] = buffer_websocket_depths[x]
    BY <1>3 DEF Control
  <2>3. ~buffer_websocket_depths[e] => ~buffer_websocket_depths'[e]
    BY <1>3, Zenon DEF Control
  <2>4. Answered(e)'
    BY <1>1, <2>1 DEF Answered
  <2> QED  BY <1>1, <2>1, <2>2, <2>3, <2>4 DEF Within
<1> QED  BY <1>2, <1>3 DEF Iterate

LEMMA InsideWithin ==
  ASSUME Control, Counts, NEW e \in Exchanges, Answered(e), Inside(e)
  PROVE  Within(e) /\ pc[e] \notin {"idle", "panicked"}
<1>1. CASE PollSend(e) \/ PollEnds(e) \/ PollSkips(e) \/ PollText(e)
  <2>1. /\ pc[e] \in {"send", "read"}
        /\ (\E state : PollAnswers(e, state)) \/ Goto(e, "read") \/ UNCHANGED control
        /\ socket' \in {socket, [socket EXCEPT ![e] = "ended"]}
        /\ UNCHANGED <<pulls, buffer_websocket_depths>>
    BY <1>1 DEF PollSend, PollEnds, PollSkips, PollText
  <2> QED  BY <2>1, PollWithin
<1>2. CASE Iterate(e)
  BY <1>2, IterateWithin DEF Iterate
<1> QED  BY <1>1, <1>2, PullWithin DEF Inside, Poll

LEMMA InsideCourse ==
  ASSUME DriverTypeOK, Control, Counts, Course, NEW e \in Exchanges, Inside(e)
  PROVE  Course'
<1>1. Within(e) /\ pc[e] # "idle"
  BY InsideWithin DEF Course
<1>2. UNCHANGED <<phase, at, sink, task>> /\ Turn' = Turn /\ Turn \in Exchanges
  BY OrderLength DEF Inside, driver, Turn, DriverTypeOK
<1>3. \A x \in Exchanges :
        /\ Linked(x) => Linked(x)'
        /\ Unused(x) => Unused(x)'
        /\ Pulled(x) => Pulled(x)'
        /\ Launched(x) => Launched(x)'
        /\ ~buffer_websocket_depths[x] => ~buffer_websocket_depths'[x]
        /\ Answered(x) => Answered(x)'
  BY <1>1, <1>2 DEF Within, Linked, Unused, Pulled, Launched, Answered
<1>4. Streaming' <=> Streaming
  BY <1>2 DEF Streaming
<1>5. \A i \in 1 .. at - 1 : Order[i] \in Exchanges
  BY BeforeTurn, OrderLength DEF DriverTypeOK
<1>6. call' = call
  BY <1>1 DEF Within
<1>7. \A i \in DOMAIN Order : Order[i] \in Exchanges
  BY OrderLength
<1>8. phase = "connect" => \A i \in 1 .. at - 1 : Linked(Order[i])'
  BY <1>3, <1>5 DEF Course
<1>9. phase = "snapshot" =>
        /\ \A i \in 1 .. at - 1 : Pulled(Order[i])'
        /\ \A i \in DOMAIN Order : i > at => Unused(Order[i])'
        /\ call[Turn] = "none" => Unused(Turn)'
  BY <1>2, <1>3, <1>5, <1>7 DEF Course
<1>10. phase = "push" => \A i \in 1 .. at - 1 : ~buffer_websocket_depths'[Order[i]]
  BY <1>3, <1>5 DEF Course
<1> QED  BY <1>2, <1>3, <1>4, <1>6, <1>8, <1>9, <1>10 DEF Course

LEMMA CancelCourse ==
  ASSUME DriverTypeOK, Control, Course, CancelRun
  PROVE  Course'
<1>1. phase' = "done" /\ sink' = sink /\ Turn \in Exchanges
  BY OrderLength DEF CancelRun, Answer, DriverTypeOK, Turn
<1>2. \A x \in Exchanges : task'[x] # "none" => task[x] # "none"
  BY DEF CancelRun
<1>3. CASE UNCHANGED vars
  <2>1. \A x \in Exchanges : Answered(x)' /\ (Launched(x) => Launched(x)')
    BY <1>1, <1>3 DEF Course, Answered, Launched, Linked, Pulled, vars
  <2> QED  BY <1>1, <1>2, <2>1 DEF Course, Streaming
<1>4. CASE phase = "snapshot" /\ Cancel(Turn)
  <2>1. ~Streaming'
    BY <1>1, <1>2, <1>4 DEF Course, Streaming
  <2>2. \A x \in Exchanges : Answered(x)'
    <3>1. /\ pc' = [pc EXCEPT ![Turn] = "idle"] /\ result' = [result EXCEPT ![Turn] = "none"]
          /\ UNCHANGED <<call, pulls>>
      BY <1>4 DEF Cancel, End
    <3>2. /\ pc'[Turn] = "idle" /\ result'[Turn] = "none"
          /\ \A x \in Exchanges : x # Turn => pc'[x] = pc[x] /\ result'[x] = result[x]
      BY <1>1, <3>1 DEF Control
    <3> QED  BY <3>1, <3>2 DEF Course, Answered
  <2> QED  BY <1>1, <2>1, <2>2 DEF Course
<1> QED  BY <1>3, <1>4 DEF CancelRun

LEMMA NextCourse ==
  ASSUME DriverTypeOK, Control, Counts, Course, [DNext]_dvars
  PROVE  Course'
<1>1. CASE JoinAll
  <2>1. UNCHANGED seen /\ UNCHANGED <<sink, task>> /\ phase' = "done"
    BY <1>1 DEF JoinAll, Answer, vars, seen
  <2> QED  BY <2>1, AnswerCourse
<1>2. CASE Reader \/ UNCHANGED dvars
  <2>1. UNCHANGED seen /\ UNCHANGED <<phase, at, sink, task>>
    BY <1>2 DEF Reader, Take, Release, Close, dvars, driver, vars, seen, control
  <2> QED  BY <2>1, SameCourse
<1> QED  BY <1>1, <1>2, ConnectCourse, SubscribeCourse, SnapshotBeginsCourse, SnapshotEndsCourse,
            PushCourse, StreamsCourse, InsideCourse, CancelCourse DEF DNext, DriverStep

LEMMA CourseHolds == DSpec => [](DriverTypeOK /\ Stocked /\ Course)
<1>1. DriverTypeOK /\ Stocked /\ Course /\ [DNext]_dvars => Course'
  BY NextCourse DEF Stocked
<1>2. DInit => Course
  BY InitCourse
<1> QED  BY <1>1, <1>2, DriverIsACaller, StockedHolds, DriverTypeCorrect, PTL DEF DSpec

\* No stream is launched before every exchange is connected and its snapshot
\* taken over: each phase of run ends only when every exchange of the Vec had
\* its turn without an error (lib.rs:59-70).
THEOREM StreamsAreSynced == DSpec => []StreamsStartSynced
<1>1. ASSUME DriverTypeOK, Stocked, Course PROVE StreamsStartSynced
  <2>1. ASSUME NEW e \in Exchanges, task[e] # "none", NEW x \in Exchanges
        PROVE  /\ socket[x] # "none" /\ sink[x] = "open"
               /\ pulls[x] > 0 /\ snapshot[x] = <<>>
               /\ ~buffer_websocket_depths[x]
    <3>1. Launched(x)
      BY <1>1, <2>1 DEF Course, Streaming
    <3>2. snapshot[x] = <<>>
      BY <1>1, <3>1 DEF Stocked, Control, Launched, Pulled
    <3> QED  BY <3>1, <3>2 DEF Launched, Linked
  <2> QED  BY <2>1 DEF StreamsStartSynced
<1> QED  BY <1>1, CourseHolds, PTL

-----------------------------------------------------------------------------
(* No panic.                                                               *)

\* An exchange to which nothing happens.
LEMMA RoomyStays ==
  ASSUME NEW x \in Exchanges, Roomy(x), http_client'[x] = http_client[x],
         depth_update_buffer'[x] = depth_update_buffer[x], snapshot'[x] = snapshot[x],
         pc'[x] = pc[x], call'[x] = call[x]
  PROVE  Roomy(x)'
BY DEF Roomy

\* The call of an exchange goes on and leaves the arrays alone.
LEMMA RoomyGoesOn ==
  ASSUME NEW x \in Exchanges, Roomy(x), http_client'[x] = http_client[x],
         depth_update_buffer'[x] = depth_update_buffer[x], snapshot'[x] = snapshot[x],
         pc'[x] \notin {"pull", "panicked"}, call'[x] # "none"
  PROVE  Roomy(x)'
BY DEF Roomy

LEMMA PullRoomy ==
  ASSUME Control, Stock, Sound, NEW e \in Exchanges, PullOk(e) \/ PullErr(e) \/ PullPanic(e)
  PROVE  Roomy(e)'
<1>1. /\ pc[e] = "pull" /\ call' = call /\ depth_update_buffer' = depth_update_buffer
      /\ http_client' = http_client
  BY DEF PullOk, PullErr, PullPanic, Goto, End, Panic, buffers
<1>2. Roomy(e) /\ call[e] \notin {"none", "run_with_snapshot"}
  BY <1>1 DEF Sound, Control
<1>3. CASE PullOk(e)
  <2>1. PICK k \in Sizes : \E t \in Takings(e, k) :
          Fits(e, k, 0) /\ snapshot' = [snapshot EXCEPT ![e] = t]
    BY <1>3 DEF PullOk
  <2>2. PICK t \in Takings(e, k) : Fits(e, k, 0) /\ snapshot' = [snapshot EXCEPT ![e] = t]
    BY <2>1
  <2>3. k \in Nat /\ k <= BUF /\ Len(t) = k
    BY <2>2, StreamAssumption, TakingsFresh DEF Fits
  <2>4. snapshot'[e] = t
    BY <2>2 DEF Stock, Arrays
  <2>5. pc'[e] = "iter"
    BY <1>3 DEF PullOk, Goto, Control
  <2>6. Name[e] = 1 => depth_update_buffer[e] = <<>> /\ Len(depth_update_buffer[e]) = 0
    BY <1>1, <1>2 DEF Roomy
  <2> QED  BY <1>1, <1>2, <2>3, <2>4, <2>5, <2>6 DEF Roomy
<1>4. CASE PullErr(e)
  <2>1. snapshot' = snapshot /\ pc'[e] = "idle"
    BY <1>2, <1>4 DEF PullErr, End, Control, buffers
  <2> QED  BY <1>1, <1>2, <2>1, RoomyGoesOn
<1>5. CASE PullPanic(e)
  <2>1. snapshot' = snapshot /\ pc'[e] = "panicked" /\ ~http_client[e]
    BY <1>5 DEF PullPanic, Panic, Control, buffers
  <2> QED  BY <1>1, <1>2, <2>1 DEF Roomy
<1> QED  BY <1>3, <1>4, <1>5

LEMMA IterateRoomy ==
  ASSUME Control, Stock, Sound, NEW e \in Exchanges, Iterate(e)
  PROVE  Roomy(e)'
<1>1. /\ pc[e] = "iter" /\ call' = call /\ http_client' = http_client
      /\ depth_update_buffer[e] \in Seq(Slots) /\ snapshot[e] \in Seq(Slots)
  BY DEF Iterate, PollAfterPush, Goto, End, Panic, Stock, Arrays
<1>2. Roomy(e) /\ call[e] = "run_snapshot"
  BY <1>1 DEF Sound, Control
<1>3. BUF \in Nat /\ Len(depth_update_buffer[e]) \in Nat /\ Len(snapshot[e]) \in Nat
  BY <1>1, StreamAssumption, LenProperties
<1>4. CASE snapshot[e] = <<>> /\ End(e, "Ok") /\ UNCHANGED buffers
  <2>1. pc'[e] = "idle"
    BY <1>4 DEF End, Control
  <2> QED  BY <1>1, <1>2, <1>4, <2>1, RoomyGoesOn DEF buffers
<1>5. CASE /\ snapshot[e] # <<>> /\ PollAfterPush(e)
           /\ depth_update_buffer' =
                [depth_update_buffer EXCEPT ![e] = Append(@, Head(snapshot[e]))]
           /\ snapshot' = [snapshot EXCEPT ![e] = Tail(@)]
  <2>1. pc'[e] = "send"
    BY <1>5 DEF PollAfterPush, Goto, Control
  <2>2. /\ depth_update_buffer'[e] = Append(depth_update_buffer[e], Head(snapshot[e]))
        /\ snapshot'[e] = Tail(snapshot[e])
    BY <1>5 DEF Stock, Arrays
  <2>3. PICK d, s : d = depth_update_buffer[e] /\ s = snapshot[e]
    OBVIOUS
  <2>4. Len(Append(d, Head(s))) = Len(d) + 1 /\ Len(Tail(s)) = Len(s) - 1
    BY <1>1, <1>5, <2>3, HeadTailProperties, AppendProperties
  <2>5. PICK m \in Nat, n \in Nat : m = Len(d) /\ n = Len(s)
    BY <1>3, <2>3
  <2>6. Name[e] = 1 => m + n <= BUF
    BY <1>2, <2>3, <2>5 DEF Roomy
  <2>7. Name[e] = 1 => (m + 1) + (n - 1) <= BUF
    BY <1>3, <2>6
  <2>8. Name[e] = 1 => Len(depth_update_buffer'[e]) + Len(snapshot'[e]) <= BUF
    BY <2>2, <2>3, <2>4, <2>5, <2>7
  <2> QED  BY <1>1, <1>2, <2>1, <2>8 DEF Roomy
<1>6. CASE snapshot[e] # <<>> /\ Len(depth_update_buffer[e]) = BUF /\ Panic(e) /\ UNCHANGED buffers
  <2>1. Len(snapshot[e]) # 0
    BY <1>1, <1>6, EmptySeq
  <2>2. Name[e] # 1
    BY <1>2, <1>3, <1>6, <2>1 DEF Roomy
  <2> QED  BY <2>2 DEF Roomy
<1> QED  BY <1>2, <1>4, <1>5, <1>6 DEF Iterate

LEMMA PollRoomy ==
  ASSUME Control, Sound, NEW e \in Exchanges,
         PollSend(e) \/ PollEnds(e) \/ PollSkips(e) \/ PollText(e)
  PROVE  Roomy(e)'
<1>1. /\ pc[e] \in {"send", "read"} /\ http_client' = http_client /\ snapshot' = snapshot
      /\ call' = call
      /\ Name[e] = 1 => depth_update_buffer' = depth_update_buffer
      /\ (\E state : PollAnswers(e, state)) \/ Goto(e, "read") \/ UNCHANGED control
  BY DEF PollSend, PollEnds, PollSkips, PollText, PollAnswers, Goto, End, buffers, control
<1>2. Roomy(e) /\ call[e] # "none"
  BY <1>1 DEF Sound, Control
<1>3. pc'[e] \in {"idle", "iter", "send", "read"}
  BY <1>1 DEF PollAnswers, Goto, End, control, Control
<1> QED  BY <1>1, <1>2, <1>3, RoomyGoesOn DEF Roomy

LEMMA InsideSound ==
  ASSUME Control, Counts, Stock, Sound, NEW e \in Exchanges, Answered(e), Inside(e)
  PROVE  Sound'
<1>1. Within(e)
  BY InsideWithin
<1>2. \A x \in Exchanges : x # e =>
        /\ http_client'[x] = http_client[x] /\ snapshot'[x] = snapshot[x]
        /\ depth_update_buffer'[x] = depth_update_buffer[x]
  <2>1. http_client' = http_client
    BY DEF Inside, Poll, PullOk, PullErr, PullPanic, Iterate, PollSend, PollEnds, PollSkips, PollText
  <2>2. \/ UNCHANGED snapshot
        \/ \E t : snapshot' = [snapshot EXCEPT ![e] = t]
    BY DEF Inside, Poll, PullOk, PullErr, PullPanic, Iterate, PollSend, PollEnds, PollSkips,
           PollText, buffers
  <2>3. \/ UNCHANGED depth_update_buffer
        \/ \E t : depth_update_buffer' = [depth_update_buffer EXCEPT ![e] = t]
    BY DEF Inside, Poll, PullOk, PullErr, PullPanic, Iterate, PollSend, PollEnds, PollSkips,
           PollText, buffers
  <2> QED  BY <2>1, <2>2, <2>3 DEF Stock, Arrays
<1>3. \A x \in Exchanges : x # e => Roomy(x)'
  BY <1>1, <1>2, RoomyStays DEF Within, Sound
<1>4. Roomy(e)'
  BY PullRoomy, IterateRoomy, PollRoomy DEF Inside, Poll
<1>5. \A x \in Exchanges : call'[x] # "run_with_snapshot"
  BY <1>1 DEF Within, Sound
<1> QED  BY <1>3, <1>4, <1>5 DEF Sound

LEMMA NextSound ==
  ASSUME DriverTypeOK, Stocked, Course, Sound, [DNext]_dvars
  PROVE  Sound'
<1> USE DEF Stocked
<1>1. Turn \in Exchanges
  BY OrderLength DEF DriverTypeOK, Turn
<1>2. CASE UNCHANGED <<depth_update_buffer, snapshot, pc, call, http_client>>
  BY <1>2, RoomyStays DEF Sound
<1>3. ConnectOne \/ SubscribeOne \/ SnapshotEnds \/ PushOne \/ JoinAll \/ Reader \/ UNCHANGED dvars
        => UNCHANGED <<depth_update_buffer, snapshot, pc, call, http_client>>
  BY DEF ConnectOne, ConnectThen, Connect, SubscribeOne, SnapshotEnds, PushOne,
         PushBufferedWsDepths, JoinAll, Reader, Take, Release, Close, dvars, vars, buffers, control
<1>4. ASSUME SnapshotBegins PROVE Sound'
  <2>1. /\ call[Turn] = "none" /\ pc' = [pc EXCEPT ![Turn] = "pull"]
        /\ call' = [call EXCEPT ![Turn] = "run_snapshot"]
        /\ UNCHANGED <<depth_update_buffer, snapshot, http_client>>
    BY <1>4 DEF SnapshotBegins, RunSnapshot, Begin, buffers
  <2>2. /\ pc'[Turn] = "pull" /\ call'[Turn] = "run_snapshot"
        /\ \A x \in Exchanges : x # Turn => pc'[x] = pc[x] /\ call'[x] = call[x]
    BY <1>1, <2>1 DEF Control
  <2>3. Roomy(Turn)'
    <3>1. PICK x : x = Turn
      OBVIOUS
    <3>2. Turn' = x
      BY <1>4, <3>1 DEF SnapshotBegins, driver, Turn
    <3>3. Roomy(x)
      BY <1>1, <3>1 DEF Sound
    <3>4. Roomy(x)'
      BY <2>1, <2>2, <3>1, <3>3 DEF Roomy
    <3> QED  BY <3>2, <3>4 DEF Roomy
  <2>4. \A x \in Exchanges : x # Turn => Roomy(x)'
    BY <2>1, <2>2, RoomyStays DEF Sound
  <2>5. Turn' = Turn
    BY <1>4 DEF SnapshotBegins, driver, Turn
  <2>6. \A x \in Exchanges : call'[x] # "run_with_snapshot"
    BY <2>2 DEF Sound
  <2>7. \A x \in Exchanges : Roomy(x)'
    BY <2>3, <2>4, <2>5 DEF Roomy
  <2> QED  BY <2>6, <2>7 DEF Sound
<1>5. ASSUME NEW e \in Exchanges, StreamAgain(e) PROVE Sound'
  <2>1. /\ pc' = [pc EXCEPT ![e] = "send"] /\ call' = [call EXCEPT ![e] = "run"]
        /\ UNCHANGED <<depth_update_buffer, snapshot, http_client>>
    BY <1>5 DEF StreamAgain, Run, Begin, buffers
  <2>2. /\ pc'[e] = "send" /\ call'[e] = "run"
        /\ \A x \in Exchanges : x # e => pc'[x] = pc[x] /\ call'[x] = call[x]
    BY <2>1 DEF Control
  <2>3. \A x \in Exchanges : Roomy(x)'
    BY <2>1, <2>2, RoomyStays, RoomyGoesOn DEF Sound
  <2> QED  BY <2>2, <2>3 DEF Sound
<1>6. ASSUME NEW e \in Exchanges, StreamEnds(e) PROVE Sound'
  BY <1>2, <1>6 DEF StreamEnds, vars
<1>7. ASSUME CancelRun PROVE Sound'
  <2>1. CASE UNCHANGED vars
    BY <1>2, <2>1 DEF vars
  <2>2. CASE Cancel(Turn)
    <3>1. /\ pc[Turn] = "pull" /\ pc' = [pc EXCEPT ![Turn] = "idle"] /\ call' = call
          /\ UNCHANGED <<depth_update_buffer, snapshot, http_client>>
      BY <2>2 DEF Cancel, End, buffers
    <3>2. \A x \in Exchanges : pc'[x] = pc[x] \/ (pc'[x] = "idle" /\ call[x] # "none")
      BY <1>1, <3>1 DEF Control
    <3>3. \A x \in Exchanges : Roomy(x)'
      BY <3>1, <3>2, RoomyStays, RoomyGoesOn DEF Sound
    <3> QED  BY <3>1, <3>3 DEF Sound
  <2> QED  BY <1>7, <2>1, <2>2 DEF CancelRun
<1>8. ASSUME NEW e \in Exchanges, Inside(e) PROVE Sound'
  BY <1>8, InsideSound DEF Course
<1> QED  BY <1>2, <1>3, <1>4, <1>5, <1>6, <1>7, <1>8 DEF DNext, DriverStep

\* Under the driver no exchange of name 1 that has an HTTP client panics: it
\* calls run_snapshot once, before anything else fills the array that the
\* snapshot is pushed into (stream.rs:211), and run_with_snapshot never.
THEOREM DriverNeverPanics == DSpec => []BinanceNeverPanics
<1>1. DriverTypeOK /\ Stocked /\ Course /\ Sound /\ [DNext]_dvars => Sound'
  BY NextSound
<1>2. DInit => Sound
  BY InitCourse
<1>3. Sound => BinanceNeverPanics
  BY DEF Sound, Roomy, BinanceNeverPanics
<1> QED  BY <1>1, <1>2, <1>3, CourseHolds, PTL DEF DSpec
=============================================================================
