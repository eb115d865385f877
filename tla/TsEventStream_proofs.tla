------------------------ MODULE TsEventStream_proofs ------------------------
(***************************************************************************)
(* The onClosed callbacks of EventStreamConnection run, for every          *)
(* procedure and every schedule, as long as the connection is not dropped  *)
(* before it exists. What reaches the client is well formed, push() tells  *)
(* the truth about it and no timer is left behind by a stream that reached *)
(* its client, without any such condition.                                 *)
(***************************************************************************)
EXTENDS TsEventStream, SequenceFacts, TLAPS

\* How far a request has come decides what of the stream can exist.
Progress ==
    /\ stage = "checks" => ~connection /\ ~handled
    /\ stage = "handler" => connection
    /\ sent => connection /\ handled
    /\ resEnded => handled
    /\ resClosed => stage # "checks"
    /\ isClosed => ~writerOpen
    /\ ~writerOpen => isClosed

HookInv == Progress /\ ClosedCallbacksFire

-----------------------------------------------------------------------------
(* Progress and the close hooks.                                           *)

LEMMA HookInit == Init => HookInv
  BY DEF Init, HookInv, Progress, ClosedCallbacksFire

LEMMA HookStep ==
  ASSUME DropsFrom # "checks", HookInv, [Next]_vars
  PROVE  HookInv'
<1> USE DEF HookInv, Progress, ClosedCallbacksFire
<1>1. CASE Preflight
  BY <1>1 DEF Preflight, stream
<1>2. CASE ChecksFail
  BY <1>2 DEF ChecksFail, HandleH3Error, stream
<1>3. CASE ChecksPass
  BY <1>3 DEF ChecksPass, response
<1>4. CASE HandlerResolves
  BY <1>4 DEF HandlerResolves, Send
<1>5. CASE HandlerRejects
  BY <1>5 DEF HandlerRejects, HandleH3Error, stream
<1>6. CASE AppSend
  BY <1>6 DEF AppSend, Send
<1>7. CASE AppClose
  BY <1>7 DEF AppClose, CloseEventStream, Cleanup
<1>8. CASE \E batch \in Batch : AppPush(batch)
  BY <1>8 DEF AppPush, stream
<1>9. CASE HeartbeatFires
  BY <1>9 DEF HeartbeatFires, stream
<1>10. CASE ResCloses
  BY <1>10 DEF ResCloses, MayDrop, CloseEventStream, Cleanup
<1>11. CASE UNCHANGED vars
  BY <1>11 DEF vars, stream, response
<1>12. QED
  BY <1>1, <1>2, <1>3, <1>4, <1>5, <1>6, <1>7, <1>8, <1>9, <1>10, <1>11 DEF Next

\* The onClosed callbacks have run whenever the connection of a stream is
\* closed, if it is not dropped before the stream exists (README.md:290).
THEOREM ClosedCallbacksCorrect ==
  ASSUME DropsFrom # "checks"
  PROVE  Spec => []ClosedCallbacksFire
<1>1. Init => HookInv
  BY HookInit
<1>2. HookInv /\ [Next]_vars => HookInv'
  BY HookStep
<1>3. HookInv => ClosedCallbacksFire
  BY DEF HookInv
<1>4. QED
  BY <1>1, <1>2, <1>3, PTL DEF Spec

-----------------------------------------------------------------------------
(* What reaches the client.                                                *)

Framed == Item \cup {"start", "done", "heartbeat", "error"}
Streamed(w) ==
    /\ w # <<>> /\ w[1] = "start"
    /\ \A i \in 2..Len(w) : w[i] \notin {"start", "error"}
Finished(w) == \E i \in DOMAIN w : w[i] = "done"

\* A response is unanswered, or holds an error, or is a stream - which is over
\* for its writer once "done" is in it.
WireInv ==
    /\ wire \in Seq(Framed)
    /\ sent => handled
    /\ ~sent => intervals = {} /\ wire \in {<<>>, <<"error">>}
    /\ ~handled => wire = <<>>
    /\ sent => wire = <<>> \/ Streamed(wire)
    /\ sent /\ writerOpen /\ ~resClosed => Streamed(wire) /\ ~Finished(wire)
    /\ \A i \in 1..Len(wire) - 1 : wire[i] # "done"
    /\ onErrors \in {0, 1} /\ (onErrors = 1 => stage = "settled")

\* A frame at the end of a stream that is open.
LEMMA StreamGoesOn ==
    ASSUME NEW w \in Seq(Framed), Streamed(w), ~Finished(w),
           NEW frames \in Seq(Framed), \A i \in DOMAIN frames : frames[i] \notin {"start", "error"}
    PROVE  /\ w \o frames \in Seq(Framed) /\ Streamed(w \o frames)
           /\ (\A i \in DOMAIN frames : frames[i] # "done") => ~Finished(w \o frames)
           /\ Len(frames) = 1 => \A i \in 1..Len(w \o frames) - 1 : (w \o frames)[i] # "done"
<1> DEFINE both == w \o frames
<1>1. /\ both \in Seq(Framed) /\ Len(both) = Len(w) + Len(frames)
      /\ Len(w) \in Nat /\ Len(frames) \in Nat /\ Len(w) > 0
      /\ \A i \in 1..Len(w) : both[i] = w[i]
      /\ \A i \in Len(w) + 1..Len(both) : i - Len(w) \in 1..Len(frames) /\ both[i] = frames[i - Len(w)]
  BY DEF Streamed
<1> HIDE DEF both
<1>2. \A i \in 1..Len(both) : i \in 1..Len(w) \/ i \in Len(w) + 1..Len(both)
  BY <1>1
<1>3. Streamed(both)
  <2>1. both # <<>> /\ both[1] = "start"
    BY <1>1 DEF Streamed
  <2>2. ASSUME NEW i \in 2..Len(both)
        PROVE  both[i] \notin {"start", "error"}
    <3>1. CASE i \in 1..Len(w)
      BY <1>1, <3>1 DEF Streamed
    <3>2. CASE i \in Len(w) + 1..Len(both)
      BY <1>1, <3>2
    <3> QED
      BY <1>1, <1>2, <3>1, <3>2
  <2> QED
    BY <2>1, <2>2 DEF Streamed
<1>4. ASSUME \A i \in DOMAIN frames : frames[i] # "done"
      PROVE  ~Finished(both)
  BY <1>1, <1>2, <1>4 DEF Finished
<1>5. ASSUME Len(frames) = 1
      PROVE  \A i \in 1..Len(both) - 1 : both[i] # "done"
  BY <1>1, <1>5 DEF Finished
<1> QED
  BY <1>1, <1>3, <1>4, <1>5 DEF both

\* Frames that are written to a stream: none if it is over.
LEMMA WriteKeepsWire ==
    ASSUME WireInv, sent,
           NEW frames \in Seq(Framed), \A i \in DOMAIN frames : frames[i] \notin {"start", "error"},
           wire' = Reaches(frames), UNCHANGED <<sent, handled, resClosed>>,
           Len(frames) = 1 \/ \A i \in DOMAIN frames : frames[i] # "done",
           writerOpen' => writerOpen /\ \A i \in DOMAIN frames : frames[i] # "done",
           UNCHANGED <<onErrors, stage>>
    PROVE  WireInv'
<1>1. CASE writerOpen /\ ~resClosed
  <2>1. wire' = wire \o frames /\ Streamed(wire) /\ ~Finished(wire) /\ wire \in Seq(Framed)
    BY <1>1 DEF Reaches, WireInv
  <2>2. /\ wire' \in Seq(Framed) /\ Streamed(wire')
        /\ (\A i \in DOMAIN frames : frames[i] # "done") => ~Finished(wire')
        /\ Len(frames) = 1 => \A i \in 1..Len(wire') - 1 : wire'[i] # "done"
    BY <2>1, StreamGoesOn
  <2>3. \A i \in 1..Len(wire') - 1 : wire'[i] # "done"
    <3>1. \A i \in 1..Len(wire') - 1 : i \in DOMAIN wire'
      BY <2>2
    <3> QED
      BY <2>2, <3>1 DEF Finished
  <2> QED
    BY <1>1, <2>2, <2>3 DEF WireInv, Streamed, Finished
<1>2. CASE ~(writerOpen /\ ~resClosed)
  <2>1. wire' = wire
    BY <1>2 DEF Reaches
  <2> QED
    BY <1>2, <2>1 DEF WireInv, Streamed, Finished
<1> QED
  BY <1>1, <1>2

\* send() is called for a request that was not answered: "start" comes first.
LEMMA SendKeepsWire ==
    ASSUME WireInv, ~handled, Send, UNCHANGED <<writerOpen, resClosed, onErrors>>,
           stage' \in {stage, "settled"}
    PROVE  WireInv'
<1>1. /\ wire = <<>> /\ sent' /\ handled' /\ wire' = Reaches(<<"start">>)
  BY DEF WireInv, Send
<1>2. CASE writerOpen /\ ~resClosed
  <2>1. wire' = <<"start">>
    BY <1>1, <1>2 DEF Reaches
  <2>2. wire' \in Seq(Framed) /\ Len(wire') = 1 /\ wire'[1] = "start"
    BY <2>1 DEF Framed
  <2>3. Streamed(wire') /\ ~Finished(wire')
    BY <2>1, <2>2 DEF Streamed, Finished
  <2> QED
    BY <1>1, <2>2, <2>3 DEF WireInv, Streamed, Finished
<1>3. CASE ~(writerOpen /\ ~resClosed)
  <2>1. wire' = <<>>
    BY <1>1, <1>3 DEF Reaches
  <2> QED
    BY <1>1, <1>3, <2>1 DEF WireInv, Streamed, Finished
<1> QED
  BY <1>2, <1>3

\* handleH3Error answers a request once, and only one that was not answered.
LEMMA ErrorKeepsWire ==
    ASSUME WireInv, stage # "settled", HandleH3Error, stage' = "settled",
           UNCHANGED <<stream, resClosed>>
    PROVE  WireInv'
<1>1. onErrors = 0 /\ onErrors' = 1
  BY DEF WireInv, HandleH3Error
<1>2. CASE handled
  <2>1. UNCHANGED <<handled, wire, sent, writerOpen, intervals, resClosed>>
    BY <1>2 DEF HandleH3Error, stream
  <2> QED
    BY <1>1, <2>1 DEF WireInv, Streamed, Finished
<1>3. CASE ~handled
  <2>1. /\ ~sent /\ wire = <<>> /\ intervals = {}
        /\ UNCHANGED <<sent, writerOpen, intervals>>
        /\ handled' /\ wire' \in {<<>>, <<"error">>}
    <3>1. ~sent /\ wire = <<>> /\ intervals = {}
      BY <1>3 DEF WireInv
    <3>2. Append(wire, "error") = <<"error">>
      BY <3>1
    <3> QED
      BY <1>3, <3>1, <3>2 DEF HandleH3Error, stream
  <2>2. <<>> \in Seq(Framed) /\ Len(<<>>) = 0 /\ <<"error">> \in Seq(Framed) /\ Len(<<"error">>) = 1
    BY DEF Framed
  <2>3. wire' \in Seq(Framed) /\ (\A i \in 1..Len(wire') - 1 : wire'[i] # "done")
    <3>1. CASE wire' = <<>>
      BY <2>2, <3>1
    <3>2. CASE wire' = <<"error">>
      BY <2>2, <3>2
    <3> QED
      BY <2>1, <3>1, <3>2
  <2> QED
    BY <1>1, <2>1, <2>3 DEF WireInv, Streamed, Finished
<1> QED
  BY <1>2, <1>3

LEMMA WireInit == Init => WireInv
<1> SUFFICES ASSUME Init PROVE WireInv
  OBVIOUS
<1>1. wire = <<>> /\ wire \in Seq(Framed)
  BY DEF Init
<1> QED
  BY <1>1 DEF Init, WireInv

LEMMA WireStep ==
  ASSUME WireInv, [Next]_vars
  PROVE  WireInv'
<1> USE ConstantsAssumption
<1>1. CASE Preflight
  BY <1>1 DEF Preflight, stream, counters, WireInv, Streamed, Finished
<1>2. CASE ChecksFail
  BY <1>2, ErrorKeepsWire DEF ChecksFail
<1>3. CASE ChecksPass
  BY <1>3 DEF ChecksPass, response, counters, WireInv, Streamed, Finished
<1>4. CASE HandlerResolves
  <2>1. CASE handled
    BY <1>4, <2>1 DEF HandlerResolves, counters, WireInv, Streamed, Finished
  <2>2. CASE ~handled
    BY <1>4, <2>2, SendKeepsWire DEF HandlerResolves, counters
  <2> QED
    BY <2>1, <2>2
<1>5. CASE HandlerRejects
  BY <1>5, ErrorKeepsWire DEF HandlerRejects
<1>6. CASE AppSend
  BY <1>6, SendKeepsWire DEF AppSend, counters
<1>7. CASE AppClose
  <2> DEFINE frames == <<"done">>
  <2>1. frames \in Seq(Framed) /\ Len(frames) = 1 /\ DOMAIN frames = {1} /\ frames[1] = "done"
    BY DEF Framed
  <2>2. /\ sent /\ wire' = Reaches(frames)
        /\ UNCHANGED <<sent, handled, resClosed, onErrors, stage>>
        /\ ~writerOpen'
    BY <1>7 DEF AppClose, CloseEventStream, counters
  <2> HIDE DEF frames
  <2> QED
    BY <2>1, <2>2, WriteKeepsWire
<1>8. CASE \E batch \in Batch : AppPush(batch)
  <2>1. PICK batch \in Batch : AppPush(batch)
    BY <1>8
  <2> DEFINE frames == Only(batch, Valid)
  <2>2. batch \in Seq(Item)
    BY DEF ConstantsAssumption
  <2>3. frames \in Seq(Item \cap Valid)
    BY <2>2, OnlyFacts
  <2>4. /\ sent /\ wire' = Reaches(frames)
        /\ UNCHANGED <<sent, handled, resClosed, onErrors, stage, writerOpen>>
    BY <2>1 DEF AppPush, stream
  <2> HIDE DEF frames
  <2>5. frames \in Seq(Framed) /\ \A i \in DOMAIN frames : frames[i] \notin {"start", "error", "done"}
    BY <2>3 DEF ConstantsAssumption, Framed
  <2> QED
    BY <2>4, <2>5, WriteKeepsWire
<1>9. CASE HeartbeatFires
  <2> DEFINE frames == <<"heartbeat">>
  <2>1. frames \in Seq(Framed) /\ DOMAIN frames = {1} /\ frames[1] = "heartbeat"
    BY DEF Framed
  <2>2. /\ sent /\ wire' = Reaches(frames)
        /\ UNCHANGED <<sent, handled, resClosed, onErrors, stage, writerOpen>>
    BY <1>9 DEF HeartbeatFires, stream, WireInv
  <2> HIDE DEF frames
  <2> QED
    BY <2>1, <2>2, WriteKeepsWire
<1>10. CASE ResCloses
  <2>1. /\ UNCHANGED <<stage, sent, handled, wire, onErrors>> /\ resClosed'
        /\ intervals = {} => intervals' = {}
    BY <1>10 DEF ResCloses, CloseEventStream, Cleanup, counters
  <2> QED
    BY <2>1 DEF WireInv, Streamed, Finished
<1>11. CASE UNCHANGED vars
  BY <1>11 DEF vars, stream, response, counters, WireInv, Streamed, Finished
<1>12. QED
  BY <1>1, <1>2, <1>3, <1>4, <1>5, <1>6, <1>7, <1>8, <1>9, <1>10, <1>11 DEF Next

\* What a client is sent is one error and nothing else, or a stream in its
\* order, and the onError hook hears of one error at most, for every
\* procedure, schedule and moment at which the connection is lost (send,
\* push, close and the handler of registerEventStreamRpc).
THEOREM WireWellFormedCorrect == Spec => []WireWellFormed
<1>1. Init => WireInv
  BY WireInit
<1>2. WireInv /\ [Next]_vars => WireInv'
  BY WireStep
<1>3. WireInv => WireWellFormed
  BY DEF WireInv, WireWellFormed, Streamed
<1>4. QED
  BY <1>1, <1>2, <1>3, PTL DEF Spec

-----------------------------------------------------------------------------
(* The heartbeat timer.                                                    *)

\* At most one timer, the one _cleanup() knows, and none before send().
OneTimer ==
    /\ interval \in Nat
    /\ ~sent => intervals = {}
    /\ intervals \subseteq {interval}

\* The hooks exist before the stream is sent, and the stream object knows
\* whether it is closed.
Hooked ==
    /\ stage = "handler" \/ sent => connection
    /\ isClosed <=> ~writerOpen

TimerInv == Hooked /\ OneTimer /\ HeartbeatStops

LEMMA TimerInit == Init => TimerInv
  BY DEF Init, TimerInv, Hooked, OneTimer, HeartbeatStops

\* send() starts the only timer there is; if the stream is over by then, or its
\* connection gone, not even "start" is written.
LEMMA SendTimer ==
  ASSUME WireInv, TimerInv, ~handled, stage = "handler", Send,
         UNCHANGED <<connection, writerOpen, isClosed, resClosed>>
  PROVE  TimerInv'
<1>1. ~sent /\ wire = <<>> /\ intervals = {} /\ interval \in Nat
  BY DEF WireInv, TimerInv, OneTimer
<1>2. interval' \in Nat /\ intervals' \subseteq {interval'}
  <2>1. CASE SendHeartbeat
    <3>1. interval' = interval + 1 /\ intervals' = intervals \cup {interval + 1}
      BY <2>1, Zenon DEF Send
    <3> QED
      BY <1>1, <3>1
  <2>2. CASE ~SendHeartbeat
    <3>1. interval' = interval /\ intervals' = intervals
      BY <2>2, Zenon DEF Send
    <3> QED
      BY <1>1, <3>1
  <2> QED
    BY <2>1, <2>2
<1>3. sent' /\ Hooked'
  BY DEF Send, TimerInv, Hooked
<1>4. isClosed' \/ resClosed' => wire' = <<>>
  BY <1>1 DEF Send, Reaches, TimerInv, Hooked
<1> QED
  BY <1>2, <1>3, <1>4 DEF TimerInv, OneTimer, HeartbeatStops

\* An error is sent only where no timer has been started.
LEMMA ErrorTimer ==
  ASSUME WireInv, TimerInv, HandleH3Error, stage' = "settled", UNCHANGED <<stream, resClosed>>
  PROVE  TimerInv'
  BY DEF WireInv, TimerInv, Hooked, OneTimer, HeartbeatStops, HandleH3Error, stream

LEMMA TimerStep ==
  ASSUME WireInv, TimerInv, [Next]_vars
  PROVE  TimerInv'
<1> USE DEF TimerInv, Hooked, OneTimer, HeartbeatStops
<1>1. CASE Preflight
  BY <1>1 DEF Preflight, stream
<1>2. CASE ChecksFail
  BY <1>2, ErrorTimer DEF ChecksFail
<1>3. CASE ChecksPass
  BY <1>3 DEF ChecksPass, response
<1>4. CASE HandlerResolves
  <2>1. CASE handled
    BY <1>4, <2>1 DEF HandlerResolves
  <2>2. CASE ~handled
    BY <1>4, <2>2, SendTimer DEF HandlerResolves
  <2> QED
    BY <2>1, <2>2
<1>5. CASE HandlerRejects
  BY <1>5, ErrorTimer DEF HandlerRejects
<1>6. CASE AppSend
  BY <1>6, SendTimer DEF AppSend
<1>7. CASE AppClose
  <2>1. /\ sent /\ connection /\ UNCHANGED <<stage, connection, sent, resClosed>>
        /\ CloseEventStream /\ wire' = Reaches(<<"done">>)
    BY <1>7 DEF AppClose
  <2>2. CASE writerOpen
    BY <2>1, <2>2 DEF CloseEventStream, Cleanup
  <2>3. CASE ~writerOpen
    BY <2>1, <2>3 DEF CloseEventStream, Reaches
  <2> QED
    BY <2>2, <2>3
<1>8. CASE \E batch \in Batch : AppPush(batch)
  BY <1>8 DEF AppPush, stream, Reaches
<1>9. CASE HeartbeatFires
  BY <1>9 DEF HeartbeatFires, stream, Reaches
<1>10. CASE ResCloses
  BY <1>10 DEF ResCloses, CloseEventStream, Cleanup
<1>11. CASE UNCHANGED vars
  BY <1>11 DEF vars, stream, response
<1> QED
  BY <1>1, <1>2, <1>3, <1>4, <1>5, <1>6, <1>7, <1>8, <1>9, <1>10, <1>11 DEF Next

\* No timer outlives the stream or the connection of a client that has been
\* sent anything, wherever the client drops the connection - before the stream
\* exists, before send() or after (README.md:228, _cleanup).
THEOREM HeartbeatStopsCorrect == Spec => []HeartbeatStops
<1>1. WireInv /\ TimerInv /\ [Next]_vars => TimerInv'
  BY TimerStep
<1>2. WireInv /\ [Next]_vars => WireInv'
  BY WireStep
<1>3. TimerInv => HeartbeatStops
  BY DEF TimerInv
<1> QED
  BY <1>1, <1>2, <1>3, TimerInit, WireInit, PTL DEF Spec

-----------------------------------------------------------------------------
(* What push() reports.                                                    *)

Places(w) == {i \in DOMAIN w : w[i] \in Item}

HonestInv == WireInv /\ reported \in Nat /\ PushesAreHonest

\* The items among the frames written to an open stream are those it had and
\* those of the frames.
LEMMA PlacesAdd ==
  ASSUME NEW w \in Seq(Framed), NEW frames \in Seq(Framed)
  PROVE  Cardinality(Places(w \o frames)) = Cardinality(Places(w)) + Cardinality(Places(frames))
<1> DEFINE in(n) == {i \in 1..Len(w) + n : (w \o frames)[i] \in Item}
           of(n) == {i \in 1..n : frames[i] \in Item}
           P == {n \in Nat : n <= Len(frames) =>
                               Cardinality(in(n)) = Cardinality(Places(w)) + Cardinality(of(n))}
<1>1. /\ Len(w) \in Nat /\ Len(frames) \in Nat
      /\ Len(w \o frames) = Len(w) + Len(frames)
      /\ \A i \in 1..Len(w) : (w \o frames)[i] = w[i]
      /\ \A i \in 1..Len(frames) : (w \o frames)[Len(w) + i] = frames[i]
  OBVIOUS
<1>2. \A n \in Nat : /\ IsFiniteSet(in(n)) /\ IsFiniteSet(of(n))
                     /\ Cardinality(in(n)) \in Nat /\ Cardinality(of(n)) \in Nat
  <2> TAKE n \in Nat
  <2>1. 1 \in Int /\ n \in Int /\ Len(w) + n \in Int
    BY <1>1
  <2>2. IsFiniteSet(1..Len(w) + n) /\ IsFiniteSet(1..n)
    BY <2>1, FS_Interval
  <2>3. in(n) \in SUBSET (1..Len(w) + n) /\ of(n) \in SUBSET (1..n)
    OBVIOUS
  <2> HIDE DEF in, of
  <2> QED
    BY <2>2, <2>3, FS_Subset, FS_CardinalityType
<1>3. 0 \in P
  <2>1. in(0) = Places(w) /\ of(0) = {}
    BY <1>1 DEF Places
  <2>2. Cardinality(of(0)) = 0
    BY <2>1, FS_EmptySet
  <2> HIDE DEF in, of
  <2>3. Cardinality(in(0)) = Cardinality(Places(w)) + Cardinality(of(0))
    BY <1>2, <2>1, <2>2
  <2> QED
    BY <2>3 DEF in, of
<1>4. ASSUME NEW n \in P PROVE n + 1 \in P
  <2> SUFFICES ASSUME n + 1 <= Len(frames)
               PROVE  Cardinality(in(n + 1)) = Cardinality(Places(w)) + Cardinality(of(n + 1))
    <3> HIDE DEF in, of
    <3>1. n + 1 \in Nat
      OBVIOUS
    <3> QED
      BY <3>1
  <2>1. n \in Nat /\ Cardinality(in(n)) = Cardinality(Places(w)) + Cardinality(of(n))
    <3> HIDE DEF in, of
    <3>1. n \in Nat /\ n <= Len(frames)
      BY <1>1
    <3> QED
      BY <3>1
  <2>2. (w \o frames)[Len(w) + (n + 1)] = frames[n + 1]
    BY <1>1, <2>1
  <2>3. CASE frames[n + 1] \in Item
    <3>1. in(n + 1) = in(n) \cup {Len(w) + (n + 1)} /\ Len(w) + (n + 1) \notin in(n)
      <4> DEFINE both == w \o frames
                 lw == Len(w)
      <4>1. /\ lw \in Nat /\ n \in Nat /\ both[lw + (n + 1)] \in Item
            /\ lw + (n + 1) = (lw + n) + 1
        BY <1>1, <2>1, <2>2, <2>3
      <4> HIDE DEF both, lw
      <4>2. {i \in 1..lw + (n + 1) : both[i] \in Item} = {i \in 1..lw + n : both[i] \in Item} \cup {lw + (n + 1)}
        BY <4>1
      <4>3. lw + (n + 1) \notin {i \in 1..lw + n : both[i] \in Item}
        BY <4>1
      <4> QED
        BY <4>2, <4>3 DEF both, lw
    <3>2. of(n + 1) = of(n) \cup {n + 1} /\ n + 1 \notin of(n)
      BY <2>1, <2>3
    <3> HIDE DEF in, of
    <3>3. Cardinality(in(n + 1)) = Cardinality(in(n)) + 1 /\ Cardinality(of(n + 1)) = Cardinality(of(n)) + 1
      BY <1>2, <2>1, <3>1, <3>2, FS_AddElement
    <3>4. Cardinality(Places(w)) \in Nat
      <4>1. IsFiniteSet(1..Len(w)) /\ Places(w) \in SUBSET (1..Len(w))
        <5>1. 1 \in Int /\ Len(w) \in Int /\ DOMAIN w = 1..Len(w)
          BY <1>1
        <5> QED
          BY <5>1, FS_Interval DEF Places
      <4>2. IsFiniteSet(Places(w))
        BY <4>1, FS_Subset
      <4> QED
        BY <4>2, FS_CardinalityType
    <3> QED
      BY <1>2, <2>1, <3>3, <3>4
  <2>4. CASE frames[n + 1] \notin Item
    <3>1. in(n + 1) = in(n) /\ of(n + 1) = of(n)
      BY <1>1, <2>1, <2>2, <2>4
    <3> HIDE DEF in, of
    <3> QED
      BY <2>1, <3>1
  <2> QED
    BY <2>3, <2>4
<1> HIDE DEF P
<1>5. P = Nat
  <2>1. P \in SUBSET Nat
    BY DEF P
  <2> QED
    BY <1>3, <1>4, <2>1, SetInduction
<1>6. Len(frames) \in P
  BY <1>1, <1>5
<1>7. Places(w \o frames) = in(Len(frames)) /\ Places(frames) = of(Len(frames))
  BY <1>1 DEF Places
<1> QED
  <2> HIDE DEF in, of
  <2> QED
    BY <1>1, <1>6, <1>7 DEF P

\* Frames that are no items leave their number as it is.
LEMMA NoItems ==
  ASSUME NEW frames \in Seq(Framed), \A i \in DOMAIN frames : frames[i] \notin Item
  PROVE  Cardinality(Places(frames)) = 0
<1>1. Places(frames) = {}
  BY DEF Places
<1> QED
  BY <1>1, FS_EmptySet

\* ... and all of the frames of push() are items.
LEMMA AllItems ==
  ASSUME NEW frames \in Seq(Item)
  PROVE  Cardinality(Places(frames)) = Len(frames)
<1>1. Places(frames) = 1..Len(frames) /\ Len(frames) \in Nat
  BY DEF Places
<1> QED
  BY <1>1, FS_Interval

LEMMA HonestWrite ==
  ASSUME HonestInv, NEW frames \in Seq(Framed), wire' = Reaches(frames),
         writerOpen' /\ ~resClosed' => writerOpen /\ ~resClosed,
         reported' = reported + Cardinality(Places(frames))
  PROVE  PushesAreHonest'
<1> SUFFICES ASSUME writerOpen', ~resClosed'
             PROVE  reported' = Cardinality(Places(wire'))
  BY DEF PushesAreHonest, Places
<1>1. wire' = wire \o frames /\ wire \in Seq(Framed) /\ reported = Cardinality(Places(wire))
  BY DEF HonestInv, WireInv, Reaches, PushesAreHonest, Places
<1> QED
  BY <1>1, PlacesAdd

LEMMA HonestStep ==
  ASSUME HonestInv, [Next]_vars
  PROVE  HonestInv'
<1> USE ConstantsAssumption
<1>1. WireInv'
  BY WireStep DEF HonestInv
<1>2. ASSUME UNCHANGED <<wire, reported>>, writerOpen' /\ ~resClosed' => writerOpen /\ ~resClosed
      PROVE  HonestInv'
  BY <1>1, <1>2 DEF HonestInv, PushesAreHonest
<1>3. ASSUME UNCHANGED reported, writerOpen' /\ ~resClosed' => writerOpen /\ ~resClosed,
             NEW frames \in Seq(Framed), \A i \in DOMAIN frames : frames[i] \notin Item,
             wire' = Reaches(frames)
      PROVE  HonestInv'
  <2>1. reported' = reported + Cardinality(Places(frames))
    BY <1>3, NoItems DEF HonestInv
  <2> QED
    BY <1>1, <1>3, <2>1, HonestWrite DEF HonestInv
<1>4. ASSUME ~handled, HandleH3Error, UNCHANGED <<stream, resClosed, reported>>
      PROVE  HonestInv'
  <2>1. wire = <<>>
    BY <1>4 DEF HonestInv, WireInv
  <2>2. CASE resClosed
    BY <1>2, <1>4, <2>2 DEF HandleH3Error, stream
  <2>3. CASE ~resClosed
    <3> DEFINE frames == <<"error">>
    <3>1. frames \in Seq(Framed) /\ DOMAIN frames = {1} /\ frames[1] = "error" /\ "error" \notin Item
      BY DEF Framed, ConstantsAssumption
    <3>4. Append(<<>>, "error") = frames
      OBVIOUS
    <3>5. wire' = frames
      BY <1>4, <2>1, <2>3, <3>4 DEF HandleH3Error
    <3> HIDE DEF frames
    <3>2. Cardinality(Places(wire')) = 0
      BY <3>1, <3>5, NoItems
    <3>3. Cardinality(Places(wire)) = 0
      <4>1. Places(wire) = {}
        BY <2>1 DEF Places
      <4> QED
        BY <4>1, FS_EmptySet
    <3> QED
      <4>1. PushesAreHonest => (writerOpen /\ ~resClosed => reported = 0)
        BY <3>3 DEF PushesAreHonest, Places
      <4>2. (writerOpen' /\ ~resClosed' => reported' = 0) => PushesAreHonest'
        BY <3>2 DEF PushesAreHonest, Places
      <4> QED
        BY <1>1, <1>4, <4>1, <4>2 DEF HonestInv, stream
  <2> QED
    BY <2>2, <2>3
<1>5. ASSUME Send, UNCHANGED <<writerOpen, resClosed, reported>>
      PROVE  HonestInv'
  <2> DEFINE frames == <<"start">>
  <2>1. frames \in Seq(Framed) /\ DOMAIN frames = {1} /\ frames[1] = "start" /\ "start" \notin Item
    BY DEF Framed, ConstantsAssumption
  <2>2. wire' = Reaches(frames)
    BY <1>5 DEF Send
  <2> HIDE DEF frames
  <2> QED
    BY <1>3, <1>5, <2>1, <2>2
<1>6. CASE Preflight
  BY <1>2, <1>6 DEF Preflight, stream, counters
<1>7. CASE ChecksFail \/ HandlerRejects
  <2>1. CASE handled
    BY <1>2, <1>7, <2>1 DEF ChecksFail, HandlerRejects, HandleH3Error, stream
  <2>2. CASE ~handled
    BY <1>4, <1>7, <2>2 DEF ChecksFail, HandlerRejects
  <2> QED
    BY <2>1, <2>2
<1>8. CASE ChecksPass
  BY <1>2, <1>8 DEF ChecksPass, response, counters
<1>9. CASE HandlerResolves \/ AppSend
  <2>1. CASE handled
    BY <1>2, <1>9, <2>1 DEF HandlerResolves, AppSend, counters
  <2>2. CASE ~handled
    BY <1>5, <1>9, <2>2 DEF HandlerResolves, AppSend, counters
  <2> QED
    BY <2>1, <2>2
<1>10. CASE AppClose
  <2> DEFINE frames == <<"done">>
  <2>1. frames \in Seq(Framed) /\ DOMAIN frames = {1} /\ frames[1] = "done" /\ "done" \notin Item
    BY DEF Framed, ConstantsAssumption
  <2>2. wire' = Reaches(frames) /\ ~writerOpen' /\ UNCHANGED reported
    BY <1>10 DEF AppClose, CloseEventStream, counters
  <2> HIDE DEF frames
  <2> QED
    BY <1>3, <2>1, <2>2
<1>11. CASE \E batch \in Batch : AppPush(batch)
  <2>1. PICK batch \in Batch : AppPush(batch)
    BY <1>11
  <2> DEFINE frames == Only(batch, Valid)
             accepted == Cardinality({i \in 1 .. Len(batch) : batch[i] \in Valid})
  <2>2. batch \in Seq(Item)
    BY DEF ConstantsAssumption
  <2>3. frames \in Seq(Item \cap Valid) /\ Len(frames) = accepted
    BY <2>2, OnlyFacts
  <2>4. /\ wire' = Reaches(frames) /\ reported' = reported + accepted
        /\ UNCHANGED <<writerOpen, resClosed>>
    BY <2>1 DEF AppPush, stream
  <2> HIDE DEF frames, accepted
  <2>5. frames \in Seq(Item) /\ frames \in Seq(Framed) /\ Len(frames) \in Nat
    BY <2>3 DEF Framed
  <2>6. reported' = reported + Cardinality(Places(frames))
    BY <2>3, <2>4, <2>5, AllItems
  <2>7. reported' \in Nat
    BY <2>3, <2>4, <2>5 DEF HonestInv
  <2> QED
    BY <1>1, <2>4, <2>5, <2>6, <2>7, HonestWrite DEF HonestInv
<1>12. CASE HeartbeatFires
  <2> DEFINE frames == <<"heartbeat">>
  <2>1. frames \in Seq(Framed) /\ DOMAIN frames = {1} /\ frames[1] = "heartbeat" /\ "heartbeat" \notin Item
    BY DEF Framed, ConstantsAssumption
  <2>2. wire' = Reaches(frames) /\ UNCHANGED <<reported, writerOpen, resClosed>>
    BY <1>12 DEF HeartbeatFires, stream
  <2> HIDE DEF frames
  <2> QED
    BY <1>3, <2>1, <2>2
<1>13. CASE ResCloses
  <2>1. resClosed' /\ UNCHANGED <<wire, reported>>
    BY <1>13 DEF ResCloses, counters
  <2> QED
    BY <1>2, <2>1
<1>14. CASE UNCHANGED vars
  BY <1>2, <1>14 DEF vars, stream, response, counters
<1>15. QED
  BY <1>6, <1>7, <1>8, <1>9, <1>10, <1>11, <1>12, <1>13, <1>14 DEF Next

\* push() never reports more items, or fewer, than reach the client while the
\* stream is open, whatever batches of valid and invalid items it is given
\* and whatever else is written in between (push, lines 140 to 184).
THEOREM PushesAreHonestCorrect == Spec => []PushesAreHonest
<1>1. Init => HonestInv
  <2> SUFFICES ASSUME Init PROVE HonestInv
    OBVIOUS
  <2>1. WireInv
    BY WireInit
  <2>2. {i \in DOMAIN wire : wire[i] \in Item} = {}
    BY DEF Init
  <2>3. PushesAreHonest
    BY <2>2, FS_EmptySet DEF Init, PushesAreHonest
  <2> QED
    BY <2>1, <2>3 DEF Init, HonestInv
<1>2. HonestInv /\ [Next]_vars => HonestInv'
  BY HonestStep
<1>3. HonestInv => PushesAreHonest
  BY DEF HonestInv
<1>4. QED
  BY <1>1, <1>2, <1>3, PTL DEF Spec
=============================================================================
