------------------------ MODULE DartEventSource_proofs ------------------------
(***************************************************************************)
(* Theorems about DartEventSource, for any number of slots, any chunks and *)
(* any retry limit: types, a source is never stranded, its last request    *)
(* asks for what follows the last event, and its connections and retries   *)
(* stay within their limits but for its overlapping calls.                 *)
(***************************************************************************)
EXTENDS DartEventSource, FiniteSetTheorems, TLAPS

-----------------------------------------------------------------------------
(* What the helpers of the module do to the fields they touch. *)

\* Cancelling the tracked subscription only ever turns a live slot idle.
LEMMA CancelTrackedType ==
    ASSUME attempt \in [Slot -> AttemptState]
    PROVE  /\ CancelTracked \in [Slot -> AttemptState]
           /\ AfterHook \in [Slot -> AttemptState]
  BY DEF CancelTracked, AfterHook, AttemptState

\* Whatever a hook and _handleError do, the fields of close() keep their types.
LEMMA ClosingType ==
    ASSUME TypeOK, \/ StayOpen
                   \/ HookMayClose
                   \/ HandleError
                   \/ \E times \in {1, 2} : Close(times)
    PROVE  closedByClient' \in BOOLEAN /\ httpClosed' \in BOOLEAN /\ closeReports' \in 0..2
<1>1. ASSUME NEW times \in {1, 2}, Close(times)
      PROVE  closedByClient' \in BOOLEAN /\ httpClosed' \in BOOLEAN /\ closeReports' \in 0..2
  BY <1>1 DEF TypeOK, Close
<1>2. CASE StayOpen
  BY <1>2 DEF TypeOK, StayOpen, closing
<1>3. StayOpen \/ \E times \in {1, 2} : Close(times)
  BY DEF HookMayClose, HandleError
<1> QED
  BY <1>1, <1>2, <1>3

\* _handleError keeps the types of the timers.
LEMMA HandleErrorTimers ==
    ASSUME TypeOK, HandleError
    PROVE  retryTimers' \in Nat /\ heartbeatArmed' \in BOOLEAN
<1>1. retryTimers' \in Nat
  BY DEF TypeOK, HandleError
<1>2. heartbeatArmed' \in BOOLEAN
  BY Zenon DEF TypeOK, HandleError
<1> QED
  BY <1>1, <1>2

\* Starting a call of _connect keeps the types of what it sets.
LEMMA ConnectType ==
    ASSUME TypeOK, NEW s \in Slot, NEW isRetry \in BOOLEAN, Connect(s, isRetry)
    PROVE  /\ attempt' \in [Slot -> AttemptState]
           /\ sentId' \in [Slot -> EventId \cup {NoId}]
           /\ retryCount' \in 0..RetryCap
  BY ConstantsAssumption DEF TypeOK, Connect, AttemptState

\* The history of the overlaps stays under its cap.
LEMMA OverlapsType ==
    ASSUME TypeOK, NoteOverlap
    PROVE  overlaps' \in 0..OverlapCap
  BY ConstantsAssumption DEF TypeOK, NoteOverlap

-----------------------------------------------------------------------------
(* Type correctness *)

LEMMA InitTypeOK == Init => TypeOK
<1> SUFFICES ASSUME Init PROVE TypeOK
  OBVIOUS
<1> USE ConstantsAssumption DEF Init
<1>1. attempt \in [Slot -> AttemptState]
  BY DEF AttemptState
<1>2. sentId \in [Slot -> EventId \cup {NoId}]
  OBVIOUS
<1>3. loop \in Seq(Event)
  OBVIOUS
<1>4. /\ retryTimers \in Nat /\ retryCount \in 0..RetryCap /\ closeReports \in 0..2
      /\ requestStream \in Slot \cup {NoSlot} /\ lastEventId \in EventId \cup {NoId}
  OBVIOUS
<1>5. /\ heartbeatArmed \in BOOLEAN /\ heartbeatKnown \in BOOLEAN
      /\ closedByClient \in BOOLEAN /\ httpClosed \in BOOLEAN
  OBVIOUS
<1>6. overlaps \in 0..OverlapCap
  OBVIOUS
<1> QED
  BY ONLY <1>1, <1>2, <1>3, <1>4, <1>5, <1>6 DEF TypeOK

LEMMA NextTypeOK == TypeOK /\ [Next]_vars => TypeOK'
<1> SUFFICES ASSUME TypeOK, [Next]_vars PROVE TypeOK'
  OBVIOUS
<1>1. CASE HandleEvent
  <2>1. loop \in Seq(Event) /\ loop # << >>
    BY <1>1 DEF HandleEvent, TypeOK
  <2>2. loop' \in Seq(Event) /\ Head(loop) \in Event
    BY <1>1, <2>1 DEF HandleEvent
  <2>3. lastEventId' \in EventId \cup {NoId}
    BY <1>1, <2>2 DEF HandleEvent, Event, TypeOK
  <2>4. closedByClient' \in BOOLEAN /\ httpClosed' \in BOOLEAN /\ closeReports' \in 0..2
    BY <1>1, ClosingType DEF HandleEvent
  <2>5. attempt' \in [Slot -> AttemptState]
    BY <1>1, CancelTrackedType DEF HandleEvent, TypeOK
  <2>6. heartbeatArmed' \in BOOLEAN
    BY <1>1 DEF HandleEvent, TypeOK, HookCloses
  <2> QED
    BY <1>1, <2>2, <2>3, <2>4, <2>5, <2>6 DEF HandleEvent, TypeOK
<1>2. CASE AppClose
  BY <1>2, ClosingType, CancelTrackedType DEF AppClose, TypeOK
<1>3. ASSUME NEW s \in Slot, HeadersResolve(s) PROVE TypeOK'
  BY <1>3, CancelTrackedType DEF HeadersResolve, TypeOK, AttemptState, heartbeat, closing
<1>4. ASSUME NEW s \in Slot, HeadersThrow(s) PROVE TypeOK'
  BY <1>4 DEF HeadersThrow, TypeOK, AttemptState, heartbeat, closing
<1>5. ASSUME NEW s \in Slot, Send(s) PROVE TypeOK'
  BY <1>5 DEF Send, TypeOK, AttemptState, heartbeat, closing
<1>6. ASSUME NEW s \in Slot, AttemptFails(s) PROVE TypeOK'
  BY <1>6, ClosingType, HandleErrorTimers, CancelTrackedType
     DEF AttemptFails, TypeOK, AttemptState
<1>7. ASSUME NEW s \in Slot, UnexpectedStatus(s) PROVE TypeOK'
  BY <1>7, ClosingType, HandleErrorTimers, CancelTrackedType
     DEF UnexpectedStatus, TypeOK, AttemptState
<1>8. ASSUME NEW s \in Slot, ErrorResponse(s) PROVE TypeOK'
  <2>1. heartbeatArmed' \in BOOLEAN
    BY <1>8, Zenon DEF ErrorResponse
  <2>2. attempt' \in [Slot -> AttemptState]
    BY <1>8, CancelTrackedType DEF ErrorResponse, TypeOK, AttemptState
  <2> QED
    BY <1>8, <2>1, <2>2, ClosingType DEF ErrorResponse, TypeOK
<1>9. ASSUME NEW s \in Slot, OkResponse(s) PROVE TypeOK'
  BY <1>9, ConstantsAssumption, ClosingType, CancelTrackedType DEF OkResponse, TypeOK, AttemptState
<1>10. ASSUME NEW s \in Slot, ReceiveChunk(s) PROVE TypeOK'
  BY <1>10, ConstantsAssumption DEF ReceiveChunk, TypeOK, heartbeat, closing
<1>11. ASSUME NEW s \in Slot, StreamEnds(s) PROVE TypeOK'
  <2>1. attempt' \in [Slot -> AttemptState]
    BY <1>11 DEF StreamEnds, TypeOK, AttemptState
  <2>2. closedByClient' \in BOOLEAN /\ httpClosed' \in BOOLEAN
    BY <1>11 DEF StreamEnds, TypeOK, StayOpen, closing
  <2>3. closeReports' \in 0..2 /\ retryTimers' \in Nat
    BY <1>11 DEF StreamEnds, TypeOK, StayOpen, closing
  <2> QED
    BY <1>11, <2>1, <2>2, <2>3, OverlapsType DEF StreamEnds, TypeOK, heartbeat
<1>12. ASSUME NEW s \in Slot, StreamError(s) PROVE TypeOK'
  BY <1>12, ClosingType, HandleErrorTimers, OverlapsType, CancelTrackedType DEF StreamError, TypeOK
<1>13. ASSUME NEW s \in Slot, RetryTimerFires(s) PROVE TypeOK'
  <2>1. /\ attempt' \in [Slot -> AttemptState]
        /\ sentId' \in [Slot -> EventId \cup {NoId}]
        /\ retryCount' \in 0..RetryCap
    BY <1>13, ConnectType DEF RetryTimerFires
  <2> QED
    BY <1>13, <2>1 DEF RetryTimerFires, TypeOK, heartbeat, closing
<1>14. ASSUME NEW s \in Slot, HeartbeatTimerFires(s) PROVE TypeOK'
  <2>1. /\ attempt' \in [Slot -> AttemptState]
        /\ sentId' \in [Slot -> EventId \cup {NoId}]
        /\ retryCount' \in 0..RetryCap
    BY <1>14, ConnectType DEF HeartbeatTimerFires
  <2> QED
    BY <1>14, <2>1, OverlapsType DEF HeartbeatTimerFires, TypeOK, closing
<1>15. ASSUME NEW s \in Slot, Reconnect(s) PROVE TypeOK'
  <2>1. /\ attempt' \in [Slot -> AttemptState]
        /\ sentId' \in [Slot -> EventId \cup {NoId}]
        /\ retryCount' \in 0..RetryCap
    BY <1>15, ConnectType DEF Reconnect
  <2>2. /\ closedByClient' = FALSE /\ closeReports' = 0
        /\ UNCHANGED <<requestStream, loop, retryTimers, heartbeatArmed, heartbeatKnown,
                       httpClosed, lastEventId>>
    BY <1>15 DEF Reconnect, heartbeat
  <2>3. closedByClient' \in BOOLEAN
    BY <2>2, Zenon
  <2>4. closeReports' \in 0..2
    BY <2>2
  <2>5. overlaps' \in 0..OverlapCap
    BY <1>15, OverlapsType DEF Reconnect
  <2> QED
    BY <2>1, <2>2, <2>3, <2>4, <2>5 DEF TypeOK
<1>16. CASE UNCHANGED vars
  BY <1>16 DEF vars, source, TypeOK, heartbeat, closing
<1> QED
  BY <1>1, <1>2, <1>3, <1>4, <1>5, <1>6, <1>7, <1>8, <1>9, <1>10, <1>11, <1>12,
     <1>13, <1>14, <1>15, <1>16 DEF Next

\* Every field keeps the type its declaration and its use give it.
THEOREM TypeCorrect == Spec => []TypeOK
  BY InitTypeOK, NextTypeOK, PTL DEF Spec

-----------------------------------------------------------------------------
(* A source nobody closed is never stranded *)

\* Hooks, failed calls and _handleError cancel a stream only by closing the
\* source, so in a source that stays open the other slots are as they were.
LEMMA OpenKeepsSlots ==
    ASSUME StayOpen \/ HookMayClose \/ HandleError, ~closedByClient'
    PROVE  AfterHook = attempt
  BY DEF AfterHook, HookCloses

\* The step for NeverStranded, provided the headers callback does not throw:
\* whatever leaves a slot idle either starts a retry timer or closes.
LEMMA NextNeverStranded ==
    ASSUME ~HeadersMayThrow, TypeOK, NeverStranded, [Next]_vars
    PROVE  NeverStranded'
<1> SUFFICES ASSUME ~closedByClient', ~httpClosed'
             PROVE  Busy' # {} \/ retryTimers' > 0
  BY DEF NeverStranded
<1> DEFINE Occupied(s) == s \in Slot /\ attempt'[s] # "idle"
<1>0. (\E s \in Slot : Occupied(s)) => Busy' # {}
  BY DEF Busy
<1>1. CASE HandleEvent
  <2>1. UNCHANGED <<attempt, retryTimers, closedByClient, httpClosed>>
    BY <1>1, OpenKeepsSlots DEF HandleEvent, Close, StayOpen, HookMayClose, closing
  <2> QED
    BY <2>1 DEF NeverStranded, Busy
<1>2. CASE AppClose
  BY <1>2 DEF AppClose, Close
<1>3. ASSUME NEW s \in Slot, HeadersResolve(s) PROVE Occupied(s)
  BY <1>3, CancelTrackedType DEF HeadersResolve, TypeOK
<1>4. ASSUME NEW s \in Slot, Send(s) PROVE Occupied(s)
  BY <1>4 DEF Send, TypeOK
<1>5. ASSUME NEW s \in Slot, AttemptFails(s) \/ UnexpectedStatus(s) PROVE retryTimers' > 0
  BY <1>5 DEF AttemptFails, UnexpectedStatus, HandleError, Close, StayOpen, closing, TypeOK
<1>6. ASSUME NEW s \in Slot, ErrorResponse(s) PROVE Occupied(s)
  BY <1>6, CancelTrackedType DEF ErrorResponse, TypeOK
<1>7. ASSUME NEW s \in Slot, OkResponse(s) PROVE Occupied(s)
  BY <1>7, CancelTrackedType DEF OkResponse, TypeOK
<1>8. ASSUME NEW s \in Slot, ReceiveChunk(s) PROVE Occupied(s)
  BY <1>8 DEF ReceiveChunk
<1>9. ASSUME NEW s \in Slot, StreamEnds(s) PROVE retryTimers' > 0
  BY <1>9 DEF StreamEnds, StayOpen, closing, TypeOK
<1>10. ASSUME NEW s \in Slot, StreamError(s) PROVE retryTimers' > 0
  BY <1>10 DEF StreamError, HandleError, Close, StayOpen, closing, TypeOK
<1>11. ASSUME NEW s \in Slot,
              RetryTimerFires(s) \/ HeartbeatTimerFires(s) \/ Reconnect(s)
       PROVE  Occupied(s)
  BY <1>11 DEF RetryTimerFires, HeartbeatTimerFires, Reconnect, Connect, TypeOK
<1>12. CASE UNCHANGED vars
  BY <1>12 DEF vars, source, closing, NeverStranded, Busy
<1> HIDE DEF Occupied
<1> QED
  BY <1>0, <1>1, <1>2, <1>3, <1>4, <1>5, <1>6, <1>7, <1>8, <1>9, <1>10, <1>11, <1>12
     DEF Next, HeadersThrow

\* As long as the headers callback does not throw, an open source always has a
\* call of _connect, a stream or a retry under way, however its heartbeat
\* timer, its retry timers, its streams and the application interleave.
THEOREM NeverStrandedCorrect == ~HeadersMayThrow => (Spec => []NeverStranded)
<1> SUFFICES ASSUME ~HeadersMayThrow PROVE Spec => []NeverStranded
  OBVIOUS
<1>1. Init => NeverStranded
  BY DEF Init, NeverStranded, Busy
<1>2. TypeOK /\ NeverStranded /\ [Next]_vars => NeverStranded'
  BY NextNeverStranded
<1> QED
  BY <1>1, <1>2, TypeCorrect, PTL DEF Spec

-----------------------------------------------------------------------------
(* Connections, and what overlapping calls cost *)

\* The calls that have already cancelled the tracked subscription.
Past == {s \in Slot : attempt[s] \in {"cancelling", "sending", "errorBody"}}

\* The streams nobody will cancel: those _requestStream has forgotten and, once
\* a call is past its cancellation, the one it holds as well.
Surplus == {s \in Live : s # requestStream \/ Past # {}}

\* The inductive invariant: a stream nobody will cancel, and a call or a timer
\* beyond the first, each stand for one overlap.
OverlapInv ==
    overlaps < OverlapCap =>
        /\ Cardinality(Surplus) <= overlaps
        /\ Work > 0 => Cardinality(Surplus) + Work <= overlaps + 1

\* Sets of slots are finite, and their sizes follow their elements.
LEMMA SlotSets ==
    ASSUME NEW S \in SUBSET Slot
    PROVE  /\ IsFiniteSet(S) /\ Cardinality(S) \in Nat
           /\ \A T \in SUBSET S : Cardinality(T) <= Cardinality(S)
           /\ \A s \in Slot : Cardinality(S \cup {s}) <= Cardinality(S) + 1
           /\ \A s \in S : Cardinality(S \ {s}) = Cardinality(S) - 1
           /\ S # {} => Cardinality(S) > 0
<1>1. IsFiniteSet(S) /\ Cardinality(S) \in Nat
  BY FS_Subset, FS_CardinalityType, ConstantsAssumption
<1>2. \A T \in SUBSET S : Cardinality(T) <= Cardinality(S)
  BY <1>1, FS_Subset
<1>3. \A s \in Slot : Cardinality(S \cup {s}) <= Cardinality(S) + 1
  BY <1>1, FS_AddElement
<1>4. \A s \in S : Cardinality(S \ {s}) = Cardinality(S) - 1
  BY <1>1, FS_RemoveElement
<1>5. S # {} => Cardinality(S) > 0
  BY <1>1, FS_EmptySet
<1> QED
  BY <1>1, <1>2, <1>3, <1>4, <1>5

\* The sizes the invariant speaks of are numbers, before and after a step.
LEMMA WorkType ==
    ASSUME TypeOK, TypeOK'
    PROVE  /\ Calls \in SUBSET Slot /\ Surplus \in SUBSET Slot
           /\ Calls' \in SUBSET Slot /\ Surplus' \in SUBSET Slot
           /\ Cardinality(Calls) \in Nat /\ Cardinality(Surplus) \in Nat
           /\ Cardinality(Calls') \in Nat /\ Cardinality(Surplus') \in Nat
           /\ Work \in Nat /\ Work' \in Nat
           /\ Work = Cardinality(Calls) + retryTimers
           /\ Work' = Cardinality(Calls') + retryTimers'
           /\ retryTimers \in Nat /\ retryTimers' \in Nat
           /\ overlaps \in Nat /\ overlaps' \in Nat /\ OverlapCap \in Nat
<1>1. /\ Calls \in SUBSET Slot /\ Surplus \in SUBSET Slot
      /\ Calls' \in SUBSET Slot /\ Surplus' \in SUBSET Slot
  BY DEF Calls, Busy, Surplus, Live
<1>2. /\ Cardinality(Calls) \in Nat /\ Cardinality(Surplus) \in Nat
      /\ Cardinality(Calls') \in Nat /\ Cardinality(Surplus') \in Nat
  BY <1>1, SlotSets
<1> QED
  BY <1>1, <1>2, ConstantsAssumption DEF Work, TypeOK

\* A step that neither adds work nor leaves a stream behind.
LEMMA NoMoreWork ==
    ASSUME TypeOK, TypeOK', OverlapInv, overlaps' = overlaps,
           Surplus' \subseteq Surplus,
           Work' <= Work
    PROVE  OverlapInv'
<1>1. Cardinality(Surplus') <= Cardinality(Surplus)
  BY WorkType, SlotSets
<1> QED
  BY <1>1, WorkType DEF OverlapInv

\* A step that adds one call or one timer, and records the overlap.
LEMMA OneMoreWork ==
    ASSUME TypeOK, TypeOK', OverlapInv, NoteOverlap,
           Surplus' \subseteq Surplus,
           Work' <= Work + 1
    PROVE  OverlapInv'
<1>1. Cardinality(Surplus') <= Cardinality(Surplus)
  BY WorkType, SlotSets
<1> QED
  BY <1>1, WorkType DEF OverlapInv, NoteOverlap

\* A step that turns no slot live, keeps _requestStream, and moves no call past
\* its cancellation unless the tracked stream is gone.
LEMMA NoNewStream ==
    ASSUME UNCHANGED requestStream,
           \A t \in Slot : attempt'[t] = "live" => attempt[t] = "live",
           \/ \A t \in Slot : attempt'[t] \in {"cancelling", "sending", "errorBody"} =>
                              attempt[t] \in {"cancelling", "sending", "errorBody"}
           \/ \E t \in Slot : attempt[t] \in {"cancelling", "sending", "errorBody"}
           \/ \A t \in Slot : attempt'[t] = "live" => t # requestStream
    PROVE  Surplus' \subseteq Surplus
  BY DEF Surplus, Live, Past

\* What closing the source, from a hook or not, leaves of the slots.
LEMMA HookSlots ==
    ASSUME TypeOK
    PROVE  /\ AfterHook \in [Slot -> AttemptState]
           /\ CancelTracked \in [Slot -> AttemptState]
           /\ \A t \in Slot : AfterHook[t] \in {attempt[t], "idle"}
           /\ \A t \in Slot : CancelTracked[t] \in {attempt[t], "idle"}
           /\ \A t \in Slot : CancelTracked[t] = "live" => t # requestStream
           /\ \A t \in Slot : attempt[t] # "live" =>
                                AfterHook[t] = attempt[t] /\ CancelTracked[t] = attempt[t]
  BY CancelTrackedType DEF AfterHook, CancelTracked, TypeOK

\* A step that only frees slots, or moves them on without a new stream.
LEMMA FewerCalls ==
    ASSUME TypeOK, TypeOK', UNCHANGED retryTimers,
           \A t \in Slot : attempt'[t] \notin {"idle", "live"} => attempt[t] \notin {"idle", "live"}
    PROVE  Work' <= Work
<1>1. Calls' \subseteq Calls
  BY DEF Calls, Busy, Live
<1>2. Cardinality(Calls') <= Cardinality(Calls)
  BY <1>1, WorkType, SlotSets
<1> QED
  BY <1>2, WorkType

\* A step in which a call of _connect ends, for a retry timer at most.
LEMMA CallEnds ==
    ASSUME TypeOK, TypeOK', retryTimers' <= retryTimers + 1,
           NEW s \in Slot, attempt[s] \notin {"idle", "live"}, attempt'[s] \in {"idle", "live"},
           \A t \in Slot : attempt'[t] \notin {"idle", "live"} => attempt[t] \notin {"idle", "live"}
    PROVE  /\ Work' <= Work /\ Work > 0
           /\ UNCHANGED retryTimers => Work' <= Work - 1
<1>1. Calls' \subseteq Calls \ {s} /\ s \in Calls
  BY DEF Calls, Busy, Live
<1>2. Cardinality(Calls') <= Cardinality(Calls \ {s})
  <2>1. Calls \ {s} \in SUBSET Slot
    BY WorkType
  <2> QED
    BY <1>1, <2>1, SlotSets
<1>3. Cardinality(Calls \ {s}) = Cardinality(Calls) - 1 /\ Cardinality(Calls) > 0
  BY <1>1, WorkType, SlotSets
<1> QED
  BY <1>2, <1>3, WorkType

\* A step that starts a call of _connect.
LEMMA CallStarts ==
    ASSUME TypeOK, TypeOK',
           NEW s \in Slot, NEW isRetry \in BOOLEAN, Connect(s, isRetry)
    PROVE  /\ Cardinality(Calls') <= Cardinality(Calls) + 1
           /\ UNCHANGED requestStream => Surplus' \subseteq Surplus
<1>1. attempt' = [attempt EXCEPT ![s] = "headers"] /\ attempt \in [Slot -> AttemptState]
  BY DEF Connect, TypeOK
<1>2. Calls' \subseteq Calls \cup {s}
  BY <1>1 DEF Calls, Busy, Live
<1>3. Calls \cup {s} \in SUBSET Slot
  BY WorkType
<1>4. Cardinality(Calls') <= Cardinality(Calls) + 1
  <2>1. Cardinality(Calls') <= Cardinality(Calls \cup {s})
    BY <1>2, <1>3, SlotSets
  <2>2. Cardinality(Calls \cup {s}) <= Cardinality(Calls) + 1
    BY WorkType, SlotSets
  <2>3. Cardinality(Calls \cup {s}) \in Nat
    BY <1>3, SlotSets
  <2> QED
    BY <2>1, <2>2, <2>3, WorkType
<1>5. UNCHANGED requestStream => Surplus' \subseteq Surplus
  <2>1. \A t \in Slot : attempt'[t] = "live" => attempt[t] = "live"
    BY <1>1
  <2>2. \A t \in Slot : attempt'[t] \in {"cancelling", "sending", "errorBody"} =>
                        attempt[t] \in {"cancelling", "sending", "errorBody"}
    BY <1>1
  <2> QED
    BY <2>1, <2>2, NoNewStream
<1> QED
  BY <1>4, <1>5

\* _handleError starts at most one timer, and only while a retry is left.
LEMMA HandleErrorStarts ==
    ASSUME TypeOK, HandleError
    PROVE  \/ UNCHANGED retryTimers
           \/ ~RetriesSpent /\ retryTimers' = retryTimers + 1
  BY DEF HandleError

\* A request is answered: the call becomes the tracked stream, and the stream
\* that was tracked before, if it still is open, becomes an orphan.
LEMMA OkResponseOverlap ==
    ASSUME TypeOK, TypeOK', OverlapInv, NEW s \in Slot, OkResponse(s)
    PROVE  OverlapInv'
<1>1. /\ attempt[s] = "sending" /\ attempt' = [AfterHook EXCEPT ![s] = "live"]
      /\ requestStream' = s
      /\ UNCHANGED <<retryTimers, overlaps>>
  BY DEF OkResponse
<1>2. attempt'[s] = "live" /\ \A t \in Slot : t # s => attempt'[t] \in {attempt[t], "idle"}
  BY <1>1, HookSlots
<1>3. Surplus = Live /\ Live \in SUBSET Slot
  BY <1>1 DEF Surplus, Past, Live
<1>4. Work' <= Work - 1 /\ Work > 0
  <2>1. \A t \in Slot : attempt'[t] \notin {"idle", "live"} => attempt[t] \notin {"idle", "live"}
    BY <1>2
  <2> QED
    BY <1>1, <1>2, <2>1, CallEnds, WorkType
<1>5. CASE Past' = {}
  <2>1. Surplus' \subseteq Surplus
    BY <1>1, <1>2, <1>3, <1>5 DEF Surplus, Live
  <2>2. Cardinality(Surplus') <= Cardinality(Surplus)
    BY <2>1, WorkType, SlotSets
  <2> QED
    BY <1>1, <1>4, <2>2, WorkType DEF OverlapInv
<1>6. CASE Past' # {}
  <2>1. Surplus' \subseteq Surplus \cup {s} /\ Surplus \cup {s} \in SUBSET Slot
    BY <1>2, <1>3 DEF Surplus, Live
  <2>2. Cardinality(Surplus \cup {s}) <= Cardinality(Surplus) + 1
    BY WorkType, SlotSets
  <2>3. Cardinality(Surplus') <= Cardinality(Surplus \cup {s}) /\ Cardinality(Surplus \cup {s}) \in Nat
    BY <2>1, SlotSets
  <2>4. Work' > 0
    <3>1. Calls' # {}
      BY <1>6 DEF Past, Calls, Busy, Live
    <3> QED
      BY <3>1, WorkType, SlotSets
  <2> QED
    BY <1>1, <1>4, <2>2, <2>3, <2>4, WorkType DEF OverlapInv
<1> QED
  BY <1>5, <1>6

LEMMA NextOverlapInv ==
    ASSUME TypeOK, TypeOK', OverlapInv, [Next]_vars
    PROVE  OverlapInv'
<1> DEFINE Early == {"cancelling", "sending", "errorBody"}
           NoStream == /\ UNCHANGED requestStream
                       /\ \A t \in Slot : attempt'[t] = "live" => attempt[t] = "live"
                       /\ \A t \in Slot : attempt'[t] \in Early => attempt[t] \in Early
           NoCall == \A t \in Slot : attempt'[t] \notin {"idle", "live"} => attempt[t] \notin {"idle", "live"}
<1>0. NoStream => Surplus' \subseteq Surplus
  BY NoNewStream
<1>1. CASE HandleEvent \/ AppClose
  <2>1. /\ UNCHANGED <<requestStream, retryTimers, overlaps>>
        /\ \A t \in Slot : attempt'[t] \in {attempt[t], "idle"}
    BY <1>1, HookSlots DEF HandleEvent, AppClose
  <2>2. NoStream /\ NoCall
    BY <2>1
  <2> QED
    BY <1>0, <2>1, <2>2, FewerCalls, NoMoreWork
<1>2. ASSUME NEW s \in Slot, HeadersResolve(s) PROVE OverlapInv'
  <2>1. /\ UNCHANGED <<requestStream, retryTimers, overlaps>>
        /\ attempt[s] = "headers" /\ attempt' = [CancelTracked EXCEPT ![s] = "cancelling"]
    BY <1>2 DEF HeadersResolve
  <2>2. /\ \A t \in Slot : attempt'[t] = "live" => attempt[t] = "live" /\ t # requestStream
        /\ NoCall
    BY <2>1, HookSlots
  <2>3. Surplus' \subseteq Surplus
    BY <2>1, <2>2, NoNewStream
  <2> QED
    BY <2>1, <2>2, <2>3, FewerCalls, NoMoreWork
<1>3. ASSUME NEW s \in Slot, HeadersThrow(s) \/ Send(s) \/ ErrorResponse(s) \/ ReceiveChunk(s)
      PROVE  OverlapInv'
  <2>1. UNCHANGED <<requestStream, retryTimers, overlaps>>
    BY <1>3 DEF HeadersThrow, Send, ErrorResponse, ReceiveChunk
  <2>2. NoStream /\ NoCall
    BY <1>3, HookSlots DEF HeadersThrow, Send, ErrorResponse, ReceiveChunk, TypeOK
  <2> QED
    BY <1>0, <2>1, <2>2, FewerCalls, NoMoreWork
<1>4. ASSUME NEW s \in Slot, AttemptFails(s) \/ UnexpectedStatus(s) PROVE OverlapInv'
  <2>1. /\ UNCHANGED <<requestStream, overlaps>>
        /\ attempt[s] \in Early /\ attempt' = [AfterHook EXCEPT ![s] = "idle"]
        /\ UNCHANGED retryTimers \/ retryTimers' = retryTimers + 1
    BY <1>4, HandleErrorStarts DEF AttemptFails, UnexpectedStatus
  <2>2. NoStream /\ NoCall /\ attempt'[s] = "idle"
    BY <2>1, HookSlots
  <2>3. retryTimers' <= retryTimers + 1
    BY <2>1, WorkType
  <2>4. Work' <= Work
    BY <2>1, <2>2, <2>3, CallEnds
  <2> QED
    BY <1>0, <2>1, <2>2, <2>4, NoMoreWork
<1>5. ASSUME NEW s \in Slot, OkResponse(s) PROVE OverlapInv'
  BY <1>5, OkResponseOverlap
<1>6. ASSUME NEW s \in Slot, StreamEnds(s) \/ StreamError(s) PROVE OverlapInv'
  <2>1. /\ UNCHANGED requestStream /\ NoteOverlap
        /\ \A t \in Slot : attempt'[t] \in {attempt[t], "idle"}
        /\ UNCHANGED retryTimers \/ retryTimers' = retryTimers + 1
    BY <1>6, HandleErrorStarts, HookSlots DEF StreamEnds, StreamError, TypeOK
  <2>2. NoStream /\ NoCall
    BY <2>1
  <2>3. Work' <= Work + 1
    <3>1. Calls' \subseteq Calls
      BY <2>2 DEF Calls, Busy, Live
    <3>2. Cardinality(Calls') <= Cardinality(Calls)
      BY <3>1, WorkType, SlotSets
    <3> QED
      BY <2>1, <3>2, WorkType
  <2> QED
    BY <1>0, <2>1, <2>2, <2>3, OneMoreWork
<1>7. ASSUME NEW s \in Slot, RetryTimerFires(s) PROVE OverlapInv'
  <2>1. /\ UNCHANGED <<requestStream, overlaps>> /\ Connect(s, TRUE)
        /\ retryTimers > 0 /\ retryTimers' = retryTimers - 1
    BY <1>7 DEF RetryTimerFires
  <2>2. Cardinality(Calls') <= Cardinality(Calls) + 1 /\ Surplus' \subseteq Surplus
    BY <2>1, CallStarts
  <2>3. Work' <= Work
    BY <2>1, <2>2, WorkType
  <2> QED
    BY <2>1, <2>2, <2>3, NoMoreWork
<1>8. ASSUME NEW s \in Slot, HeartbeatTimerFires(s) \/ Reconnect(s) PROVE OverlapInv'
  <2>1. /\ UNCHANGED <<requestStream, retryTimers>> /\ NoteOverlap
        /\ Connect(s, FALSE) \/ Connect(s, TRUE)
    BY <1>8 DEF HeartbeatTimerFires, Reconnect
  <2>2. Cardinality(Calls') <= Cardinality(Calls) + 1 /\ Surplus' \subseteq Surplus
    BY <2>1, CallStarts
  <2>3. Work' <= Work + 1
    BY <2>1, <2>2, WorkType
  <2> QED
    BY <2>1, <2>2, <2>3, OneMoreWork
<1>9. CASE UNCHANGED vars
  BY <1>9 DEF vars, source, OverlapInv, Surplus, Past, Work, Calls, Busy, Live
<1> QED
  BY <1>1, <1>2, <1>3, <1>4, <1>5, <1>6, <1>7, <1>8, <1>9 DEF Next

LEMMA InitOverlapInv == Init => OverlapInv
<1> SUFFICES ASSUME Init PROVE OverlapInv
  OBVIOUS
<1>1. PICK s \in Slot : attempt = [t \in Slot |-> IF t = s THEN "headers" ELSE "idle"]
  BY DEF Init
<1>2. Surplus = {} /\ Calls = {s}
  BY <1>1 DEF Surplus, Live, Calls, Busy
<1>3. Cardinality(Surplus) = 0
  BY <1>2, FS_EmptySet
<1>4. Cardinality(Calls) = 1
  BY <1>2, FS_Singleton
<1> QED
  BY <1>3, <1>4 DEF OverlapInv, Work, Init

\* Every connection is a call past its request or a stream nobody will cancel,
\* but for one.
LEMMA OverlapInvSuffices == TypeOK /\ OverlapInv => SingleConnection
<1> SUFFICES ASSUME TypeOK, OverlapInv, overlaps < OverlapCap
             PROVE  Cardinality(Connections) <= 1 + overlaps
  BY DEF SingleConnection
<1>1. /\ Calls \in SUBSET Slot /\ Surplus \in SUBSET Slot /\ Connections \in SUBSET Slot
      /\ overlaps \in Nat /\ retryTimers \in Nat
  BY DEF Calls, Busy, Live, Surplus, Connections, TypeOK
<1>2. /\ IsFiniteSet(Calls) /\ Cardinality(Calls) \in Nat
      /\ IsFiniteSet(Surplus) /\ Cardinality(Surplus) \in Nat
      /\ IsFiniteSet(Connections) /\ Cardinality(Connections) \in Nat
  BY <1>1, SlotSets
<1>3. CASE Past = {}
  <2>1. Connections \subseteq Surplus \cup {requestStream}
    BY <1>3 DEF Connections, Surplus, Past, Live
  <2>2. /\ IsFiniteSet(Surplus \cup {requestStream})
        /\ Cardinality(Surplus \cup {requestStream}) <= Cardinality(Surplus) + 1
        /\ Cardinality(Surplus \cup {requestStream}) \in Nat
    <3>1. /\ IsFiniteSet(Surplus \cup {requestStream})
          /\ Cardinality(Surplus \cup {requestStream}) =
                IF requestStream \in Surplus THEN Cardinality(Surplus) ELSE Cardinality(Surplus) + 1
      BY <1>2, FS_AddElement
    <3> QED
      BY <1>2, <3>1
  <2>3. Cardinality(Connections) <= Cardinality(Surplus \cup {requestStream})
    BY <2>1, <2>2, FS_Subset
  <2> QED
    BY <1>1, <1>2, <2>2, <2>3 DEF OverlapInv
<1>4. CASE Past # {}
  <2>1. Connections \subseteq Surplus \cup Calls /\ Calls # {}
    BY <1>4 DEF Connections, Surplus, Past, Calls, Busy, Live
  <2>2. /\ IsFiniteSet(Surplus \cup Calls)
        /\ Cardinality(Surplus \cup Calls) =
              Cardinality(Surplus) + Cardinality(Calls) - Cardinality(Surplus \cap Calls)
    BY <1>2, FS_Union
  <2>3. Surplus \cap Calls \in SUBSET Slot
    BY <1>1
  <2>4. Cardinality(Surplus \cap Calls) \in Nat
    BY <2>3, SlotSets
  <2>5. Cardinality(Connections) <= Cardinality(Surplus \cup Calls)
    BY <2>1, <2>2, FS_Subset
  <2>6. Cardinality(Calls) > 0 /\ Work = Cardinality(Calls) + retryTimers
    BY <1>1, <2>1, SlotSets DEF Work
  <2> QED
    BY <1>1, <1>2, <2>2, <2>4, <2>5, <2>6 DEF OverlapInv
<1> QED
  BY <1>3, <1>4

\* A source has one connection at a time, and at most one more per overlap:
\* with heartbeats, failing bodies, throwing callbacks, hooks that close it and
\* an application that reconnects, for any number of slots and any retry limit.
THEOREM SingleConnectionCorrect == Spec => []SingleConnection
<1>1. TypeOK /\ TypeOK' /\ OverlapInv /\ [Next]_vars => OverlapInv'
  BY NextOverlapInv
<1> QED
  BY <1>1, InitOverlapInv, OverlapInvSuffices, TypeCorrect, PTL DEF Spec

-----------------------------------------------------------------------------
(* The retry limit *)

\* A pending retry has been paid for: the retries made and those planned stay
\* within the limit and the overlaps.
RetryInv ==
    MaxRetryCount # NoLimit /\ overlaps < OverlapCap =>
        /\ retryCount <= MaxRetryCount + overlaps
        /\ retryTimers > 0 => /\ MaxRetryCount > 0
                              /\ retryCount + retryTimers <= MaxRetryCount + overlaps

\* A retry planned while a retry is left: the timers are at most one per
\* overlap and one more.
LEMMA PlannedRetry ==
    ASSUME TypeOK, TypeOK', OverlapInv', RetryInv, overlaps' >= overlaps,
           ~RetriesSpent, retryTimers' = retryTimers + 1, UNCHANGED retryCount
    PROVE  RetryInv'
<1> SUFFICES ASSUME MaxRetryCount # NoLimit, overlaps' < OverlapCap
             PROVE  /\ retryCount' <= MaxRetryCount + overlaps'
                    /\ retryTimers' > 0 => /\ MaxRetryCount > 0
                                           /\ retryCount' + retryTimers' <= MaxRetryCount + overlaps'
  BY DEF RetryInv
<1>1. retryCount < MaxRetryCount /\ retryCount \in Nat /\ MaxRetryCount \in Nat
  BY ConstantsAssumption DEF RetriesSpent, TypeOK
<1>2. Work' <= overlaps' + 1
  BY WorkType DEF OverlapInv
<1> QED
  BY <1>1, <1>2, WorkType

\* A step that plans and counts no retry.
LEMMA NoRetry ==
    ASSUME TypeOK, TypeOK', RetryInv, overlaps' >= overlaps,
           UNCHANGED <<retryTimers, retryCount>>
    PROVE  RetryInv'
<1> SUFFICES ASSUME MaxRetryCount # NoLimit, overlaps' < OverlapCap
             PROVE  /\ retryCount' <= MaxRetryCount + overlaps'
                    /\ retryTimers' > 0 => /\ MaxRetryCount > 0
                                           /\ retryCount' + retryTimers' <= MaxRetryCount + overlaps'
  BY DEF RetryInv
<1>1. overlaps < OverlapCap /\ MaxRetryCount \in Nat /\ retryCount \in Nat
  BY WorkType, ConstantsAssumption DEF TypeOK
<1> QED
  BY <1>1, WorkType DEF RetryInv

LEMMA NextRetryInv ==
    ASSUME ~AppReconnects, TypeOK, TypeOK', OverlapInv', RetryInv, [Next]_vars
    PROVE  RetryInv'
<1>0. NoteOverlap => overlaps' >= overlaps
  BY WorkType DEF NoteOverlap
<1>1. CASE HandleEvent \/ AppClose
  <2>1. UNCHANGED <<retryTimers, retryCount, overlaps>>
    BY <1>1 DEF HandleEvent, AppClose
  <2> QED
    BY <2>1, NoRetry, WorkType
<1>2. ASSUME NEW s \in Slot,
             HeadersResolve(s) \/ HeadersThrow(s) \/ Send(s) \/ ErrorResponse(s) \/ ReceiveChunk(s)
      PROVE  RetryInv'
  <2>1. UNCHANGED <<retryTimers, retryCount, overlaps>>
    BY <1>2 DEF HeadersResolve, HeadersThrow, Send, ErrorResponse, ReceiveChunk
  <2> QED
    BY <2>1, NoRetry, WorkType
<1>3. ASSUME NEW s \in Slot, AttemptFails(s) \/ UnexpectedStatus(s) PROVE RetryInv'
  <2>1. /\ UNCHANGED <<retryCount, overlaps>>
        /\ UNCHANGED retryTimers \/ (~RetriesSpent /\ retryTimers' = retryTimers + 1)
    BY <1>3, HandleErrorStarts DEF AttemptFails, UnexpectedStatus
  <2> QED
    BY <2>1, NoRetry, PlannedRetry, WorkType
<1>4. ASSUME NEW s \in Slot, StreamEnds(s) \/ StreamError(s) PROVE RetryInv'
  <2>1. /\ UNCHANGED retryCount /\ NoteOverlap
        /\ UNCHANGED retryTimers \/ (~RetriesSpent /\ retryTimers' = retryTimers + 1)
    BY <1>4, HandleErrorStarts DEF StreamEnds, StreamError
  <2> QED
    BY <1>0, <2>1, NoRetry, PlannedRetry
<1>5. ASSUME NEW s \in Slot, OkResponse(s) PROVE RetryInv'
  <2>1. retryCount' = 0 /\ UNCHANGED <<retryTimers, overlaps>>
    BY <1>5 DEF OkResponse
  <2>2. overlaps' < OverlapCap /\ retryTimers' > 0 => retryTimers' <= overlaps' + 1
    BY WorkType DEF OverlapInv
  <2> QED
    BY <2>1, <2>2, WorkType, ConstantsAssumption DEF RetryInv, TypeOK
<1>6. ASSUME NEW s \in Slot, RetryTimerFires(s) PROVE RetryInv'
  <2>1. /\ retryTimers > 0 /\ retryTimers' = retryTimers - 1 /\ UNCHANGED overlaps
        /\ retryCount' \in {retryCount, retryCount + 1}
    BY <1>6 DEF RetryTimerFires, Connect
  <2>2. retryCount \in Nat /\ (MaxRetryCount # NoLimit => MaxRetryCount \in Nat)
    BY ConstantsAssumption DEF TypeOK
  <2> QED
    BY <2>1, <2>2, WorkType DEF RetryInv
<1>7. ASSUME NEW s \in Slot, HeartbeatTimerFires(s) PROVE RetryInv'
  <2>1. UNCHANGED <<retryTimers, retryCount>> /\ NoteOverlap
    BY <1>7 DEF HeartbeatTimerFires, Connect
  <2> QED
    BY <1>0, <2>1, NoRetry
<1>8. CASE UNCHANGED vars
  BY <1>8 DEF vars, source, RetryInv
<1> QED
  BY <1>1, <1>2, <1>3, <1>4, <1>5, <1>6, <1>7, <1>8 DEF Next, Reconnect

\* The retry limit is kept, up to the overlaps, whatever heartbeats, failing
\* bodies, callbacks and closes do to the source: the two places that compare
\* _maxRetryCount do so before each retry.  reconnect(), which counts as a retry
\* of the application's own making, is left out.
THEOREM RetryBudgetCorrect == ~AppReconnects => (Spec => []RetryBudget)
<1> SUFFICES ASSUME ~AppReconnects PROVE Spec => []RetryBudget
  OBVIOUS
<1>1. Init => RetryInv
  BY ConstantsAssumption DEF Init, RetryInv
<1>2. TypeOK /\ TypeOK' /\ OverlapInv /\ [Next]_vars => OverlapInv'
  BY NextOverlapInv
<1>3. TypeOK /\ TypeOK' /\ OverlapInv' /\ RetryInv /\ [Next]_vars => RetryInv'
  BY NextRetryInv
<1>4. RetryInv => RetryBudget
  BY DEF RetryInv, RetryBudget
<1> QED
  BY <1>1, <1>2, <1>3, <1>4, InitOverlapInv, TypeCorrect, PTL DEF Spec

-----------------------------------------------------------------------------
(* The last request resumes after the last event *)

\* In a source nobody closed, the events of a chunk come from a stream that is
\* still live: no request is then the only thing under way.
LoopIsLive == loop # << >> /\ ~closedByClient => \E t \in Slot : attempt[t] = "live"

\* ResumesFromLatest, said of each request whose id is behind: something else
\* is under way, that drops it only for a retry or a close.
BehindIsNotAlone ==
    \A s \in Slot :
        attempt[s] \in {"cancelling", "sending"} /\ sentId[s] # lastEventId =>
            \/ closedByClient \/ httpClosed \/ retryTimers > 0
            \/ \E t \in Slot : t # s /\ attempt[t] # "idle"

ResumeInv == LoopIsLive /\ BehindIsNotAlone

\* The events of a chunk move the id on while their stream is live.
LEMMA HandleEventResumeInv ==
    ASSUME ResumeInv, HandleEvent
    PROVE  ResumeInv'
<1>1. closedByClient => closedByClient'
  BY DEF HandleEvent, Close, HookMayClose, StayOpen, closing
<1>2. ASSUME ~closedByClient'
      PROVE  attempt' = attempt /\ ~closedByClient
  BY <1>1, <1>2, OpenKeepsSlots DEF HandleEvent, Close
<1>3. ASSUME ~closedByClient'
      PROVE  \E t \in Slot : attempt'[t] = "live"
  BY <1>2, <1>3 DEF HandleEvent, ResumeInv, LoopIsLive
<1>4. LoopIsLive'
  BY <1>3 DEF LoopIsLive
<1>5. BehindIsNotAlone'
  <2> SUFFICES ASSUME NEW s \in Slot, attempt'[s] \in {"cancelling", "sending"}, ~closedByClient'
               PROVE  \E t \in Slot : t # s /\ attempt'[t] # "idle"
    BY DEF BehindIsNotAlone
  <2> QED
    BY <1>3
<1> QED
  BY <1>4, <1>5 DEF ResumeInv

\* A slot that becomes idle in an open source leaves a retry timer behind.
LEMMA NextResumeInv ==
    ASSUME ~HeadersMayThrow, TypeOK, ResumeInv, [Next]_vars
    PROVE  ResumeInv'
<1>1. CASE HandleEvent
  BY <1>1, HandleEventResumeInv
<1>2. CASE UNCHANGED vars
  BY <1>2 DEF vars, source, closing, ResumeInv, LoopIsLive, BehindIsNotAlone
<1>3. CASE loop = << >> /\ AppClose
  BY <1>3 DEF AppClose, Close, ResumeInv, LoopIsLive, BehindIsNotAlone
<1>4. ASSUME NEW u \in Slot, loop = << >>, ReceiveChunk(u)
      PROVE  ResumeInv'
  BY <1>4 DEF ReceiveChunk, closing, ResumeInv, LoopIsLive, BehindIsNotAlone
<1> DEFINE Behind(s) == attempt'[s] \in {"cancelling", "sending"} /\ sentId'[s] # lastEventId'
           Alone(s) == ~closedByClient' /\ ~httpClosed' /\ ~(retryTimers' > 0)
                       /\ \A t \in Slot : t = s \/ attempt'[t] = "idle"
<1>5. ASSUME loop' = << >>, \A s \in Slot : ~(Behind(s) /\ Alone(s))
      PROVE  ResumeInv'
  BY <1>5 DEF ResumeInv, LoopIsLive, BehindIsNotAlone
<1>6. ASSUME NEW u \in Slot, HeadersResolve(u), loop = << >>
      PROVE  ResumeInv'
  <2>1. attempt'[u] = "cancelling" /\ sentId'[u] = lastEventId' /\ loop' = << >>
    BY <1>6, CancelTrackedType DEF HeadersResolve, TypeOK
  <2> QED
    BY <1>5, <2>1
<1>7. ASSUME NEW u \in Slot, Send(u), loop = << >>
      PROVE  ResumeInv'
  BY <1>5, <1>7 DEF Send, closing, TypeOK, ResumeInv, BehindIsNotAlone
<1>8. ASSUME NEW u \in Slot, AttemptFails(u) \/ UnexpectedStatus(u) \/ StreamError(u), loop = << >>
      PROVE  ResumeInv'
  <2>1. ~closedByClient' => retryTimers' > 0
    BY <1>8 DEF AttemptFails, UnexpectedStatus, StreamError, HandleError, Close, StayOpen, closing, TypeOK
  <2>2. loop' = << >>
    BY <1>8 DEF AttemptFails, UnexpectedStatus, StreamError
  <2> QED
    BY <1>5, <2>1, <2>2
<1>9. ASSUME NEW u \in Slot, StreamEnds(u), loop = << >>
      PROVE  ResumeInv'
  <2>1. ~closedByClient' /\ ~httpClosed' => retryTimers' > 0
    BY <1>9 DEF StreamEnds, StayOpen, closing, TypeOK
  <2>2. loop' = << >>
    BY <1>9 DEF StreamEnds
  <2> QED
    BY <1>5, <2>1, <2>2
<1>10. ASSUME NEW u \in Slot, ErrorResponse(u) \/ OkResponse(u), loop = << >>
       PROVE  ResumeInv'
  <2>1. attempt'[u] \in {"errorBody", "live"} /\ loop' = << >>
    BY <1>10, CancelTrackedType DEF ErrorResponse, OkResponse, TypeOK
  <2> QED
    BY <1>5, <2>1
<1>11. ASSUME NEW u \in Slot, RetryTimerFires(u) \/ HeartbeatTimerFires(u) \/ Reconnect(u), loop = << >>
       PROVE  ResumeInv'
  <2>1. attempt'[u] = "headers" /\ loop' = << >>
    BY <1>11 DEF RetryTimerFires, HeartbeatTimerFires, Reconnect, Connect, TypeOK
  <2> QED
    BY <1>5, <2>1
<1> QED
  BY <1>1, <1>2, <1>3, <1>4, <1>6, <1>7, <1>8, <1>9, <1>10, <1>11 DEF Next, HeadersThrow

\* As long as the headers callback does not throw, a request that is the last
\* thing under way in an open source asks for the events after the last one the
\* application was given, however many calls of _connect ran before it and
\* delivered while it waited: _connect reads lastEventId again after the await.
THEOREM ResumesFromLatestCorrect == ~HeadersMayThrow => (Spec => []ResumesFromLatest)
<1> SUFFICES ASSUME ~HeadersMayThrow PROVE Spec => []ResumesFromLatest
  OBVIOUS
<1>1. Init => ResumeInv
  BY DEF Init, ResumeInv, LoopIsLive, BehindIsNotAlone
<1>2. TypeOK /\ ResumeInv /\ [Next]_vars => ResumeInv'
  BY NextResumeInv
<1>3. TypeOK /\ ResumeInv => ResumesFromLatest
  <2> SUFFICES ASSUME TypeOK, ResumeInv, NEW s \in Slot, attempt[s] \in {"cancelling", "sending"},
                      Busy = {s}, retryTimers = 0, ~closedByClient, ~httpClosed
               PROVE  sentId[s] = lastEventId
    BY DEF ResumesFromLatest
  <2>1. \A t \in Slot : t # s => attempt[t] = "idle"
    BY DEF Busy
  <2> QED
    BY <2>1 DEF ResumeInv, BehindIsNotAlone
<1> QED
  BY <1>1, <1>2, <1>3, TypeCorrect, PTL DEF Spec
=============================================================================
