---------------------------- MODULE DartEventSource ----------------------------
(***************************************************************************)
(* The event stream client of the Dart package: class EventSource of       *)
(* languages/dart/dart-client/lib/sse.dart.                                *)
(*                                                                         *)
(* Every call of _connect() is a coroutine that suspends at each await.    *)
(* Nothing ties two calls together: the constructor, the retry timers, the *)
(* heartbeat timer and reconnect() each start one, and they share the      *)
(* fields of the object.  A slot holds one such call, or the subscription  *)
(* it left behind once the response body is being read.                    *)
(*                                                                         *)
(* Dart runs one callback at a time, so a step of this module is the code  *)
(* between two suspensions.  The loop over the events of one chunk is      *)
(* split into a step per event; nothing else runs while it has events      *)
(* left (variable loop).                                                   *)
(*                                                                         *)
(* The HTTP client, the stream it returns and the server are external:     *)
(* they answer, fail, go silent or end in any order the code allows for.   *)
(* Durations are not modelled: a pending timer may fire at any time.       *)
(***************************************************************************)
EXTENDS Naturals, Sequences, FiniteSets

CONSTANTS
    Slot,             \* room for concurrent calls of _connect (a bound)
    NoSlot,           \* no subscription yet: _requestStream == null
    EventId,          \* ids a server may give to its events
    NoId,             \* no id
    Chunks,           \* sequences of events one read of the stream may yield
    MaxRetryCount,    \* _maxRetryCount, or NoLimit when it is null
    NoLimit,
    RetryCap,         \* retryCount saturates here (a bound)
    OverlapCap,       \* overlaps saturates here (a bound)
    HeartbeatHeaders, \* is a positive heartbeat-interval header sent? a subset of BOOLEAN
    StreamMayError,   \* may a response body report an error before it ends?
    HeadersMayThrow,  \* may the application's headers callback throw?
    AppReconnects,    \* does the application call reconnect()?
    LateBytes         \* may a stream yield bytes it received before its client closed?

Event == [kind : {"message", "raw", "done"}, id : EventId \cup {NoId}]

ASSUME ConstantsAssumption ==
    /\ IsFiniteSet(Slot) /\ Slot # {} /\ NoSlot \notin Slot
    /\ NoId \notin EventId
    /\ Chunks \subseteq Seq(Event)
    /\ NoLimit \notin Nat
    /\ MaxRetryCount \in Nat \cup {NoLimit}
    /\ RetryCap \in Nat /\ OverlapCap \in Nat
    /\ MaxRetryCount # NoLimit => MaxRetryCount <= RetryCap
    /\ HeartbeatHeaders \subseteq BOOLEAN
    /\ {StreamMayError, HeadersMayThrow, AppReconnects, LateBytes} \subseteq BOOLEAN

VARIABLES
    attempt,         \* where each call of _connect is suspended
    sentId,          \* the Last-Event-ID header of its request
    requestStream,   \* the slot whose subscription is in _requestStream
    loop,            \* events of the current chunk still to be handled
    retryTimers,     \* pending Timer(delay, () => _connect(isRetry: true))
    heartbeatArmed,  \* _heartbeatTimer is pending
    heartbeatKnown,  \* _heartbeatTimerMs holds a positive interval
    retryCount,      \* _retryCount
    closedByClient,  \* _closedByClient
    httpClosed,      \* _httpClient.close() was called
    lastEventId,     \* lastEventId
    closeReports,    \* calls of the onClose hook since the last reconnect()
    overlaps         \* history: how often a call of _connect, or a retry timer,
                     \* was started while another one was still under way

heartbeat == <<heartbeatArmed, heartbeatKnown>>
closing == <<closedByClient, httpClosed, closeReports>>
\* The fields of the object; overlaps only records what they went through.
source == <<attempt, sentId, requestStream, loop, retryTimers, heartbeat, retryCount,
            closing, lastEventId>>
vars == <<source, overlaps>>

AttemptState == {"idle", "headers", "cancelling", "sending", "errorBody", "live"}

TypeOK ==
    /\ attempt \in [Slot -> AttemptState]
    /\ sentId \in [Slot -> EventId \cup {NoId}]
    /\ requestStream \in Slot \cup {NoSlot}
    /\ loop \in Seq(Event)
    /\ retryTimers \in Nat
    /\ heartbeatArmed \in BOOLEAN
    /\ heartbeatKnown \in BOOLEAN
    /\ retryCount \in 0..RetryCap
    /\ closedByClient \in BOOLEAN
    /\ httpClosed \in BOOLEAN
    /\ lastEventId \in EventId \cup {NoId}
    /\ closeReports \in 0..2
    /\ overlaps \in 0..OverlapCap

-----------------------------------------------------------------------------
(* Helpers *)

Busy == {s \in Slot : attempt[s] # "idle"}

Live == {s \in Slot : attempt[s] = "live"}

\* What will ask for a stream: the calls of _connect that have none yet, and
\* the retry timers that will make one.
Calls == Busy \ Live
Work == Cardinality(Calls) + retryTimers

\* The connections to the server: a request sent, or a response being read.
Connections == {s \in Slot : attempt[s] \in {"sending", "errorBody", "live"}}

\* Two callbacks that know nothing of each other want a stream each.
NoteOverlap ==
    overlaps' = IF Work > 0 /\ Work' > Work /\ overlaps < OverlapCap THEN overlaps + 1
                                                                       ELSE overlaps

\* The bound on concurrency: one slot is left for each pending retry timer.
RoomForAnother == Cardinality(Busy) + retryTimers < Cardinality(Slot)

\* The synchronous part of _requestStream?.cancel(): no event follows it.
CancelTracked ==
    [s \in Slot |-> IF s = requestStream /\ attempt[s] = "live" THEN "idle" ELSE attempt[s]]

\* Mutant: the limit is compared with < in place of <=.
OneRetryTooMany == MaxRetryCount # NoLimit /\ MaxRetryCount < retryCount

\* Both places that compare _maxRetryCount with _retryCount.
RetriesSpent == MaxRetryCount # NoLimit /\ MaxRetryCount <= retryCount

\* Mutant: close() leaves the HTTP client open.
CloseKeepsHttpClient(times) ==
    /\ closedByClient' = TRUE
    /\ closeReports' = IF closeReports + times > 2 THEN 2 ELSE closeReports + times
    /\ UNCHANGED httpClosed

\* close(), run the given number of times by this step.
Close(times) ==
    /\ closedByClient' = TRUE
    /\ httpClosed' = TRUE
    /\ closeReports' = IF closeReports + times > 2 THEN 2 ELSE closeReports + times

StayOpen == UNCHANGED closing

\* An application hook either returns or calls close() first.
HookMayClose == StayOpen \/ (~closedByClient /\ Close(1))

HookCloses == ~closedByClient /\ closedByClient'

\* What a hook leaves of the calls and subscriptions.
AfterHook == IF HookCloses THEN CancelTracked ELSE attempt

\* _handleError: silent once closed; otherwise the onError hook runs (and may
\* itself call close()), then either the retries are spent and the source
\* closes, or a retry timer is started whatever the hook did.
HandleError ==
    \/ /\ closedByClient
       /\ StayOpen
       /\ UNCHANGED <<retryTimers, heartbeatArmed>>
    \/ /\ ~closedByClient
       /\ RetriesSpent
       /\ \E times \in {1, 2} : Close(times)
       /\ heartbeatArmed' = FALSE
       /\ UNCHANGED retryTimers
    \/ /\ ~closedByClient
       /\ ~RetriesSpent
       /\ HookMayClose
       /\ heartbeatArmed' = (heartbeatArmed /\ ~HookCloses)
       /\ retryTimers' = retryTimers + 1

\* The first, synchronous part of _connect(isRetry).
Connect(s, isRetry) ==
    /\ attempt[s] = "idle"
    /\ sentId' = [sentId EXCEPT ![s] = lastEventId]
    /\ attempt' = [attempt EXCEPT ![s] = "headers"]
    /\ retryCount' = IF isRetry /\ retryCount < RetryCap THEN retryCount + 1
                                                        ELSE retryCount

-----------------------------------------------------------------------------
Init ==
    /\ \E s \in Slot : attempt = [t \in Slot |-> IF t = s THEN "headers" ELSE "idle"]
    /\ requestStream = NoSlot
    /\ loop = << >>
    /\ retryTimers = 0
    /\ heartbeatArmed = FALSE
    /\ heartbeatKnown = FALSE
    /\ retryCount = 0
    /\ closedByClient = FALSE
    /\ httpClosed = FALSE
    /\ lastEventId \in EventId \cup {NoId}   \* given by the application
    /\ sentId = [s \in Slot |-> lastEventId]
    /\ closeReports = 0
    /\ overlaps = 0

\* Mutant: the id is not read again after the headers callback.
HeadersResolveStaleId(s) ==
    /\ attempt[s] = "headers"
    /\ attempt' = [CancelTracked EXCEPT ![s] = "cancelling"]
    /\ UNCHANGED <<sentId, requestStream, loop, retryTimers, heartbeat, retryCount,
                   closing, lastEventId, overlaps>>

\* Mutant: the previous subscription is left open.
HeadersResolveKeepsStream(s) ==
    /\ attempt[s] = "headers"
    /\ attempt' = [attempt EXCEPT ![s] = "cancelling"]
    /\ sentId' = [sentId EXCEPT ![s] = lastEventId]
    /\ UNCHANGED <<requestStream, loop, retryTimers, heartbeat, retryCount, closing,
                   lastEventId, overlaps>>

\* The headers callback answers: the id is read again, and the previous
\* subscription is cancelled before the next await.
HeadersResolve(s) ==
    /\ attempt[s] = "headers"
    /\ attempt' = [CancelTracked EXCEPT ![s] = "cancelling"]
    /\ sentId' = [sentId EXCEPT ![s] = lastEventId]
    /\ UNCHANGED <<requestStream, loop, retryTimers, heartbeat, retryCount, closing,
                   lastEventId, overlaps>>

\* The headers callback throws outside the try block: the call of _connect
\* ends as an unhandled error, with no hook and no retry.
HeadersThrow(s) ==
    /\ HeadersMayThrow
    /\ attempt[s] = "headers"
    /\ attempt' = [attempt EXCEPT ![s] = "idle"]
    /\ UNCHANGED <<sentId, requestStream, loop, retryTimers, heartbeat, retryCount,
                   closing, lastEventId, overlaps>>

\* The cancellation is complete and the request is handed to an open client.
Send(s) ==
    /\ attempt[s] = "cancelling"
    /\ ~httpClosed
    /\ attempt' = [attempt EXCEPT ![s] = "sending"]
    /\ UNCHANGED <<sentId, requestStream, loop, retryTimers, heartbeat, retryCount,
                   closing, lastEventId, overlaps>>

\* The failures that reach the catch block: a client that is closed, a
\* transport error, the timeout, or the ArriError made of an error body.
AttemptFails(s) ==
    /\ \/ attempt[s] = "cancelling" /\ httpClosed
       \/ attempt[s] \in {"sending", "errorBody"}
    /\ HandleError
    /\ attempt' = [AfterHook EXCEPT ![s] = "idle"]
    /\ UNCHANGED <<sentId, requestStream, loop, heartbeatKnown, retryCount,
                   lastEventId, overlaps>>

\* A status of 201..299: onOpen runs, and the code throws.
UnexpectedStatus(s) ==
    /\ attempt[s] = "sending"
    /\ \/ /\ ~closedByClient /\ Close(1)
          /\ heartbeatArmed' = FALSE
          /\ UNCHANGED retryTimers
       \/ HandleError
    /\ attempt' = [AfterHook EXCEPT ![s] = "idle"]
    /\ UNCHANGED <<sentId, requestStream, loop, heartbeatKnown, retryCount,
                   lastEventId, overlaps>>

\* A response outside 200..299: onOpen runs, then its body is awaited.
ErrorResponse(s) ==
    /\ attempt[s] = "sending"
    /\ HookMayClose
    /\ attempt' = [AfterHook EXCEPT ![s] = "errorBody"]
    /\ heartbeatArmed' = (heartbeatArmed /\ ~HookCloses)
    /\ UNCHANGED <<sentId, requestStream, loop, retryTimers, heartbeatKnown,
                   retryCount, lastEventId, overlaps>>

\* A response with status 200: onOpen runs, the heartbeat check is set up, the
\* retry count is reset and the body is subscribed to, in one go and whatever
\* the hook did.
OkResponse(s) ==
    /\ attempt[s] = "sending"
    /\ HookMayClose
    /\ attempt' = [AfterHook EXCEPT ![s] = "live"]
    /\ \E positive \in HeartbeatHeaders : heartbeatKnown' = (heartbeatKnown \/ positive)
    /\ heartbeatArmed' = heartbeatKnown'
    /\ requestStream' = s
    /\ retryCount' = 0
    /\ UNCHANGED <<sentId, loop, retryTimers, lastEventId, overlaps>>

\* One read of a live body yields the events of a chunk (the parser's work).
ReceiveChunk(s) ==
    /\ ~httpClosed \/ LateBytes
    /\ attempt[s] = "live"
    /\ loop' \in Chunks
    /\ UNCHANGED <<attempt, sentId, requestStream, retryTimers, heartbeat,
                   retryCount, closing, lastEventId, overlaps>>

\* One turn of the loop over the events of the chunk.  The heartbeat check is
\* re-armed first; close() in a turn does not end the loop.
HandleEvent ==
    /\ loop # << >>
    /\ LET event == Head(loop) IN
        /\ lastEventId' = IF event.id = NoId THEN lastEventId ELSE event.id
        /\ \/ /\ event.kind = "raw"
              /\ StayOpen
              /\ heartbeatArmed' = heartbeatKnown
              /\ UNCHANGED attempt
           \/ /\ event.kind = "message"
              /\ HookMayClose
              /\ heartbeatArmed' = (heartbeatKnown /\ ~HookCloses)
              /\ attempt' = AfterHook
           \/ /\ event.kind = "done"
              /\ Close(1)
              /\ heartbeatArmed' = FALSE
              /\ attempt' = CancelTracked
    /\ loop' = Tail(loop)
    /\ UNCHANGED <<sentId, requestStream, retryTimers, heartbeatKnown, retryCount, overlaps>>

\* Mutant: an ended body starts no retry timer.
StreamEndsWithoutRetry(s) ==
    /\ attempt[s] = "live"
    /\ attempt' = [attempt EXCEPT ![s] = "idle"]
    /\ UNCHANGED <<sentId, requestStream, loop, retryTimers, heartbeat, retryCount,
                   closing, lastEventId, overlaps>>

\* The body ends (onDone).
StreamEnds(s) ==
    /\ attempt[s] = "live"
    /\ attempt' = [attempt EXCEPT ![s] = "idle"]
    /\ \/ /\ RetriesSpent
          /\ httpClosed' = TRUE
          /\ closeReports' = IF closeReports < 2 THEN closeReports + 1 ELSE 2
          /\ UNCHANGED <<closedByClient, retryTimers>>
       \/ /\ ~RetriesSpent /\ closedByClient
          /\ StayOpen
          /\ UNCHANGED retryTimers
       \/ /\ ~RetriesSpent /\ ~closedByClient
          /\ retryTimers' = retryTimers + 1
          /\ StayOpen
    /\ UNCHANGED <<sentId, requestStream, loop, heartbeat, retryCount, lastEventId>>
    /\ NoteOverlap

\* The body reports an error (onError: _handleError).  The subscription was
\* made without cancelOnError, so it stays and its end is still to come.
StreamError(s) ==
    /\ StreamMayError
    /\ attempt[s] = "live"
    /\ RoomForAnother
    /\ HandleError
    /\ attempt' = AfterHook
    /\ UNCHANGED <<sentId, requestStream, loop, heartbeatKnown, retryCount,
                   lastEventId>>
    /\ NoteOverlap

\* Mutant: a retry runs although no retry timer is pending.
SpuriousRetry(s) ==
    /\ Connect(s, TRUE)
    /\ retryTimers' = retryTimers - 1
    /\ UNCHANGED <<requestStream, loop, heartbeat, closing, lastEventId, overlaps>>

\* Timer(_retryDelay, ...): a pending retry timer fires.
RetryTimerFires(s) ==
    /\ retryTimers > 0
    /\ Connect(s, TRUE)
    /\ retryTimers' = retryTimers - 1
    /\ UNCHANGED <<requestStream, loop, heartbeat, closing, lastEventId, overlaps>>

\* Nothing arrived for the heartbeat interval times the multiplier.
HeartbeatTimerFires(s) ==
    /\ heartbeatArmed
    /\ RoomForAnother
    /\ Connect(s, FALSE)
    /\ heartbeatArmed' = FALSE
    /\ UNCHANGED <<requestStream, loop, retryTimers, heartbeatKnown, closing,
                   lastEventId>>
    /\ NoteOverlap

\* The application calls close() from outside the hooks.
AppClose ==
    /\ ~closedByClient
    /\ Close(1)
    /\ attempt' = CancelTracked
    /\ heartbeatArmed' = FALSE
    /\ UNCHANGED <<sentId, requestStream, loop, retryTimers, heartbeatKnown,
                   retryCount, lastEventId, overlaps>>

\* The application calls reconnect().
Reconnect(s) ==
    /\ AppReconnects
    /\ RoomForAnother
    /\ Connect(s, TRUE)
    /\ closedByClient' = FALSE
    /\ closeReports' = 0
    /\ UNCHANGED <<requestStream, loop, retryTimers, heartbeat, httpClosed,
                   lastEventId>>
    /\ NoteOverlap

Next ==
    \/ HandleEvent
    \/ loop = << >> /\ AppClose
    \/ loop = << >> /\ \E s \in Slot :
        \/ HeadersResolve(s)
        \/ HeadersThrow(s)
        \/ Send(s)
        \/ AttemptFails(s)
        \/ UnexpectedStatus(s)
        \/ ErrorResponse(s)
        \/ OkResponse(s)
        \/ ReceiveChunk(s)
        \/ StreamEnds(s)
        \/ StreamError(s)
        \/ RetryTimerFires(s)
        \/ HeartbeatTimerFires(s)
        \/ Reconnect(s)

\* Callbacks that are due run, timers fire, requests are answered or fail, and
\* the sockets of a closed HTTP client end (its close() is forced).  Nothing is
\* assumed of the application or of an open stream.
Fairness ==
    /\ WF_source(HandleEvent)
    /\ \A s \in Slot :
        /\ WF_source(loop = << >> /\ (HeadersResolve(s) \/ Send(s)))
        /\ WF_source(loop = << >> /\ (AttemptFails(s) \/ ErrorResponse(s) \/ OkResponse(s)))
        /\ SF_source(loop = << >> /\ httpClosed /\ StreamEnds(s))
    /\ WF_source(loop = << >> /\ \E s \in Slot : RetryTimerFires(s))
    /\ WF_source(loop = << >> /\ \E s \in Slot : HeartbeatTimerFires(s))

Spec == Init /\ [][Next]_vars /\ Fairness

\* A server that does not refuse every request for ever.
ServerUp == \A s \in Slot : SF_source(loop = << >> /\ OkResponse(s))

-----------------------------------------------------------------------------
(* Properties *)

\* A source that nobody closed is never stranded: a call of _connect is under
\* way, a stream is being read, or a retry is due.  Every path that drops one
\* of them (a cancelled stream, a failed request, an ended body) must leave
\* another one behind.
NeverStranded ==
    ~closedByClient /\ ~httpClosed => Busy # {} \/ retryTimers > 0

\* When the last call of _connect standing sends its request, the request
\* resumes after the last event the application was given, although the
\* previous stream went on delivering events while the headers callback was
\* awaited.
ResumesFromLatest ==
    \A s \in Slot :
        /\ attempt[s] \in {"cancelling", "sending"}
        /\ Busy = {s} /\ retryTimers = 0
        /\ ~closedByClient /\ ~httpClosed
        => sentId[s] = lastEventId

\* One connection at a time, and no more than one beyond it for each time two
\* callbacks asked for a stream at once: a silent stream whose heartbeat runs
\* out is cancelled before its successor's request is sent, a failed body does
\* not keep its connection beside the retry's, and an orphaned stream (the one
\* _requestStream forgets when two calls overlap) is paid for by that overlap.
SingleConnection ==
    overlaps < OverlapCap => Cardinality(Connections) <= 1 + overlaps

\* The retry limit is a limit: without a successful connection in between, no
\* more than _maxRetryCount retries are made in a row, and one more for each
\* overlap (the limit is compared when a retry is planned, and an overlapping
\* call may plan another one before the first has counted).
RetryBudget ==
    MaxRetryCount # NoLimit /\ overlaps < OverlapCap =>
        retryCount <= MaxRetryCount + overlaps

\* A source that is closed and not reconnected comes to rest: every timer,
\* request and stream it still had is gone, orphaned streams and re-armed
\* heartbeat checks included.
ClosedComesToRest ==
    closedByClient ~> (\/ ~closedByClient
                       \/ Busy = {} /\ retryTimers = 0 /\ ~heartbeatArmed)

\* While the server does not refuse for ever, the source keeps being connected
\* again after every failure, until it is closed or its retries are spent.
KeepsReconnecting == ServerUp => []<>(Live # {} \/ closedByClient \/ httpClosed)
=============================================================================
