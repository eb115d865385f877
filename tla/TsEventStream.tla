---------------------------- MODULE TsEventStream ----------------------------
(***************************************************************************)
(* One request to an event stream procedure of the TypeScript server: the  *)
(* handler of registerEventStreamRpc and the EventStreamConnection it      *)
(* gives to the procedure (eventStreamRpc.ts), with handleH3Error          *)
(* (errors.ts).                                                            *)
(*                                                                         *)
(* The event loop runs one callback at a time; a step is one of them, with *)
(* the microtasks it queues: h3's stream hands what is pushed to the       *)
(* response, and settles a close, before the next timer or socket event.   *)
(* Between two steps the procedure may be waiting for anything, and the    *)
(* client may drop the connection.                                         *)
(*                                                                         *)
(* A procedure is assumed to do what the comment on send() asks: it calls  *)
(* send() before it pushes or closes, and only once.                       *)
(***************************************************************************)
EXTENDS Naturals, Sequences, FiniteSets, Subsequence

CONSTANTS
    Item,            \* values pushed
    Valid,           \* those the response schema accepts
    Batch,           \* what one call of push() is given: sequences of items
    MaxPushes,       \* calls of push() (a bound)
    MaxBeats,        \* heartbeats that get through (a bound)
    SendHeartbeat,   \* heartbeatEnabled ?? true
    DropsFrom        \* the client may drop the connection from here on

ASSUME ConstantsAssumption ==
    /\ Valid \subseteq Item
    /\ Item \cap {"start", "done", "heartbeat", "error"} = {}
    /\ Batch \subseteq Seq(Item)
    /\ MaxPushes \in Nat /\ MaxBeats \in Nat
    /\ SendHeartbeat \in BOOLEAN
    /\ DropsFrom \in {"checks", "handler"}

VARIABLES
    stage,       \* "checks", "handler" while the procedure's promise is pending, "settled"
    connection,  \* the EventStreamConnection exists, its close hooks are installed
    handled,     \* event.handled: a response has been handed to the client
    resEnded,    \* res.end() was called
    resClosed,   \* the response has emitted "close"
    sent,        \* the stream has been handed to the client
    writerOpen,  \* the stream's writer accepts writes
    isClosed,    \* _isClosed: the onClosed callbacks have run
    intervals,   \* live setInterval timers
    interval,    \* heartbeatInterval: the last one started, 0 for none
    wire,        \* what reached the client
    reported,    \* items whose push() was reported as successful
    pushes, beats,
    onErrors     \* calls of the onError hook

stream == <<connection, sent, writerOpen, isClosed, intervals, interval>>
response == <<handled, resEnded, resClosed, wire>>
counters == <<reported, pushes, beats, onErrors>>
vars == <<stage, stream, response, counters>>

Init ==
    /\ stage = "checks"
    /\ connection = FALSE
    /\ handled = FALSE
    /\ resEnded = FALSE /\ resClosed = FALSE
    /\ sent = FALSE
    /\ writerOpen = TRUE
    /\ isClosed = FALSE
    /\ intervals = {} /\ interval = 0
    /\ wire = <<>>
    /\ reported = 0
    /\ pushes = 0 /\ beats = 0
    /\ onErrors = 0

\* What is written to a response that is over goes nowhere.
Reaches(frames) == IF writerOpen /\ ~resClosed THEN wire \o frames ELSE wire

-----------------------------------------------------------------------------
(* h3's EventStream and the _cleanup() registered on it.                   *)

\* Mutant: the interval is not cleared.
CleanupKeepsTimer ==
    /\ isClosed' = TRUE
    /\ UNCHANGED <<intervals, interval>>

Cleanup ==
    /\ isClosed' = TRUE
    /\ intervals' = intervals \ {interval}
    /\ UNCHANGED interval

\* eventStream.close(): nothing the second time.
CloseEventStream ==
    IF writerOpen
    THEN /\ writerOpen' = FALSE
         /\ Cleanup
         /\ resEnded' = (resEnded \/ sent)
    ELSE UNCHANGED <<writerOpen, isClosed, intervals, interval, resEnded>>

\* send(): the stream goes to the client, then "start", then the heartbeats.
Send ==
    /\ handled' = TRUE
    /\ sent' = TRUE
    /\ wire' = Reaches(<<"start">>)
    /\ resEnded' = (resEnded \/ ~writerOpen)
    /\ IF SendHeartbeat
       THEN /\ interval' = interval + 1
            /\ intervals' = intervals \cup {interval + 1}
       ELSE UNCHANGED <<interval, intervals>>

-----------------------------------------------------------------------------
(* The request handler.                                                    *)

\* Mutant: the error is sent even after the stream has been.
AnswersTwice ==
    /\ onErrors' = onErrors + 1
    /\ handled' = TRUE
    /\ resEnded' = TRUE
    /\ wire' = IF resClosed THEN wire ELSE Append(wire, "error")

\* handleH3Error: the hook always, the error only to a client that has had
\* no response yet.
HandleH3Error ==
    /\ onErrors' = onErrors + 1
    /\ IF handled
       THEN UNCHANGED <<handled, resEnded, wire>>
       ELSE /\ handled' = TRUE
            /\ resEnded' = TRUE
            /\ wire' = IF resClosed THEN wire ELSE Append(wire, "error")

Preflight ==
    /\ stage = "checks"
    /\ stage' = "settled"
    /\ handled' = TRUE /\ resEnded' = TRUE
    /\ UNCHANGED <<stream, resClosed, wire, counters>>

\* onRequest, a middleware or the validation of the parameters throws.
ChecksFail ==
    /\ stage = "checks"
    /\ stage' = "settled"
    /\ HandleH3Error
    /\ UNCHANGED <<stream, resClosed, reported, pushes, beats>>

ChecksPass ==
    /\ stage = "checks"
    /\ stage' = "handler"
    /\ connection' = TRUE
    /\ UNCHANGED <<sent, writerOpen, isClosed, intervals, interval, response, counters>>

\* A procedure that has not called send() has it called for it.
HandlerResolves ==
    /\ stage = "handler"
    /\ stage' = "settled"
    /\ IF handled THEN UNCHANGED <<sent, handled, wire, resEnded, interval, intervals>> ELSE Send
    /\ UNCHANGED <<connection, writerOpen, isClosed, resClosed, counters>>

HandlerRejects ==
    /\ stage = "handler"
    /\ stage' = "settled"
    /\ HandleH3Error
    /\ UNCHANGED <<stream, resClosed, reported, pushes, beats>>

-----------------------------------------------------------------------------
(* The procedure, and the timers it leaves running when it has returned.   *)

AppSend ==
    /\ stage = "handler" /\ ~handled
    /\ Send
    /\ UNCHANGED <<stage, connection, writerOpen, isClosed, resClosed, counters>>

\* Mutant: every item of a batch is reported as sent.
PushReportsAll(batch) ==
    /\ sent
    /\ pushes < MaxPushes
    /\ pushes' = pushes + 1
    /\ wire' = Reaches(Only(batch, Valid))
    /\ reported' = reported + Len(batch)
    /\ UNCHANGED <<stage, stream, handled, resEnded, resClosed, beats, onErrors>>

\* push(): of several items the valid ones are sent, whatever the others are.
AppPush(batch) ==
    /\ sent
    /\ pushes < MaxPushes
    /\ pushes' = pushes + 1
    /\ wire' = Reaches(Only(batch, Valid))
    /\ reported' = reported + Cardinality({i \in 1 .. Len(batch) : batch[i] \in Valid})
    /\ UNCHANGED <<stage, stream, handled, resEnded, resClosed, beats, onErrors>>

AppClose ==
    /\ sent
    /\ wire' = Reaches(<<"done">>)
    /\ CloseEventStream
    /\ UNCHANGED <<stage, connection, sent, handled, resClosed, counters>>

-----------------------------------------------------------------------------
(* Timers and the socket.                                                  *)

HeartbeatFires ==
    /\ intervals # {}
    /\ beats < MaxBeats
    /\ beats' = beats + 1
    /\ wire' = Reaches(<<"heartbeat">>)
    /\ UNCHANGED <<stage, stream, handled, resEnded, resClosed, reported, pushes, onErrors>>

MayDrop == DropsFrom = "checks" \/ connection

\* Mutant: no close hooks on the request and the response.
ResClosesUnnoticed ==
    /\ ~resClosed
    /\ resEnded \/ MayDrop
    /\ resClosed' = TRUE
    /\ UNCHANGED <<stage, stream, handled, resEnded, wire, counters>>

\* The client is gone or the response complete.  Hooks that were installed
\* in time close the stream.
ResCloses ==
    /\ ~resClosed
    /\ resEnded \/ MayDrop
    /\ resClosed' = TRUE
    /\ IF connection /\ ~isClosed
       THEN CloseEventStream
       ELSE UNCHANGED <<writerOpen, isClosed, intervals, interval, resEnded>>
    /\ UNCHANGED <<stage, connection, sent, handled, wire, counters>>

-----------------------------------------------------------------------------

Next ==
    \/ Preflight \/ ChecksFail \/ ChecksPass
    \/ HandlerResolves \/ HandlerRejects
    \/ AppSend \/ AppClose
    \/ \E batch \in Batch : AppPush(batch)
    \/ HeartbeatFires
    \/ ResCloses

\* A response that was ended is closed in the end.  The procedure may stay
\* pending for ever.
Spec == Init /\ [][Next]_vars /\ WF_vars(resEnded /\ ResCloses)

-----------------------------------------------------------------------------
(* Safety.                                                                 *)

\* A client sees either one error and nothing else, or a stream: "start",
\* then events, then at most one "done" with nothing after it - whenever
\* the procedure sends, fails, closes or resolves, and whenever heartbeats
\* fall due (send, close and the handler of registerEventStreamRpc).  The
\* onError hook hears of at most one error of a request.
WireWellFormed ==
    /\ \/ wire \in {<<>>, <<"error">>}
       \/ /\ wire[1] = "start"
          /\ \A i \in 2..Len(wire) : wire[i] \notin {"start", "error"}
          /\ \A i \in 1..Len(wire) - 1 : wire[i] # "done"
    /\ onErrors <= 1

\* The results of push() tell the truth while the stream is open: as many
\* items are reported as sent as reach the client (push, lines 140 to 184).
PushesAreHonest ==
    writerOpen /\ ~resClosed => reported = Cardinality({i \in DOMAIN wire : wire[i] \in Item})

\* README.md:228: heartbeats are "periodically sent by the server to keep
\* the connection alive".  A client that has been sent anything at all leaves
\* no timer running once its stream is closed or its connection is gone,
\* however the drop races with send(), pushes, heartbeats and close() (_cleanup,
\* and the hooks of the constructor).  What is left out is exactly the stream
\* whose "start" came too late to be written: send() starts a timer for it too.
HeartbeatStops == (isClosed \/ resClosed) /\ wire # <<>> => intervals = {}

\* README.md:290: the onClosed callbacks fire "after the stream has been
\* close by the server or the connection has been dropped".  True only if
\* the connection is not dropped before the hooks are installed.
ClosedCallbacksFire == connection /\ resClosed => isClosed

(* Liveness.                                                               *)

\* A response that has been ended - by an error, by close(), by a stream that
\* was closed before it was sent - closes the stream object in the end: its
\* callbacks run and, if the client had been sent anything, its timer stops
\* (the "close" hooks of the constructor).
AnsweredComesToRest ==
    connection /\ resEnded ~> isClosed /\ (intervals = {} \/ wire = <<>>)
=============================================================================
