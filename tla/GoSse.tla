-------------------------------- MODULE GoSse --------------------------------
(***************************************************************************)
(* One request to an event stream procedure of the Go server: the request  *)
(* pipeline and the defaultSseController of procedures_sse.go.             *)
(*                                                                         *)
(* Two goroutines write to the response: the one that runs the procedure   *)
(* ("handler") and the one startStream() spawns ("beat"), which writes a   *)
(* heartbeat at each tick until the context is done.  They share the       *)
(* buffered writer of net/http without a lock, so a Fprintf and a Flush    *)
(* are split into their accesses to that buffer (the bufio.Writer          *)
(* operators are external):                                                *)
(*   copy     place the bytes at the current end of the buffer             *)
(*   advance  move the end                                                 *)
(*   send     write the buffer out                                         *)
(*   reset    empty it                                                     *)
(* A frame is one cell of the buffer; bytes of two frames are not mixed.   *)
(***************************************************************************)
EXTENDS Naturals, Sequences, SequencesExt, Subsequence

CONSTANTS
    Message,           \* values the procedure may push
    Unencodable,       \* those of them EncodeJSON refuses
    MaxCalls,          \* calls of Init, Push and Close a procedure makes (a bound)
    BufferCells,       \* room in the response buffer (a bound)
    HeartbeatChoices,  \* arguments of SetHeartbeatEnabled, a subset of BOOLEAN
    Ticking,           \* does the stream outlive a heartbeat interval?
    Recorded           \* frames whose arrival on the wire an instance keeps track of

ASSUME ConstantsAssumption ==
    /\ Message \cap {"start", "done", "heartbeat", "error", "stale"} = {}
    /\ Unencodable \subseteq Message
    /\ MaxCalls \in Nat
    /\ BufferCells \in Nat \ {0}
    /\ HeartbeatChoices \subseteq BOOLEAN
    /\ Ticking \in BOOLEAN
    /\ Recorded \subseteq Message \cup {"start", "done", "heartbeat", "error", "stale"}

Goroutine == {"handler", "beat"}
Frame == Message \cup {"start", "done", "heartbeat", "error"}

VARIABLES
    stage,             \* where the request pipeline is
    todo,              \* accesses each goroutine still has to make in its call
    closing,           \* the procedure has called Close
    headersSent,       \* controller.headersSent
    heartbeatEnabled,  \* controller.heartbeatEnabled
    ticker,            \* controller.heartbeatTicker: "nil", "running" or "stopped"
    tick,              \* its channel, of capacity one, holds a tick
    beat,              \* the heartbeat goroutine: "none", "select" or "exited"
    ctxDone,           \* controller.Done() is closed
    clientGone,        \* the client has dropped the connection
    status,            \* the status line: "unset", "ok" or "error"
    buffer,            \* the buffer of the response's bufio.Writer
    end,               \* how much of it is in use: b.n
    sent,              \* how much of it each goroutine's Flush wrote out
    broken,            \* b.err is set
    wire,              \* frames written to the connection
    accepted,          \* frames the handler's goroutine handed over
    calls              \* calls the procedure has made

bufio == <<buffer, end, sent, broken, wire>>
controller == <<headersSent, heartbeatEnabled, ticker, tick, beat>>
connection == <<ctxDone, clientGone, status>>
vars == <<stage, todo, closing, controller, connection, bufio, accepted, calls>>

\* The early returns of the request handler, in order, and what follows them.
Check == <<"createEvent", "method", "onRequest", "middleware", "params">>

Write(f) == << [op |-> "copy", frame |-> f], [op |-> "advance", frame |-> f] >>
\* Mutant: a flush that leaves the buffer as it is.
FlushKeepsBuffer == << [op |-> "send", frame |-> "stale"] >>

Flush == << [op |-> "send", frame |-> "stale"], [op |-> "reset", frame |-> "stale"] >>
Cancel == << [op |-> "cancel", frame |-> "stale"] >>

Init ==
    /\ stage = "createEvent"
    /\ todo = [g \in Goroutine |-> <<>>]
    /\ closing = FALSE
    /\ headersSent = FALSE
    /\ heartbeatEnabled = TRUE
    /\ ticker = "nil"
    /\ tick = FALSE
    /\ beat = "none"
    /\ ctxDone = FALSE
    /\ clientGone = FALSE
    /\ status = "unset"
    /\ buffer = [i \in 1..BufferCells |-> "stale"]
    /\ end = 0
    /\ sent = [g \in Goroutine |-> 0]
    /\ broken = FALSE
    /\ wire = <<>>
    /\ accepted = <<>>
    /\ calls = 0

AtRest(g) == todo[g] = <<>>

-----------------------------------------------------------------------------
(* The request pipeline: the function given to Mux.HandleFunc.             *)

\* WriteHeader: the first call decides, later ones are ignored by net/http.
FirstStatus(s) == IF status = "unset" THEN s ELSE status

\* handleError(false, ...): the status line, then the error as a JSON body.
HandleError ==
    /\ status' = FirstStatus("error")
    /\ todo' = [todo EXCEPT !["handler"] = Write("error")]
    /\ accepted' = Append(accepted, "error")
    /\ stage' = "returned"
    /\ UNCHANGED <<closing, controller, ctxDone, clientGone, bufio, calls>>

\* OPTIONS requests are answered before anything else happens.
Preflight ==
    /\ stage = "createEvent"
    /\ status' = FirstStatus("ok")
    /\ stage' = "returned"
    /\ UNCHANGED <<todo, closing, controller, ctxDone, clientGone, bufio, accepted, calls>>

\* Mutant: a handler that answers with the error but does not return.
CheckFailsThenGoesOn ==
    /\ stage \in ToSet(Check)
    /\ status' = FirstStatus("error")
    /\ stage' = "procedure"
    /\ UNCHANGED <<todo, closing, controller, ctxDone, clientGone, bufio, accepted, calls>>

CheckFails ==
    /\ stage \in ToSet(Check)
    /\ HandleError

CheckPasses ==
    /\ \E i \in 1..Len(Check) :
          /\ stage = Check[i]
          /\ stage' = IF i < Len(Check) THEN Check[i + 1] ELSE "procedure"
    /\ UNCHANGED <<todo, closing, controller, connection, bufio, accepted, calls>>

ProcedureFails ==
    /\ stage = "procedure" /\ AtRest("handler")
    /\ HandleError

ProcedureReturns ==
    /\ stage = "procedure" /\ AtRest("handler")
    /\ stage' = "onAfterResponse"
    /\ UNCHANGED <<todo, closing, controller, connection, bufio, accepted, calls>>

AfterResponseFails ==
    /\ stage = "onAfterResponse"
    /\ HandleError

AfterResponsePasses ==
    /\ stage = "onAfterResponse"
    /\ stage' = "returned"
    /\ UNCHANGED <<todo, closing, controller, connection, bufio, accepted, calls>>

\* The handler function has returned: net/http cancels the request's context
\* and flushes the buffer, ...
ServerFlushes ==
    /\ stage = "returned" /\ AtRest("handler")
    /\ ctxDone' = TRUE
    /\ status' = FirstStatus("ok")
    /\ todo' = [todo EXCEPT !["handler"] = Flush]
    /\ stage' = "finishing"
    /\ UNCHANGED <<closing, controller, clientGone, bufio, accepted, calls>>

\* ... then gives it back to the pool it came from.
ServerFinishes ==
    /\ stage = "finishing" /\ AtRest("handler")
    /\ stage' = "finished"
    /\ UNCHANGED <<todo, closing, controller, connection, bufio, accepted, calls>>

ClientGone ==
    /\ ~clientGone
    /\ clientGone' = TRUE
    /\ ctxDone' = TRUE
    /\ UNCHANGED <<stage, todo, closing, controller, status, bufio, accepted, calls>>

-----------------------------------------------------------------------------
(* The controller, called by the procedure.  A procedure makes no call     *)
(* after Close; whether it watches Done() is its own affair.               *)

StartStream ==
    IF headersSent
    THEN UNCHANGED <<status, headersSent, ticker, beat>>
    ELSE /\ status' = FirstStatus("ok")
         /\ headersSent' = TRUE
         /\ ticker' = IF heartbeatEnabled THEN "running" ELSE "nil"
         /\ beat' = "select"

Call(frames, accesses) ==
    /\ stage = "procedure" /\ AtRest("handler") /\ ~closing
    /\ calls < MaxCalls
    /\ calls' = calls + 1
    /\ StartStream
    /\ todo' = [todo EXCEPT !["handler"] = accesses]
    /\ accepted' = accepted \o frames
    /\ UNCHANGED <<stage, heartbeatEnabled, tick, ctxDone, clientGone, bufio>>

InitStream ==
    /\ Call(<<"start">>, Write("start") \o Flush)
    /\ UNCHANGED closing

\* EncodeJSON may refuse the value, after the stream has been started.
Push(m) ==
    /\ IF m \in Unencodable THEN Call(<<>>, <<>>)
                            ELSE Call(<<m>>, Write(m) \o Flush)
    /\ UNCHANGED closing

Close(notifyClient) ==
    /\ IF notifyClient THEN Call(<<"done">>, Write("done") \o Flush \o Cancel)
                       ELSE Call(<<>>, Cancel)
    /\ closing' = TRUE

SetHeartbeatEnabled(val) ==
    /\ stage = "procedure" /\ AtRest("handler")
    /\ heartbeatEnabled' = val
    /\ UNCHANGED <<stage, todo, closing, headersSent, ticker, tick, beat, connection, bufio,
                   accepted, calls>>

-----------------------------------------------------------------------------
(* The goroutine spawned by startStream() and its ticker.                  *)

Tick ==
    /\ Ticking /\ ticker = "running"
    /\ tick' = TRUE
    /\ UNCHANGED <<stage, todo, closing, headersSent, heartbeatEnabled, ticker, beat, connection,
                   bufio, accepted, calls>>

\* When both channels of the select are ready Go takes either.
BeatTick ==
    /\ beat = "select" /\ AtRest("beat") /\ tick
    /\ tick' = FALSE
    /\ todo' = [todo EXCEPT !["beat"] = Write("heartbeat") \o Flush]
    /\ UNCHANGED <<stage, closing, headersSent, heartbeatEnabled, ticker, beat, connection, bufio,
                   accepted, calls>>

\* Mutant: the goroutine returns without the deferred Stop.
TickerLeftRunning == ticker

StoppedTicker == IF ticker = "running" THEN "stopped" ELSE ticker

BeatDone ==
    /\ beat = "select" /\ AtRest("beat") /\ ctxDone
    /\ beat' = "exited"
    /\ ticker' = StoppedTicker
    /\ UNCHANGED <<stage, todo, closing, headersSent, heartbeatEnabled, tick, connection, bufio,
                   accepted, calls>>

-----------------------------------------------------------------------------
(* The response's bufio.Writer.  Once the request is finished it belongs   *)
(* to no one, and what an access does to it is not looked at any more.     *)

Doing(g, op) == todo[g] # <<>> /\ todo[g][1].op = op

Performed(g, n) == todo' = [todo EXCEPT ![g] = SubSeq(@, n + 1, Len(@))]

OnWire(frames) == wire \o Only(frames, Recorded)

Copy(g) ==
    /\ Doing(g, "copy") /\ stage # "finished"
    /\ IF broken
       THEN Performed(g, 2) /\ UNCHANGED buffer
       ELSE /\ end < BufferCells
            /\ buffer' = [buffer EXCEPT ![end + 1] = todo[g][1].frame]
            /\ Performed(g, 1)
    /\ UNCHANGED <<end, sent, broken, wire, ctxDone>>

Advance(g) ==
    /\ Doing(g, "advance") /\ stage # "finished"
    /\ end < BufferCells
    /\ end' = end + 1
    /\ Performed(g, 1)
    /\ UNCHANGED <<buffer, sent, broken, wire, ctxDone>>

Send(g) ==
    /\ Doing(g, "send") /\ stage # "finished"
    /\ IF broken \/ end = 0
       THEN Performed(g, 2) /\ UNCHANGED <<sent, wire>>
       ELSE /\ sent' = [sent EXCEPT ![g] = end]
            /\ wire' = IF clientGone THEN wire ELSE OnWire(SubSeq(buffer, 1, end))
            /\ Performed(g, 1)
    /\ UNCHANGED <<buffer, end, broken, ctxDone>>

\* A writer that finds more in the buffer than it wrote takes it for a short
\* write: it moves the rest to the front and fails for good.
Reset(g) ==
    /\ Doing(g, "reset") /\ stage # "finished"
    /\ IF sent[g] < end
       THEN /\ broken' = TRUE
            /\ buffer' = [i \in 1..BufferCells |->
                             IF i <= end - sent[g] THEN buffer[i + sent[g]] ELSE buffer[i]]
            /\ end' = end - sent[g]
       ELSE end' = 0 /\ UNCHANGED <<broken, buffer>>
    /\ sent' = [sent EXCEPT ![g] = 0]
    /\ Performed(g, 1)
    /\ UNCHANGED <<wire, ctxDone>>

CancelContext(g) ==
    /\ Doing(g, "cancel")
    /\ ctxDone' = TRUE
    /\ Performed(g, 1)
    /\ UNCHANGED bufio

StrayAccess(g) ==
    /\ ~AtRest(g) /\ stage = "finished"
    /\ Performed(g, 1)
    /\ UNCHANGED <<bufio, ctxDone>>

Step(g) ==
    /\ \/ Copy(g) \/ Advance(g) \/ Send(g) \/ Reset(g)
       \/ CancelContext(g) \/ StrayAccess(g)
    /\ UNCHANGED <<stage, closing, controller, clientGone, status, accepted, calls>>

-----------------------------------------------------------------------------

Pipeline ==
    \/ Preflight \/ CheckFails \/ CheckPasses
    \/ ProcedureFails \/ ProcedureReturns
    \/ AfterResponseFails \/ AfterResponsePasses
    \/ ServerFlushes \/ ServerFinishes

Procedure ==
    \/ InitStream
    \/ \E m \in Message : Push(m)
    \/ \E n \in BOOLEAN : Close(n)
    \/ \E v \in HeartbeatChoices : SetHeartbeatEnabled(v)

Next ==
    \/ Pipeline \/ Procedure \/ ClientGone
    \/ Tick \/ BeatTick \/ BeatDone
    \/ \E g \in Goroutine : Step(g)

\* The goroutines keep running, and a select that finds Done() closed again
\* and again takes it in the end: Go chooses among ready channels at random.
\* The procedure itself may stay in its body for ever.
Fairness ==
    /\ WF_vars(ServerFlushes \/ ServerFinishes)
    /\ \A g \in Goroutine : WF_vars(Step(g))
    /\ SF_vars(BeatDone)

Spec == Init /\ [][Next]_vars /\ Fairness
-----------------------------------------------------------------------------
(* Safety.                                                                 *)

\* A response with an error status holds that error and nothing else: no
\* path that has answered with handleError goes on to stream events.
ErrorResponseIsPure == status = "error" => wire \in {<<>>, <<"error">>}

(* Liveness.                                                               *)

\* Once the stream is over, whoever ended it - Close, a client that drops
\* the connection while the procedure goes on, a procedure that returns -
\* the heartbeat goroutine ends and its ticker is stopped: no request
\* leaves either behind (the cases of the select in startStream()).
HeartbeatGoroutineEnds ==
    beat = "select" /\ (closing \/ clientGone \/ stage = "finished")
        ~> beat = "exited" /\ ticker # "running"

(* Refinement.                                                             *)

\* A stream in which no heartbeat falls due keeps the promise of
\* EventStream: every frame of Init, Push, Close and handleError reaches the
\* connection once and in order, whichever of them fail (the calls of
\* Fprintf and Flush in procedures_sse.go and the flush of net/http).
Promise == INSTANCE EventStream WITH delivered <- wire, up <- ~clientGone
KeepsThePromise == Promise!Spec

=============================================================================
