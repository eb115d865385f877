----------------------------- MODULE EventSources -----------------------------
(***************************************************************************)
(* The event sources of the Rust, Swift and Kotlin clients: a loop that     *)
(* sends the request, reads the stream and starts again until the server    *)
(* says done, the user stops it or the retries are used up.  Rust loops,   *)
(* Swift and Kotlin call themselves.  A user stops a source from inside a   *)
(* callback: Rust and Swift by a flag, Kotlin by an exception.             *)
(* (DartEventSource models the Dart client, SseParsers what a chunk holds.) *)
(***************************************************************************)
EXTENDS Integers, Sequences, SequencesExt

CONSTANTS Clients,   \* of "rust", "swift", "kotlin"
          Chunks,    \* the events a chunk may hold
          MaxRetry,  \* the max retry count the user set
          Patience,  \* failures before a delay: 5 in the code of Rust and Swift
          MaxLevel,  \* how often the delay doubles before it is the maximal one
          MaxIds, MaxCalls  \* bounds: ids the server gives, calls on Kotlin's stack
ASSUME BoundsAreNaturals == /\ {MaxRetry, Patience, MaxIds} \subseteq Nat
                            /\ {MaxLevel, MaxCalls} \subseteq Nat \ {0}

\* The user is called for a message, one with an event name or without.
Callbacks == {"message", "unnamed"}
ASSUME ChunksAreEvents == Chunks \subseteq Seq(Callbacks \cup {"other", "done"})

VARIABLES client,
          phase,       \* "start" before a request, "stream", "unwind", "stopped"
          retryCount,
          level,       \* the delay before the next request; 0 is none
          lastId,      \* the last event id the source has stored
          stack,       \* Kotlin: the calls that wait for the running one
          stop,        \* the user asked to stop, in a callback
          cancelled,   \* the task the source runs in was cancelled
          closes,      \* calls of onClose
          failures,    \* history: requests in a row without a stream
          late,        \* history: a callback was made after the user's stop
          escaped      \* history: it was asked for where the source does not look
vars == <<client, phase, retryCount, level, lastId, stack, stop, cancelled, closes, failures, late, escaped>>
history == <<failures, late, escaped>>

Init ==
  /\ client \in Clients /\ phase = "start"
  /\ retryCount = 0 /\ level = 0 /\ lastId = 0 /\ stack = <<>>
  /\ stop = FALSE /\ cancelled = FALSE /\ closes = 0
  /\ failures = 0 /\ late = FALSE /\ escaped = FALSE

Least(m, n) == IF m < n THEN m ELSE n
Doubled(n) == Least(n + 1, MaxLevel)

(***************************************************************************)
(* What the callbacks of one step do: stops says that the user stops in it. *)
(***************************************************************************)
Call(stops) == stop' = (stop \/ stops) /\ late' = (late \/ stop)
NoCall == UNCHANGED <<stop, late>>
Closed == closes' = closes + 1
NotClosed == UNCHANGED closes

\* The events of a chunk in their order; the user stops in the k-th.  looks are
\* the kinds after which the source looks at the stop.  It reads up to the first
\* event that ends it, and calls the user for each that is one of Callbacks.
Asked(evs, k, i) == stop \/ (k \in 1 .. i /\ evs[k] \in Callbacks)
Outcome(evs, k, looks) ==
  LET ends == {i \in DOMAIN evs : evs[i] = "done" \/ (evs[i] \in looks /\ Asked(evs, k, i))}
      read == {i \in DOMAIN evs : \A j \in ends : i <= j}
  IN [ended |-> read \cap ends # {},
      done |-> \E i \in read : evs[i] = "done",
      stop |-> stop \/ (k \in read /\ evs[k] \in Callbacks),
      late |-> late \/ \E i \in read : evs[i] \in Callbacks /\ Asked(evs, k, i - 1)]
Heard(o) == stop' = o.stop /\ late' = o.late

(***************************************************************************)
(* Rust: listen and send_request.                                          *)
(***************************************************************************)
RustLevel == IF retryCount > Patience THEN Doubled(level) ELSE level
RustRetry == retryCount' = retryCount + 1 /\ phase' = "start"
RustEnd(stops) == IF stops THEN phase' = "stopped" /\ UNCHANGED retryCount ELSE RustRetry

RustGivesUp ==
  /\ client = "rust" /\ phase = "start" /\ retryCount > MaxRetry
  /\ phase' = "stopped"
  /\ UNCHANGED <<client, cancelled, retryCount, level, lastId, stack, stop, closes, history>>
\* Open is said of every response, Error of one that is no stream as well.
RustFails(stops) ==
  /\ client = "rust" /\ phase = "start" /\ retryCount <= MaxRetry
  /\ level' = RustLevel
  /\ Call(stops) /\ RustEnd(stops) /\ NotClosed
  /\ failures' = failures + 1
  /\ UNCHANGED <<client, cancelled, lastId, stack, escaped>>
RustOpens(stops) ==
  /\ client = "rust" /\ phase = "start" /\ retryCount <= MaxRetry
  /\ level' = RustLevel
  /\ Call(stops)
  /\ IF stops THEN phase' = "stopped" /\ UNCHANGED <<retryCount, failures>>
     ELSE phase' = "stream" /\ retryCount' = 0 /\ failures' = 0
  /\ UNCHANGED <<client, cancelled, lastId, stack, closes, escaped>>
RustChecks == {"message"}
RustChunk(evs, k) ==
  /\ client = "rust" /\ phase = "stream"
  /\ IF stop THEN phase' = "stopped" /\ NoCall /\ NotClosed /\ UNCHANGED escaped
     ELSE LET o == Outcome(evs, k, RustChecks)
          IN /\ Heard(o)
             /\ phase' = IF o.ended THEN "stopped" ELSE "stream"
             /\ IF o.done THEN Closed ELSE NotClosed
             /\ escaped' = (k # 0 /\ evs[k] \in Callbacks \ RustChecks)
  /\ UNCHANGED <<client, cancelled, retryCount, level, lastId, stack, failures>>
\* The stream ends or breaks.
RustStreamEnds ==
  /\ client = "rust" /\ phase = "stream"
  /\ RustEnd(stop) /\ failures' = failures + (IF stop THEN 0 ELSE 1)
  /\ UNCHANGED <<client, cancelled, level, lastId, stack, stop, closes, late, escaped>>

(***************************************************************************)
(* Swift: sendRequest and handleRetry.  The header with the last id is put *)
(* into a dictionary that is not the one the request is made of.           *)
(***************************************************************************)
SwiftLevel == CASE retryCount >= Patience /\ level = 0 -> 1
                [] level > 0 -> Doubled(level)
                [] OTHER -> level
\* Mutant: one retry more than there are.
HandleRetryLater ==
  IF retryCount > MaxRetry + 1 THEN phase' = "stopped" /\ UNCHANGED <<retryCount, level>>
  ELSE phase' = "start" /\ level' = SwiftLevel /\ retryCount' = retryCount + 1
HandleRetry ==
  IF retryCount > MaxRetry THEN phase' = "stopped" /\ UNCHANGED <<retryCount, level>>
  ELSE phase' = "start" /\ level' = SwiftLevel /\ retryCount' = retryCount + 1
SwiftStops == phase' = "stopped" /\ UNCHANGED <<retryCount, level>>
\* onRequest, then onRequestError: the source is not closed by a stop there.
SwiftFails(stops) ==
  /\ client = "swift" /\ phase = "start"
  /\ Call(stops) /\ NotClosed
  /\ IF stops THEN SwiftStops ELSE HandleRetry
  /\ failures' = failures + 1
  /\ UNCHANGED <<client, cancelled, lastId, stack, escaped>>
\* onResponse, then onResponseError: an error status.
SwiftRefused(stops) ==
  /\ client = "swift" /\ phase = "start"
  /\ Call(stops)
  /\ IF stops THEN SwiftStops /\ Closed ELSE HandleRetry /\ NotClosed
  /\ failures' = failures + 1
  /\ UNCHANGED <<client, cancelled, lastId, stack, escaped>>
SwiftOpens(stops) ==
  /\ client = "swift" /\ phase = "start"
  /\ Call(stops)
  /\ IF stops THEN SwiftStops /\ Closed /\ UNCHANGED failures
     ELSE phase' = "stream" /\ retryCount' = 0 /\ failures' = 0 /\ NotClosed /\ UNCHANGED level
  /\ UNCHANGED <<client, cancelled, lastId, stack, escaped>>
\* Mutant: the stop is not looked at after an event.
Unchecked == {}
Checks == Callbacks
SwiftChunk(evs, k, id) ==
  LET o == Outcome(evs, k, Checks) IN
  /\ client = "swift" /\ phase = "stream"
  /\ Heard(o)
  /\ IF o.ended THEN phase' = "stopped" /\ Closed ELSE phase' = "stream" /\ NotClosed
  /\ lastId' = id
  /\ UNCHANGED <<client, cancelled, retryCount, level, stack, failures, escaped>>
\* The end of the stream is not said; that it broke is, by onResponseError.
SwiftStreamEnds(broke, stops) ==
  /\ client = "swift" /\ phase = "stream"
  /\ IF broke THEN Call(stops) ELSE NoCall /\ ~ stops
  /\ IF stops THEN SwiftStops /\ Closed ELSE HandleRetry /\ NotClosed
  /\ failures' = failures + 1
  /\ UNCHANGED <<client, cancelled, lastId, stack, escaped>>
\* The task was cancelled: onClose if a stream was open.
SwiftCancelled ==
  /\ client = "swift" /\ phase \in {"start", "stream"} /\ cancelled
  /\ SwiftStops
  /\ IF phase = "stream" THEN Closed ELSE NotClosed
  /\ UNCHANGED <<client, cancelled, lastId, stack, stop, history>>

(***************************************************************************)
(* Kotlin: __handleSseRequest calls itself, inside the block that reads the *)
(* response or inside the handler of an exception of that block.           *)
(***************************************************************************)
Frame(at, delay) == [at |-> at, level |-> delay, id |-> lastId]
\* A retry is a call with the delay that follows: none after a stream.
Again(at, delay) ==
  /\ stack' = Append(stack, Frame(at, delay)) /\ level' = delay /\ phase' = "start"
  /\ UNCHANGED lastId
Return == phase' = "stopped" /\ UNCHANGED <<stack, level, lastId>>
Throw == phase' = "unwind" /\ UNCHANGED <<stack, level, lastId>>
InKotlin(ph) == client = "kotlin" /\ phase = ph /\ UNCHANGED <<client, cancelled, retryCount>>

\* No response: onError and onRequestError run outside the inner handlers.
KotlinFails(stops) ==
  /\ InKotlin("start")
  /\ Call(stops) /\ NotClosed
  /\ IF stops THEN Throw ELSE Again("catch", Doubled(level))
  /\ escaped' = (escaped \/ stops) /\ failures' = failures + 1
\* onOpen, then the error callbacks; a stop in them is handled, and onClose is
\* called but for a response of another content type.
KotlinRefused(stops, status) ==
  /\ InKotlin("start")
  /\ Call(stops)
  /\ IF stops THEN Return /\ (IF status THEN Closed ELSE NotClosed)
     ELSE Again("execute", Doubled(level)) /\ NotClosed
  /\ failures' = failures + 1 /\ UNCHANGED escaped
KotlinOpens(stops) ==
  /\ InKotlin("start")
  /\ Call(stops)
  /\ IF stops THEN Return /\ Closed /\ UNCHANGED failures
     ELSE phase' = "stream" /\ failures' = 0 /\ NotClosed /\ UNCHANGED <<stack, level, lastId>>
  /\ UNCHANGED escaped
KotlinChunk(evs, k, id) ==
  LET o == Outcome(evs, k, Checks) IN
  /\ InKotlin("stream")
  /\ Heard(o)
  /\ IF o.ended THEN phase' = "stopped" /\ Closed ELSE phase' = "stream" /\ NotClosed
  /\ lastId' = id
  /\ UNCHANGED <<stack, level, failures, escaped>>
\* Mutant: the next request has the id this call was given.
KotlinStreamEndsStale ==
  /\ InKotlin("stream")
  /\ stack' = Append(stack, Frame("execute", 0)) /\ level' = 0 /\ phase' = "start"
  /\ lastId' = IF stack = <<>> THEN 0 ELSE Last(stack).id
  /\ failures' = failures + 1
  /\ UNCHANGED <<stop, late, closes, escaped>>
KotlinStreamEnds ==
  /\ InKotlin("stream")
  /\ Again("execute", 0)
  /\ failures' = failures + 1
  /\ UNCHANGED <<stop, late, closes, escaped>>
\* Reading fails, or a message does not parse.
KotlinStreamBreaks(stops) ==
  /\ InKotlin("stream")
  /\ Call(stops) /\ NotClosed
  /\ IF stops THEN Throw ELSE Again("catch", 0)
  /\ escaped' = (escaped \/ stops) /\ failures' = failures + 1
\* The exception leaves the calls that are inside a handler, and the first that
\* is reading a response takes it for a failure of its own.
Reading == {i \in DOMAIN stack : stack[i].at = "execute"}
KotlinUnwinds(stops) ==
  /\ InKotlin("unwind")
  /\ IF Reading = {} THEN Return /\ NoCall
     ELSE LET i == CHOOSE i \in Reading : \A j \in Reading : j <= i
              frame == stack[i]
          IN /\ Call(stops)
             /\ stack' = Append(SubSeq(stack, 1, i - 1), [frame EXCEPT !.at = "catch"])
             /\ IF stops THEN phase' = "unwind" /\ UNCHANGED <<level, lastId>>
                ELSE phase' = "start" /\ level' = frame.level /\ lastId' = frame.id
  /\ escaped' = (escaped \/ stops) /\ UNCHANGED <<closes, failures>>

\* Mutant: a cancellation ends the wait for a delay alone.
KotlinCancelledWaiting ==
  /\ cancelled
  /\ InKotlin("start") /\ level > 0 /\ Throw /\ NoCall
  /\ UNCHANGED <<closes, failures, escaped>>
\* The cancellation is an exception like others where the source waits for the
\* server, and is not caught where it waits out a delay.
KotlinCancelled ==
  /\ cancelled
  /\ \/ InKotlin("start") /\ level > 0 /\ Throw /\ NoCall
     \/ InKotlin("start") /\ level = 0 /\ Again("catch", 1) /\ Call(FALSE)
     \/ InKotlin("stream") /\ Again("catch", 0) /\ Call(FALSE)
  /\ UNCHANGED <<closes, failures, escaped>>

(***************************************************************************)
(* The server and the user choose; a stop is asked for once.               *)
(***************************************************************************)
Stops == IF stop THEN {FALSE} ELSE BOOLEAN
Ids == {lastId} \cup (IF lastId < MaxIds THEN {lastId + 1} ELSE {})
Rust == \/ RustGivesUp \/ RustStreamEnds
        \/ \E s \in Stops : RustOpens(s) \/ RustFails(s)
        \/ \E evs \in Chunks : \E k \in 0 .. Len(evs) : RustChunk(evs, k)
Swift == /\ ~ cancelled
         /\ \/ \E s \in Stops : SwiftFails(s) \/ SwiftRefused(s) \/ SwiftOpens(s)
                                \/ \E broke \in BOOLEAN : SwiftStreamEnds(broke, s)
            \/ \E evs \in Chunks, id \in Ids : \E k \in 0 .. Len(evs) : SwiftChunk(evs, k, id)
Kotlin == /\ ~ cancelled /\ Len(stack) < MaxCalls
          /\ \/ KotlinStreamEnds
             \/ \E s \in Stops : \/ KotlinFails(s) \/ KotlinOpens(s) \/ KotlinStreamBreaks(s)
                                 \/ \E status \in BOOLEAN : KotlinRefused(s, status)
             \/ \E evs \in Chunks, id \in Ids : \E k \in 0 .. Len(evs) : KotlinChunk(evs, k, id)
Cancel ==
  /\ client # "rust" /\ phase # "stopped" /\ ~ cancelled
  /\ cancelled' = TRUE
  /\ UNCHANGED <<client, phase, retryCount, level, lastId, stack, stop, closes, history>>
Unwind == SwiftCancelled \/ KotlinCancelled \/ (\E s \in Stops : KotlinUnwinds(s))
Next == Rust \/ Swift \/ Kotlin \/ Cancel \/ Unwind
\* The server answers or the connection breaks in the end, and the runtime
\* resumes a task that was cancelled or has thrown.
Spec == Init /\ [][Next]_vars /\ WF_vars(Rust \/ Swift) /\ WF_vars(Unwind)

(***************************************************************************)
(* Properties.                                                             *)
(***************************************************************************)
\* A source the user stopped in a callback makes no other call and no other
\* request, but where it does not look: Rust after an event without a name,
\* Kotlin in the error callbacks of a request without a response.
\* onClose is called at most once, and when it is the source has stopped.
StopsAtOnce ==
  /\ stop /\ ~ escaped => phase = "stopped" /\ ~ late
  /\ closes <= 1 /\ (closes = 1 => phase = "stopped")

\* In an outage the source does not hammer the server: it gives up after max
\* retries (Swift: after one more; Kotlin: never), and its delays grow.
SparesTheServer ==
  /\ client = "rust" => failures <= MaxRetry + 1
  /\ client = "swift" => failures <= MaxRetry + 2
  /\ client # "kotlin" /\ phase = "start" /\ failures > Patience + 1 => level > 0
  /\ client = "kotlin" /\ phase = "start" /\ ~ escaped /\ ~ cancelled => level >= Least(failures - 1, MaxLevel)

\* A reconnection of the Kotlin source is a call nested in the one it replaces,
\* and an exception takes the source back to an outer call and to the id that
\* one holds.  However stops, exceptions and cancellations unwind the calls, the
\* source never resumes from before the id of a call that still waits for it:
\* what is heard twice was heard by the calls the exception has ended.
GoesBackNoFurther == \A i \in DOMAIN stack : stack[i].id <= lastId

\* A source that never finds its server stops in the end (Kotlin's does not), and
\* so does a task that is cancelled, whatever calls it is in.
ComesToAnEnd ==
  /\ client \in {"rust", "swift"} => (<>[](phase # "stream") => <>(phase = "stopped"))
  /\ cancelled ~> phase = "stopped"
===============================================================================
