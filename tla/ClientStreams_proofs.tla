------------------------- MODULE ClientStreams_proofs -------------------------
(***************************************************************************)
(* Proofs about the event sources of the clients.                          *)
(*                                                                         *)
(* First the loops of the Rust, Swift and Kotlin sources (EventSources),   *)
(* for any chunks, any limits and any number of nested calls: a stop is    *)
(* obeyed at once, a server that is down is spared, and an exception takes *)
(* a Kotlin source no further back than the calls it leaves waiting.       *)
(*                                                                         *)
(* Then the parsers of the four clients (SseParsers), for any well-formed  *)
(* streams in any number of chunks: a client finds what was sent, and      *)
(* keeps no more than a part of an event.  The argument is about texts.    *)
(* Reading a text gives events, the fields of the event that has begun and *)
(* the lines that follow the last event; the text that is kept for the     *)
(* next chunk is these lines joined.  Resume: a text put behind the kept   *)
(* one reads as it does behind the whole, so a chunk takes a client from   *)
(* what the bytes before it say to what the bytes up to its end say.  The  *)
(* invariant ParserInv states for each client what it has found and kept   *)
(* at every position it may be at, and InvIsCorrect what that makes of the *)
(* events of the stream.                                                   *)
(***************************************************************************)
EXTENDS EventSources, SseParsers, SequenceFacts, TLAPS

(***************************************************************************)
(* The loops: the inductive invariant.                                     *)
(***************************************************************************)
CallFrame == [at : {"execute", "catch"}, level : Nat, id : Nat]
TypeInv ==
  /\ phase \in {"start", "stream", "unwind", "stopped"}
  /\ retryCount \in Nat /\ level \in Nat /\ lastId \in Nat
  /\ stack \in Seq(CallFrame)
  /\ stop \in BOOLEAN /\ late \in BOOLEAN /\ escaped \in BOOLEAN
  /\ closes \in Nat /\ failures \in Nat

\* A callback is late only after a stop.
LateAfterStop == late => stop

\* An exception is under way only if the user threw it where Kotlin does not
\* look, or the task was cancelled.
Unwinding == phase = "unwind" => escaped \/ cancelled

\* Between two requests the failures are those the source itself counts, while
\* it reads a stream there are none, and at the end at most one was not counted.
Counted ==
  /\ phase = "stream" => failures = 0
  /\ client # "kotlin" =>
       /\ phase \in {"start", "stream"} => failures = retryCount
       /\ client = "rust" => failures <= MaxRetry + 1
       /\ client = "swift" => failures <= MaxRetry + 2
  /\ client = "rust" /\ phase = "start" => retryCount <= MaxRetry + 1
  /\ client = "swift" /\ phase = "start" => retryCount <= MaxRetry + 1

SourceInv == TypeInv /\ LateAfterStop /\ StopsAtOnce /\ Unwinding /\ Counted /\ SparesTheServer
-----------------------------------------------------------------------------
\* What a chunk comes to: a stop in it is asked for in the k-th event, and if
\* the source looks after that one, it has ended and called nobody since.
LEMMA OutcomeFacts ==
  ASSUME NEW evs \in Chunks, NEW k \in 0 .. Len(evs), NEW looks, looks \subseteq Callbacks
  PROVE  LET o == Outcome(evs, k, looks)
         IN /\ o.stop \in BOOLEAN
            /\ late \in BOOLEAN => o.late \in BOOLEAN
            /\ stop => o.stop
            /\ o.done => o.ended
            /\ ~stop /\ o.stop => k # 0 /\ evs[k] \in Callbacks
            /\ ~stop /\ o.stop /\ evs[k] \in looks => o.ended
            /\ ~stop /\ ~late /\ (o.stop => evs[k] \in looks) => ~o.late
            /\ ~stop /\ ~late /\ o.late => o.stop
<1> DEFINE ends == {i \in DOMAIN evs : evs[i] = "done" \/ (evs[i] \in looks /\ Asked(evs, k, i))}
           taken == {i \in DOMAIN evs : \A j \in ends : i <= j}
           called == \E i \in taken : evs[i] \in Callbacks /\ Asked(evs, k, i - 1)
           o == Outcome(evs, k, looks)
<1>1. evs \in Seq(Callbacks \cup {"other", "done"}) /\ DOMAIN evs = 1 .. Len(evs)
  BY ChunksAreEvents
<1>2. /\ o.ended = (taken \cap ends # {})
      /\ o.done = (\E i \in taken : evs[i] = "done")
      /\ o.stop = (stop \/ (k \in taken /\ evs[k] \in Callbacks))
      /\ o.late = (late \/ called)
  BY DEF Outcome
<1> HIDE DEF o
<1>3. o.done => o.ended
  <2>1. \A i \in taken : evs[i] = "done" => i \in ends
    OBVIOUS
  <2> QED
    BY <1>2, <2>1
<1>4. ~stop /\ o.stop => k \in taken /\ k \in 1 .. Len(evs) /\ evs[k] \in Callbacks
  BY <1>1, <1>2
<1>5. ~stop /\ o.stop /\ evs[k] \in looks => k \in ends
  BY <1>1, <1>4 DEF Asked
<1>6. ~stop /\ called => k \in taken /\ evs[k] \in Callbacks
  <2> SUFFICES ASSUME ~stop, NEW i \in taken, evs[i] \in Callbacks, Asked(evs, k, i - 1)
               PROVE  k \in taken /\ evs[k] \in Callbacks
    OBVIOUS
  <2>1. k \in 1 .. i - 1 /\ evs[k] \in Callbacks /\ i \in 1 .. Len(evs)
    BY <1>1 DEF Asked
  <2>2. \A j \in ends : j \in 1 .. Len(evs) /\ i <= j
    BY <1>1
  <2> QED
    BY <1>1, <2>1, <2>2
<1>7. ~stop /\ called => evs[k] \notin looks
  <2> SUFFICES ASSUME ~stop, NEW i \in taken, evs[i] \in Callbacks, Asked(evs, k, i - 1), evs[k] \in looks
               PROVE  FALSE
    OBVIOUS
  <2>1. k \in 1 .. i - 1 /\ i \in 1 .. Len(evs)
    BY <1>1 DEF Asked
  <2>2. k \in ends
    BY <1>1, <2>1 DEF Asked, Callbacks
  <2> QED
    BY <2>1, <2>2
<1> HIDE DEF ends, taken, called
<1> QED
  <2>1. k \in taken => k \in 1 .. Len(evs)
    BY <1>1 DEF taken
  <2>2. o.stop \in BOOLEAN /\ (late \in BOOLEAN => o.late \in BOOLEAN) /\ (stop => o.stop)
    BY <1>2 DEF called
  <2>3. ~stop /\ o.stop /\ evs[k] \in looks => o.ended
    BY <1>2, <1>4, <1>5
  <2>4. ~stop /\ ~late /\ o.late => o.stop
    BY <1>2, <1>6
  <2>5. ~stop /\ ~late /\ (o.stop => evs[k] \in looks) => ~o.late
    BY <1>2, <1>7, <2>4
  <2> QED
    BY <1>3, <1>4, <2>2, <2>3, <2>4, <2>5 DEF o
-----------------------------------------------------------------------------
LEMMA SourceInit == Init => SourceInv
<1> SUFFICES ASSUME Init PROVE SourceInv
  OBVIOUS
<1>0. MaxRetry \in Nat /\ Patience \in Nat /\ MaxLevel \in Nat
  BY BoundsAreNaturals
<1>1. TypeInv
  <2>1. stack \in Seq(CallFrame)
    BY DEF Init
  <2>2. retryCount \in Nat /\ level \in Nat /\ lastId \in Nat /\ closes \in Nat /\ failures \in Nat
    BY DEF Init
  <2>3. stop \in BOOLEAN /\ late \in BOOLEAN /\ escaped \in BOOLEAN
    BY Zenon DEF Init
  <2>4. phase \in {"start", "stream", "unwind", "stopped"}
    BY DEF Init
  <2> QED
    BY <2>1, <2>2, <2>3, <2>4 DEF TypeInv
<1>2. LateAfterStop /\ StopsAtOnce /\ Unwinding
  BY DEF Init, LateAfterStop, StopsAtOnce, Unwinding
<1>3. Counted /\ SparesTheServer
  BY <1>0 DEF Init, Counted, SparesTheServer, Least
<1> QED
  BY <1>1, <1>2, <1>3 DEF SourceInv

\* The user stops a source once.
LEMMA StopIsBoolean == ASSUME stop \in BOOLEAN, NEW s \in Stops PROVE s \in BOOLEAN /\ (stop => ~s)
BY DEF Stops

\* The delay grows with each failure up to the maximal one.
LEMMA DelayFacts ==
  ASSUME TypeInv
  PROVE  /\ \A n \in Nat : Doubled(n) \in Nat /\ Doubled(n) > 0 /\ Doubled(n) >= Least(n + 1, MaxLevel)
         /\ \A m, n \in Nat : m >= Least(n - 1, MaxLevel) => Doubled(m) >= Least(n, MaxLevel)
         /\ RustLevel \in Nat /\ (retryCount > Patience => RustLevel > 0)
         /\ SwiftLevel \in Nat /\ (retryCount >= Patience => SwiftLevel > 0)
<1>1. MaxLevel \in Nat /\ MaxLevel > 0 /\ Patience \in Nat
  BY BoundsAreNaturals
<1>2. /\ \A n \in Nat : Doubled(n) \in Nat /\ Doubled(n) > 0 /\ Doubled(n) >= Least(n + 1, MaxLevel)
      /\ \A m, n \in Nat : m >= Least(n - 1, MaxLevel) => Doubled(m) >= Least(n, MaxLevel)
  BY <1>1 DEF Doubled, Least
<1>3. RustLevel \in Nat /\ (retryCount > Patience => RustLevel > 0)
  BY <1>1, <1>2 DEF RustLevel, TypeInv
<1>4. SwiftLevel \in Nat /\ (retryCount >= Patience => SwiftLevel > 0)
  <2>1. CASE retryCount >= Patience /\ level = 0
    BY <2>1 DEF SwiftLevel
  <2>2. CASE level > 0
    BY <1>2, <2>2 DEF SwiftLevel, TypeInv
  <2>3. CASE ~(retryCount >= Patience) /\ level = 0
    BY <2>3 DEF SwiftLevel, TypeInv
  <2> QED
    BY <2>1, <2>2, <2>3 DEF TypeInv
<1> QED
  BY <1>2, <1>3, <1>4

\* Rust.
LEMMA RustStep == SourceInv /\ Rust => SourceInv'
<1> SUFFICES ASSUME SourceInv, Rust PROVE SourceInv'
  OBVIOUS
<1> USE DEF SourceInv, TypeInv, LateAfterStop, StopsAtOnce, Unwinding, Counted, SparesTheServer
<1>0. MaxRetry \in Nat /\ Patience \in Nat
  BY BoundsAreNaturals
<1>1. CASE RustGivesUp
  BY <1>0, <1>1 DEF RustGivesUp, history
<1>2. CASE RustStreamEnds
  BY <1>0, <1>2 DEF RustStreamEnds, RustEnd, RustRetry
<1>3. ASSUME NEW s \in Stops, RustOpens(s) PROVE SourceInv'
  <2>1. RustLevel \in Nat /\ s \in BOOLEAN /\ (stop => ~s)
    BY <1>3, DelayFacts, StopIsBoolean
  <2>2. CASE s
    BY <1>0, <1>3, <2>1, <2>2 DEF RustOpens, Call
  <2>3. CASE ~s
    BY <1>0, <1>3, <2>1, <2>3 DEF RustOpens, Call
  <2> QED
    BY <2>2, <2>3
<1>4. ASSUME NEW s \in Stops, RustFails(s) PROVE SourceInv'
  <2>1. RustLevel \in Nat /\ (retryCount > Patience => RustLevel > 0) /\ s \in BOOLEAN /\ (stop => ~s)
    BY <1>4, DelayFacts, StopIsBoolean
  <2>2. CASE s
    BY <1>0, <1>4, <2>1, <2>2 DEF RustFails, RustEnd, RustRetry, Call, NotClosed
  <2>3. CASE ~s
    BY <1>0, <1>4, <2>1, <2>3 DEF RustFails, RustEnd, RustRetry, Call, NotClosed
  <2> QED
    BY <2>2, <2>3
<1>5. ASSUME NEW evs \in Chunks, NEW k \in 0 .. Len(evs), RustChunk(evs, k) PROVE SourceInv'
  <2>1. CASE stop
    BY <1>0, <1>5, <2>1 DEF RustChunk, NoCall, NotClosed
  <2>2. CASE ~stop
    <3> DEFINE o == Outcome(evs, k, RustChecks)
    <3>1. /\ o.stop \in BOOLEAN /\ o.late \in BOOLEAN
          /\ o.done => o.ended
          /\ o.stop => k # 0 /\ evs[k] \in Callbacks
          /\ o.stop /\ evs[k] \in RustChecks => o.ended
          /\ ~late /\ (o.stop => evs[k] \in RustChecks) => ~o.late
          /\ ~late /\ o.late => o.stop
      <4>1. RustChecks \subseteq Callbacks
        BY DEF RustChecks, Callbacks
      <4> QED
        BY <2>2, <4>1, OutcomeFacts
    <3>2. /\ stop' = o.stop /\ late' = o.late
          /\ phase' = IF o.ended THEN "stopped" ELSE "stream"
          /\ closes' = IF o.done THEN closes + 1 ELSE closes
          /\ escaped' = (k # 0 /\ evs[k] \in Callbacks \ RustChecks)
          /\ phase = "stream" /\ client = "rust"
          /\ UNCHANGED <<client, cancelled, retryCount, level, lastId, stack, failures>>
      BY <1>5, <2>2 DEF RustChunk, Heard, Closed, NotClosed
    <3> HIDE DEF o
    <3>3. ~late /\ closes = 0
      BY <2>2, <3>2
    <3> QED
      BY <1>0, <2>2, <3>1, <3>2, <3>3
  <2> QED
    BY <2>1, <2>2
<1> QED
  BY <1>1, <1>2, <1>3, <1>4, <1>5 DEF Rust

\* Swift.
LEMMA HandleRetryFacts ==
  ASSUME TypeInv, HandleRetry
  PROVE  \/ retryCount > MaxRetry /\ phase' = "stopped" /\ UNCHANGED <<retryCount, level>>
         \/ /\ retryCount <= MaxRetry /\ phase' = "start" /\ retryCount' = retryCount + 1
            /\ level' \in Nat /\ (retryCount >= Patience => level' > 0)
<1>1. MaxRetry \in Nat /\ retryCount \in Nat
  BY BoundsAreNaturals DEF TypeInv
<1>2. CASE retryCount > MaxRetry
  BY <1>2 DEF HandleRetry
<1>3. CASE ~(retryCount > MaxRetry)
  BY <1>1, <1>3, DelayFacts DEF HandleRetry
<1> QED
  BY <1>2, <1>3

\* A request of Swift that the user stops, or that is retried.
LEMMA SwiftAgain ==
  ASSUME SourceInv, client = "swift", phase \in {"start", "stream"}, NEW s \in BOOLEAN,
         stop => escaped, stop' = (stop \/ s), late' = (late \/ stop),
         failures' = failures + 1,
         UNCHANGED <<client, cancelled, lastId, stack, escaped>>,
         \/ phase' = "stopped" /\ UNCHANGED <<retryCount, level>> /\ closes' \in {closes, closes + 1}
         \/ ~s /\ HandleRetry /\ closes' = closes
  PROVE  SourceInv'
<1> USE DEF SourceInv, TypeInv, LateAfterStop, StopsAtOnce, Unwinding, Counted, SparesTheServer
<1>0. MaxRetry \in Nat /\ Patience \in Nat /\ closes = 0
  BY BoundsAreNaturals
<1>1. stop' \in BOOLEAN /\ late' \in BOOLEAN /\ (late' => stop')
  OBVIOUS
<1>2. CASE phase' = "stopped" /\ UNCHANGED <<retryCount, level>> /\ closes' \in {closes, closes + 1}
  BY <1>0, <1>1, <1>2
<1>3. CASE ~s /\ HandleRetry /\ closes' = closes
  <2>1. \/ retryCount > MaxRetry /\ phase' = "stopped" /\ UNCHANGED <<retryCount, level>>
        \/ /\ retryCount <= MaxRetry /\ phase' = "start" /\ retryCount' = retryCount + 1
           /\ level' \in Nat /\ (retryCount >= Patience => level' > 0)
    BY <1>3, HandleRetryFacts
  <2>2. stop' = stop
    BY <1>3
  <2> QED
    BY <1>0, <1>1, <1>3, <2>1, <2>2
<1> QED
  BY <1>2, <1>3

LEMMA SwiftChunkStep ==
  ASSUME SourceInv, NEW evs \in Chunks, NEW k \in 0 .. Len(evs), NEW id \in Ids, SwiftChunk(evs, k, id)
  PROVE  SourceInv'
<1> USE DEF SourceInv, TypeInv, LateAfterStop, StopsAtOnce, Unwinding, Counted, SparesTheServer
<1> DEFINE o == Outcome(evs, k, Checks)
<1>0. MaxRetry \in Nat /\ Patience \in Nat
  BY BoundsAreNaturals
<1>1. /\ o.stop \in BOOLEAN /\ o.late \in BOOLEAN
      /\ stop => o.stop
      /\ ~stop /\ o.stop => o.ended /\ evs[k] \in Checks
      /\ ~stop /\ ~late /\ (o.stop => evs[k] \in Checks) => ~o.late
      /\ ~stop /\ ~late /\ o.late => o.stop
  BY OutcomeFacts DEF Checks
<1>2. /\ stop' = o.stop /\ late' = o.late
      /\ o.ended => phase' = "stopped" /\ closes' = closes + 1
      /\ ~o.ended => phase' = "stream" /\ closes' = closes
      /\ phase = "stream" /\ client = "swift" /\ lastId' = id
      /\ UNCHANGED <<client, cancelled, retryCount, level, stack, failures, escaped>>
  BY DEF SwiftChunk, Heard, Closed, NotClosed
<1>3. id \in Nat
  BY DEF Ids
<1> HIDE DEF o
<1>4. closes = 0 /\ (stop => escaped) /\ (~stop => ~late)
  BY <1>2
<1> QED
  BY <1>0, <1>1, <1>2, <1>3, <1>4

LEMMA SwiftStep == SourceInv /\ Swift => SourceInv'
<1> SUFFICES ASSUME SourceInv, Swift PROVE SourceInv'
  OBVIOUS
<1> USE DEF SourceInv, TypeInv, LateAfterStop, StopsAtOnce, Unwinding, Counted, SparesTheServer
<1>0. MaxRetry \in Nat /\ Patience \in Nat
  BY BoundsAreNaturals
<1>1. ASSUME NEW s \in Stops, SwiftFails(s) PROVE SourceInv'
  BY <1>1, SwiftAgain, StopIsBoolean DEF SwiftFails, Call, NotClosed, SwiftStops
<1>2. ASSUME NEW s \in Stops, SwiftRefused(s) PROVE SourceInv'
  BY <1>2, SwiftAgain, StopIsBoolean DEF SwiftRefused, Call, Closed, NotClosed, SwiftStops
<1>3. ASSUME NEW s \in Stops, SwiftOpens(s) PROVE SourceInv'
  <2>1. s \in BOOLEAN /\ (stop => ~s)
    BY <1>3, StopIsBoolean
  <2>2. CASE s
    BY <1>0, <1>3, <2>1, <2>2 DEF SwiftOpens, Call, Closed, SwiftStops
  <2>3. CASE ~s
    BY <1>0, <1>3, <2>1, <2>3 DEF SwiftOpens, Call, NotClosed
  <2> QED
    BY <2>2, <2>3
<1>4. ASSUME NEW s \in Stops, NEW broke \in BOOLEAN, SwiftStreamEnds(broke, s) PROVE SourceInv'
  <2>1. s \in BOOLEAN
    BY <1>4, StopIsBoolean
  <2>2. CASE broke
    BY <1>4, <2>1, <2>2, SwiftAgain DEF SwiftStreamEnds, Call, Closed, NotClosed, SwiftStops
  <2>3. CASE ~broke
    <3>1. /\ client = "swift" /\ phase = "stream" /\ HandleRetry /\ failures' = failures + 1
          /\ UNCHANGED <<stop, late, closes, client, cancelled, lastId, stack, escaped>>
      BY <1>4, <2>3 DEF SwiftStreamEnds, NoCall, NotClosed
    <3>2. \/ retryCount > MaxRetry /\ phase' = "stopped" /\ UNCHANGED <<retryCount, level>>
          \/ /\ retryCount <= MaxRetry /\ phase' = "start" /\ retryCount' = retryCount + 1
             /\ level' \in Nat /\ (retryCount >= Patience => level' > 0)
      BY <3>1, HandleRetryFacts
    <3> QED
      BY <1>0, <3>1, <3>2
  <2> QED
    BY <2>2, <2>3
<1>5. ASSUME NEW evs \in Chunks, NEW id \in Ids, NEW k \in 0 .. Len(evs), SwiftChunk(evs, k, id)
      PROVE  SourceInv'
  BY <1>5, SwiftChunkStep
<1> QED
  BY <1>1, <1>2, <1>3, <1>4, <1>5 DEF Swift

LEMMA SwiftCancelledStep == SourceInv /\ SwiftCancelled => SourceInv'
<1> SUFFICES ASSUME SourceInv, SwiftCancelled PROVE SourceInv'
  OBVIOUS
<1>0. MaxRetry \in Nat /\ Patience \in Nat
  BY BoundsAreNaturals
<1>1. CASE phase = "stream"
  BY <1>0, <1>1 DEF SwiftCancelled, SwiftStops, Closed, history, SourceInv, TypeInv, LateAfterStop, StopsAtOnce,
     Unwinding, Counted, SparesTheServer
<1>2. CASE phase # "stream"
  BY <1>0, <1>2 DEF SwiftCancelled, SwiftStops, NotClosed, history, SourceInv, TypeInv, LateAfterStop, StopsAtOnce,
     Unwinding, Counted, SparesTheServer
<1> QED
  BY <1>1, <1>2

\* Kotlin: a retry leaves a frame of the right shape.
LEMMA AgainFacts ==
  ASSUME TypeInv, NEW at \in {"execute", "catch"}, NEW delay \in Nat, Again(at, delay)
  PROVE  stack' \in Seq(CallFrame) /\ level' = delay /\ phase' = "start" /\ lastId' = lastId
<1>1. Frame(at, delay) \in CallFrame
  BY DEF Frame, CallFrame, TypeInv
<1> QED
  BY <1>1 DEF Again, TypeInv

\* A step of Kotlin in which the user may stop: the source stops or throws, or,
\* if he does not, goes on with a request whose delay has grown as it must.
LEMMA KotlinAgain ==
  ASSUME SourceInv, client = "kotlin", phase \in {"start", "stream", "unwind"}, NEW s \in BOOLEAN,
         stop => escaped, stop' = (stop \/ s), late' = (late \/ stop),
         escaped' \in BOOLEAN, escaped => escaped', failures' \in Nat, closes' \in {closes, closes + 1},
         lastId' \in Nat, level' \in Nat, stack' \in Seq(CallFrame),
         UNCHANGED <<client, cancelled, retryCount>>,
         \/ phase' = "stopped"
         \/ phase' = "unwind" /\ (escaped' \/ cancelled) /\ (s => escaped') /\ closes' = closes
         \/ /\ phase' = "start" /\ (s => escaped') /\ closes' = closes
            /\ ~escaped' /\ ~cancelled => level' >= Least(failures' - 1, MaxLevel)
  PROVE  SourceInv'
<1>1. TypeInv' /\ LateAfterStop' /\ Unwinding' /\ Counted'
  BY DEF SourceInv, TypeInv, LateAfterStop, Unwinding, Counted
<1>2. StopsAtOnce'
  BY DEF SourceInv, TypeInv, LateAfterStop, StopsAtOnce
<1>3. SparesTheServer'
  BY DEF SparesTheServer
<1> QED
  BY <1>1, <1>2, <1>3 DEF SourceInv

LEMMA KotlinFailsStep ==
  ASSUME SourceInv, NEW s \in Stops, KotlinFails(s) PROVE SourceInv'
<1>1. /\ client = "kotlin" /\ phase = "start" /\ s \in BOOLEAN /\ (stop => escaped)
      /\ stop' = (stop \/ s) /\ late' = (late \/ stop) /\ closes' = closes
      /\ escaped' = (escaped \/ s) /\ failures' = failures + 1
      /\ UNCHANGED <<client, cancelled, retryCount>>
  BY StopIsBoolean DEF SourceInv, TypeInv, StopsAtOnce, KotlinFails, InKotlin, Call, NotClosed
<1>2. TypeInv /\ level \in Nat /\ failures \in Nat
  BY DEF SourceInv, TypeInv
<1>3. CASE s
  <2>1. phase' = "unwind" /\ UNCHANGED <<stack, level, lastId>> /\ escaped' /\ (s => escaped')
    BY <1>1, <1>3 DEF KotlinFails, Throw
  <2>2. /\ escaped' \in BOOLEAN /\ failures' \in Nat /\ lastId' \in Nat /\ level' \in Nat
        /\ stack' \in Seq(CallFrame) /\ (escaped => escaped') /\ closes' \in {closes, closes + 1}
    BY <1>1, <1>2, <2>1 DEF TypeInv
  <2> QED
    BY <1>1, <2>1, <2>2, KotlinAgain
<1>4. CASE ~s
  <2>1. level \in Nat /\ Doubled(level) \in Nat
    BY <1>2, DelayFacts
  <2>2. stack' \in Seq(CallFrame) /\ level' = Doubled(level) /\ phase' = "start" /\ lastId' = lastId
    BY <1>2, <1>4, <2>1, AgainFacts DEF KotlinFails
  <2>3. ~escaped' /\ ~cancelled => level' >= Least(failures' - 1, MaxLevel)
    <3> SUFFICES ASSUME ~escaped', ~cancelled PROVE level' >= Least(failures' - 1, MaxLevel)
      OBVIOUS
    <3>1. level >= Least(failures - 1, MaxLevel)
      BY <1>1 DEF SourceInv, SparesTheServer
    <3>2. Doubled(level) >= Least(failures, MaxLevel)
      BY <1>2, <3>1, DelayFacts
    <3>3. failures' - 1 = failures
      BY <1>1, <1>2
    <3> QED
      BY <2>2, <3>2, <3>3
  <2>4. escaped' \in BOOLEAN /\ failures' \in Nat /\ lastId' \in Nat
    BY <1>1, <1>2, <2>2 DEF TypeInv
  <2> QED
    BY <1>1, <1>4, <2>1, <2>2, <2>3, <2>4, KotlinAgain
<1> QED
  BY <1>1, <1>3, <1>4

LEMMA KotlinRefusedStep ==
  ASSUME SourceInv, NEW s \in Stops, NEW status \in BOOLEAN, KotlinRefused(s, status) PROVE SourceInv'
<1>1. /\ client = "kotlin" /\ phase = "start" /\ s \in BOOLEAN /\ (stop => escaped)
      /\ stop' = (stop \/ s) /\ late' = (late \/ stop)
      /\ escaped' = escaped /\ failures' = failures + 1
      /\ UNCHANGED <<client, cancelled, retryCount>>
  BY StopIsBoolean DEF SourceInv, TypeInv, StopsAtOnce, KotlinRefused, InKotlin, Call
<1>2. TypeInv /\ level \in Nat /\ failures \in Nat
  BY DEF SourceInv, TypeInv
<1>3. CASE s
  <2>1. phase' = "stopped" /\ UNCHANGED <<stack, level, lastId>> /\ closes' \in {closes, closes + 1}
    BY <1>1, <1>3 DEF KotlinRefused, Return, Closed, NotClosed
  <2>2. /\ escaped' \in BOOLEAN /\ failures' \in Nat /\ lastId' \in Nat /\ level' \in Nat
        /\ stack' \in Seq(CallFrame) /\ (escaped => escaped')
    BY <1>1, <1>2, <2>1 DEF TypeInv
  <2> QED
    BY <1>1, <2>1, <2>2, KotlinAgain
<1>4. CASE ~s
  <2>1. level \in Nat /\ Doubled(level) \in Nat
    BY <1>2, DelayFacts
  <2>2. stack' \in Seq(CallFrame) /\ level' = Doubled(level) /\ phase' = "start" /\ lastId' = lastId
        /\ closes' = closes
    BY <1>2, <1>4, <2>1, AgainFacts DEF KotlinRefused, NotClosed
  <2>3. ~escaped' /\ ~cancelled => level' >= Least(failures' - 1, MaxLevel)
    <3> SUFFICES ASSUME ~escaped', ~cancelled PROVE level' >= Least(failures' - 1, MaxLevel)
      OBVIOUS
    <3>1. level >= Least(failures - 1, MaxLevel)
      BY <1>1 DEF SourceInv, SparesTheServer
    <3>2. Doubled(level) >= Least(failures, MaxLevel)
      BY <1>2, <3>1, DelayFacts
    <3>3. failures' - 1 = failures
      BY <1>1, <1>2
    <3> QED
      BY <2>2, <3>2, <3>3
  <2>4. escaped' \in BOOLEAN /\ failures' \in Nat /\ lastId' \in Nat
    BY <1>1, <1>2, <2>2 DEF TypeInv
  <2> QED
    BY <1>1, <1>4, <2>1, <2>2, <2>3, <2>4, KotlinAgain
<1> QED
  BY <1>1, <1>3, <1>4

LEMMA KotlinOpensStep ==
  ASSUME SourceInv, NEW s \in Stops, KotlinOpens(s) PROVE SourceInv'
<1> USE DEF SourceInv, TypeInv, LateAfterStop, StopsAtOnce, Unwinding, Counted, SparesTheServer
<1>1. /\ client = "kotlin" /\ phase = "start" /\ s \in BOOLEAN
      /\ stop' = (stop \/ s) /\ late' = (late \/ stop) /\ closes = 0
      /\ UNCHANGED <<client, cancelled, retryCount, stack, level, lastId, escaped>>
  BY StopIsBoolean DEF KotlinOpens, InKotlin, Call, Return
<1>2. CASE s
  BY <1>1, <1>2 DEF KotlinOpens, Return, Closed
<1>3. CASE ~s
  BY <1>1, <1>3 DEF KotlinOpens, NotClosed
<1> QED
  BY <1>1, <1>2, <1>3

LEMMA KotlinChunkStep ==
  ASSUME SourceInv, NEW evs \in Chunks, NEW k \in 0 .. Len(evs), NEW id \in Ids, KotlinChunk(evs, k, id)
  PROVE  SourceInv'
<1> USE DEF SourceInv, TypeInv, LateAfterStop, StopsAtOnce, Unwinding, Counted, SparesTheServer
<1> DEFINE o == Outcome(evs, k, Checks)
<1>1. /\ o.stop \in BOOLEAN /\ o.late \in BOOLEAN
      /\ stop => o.stop
      /\ ~stop /\ o.stop => o.ended /\ evs[k] \in Checks
      /\ ~stop /\ ~late /\ (o.stop => evs[k] \in Checks) => ~o.late
      /\ ~stop /\ ~late /\ o.late => o.stop
  BY OutcomeFacts DEF Checks
<1>2. /\ stop' = o.stop /\ late' = o.late
      /\ o.ended => phase' = "stopped" /\ closes' = closes + 1
      /\ ~o.ended => phase' = "stream" /\ closes' = closes
      /\ phase = "stream" /\ client = "kotlin" /\ lastId' = id
      /\ UNCHANGED <<client, cancelled, retryCount, level, stack, failures, escaped>>
  BY DEF KotlinChunk, InKotlin, Heard, Closed, NotClosed
<1>3. id \in Nat
  BY DEF Ids
<1> HIDE DEF o
<1>4. closes = 0 /\ (stop => escaped) /\ (~stop => ~late)
  BY <1>2
<1> QED
  BY <1>1, <1>2, <1>3, <1>4

LEMMA KotlinStreamEndsStep ==
  ASSUME SourceInv, KotlinStreamEnds PROVE SourceInv'
<1>1. /\ client = "kotlin" /\ phase = "stream" /\ failures = 0 /\ (stop => escaped) /\ TypeInv
      /\ Again("execute", 0) /\ failures' = failures + 1
      /\ UNCHANGED <<stop, late, closes, escaped, client, cancelled, retryCount>>
  BY DEF SourceInv, TypeInv, StopsAtOnce, Counted, KotlinStreamEnds, InKotlin
<1>2. stack' \in Seq(CallFrame) /\ level' = 0 /\ phase' = "start" /\ lastId' = lastId
  BY <1>1, AgainFacts
<1>3. 0 >= Least(failures' - 1, MaxLevel)
  BY <1>1, BoundsAreNaturals DEF Least
<1>4. TypeInv' /\ LateAfterStop' /\ Unwinding' /\ Counted' /\ StopsAtOnce' /\ SparesTheServer'
  BY <1>1, <1>2, <1>3 DEF SourceInv, TypeInv, LateAfterStop, StopsAtOnce, Unwinding, Counted, SparesTheServer
<1> QED
  BY <1>4 DEF SourceInv

LEMMA KotlinStreamBreaksStep ==
  ASSUME SourceInv, NEW s \in Stops, KotlinStreamBreaks(s) PROVE SourceInv'
<1>1. /\ client = "kotlin" /\ phase = "stream" /\ s \in BOOLEAN /\ (stop => escaped) /\ TypeInv
      /\ stop' = (stop \/ s) /\ late' = (late \/ stop) /\ closes' = closes
      /\ escaped' = (escaped \/ s) /\ failures' = failures + 1 /\ failures = 0
      /\ UNCHANGED <<client, cancelled, retryCount>>
      /\ IF s THEN Throw ELSE Again("catch", 0)
  BY StopIsBoolean DEF SourceInv, TypeInv, StopsAtOnce, Counted, KotlinStreamBreaks, InKotlin, Call, NotClosed
<1>2. CASE s
  <2>1. phase' = "unwind" /\ UNCHANGED <<stack, level, lastId>> /\ escaped' /\ (s => escaped')
    BY <1>1, <1>2 DEF Throw
  <2>2. /\ escaped' \in BOOLEAN /\ failures' \in Nat /\ lastId' \in Nat /\ level' \in Nat
        /\ stack' \in Seq(CallFrame) /\ (escaped => escaped') /\ closes' \in {closes, closes + 1}
    BY <1>1, <2>1 DEF TypeInv
  <2> QED
    BY <1>1, <2>1, <2>2, KotlinAgain
<1>3. CASE ~s
  <2>1. stack' \in Seq(CallFrame) /\ level' = 0 /\ phase' = "start" /\ lastId' = lastId
    BY <1>1, <1>3, AgainFacts
  <2>2. level' >= Least(failures' - 1, MaxLevel)
    BY <1>1, <2>1, BoundsAreNaturals DEF Least
  <2>3. escaped' \in BOOLEAN /\ failures' \in Nat /\ lastId' \in Nat /\ level' \in Nat /\ (s => escaped')
    BY <1>1, <1>3, <2>1 DEF TypeInv
  <2> QED
    BY <1>1, <2>1, <2>2, <2>3, KotlinAgain
<1> QED
  BY <1>1, <1>2, <1>3

\* An exception on its way out drops the frames above the one that catches it.
LEMMA KotlinUnwindsStep ==
  ASSUME SourceInv, NEW s \in Stops, KotlinUnwinds(s) PROVE SourceInv'
<1>1. /\ client = "kotlin" /\ phase = "unwind" /\ s \in BOOLEAN /\ (stop => escaped) /\ TypeInv
      /\ (escaped \/ cancelled) /\ escaped' = (escaped \/ s) /\ escaped' \in BOOLEAN
      /\ UNCHANGED <<client, cancelled, retryCount, closes, failures>>
  BY StopIsBoolean DEF SourceInv, TypeInv, StopsAtOnce, Unwinding, KotlinUnwinds, InKotlin
<1>2. CASE Reading = {}
  <2>1. phase' = "stopped" /\ UNCHANGED <<stack, level, lastId, stop, late>>
    BY <1>2 DEF KotlinUnwinds, Return, NoCall
  <2>2. TypeInv' /\ LateAfterStop' /\ Unwinding' /\ Counted' /\ SparesTheServer'
    BY <1>1, <2>1 DEF SourceInv, TypeInv, LateAfterStop, Unwinding, Counted, SparesTheServer
  <2>3. StopsAtOnce'
    BY <1>1, <2>1 DEF SourceInv, LateAfterStop, StopsAtOnce
  <2> QED
    BY <2>2, <2>3 DEF SourceInv
<1>3. CASE Reading # {}
  <2> DEFINE i == CHOOSE i \in Reading : \A j \in Reading : j <= i
             frame == stack[i]
  <2>1. i \in DOMAIN stack
    <3>1. Reading \in SUBSET Nat /\ Len(stack) \in Nat /\ \A j \in Reading : j <= Len(stack)
      BY <1>1 DEF Reading, TypeInv
    <3>2. \E n \in Reading : \A j \in Reading : j <= n
      BY <1>3, <3>1, GreatestMember
    <3> QED
      BY <3>2 DEF Reading
  <2> HIDE DEF i
  <2>2. frame \in CallFrame /\ SubSeq(stack, 1, i - 1) \in Seq(CallFrame)
    BY <1>1, <2>1 DEF TypeInv
  <2>3. frame.level \in Nat /\ frame.id \in Nat /\ [frame EXCEPT !.at = "catch"] \in CallFrame
    BY <2>2 DEF CallFrame
  <2>4. /\ stop' = (stop \/ s) /\ late' = (late \/ stop)
        /\ stack' = Append(SubSeq(stack, 1, i - 1), [frame EXCEPT !.at = "catch"])
        /\ IF s THEN phase' = "unwind" /\ UNCHANGED <<level, lastId>>
                ELSE phase' = "start" /\ level' = frame.level /\ lastId' = frame.id
    BY <1>3 DEF KotlinUnwinds, Call, i
  <2>5. stack' \in Seq(CallFrame) /\ level' \in Nat /\ lastId' \in Nat
    BY <1>1, <2>2, <2>3, <2>4 DEF TypeInv
  <2>6. failures' \in Nat /\ closes' \in {closes, closes + 1} /\ closes' = closes
    BY <1>1 DEF TypeInv
  <2>7. phase' \in {"start", "unwind"} /\ (escaped' \/ cancelled) /\ (s => escaped')
    BY <1>1, <2>4
  <2> HIDE DEF frame
  <2> QED
    BY <1>1, <2>4, <2>5, <2>6, <2>7, KotlinAgain
<1> QED
  BY <1>2, <1>3

LEMMA KotlinCancelledStep ==
  ASSUME SourceInv, KotlinCancelled PROVE SourceInv'
<1>1. /\ client = "kotlin" /\ phase \in {"start", "stream"} /\ (stop => escaped) /\ TypeInv /\ cancelled
      /\ UNCHANGED <<client, cancelled, retryCount, closes, failures, escaped>>
  BY DEF SourceInv, TypeInv, StopsAtOnce, KotlinCancelled, InKotlin
<1>2. escaped' \in BOOLEAN /\ failures' \in Nat /\ closes' \in {closes, closes + 1}
  BY <1>1 DEF TypeInv
<1>3. CASE Throw /\ NoCall
  <2>1. phase' = "unwind" /\ UNCHANGED <<stack, level, lastId, stop, late>>
    BY <1>3 DEF Throw, NoCall
  <2>2. TypeInv' /\ LateAfterStop' /\ Unwinding' /\ Counted' /\ SparesTheServer' /\ StopsAtOnce'
    BY <1>1, <2>1 DEF SourceInv, TypeInv, LateAfterStop, Unwinding, Counted, SparesTheServer, StopsAtOnce
  <2> QED
    BY <2>2 DEF SourceInv
<1>4. ASSUME NEW delay \in {0, 1}, Again("catch", delay), Call(FALSE) PROVE SourceInv'
  <2>1. stack' \in Seq(CallFrame) /\ level' = delay /\ phase' = "start" /\ lastId' = lastId
    BY <1>1, <1>4, AgainFacts
  <2>2. level' \in Nat /\ lastId' \in Nat /\ FALSE \in BOOLEAN
    BY <1>1, <2>1 DEF TypeInv
  <2> QED
    BY <1>1, <1>2, <1>4, <2>1, <2>2, KotlinAgain DEF Call
<1> QED
  BY <1>3, <1>4 DEF KotlinCancelled

LEMMA KotlinStep == SourceInv /\ Kotlin => SourceInv'
BY KotlinStreamEndsStep, KotlinFailsStep, KotlinOpensStep, KotlinStreamBreaksStep, KotlinRefusedStep,
   KotlinChunkStep DEF Kotlin
-----------------------------------------------------------------------------
LEMMA SourceStep == SourceInv /\ [Next]_vars => SourceInv'
<1> SUFFICES ASSUME SourceInv, [Next]_vars PROVE SourceInv'
  OBVIOUS
<1>1. CASE Cancel
  BY <1>1 DEF Cancel, history, SourceInv, TypeInv, LateAfterStop, StopsAtOnce, Unwinding, Counted, SparesTheServer
<1>2. CASE Unwind
  BY <1>2, SwiftCancelledStep, KotlinCancelledStep, KotlinUnwindsStep DEF Unwind
<1>3. CASE UNCHANGED vars
  BY <1>3 DEF vars, SourceInv, TypeInv, LateAfterStop, StopsAtOnce, Unwinding, Counted, SparesTheServer
<1> QED
  BY <1>1, <1>2, <1>3, RustStep, SwiftStep, KotlinStep DEF Next

\* A source the user stops makes no further call and no further request, where
\* it looks at the stop at all, and is closed at most once (the loops of sse.rs
\* and ArriClient.swift, __handleSseRequest of the Kotlin generator).
THEOREM StopsAtOnceCorrect == Spec => []StopsAtOnce
<1>1. SourceInv => StopsAtOnce
  BY DEF SourceInv
<1> QED
  BY <1>1, SourceInit, SourceStep, PTL DEF Spec

\* However the server fails, the requests in a row keep to the limit of Rust and
\* Swift, and the delays grow (listen, handleRetry, __handleSseRequest).
THEOREM SparesTheServerCorrect == Spec => []SparesTheServer
<1>1. SourceInv => SparesTheServer
  BY DEF SourceInv
<1> QED
  BY <1>1, SourceInit, SourceStep, PTL DEF Spec

\* The ids of the waiting calls are in the order of the calls, and the source's
\* own is the newest.
Nested ==
  /\ \A i \in DOMAIN stack : stack[i].id <= lastId
  /\ \A i, j \in DOMAIN stack : i <= j => stack[i].id <= stack[j].id

\* Ids only grow while no call returns.
LEMMA NestedGrows ==
  ASSUME TypeInv, Nested, UNCHANGED stack, lastId' \in Nat, lastId' >= lastId
  PROVE  Nested'
<1>1. lastId \in Nat /\ \A i \in DOMAIN stack : stack[i].id \in Nat
  <2>1. lastId \in Nat /\ stack \in Seq(CallFrame)
    BY DEF TypeInv
  <2>2. \A i \in DOMAIN stack : stack[i] \in CallFrame
    BY <2>1
  <2>3. \A call \in CallFrame : call.id \in Nat
    BY DEF CallFrame
  <2> QED
    BY <2>1, <2>2, <2>3
<1> QED
  BY <1>1 DEF Nested

\* A further call has the newest id.
LEMMA NestedAgain ==
  ASSUME TypeInv, Nested, NEW at \in {"execute", "catch"}, NEW delay \in Nat, Again(at, delay)
  PROVE  Nested'
<1>1. /\ stack \in Seq(CallFrame) /\ lastId \in Nat /\ lastId' = lastId
      /\ stack' = Append(stack, Frame(at, delay)) /\ Frame(at, delay).id = lastId
  BY DEF TypeInv, Again, Frame
<1>2. /\ Len(stack) \in Nat /\ DOMAIN stack = 1 .. Len(stack) /\ DOMAIN stack' = 1 .. Len(stack) + 1
      /\ \A i \in 1 .. Len(stack) : stack'[i] = stack[i]
      /\ stack'[Len(stack) + 1] = Frame(at, delay)
  BY <1>1 DEF Frame, CallFrame
<1>3. \A i \in DOMAIN stack' : stack'[i].id <= lastId'
  BY <1>1, <1>2 DEF Nested
<1>4. \A i, j \in DOMAIN stack' : i <= j => stack'[i].id <= stack'[j].id
  BY <1>1, <1>2 DEF Nested
<1> QED
  BY <1>3, <1>4 DEF Nested

\* An exception that a call catches leaves the calls outside it, whose ids are
\* not newer than its own.
LEMMA NestedUnwinds ==
  ASSUME SourceInv, Nested, NEW s \in Stops, KotlinUnwinds(s)
  PROVE  Nested'
<1>1. stack \in Seq(CallFrame) /\ lastId \in Nat
  BY DEF SourceInv, TypeInv
<1>2. CASE Reading = {}
  BY <1>2 DEF KotlinUnwinds, Return, Nested
<1>3. CASE Reading # {}
  <2> DEFINE i == CHOOSE i \in Reading : \A j \in Reading : j <= i
             frame == stack[i]
             caught == [frame EXCEPT !.at = "catch"]
  <2>1. i \in DOMAIN stack
    <3>1. Reading \in SUBSET Nat /\ Len(stack) \in Nat /\ \A j \in Reading : j <= Len(stack)
      BY <1>1 DEF Reading
    <3>2. \E n \in Reading : \A j \in Reading : j <= n
      BY <1>3, <3>1, GreatestMember
    <3> QED
      BY <3>2 DEF Reading
  <2>2. /\ stack' = Append(SubSeq(stack, 1, i - 1), caught)
        /\ lastId' \in {lastId, frame.id}
    BY <1>3 DEF KotlinUnwinds
  <2> HIDE DEF i
  <2>3. i \in 1 .. Len(stack) /\ Len(stack) \in Nat /\ frame \in CallFrame
    BY <1>1, <2>1
  <2>4. caught \in CallFrame /\ caught.id = frame.id
    BY <2>3 DEF CallFrame
  <2>5. /\ SubSeq(stack, 1, i - 1) \in Seq(CallFrame) /\ Len(SubSeq(stack, 1, i - 1)) = i - 1
        /\ \A n \in 1 .. i - 1 : SubSeq(stack, 1, i - 1)[n] = stack[n]
    BY <1>1, <2>3
  <2> HIDE DEF caught
  <2>6. /\ DOMAIN stack' = 1 .. i /\ stack'[i] = caught
        /\ \A n \in 1 .. i - 1 : stack'[n] = stack[n]
    BY <2>2, <2>3, <2>4, <2>5
  <2>7. \A n \in 1 .. i : stack'[n].id = stack[n].id
    <3> TAKE n \in 1 .. i
    <3>1. n = i \/ n \in 1 .. i - 1
      BY <2>3
    <3> QED
      BY <2>4, <2>6, <3>1
  <2>8. \A n \in 1 .. i : stack[n].id <= frame.id /\ stack[n].id <= lastId /\ n \in DOMAIN stack
    BY <1>1, <2>3 DEF Nested
  <2> HIDE DEF frame
  <2>9. \A n \in DOMAIN stack' : stack'[n].id <= lastId'
    BY <2>2, <2>6, <2>7, <2>8
  <2>10. \A m, n \in DOMAIN stack' : m <= n => stack'[m].id <= stack'[n].id
    BY <2>6, <2>7, <2>8 DEF Nested
  <2> QED
    BY <2>9, <2>10 DEF Nested
<1> QED
  BY <1>2, <1>3

LEMMA NestedStep == SourceInv /\ Nested /\ [Next]_vars => Nested'
<1> SUFFICES ASSUME SourceInv, Nested, [Next]_vars PROVE Nested'
  OBVIOUS
<1>1. TypeInv /\ lastId \in Nat /\ level \in Nat /\ MaxLevel \in Nat \ {0}
  BY BoundsAreNaturals DEF SourceInv, TypeInv
<1>2. 0 \in Nat /\ 1 \in Nat /\ Doubled(level) \in Nat
  BY <1>1 DEF Doubled, Least
<1>3. CASE Rust
  <2>1. UNCHANGED <<stack, lastId>>
    BY <1>3 DEF Rust, RustGivesUp, RustStreamEnds, RustOpens, RustFails, RustChunk
  <2> QED
    BY <1>1, <2>1, NestedGrows
<1>4. CASE Swift
  <2>1. UNCHANGED stack /\ lastId' \in Nat /\ lastId' >= lastId
    BY <1>1, <1>4 DEF Swift, SwiftFails, SwiftRefused, SwiftOpens, SwiftStreamEnds, SwiftChunk, Ids
  <2> QED
    BY <1>1, <2>1, NestedGrows
<1>5. CASE Kotlin
  <2>1. ASSUME NEW evs \in Chunks, NEW id \in Ids, NEW k \in 0 .. Len(evs), KotlinChunk(evs, k, id)
        PROVE  Nested'
    BY <1>1, <2>1, NestedGrows DEF KotlinChunk, Ids
  <2>2. \/ Nested'
        \/ UNCHANGED <<stack, lastId>>
        \/ \E at \in {"execute", "catch"}, delay \in {0, Doubled(level)} : Again(at, delay)
    BY <1>5, <2>1 DEF Kotlin, KotlinStreamEnds, KotlinFails, KotlinOpens, KotlinStreamBreaks,
       KotlinRefused, Return, Throw
  <2> QED
    BY <1>1, <1>2, <2>2, NestedGrows, NestedAgain
<1>6. CASE Cancel \/ SwiftCancelled
  BY <1>1, <1>6, NestedGrows DEF Cancel, SwiftCancelled
<1>7. CASE KotlinCancelled
  <2>1. UNCHANGED <<stack, lastId>> \/ \E delay \in {0, 1} : Again("catch", delay)
    BY <1>7 DEF KotlinCancelled, Throw
  <2> QED
    BY <1>1, <1>2, <2>1, NestedGrows, NestedAgain
<1>8. CASE \E s \in Stops : KotlinUnwinds(s)
  BY <1>8, NestedUnwinds
<1>9. CASE UNCHANGED vars
  BY <1>1, <1>9, NestedGrows DEF vars
<1> QED
  BY <1>3, <1>4, <1>5, <1>6, <1>7, <1>8, <1>9 DEF Next, Unwind

\* An exception, whoever throws it and however deep the calls are nested, takes
\* the source to the id of the call that catches it, which none of the calls
\* still waiting has passed (the catch blocks of __handleSseRequest).
THEOREM GoesBackNoFurtherCorrect == Spec => []GoesBackNoFurther
<1>1. Init => Nested
  BY DEF Init, Nested
<1>2. SourceInv /\ Nested /\ [Next]_vars => Nested'
  BY NestedStep
<1>3. Nested => GoesBackNoFurther
  BY DEF Nested, GoesBackNoFurther
<1> QED
  BY <1>1, <1>2, <1>3, SourceInit, SourceStep, PTL DEF Spec
-----------------------------------------------------------------------------
(***************************************************************************)
(* The loops of SseParsers, member by member: of decoding, ...             *)
(***************************************************************************)
Decodings(C) == Seq(C \cup {"half", "char", "bad"})

\* A step of decoding stays among the texts.
LEMMA DecodedIsText ==
  ASSUME NEW C, NEW cs \in Decodings(C), NEW b \in C
  PROVE  Decoded(cs, b) \in Decodings(C)
<1>1. CASE b = "lo" /\ cs # <<>> /\ Last(cs) = "half"
  <2>1. Front(cs) \in Decodings(C)
    BY <1>1 DEF Decodings, Front
  <2> QED
    BY <1>1, <2>1 DEF Decoded, Decodings
<1>2. CASE ~ (b = "lo" /\ cs # <<>> /\ Last(cs) = "half")
  BY <1>2 DEF Decoded, Decodings
<1> QED
  BY <1>1, <1>2

\* Decoding goes byte by byte.
LEMMA LossyFacts ==
  ASSUME NEW C
  PROVE  /\ Lossy(<<>>) = <<>>
         /\ \A s \in Seq(C) : Lossy(s) \in Decodings(C)
         /\ \A s \in Seq(C), c \in C : Lossy(Append(s, c)) = Decoded(Lossy(s), c)
<1> DEFINE S == Decodings(C)
           F == [x \in S \X C |-> Decoded(x[1], x[2])]
<1>1. F \in Steps(S, C) /\ \A a \in S, c \in C : F[<<a, c>>] = Decoded(a, c)
  BY DecodedIsText DEF Steps
<1>2. <<>> \in S
  BY DEF Decodings
<1> HIDE DEF S, F
<1>3. PICK fold \in [Seq(C) -> S] :
           /\ fold[<<>>] = <<>>
           /\ \A s \in Seq(C), c \in C : fold[Append(s, c)] = F[<<fold[s], c>>]
           /\ \A s \in Seq(C) : \E at : Loop(S, F, <<>>, s, at) /\ at[Len(s)] = fold[s]
           /\ \A s \in Seq(C) : \A at : LoopWithin(S, F, <<>>, s, at) => at[Len(s)] = fold[s]
  BY <1>1, <1>2, FoldExists
<1>4. ASSUME NEW s \in Seq(C) PROVE Lossy(s) = fold[s]
  <2> DEFINE IsLoop(at) == at = [i \in 0 .. Len(s) |-> IF i = 0 THEN <<>> ELSE Decoded(at[i - 1], s[i])]
             states == CHOOSE at : IsLoop(at)
  <2>1. Lossy(s) = states[Len(s)]
    BY DEF Lossy
  <2>2. PICK at : Loop(S, F, <<>>, s, at)
    BY <1>3
  <2>3. IsLoop(at)
    <3>1. at = [i \in 0 .. Len(s) |-> at[i]]
      BY <2>2 DEF Loop
    <3>2. ASSUME NEW i \in 0 .. Len(s), i # 0 PROVE at[i] = Decoded(at[i - 1], s[i])
      <4>1. i \in 1 .. Len(s) /\ i - 1 \in 0 .. Len(s) /\ s[i] \in C
        BY <3>2
      <4>2. at[i - 1] \in S /\ at[i] = F[<<at[i - 1], s[i]>>]
        BY <2>2, <4>1 DEF Loop
      <4> QED
        BY <1>1, <4>1, <4>2
    <3>3. \A i \in 0 .. Len(s) : at[i] = IF i = 0 THEN <<>> ELSE Decoded(at[i - 1], s[i])
      BY <2>2, <3>2 DEF Loop
    <3> QED
      BY <3>1, <3>3
  <2>4. IsLoop(states)
    BY <2>3, Zenon
  <2>5. LoopWithin(S, F, <<>>, s, states)
    <3> HIDE DEF states
    <3>1. states[0] = <<>> /\ \A i \in 1 .. Len(s) : states[i] = Decoded(states[i - 1], s[i])
      BY <2>4
    <3> QED
      BY <1>1, <3>1 DEF LoopWithin
  <2> QED
    BY <1>3, <2>1, <2>5
<1>5. <<>> \in Seq(C)
  OBVIOUS
<1>6. ASSUME NEW s \in Seq(C), NEW c \in C PROVE Lossy(Append(s, c)) = Decoded(Lossy(s), c)
  <2>1. Append(s, c) \in Seq(C)
    OBVIOUS
  <2> QED
    BY <1>1, <1>3, <1>4, <2>1, ZenonT(40)
<1> QED
  BY <1>3, <1>4, <1>5, <1>6 DEF S

\* ... of splitting a text into lines, ...
Eol == {"n", "r"}
SplitStates(C) == [done : Seq(Seq(C \ Eol)), line : Seq(C \ Eol), cr : BOOLEAN]
NoLines == [done |-> <<>>, line |-> <<>>, cr |-> FALSE]

\* What one character does to the lines.
LEMMA SplitStepFacts ==
  ASSUME NEW C, NEW a \in SplitStates(C), NEW c \in C
  PROVE  /\ SplitStep(a, c) \in SplitStates(C)
         /\ c = "n" /\ a.cr => SplitStep(a, c) = [done |-> a.done, line |-> a.line, cr |-> FALSE]
         /\ c = "n" /\ ~ a.cr => SplitStep(a, c) = [done |-> Append(a.done, a.line), line |-> <<>>, cr |-> FALSE]
         /\ c = "r" => SplitStep(a, c) = [done |-> Append(a.done, a.line), line |-> <<>>, cr |-> TRUE]
         /\ c \notin Eol => SplitStep(a, c) = [done |-> a.done, line |-> Append(a.line, c), cr |-> FALSE]
<1> DEFINE closed == Append(a.done, a.line)
           longer == Append(a.line, c)
<1>1. a.done \in Seq(Seq(C \ Eol)) /\ a.line \in Seq(C \ Eol) /\ a = [done |-> a.done, line |-> a.line, cr |-> a.cr]
  BY DEF SplitStates
<1>2. closed \in Seq(Seq(C \ Eol)) /\ <<>> \in Seq(C \ Eol) /\ (c \notin Eol => longer \in Seq(C \ Eol))
  BY <1>1
<1> HIDE DEF closed, longer
<1>3. ASSUME c = "n", a.cr
      PROVE  SplitStep(a, c) = [done |-> a.done, line |-> a.line, cr |-> FALSE]
  <2>1. SplitStep(a, c) = [a EXCEPT !.cr = FALSE]
    BY <1>3 DEF SplitStep
  <2> QED
    BY <1>1, <2>1
<1>4. ASSUME c = "n", ~ a.cr
      PROVE  SplitStep(a, c) = [done |-> closed, line |-> <<>>, cr |-> FALSE]
  <2>1. SplitStep(a, c) = [done |-> closed, line |-> <<>>, cr |-> c = "r"]
    BY <1>4 DEF SplitStep, closed
  <2>2. (c = "r") = FALSE
    BY <1>4
  <2> QED
    BY <2>1, <2>2, Zenon
<1>5. ASSUME c = "r"
      PROVE  SplitStep(a, c) = [done |-> closed, line |-> <<>>, cr |-> TRUE]
  <2>1. SplitStep(a, c) = [done |-> closed, line |-> <<>>, cr |-> c = "r"]
    BY <1>5 DEF SplitStep, closed
  <2>2. (c = "r") = TRUE
    BY <1>5
  <2> QED
    BY <2>1, <2>2, Zenon
<1>6. ASSUME c \notin Eol
      PROVE  SplitStep(a, c) = [done |-> a.done, line |-> longer, cr |-> FALSE]
  <2>1. SplitStep(a, c) = [a EXCEPT !.line = Append(@, c), !.cr = FALSE]
    BY <1>6 DEF SplitStep, Eol
  <2>2. SplitStep(a, c) = [a EXCEPT !.line = longer, !.cr = FALSE]
    BY <2>1 DEF longer
  <2> QED
    BY <1>1, <2>2
<1>7. SplitStep(a, c) \in SplitStates(C)
  <2>1. \A done \in Seq(Seq(C \ Eol)), line \in Seq(C \ Eol), cr \in BOOLEAN :
           [done |-> done, line |-> line, cr |-> cr] \in SplitStates(C)
    BY DEF SplitStates
  <2>2. CASE c = "n" /\ a.cr
    BY <1>1, <1>3, <2>1, <2>2
  <2>3. CASE c = "n" /\ ~ a.cr
    BY <1>2, <1>4, <2>1, <2>3
  <2>4. CASE c = "r"
    BY <1>2, <1>5, <2>1, <2>4
  <2>5. CASE c \notin Eol
    BY <1>1, <1>2, <1>6, <2>1, <2>5
  <2> QED
    BY <2>2, <2>3, <2>4, <2>5 DEF Eol
<1> QED
  BY <1>3, <1>4, <1>5, <1>6, <1>7, Zenon DEF closed, longer

\* Splitting goes character by character.
LEMMA SplitFacts ==
  ASSUME NEW C
  PROVE  /\ Split(<<>>) = NoLines
         /\ \A s \in Seq(C) : Split(s) \in SplitStates(C)
         /\ \A s \in Seq(C), c \in C : Split(Append(s, c)) = SplitStep(Split(s), c)
<1> DEFINE S == SplitStates(C)
           F == [x \in S \X C |-> SplitStep(x[1], x[2])]
<1>1. F \in Steps(S, C) /\ \A a \in S, c \in C : F[<<a, c>>] = SplitStep(a, c)
  BY SplitStepFacts DEF Steps
<1>2. NoLines \in S
  BY DEF NoLines, SplitStates
<1> HIDE DEF S, F
<1>3. PICK fold \in [Seq(C) -> S] :
           /\ fold[<<>>] = NoLines
           /\ \A s \in Seq(C), c \in C : fold[Append(s, c)] = F[<<fold[s], c>>]
           /\ \A s \in Seq(C) : \E at : Loop(S, F, NoLines, s, at) /\ at[Len(s)] = fold[s]
           /\ \A s \in Seq(C) : \A at : LoopWithin(S, F, NoLines, s, at) => at[Len(s)] = fold[s]
  BY <1>1, <1>2, FoldExists
<1>4. ASSUME NEW s \in Seq(C) PROVE Split(s) = fold[s]
  <2> DEFINE IsLoop(at) == at = [i \in 0 .. Len(s) |-> IF i = 0 THEN NoLines ELSE SplitStep(at[i - 1], s[i])]
             states == CHOOSE at : IsLoop(at)
  <2>1. Split(s) = states[Len(s)]
    BY DEF Split, NoLines
  <2>2. PICK at : Loop(S, F, NoLines, s, at)
    BY <1>3
  <2>3. IsLoop(at)
    <3>1. at = [i \in 0 .. Len(s) |-> at[i]]
      BY <2>2 DEF Loop
    <3>2. ASSUME NEW i \in 0 .. Len(s), i # 0 PROVE at[i] = SplitStep(at[i - 1], s[i])
      <4>1. i \in 1 .. Len(s) /\ i - 1 \in 0 .. Len(s) /\ s[i] \in C
        BY <3>2
      <4>2. at[i - 1] \in S /\ at[i] = F[<<at[i - 1], s[i]>>]
        BY <2>2, <4>1 DEF Loop
      <4> QED
        BY <1>1, <4>1, <4>2
    <3>3. \A i \in 0 .. Len(s) : at[i] = IF i = 0 THEN NoLines ELSE SplitStep(at[i - 1], s[i])
      BY <2>2, <3>2 DEF Loop
    <3> QED
      BY <3>1, <3>3
  <2>4. IsLoop(states)
    BY <2>3, Zenon
  <2>5. LoopWithin(S, F, NoLines, s, states)
    <3> HIDE DEF states
    <3>1. states[0] = NoLines /\ \A i \in 1 .. Len(s) : states[i] = SplitStep(states[i - 1], s[i])
      BY <2>4
    <3> QED
      BY <1>1, <3>1 DEF LoopWithin
  <2> QED
    BY <1>3, <2>1, <2>5
<1>5. <<>> \in Seq(C)
  OBVIOUS
<1>6. ASSUME NEW s \in Seq(C), NEW c \in C PROVE Split(Append(s, c)) = SplitStep(Split(s), c)
  <2>1. Append(s, c) \in Seq(C)
    OBVIOUS
  <2> QED
    BY <1>1, <1>3, <1>4, <2>1, ZenonT(40)
<1> QED
  BY <1>3, <1>4, <1>5, <1>6 DEF S

\* ... of reading the lines, ...
Values(C) == Seq(C) \cup {None, <<"message">>}
FieldStates(C) == [id : Values(C), event : Values(C), data : Values(C), retry : Values(C)]
LineStates(C) == [events : Seq(FieldStates(C)), fields : FieldStates(C), rest : Seq(Seq(C))]
NoEvents == [events |-> <<>>, fields |-> Fresh, rest |-> <<>>]

\* A fresh event has no fields.
LEMMA FreshIsFields == ASSUME NEW C PROVE Fresh \in FieldStates(C)
BY DEF Fresh, FieldStates, Values

\* A line leaves fields.
LEMMA LineResultIsFields ==
  ASSUME NEW C, NEW fields \in FieldStates(C), NEW line \in Seq(C)
  PROVE  LineResult(fields, line) \in FieldStates(C)
<1>1. CASE line = <<>>
  BY <1>1 DEF LineResult
<1>2. CASE line # <<>>
  <2>1. Tail(line) \in Values(C)
    BY <1>2 DEF Values
  <2> DEFINE value == Tail(line)
  <2> HIDE DEF value
  <2>2. /\ [fields EXCEPT !.id = value] \in FieldStates(C)
        /\ [fields EXCEPT !.event = value] \in FieldStates(C)
        /\ [fields EXCEPT !.data = value] \in FieldStates(C)
        /\ [fields EXCEPT !.retry = value] \in FieldStates(C)
    BY <2>1 DEF FieldStates, value
  <2>3. CASE Head(line) \in Fields
    <3>1. CASE Head(line) = "id:"
      BY <1>2, <2>2, <3>1 DEF LineResult, value
    <3>2. CASE Head(line) = "event:"
      BY <1>2, <2>2, <3>2 DEF LineResult, value
    <3>3. CASE Head(line) = "data:"
      BY <1>2, <2>2, <3>3 DEF LineResult, value
    <3>4. CASE Head(line) = "retry:"
      BY <1>2, <2>2, <3>4 DEF LineResult, value
    <3> QED
      BY <2>3, <3>1, <3>2, <3>3, <3>4 DEF Fields
  <2>4. CASE Head(line) \notin Fields
    <3>1. LineResult(fields, line) = fields
      BY <1>2, <2>4 DEF LineResult, Fields
    <3> QED
      BY <3>1
  <2> QED
    BY <2>3, <2>4
<1> QED
  BY <1>1, <1>2

\* The end of an event leaves events.
LEMMA FinishedIsEvents ==
  ASSUME NEW C, NEW fields \in FieldStates(C), NEW found \in Seq(FieldStates(C))
  PROVE  Finished(found, fields) \in Seq(FieldStates(C))
<1> DEFINE name == IF fields.event = None THEN <<"message">> ELSE fields.event
<1>1. name \in Values(C)
  BY DEF Values, FieldStates
<1>2. Event(fields.id, name, fields.data, fields.retry) \in FieldStates(C)
  BY <1>1 DEF Event, FieldStates
<1> QED
  BY <1>2 DEF Finished

\* What one line does to the events.
LEMMA LineStepFacts ==
  ASSUME NEW C, NEW a \in LineStates(C), NEW line \in Seq(C)
  PROVE  /\ LineStep(a, line) \in LineStates(C)
         /\ line = <<>> => LineStep(a, line) = [events |-> Finished(a.events, a.fields), fields |-> Fresh, rest |-> <<>>]
         /\ line # <<>> => LineStep(a, line) = [events |-> a.events, fields |-> LineResult(a.fields, line),
                                                rest |-> Append(a.rest, line)]
<1>1. a.fields \in FieldStates(C) /\ a.events \in Seq(FieldStates(C)) /\ a.rest \in Seq(Seq(C))
  BY DEF LineStates
<1>2. \A found, now, lines : found \in Seq(FieldStates(C)) /\ now \in FieldStates(C) /\ lines \in Seq(Seq(C)) =>
         [events |-> found, fields |-> now, rest |-> lines] \in LineStates(C)
  BY DEF LineStates
<1>3. ASSUME line = <<>>
      PROVE  /\ LineStep(a, line) = [events |-> Finished(a.events, a.fields), fields |-> Fresh, rest |-> <<>>]
             /\ LineStep(a, line) \in LineStates(C)
  <2>1. LineStep(a, line) = [events |-> Finished(a.events, a.fields), fields |-> Fresh, rest |-> <<>>]
    BY <1>3 DEF LineStep
  <2>2. Finished(a.events, a.fields) \in Seq(FieldStates(C)) /\ Fresh \in FieldStates(C) /\ <<>> \in Seq(Seq(C))
    BY <1>1, FreshIsFields, FinishedIsEvents
  <2> QED
    BY <1>2, <2>1, <2>2, Zenon
<1>4. ASSUME line # <<>>
      PROVE  /\ LineStep(a, line) = [events |-> a.events, fields |-> LineResult(a.fields, line), rest |-> Append(a.rest, line)]
             /\ LineStep(a, line) \in LineStates(C)
  <2>1. LineStep(a, line) = [events |-> a.events, fields |-> LineResult(a.fields, line), rest |-> Append(a.rest, line)]
    BY <1>4 DEF LineStep, LineStates
  <2>2. LineResult(a.fields, line) \in FieldStates(C) /\ Append(a.rest, line) \in Seq(Seq(C))
    BY <1>1, LineResultIsFields
  <2> QED
    BY <1>1, <1>2, <2>1, <2>2, Zenon
<1> QED
  BY <1>3, <1>4, Zenon

\* Reading goes line by line.
LEMMA ParsedFacts ==
  ASSUME NEW D
  PROVE  /\ Parsed(<<>>) = NoEvents
         /\ \A s \in Seq(Seq(D)) : Parsed(s) \in LineStates(D)
         /\ \A s \in Seq(Seq(D)), c \in Seq(D) : Parsed(Append(s, c)) = LineStep(Parsed(s), c)
<1> DEFINE C == Seq(D)
<1> DEFINE S == LineStates(D)
           F == [x \in S \X C |-> LineStep(x[1], x[2])]
<1>1. F \in Steps(S, C) /\ \A a \in S, c \in C : F[<<a, c>>] = LineStep(a, c)
  BY LineStepFacts DEF Steps
<1>2. NoEvents \in S
  BY FreshIsFields DEF NoEvents, LineStates
<1> HIDE DEF S, F, C
<1>3. PICK fold \in [Seq(C) -> S] :
           /\ fold[<<>>] = NoEvents
           /\ \A s \in Seq(C), c \in C : fold[Append(s, c)] = F[<<fold[s], c>>]
           /\ \A s \in Seq(C) : \E at : Loop(S, F, NoEvents, s, at) /\ at[Len(s)] = fold[s]
           /\ \A s \in Seq(C) : \A at : LoopWithin(S, F, NoEvents, s, at) => at[Len(s)] = fold[s]
  BY <1>1, <1>2, FoldExists
<1>4. ASSUME NEW s \in Seq(C) PROVE Parsed(s) = fold[s]
  <2> DEFINE IsLoop(at) == at = [i \in 0 .. Len(s) |-> IF i = 0 THEN NoEvents ELSE LineStep(at[i - 1], s[i])]
             states == CHOOSE at : IsLoop(at)
  <2>1. Parsed(s) = states[Len(s)]
    BY DEF Parsed, NoEvents
  <2>2. PICK at : Loop(S, F, NoEvents, s, at)
    BY <1>3
  <2>3. IsLoop(at)
    <3>1. at = [i \in 0 .. Len(s) |-> at[i]]
      BY <2>2 DEF Loop
    <3>2. ASSUME NEW i \in 0 .. Len(s), i # 0 PROVE at[i] = LineStep(at[i - 1], s[i])
      <4>1. i \in 1 .. Len(s) /\ i - 1 \in 0 .. Len(s) /\ s[i] \in C
        BY <3>2
      <4>2. at[i - 1] \in S /\ at[i] = F[<<at[i - 1], s[i]>>]
        BY <2>2, <4>1 DEF Loop
      <4> QED
        BY <1>1, <4>1, <4>2
    <3>3. \A i \in 0 .. Len(s) : at[i] = IF i = 0 THEN NoEvents ELSE LineStep(at[i - 1], s[i])
      BY <2>2, <3>2 DEF Loop
    <3> QED
      BY <3>1, <3>3
  <2>4. IsLoop(states)
    BY <2>3, Zenon
  <2>5. LoopWithin(S, F, NoEvents, s, states)
    <3> HIDE DEF states
    <3>1. states[0] = NoEvents /\ \A i \in 1 .. Len(s) : states[i] = LineStep(states[i - 1], s[i])
      BY <2>4
    <3> QED
      BY <1>1, <3>1 DEF LoopWithin
  <2> QED
    BY <1>3, <2>1, <2>5
<1>5. <<>> \in Seq(C)
  OBVIOUS
<1>6. ASSUME NEW s \in Seq(C), NEW c \in C PROVE Parsed(Append(s, c)) = LineStep(Parsed(s), c)
  <2>1. Append(s, c) \in Seq(C)
    OBVIOUS
  <2> QED
    BY <1>1, <1>3, <1>4, <2>1, ZenonT(40)
<1> QED
  BY <1>3, <1>4, <1>5, <1>6 DEF S, C

\* ... of putting sequences one behind the other, ...
LEMMA FlattenFacts ==
  ASSUME NEW D
  PROVE  /\ FlattenSeq(<<>>) = <<>>
         /\ \A s \in Seq(Seq(D)) : FlattenSeq(s) \in Seq(D)
         /\ \A s \in Seq(Seq(D)), c \in Seq(D) : FlattenSeq(Append(s, c)) = FlattenSeq(s) \o c
<1> DEFINE C == Seq(D)
           S == Seq(D)
           F == [x \in S \X C |-> x[1] \o x[2]]
<1>1. F \in Steps(S, C) /\ \A a \in S, c \in C : F[<<a, c>>] = a \o c
  <2>1. \A x \in S \X C : x[1] \o x[2] \in S
    OBVIOUS
  <2>2. F \in [S \X C -> S]
    BY <2>1
  <2> QED
    BY <2>2 DEF Steps
<1>2. <<>> \in S
  OBVIOUS
<1>3. \A c \in C : <<>> \o c = c
  OBVIOUS
<1> HIDE DEF S, F, C
<1>4. PICK fold \in [Seq(C) -> S] :
           /\ fold[<<>>] = <<>>
           /\ \A s \in Seq(C), c \in C : fold[Append(s, c)] = F[<<fold[s], c>>]
           /\ \A s \in Seq(C) : \E at : Loop(S, F, <<>>, s, at) /\ at[Len(s)] = fold[s]
           /\ \A s \in Seq(C) : \A at : LoopWithin(S, F, <<>>, s, at) => at[Len(s)] = fold[s]
  BY <1>1, <1>2, FoldExists
<1>5. ASSUME NEW s \in Seq(C), s # <<>> PROVE FlattenSeq(s) = fold[s]
  <2> DEFINE IsLoop(at) == at = [i \in 1 .. Len(s) |-> IF i = 1 THEN s[i] ELSE at[i - 1] \o s[i]]
             flatten == CHOOSE at : IsLoop(at)
             states == [i \in 0 .. Len(s) |-> IF i = 0 THEN <<>> ELSE flatten[i]]
  <2>1. FlattenSeq(s) = flatten[Len(s)]
    BY <1>5 DEF FlattenSeq
  <2>2. PICK at : Loop(S, F, <<>>, s, at)
    BY <1>4
  <2>3. IsLoop([i \in 1 .. Len(s) |-> at[i]])
    <3>1. ASSUME NEW i \in 1 .. Len(s) PROVE at[i] = IF i = 1 THEN s[i] ELSE at[i - 1] \o s[i]
      <4>1. i - 1 \in 0 .. Len(s) /\ s[i] \in C
        OBVIOUS
      <4>2. at[i - 1] \in S /\ at[i] = F[<<at[i - 1], s[i]>>]
        BY <2>2, <4>1 DEF Loop
      <4>3. at[i] = at[i - 1] \o s[i]
        BY <1>1, <4>1, <4>2
      <4>4. i = 1 => at[i] = s[i]
        <5>1. i = 1 => i - 1 = 0
          OBVIOUS
        <5> QED
          BY <1>3, <2>2, <4>1, <4>3, <5>1 DEF Loop
      <4> QED
        BY <4>3, <4>4
    <3> QED
      BY <3>1
  <2>4. IsLoop(flatten)
    BY <2>3, Zenon
  <2>5. LoopWithin(S, F, <<>>, s, states)
    <3> HIDE DEF flatten
    <3>1. states[0] = <<>>
      OBVIOUS
    <3>2. ASSUME NEW i \in 1 .. Len(s), states[i - 1] \in S PROVE states[i] = F[<<states[i - 1], s[i]>>]
      <4>1. s[i] \in C /\ states[i] = flatten[i]
        OBVIOUS
      <4>2. CASE i = 1
        <5>1. flatten[1] = s[1] /\ states[i - 1] = <<>>
          BY <2>4, <4>2
        <5> QED
          BY <1>1, <1>2, <1>3, <4>1, <4>2, <5>1
      <4>3. CASE i # 1
        <5>1. flatten[i] = flatten[i - 1] \o s[i]
          BY <2>4, <4>3
        <5>2. i - 1 \in 0 .. Len(s) /\ i - 1 # 0
          BY <4>3
        <5>3. states[i - 1] = flatten[i - 1]
          BY <5>2
        <5> QED
          BY <1>1, <3>2, <4>1, <5>1, <5>3
      <4> QED
        BY <4>2, <4>3
    <3> HIDE DEF states
    <3> QED
      BY <3>1, <3>2 DEF LoopWithin
  <2>6. states[Len(s)] = flatten[Len(s)]
    <3>1. Len(s) \in Nat /\ Len(s) # 0
      BY <1>5
    <3> HIDE DEF flatten
    <3> QED
      BY <3>1
  <2> HIDE DEF flatten, states
  <2> QED
    BY <1>4, <2>1, <2>5, <2>6
<1>6. FlattenSeq(<<>>) = <<>> /\ <<>> \in Seq(C)
  BY DEF FlattenSeq
<1>7. \A s \in Seq(C) : FlattenSeq(s) = fold[s]
  BY <1>4, <1>5, <1>6
<1>8. ASSUME NEW s \in Seq(C), NEW c \in C PROVE FlattenSeq(Append(s, c)) = FlattenSeq(s) \o c
  <2>1. Append(s, c) \in Seq(C)
    OBVIOUS
  <2> QED
    BY <1>1, <1>4, <1>7, <2>1, ZenonT(40)
<1> QED
  BY <1>4, <1>6, <1>7, <1>8 DEF S, C

\* ... and of joining lines.
LEMMA JoinedFacts ==
  ASSUME NEW D, "n" \in D
  PROVE  /\ Joined(<<>>) = <<>>
         /\ \A ls \in Seq(Seq(D)) : Joined(ls) \in Seq(D)
         /\ \A ls \in Seq(Seq(D)), l \in Seq(D) :
              Joined(Append(ls, l)) = IF ls = <<>> THEN l ELSE Joined(ls) \o (<<"n">> \o l)
<1> DEFINE ended(ls) == [i \in DOMAIN ls |-> IF i = 1 THEN ls[i] ELSE <<"n">> \o ls[i]]
<1>1. \A ls : Joined(ls) = FlattenSeq(ended(ls))
  BY DEF Joined
<1>2. ASSUME NEW ls \in Seq(Seq(D)) PROVE ended(ls) \in Seq(Seq(D)) /\ Len(ended(ls)) = Len(ls)
  <2>1. \A i \in 1 .. Len(ls) : ended(ls)[i] \in Seq(D)
    OBVIOUS
  <2>2. Len(ls) \in Nat /\ ended(ls) = [i \in 1 .. Len(ls) |-> ended(ls)[i]]
    OBVIOUS
  <2> HIDE DEF ended
  <2>3. DOMAIN ended(ls) = 1 .. Len(ls)
    BY <2>2
  <2> QED
    BY <2>1, <2>2, <2>3, FunctionIsSeq
<1>3. ended(<<>>) = <<>>
  OBVIOUS
<1>4. ASSUME NEW ls \in Seq(Seq(D)), NEW l \in Seq(D)
      PROVE  ended(Append(ls, l)) = Append(ended(ls), IF ls = <<>> THEN l ELSE <<"n">> \o l)
  <2> DEFINE long == ended(Append(ls, l))
             last == IF ls = <<>> THEN l ELSE <<"n">> \o l
  <2>1. Append(ls, l) \in Seq(Seq(D)) /\ Len(Append(ls, l)) = Len(ls) + 1 /\ Len(ls) \in Nat
    OBVIOUS
  <2>2. long \in Seq(Seq(D)) /\ Len(long) = Len(ls) + 1
    BY <1>2, <2>1
  <2>3. ASSUME NEW i \in 1 .. Len(ls) PROVE long[i] = ended(ls)[i]
    OBVIOUS
  <2>4. long[Len(ls) + 1] = last
    <3>1. Len(ls) + 1 \in DOMAIN Append(ls, l) /\ Append(ls, l)[Len(ls) + 1] = l /\ (Len(ls) + 1 = 1 <=> ls = <<>>)
      OBVIOUS
    <3> QED
      BY <3>1
  <2>5. last \in Seq(D)
    OBVIOUS
  <2>6. ended(ls) \in Seq(Seq(D)) /\ Len(ended(ls)) = Len(ls)
    BY <1>2
  <2> HIDE DEF long, last, ended
  <2>7. Append(ended(ls), last) \in Seq(Seq(D)) /\ Len(Append(ended(ls), last)) = Len(ls) + 1
    BY <2>5, <2>6
  <2> DEFINE longer == Append(ended(ls), last)
  <2>8. ASSUME NEW i \in 1 .. Len(ls) + 1 PROVE long[i] = longer[i]
    BY <2>1, <2>3, <2>4, <2>5, <2>6
  <2> HIDE DEF longer
  <2>9. long = longer
    BY <2>1, <2>2, <2>7, <2>8, SameSeq DEF longer
  <2> QED
    BY <2>9 DEF long, last, longer
<1> HIDE DEF ended
<1>5. Joined(<<>>) = <<>>
  BY <1>1, <1>3, FlattenFacts
<1>6. ASSUME NEW ls \in Seq(Seq(D)) PROVE Joined(ls) \in Seq(D)
  BY <1>1, <1>2, FlattenFacts
<1>7. ASSUME NEW ls \in Seq(Seq(D)), NEW l \in Seq(D)
      PROVE  Joined(Append(ls, l)) = IF ls = <<>> THEN l ELSE Joined(ls) \o (<<"n">> \o l)
  <2> DEFINE last == IF ls = <<>> THEN l ELSE <<"n">> \o l
  <2>1. last \in Seq(D) /\ ended(ls) \in Seq(Seq(D))
    BY <1>2
  <2>2. Joined(Append(ls, l)) = Joined(ls) \o last
    <3>1. FlattenSeq(Append(ended(ls), last)) = FlattenSeq(ended(ls)) \o last
      <4> HIDE DEF last
      <4> QED
        BY <2>1, FlattenFacts
    <3> QED
      BY <1>1, <1>4, <3>1
  <2>3. ls = <<>> => Joined(ls) \o last = l
    BY <1>5
  <2> QED
    BY <2>2, <2>3
<1> QED
  BY <1>5, <1>6, <1>7, Zenon

(***************************************************************************)
(* Reading a text: the lines that ended in it, what they say, and the lines *)
(* that follow the last event.                                             *)
(***************************************************************************)
DoneIn(cs) == Split(cs).done
LineIn(cs) == Split(cs).line
Returned(cs) == Split(cs).cr
EventsIn(cs) == Parsed(DoneIn(cs)).events
FieldsIn(cs) == Parsed(DoneIn(cs)).fields
RestIn(cs) == Parsed(DoneIn(cs)).rest
Closes(cs, c) == c \in Eol /\ ~ (c = "n" /\ Returned(cs))

\* What reading a text gives has the shape it should.
LEMMA ReadingFacts ==
  ASSUME NEW D, NEW cs \in Seq(D)
  PROVE  /\ DoneIn(cs) \in Seq(Seq(D \ Eol)) /\ LineIn(cs) \in Seq(D \ Eol) /\ Returned(cs) \in BOOLEAN
         /\ EventsIn(cs) \in Seq(FieldStates(D \ Eol)) /\ FieldsIn(cs) \in FieldStates(D \ Eol)
         /\ RestIn(cs) \in Seq(Seq(D \ Eol))
<1>1. DoneIn(cs) \in Seq(Seq(D \ Eol)) /\ LineIn(cs) \in Seq(D \ Eol) /\ Returned(cs) \in BOOLEAN
  BY SplitFacts DEF SplitStates, DoneIn, LineIn, Returned
<1>2. Parsed(DoneIn(cs)) \in LineStates(D \ Eol)
  BY <1>1, ParsedFacts
<1> QED
  BY <1>1, <1>2 DEF LineStates, EventsIn, FieldsIn, RestIn

\* Nothing is read in the empty text.
LEMMA ReadingNothing ==
  /\ DoneIn(<<>>) = <<>> /\ LineIn(<<>>) = <<>> /\ ~ Returned(<<>>)
  /\ EventsIn(<<>>) = <<>> /\ FieldsIn(<<>>) = Fresh /\ RestIn(<<>>) = <<>>
<1>1. Split(<<>>) = NoLines
  BY SplitFacts
<1>2. DoneIn(<<>>) = <<>> /\ LineIn(<<>>) = <<>> /\ ~ Returned(<<>>)
  BY <1>1 DEF NoLines, DoneIn, LineIn, Returned
<1>3. Parsed(<<>>) = NoEvents
  BY ParsedFacts
<1> QED
  BY <1>2, <1>3 DEF NoEvents, EventsIn, FieldsIn, RestIn

\* A character of a line, ...
LEMMA ReadingLonger ==
  ASSUME NEW D, NEW cs \in Seq(D), NEW c \in D, c \notin Eol
  PROVE  /\ DoneIn(Append(cs, c)) = DoneIn(cs) /\ LineIn(Append(cs, c)) = Append(LineIn(cs), c)
         /\ ~ Returned(Append(cs, c))
         /\ EventsIn(Append(cs, c)) = EventsIn(cs) /\ FieldsIn(Append(cs, c)) = FieldsIn(cs)
         /\ RestIn(Append(cs, c)) = RestIn(cs)
<1>1. Split(cs) \in SplitStates(D) /\ Split(Append(cs, c)) = SplitStep(Split(cs), c)
  BY SplitFacts
<1>2. Split(Append(cs, c)) = [done |-> DoneIn(cs), line |-> Append(LineIn(cs), c), cr |-> FALSE]
  BY <1>1, SplitStepFacts DEF DoneIn, LineIn
<1>3. DoneIn(Append(cs, c)) = DoneIn(cs) /\ LineIn(Append(cs, c)) = Append(LineIn(cs), c) /\ ~ Returned(Append(cs, c))
  BY <1>2 DEF DoneIn, LineIn, Returned
<1> QED
  BY <1>3 DEF EventsIn, FieldsIn, RestIn

\* ... a line feed after a carriage return ...
LEMMA ReadingReturned ==
  ASSUME NEW D, NEW cs \in Seq(D), "n" \in D, Returned(cs)
  PROVE  /\ DoneIn(Append(cs, "n")) = DoneIn(cs) /\ LineIn(Append(cs, "n")) = LineIn(cs)
         /\ ~ Returned(Append(cs, "n"))
         /\ EventsIn(Append(cs, "n")) = EventsIn(cs) /\ FieldsIn(Append(cs, "n")) = FieldsIn(cs)
         /\ RestIn(Append(cs, "n")) = RestIn(cs)
<1>1. Split(cs) \in SplitStates(D) /\ Split(Append(cs, "n")) = SplitStep(Split(cs), "n")
  BY SplitFacts
<1>2. Split(Append(cs, "n")) = [done |-> DoneIn(cs), line |-> LineIn(cs), cr |-> FALSE]
  BY <1>1, SplitStepFacts DEF DoneIn, LineIn, Returned
<1>3. DoneIn(Append(cs, "n")) = DoneIn(cs) /\ LineIn(Append(cs, "n")) = LineIn(cs) /\ ~ Returned(Append(cs, "n"))
  BY <1>2 DEF DoneIn, LineIn, Returned
<1> QED
  BY <1>3 DEF EventsIn, FieldsIn, RestIn

\* ... and the end of a line.
LEMMA ReadingCloses ==
  ASSUME NEW D, NEW cs \in Seq(D), NEW c \in D, Closes(cs, c)
  PROVE  /\ DoneIn(Append(cs, c)) = Append(DoneIn(cs), LineIn(cs)) /\ LineIn(Append(cs, c)) = <<>>
         /\ Returned(Append(cs, c)) <=> c = "r"
         /\ LineIn(cs) = <<>> => /\ EventsIn(Append(cs, c)) = Finished(EventsIn(cs), FieldsIn(cs))
                                 /\ FieldsIn(Append(cs, c)) = Fresh /\ RestIn(Append(cs, c)) = <<>>
         /\ LineIn(cs) # <<>> => /\ EventsIn(Append(cs, c)) = EventsIn(cs)
                                 /\ FieldsIn(Append(cs, c)) = LineResult(FieldsIn(cs), LineIn(cs))
                                 /\ RestIn(Append(cs, c)) = Append(RestIn(cs), LineIn(cs))
<1>1. Split(cs) \in SplitStates(D) /\ Split(Append(cs, c)) = SplitStep(Split(cs), c)
  BY SplitFacts
<1>2. /\ DoneIn(Append(cs, c)) = Append(DoneIn(cs), LineIn(cs)) /\ LineIn(Append(cs, c)) = <<>>
      /\ Returned(Append(cs, c)) <=> c = "r"
  <2>1. CASE c = "r"
    <3>1. Split(Append(cs, c)) = [done |-> Append(DoneIn(cs), LineIn(cs)), line |-> <<>>, cr |-> TRUE]
      BY <1>1, <2>1, SplitStepFacts DEF DoneIn, LineIn
    <3> QED
      BY <2>1, <3>1 DEF DoneIn, LineIn, Returned
  <2>2. CASE c = "n" /\ ~ Returned(cs)
    <3>1. Split(Append(cs, c)) = [done |-> Append(DoneIn(cs), LineIn(cs)), line |-> <<>>, cr |-> FALSE]
      BY <1>1, <2>2, SplitStepFacts DEF DoneIn, LineIn, Returned
    <3> QED
      BY <2>2, <3>1 DEF DoneIn, LineIn, Returned
  <2> QED
    BY <2>1, <2>2 DEF Closes, Eol
<1>3. DoneIn(cs) \in Seq(Seq(D \ Eol)) /\ LineIn(cs) \in Seq(D \ Eol)
  BY ReadingFacts
<1>4. /\ Parsed(DoneIn(cs)) \in LineStates(D \ Eol)
      /\ Parsed(DoneIn(Append(cs, c))) = LineStep(Parsed(DoneIn(cs)), LineIn(cs))
  BY <1>2, <1>3, ParsedFacts
<1>5. ASSUME LineIn(cs) = <<>>
      PROVE  /\ EventsIn(Append(cs, c)) = Finished(EventsIn(cs), FieldsIn(cs))
             /\ FieldsIn(Append(cs, c)) = Fresh /\ RestIn(Append(cs, c)) = <<>>
  <2>1. Parsed(DoneIn(Append(cs, c))) = [events |-> Finished(EventsIn(cs), FieldsIn(cs)), fields |-> Fresh, rest |-> <<>>]
    BY <1>3, <1>4, <1>5, LineStepFacts DEF EventsIn, FieldsIn
  <2> QED
    BY <2>1 DEF EventsIn, FieldsIn, RestIn
<1>6. ASSUME LineIn(cs) # <<>>
      PROVE  /\ EventsIn(Append(cs, c)) = EventsIn(cs)
             /\ FieldsIn(Append(cs, c)) = LineResult(FieldsIn(cs), LineIn(cs))
             /\ RestIn(Append(cs, c)) = Append(RestIn(cs), LineIn(cs))
  <2>1. Parsed(DoneIn(Append(cs, c))) =
           [events |-> EventsIn(cs), fields |-> LineResult(FieldsIn(cs), LineIn(cs)), rest |-> Append(RestIn(cs), LineIn(cs))]
    BY <1>3, <1>4, <1>6, LineStepFacts DEF EventsIn, FieldsIn, RestIn
  <2> QED
    BY <2>1 DEF EventsIn, FieldsIn, RestIn
<1> QED
  BY <1>2, <1>5, <1>6, Zenon

\* A text from which another is read on: it was cut at an event.
Follows(cs, ds, es, ls) ==
  /\ EventsIn(cs) = es \o EventsIn(ds)
  /\ FieldsIn(cs) = FieldsIn(ds) /\ RestIn(cs) = RestIn(ds) /\ LineIn(cs) = LineIn(ds)
  /\ Range(DoneIn(cs)) = ls \cup Range(DoneIn(ds))
\* Both texts end with a carriage return, or neither does.
Alike(cs, ds) == Returned(cs) <=> Returned(ds)

\* An event is put behind those found before, whatever they are.
LEMMA FinishedBehind ==
  ASSUME NEW C, NEW es \in Seq(FieldStates(C)), NEW found \in Seq(FieldStates(C)), NEW fields \in FieldStates(C)
  PROVE  Finished(es \o found, fields) = es \o Finished(found, fields)
<1>1. CASE fields.data = None
  BY <1>1 DEF Finished
<1>2. CASE fields.data # None
  <2>1. PICK e : /\ Finished(found, fields) = Append(found, e)
                 /\ Finished(es \o found, fields) = Append(es \o found, e)
    BY <1>2, Zenon DEF Finished
  <2>2. e \in FieldStates(C)
    <3>1. Append(found, e) \in Seq(FieldStates(C))
      BY <2>1, FinishedIsEvents
    <3>2. Append(found, e)[Len(found) + 1] = e /\ Len(found) + 1 \in 1 .. Len(Append(found, e))
      OBVIOUS
    <3> QED
      BY <3>1, <3>2
  <2>3. es \o Append(found, e) = Append(es \o found, e)
    BY <2>2
  <2> QED
    BY <2>1, <2>3
<1> QED
  BY <1>1, <1>2

\* The members of a longer sequence.
LEMMA RangeOfAppend ==
  ASSUME NEW T, NEW s \in Seq(T), NEW l
  PROVE  Range(Append(s, l)) = Range(s) \cup {l}
<1>1. DOMAIN s = 1 .. Len(s) /\ Len(s) \in Nat /\ DOMAIN Append(s, l) = 1 .. Len(s) + 1
  OBVIOUS
<1>2. Append(s, l)[Len(s) + 1] = l /\ \A i \in 1 .. Len(s) : Append(s, l)[i] = s[i]
  OBVIOUS
<1> DEFINE t == Append(s, l)
<1>3. DOMAIN t = 1 .. Len(s) + 1 /\ t[Len(s) + 1] = l /\ \A i \in 1 .. Len(s) : t[i] = s[i]
  BY <1>1, <1>2
<1> HIDE DEF t
<1>4. Range(t) = Range(s) \cup {l}
  BY <1>1, <1>3 DEF Range
<1> QED
  BY <1>4 DEF t

\* One character read behind both texts.
LEMMA FollowsStep ==
  ASSUME NEW D, NEW cs \in Seq(D), NEW ds \in Seq(D), NEW c \in D,
         NEW es \in Seq(FieldStates(D \ Eol)), NEW ls, Follows(cs, ds, es, ls), Alike(cs, ds) \/ c # "n"
  PROVE  Follows(Append(cs, c), Append(ds, c), es, ls) /\ Alike(Append(cs, c), Append(ds, c))
<1> USE DEF Alike
<1>1. /\ EventsIn(ds) \in Seq(FieldStates(D \ Eol)) /\ FieldsIn(ds) \in FieldStates(D \ Eol)
      /\ DoneIn(cs) \in Seq(Seq(D \ Eol)) /\ DoneIn(ds) \in Seq(Seq(D \ Eol)) /\ LineIn(ds) \in Seq(D \ Eol)
  BY ReadingFacts
<1>2. CASE c \notin Eol
  <2>1. /\ DoneIn(Append(cs, c)) = DoneIn(cs) /\ LineIn(Append(cs, c)) = Append(LineIn(cs), c)
        /\ ~ Returned(Append(cs, c))
        /\ EventsIn(Append(cs, c)) = EventsIn(cs) /\ FieldsIn(Append(cs, c)) = FieldsIn(cs)
        /\ RestIn(Append(cs, c)) = RestIn(cs)
    BY <1>2, ReadingLonger
  <2>2. /\ DoneIn(Append(ds, c)) = DoneIn(ds) /\ LineIn(Append(ds, c)) = Append(LineIn(ds), c)
        /\ ~ Returned(Append(ds, c))
        /\ EventsIn(Append(ds, c)) = EventsIn(ds) /\ FieldsIn(Append(ds, c)) = FieldsIn(ds)
        /\ RestIn(Append(ds, c)) = RestIn(ds)
    BY <1>2, ReadingLonger
  <2> QED
    BY <2>1, <2>2, Zenon DEF Follows
<1>3. CASE c = "n" /\ Returned(cs)
  <2>1. Returned(ds) /\ "n" \in D
    BY <1>3
  <2>2. /\ DoneIn(Append(cs, "n")) = DoneIn(cs) /\ LineIn(Append(cs, "n")) = LineIn(cs)
        /\ ~ Returned(Append(cs, "n"))
        /\ EventsIn(Append(cs, "n")) = EventsIn(cs) /\ FieldsIn(Append(cs, "n")) = FieldsIn(cs)
        /\ RestIn(Append(cs, "n")) = RestIn(cs)
    BY <1>3, <2>1, ReadingReturned
  <2>3. /\ DoneIn(Append(ds, "n")) = DoneIn(ds) /\ LineIn(Append(ds, "n")) = LineIn(ds)
        /\ ~ Returned(Append(ds, "n"))
        /\ EventsIn(Append(ds, "n")) = EventsIn(ds) /\ FieldsIn(Append(ds, "n")) = FieldsIn(ds)
        /\ RestIn(Append(ds, "n")) = RestIn(ds)
    BY <2>1, ReadingReturned
  <2> QED
    BY <1>3, <2>2, <2>3, Zenon DEF Follows
<1>4. CASE Closes(cs, c)
  <2>1. Closes(ds, c)
    BY <1>4 DEF Closes
  <2>2. /\ DoneIn(Append(cs, c)) = Append(DoneIn(cs), LineIn(cs)) /\ LineIn(Append(cs, c)) = <<>>
        /\ Returned(Append(cs, c)) <=> c = "r"
        /\ DoneIn(Append(ds, c)) = Append(DoneIn(ds), LineIn(ds)) /\ LineIn(Append(ds, c)) = <<>>
        /\ Returned(Append(ds, c)) <=> c = "r"
    BY <1>4, <2>1, ReadingCloses
  <2>3. Range(DoneIn(Append(cs, c))) = ls \cup Range(DoneIn(Append(ds, c)))
    <3>1. LineIn(cs) = LineIn(ds)
      BY DEF Follows
    <3>2. Range(Append(DoneIn(cs), LineIn(cs))) = Range(DoneIn(cs)) \cup {LineIn(ds)}
      BY <1>1, <3>1, RangeOfAppend
    <3>3. Range(Append(DoneIn(ds), LineIn(ds))) = Range(DoneIn(ds)) \cup {LineIn(ds)}
      BY <1>1, RangeOfAppend
    <3> QED
      BY <2>2, <3>2, <3>3 DEF Follows
  <2>4. CASE LineIn(ds) = <<>>
    <3>1. /\ EventsIn(Append(cs, c)) = Finished(EventsIn(cs), FieldsIn(cs))
          /\ FieldsIn(Append(cs, c)) = Fresh /\ RestIn(Append(cs, c)) = <<>>
      <4>1. LineIn(cs) = <<>>
        BY <2>4 DEF Follows
      <4> QED
        BY <1>4, <4>1, ReadingCloses
    <3>2. /\ EventsIn(Append(ds, c)) = Finished(EventsIn(ds), FieldsIn(ds))
          /\ FieldsIn(Append(ds, c)) = Fresh /\ RestIn(Append(ds, c)) = <<>>
      BY <2>1, <2>4, ReadingCloses
    <3>3. Finished(es \o EventsIn(ds), FieldsIn(ds)) = es \o Finished(EventsIn(ds), FieldsIn(ds))
      BY <1>1, FinishedBehind
    <3> QED
      BY <2>2, <2>3, <3>1, <3>2, <3>3, Zenon DEF Follows
  <2>5. CASE LineIn(ds) # <<>>
    <3>1. /\ EventsIn(Append(cs, c)) = EventsIn(cs)
          /\ FieldsIn(Append(cs, c)) = LineResult(FieldsIn(cs), LineIn(cs))
          /\ RestIn(Append(cs, c)) = Append(RestIn(cs), LineIn(cs))
      <4>1. LineIn(cs) # <<>>
        BY <2>5 DEF Follows
      <4> QED
        BY <1>4, <4>1, ReadingCloses
    <3>2. /\ EventsIn(Append(ds, c)) = EventsIn(ds)
          /\ FieldsIn(Append(ds, c)) = LineResult(FieldsIn(ds), LineIn(ds))
          /\ RestIn(Append(ds, c)) = Append(RestIn(ds), LineIn(ds))
      BY <2>1, <2>5, ReadingCloses
    <3> QED
      BY <2>2, <2>3, <3>1, <3>2, Zenon DEF Follows
  <2> QED
    BY <2>4, <2>5
<1> QED
  BY <1>2, <1>3, <1>4 DEF Closes, Eol

\* ... and so reading goes on alike in both.
LEMMA Resume ==
  ASSUME NEW D, NEW cs \in Seq(D), NEW ds \in Seq(D), NEW xs \in Seq(D),
         NEW es \in Seq(FieldStates(D \ Eol)), NEW ls, Follows(cs, ds, es, ls),
         Alike(cs, ds) \/ xs = <<>> \/ Head(xs) # "n"
  PROVE  /\ Follows(cs \o xs, ds \o xs, es, ls)
         /\ Alike(cs, ds) \/ xs # <<>> => Alike(cs \o xs, ds \o xs)
<1> DEFINE P == {x \in Seq(D) : Alike(cs, ds) \/ x = <<>> \/ Head(x) # "n" =>
                   /\ Follows(cs \o x, ds \o x, es, ls)
                   /\ Alike(cs, ds) \/ x # <<>> => Alike(cs \o x, ds \o x)}
<1>1. <<>> \in P
  <2>1. cs \o <<>> = cs /\ ds \o <<>> = ds /\ <<>> \in Seq(D)
    OBVIOUS
  <2> QED
    BY <2>1
<1>2. ASSUME NEW x \in P, NEW c \in D PROVE Append(x, c) \in P
  <2>1. /\ x \in Seq(D) /\ Append(x, c) \in Seq(D) /\ cs \o x \in Seq(D) /\ ds \o x \in Seq(D)
        /\ cs \o Append(x, c) = Append(cs \o x, c) /\ ds \o Append(x, c) = Append(ds \o x, c)
    <3>1. x \in Seq(D)
      OBVIOUS
    <3> HIDE DEF P
    <3>2. Append(x, c) \in Seq(D) /\ cs \o x \in Seq(D) /\ ds \o x \in Seq(D)
      BY <3>1
    <3>3. cs \o Append(x, c) = Append(cs \o x, c)
      BY <3>1
    <3>4. ds \o Append(x, c) = Append(ds \o x, c)
      BY <3>1
    <3> QED
      BY <3>1, <3>2, <3>3, <3>4
  <2>2. x # <<>> => Head(Append(x, c)) = Head(x)
    BY <2>1
  <2>3. x = <<>> => Head(Append(x, c)) = c
    OBVIOUS
  <2>4. ASSUME Alike(cs, ds) \/ Head(Append(x, c)) # "n"
        PROVE  /\ Follows(Append(cs \o x, c), Append(ds \o x, c), es, ls)
               /\ Alike(Append(cs \o x, c), Append(ds \o x, c))
    <3>1. Alike(cs, ds) \/ x = <<>> \/ Head(x) # "n"
      BY <2>2, <2>4
    <3>2. Follows(cs \o x, ds \o x, es, ls)
      BY <3>1
    <3>3. Alike(cs \o x, ds \o x) \/ c # "n"
      BY <2>3, <2>4, <3>1
    <3> HIDE DEF P
    <3> QED
      BY <2>1, <3>2, <3>3, FollowsStep
  <2>5. Append(x, c) # <<>>
    OBVIOUS
  <2> QED
    BY <2>1, <2>4, <2>5
<1> HIDE DEF P
<1>3. P = Seq(D)
  <2>1. P \in SUBSET Seq(D)
    BY DEF P
  <2> QED
    BY <1>1, <1>2, <2>1, SeqInduction
<1> QED
  BY <1>3 DEF P

\* The text that is kept: the lines that follow the last event.
Kept(cs) == Joined(Append(RestIn(cs), LineIn(cs)))

\* One character more of the text that is kept.
LEMMA KeptStep ==
  ASSUME NEW D, "n" \in D, NEW cs \in Seq(D), NEW c \in D
  PROVE  /\ Kept(cs) \in Seq(D)
         /\ c \notin Eol => Kept(Append(cs, c)) = Append(Kept(cs), c)
         /\ c = "n" /\ Returned(cs) => Kept(Append(cs, c)) = Kept(cs)
         /\ Closes(cs, c) /\ LineIn(cs) = <<>> => Kept(Append(cs, c)) = <<>>
         /\ Closes(cs, c) /\ LineIn(cs) # <<>> => Kept(Append(cs, c)) = Append(Kept(cs), "n")
<1> DEFINE rest == RestIn(cs)
           line == LineIn(cs)
           joined == Joined(rest)
<1>1. rest \in Seq(Seq(D)) /\ line \in Seq(D)
  <2>1. rest \in Seq(Seq(D \ Eol)) /\ line \in Seq(D \ Eol)
    BY ReadingFacts
  <2> HIDE DEF rest, line
  <2> QED
    BY <2>1
<1>2. Append(rest, line) \in Seq(Seq(D))
  BY <1>1
<1>3. Kept(cs) \in Seq(D) /\ joined \in Seq(D)
  BY <1>1, <1>2, JoinedFacts DEF Kept
<1>4. Kept(cs) = IF rest = <<>> THEN line ELSE joined \o (<<"n">> \o line)
  BY <1>1, JoinedFacts DEF Kept
<1>5. ASSUME c \notin Eol PROVE Kept(Append(cs, c)) = Append(Kept(cs), c)
  <2>1. RestIn(Append(cs, c)) = rest /\ LineIn(Append(cs, c)) = Append(line, c)
    BY <1>5, ReadingLonger
  <2>2. Append(line, c) \in Seq(D)
    BY <1>1
  <2>3. Kept(Append(cs, c)) = IF rest = <<>> THEN Append(line, c) ELSE joined \o (<<"n">> \o Append(line, c))
    BY <1>1, <2>1, <2>2, JoinedFacts DEF Kept
  <2>4. joined \o (<<"n">> \o Append(line, c)) = Append(joined \o (<<"n">> \o line), c)
    <3> HIDE DEF joined, line
    <3>1. <<"n">> \o Append(line, c) = Append(<<"n">> \o line, c) /\ <<"n">> \o line \in Seq(D)
      BY <1>1
    <3>2. \A s \in Seq(D) : joined \o Append(s, c) = Append(joined \o s, c)
      BY <1>3
    <3> QED
      BY <3>1, <3>2
  <2> QED
    BY <1>4, <2>3, <2>4
<1>6. ASSUME c = "n", Returned(cs) PROVE Kept(Append(cs, c)) = Kept(cs)
  <2>1. RestIn(Append(cs, "n")) = rest /\ LineIn(Append(cs, "n")) = line
    BY <1>6, ReadingReturned
  <2> QED
    BY <1>6, <2>1 DEF Kept
<1>7. ASSUME Closes(cs, c), LineIn(cs) = <<>> PROVE Kept(Append(cs, c)) = <<>>
  <2>1. RestIn(Append(cs, c)) = <<>> /\ LineIn(Append(cs, c)) = <<>>
    BY <1>7, ReadingCloses
  <2>2. <<>> \in Seq(Seq(D)) /\ <<>> \in Seq(D)
    OBVIOUS
  <2> QED
    BY <2>1, <2>2, JoinedFacts DEF Kept
<1>8. ASSUME Closes(cs, c), LineIn(cs) # <<>> PROVE Kept(Append(cs, c)) = Append(Kept(cs), "n")
  <2>1. RestIn(Append(cs, c)) = Append(rest, line) /\ LineIn(Append(cs, c)) = <<>>
    BY <1>8, ReadingCloses
  <2>2. <<>> \in Seq(D) /\ Append(rest, line) # <<>>
    BY <1>1
  <2>3. Kept(Append(cs, c)) = Kept(cs) \o (<<"n">> \o <<>>)
    BY <1>2, <2>1, <2>2, JoinedFacts, ZenonT(40) DEF Kept
  <2>4. Kept(cs) \o (<<"n">> \o <<>>) = Append(Kept(cs), "n")
    BY <1>3
  <2> QED
    BY <2>3, <2>4
<1> QED
  BY <1>3, <1>5, <1>6, <1>7, <1>8, Zenon

\* Reading on from the text that is kept goes as from the whole text.
IsKept(cs, ks) ==
  /\ Follows(cs, ks, EventsIn(cs), Range(DoneIn(cs)))
  /\ EventsIn(ks) = <<>> /\ ~ Returned(ks) /\ Len(ks) <= Len(cs)

\* The text that is kept is one that the whole text follows.
LEMMA KeptIsKept ==
  ASSUME NEW D, "n" \in D, NEW cs \in Seq(D)
  PROVE  IsKept(cs, Kept(cs))
<1> DEFINE P == {s \in Seq(D) : IsKept(s, Kept(s))}
<1>1. <<>> \in P
  <2>1. Kept(<<>>) = <<>>
    <3>1. <<>> \in Seq(Seq(D)) /\ <<>> \in Seq(D)
      OBVIOUS
    <3> QED
      BY <3>1, ReadingNothing, JoinedFacts DEF Kept
  <2>2. <<>> \in Seq(D) /\ Len(<<>>) <= Len(<<>>) /\ <<>> \o <<>> = <<>>
    OBVIOUS
  <2> QED
    BY <2>1, <2>2, ReadingNothing DEF IsKept, Follows
<1>2. ASSUME NEW s \in P, NEW c \in D PROVE Append(s, c) \in P
  <2> DEFINE t == Append(s, c)
             ks == Kept(s)
  <2>1. s \in Seq(D) /\ t \in Seq(D) /\ IsKept(s, ks) /\ ks \in Seq(D)
    BY KeptStep
  <2>2. Len(t) = Len(s) + 1 /\ Len(s) \in Nat /\ Len(ks) \in Nat /\ Len(Append(ks, c)) = Len(ks) + 1
        /\ Len(Append(ks, "n")) = Len(ks) + 1
    BY <2>1
  <2>3. /\ EventsIn(s) \in Seq(FieldStates(D \ Eol)) /\ EventsIn(t) \in Seq(FieldStates(D \ Eol))
        /\ DoneIn(s) \in Seq(Seq(D \ Eol)) /\ DoneIn(ks) \in Seq(Seq(D \ Eol)) /\ LineIn(ks) \in Seq(D \ Eol)
    BY <2>1, ReadingFacts
  <2>4. \A es \in Seq(FieldStates(D \ Eol)) : es \o <<>> = es
    OBVIOUS
  <2>5. ASSUME c \notin Eol PROVE IsKept(t, Kept(t))
    <3>1. Kept(t) = Append(ks, c) /\ c # "n"
      BY <2>1, <2>5, KeptStep DEF Eol
    <3>2. Follows(t, Append(ks, c), EventsIn(s), Range(DoneIn(s)))
      BY <2>1, <2>3, <3>1, FollowsStep DEF IsKept
    <3>3. DoneIn(t) = DoneIn(s) /\ EventsIn(t) = EventsIn(s)
      BY <2>1, <2>5, ReadingLonger
    <3>4. EventsIn(Append(ks, c)) = EventsIn(ks) /\ ~ Returned(Append(ks, c))
      BY <2>1, <2>5, ReadingLonger
    <3> QED
      BY <2>1, <2>2, <3>1, <3>2, <3>3, <3>4 DEF IsKept
  <2>6. ASSUME c = "n", Returned(s) PROVE IsKept(t, Kept(t))
    <3>1. Kept(t) = ks
      BY <2>1, <2>6, KeptStep
    <3>2. /\ DoneIn(t) = DoneIn(s) /\ LineIn(t) = LineIn(s)
          /\ EventsIn(t) = EventsIn(s) /\ FieldsIn(t) = FieldsIn(s) /\ RestIn(t) = RestIn(s)
      BY <2>1, <2>6, ReadingReturned
    <3>3. Len(ks) <= Len(t)
      BY <2>1, <2>2 DEF IsKept
    <3> QED
      BY <2>1, <3>1, <3>2, <3>3, Zenon DEF IsKept, Follows
  <2>7. ASSUME Closes(s, c), LineIn(s) = <<>> PROVE IsKept(t, Kept(t))
    <3>1. Kept(t) = <<>>
      BY <2>1, <2>7, KeptStep
    <3>2. FieldsIn(t) = Fresh /\ RestIn(t) = <<>> /\ LineIn(t) = <<>>
      BY <2>1, <2>7, ReadingCloses
    <3>3. EventsIn(t) = EventsIn(t) \o EventsIn(<<>>)
      BY <2>3, <2>4, ReadingNothing
    <3>4. Range(DoneIn(t)) = Range(DoneIn(t)) \cup Range(DoneIn(<<>>))
      BY ReadingNothing DEF Range
    <3>5. Len(<<>>) <= Len(t)
      BY <2>2
    <3> QED
      BY <3>1, <3>2, <3>3, <3>4, <3>5, ReadingNothing DEF IsKept, Follows
  <2>8. ASSUME Closes(s, c), LineIn(s) # <<>> PROVE IsKept(t, Kept(t))
    <3> DEFINE more == Append(ks, "n")
    <3>1. Kept(t) = more
      BY <2>1, <2>8, KeptStep
    <3>2. LineIn(ks) = LineIn(s) /\ FieldsIn(ks) = FieldsIn(s) /\ RestIn(ks) = RestIn(s) /\ EventsIn(ks) = <<>>
          /\ Range(DoneIn(s)) = Range(DoneIn(s)) \cup Range(DoneIn(ks)) /\ Closes(ks, "n") /\ LineIn(ks) # <<>>
      BY <2>1, <2>8 DEF IsKept, Follows, Closes, Eol
    <3>3. /\ DoneIn(t) = Append(DoneIn(s), LineIn(s)) /\ LineIn(t) = <<>>
          /\ FieldsIn(t) = LineResult(FieldsIn(s), LineIn(s)) /\ RestIn(t) = Append(RestIn(s), LineIn(s))
      BY <2>1, <2>8, ReadingCloses
    <3>4. /\ DoneIn(more) = Append(DoneIn(ks), LineIn(ks)) /\ LineIn(more) = <<>>
          /\ Returned(more) <=> "n" = "r"
          /\ EventsIn(more) = EventsIn(ks)
          /\ FieldsIn(more) = LineResult(FieldsIn(ks), LineIn(ks)) /\ RestIn(more) = Append(RestIn(ks), LineIn(ks))
      BY <2>1, <3>2, ReadingCloses
    <3>5. Range(DoneIn(t)) = Range(DoneIn(t)) \cup Range(DoneIn(more))
      <4>1. Range(DoneIn(t)) = Range(DoneIn(s)) \cup {LineIn(s)}
        BY <2>3, <3>3, RangeOfAppend
      <4>2. Range(DoneIn(more)) = Range(DoneIn(ks)) \cup {LineIn(ks)}
        BY <2>3, <3>4, RangeOfAppend
      <4> QED
        BY <3>2, <4>1, <4>2
    <3>6. EventsIn(t) = EventsIn(t) \o EventsIn(more)
      BY <2>3, <2>4, <3>2, <3>4
    <3>7. Len(more) <= Len(t)
      BY <2>1, <2>2 DEF IsKept
    <3> HIDE DEF more, t, ks
    <3> QED
      BY <3>1, <3>2, <3>3, <3>4, <3>5, <3>6, <3>7 DEF IsKept, Follows
  <2> QED
    BY <2>1, <2>5, <2>6, <2>7, <2>8 DEF Closes, Eol
<1> HIDE DEF P
<1>3. P = Seq(D)
  <2>1. P \in SUBSET Seq(D)
    BY DEF P
  <2> QED
    BY <1>1, <1>2, <2>1, SeqInduction
<1> QED
  BY <1>3 DEF P

\* Two texts that follow each other keep the same.
LEMMA FollowsKeeps ==
  ASSUME NEW cs, NEW ds, NEW es, NEW ls, Follows(cs, ds, es, ls)
  PROVE  Kept(cs) = Kept(ds)
BY DEF Follows, Kept

\* No field was read since the last event if no line was.
LEMMA FreshAfterEvent ==
  ASSUME NEW D, NEW cs \in Seq(D)
  PROVE  RestIn(cs) = <<>> => FieldsIn(cs) = Fresh
<1> DEFINE P == {s \in Seq(D) : RestIn(s) = <<>> => FieldsIn(s) = Fresh}
<1>1. <<>> \in P
  BY ReadingNothing
<1>2. ASSUME NEW s \in P, NEW c \in D PROVE Append(s, c) \in P
  <2>1. s \in Seq(D) /\ Append(s, c) \in Seq(D) /\ (RestIn(s) = <<>> => FieldsIn(s) = Fresh)
    OBVIOUS
  <2> SUFFICES RestIn(Append(s, c)) = <<>> => FieldsIn(Append(s, c)) = Fresh
    BY <2>1
  <2> HIDE DEF P
  <2>2. CASE c \notin Eol
    BY <2>1, <2>2, ReadingLonger
  <2>3. CASE c = "n" /\ Returned(s)
    <3>1. RestIn(Append(s, "n")) = RestIn(s) /\ FieldsIn(Append(s, "n")) = FieldsIn(s)
      BY <2>1, <2>3, ReadingReturned
    <3> QED
      BY <2>1, <2>3, <3>1
  <2>4. CASE Closes(s, c)
    <3>1. Append(RestIn(s), LineIn(s)) # <<>>
      <4>1. RestIn(s) \in Seq(Seq(D \ Eol)) /\ LineIn(s) \in Seq(D \ Eol)
        BY <2>1, ReadingFacts
      <4> QED
        BY <4>1, AppendIsLonger
    <3>2. CASE LineIn(s) = <<>>
      BY <2>1, <2>4, <3>2, ReadingCloses
    <3>3. CASE LineIn(s) # <<>>
      <4>1. RestIn(Append(s, c)) # <<>>
        BY <2>1, <2>4, <3>1, <3>3, ReadingCloses
      <4> QED
        BY <4>1
    <3> QED
      BY <3>2, <3>3
  <2> QED
    BY <2>2, <2>3, <2>4 DEF Closes, Eol
<1> HIDE DEF P
<1>3. P = Seq(D)
  <2>1. P \in SUBSET Seq(D)
    BY DEF P
  <2> QED
    BY <1>1, <1>2, <2>1, SeqInduction
<1> QED
  BY <1>3 DEF P

\* What Kotlin makes of a text: an end of line that ends the text closes an
\* empty line.
LEMMA KotlinReads ==
  ASSUME NEW D, "n" \in D, NEW cs \in Seq(D)
  PROVE  /\ LineIn(cs) # <<>> \/ RestIn(cs) = <<>> =>
              ParseLines(Lines(cs)).events = EventsIn(cs) /\ ParseLines(Lines(cs)).kept = Kept(cs)
         /\ LineIn(cs) = <<>> =>
              ParseLines(Lines(cs)).events = Finished(EventsIn(cs), FieldsIn(cs)) /\ ParseLines(Lines(cs)).kept = <<>>
         /\ ParseLines(Lines(cs)).crashed = FALSE
<1>1. Lines(cs) = Append(DoneIn(cs), LineIn(cs)) /\ DoneIn(cs) \in Seq(Seq(D \ Eol)) /\ LineIn(cs) \in Seq(D \ Eol)
  BY ReadingFacts DEF Lines, DoneIn, LineIn
<1>2. /\ Parsed(DoneIn(cs)) \in LineStates(D \ Eol)
      /\ Parsed(Lines(cs)) = LineStep(Parsed(DoneIn(cs)), LineIn(cs))
  BY <1>1, ParsedFacts
<1>3. /\ ParseLines(Lines(cs)).events = Parsed(Lines(cs)).events /\ ParseLines(Lines(cs)).crashed = FALSE
      /\ ParseLines(Lines(cs)).kept = Joined(Parsed(Lines(cs)).rest)
  BY DEF ParseLines
<1>4. Joined(<<>>) = <<>>
  BY JoinedFacts
<1>5. ASSUME LineIn(cs) = <<>>
      PROVE  ParseLines(Lines(cs)).events = Finished(EventsIn(cs), FieldsIn(cs)) /\ ParseLines(Lines(cs)).kept = <<>>
  <2>1. Parsed(Lines(cs)) = [events |-> Finished(EventsIn(cs), FieldsIn(cs)), fields |-> Fresh, rest |-> <<>>]
    BY <1>1, <1>2, <1>5, LineStepFacts DEF EventsIn, FieldsIn
  <2>2. Parsed(Lines(cs)).events = Finished(EventsIn(cs), FieldsIn(cs)) /\ Parsed(Lines(cs)).rest = <<>>
    BY <2>1
  <2> QED
    BY <1>3, <1>4, <2>2
<1>6. ASSUME LineIn(cs) # <<>>
      PROVE  ParseLines(Lines(cs)).events = EventsIn(cs) /\ ParseLines(Lines(cs)).kept = Kept(cs)
  <2>1. Parsed(Lines(cs)) =
           [events |-> EventsIn(cs), fields |-> LineResult(FieldsIn(cs), LineIn(cs)), rest |-> Append(RestIn(cs), LineIn(cs))]
    BY <1>1, <1>2, <1>6, LineStepFacts DEF EventsIn, FieldsIn, RestIn
  <2>2. Parsed(Lines(cs)).events = EventsIn(cs) /\ Parsed(Lines(cs)).rest = Append(RestIn(cs), LineIn(cs))
    BY <2>1
  <2> QED
    BY <1>3, <2>2 DEF Kept
<1>7. ASSUME LineIn(cs) = <<>>, RestIn(cs) = <<>>
      PROVE  Finished(EventsIn(cs), FieldsIn(cs)) = EventsIn(cs) /\ Kept(cs) = <<>>
  <2>1. FieldsIn(cs) = Fresh
    BY <1>7, FreshAfterEvent
  <2>2. Joined(Append(<<>>, <<>>)) = <<>>
    <3>1. <<>> \in Seq(Seq(D)) /\ <<>> \in Seq(D)
      OBVIOUS
    <3> QED
      BY <3>1, JoinedFacts
  <2> QED
    BY <1>7, <2>1, <2>2 DEF Finished, Fresh, Kept
<1> QED
  BY <1>3, <1>5, <1>6, <1>7, Zenon

\* ... and Dart: it leaves that line out.
LEMMA DartReads ==
  ASSUME NEW D, "n" \in D, NEW cs \in Seq(D), LineIn(cs) # <<>> \/ RestIn(cs) = <<>>
  PROVE  /\ ParseLines(DartLines(cs)).events = EventsIn(cs) /\ ParseLines(DartLines(cs)).kept = Kept(cs)
         /\ ParseLines(DartLines(cs)).crashed = FALSE
<1>1. Lines(cs) = Append(DoneIn(cs), LineIn(cs)) /\ DoneIn(cs) \in Seq(Seq(D \ Eol)) /\ LineIn(cs) \in Seq(D \ Eol)
  BY ReadingFacts DEF Lines, DoneIn, LineIn
<1>2. Last(Lines(cs)) = LineIn(cs) /\ Front(Lines(cs)) = DoneIn(cs)
  <2> DEFINE done == DoneIn(cs)
             line == LineIn(cs)
  <2> HIDE DEF done, line
  <2>1. done \in Seq(Seq(D \ Eol)) /\ line \in Seq(D \ Eol)
    BY <1>1 DEF done, line
  <2>2. Last(Append(done, line)) = line
    BY <2>1 DEF Last
  <2>3. Front(Append(done, line)) = done
    <3> DEFINE front == Front(Append(done, line))
    <3>1. front \in Seq(Seq(D \ Eol)) /\ Len(front) = Len(done) /\ \A i \in 1 .. Len(front) : front[i] = done[i]
      BY <2>1 DEF Front
    <3> HIDE DEF front
    <3>2. front = done
      BY <2>1, <3>1, SameSeq
    <3> QED
      BY <3>2 DEF front
  <2> QED
    BY <1>1, <2>2, <2>3 DEF done, line
<1>3. CASE LineIn(cs) # <<>>
  <2>1. DartLines(cs) = Lines(cs)
    BY <1>2, <1>3 DEF DartLines
  <2> QED
    BY <1>3, <2>1, KotlinReads
<1>4. CASE LineIn(cs) = <<>>
  <2>1. DartLines(cs) = DoneIn(cs) /\ RestIn(cs) = <<>>
    BY <1>2, <1>4 DEF DartLines
  <2>2. Joined(<<>>) = <<>> /\ Joined(Append(<<>>, <<>>)) = <<>>
    <3>1. <<>> \in Seq(Seq(D)) /\ <<>> \in Seq(D)
      OBVIOUS
    <3> QED
      BY <3>1, JoinedFacts
  <2>3. Kept(cs) = <<>>
    BY <1>4, <2>1, <2>2 DEF Kept
  <2> QED
    BY <2>1, <2>2, <2>3 DEF ParseLines, EventsIn, RestIn
<1> QED
  BY <1>3, <1>4

\* Lines stay when more is read, and a line that has begun is closed as one of
\* its own.
Grows(s, t) ==
  /\ BeginsWith(DoneIn(t), DoneIn(s))
  /\ LineIn(s) # <<>> /\ Len(DoneIn(t)) = Len(DoneIn(s)) => LineIn(t) # <<>>

\* Reading on only adds lines.
LEMMA ReadingGrows ==
  ASSUME NEW D, NEW cs \in Seq(D), NEW xs \in Seq(D)
  PROVE  Grows(cs, cs \o xs)
<1> DEFINE P == {x \in Seq(D) : Grows(cs, cs \o x)}
<1>1. <<>> \in P
  <2>1. cs \o <<>> = cs /\ <<>> \in Seq(D)
    OBVIOUS
  <2>2. BeginsWith(DoneIn(cs), DoneIn(cs))
    <3>1. Len(DoneIn(cs)) \in Nat
      BY ReadingFacts
    <3> QED
      BY <3>1 DEF BeginsWith
  <2> QED
    BY <2>1, <2>2 DEF Grows
<1>2. ASSUME NEW x \in P, NEW c \in D PROVE Append(x, c) \in P
  <2> DEFINE s == cs \o x
             t == Append(s, c)
  <2>1. s \in Seq(D) /\ Grows(cs, s) /\ Append(x, c) \in Seq(D) /\ cs \o Append(x, c) = t
    OBVIOUS
  <2> SUFFICES Grows(cs, t)
    BY <2>1
  <2> HIDE DEF P, s
  <2>2. /\ DoneIn(cs) \in Seq(Seq(D \ Eol)) /\ DoneIn(s) \in Seq(Seq(D \ Eol)) /\ LineIn(s) \in Seq(D \ Eol)
    BY <2>1, ReadingFacts
  <2>3. CASE c \notin Eol
    <3>1. DoneIn(t) = DoneIn(s) /\ LineIn(t) = Append(LineIn(s), c)
      BY <2>1, <2>3, ReadingLonger
    <3>2. Append(LineIn(s), c) # <<>>
      BY <2>2, AppendIsLonger
    <3> QED
      BY <2>1, <3>1, <3>2 DEF Grows
  <2>4. CASE c = "n" /\ Returned(s)
    <3>1. DoneIn(t) = DoneIn(s) /\ LineIn(t) = LineIn(s)
      BY <2>1, <2>4, ReadingReturned
    <3> QED
      BY <2>1, <3>1 DEF Grows
  <2>5. CASE Closes(s, c)
    <3> DEFINE done == DoneIn(s)
               line == LineIn(s)
               old == DoneIn(cs)
    <3>1. DoneIn(t) = Append(done, line)
      BY <2>1, <2>5, ReadingCloses
    <3>2. Len(old) \in Nat /\ Len(done) \in Nat /\ Len(Append(done, line)) = Len(done) + 1
          /\ \A i \in 1 .. Len(done) : Append(done, line)[i] = done[i]
      <4> HIDE DEF done, line, old
      <4> QED
        BY <2>2 DEF done, line, old
    <3>3. Len(old) <= Len(done) /\ \A i \in 1 .. Len(old) : done[i] = old[i]
      BY <2>1 DEF Grows, BeginsWith
    <3> HIDE DEF done, line, old, t
    <3>4. Len(old) <= Len(DoneIn(t)) /\ Len(old) # Len(DoneIn(t)) /\ \A i \in 1 .. Len(old) : DoneIn(t)[i] = old[i]
      BY <3>1, <3>2, <3>3
    <3> QED
      BY <3>4 DEF Grows, BeginsWith, old
  <2> QED
    BY <2>3, <2>4, <2>5 DEF Closes, Eol
<1> HIDE DEF P
<1>3. P = Seq(D)
  <2>1. P \in SUBSET Seq(D)
    BY DEF P
  <2> QED
    BY <1>1, <1>2, <2>1, SeqInduction
<1> QED
  BY <1>3 DEF P

\* The end of a text: without returns, a line feed always closes a line.
LEMMA LineFeeds ==
  ASSUME NEW D, "r" \notin D, NEW cs \in Seq(D)
  PROVE  /\ ~ Returned(cs)
         /\ cs # <<>> => (LineIn(cs) = <<>> <=> cs[Len(cs)] = "n")
<1>1. CASE cs = <<>>
  BY <1>1, ReadingNothing
<1>2. CASE cs # <<>>
  <2>1. PICK s \in Seq(D), c \in D : cs = Append(s, c)
    BY <1>2, LastOfSeq
  <2>2. cs[Len(cs)] = c
    BY <2>1
  <2>3. CASE c \notin Eol
    <3>1. LineIn(cs) = Append(LineIn(s), c) /\ ~ Returned(cs)
      BY <2>1, <2>3, ReadingLonger
    <3>2. LineIn(s) \in Seq(D \ Eol)
      BY ReadingFacts
    <3>3. Append(LineIn(s), c) # <<>>
      BY <3>2, AppendIsLonger
    <3> QED
      BY <2>2, <2>3, <3>1, <3>3 DEF Eol
  <2>4. CASE Closes(s, c)
    <3>1. LineIn(cs) = <<>> /\ (Returned(cs) <=> c = "r") /\ c # "r" /\ c = "n"
      BY <2>1, <2>4, ReadingCloses DEF Closes, Eol
    <3> QED
      BY <2>2, <3>1
  <2>5. CASE c = "n" /\ Returned(s)
    <3>1. s # <<>>
      BY <2>5, ReadingNothing
    <3>2. PICK s0 \in Seq(D), c0 \in D : s = Append(s0, c0)
      BY <3>1, LastOfSeq
    <3>3. CASE c0 \notin Eol
      BY <2>5, <3>2, <3>3, ReadingLonger
    <3>4. CASE Closes(s0, c0)
      BY <2>5, <3>2, <3>4, ReadingCloses
    <3>5. CASE c0 = "n" /\ Returned(s0)
      <4>1. ~ Returned(Append(s0, "n"))
        BY <3>5, ReadingReturned
      <4> QED
        BY <2>5, <3>2, <3>5, <4>1
    <3> QED
      BY <3>3, <3>4, <3>5 DEF Closes, Eol
  <2> QED
    BY <2>3, <2>4, <2>5 DEF Closes, Eol
<1> QED
  BY <1>1, <1>2

\* Without returns the text that is kept is the end of the text.
LEMMA KeptIsTheEnd ==
  ASSUME NEW D, "n" \in D, "r" \notin D, NEW cs \in Seq(D)
  PROVE  \E xs \in Seq(D) : cs = xs \o Kept(cs)
<1> DEFINE P == {s \in Seq(D) : \E xs \in Seq(D) : s = xs \o Kept(s)}
<1>1. <<>> \in P
  <2>1. Kept(<<>>) \in Seq(D) /\ Len(Kept(<<>>)) <= Len(<<>>)
    <3>1. <<>> \in Seq(D)
      OBVIOUS
    <3> QED
      BY <3>1, KeptStep, KeptIsKept DEF IsKept
  <2>2. Kept(<<>>) = <<>> /\ <<>> \in Seq(D) /\ <<>> = <<>> \o <<>>
    BY <2>1
  <2> QED
    BY <2>2
<1>2. ASSUME NEW s \in P, NEW c \in D PROVE Append(s, c) \in P
  <2>1. s \in Seq(D) /\ Append(s, c) \in Seq(D)
    OBVIOUS
  <2>2. PICK xs \in Seq(D) : s = xs \o Kept(s)
    OBVIOUS
  <2> SUFFICES \E ys \in Seq(D) : Append(s, c) = ys \o Kept(Append(s, c))
    BY <2>1
  <2> HIDE DEF P
  <2>3. Kept(s) \in Seq(D) /\ ~ Returned(s)
    BY <2>1, KeptStep, LineFeeds
  <2>4. Append(s, c) = xs \o Append(Kept(s), c)
    <3> DEFINE ks == Kept(s)
    <3> HIDE DEF ks
    <3>1. Append(xs \o ks, c) = xs \o Append(ks, c)
      BY <2>3 DEF ks
    <3> QED
      BY <2>2, <3>1 DEF ks
  <2>5. CASE c \notin Eol
    <3>1. Kept(Append(s, c)) = Append(Kept(s), c)
      BY <2>1, <2>5, KeptStep
    <3> QED
      BY <2>4, <3>1
  <2>6. CASE Closes(s, c) /\ LineIn(s) = <<>>
    <3>1. Kept(Append(s, c)) = <<>>
      BY <2>1, <2>6, KeptStep
    <3>2. Append(s, c) = Append(s, c) \o <<>>
      BY <2>1
    <3> QED
      BY <2>1, <3>1, <3>2
  <2>7. CASE Closes(s, c) /\ LineIn(s) # <<>>
    <3>1. Kept(Append(s, c)) = Append(Kept(s), "n") /\ c = "n"
      BY <2>1, <2>7, KeptStep DEF Closes, Eol
    <3> QED
      BY <2>4, <3>1
  <2> QED
    BY <2>3, <2>5, <2>6, <2>7 DEF Closes, Eol
<1> HIDE DEF P
<1>3. P = Seq(D)
  <2>1. P \in SUBSET Seq(D)
    BY DEF P
  <2> QED
    BY <1>1, <1>2, <2>1, SeqInduction
<1> QED
  BY <1>3 DEF P

\* A turn of the loop over the characters, where there are no returns.
No == FALSE
Turn(line, prev, fields, es, next) ==
  [line |-> line, prev |-> prev, ignore |-> No, fields |-> fields, events |-> es, next |-> next,
   skip |-> No, crashed |-> No]
Closing(p, fields, line) == IF p = "swift" THEN SwiftLineResult(fields, line) ELSE LineResult(fields, line)

\* A character of a line, and ...
LEMMA TurnOfLetter ==
  ASSUME NEW p, NEW line, NEW prev, NEW fields, NEW es, NEW next, NEW cs, NEW i, cs[i] \notin Eol
  PROVE  CharStep(p, Turn(line, prev, fields, es, next), cs, i) = Turn(Append(line, cs[i]), cs[i], fields, es, next)
<1> DEFINE longer == Append(line, cs[i])
           a == Turn(line, prev, fields, es, next)
<1>1. a.skip = No /\ ~ No /\ a.line = line
  BY DEF Turn, No
<1> HIDE DEF a, longer
<1>2. CharStep(p, a, cs, i) = [[a EXCEPT !.ignore = FALSE, !.line = longer] EXCEPT !.prev = cs[i]]
  BY <1>1 DEF CharStep, Eol, longer
<1>3. CharStep(p, a, cs, i) = [[[a EXCEPT !.ignore = No] EXCEPT !.line = longer] EXCEPT !.prev = cs[i]]
  BY <1>2 DEF No
<1>4. [Turn(line, prev, fields, es, next) EXCEPT !.ignore = No] = Turn(line, prev, fields, es, next)
  BY DEF Turn
<1>5. [Turn(line, prev, fields, es, next) EXCEPT !.line = longer] = Turn(longer, prev, fields, es, next)
  BY DEF Turn
<1>6. [Turn(longer, prev, fields, es, next) EXCEPT !.prev = cs[i]] = Turn(longer, cs[i], fields, es, next)
  BY DEF Turn
<1> QED
  BY <1>3, <1>4, <1>5, <1>6, Zenon DEF longer, a

\* ... a line feed, which ends an event if another came before it.
LEMMA TurnOfLineFeed ==
  ASSUME NEW p, NEW line, NEW prev, NEW fields, NEW es, NEW next, NEW cs, NEW i, cs[i] = "n"
  PROVE  CharStep(p, Turn(line, prev, fields, es, next), cs, i) =
           IF prev = "n" THEN Turn(<<>>, "n", Fresh, Finished(es, Closing(p, fields, line)), i)
           ELSE Turn(<<>>, "n", Closing(p, fields, line), es, next)
<1> DEFINE a == Turn(line, prev, fields, es, next)
           closing == Closing(p, fields, line)
           found == Finished(es, closing)
<1>1. LineClosed(p, a) = Turn(<<>>, prev, closing, es, next)
  <2>1. LineClosed(p, a) = [a EXCEPT !.fields = closing, !.line = <<>>]
    BY DEF LineClosed, Turn, Closing
  <2> HIDE DEF closing
  <2> QED
    BY <2>1 DEF Turn
<1>2. EndEvent(Turn(<<>>, prev, closing, es, next)) = Turn(<<>>, prev, Fresh, found, next)
  <2> DEFINE b == Turn(<<>>, prev, closing, es, next)
  <2>1. b.fields = closing /\ b.events = es
    BY DEF Turn
  <2>2. EndEvent(b) = [b EXCEPT !.events = found, !.fields = Fresh]
    BY <2>1 DEF EndEvent
  <2> HIDE DEF closing, found
  <2> QED
    BY <2>2 DEF Turn
<1>3. a.skip = No /\ a.ignore = No /\ a.prev = prev /\ ~ No
  BY DEF Turn, No
<1> HIDE DEF closing, found, a
<1>4. CharStep(p, a, cs, i) = [LineFeed(p, a, i) EXCEPT !.prev = "n"]
  BY <1>3 DEF CharStep
<1>5. LineFeed(p, a, i) = IF prev = "n" THEN [EndEvent(LineClosed(p, a)) EXCEPT !.next = i] ELSE LineClosed(p, a)
  BY <1>3 DEF LineFeed
<1>6. CASE prev = "n"
  <2>1. LineFeed(p, a, i) = [Turn(<<>>, prev, Fresh, found, next) EXCEPT !.next = i]
    BY <1>1, <1>2, <1>5, <1>6
  <2>2. LineFeed(p, a, i) = Turn(<<>>, prev, Fresh, found, i)
    BY <2>1 DEF Turn
  <2>3. [Turn(<<>>, prev, Fresh, found, i) EXCEPT !.prev = "n"] = Turn(<<>>, "n", Fresh, found, i)
    BY DEF Turn
  <2>4. CharStep(p, a, cs, i) = Turn(<<>>, "n", Fresh, found, i)
    BY <1>4, <2>2, <2>3, Zenon
  <2> QED
    BY <1>6, <2>4 DEF a, closing, found
<1>7. CASE prev # "n"
  <2>1. CharStep(p, a, cs, i) = Turn(<<>>, "n", closing, es, next)
    <3>1. [Turn(<<>>, prev, closing, es, next) EXCEPT !.prev = "n"] = Turn(<<>>, "n", closing, es, next)
      BY DEF Turn
    <3> QED
      BY <1>1, <1>4, <1>5, <1>7, <3>1, Zenon
  <2> QED
    BY <1>7, <2>1 DEF a, closing, found
<1> QED
  BY <1>6, <1>7

\* The state of the loop after the first i characters.
TurnAt(cs, i) ==
  LET first == SubSeq(cs, 1, i)
  IN Turn(LineIn(first), IF i = 0 THEN "" ELSE cs[i], FieldsIn(first), EventsIn(first), i - Len(Kept(first)))

\* A line of an event or an empty line.
IsLine(line) == line = <<>> \/ IsFieldLine(line)

\* A beginning of a text, and what follows it.
LEMMA PrefixOfText ==
  ASSUME NEW D, NEW cs \in Seq(D), NEW i \in 1 .. Len(cs)
  PROVE  /\ SubSeq(cs, 1, i) \in Seq(D) /\ SubSeq(cs, 1, i - 1) \in Seq(D) /\ cs[i] \in D
         /\ SubSeq(cs, 1, i) = Append(SubSeq(cs, 1, i - 1), cs[i])
         /\ Len(SubSeq(cs, 1, i - 1)) = i - 1
         /\ \E xs \in Seq(D) : cs = SubSeq(cs, 1, i) \o xs
<1> DEFINE s == SubSeq(cs, 1, i)
           s0 == SubSeq(cs, 1, i - 1)
           xs == SubSeq(cs, i + 1, Len(cs))
<1>1. i \in Nat /\ i - 1 \in Nat /\ i - 1 <= Len(cs) /\ i <= Len(cs) /\ Len(cs) \in Nat /\ i >= 1
  OBVIOUS
<1>2. s \in Seq(D) /\ s0 \in Seq(D) /\ cs[i] \in D /\ Len(s) = i /\ Len(s0) = i - 1
  BY <1>1
<1>3. s = Append(s0, cs[i])
  <2> DEFINE t == Append(s0, cs[i])
  <2>1. t \in Seq(D) /\ Len(t) = i /\ \A j \in 1 .. i : t[j] = cs[j]
    BY <1>1, <1>2
  <2>2. \A j \in 1 .. i : s[j] = cs[j]
    BY <1>1
  <2> HIDE DEF s, t
  <2>3. s = t
    BY <1>2, <2>1, <2>2, SameSeq
  <2> QED
    BY <2>3 DEF t
<1>4. xs \in Seq(D) /\ cs = s \o xs
  <2> DEFINE t == s \o xs
  <2>1. xs \in Seq(D) /\ Len(xs) = Len(cs) - i /\ \A j \in 1 .. Len(cs) - i : xs[j] = cs[i + j]
    BY <1>1
  <2>2. \A j \in 1 .. i : s[j] = cs[j]
    BY <1>1
  <2> HIDE DEF s, xs
  <2>3. t \in Seq(D) /\ Len(t) = Len(cs) /\ (\A j \in 1 .. i : t[j] = s[j]) /\ \A j \in 1 .. Len(cs) - i : t[i + j] = xs[j]
    <3>1. t \in Seq(D) /\ Len(t) = Len(s) + Len(xs) /\ (\A j \in 1 .. Len(s) : t[j] = s[j])
          /\ \A j \in 1 .. Len(xs) : t[Len(s) + j] = xs[j]
      <4>1. s \in Seq(D) /\ xs \in Seq(D)
        BY <1>2, <2>1
      <4>2. /\ s \o xs \in Seq(D) /\ Len(s \o xs) = Len(s) + Len(xs)
            /\ \A j \in 1 .. Len(s) : (s \o xs)[j] = s[j]
            /\ \A j \in 1 .. Len(xs) : (s \o xs)[Len(s) + j] = xs[j]
        BY <4>1, ConcatFacts
      <4> QED
        BY <4>2
    <3> HIDE DEF t
    <3> QED
      BY <1>1, <1>2, <2>1, <3>1
  <2> HIDE DEF t
  <2>4. ASSUME NEW j \in 1 .. Len(cs) PROVE t[j] = cs[j]
    <3>1. CASE j <= i
      BY <1>1, <2>2, <2>3, <3>1
    <3>2. CASE j > i
      <4>1. j - i \in 1 .. Len(cs) - i /\ i + (j - i) = j
        BY <1>1, <3>2
      <4> QED
        BY <2>1, <2>3, <4>1
    <3> QED
      BY <1>1, <3>1, <3>2
  <2>5. t = cs
    BY <2>3, <2>4, SameSeq
  <2> QED
    BY <2>1, <2>5 DEF t
<1> HIDE DEF s, s0, xs
<1>5. \E x \in Seq(D) : cs = s \o x
  BY <1>4
<1> QED
  BY <1>2, <1>3, <1>5 DEF s, s0

\* Swift reads a line as the others do.
LEMMA ClosingIsLineResult ==
  ASSUME NEW p, NEW fields, NEW line, IsLine(line)
  PROVE  Closing(p, fields, line) = LineResult(fields, line)
BY DEF Closing, SwiftLineResult, IsLine, IsFieldLine

\* The loop over the characters is where reading the text so far is.
LEMMA TurnsFollow ==
  ASSUME NEW D, "n" \in D, "r" \notin D, NEW cs \in Seq(D), Head(cs) # "n",
         NEW p, \A l \in Range(DoneIn(cs)) : IsLine(l), NEW i \in 1 .. Len(cs)
  PROVE  CharStep(p, TurnAt(cs, i - 1), cs, i) = TurnAt(cs, i)
<1> DEFINE s0 == SubSeq(cs, 1, i - 1)
           s == SubSeq(cs, 1, i)
           c == cs[i]
           prev == IF i - 1 = 0 THEN "" ELSE cs[i - 1]
           next == (i - 1) - Len(Kept(s0))
<1>1. s \in Seq(D) /\ s0 \in Seq(D) /\ c \in D /\ s = Append(s0, c) /\ Len(s0) = i - 1 /\ \E xs \in Seq(D) : cs = s \o xs
  BY PrefixOfText
<1>2. TurnAt(cs, i - 1) = Turn(LineIn(s0), prev, FieldsIn(s0), EventsIn(s0), next)
  BY DEF TurnAt
<1>3. TurnAt(cs, i) = Turn(LineIn(s), c, FieldsIn(s), EventsIn(s), i - Len(Kept(s)))
  <2>1. i # 0
    OBVIOUS
  <2> QED
    BY <2>1 DEF TurnAt
<1>4. prev = "n" <=> LineIn(s0) = <<>> /\ i # 1
  <2>1. CASE i = 1
    BY <2>1
  <2>2. CASE i # 1
    <3>1. i - 1 \in 1 .. Len(s0) /\ s0[i - 1] = cs[i - 1] /\ s0 # <<>>
      <4>1. i - 1 \in 1 .. Len(s0) /\ Len(s0) # 0
        BY <1>1, <2>2
      <4>2. s0[i - 1] = cs[i - 1]
        BY <2>2
      <4> HIDE DEF s0
      <4> QED
        BY <4>1, <4>2
    <3>2. LineIn(s0) = <<>> <=> s0[i - 1] = "n"
      BY <1>1, <3>1, LineFeeds
    <3>3. prev = cs[i - 1]
      BY <2>2
    <3> QED
      BY <2>2, <3>1, <3>2, <3>3
  <2> QED
    BY <2>1, <2>2
<1>5. Kept(s0) \in Seq(D) /\ Len(Kept(s0)) \in Nat /\ i \in Nat /\ ~ Returned(s0)
  <2> HIDE DEF s0
  <2>1. Kept(s0) \in Seq(D) /\ ~ Returned(s0)
    BY <1>1, KeptStep, LineFeeds
  <2> QED
    BY <2>1
<1>6. i = 1 => c # "n" /\ s0 = <<>>
  BY <1>1
<1> HIDE DEF s0, s, c, prev
<1>7. CASE c \notin Eol
  <2>1. /\ LineIn(s) = Append(LineIn(s0), c) /\ FieldsIn(s) = FieldsIn(s0) /\ EventsIn(s) = EventsIn(s0)
    BY <1>1, <1>7, ReadingLonger
  <2>2. Kept(s) = Append(Kept(s0), c)
    BY <1>1, <1>7, KeptStep
  <2>3. i - Len(Kept(s)) = next
    BY <1>5, <2>2
  <2>4. CharStep(p, Turn(LineIn(s0), prev, FieldsIn(s0), EventsIn(s0), next), cs, i) =
           Turn(Append(LineIn(s0), c), c, FieldsIn(s0), EventsIn(s0), next)
    <3> HIDE DEF next
    <3> QED
      BY <1>7, TurnOfLetter DEF c
  <2> HIDE DEF next
  <2> QED
    BY <1>2, <1>3, <2>1, <2>3, <2>4
<1>8. CASE c = "n"
  <2>1. Closes(s0, c)
    BY <1>5, <1>8 DEF Closes, Eol
  <2>2. /\ DoneIn(s) = Append(DoneIn(s0), LineIn(s0)) /\ LineIn(s) = <<>>
        /\ LineIn(s0) = <<>> => EventsIn(s) = Finished(EventsIn(s0), FieldsIn(s0)) /\ FieldsIn(s) = Fresh
        /\ LineIn(s0) # <<>> => EventsIn(s) = EventsIn(s0) /\ FieldsIn(s) = LineResult(FieldsIn(s0), LineIn(s0))
    BY <1>1, <2>1, ReadingCloses
  <2>3. IsLine(LineIn(s0))
    <3>1. LineIn(s0) \in Range(DoneIn(cs))
      <4>1. PICK xs \in Seq(D) : cs = s \o xs
        BY <1>1
      <4>2. BeginsWith(DoneIn(cs), DoneIn(s))
        BY <1>1, <4>1, ReadingGrows DEF Grows
      <4>3. DoneIn(s0) \in Seq(Seq(D \ Eol)) /\ DoneIn(cs) \in Seq(Seq(D \ Eol)) /\ LineIn(s0) \in Seq(D \ Eol)
        BY <1>1, ReadingFacts
      <4> DEFINE k == Len(DoneIn(s0)) + 1
      <4>4. k \in 1 .. Len(DoneIn(s)) /\ DoneIn(s)[k] = LineIn(s0)
        BY <2>2, <4>3
      <4>5. k \in DOMAIN DoneIn(cs) /\ DoneIn(cs)[k] = LineIn(s0)
        BY <4>2, <4>3, <4>4 DEF BeginsWith
      <4> QED
        BY <4>5 DEF Range
    <3> QED
      BY <3>1
  <2>4. Closing(p, FieldsIn(s0), LineIn(s0)) = LineResult(FieldsIn(s0), LineIn(s0))
    BY <2>3, ClosingIsLineResult
  <2>5. CharStep(p, Turn(LineIn(s0), prev, FieldsIn(s0), EventsIn(s0), next), cs, i) =
           IF prev = "n" THEN Turn(<<>>, "n", Fresh, Finished(EventsIn(s0), Closing(p, FieldsIn(s0), LineIn(s0))), i)
           ELSE Turn(<<>>, "n", Closing(p, FieldsIn(s0), LineIn(s0)), EventsIn(s0), next)
    <3> HIDE DEF next
    <3> QED
      BY <1>8, TurnOfLineFeed DEF c
  <2>6. CASE LineIn(s0) = <<>>
    <3>1. prev = "n" /\ LineResult(FieldsIn(s0), LineIn(s0)) = FieldsIn(s0)
      BY <1>4, <1>6, <1>8, <2>6 DEF LineResult
    <3>2. Kept(s) = <<>>
      BY <1>1, <2>1, <2>6, KeptStep
    <3>3. i - Len(Kept(s)) = i
      BY <1>5, <3>2
    <3> HIDE DEF next
    <3> QED
      BY <1>2, <1>3, <1>8, <2>2, <2>4, <2>5, <2>6, <3>1, <3>3
  <2>7. CASE LineIn(s0) # <<>>
    <3>1. prev # "n"
      BY <1>4, <2>7
    <3>2. Kept(s) = Append(Kept(s0), "n")
      BY <1>1, <2>1, <2>7, KeptStep
    <3>3. i - Len(Kept(s)) = next
      BY <1>5, <3>2
    <3> HIDE DEF next
    <3> QED
      BY <1>2, <1>3, <1>8, <2>2, <2>4, <2>5, <2>7, <3>1, <3>3
  <2> QED
    BY <2>6, <2>7
<1> QED
  BY <1>1, <1>7, <1>8 DEF Eol

\* What the loop over the characters finds: the events, and where the text
\* that is kept begins.
LEMMA ScannedReads ==
  ASSUME NEW D, "n" \in D, "r" \notin D, NEW cs \in Seq(D), cs = <<>> \/ Head(cs) # "n",
         NEW p, \A l \in Range(DoneIn(cs)) : IsLine(l)
  PROVE  /\ Scanned(p, cs).events = EventsIn(cs) /\ Scanned(p, cs).crashed = FALSE
         /\ SubSeq(cs, Scanned(p, cs).next + 1, Len(cs)) = Kept(cs)
<1> DEFINE IsLoop(at) == at = [i \in 0 .. Len(cs) |-> IF i = 0 THEN Start ELSE CharStep(p, at[i - 1], cs, i)]
           states == CHOOSE at : IsLoop(at)
           turns == [i \in 0 .. Len(cs) |-> TurnAt(cs, i)]
<1>1. Scanned(p, cs) = states[Len(cs)]
  BY DEF Scanned
<1>2. Start = TurnAt(cs, 0)
  <2>1. SubSeq(cs, 1, 0) = <<>>
    OBVIOUS
  <2>2. Len(Kept(<<>>)) = 0
    <3>1. <<>> \in Seq(D) /\ Len(<<>>) = 0
      OBVIOUS
    <3>2. Kept(<<>>) \in Seq(D) /\ Len(Kept(<<>>)) <= Len(<<>>)
      BY <3>1, KeptStep, KeptIsKept DEF IsKept
    <3> QED
      BY <3>1, <3>2
  <2>3. TurnAt(cs, 0) = Turn(<<>>, "", Fresh, <<>>, 0)
    <3>1. 0 - 0 = 0
      OBVIOUS
    <3>2. TurnAt(cs, 0) = Turn(LineIn(<<>>), "", FieldsIn(<<>>), EventsIn(<<>>), 0 - Len(Kept(<<>>)))
      BY <2>1 DEF TurnAt
    <3> QED
      BY <2>2, <3>1, <3>2, ReadingNothing
  <2> QED
    BY <2>3 DEF Turn, Start, No
<1>3. IsLoop(turns)
  <2>1. ASSUME NEW i \in 0 .. Len(cs)
        PROVE  TurnAt(cs, i) = IF i = 0 THEN Start ELSE CharStep(p, turns[i - 1], cs, i)
    <3>1. CASE i = 0
      BY <1>2, <3>1
    <3>2. CASE i # 0
      <4>1. i \in 1 .. Len(cs) /\ i - 1 \in 0 .. Len(cs) /\ cs # <<>>
        BY <3>2
      <4>2. CharStep(p, TurnAt(cs, i - 1), cs, i) = TurnAt(cs, i)
        BY <4>1, TurnsFollow
      <4> QED
        BY <3>2, <4>1, <4>2
    <3> QED
      BY <3>1, <3>2
  <2> QED
    BY <2>1
<1>4. IsLoop(states)
  BY <1>3, Zenon
<1> DEFINE P == {i \in Nat : i <= Len(cs) => states[i] = TurnAt(cs, i)}
<1> HIDE DEF states, turns
<1>5. \A i \in 0 .. Len(cs) : states[i] = IF i = 0 THEN Start ELSE CharStep(p, states[i - 1], cs, i)
  BY <1>4
<1>6. Len(cs) \in Nat
  OBVIOUS
<1>7. P = Nat
  <2>1. 0 \in P
    BY <1>2, <1>5, <1>6
  <2>2. ASSUME NEW n \in P PROVE n + 1 \in P
    <3> SUFFICES ASSUME n + 1 <= Len(cs) PROVE states[n + 1] = TurnAt(cs, n + 1)
      OBVIOUS
    <3>1. n \in Nat /\ n + 1 \in 1 .. Len(cs) /\ (n + 1) - 1 = n /\ cs # <<>> /\ n + 1 # 0 /\ n + 1 \in 0 .. Len(cs)
      BY <1>6
    <3>2. states[n] = TurnAt(cs, n)
      BY <1>6, <3>1
    <3>3. states[n + 1] = CharStep(p, TurnAt(cs, n), cs, n + 1)
      BY <1>5, <3>1, <3>2
    <3>4. CharStep(p, TurnAt(cs, (n + 1) - 1), cs, n + 1) = TurnAt(cs, n + 1)
      BY <3>1, TurnsFollow
    <3> QED
      BY <3>1, <3>3, <3>4
  <2> HIDE DEF P
  <2>3. P \in SUBSET Nat
    BY DEF P
  <2> QED
    BY <2>1, <2>2, <2>3, SetInduction
<1>8. Scanned(p, cs) = TurnAt(cs, Len(cs))
  BY <1>1, <1>6, <1>7
<1>9. SubSeq(cs, 1, Len(cs)) = cs
  OBVIOUS
<1>10. Scanned(p, cs).events = EventsIn(cs) /\ Scanned(p, cs).crashed = No /\ Scanned(p, cs).next = Len(cs) - Len(Kept(cs))
  <2> DEFINE last == IF Len(cs) = 0 THEN "" ELSE cs[Len(cs)]
             next == Len(cs) - Len(Kept(cs))
  <2>1. Scanned(p, cs) = Turn(LineIn(cs), last, FieldsIn(cs), EventsIn(cs), next)
    BY <1>8, <1>9 DEF TurnAt
  <2> HIDE DEF last, next
  <2>2. Scanned(p, cs).events = EventsIn(cs) /\ Scanned(p, cs).crashed = No /\ Scanned(p, cs).next = next
    BY <2>1 DEF Turn
  <2> QED
    BY <2>2 DEF next
<1>11. PICK xs \in Seq(D) : cs = xs \o Kept(cs)
  BY KeptIsTheEnd
<1>12. SubSeq(cs, Len(cs) - Len(Kept(cs)) + 1, Len(cs)) = Kept(cs)
  <2> DEFINE ks == Kept(cs)
             end == SubSeq(cs, Len(cs) - Len(ks) + 1, Len(cs))
  <2>1. ks \in Seq(D)
    BY KeptStep
  <2> HIDE DEF ks
  <2>2. cs = xs \o ks
    BY <1>11 DEF ks
  <2>3. Len(cs) = Len(xs) + Len(ks) /\ Len(xs) \in Nat /\ Len(ks) \in Nat
    BY <2>1, <2>2
  <2>4. ASSUME NEW i \in 1 .. Len(ks) PROVE cs[Len(xs) + i] = ks[i]
    BY <2>1, <2>2
  <2>5. end \in Seq(D) /\ Len(end) = Len(ks) /\ \A i \in 1 .. Len(ks) : end[i] = cs[Len(xs) + i]
    <3>1. Len(cs) - Len(ks) + 1 = Len(xs) + 1 /\ Len(xs) + 1 >= 1
      BY <2>3
    <3> QED
      BY <2>3, <3>1
  <2> HIDE DEF end
  <2>6. end = ks
    BY <2>1, <2>4, <2>5, SameSeq
  <2> QED
    BY <2>6 DEF end, ks
<1> QED
  BY <1>10, <1>12 DEF No

\* Conversions that leave a text as it is: ...
LEMMA FlattenSingles ==
  ASSUME NEW D, NEW cs \in Seq(D)
  PROVE  FlattenSeq([i \in DOMAIN cs |-> <<cs[i]>>]) = cs
<1> DEFINE singles(s) == [i \in DOMAIN s |-> <<s[i]>>]
           P == {s \in Seq(D) : FlattenSeq(singles(s)) = s}
<1>1. ASSUME NEW s \in Seq(D) PROVE singles(s) \in Seq(Seq(D)) /\ Len(singles(s)) = Len(s)
  <2>1. \A i \in 1 .. Len(s) : singles(s)[i] \in Seq(D)
    OBVIOUS
  <2>2. Len(s) \in Nat /\ singles(s) = [i \in 1 .. Len(s) |-> singles(s)[i]]
    OBVIOUS
  <2> HIDE DEF singles
  <2>3. DOMAIN singles(s) = 1 .. Len(s)
    BY <2>2
  <2> QED
    BY <2>1, <2>2, <2>3, FunctionIsSeq
<1>2. <<>> \in P
  <2>1. singles(<<>>) = <<>> /\ <<>> \in Seq(D)
    OBVIOUS
  <2> HIDE DEF singles
  <2> QED
    BY <2>1, FlattenFacts
<1>3. ASSUME NEW s \in P, NEW c \in D PROVE Append(s, c) \in P
  <2> DEFINE t == Append(s, c)
             more == Append(singles(s), <<c>>)
  <2>1. s \in Seq(D) /\ t \in Seq(D) /\ Len(t) = Len(s) + 1 /\ Len(s) \in Nat /\ <<c>> \in Seq(D)
        /\ FlattenSeq(singles(s)) = s
    OBVIOUS
  <2>2. \A i \in 1 .. Len(t) : singles(t)[i] = <<t[i]>>
    OBVIOUS
  <2>3. \A i \in 1 .. Len(s) : singles(s)[i] = <<s[i]>>
    OBVIOUS
  <2>4. t[Len(s) + 1] = c /\ \A i \in 1 .. Len(s) : t[i] = s[i]
    OBVIOUS
  <2> HIDE DEF P, singles, t
  <2>5. singles(s) \in Seq(Seq(D)) /\ Len(singles(s)) = Len(s) /\ singles(t) \in Seq(Seq(D)) /\ Len(singles(t)) = Len(s) + 1
    BY <1>1, <2>1
  <2>6. more \in Seq(Seq(D)) /\ Len(more) = Len(s) + 1 /\ more[Len(s) + 1] = <<c>> /\ \A i \in 1 .. Len(s) : more[i] = singles(s)[i]
    BY <2>1, <2>5
  <2> HIDE DEF more
  <2>7. \A i \in 1 .. Len(s) + 1 : singles(t)[i] = more[i]
    <3>1. ASSUME NEW i \in 1 .. Len(s) + 1 PROVE singles(t)[i] = more[i]
      <4>1. CASE i \in 1 .. Len(s)
        <5>1. i \in 1 .. Len(t)
          BY <2>1
        <5> QED
          BY <2>2, <2>3, <2>4, <2>6, <4>1, <5>1
      <4>2. CASE i = Len(s) + 1
        <5>1. i \in 1 .. Len(t)
          BY <2>1
        <5> QED
          BY <2>2, <2>4, <2>6, <4>2, <5>1
      <4> QED
        BY <2>1, <4>1, <4>2
    <3> QED
      BY <3>1
  <2>8. singles(t) = more
    BY <2>5, <2>6, <2>7, SameSeq
  <2>9. FlattenSeq(more) = s \o <<c>>
    BY <2>1, <2>5, FlattenFacts DEF more
  <2>10. s \o <<c>> = t
    BY <2>1 DEF t
  <2> QED
    BY <2>1, <2>8, <2>9, <2>10 DEF P, t
<1> HIDE DEF P
<1>4. P = Seq(D)
  <2>1. P \in SUBSET Seq(D)
    BY DEF P
  <2> QED
    BY <1>2, <1>3, <2>1, SeqInduction
<1> QED
  BY <1>4 DEF P

\* ... decoding, where each character is one byte, ...
LEMMA LossyOfPlain ==
  ASSUME NEW D, "hi" \notin D, "lo" \notin D, NEW cs \in Seq(D)
  PROVE  Lossy(cs) = cs
<1> DEFINE P == {s \in Seq(D) : Lossy(s) = s}
<1>1. <<>> \in P
  <2>1. <<>> \in Seq(D)
    OBVIOUS
  <2> QED
    BY <2>1, LossyFacts
<1>2. ASSUME NEW s \in P, NEW c \in D PROVE Append(s, c) \in P
  <2>1. s \in Seq(D) /\ Append(s, c) \in Seq(D) /\ Lossy(s) = s
    OBVIOUS
  <2>2. Lossy(Append(s, c)) = Decoded(s, c)
    BY <2>1, LossyFacts
  <2>3. Decoded(s, c) = Append(s, c)
    BY DEF Decoded
  <2> QED
    BY <2>1, <2>2, <2>3
<1> HIDE DEF P
<1>3. P = Seq(D)
  <2>1. P \in SUBSET Seq(D)
    BY DEF P
  <2> QED
    BY <1>1, <1>2, <2>1, SeqInduction
<1> QED
  BY <1>3 DEF P

\* ... and Swift's characters, where there are no returns.
LEMMA CharactersOfPlain ==
  ASSUME NEW D, "r" \notin D, NEW cs \in Seq(D)
  PROVE  Characters(cs) = cs
<1> DEFINE GoesOn(at, i) == IF cs[i] = "n" /\ at[i - 1] # <<>> /\ Last(at[i - 1]) = "r"
                           THEN Append(Front(at[i - 1]), "rn") ELSE Append(at[i - 1], cs[i])
           IsLoop(at) == at = [i \in 0 .. Len(cs) |->
                                 IF i = 0 THEN <<>>
                                 ELSE IF cs[i] = "n" /\ at[i - 1] # <<>> /\ Last(at[i - 1]) = "r"
                                      THEN Append(Front(at[i - 1]), "rn") ELSE Append(at[i - 1], cs[i])]
           states == CHOOSE at : IsLoop(at)
           firsts == [i \in 0 .. Len(cs) |-> SubSeq(cs, 1, i)]
<1>1. Characters(cs) = states[Len(cs)]
  BY DEF Characters
<1>2. Len(cs) \in Nat /\ SubSeq(cs, 1, 0) = <<>> /\ SubSeq(cs, 1, Len(cs)) = cs
  OBVIOUS
<1>3. ASSUME NEW at, NEW i \in 1 .. Len(cs), at[i - 1] = SubSeq(cs, 1, i - 1)
      PROVE  GoesOn(at, i) = SubSeq(cs, 1, i)
  <2> DEFINE s == SubSeq(cs, 1, i - 1)
  <2>1. s \in Seq(D) /\ SubSeq(cs, 1, i) = Append(s, cs[i])
    BY PrefixOfText
  <2> HIDE DEF s
  <2>2. s # <<>> => Last(s) # "r"
    <3>1. s # <<>> => Last(s) \in D
      BY <2>1 DEF Last
    <3> QED
      BY <3>1
  <2> QED
    BY <1>3, <2>1, <2>2 DEF s
<1>4. IsLoop(firsts)
  <2>1. ASSUME NEW i \in 0 .. Len(cs) PROVE SubSeq(cs, 1, i) = IF i = 0 THEN <<>> ELSE GoesOn(firsts, i)
    <3>1. CASE i = 0
      BY <1>2, <3>1
    <3>2. CASE i # 0
      <4>1. i \in 1 .. Len(cs) /\ i - 1 \in 0 .. Len(cs)
        BY <3>2
      <4>2. firsts[i - 1] = SubSeq(cs, 1, i - 1)
        BY <4>1
      <4> HIDE DEF firsts, GoesOn
      <4> QED
        BY <1>3, <3>2, <4>1, <4>2
    <3> QED
      BY <3>1, <3>2
  <2> QED
    BY <2>1
<1>5. IsLoop(states)
  BY <1>4, Zenon
<1> DEFINE P == {i \in Nat : i <= Len(cs) => states[i] = SubSeq(cs, 1, i)}
<1> HIDE DEF states, firsts
<1>6. states[0] = <<>> /\ \A i \in 1 .. Len(cs) : states[i] = GoesOn(states, i)
  <2>1. \A i \in 0 .. Len(cs) : states[i] = IF i = 0 THEN <<>> ELSE GoesOn(states, i)
    BY <1>5
  <2> HIDE DEF GoesOn
  <2> QED
    BY <1>2, <2>1
<1> HIDE DEF GoesOn
<1>7. P = Nat
  <2>1. 0 \in P
    BY <1>2, <1>6
  <2>2. ASSUME NEW n \in P PROVE n + 1 \in P
    <3> SUFFICES ASSUME n + 1 <= Len(cs) PROVE states[n + 1] = SubSeq(cs, 1, n + 1)
      OBVIOUS
    <3>1. n \in Nat /\ n + 1 \in 1 .. Len(cs) /\ (n + 1) - 1 = n
      BY <1>2
    <3>2. states[n] = SubSeq(cs, 1, n)
      BY <1>2, <3>1
    <3> QED
      BY <1>3, <1>6, <3>1, <3>2
  <2> HIDE DEF P
  <2>3. P \in SUBSET Nat
    BY DEF P
  <2> QED
    BY <2>1, <2>2, <2>3, SetInduction
<1> QED
  BY <1>1, <1>2, <1>7

\* The members of what a parser returns.
LEMMA ResultFields ==
  ASSUME NEW es, NEW fell, NEW text, NEW result, result = [events |-> es, crashed |-> fell, kept |-> text]
  PROVE  result.events = es /\ result.crashed = fell /\ result.kept = text
OBVIOUS

\* What Rust makes of a text ...
LEMMA RustReads ==
  ASSUME NEW D, "n" \in D, D \cap {"r", "hi", "lo", "char"} = {}, NEW cs \in Seq(D), cs = <<>> \/ Head(cs) # "n",
         \A l \in Range(DoneIn(cs)) : IsLine(l)
  PROVE  /\ RustParse(cs).events = EventsIn(cs) /\ RustParse(cs).kept = Kept(cs)
         /\ RustParse(cs).crashed = FALSE
<1> DEFINE rest == SubSeq(Encoded(cs), Scanned("rust", cs).next + 1, Len(Encoded(cs)))
<1>1. Encoded(cs) = cs
  <2>1. [i \in DOMAIN cs |-> IF cs[i] = "char" THEN <<"hi", "lo">> ELSE <<cs[i]>>] = [i \in DOMAIN cs |-> <<cs[i]>>]
    <3>1. \A i \in DOMAIN cs : cs[i] \in D
      OBVIOUS
    <3> QED
      BY <3>1
  <2> QED
    BY <2>1, FlattenSingles DEF Encoded
<1>2. /\ Scanned("rust", cs).events = EventsIn(cs)
      /\ SubSeq(cs, Scanned("rust", cs).next + 1, Len(cs)) = Kept(cs)
  <2>1. "r" \notin D
    OBVIOUS
  <2> QED
    BY <2>1, ScannedReads
<1>3. rest = Kept(cs)
  BY <1>1, <1>2
<1>4. Kept(cs) \in Seq(D)
  BY KeptStep
<1>5. Lossy(rest) = Kept(cs)
  <2>1. "hi" \notin D /\ "lo" \notin D
    OBVIOUS
  <2> QED
    BY <1>3, <1>4, <2>1, LossyOfPlain
<1>6. ~ (rest # <<>> /\ Head(rest) = "lo")
  <2> DEFINE ks == Kept(cs)
  <2> HIDE DEF ks
  <2>1. ks # <<>> => Head(ks) \in D
    BY <1>4 DEF ks
  <2> QED
    BY <1>3, <2>1 DEF ks
<1>7. RustParse(cs) = [events |-> Scanned("rust", cs).events, crashed |-> rest # <<>> /\ Head(rest) = "lo", kept |-> Lossy(rest)]
  BY DEF RustParse, SseMessageList
<1> HIDE DEF rest
<1>8. /\ RustParse(cs).events = Scanned("rust", cs).events /\ RustParse(cs).kept = Lossy(rest)
  BY <1>7
<1>9. RustParse(cs).crashed = (rest # <<>> /\ Head(rest) = "lo")
  <2> DEFINE fell == rest # <<>> /\ Head(rest) = "lo"
  <2>1. RustParse(cs) = [events |-> Scanned("rust", cs).events, crashed |-> fell, kept |-> Lossy(rest)]
    BY <1>7
  <2> HIDE DEF fell
  <2>2. RustParse(cs).crashed = fell
    BY <2>1, ResultFields
  <2> QED
    BY <2>2 DEF fell
<1>10. (rest # <<>> /\ Head(rest) = "lo") = FALSE
  BY <1>6
<1>11. RustParse(cs).crashed = FALSE
  BY <1>9, <1>10, Zenon
<1> QED
  BY <1>2, <1>5, <1>8, <1>11, Zenon

\* ... and Swift.
LEMMA SwiftReads ==
  ASSUME NEW D, "n" \in D, D \cap {"r", "rn"} = {}, NEW cs \in Seq(D), cs = <<>> \/ Head(cs) # "n",
         \A l \in Range(DoneIn(cs)) : IsLine(l)
  PROVE  /\ SwiftParse(cs).events = EventsIn(cs) /\ SwiftParse(cs).kept = Kept(cs)
         /\ SwiftParse(cs).crashed = FALSE
<1> DEFINE rest == SubSeq(Characters(cs), Scanned("swift", Characters(cs)).next + 1, Len(Characters(cs)))
<1>1. "r" \notin D
  OBVIOUS
<1>2. Characters(cs) = cs
  BY <1>1, CharactersOfPlain
<1>3. /\ Scanned("swift", cs).events = EventsIn(cs) /\ Scanned("swift", cs).crashed = FALSE
      /\ SubSeq(cs, Scanned("swift", cs).next + 1, Len(cs)) = Kept(cs)
  BY <1>1, ScannedReads
<1>4. rest = Kept(cs) /\ Kept(cs) \in Seq(D)
  BY <1>2, <1>3, KeptStep
<1> DEFINE flat == FlattenSeq([i \in DOMAIN rest |-> IF rest[i] = "rn" THEN <<"r", "n">> ELSE <<rest[i]>>])
<1>5. flat = Kept(cs)
  <2> HIDE DEF rest
  <2>1. [i \in DOMAIN rest |-> IF rest[i] = "rn" THEN <<"r", "n">> ELSE <<rest[i]>>] = [i \in DOMAIN rest |-> <<rest[i]>>]
    <3>1. rest \in Seq(D)
      BY <1>4
    <3>2. \A i \in DOMAIN rest : rest[i] \in D
      BY <3>1
    <3> QED
      BY <3>2
  <2>2. FlattenSeq([i \in DOMAIN rest |-> <<rest[i]>>]) = rest
    BY <1>4, FlattenSingles
  <2> QED
    BY <1>4, <2>1, <2>2
<1>6. SwiftParse(cs) = [events |-> Scanned("swift", Characters(cs)).events,
                        crashed |-> Scanned("swift", Characters(cs)).crashed, kept |-> flat]
  BY DEF SwiftParse, SseEventList
<1> HIDE DEF flat
<1>7. SwiftParse(cs).crashed = Scanned("swift", Characters(cs)).crashed
  BY <1>6, ResultFields
<1>8. SwiftParse(cs).events = Scanned("swift", Characters(cs)).events /\ SwiftParse(cs).kept = flat
  BY <1>6
<1> QED
  BY <1>2, <1>3, <1>5, <1>7, <1>8, Zenon

(***************************************************************************)
(* Decoding piece by piece.                                                *)
(***************************************************************************)
LEMMA FrontFacts ==
  ASSUME NEW T, NEW s \in Seq(T), s # <<>>
  PROVE  Front(s) \in Seq(T) /\ Len(Front(s)) = Len(s) - 1 /\ \A i \in 1 .. Len(s) - 1 : Front(s)[i] = s[i]
<1>1. Len(s) - 1 \in 0 .. Len(s) /\ 1 \in 1 .. Len(s) + 1 /\ 1 <= (Len(s) - 1) + 1 /\ (Len(s) - 1) - 1 + 1 = Len(s) - 1
  OBVIOUS
<1>2. Front(s) \in Seq(T) /\ Len(Front(s)) = (Len(s) - 1) - 1 + 1
  BY <1>1, SubSeqFacts DEF Front
<1>3. \A i \in 1 .. Len(s) - 1 : Front(s)[i] = s[i]
  BY <1>1 DEF Front
<1> QED
  BY <1>1, <1>2, <1>3

\* A character of a text that is decoded is put behind it or, the second byte of
\* one, in the place of the last.
LEMMA DecodedFacts ==
  ASSUME NEW C, NEW cs \in Decodings(C), NEW b \in C
  PROVE  /\ b \notin {"hi", "lo"} => Decoded(cs, b) = Append(cs, b)
         /\ b = "hi" => Decoded(cs, b) = Append(cs, "half")
         /\ b = "lo" /\ cs # <<>> /\ Last(cs) = "half" => Decoded(cs, b) = Append(Front(cs), "char")
         /\ b = "lo" /\ (cs = <<>> \/ Last(cs) # "half") => Decoded(cs, b) = Append(cs, "bad")
BY DEF Decoded

\* Decoding a byte sees no more of the text than its last character.
LEMMA DecodedBehind ==
  ASSUME NEW C, NEW cs \in Decodings(C), NEW ds \in Decodings(C), NEW b \in C, ds # <<>> \/ b # "lo"
  PROVE  Decoded(cs \o ds, b) = cs \o Decoded(ds, b)
<1>1. cs \o ds \in Decodings(C)
  BY DEF Decodings
<1>2. \A x : cs \o Append(ds, x) = Append(cs \o ds, x)
  BY DEF Decodings
<1>3. CASE b # "lo"
  <2>1. CASE b = "hi"
    <3>1. Decoded(cs \o ds, b) = Append(cs \o ds, "half") /\ Decoded(ds, b) = Append(ds, "half")
      BY <1>1, <2>1, DecodedFacts
    <3> QED
      BY <1>2, <3>1
  <2>2. CASE b # "hi"
    <3>1. Decoded(cs \o ds, b) = Append(cs \o ds, b) /\ Decoded(ds, b) = Append(ds, b)
      BY <1>1, <1>3, <2>2, DecodedFacts
    <3> QED
      BY <1>2, <3>1
  <2> QED
    BY <2>1, <2>2
<1>4. CASE b = "lo"
  <2>1. ds # <<>> /\ Len(ds) \in Nat \ {0} /\ Len(cs) \in Nat /\ Len(cs \o ds) = Len(cs) + Len(ds)
    BY <1>4 DEF Decodings
  <2>2. Last(cs \o ds) = Last(ds) /\ cs \o ds # <<>>
    <3>1. (cs \o ds)[Len(cs) + Len(ds)] = ds[Len(ds)]
      BY <2>1 DEF Decodings
    <3> QED
      BY <2>1, <3>1 DEF Last
  <2>3. CASE Last(ds) = "half"
    <3> DEFINE whole == cs \o ds
    <3>1. Front(whole) = cs \o Front(ds)
      <4> DEFINE T == C \cup {"half", "char", "bad"}
                 front == Front(whole)
                 again == cs \o Front(ds)
      <4>1. cs \in Seq(T) /\ ds \in Seq(T) /\ whole \in Seq(T)
        BY <1>1 DEF Decodings
      <4> HIDE DEF T
      <4>2. Front(ds) \in Seq(T) /\ Len(Front(ds)) = Len(ds) - 1 /\ \A i \in 1 .. Len(ds) - 1 : Front(ds)[i] = ds[i]
        BY <2>1, <4>1, FrontFacts
      <4>3. front \in Seq(T) /\ Len(front) = Len(cs) + Len(ds) - 1 /\ \A i \in 1 .. Len(cs) + Len(ds) - 1 : front[i] = whole[i]
        <5> HIDE DEF whole
        <5>1. Len(whole) - 1 = Len(cs) + Len(ds) - 1 /\ whole # <<>>
          BY <2>1, <2>2 DEF whole
        <5>2. front \in Seq(T) /\ Len(front) = Len(whole) - 1 /\ \A i \in 1 .. Len(whole) - 1 : front[i] = whole[i]
          BY <4>1, <5>1, FrontFacts
        <5> HIDE DEF front
        <5> QED
          BY <5>1, <5>2
      <4>4. again \in Seq(T) /\ Len(again) = Len(cs) + (Len(ds) - 1)
        BY <2>1, <4>1, <4>2, ConcatFacts
      <4>5. ASSUME NEW i \in 1 .. Len(cs) + Len(ds) - 1 PROVE front[i] = again[i]
        <5>0. front[i] = whole[i]
          BY <4>3
        <5>1. CASE i <= Len(cs)
          <6>1. i \in 1 .. Len(cs)
            BY <2>1, <5>1
          <6>2. again[i] = cs[i] /\ whole[i] = cs[i]
            BY <4>1, <4>2, <6>1, ConcatFacts
          <6> QED
            BY <5>0, <6>2
        <5>2. CASE i > Len(cs)
          <6>1. i - Len(cs) \in 1 .. Len(Front(ds)) /\ i - Len(cs) \in 1 .. Len(ds) /\ Len(cs) + (i - Len(cs)) = i
            BY <2>1, <4>2, <5>2
          <6>2. again[Len(cs) + (i - Len(cs))] = Front(ds)[i - Len(cs)] /\ whole[Len(cs) + (i - Len(cs))] = ds[i - Len(cs)]
            BY <4>1, <4>2, <6>1, ConcatFacts
          <6>3. Front(ds)[i - Len(cs)] = ds[i - Len(cs)]
            BY <4>2, <6>1
          <6> HIDE DEF front, again, whole
          <6> QED
            BY <5>0, <6>1, <6>2, <6>3
        <5>3. i <= Len(cs) \/ i > Len(cs)
          BY <2>1
        <5> QED
          BY <5>1, <5>2, <5>3, Zenon
      <4> HIDE DEF front, again
      <4>6. front = again
        BY <2>1, <4>3, <4>4, <4>5, SameSeq
      <4> QED
        BY <4>6 DEF front, again
    <3>2. Front(ds) \in Decodings(C)
      BY <2>1, FrontFacts DEF Decodings
    <3>3. cs \o Append(Front(ds), "char") = Append(cs \o Front(ds), "char")
      BY <3>2 DEF Decodings
    <3>4. Decoded(ds, b) = Append(Front(ds), "char") /\ Decoded(whole, b) = Append(Front(whole), "char")
      BY <1>1, <1>4, <2>1, <2>2, <2>3, DecodedFacts
    <3> QED
      BY <3>1, <3>3, <3>4
  <2>4. CASE Last(ds) # "half"
    BY <1>1, <1>2, <1>4, <2>1, <2>2, <2>4, DecodedFacts, ZenonT(40)
  <2> QED
    BY <2>3, <2>4
<1> QED
  BY <1>3, <1>4

\* Decoding never makes a text longer.
LEMMA LossyLength ==
  ASSUME NEW C, NEW cs \in Seq(C)
  PROVE  Lossy(cs) \in Decodings(C) /\ Len(Lossy(cs)) <= Len(cs) /\ (cs # <<>> => Lossy(cs) # <<>>)
<1> DEFINE P == {s \in Seq(C) : Len(Lossy(s)) <= Len(s) /\ (s # <<>> => Lossy(s) # <<>>)}
<1>1. <<>> \in P
  <2>1. <<>> \in Seq(C) /\ Len(<<>>) <= Len(<<>>)
    OBVIOUS
  <2> QED
    BY <2>1, LossyFacts
<1>2. ASSUME NEW s \in P, NEW b \in C PROVE Append(s, b) \in P
  <2>1. s \in Seq(C) /\ Append(s, b) \in Seq(C) /\ Len(Lossy(s)) <= Len(s) /\ Len(Append(s, b)) = Len(s) + 1 /\ Len(s) \in Nat
    OBVIOUS
  <2> SUFFICES Len(Lossy(Append(s, b))) <= Len(s) + 1 /\ Lossy(Append(s, b)) # <<>>
    BY <2>1
  <2> DEFINE text == Lossy(s)
  <2>2. text \in Decodings(C) /\ Lossy(Append(s, b)) = Decoded(text, b)
    BY <2>1, LossyFacts
  <2> HIDE DEF text, P
  <2>3. PICK ds \in Decodings(C), x \in {"char", "half", "bad", b} : Decoded(text, b) = Append(ds, x) /\ Len(ds) <= Len(text)
    <3>1. CASE b = "lo" /\ text # <<>> /\ Last(text) = "half"
      <4>1. Front(text) \in Decodings(C) /\ Len(Front(text)) = Len(text) - 1 /\ Len(text) \in Nat
        BY <2>2, <3>1, FrontFacts DEF Decodings
      <4>2. Decoded(text, b) = Append(Front(text), "char")
        BY <2>2, <3>1, DecodedFacts
      <4> QED
        BY <4>1, <4>2
    <3>2. CASE ~ (b = "lo" /\ text # <<>> /\ Last(text) = "half")
      <4>1. \E x \in {"char", "half", "bad", b} : Decoded(text, b) = Append(text, x)
        BY <2>2, <3>2, DecodedFacts
      <4>2. Len(text) <= Len(text)
        BY <2>2 DEF Decodings
      <4> QED
        BY <2>2, <4>1, <4>2
    <3> QED
      BY <3>1, <3>2
  <2>4. Len(ds) \in Nat /\ Len(text) \in Nat /\ Len(Append(ds, x)) = Len(ds) + 1 /\ Append(ds, x) # <<>>
    BY <2>2, AppendIsLonger DEF Decodings
  <2>5. Len(text) <= Len(s)
    BY <2>1 DEF text
  <2> QED
    BY <2>1, <2>2, <2>3, <2>4, <2>5
<1> HIDE DEF P
<1>3. P = Seq(C)
  <2>1. P \in SUBSET Seq(C)
    BY DEF P
  <2> QED
    BY <1>1, <1>2, <2>1, SeqInduction
<1> QED
  BY <1>3, LossyFacts DEF P

\* Bytes that are not cut inside a character are decoded piece by piece.
LEMMA LossySplits ==
  ASSUME NEW C, NEW cs \in Seq(C), NEW xs \in Seq(C), xs = <<>> \/ Head(xs) # "lo"
  PROVE  Lossy(cs \o xs) = Lossy(cs) \o Lossy(xs)
<1> DEFINE P == {x \in Seq(C) : x = <<>> \/ Head(x) # "lo" => Lossy(cs \o x) = Lossy(cs) \o Lossy(x)}
<1>1. <<>> \in P
  <2>1. <<>> \in Seq(C) /\ cs \o <<>> = cs
    OBVIOUS
  <2>2. Lossy(cs) \o <<>> = Lossy(cs)
    BY LossyFacts DEF Decodings
  <2> QED
    BY <2>1, <2>2, LossyFacts
<1>2. ASSUME NEW x \in P, NEW b \in C PROVE Append(x, b) \in P
  <2>1. x \in Seq(C) /\ Append(x, b) \in Seq(C) /\ cs \o x \in Seq(C) /\ cs \o Append(x, b) = Append(cs \o x, b)
    OBVIOUS
  <2>2. (x = <<>> => Head(Append(x, b)) = b) /\ (x # <<>> => Head(Append(x, b)) = Head(x))
    OBVIOUS
  <2>3. ASSUME Head(Append(x, b)) # "lo" PROVE Lossy(Append(cs \o x, b)) = Lossy(cs) \o Lossy(Append(x, b))
    <3>1. Lossy(cs \o x) = Lossy(cs) \o Lossy(x)
      BY <2>2, <2>3
    <3>2. (x # <<>> => Lossy(x) # <<>>) /\ Lossy(x) \in Decodings(C) /\ Lossy(cs) \in Decodings(C)
      BY <2>1, LossyLength
    <3>3. Lossy(Append(cs \o x, b)) = Decoded(Lossy(cs) \o Lossy(x), b) /\ Lossy(Append(x, b)) = Decoded(Lossy(x), b)
      BY <2>1, <3>1, LossyFacts
    <3>4. Lossy(x) # <<>> \/ b # "lo"
      BY <2>2, <2>3, <3>2
    <3> HIDE DEF P
    <3> QED
      BY <3>2, <3>3, <3>4, DecodedBehind
  <2>4. Append(x, b) # <<>>
    BY <2>1, AppendIsLonger
  <2> QED
    BY <2>1, <2>3, <2>4
<1> HIDE DEF P
<1>3. P = Seq(C)
  <2>1. P \in SUBSET Seq(C)
    BY DEF P
  <2> QED
    BY <1>1, <1>2, <2>1, SeqInduction
<1> QED
  BY <1>3 DEF P

\* Halves and whole characters are no ends of lines.
Letters == {"half", "char", "bad"}

\* One more byte gives a last character.
LEMMA LossyOfLonger ==
  ASSUME NEW C, NEW cs \in Seq(C), NEW b \in C
  PROVE  /\ b \notin {"hi", "lo"} => Lossy(Append(cs, b)) = Append(Lossy(cs), b)
         /\ b \in {"hi", "lo"} => \E ds \in Decodings(C), x \in Letters : Lossy(Append(cs, b)) = Append(ds, x)
<1>1. Lossy(cs) \in Decodings(C) /\ Lossy(Append(cs, b)) = Decoded(Lossy(cs), b)
  BY LossyFacts
<1>2. CASE b \notin {"hi", "lo"}
  BY <1>1, <1>2, DecodedFacts
<1>3. CASE b = "hi"
  BY <1>1, <1>3, DecodedFacts DEF Letters
<1>4. CASE b = "lo" /\ Lossy(cs) # <<>> /\ Last(Lossy(cs)) = "half"
  <2>1. Front(Lossy(cs)) \in Decodings(C)
    BY <1>1, <1>4, FrontFacts DEF Decodings
  <2> QED
    BY <1>1, <1>4, <2>1, DecodedFacts DEF Letters
<1>5. CASE b = "lo" /\ (Lossy(cs) = <<>> \/ Last(Lossy(cs)) # "half")
  BY <1>1, <1>5, DecodedFacts DEF Letters
<1> QED
  BY <1>2, <1>3, <1>4, <1>5

\* A text ends within a line if the last byte is not the end of one.
LEMMA EndsWithinLine ==
  ASSUME NEW C, NEW cs \in Seq(C), cs # <<>>, cs[Len(cs)] \notin Eol
  PROVE  LineIn(Lossy(cs)) # <<>>
<1>1. PICK s \in Seq(C), b \in C : cs = Append(s, b)
  BY LastOfSeq
<1>2. b \notin Eol
  BY <1>1
<1>3. PICK ds \in Decodings(C), x \in (C \cup Letters) \ Eol : Lossy(cs) = Append(ds, x)
  <2>1. CASE b \notin {"hi", "lo"}
    <3>1. Lossy(cs) = Append(Lossy(s), b) /\ Lossy(s) \in Decodings(C)
      BY <1>1, <2>1, LossyOfLonger, LossyFacts
    <3> QED
      BY <1>2, <3>1
  <2>2. CASE b \in {"hi", "lo"}
    <3>1. PICK ds \in Decodings(C), x \in Letters : Lossy(cs) = Append(ds, x)
      BY <1>1, <2>2, LossyOfLonger
    <3> QED
      BY <3>1 DEF Letters, Eol
  <2> QED
    BY <2>1, <2>2
<1> DEFINE D == C \cup Letters
<1>4. ds \in Seq(D) /\ x \in D /\ x \notin Eol
  BY DEF Decodings, Letters
<1> HIDE DEF D
<1>5. LineIn(Lossy(cs)) = Append(LineIn(ds), x) /\ LineIn(ds) \in Seq(D \ Eol)
  BY <1>3, <1>4, ReadingLonger, ReadingFacts
<1> QED
  BY <1>5, AppendIsLonger

\* A text that does not begin with a line feed is not decoded into one that does.
LEMMA HeadOfLossy ==
  ASSUME NEW C, NEW cs \in Seq(C), cs # <<>>, Head(cs) # "n"
  PROVE  Lossy(cs) # <<>> /\ Head(Lossy(cs)) # "n"
<1> DEFINE P == {s \in Seq(C) : s # <<>> /\ Head(s) # "n" => Head(Lossy(s)) # "n"}
<1>1. <<>> \in P
  OBVIOUS
<1>2. ASSUME NEW s \in P, NEW b \in C PROVE Append(s, b) \in P
  <2>1. s \in Seq(C) /\ Append(s, b) \in Seq(C)
    OBVIOUS
  <2>2. (s = <<>> => Head(Append(s, b)) = b) /\ (s # <<>> => Head(Append(s, b)) = Head(s))
    OBVIOUS
  <2>3. s # <<>> => (Head(s) # "n" => Head(Lossy(s)) # "n")
    OBVIOUS
  <2> SUFFICES ASSUME Head(Append(s, b)) # "n" PROVE Head(Lossy(Append(s, b))) # "n"
    BY <2>1
  <2> DEFINE text == Lossy(s)
             T == C \cup {"half", "char", "bad"}
  <2>4. /\ text \in Decodings(C) /\ (s # <<>> => text # <<>>) /\ Lossy(Append(s, b)) = Decoded(text, b)
        /\ (s = <<>> => text = <<>>)
    BY <2>1, LossyFacts, LossyLength
  <2>5. text # <<>> => Head(text) # "n"
    BY <2>2, <2>3, <2>4
  <2>6. text = <<>> => b # "n"
    BY <2>2, <2>4
  <2> HIDE DEF text, P
  <2>7. text \in Seq(T)
    BY <2>4 DEF Decodings
  <2>8. ASSUME NEW x, NEW t \in Seq(T), t # <<>> => Head(t) # "n", t = <<>> => x # "n"
        PROVE  Head(Append(t, x)) # "n"
    <3>1. Append(t, x)[1] = IF t = <<>> THEN x ELSE t[1]
      OBVIOUS
    <3> QED
      BY <2>8, <3>1
  <2>9. CASE b = "lo" /\ text # <<>> /\ Last(text) = "half"
    <3> DEFINE t == Front(text)
    <3>1. t \in Seq(T) /\ Len(t) = Len(text) - 1 /\ \A i \in 1 .. Len(text) - 1 : t[i] = text[i]
      BY <2>7, <2>9, FrontFacts
    <3>2. Decoded(text, b) = Append(t, "char")
      BY <2>4, <2>9, DecodedFacts
    <3> HIDE DEF t, T
    <3>3. t # <<>> => Head(t) # "n"
      <4>1. t # <<>> => 1 \in 1 .. Len(text) - 1
        BY <2>7, <3>1
      <4>2. t # <<>> => Head(t) = t[1]
        BY <3>1
      <4>3. Head(text) = text[1]
        BY <2>7, <2>9
      <4> QED
        BY <2>5, <2>9, <3>1, <4>1, <4>2, <4>3
    <3> QED
      BY <2>4, <2>8, <3>1, <3>2, <3>3
  <2>10. CASE ~ (b = "lo" /\ text # <<>> /\ Last(text) = "half")
    <3>1. PICK x : Decoded(text, b) = Append(text, x) /\ (x = b \/ x # "n")
      BY <2>4, <2>10, DecodedFacts
    <3> QED
      BY <2>4, <2>5, <2>6, <2>7, <2>8, <3>1
  <2> QED
    BY <2>9, <2>10
<1> HIDE DEF P
<1>3. P = Seq(C)
  <2>1. P \in SUBSET Seq(C)
    BY DEF P
  <2> QED
    BY <1>1, <1>2, <2>1, SeqInduction
<1> QED
  BY <1>3, LossyLength DEF P

\* Bytes in which the halves of characters stand in pairs, as far as they go.
Paired(bytes) == \A p \in 1 .. Len(bytes) : bytes[p] = "lo" <=> p > 1 /\ bytes[p - 1] = "hi"

\* Only the last character may be half a one.
LEMMA HalfIsLast ==
  ASSUME NEW C, C \cap Letters = {}, NEW cs \in Seq(C), Paired(cs)
  PROVE  /\ \A i \in 1 .. Len(Lossy(cs)) - 1 : Lossy(cs)[i] # "half"
         /\ cs # <<>> => (Last(Lossy(cs)) = "half" <=> cs[Len(cs)] = "hi")
<1> DEFINE P == {s \in Seq(C) : Paired(s) =>
                   /\ \A i \in 1 .. Len(Lossy(s)) - 1 : Lossy(s)[i] # "half"
                   /\ s # <<>> => (Last(Lossy(s)) = "half" <=> s[Len(s)] = "hi")}
<1>1. <<>> \in P
  <2>1. <<>> \in Seq(C) /\ 1 .. Len(<<>>) - 1 = {}
    OBVIOUS
  <2> QED
    BY <2>1, LossyFacts
<1>2. ASSUME NEW s \in P, NEW b \in C PROVE Append(s, b) \in P
  <2> DEFINE t == Append(s, b)
             text == Lossy(s)
             more == Lossy(t)
             T == C \cup {"half", "char", "bad"}
  <2>1. s \in Seq(C) /\ t \in Seq(C) /\ Len(t) = Len(s) + 1 /\ Len(s) \in Nat /\ t[Len(s) + 1] = b
        /\ \A i \in 1 .. Len(s) : t[i] = s[i]
    OBVIOUS
  <2> SUFFICES ASSUME Paired(t)
               PROVE  /\ \A i \in 1 .. Len(more) - 1 : more[i] # "half"
                      /\ Last(more) = "half" <=> b = "hi"
    BY <2>1
  <2>2. Paired(s)
    <3> HIDE DEF t
    <3> SUFFICES ASSUME NEW p \in 1 .. Len(s) PROVE s[p] = "lo" <=> p > 1 /\ s[p - 1] = "hi"
      BY DEF Paired
    <3>1. p \in 1 .. Len(t) /\ t[p] = s[p] /\ (p > 1 => p - 1 \in 1 .. Len(s))
      BY <2>1
    <3>2. p > 1 => t[p - 1] = s[p - 1]
      BY <2>1, <3>1
    <3>3. t[p] = "lo" <=> p > 1 /\ t[p - 1] = "hi"
      BY <3>1 DEF Paired
    <3> QED
      BY <3>1, <3>2, <3>3
  <2>3. /\ \A i \in 1 .. Len(text) - 1 : text[i] # "half"
        /\ s # <<>> => (Last(text) = "half" <=> s[Len(s)] = "hi")
    BY <2>2
  <2>4. b = "lo" <=> s # <<>> /\ s[Len(s)] = "hi"
    <3> HIDE DEF t
    <3>1. Len(s) + 1 \in 1 .. Len(t) /\ (Len(s) + 1) - 1 = Len(s) /\ (Len(s) + 1 > 1 <=> s # <<>>)
      BY <2>1
    <3>2. b = "lo" <=> s # <<>> /\ t[Len(s)] = "hi"
      BY <2>1, <3>1 DEF Paired
    <3>3. s # <<>> => t[Len(s)] = s[Len(s)]
      BY <2>1
    <3> QED
      BY <3>2, <3>3
  <2>5. /\ text \in Decodings(C) /\ more = Decoded(text, b) /\ (s # <<>> => text # <<>>) /\ (s = <<>> => text = <<>>)
    BY <2>1, LossyFacts, LossyLength
  <2> HIDE DEF P, text, more, t
  <2>6. text \in Seq(T) /\ Len(text) \in Nat
    BY <2>5 DEF Decodings
  <2>7. ASSUME NEW ds \in Seq(T), NEW x PROVE Last(Append(ds, x)) = x /\ Len(Append(ds, x)) - 1 = Len(ds)
               /\ \A i \in 1 .. Len(ds) : Append(ds, x)[i] = ds[i]
    BY DEF Last
  <2>8. CASE b = "lo"
    <3>1. text # <<>> /\ Last(text) = "half"
      BY <2>3, <2>4, <2>5, <2>8
    <3>2. more = Append(Front(text), "char")
      BY <2>5, <2>8, <3>1, DecodedFacts
    <3>3. Front(text) \in Seq(T) /\ Len(Front(text)) = Len(text) - 1 /\ \A i \in 1 .. Len(text) - 1 : Front(text)[i] = text[i]
      BY <2>6, <3>1, FrontFacts
    <3>4. Last(more) = "char" /\ Len(more) - 1 = Len(text) - 1 /\ \A i \in 1 .. Len(text) - 1 : more[i] = text[i]
      BY <2>7, <3>2, <3>3
    <3> QED
      BY <2>3, <2>8, <3>4
  <2>9. CASE b # "lo"
    <3>1. more = Append(text, IF b = "hi" THEN "half" ELSE b)
      BY <2>5, <2>9, DecodedFacts
    <3>2. Last(more) = (IF b = "hi" THEN "half" ELSE b) /\ Len(more) - 1 = Len(text) /\ \A i \in 1 .. Len(text) : more[i] = text[i]
      BY <2>6, <2>7, <3>1
    <3>3. b # "half"
      BY DEF Letters
    <3>4. text # <<>> => Last(text) # "half"
      BY <2>3, <2>4, <2>5, <2>9
    <3>5. ASSUME NEW i \in 1 .. Len(text) PROVE text[i] # "half"
      <4>1. i = Len(text) \/ i \in 1 .. Len(text) - 1
        BY <2>6
      <4>2. text # <<>>
        BY <2>6
      <4> QED
        BY <2>3, <3>4, <4>1, <4>2 DEF Last
    <3> QED
      BY <3>2, <3>3, <3>5
  <2> QED
    BY <2>8, <2>9
<1> HIDE DEF P
<1>3. P = Seq(C)
  <2>1. P \in SUBSET Seq(C)
    BY DEF P
  <2> QED
    BY <1>1, <1>2, <2>1, SeqInduction
<1> QED
  BY <1>3 DEF P

\* A chunk that does not end within a character is decoded without loss.
LEMMA ReplacedIsLossy ==
  ASSUME NEW C, C \cap Letters = {}, NEW cs \in Seq(C), Paired(cs), cs = <<>> \/ cs[Len(cs)] # "hi"
  PROVE  Replaced(cs) = Lossy(cs)
<1> DEFINE text == Lossy(cs)
<1>1. text \in Seq(C \cup {"half", "char", "bad"}) /\ (cs = <<>> => text = <<>>)
  BY LossyFacts DEF Decodings
<1>2. /\ \A i \in 1 .. Len(text) - 1 : text[i] # "half"
      /\ cs # <<>> => Last(text) # "half"
  BY HalfIsLast
<1>3. Replaced(cs) = [i \in DOMAIN text |-> IF text[i] = "half" THEN "bad" ELSE text[i]]
  BY DEF Replaced
<1> HIDE DEF text
<1>4. ASSUME NEW i \in DOMAIN text PROVE text[i] # "half"
  <2>1. i \in 1 .. Len(text) /\ text # <<>> /\ Len(text) \in Nat
    BY <1>1
  <2>2. i = Len(text) \/ i \in 1 .. Len(text) - 1
    BY <2>1
  <2> QED
    BY <1>1, <1>2, <2>1, <2>2 DEF Last
<1>5. text = [i \in DOMAIN text |-> text[i]]
  BY <1>1
<1>6. Replaced(cs) = text
  BY <1>3, <1>4, <1>5
<1> QED
  BY <1>6 DEF text

(***************************************************************************)
(* The lines of an event.                                                  *)
(***************************************************************************)
FieldOf(fields, name) ==
  IF name = "id:" THEN fields.id ELSE IF name = "event:" THEN fields.event
  ELSE IF name = "data:" THEN fields.data ELSE fields.retry

\* A line sets the field that it names and no other.
LEMMA LineResultField ==
  ASSUME NEW C, NEW fields \in FieldStates(C), NEW line, line # <<>>, NEW name \in Fields
  PROVE  FieldOf(LineResult(fields, line), name) = IF Head(line) = name THEN Tail(line) ELSE FieldOf(fields, name)
<1> DEFINE value == Tail(line)
           head == Head(line)
           result == LineResult(fields, line)
<1>1. /\ head = "id:" => result = [fields EXCEPT !.id = value]
      /\ head = "event:" => result = [fields EXCEPT !.event = value]
      /\ head = "data:" => result = [fields EXCEPT !.data = value]
      /\ head = "retry:" => result = [fields EXCEPT !.retry = value]
      /\ head \notin Fields => result = fields
  BY DEF LineResult, Fields
<1> HIDE DEF value, head, result
<1>2. DOMAIN fields = {"id", "event", "data", "retry"}
  BY DEF FieldStates
<1>3. CASE head = "id:"
  BY <1>1, <1>2, <1>3 DEF FieldOf, Fields, FieldStates, value, head, result
<1>4. CASE head = "event:"
  BY <1>1, <1>2, <1>4 DEF FieldOf, Fields, FieldStates, value, head, result
<1>5. CASE head = "data:"
  BY <1>1, <1>2, <1>5 DEF FieldOf, Fields, FieldStates, value, head, result
<1>6. CASE head = "retry:"
  BY <1>1, <1>2, <1>6 DEF FieldOf, Fields, FieldStates, value, head, result
<1>7. CASE head \notin Fields
  BY <1>1, <1>7 DEF value, head, result
<1> QED
  BY <1>3, <1>4, <1>5, <1>6, <1>7 DEF Fields

\* Lines that are not empty end no event, and a field has the value that they
\* give it.
LEMMA LinesSay ==
  ASSUME NEW C, NEW lines \in Seq(Seq(C)), \A i \in 1 .. Len(lines) : lines[i] # <<>>,
         NEW name \in Fields, NEW value, \A i \in 1 .. Len(lines) : Head(lines[i]) = name => value = Tail(lines[i])
  PROVE  /\ Parsed(lines).events = <<>>
         /\ (\E i \in 1 .. Len(lines) : Head(lines[i]) = name) => FieldOf(Parsed(lines).fields, name) = value
         /\ (\A i \in 1 .. Len(lines) : Head(lines[i]) # name) => FieldOf(Parsed(lines).fields, name) = None
<1> DEFINE Plain(ls) == /\ \A i \in 1 .. Len(ls) : ls[i] # <<>>
                        /\ \A i \in 1 .. Len(ls) : Head(ls[i]) = name => value = Tail(ls[i])
           Said(ls) == /\ Parsed(ls).events = <<>>
                       /\ (\E i \in 1 .. Len(ls) : Head(ls[i]) = name) => FieldOf(Parsed(ls).fields, name) = value
                       /\ (\A i \in 1 .. Len(ls) : Head(ls[i]) # name) => FieldOf(Parsed(ls).fields, name) = None
           P == {ls \in Seq(Seq(C)) : Plain(ls) => Said(ls)}
<1>1. <<>> \in P
  <2>1. <<>> \in Seq(Seq(C)) /\ 1 .. Len(<<>>) = {}
    OBVIOUS
  <2>2. Parsed(<<>>) = NoEvents
    BY ParsedFacts
  <2>3. FieldOf(Fresh, name) = None
    BY DEF FieldOf, Fresh
  <2>4. Parsed(<<>>).events = <<>> /\ Parsed(<<>>).fields = Fresh
    BY <2>2 DEF NoEvents
  <2> QED
    BY <2>1, <2>3, <2>4
<1>2. ASSUME NEW ls \in P, NEW l \in Seq(C) PROVE Append(ls, l) \in P
  <2> DEFINE t == Append(ls, l)
             n == Len(ls) + 1
  <2>1. ls \in Seq(Seq(C)) /\ t \in Seq(Seq(C)) /\ Len(t) = n /\ Len(ls) \in Nat /\ t[n] = l
        /\ \A i \in 1 .. Len(ls) : t[i] = ls[i]
    OBVIOUS
  <2> SUFFICES ASSUME Plain(t) PROVE Said(t)
    BY <2>1
  <2>2. Plain(ls) => Said(ls)
    OBVIOUS
  <2> HIDE DEF P, t
  <2>3. Plain(ls)
    <3>1. \A i \in 1 .. Len(ls) : i \in 1 .. Len(t)
      BY <2>1
    <3> QED
      BY <2>1, <3>1
  <2>4. l # <<>> /\ (Head(l) = name => value = Tail(l))
    <3>1. n \in 1 .. Len(t)
      BY <2>1
    <3> QED
      BY <2>1, <3>1
  <2>5. /\ Parsed(ls) \in LineStates(C) /\ Parsed(t) = LineStep(Parsed(ls), l)
    BY <2>1, ParsedFacts DEF t
  <2>6. Parsed(t) = [events |-> Parsed(ls).events, fields |-> LineResult(Parsed(ls).fields, l), rest |-> Append(Parsed(ls).rest, l)]
    BY <2>4, <2>5, LineStepFacts
  <2>7. Parsed(t).events = Parsed(ls).events /\ Parsed(t).fields = LineResult(Parsed(ls).fields, l)
    BY <2>6
  <2>8. Parsed(ls).fields \in FieldStates(C)
    BY <2>5 DEF LineStates
  <2>9. FieldOf(Parsed(t).fields, name) = IF Head(l) = name THEN Tail(l) ELSE FieldOf(Parsed(ls).fields, name)
    <3> DEFINE fields == Parsed(ls).fields
    <3> HIDE DEF fields
    <3>1. fields \in FieldStates(C) /\ l # <<>>
      BY <2>4, <2>8 DEF fields
    <3>2. FieldOf(LineResult(fields, l), name) = IF Head(l) = name THEN Tail(l) ELSE FieldOf(fields, name)
      BY <3>1, LineResultField
    <3> QED
      BY <2>7, <3>2 DEF fields
  <2>10. Said(ls)
    BY <2>2, <2>3
  <2>11. ASSUME \E i \in 1 .. Len(t) : Head(t[i]) = name PROVE FieldOf(Parsed(t).fields, name) = value
    <3>1. CASE Head(l) = name
      BY <2>4, <2>9, <3>1
    <3>2. CASE Head(l) # name
      <4>1. PICK i \in 1 .. Len(t) : Head(t[i]) = name
        BY <2>11
      <4>2. i \in 1 .. Len(ls) /\ t[i] = ls[i]
        BY <2>1, <3>2, <4>1
      <4> QED
        BY <2>9, <2>10, <3>2, <4>1, <4>2
    <3> QED
      BY <3>1, <3>2
  <2>12. ASSUME \A i \in 1 .. Len(t) : Head(t[i]) # name PROVE FieldOf(Parsed(t).fields, name) = None
    <3>1. n \in 1 .. Len(t) /\ \A i \in 1 .. Len(ls) : i \in 1 .. Len(t) /\ t[i] = ls[i]
      BY <2>1
    <3>2. Head(l) # name /\ \A i \in 1 .. Len(ls) : Head(ls[i]) # name
      BY <2>1, <2>12, <3>1
    <3> QED
      BY <2>9, <2>10, <3>2
  <2> QED
    BY <2>7, <2>10, <2>11, <2>12
<1> HIDE DEF P
<1>3. P = Seq(Seq(C))
  <2>1. P \in SUBSET Seq(Seq(C))
    BY DEF P
  <2> QED
    BY <1>1, <1>2, <2>1, SeqInduction
<1>4. lines \in P
  BY <1>3
<1> QED
  BY <1>4 DEF P

\* Lines that are not empty end no event.
LEMMA LinesEndNoEvent ==
  ASSUME NEW C, NEW lines \in Seq(Seq(C)), \A i \in 1 .. Len(lines) : lines[i] # <<>>
  PROVE  Parsed(lines).events = <<>>
<1> DEFINE P == {ls \in Seq(Seq(C)) : (\A i \in 1 .. Len(ls) : ls[i] # <<>>) => Parsed(ls).events = <<>>}
<1>1. <<>> \in P
  <2>1. <<>> \in Seq(Seq(C))
    OBVIOUS
  <2>2. Parsed(<<>>) = NoEvents
    BY ParsedFacts
  <2> QED
    BY <2>1, <2>2 DEF NoEvents
<1>2. ASSUME NEW ls \in P, NEW l \in Seq(C) PROVE Append(ls, l) \in P
  <2> DEFINE t == Append(ls, l)
             n == Len(ls) + 1
  <2>1. ls \in Seq(Seq(C)) /\ t \in Seq(Seq(C)) /\ Len(t) = n /\ Len(ls) \in Nat /\ t[n] = l
        /\ \A i \in 1 .. Len(ls) : t[i] = ls[i]
    OBVIOUS
  <2> SUFFICES ASSUME \A i \in 1 .. Len(t) : t[i] # <<>> PROVE Parsed(t).events = <<>>
    BY <2>1
  <2>2. (\A i \in 1 .. Len(ls) : ls[i] # <<>>) => Parsed(ls).events = <<>>
    OBVIOUS
  <2> HIDE DEF P, t
  <2>3. n \in 1 .. Len(t) /\ \A i \in 1 .. Len(ls) : i \in 1 .. Len(t)
    BY <2>1
  <2>4. l # <<>> /\ \A i \in 1 .. Len(ls) : ls[i] # <<>>
    BY <2>1, <2>3
  <2>5. /\ Parsed(ls) \in LineStates(C) /\ Parsed(t) = LineStep(Parsed(ls), l)
    BY <2>1, ParsedFacts DEF t
  <2>6. Parsed(t) = [events |-> Parsed(ls).events, fields |-> LineResult(Parsed(ls).fields, l), rest |-> Append(Parsed(ls).rest, l)]
    BY <2>4, <2>5, LineStepFacts
  <2> QED
    BY <2>2, <2>4, <2>6
<1> HIDE DEF P
<1>3. P = Seq(Seq(C))
  <2>1. P \in SUBSET Seq(Seq(C))
    BY DEF P
  <2> QED
    BY <1>1, <1>2, <2>1, SeqInduction
<1> QED
  BY <1>3 DEF P

\* A text that is written for an event says that event.
LEMMA BlockReads ==
  ASSUME NEW D, "none" \notin D, NEW cs \in Seq(D), NEW e, IsWritten(cs, e)
  PROVE  /\ EventsIn(cs) = <<e>> /\ FieldsIn(cs) = Fresh /\ RestIn(cs) = <<>> /\ LineIn(cs) = <<>>
         /\ \A l \in Range(DoneIn(cs)) : IsLine(l)
         /\ DoneIn(cs) # <<>> /\ \A i \in 1 .. Len(DoneIn(cs)) - 1 : DoneIn(cs)[i] # <<>>
<1> DEFINE done == DoneIn(cs)
           lines == Front(done)
<1>1. done \in Seq(Seq(D \ Eol))
  BY ReadingFacts
<1>2. /\ LineIn(cs) = <<>> /\ done # <<>> /\ Last(done) = <<>>
      /\ \A i \in DOMAIN Front(done) : IsFieldLine(done[i])
      /\ SaysEvent(lines, e)
  BY DEF IsWritten, DoneIn, LineIn
<1> HIDE DEF done
<1>3. lines \in Seq(Seq(D \ Eol)) /\ Len(lines) = Len(done) - 1 /\ \A i \in 1 .. Len(done) - 1 : lines[i] = done[i]
  BY <1>1, <1>2, FrontFacts
<1>4. done = Append(lines, <<>>)
  <2> DEFINE t == Append(lines, <<>>)
  <2> HIDE DEF lines
  <2>1. t \in Seq(Seq(D \ Eol)) /\ Len(t) = Len(done) /\ t[Len(done)] = <<>> /\ \A i \in 1 .. Len(done) - 1 : t[i] = lines[i]
    BY <1>1, <1>3
  <2> HIDE DEF t
  <2>2. ASSUME NEW i \in 1 .. Len(done) PROVE t[i] = done[i]
    <3>1. i \in 1 .. Len(done) - 1 \/ i = Len(done)
      BY <1>1
    <3> QED
      BY <1>2, <1>3, <2>1, <3>1 DEF Last
  <2>3. t = done
    BY <1>1, <2>1, <2>2, SameSeq
  <2> QED
    BY <2>3 DEF t
<1> HIDE DEF lines
<1>5. \A i \in 1 .. Len(lines) : lines[i] # <<>> /\ IsFieldLine(lines[i]) /\ lines[i] \in Seq(D \ Eol)
  <2>1. DOMAIN lines = 1 .. Len(lines)
    BY <1>3
  <2>2. \A i \in 1 .. Len(lines) : IsFieldLine(done[i])
    BY <1>2, <2>1 DEF lines
  <2>3. \A i \in 1 .. Len(lines) : lines[i] = done[i] /\ lines[i] \in Seq(D \ Eol)
    BY <1>3
  <2> QED
    BY <2>2, <2>3 DEF IsFieldLine
<1>6. /\ e = Event(e.id, e.event, e.data, e.retry) /\ e.data # None
      /\ Says(lines, "id:", e.id, None) /\ Says(lines, "event:", e.event, <<"message">>)
      /\ Says(lines, "data:", e.data, None) /\ Says(lines, "retry:", e.retry, None)
  BY <1>2 DEF SaysEvent
<1> DEFINE fields == Parsed(lines).fields
<1>7. ASSUME NEW name \in Fields, NEW value, NEW default, Says(lines, name, value, default)
      PROVE  /\ Parsed(lines).events = <<>>
             /\ (\E i \in 1 .. Len(lines) : Head(lines[i]) = name) => FieldOf(fields, name) = value
             /\ (\A i \in 1 .. Len(lines) : Head(lines[i]) # name) => FieldOf(fields, name) = None /\ value = default
  <2>0. DOMAIN lines = 1 .. Len(lines)
    BY <1>3
  <2>1. /\ \A i \in 1 .. Len(lines) : Head(lines[i]) = name => value = Tail(lines[i])
        /\ (\A i \in 1 .. Len(lines) : Head(lines[i]) # name) => value = default
    BY <1>7, <2>0 DEF Says
  <2>2. \A i \in 1 .. Len(lines) : lines[i] # <<>>
    BY <1>5
  <2> QED
    BY <1>3, <2>1, <2>2, LinesSay
<1> HIDE DEF fields
<1>8. fields.id = e.id /\ fields.data = e.data /\ fields.retry = e.retry
  <2>1. FieldOf(fields, "id:") = e.id
    BY <1>6, <1>7 DEF Fields
  <2>2. FieldOf(fields, "data:") = e.data
    BY <1>6, <1>7 DEF Fields
  <2>3. FieldOf(fields, "retry:") = e.retry
    BY <1>6, <1>7 DEF Fields
  <2> QED
    BY <2>1, <2>2, <2>3 DEF FieldOf
<1>9. (IF fields.event = None THEN <<"message">> ELSE fields.event) = e.event
  <2>1. fields.event = FieldOf(fields, "event:")
    BY DEF FieldOf
  <2>2. CASE \E i \in 1 .. Len(lines) : Head(lines[i]) = "event:"
    <3>1. PICK i \in 1 .. Len(lines) : Head(lines[i]) = "event:"
      BY <2>2
    <3>2. e.event = Tail(lines[i])
      <4>1. DOMAIN lines = 1 .. Len(lines)
        BY <1>3
      <4>2. \A j \in DOMAIN lines : Head(lines[j]) = "event:" => e.event = Tail(lines[j])
        BY <1>6 DEF Says
      <4> QED
        BY <3>1, <4>1, <4>2
    <3>3. Tail(lines[i]) # None
      <4>1. lines[i] \in Seq(D \ Eol) /\ lines[i] # <<>>
        BY <1>5
      <4> DEFINE line == lines[i]
      <4> HIDE DEF line
      <4>2. Tail(line) \in Seq(D \ Eol)
        BY <4>1 DEF line
      <4>3. None[1] = "none" /\ 1 \in 1 .. Len(None)
        BY DEF None
      <4>4. \A s \in Seq(D \ Eol) : s # None
        BY <4>3
      <4> QED
        BY <4>2, <4>4 DEF line
    <3>4. FieldOf(fields, "event:") = e.event
      BY <1>6, <1>7, <2>2 DEF Fields
    <3> QED
      BY <2>1, <3>2, <3>3, <3>4
  <2>3. CASE \A i \in 1 .. Len(lines) : Head(lines[i]) # "event:"
    <3>1. FieldOf(fields, "event:") = None /\ e.event = <<"message">>
      BY <1>6, <1>7, <2>3 DEF Fields
    <3> QED
      BY <2>1, <3>1
  <2> QED
    BY <2>2, <2>3
<1>10. Parsed(lines).events = <<>>
  BY <1>6, <1>7 DEF Fields
<1>11. Parsed(done) = [events |-> Finished(<<>>, fields), fields |-> Fresh, rest |-> <<>>]
  <2>1. <<>> \in Seq(D \ Eol)
    OBVIOUS
  <2>2. Parsed(lines) \in LineStates(D \ Eol) /\ Parsed(done) = LineStep(Parsed(lines), <<>>)
    BY <1>3, <1>4, <2>1, ParsedFacts
  <2> QED
    BY <1>10, <2>1, <2>2, LineStepFacts DEF fields
<1>12. Finished(<<>>, fields) = <<e>>
  <2>1. fields.data # None
    BY <1>6, <1>8
  <2>2. Finished(<<>>, fields) = Append(<<>>, Event(fields.id, IF fields.event = None THEN <<"message">> ELSE fields.event,
                                                   fields.data, fields.retry))
    BY <2>1 DEF Finished
  <2>3. Finished(<<>>, fields) = Append(<<>>, e)
    BY <1>6, <1>8, <1>9, <2>2
  <2> QED
    BY <2>3
<1>13. EventsIn(cs) = <<e>> /\ FieldsIn(cs) = Fresh /\ RestIn(cs) = <<>> /\ LineIn(cs) = <<>>
  BY <1>2, <1>11, <1>12 DEF EventsIn, FieldsIn, RestIn, done
<1>14. \A l \in Range(done) : IsLine(l)
  <2>1. \A l \in Range(done) : \E i \in 1 .. Len(done) : l = done[i]
    BY <1>1 DEF Range
  <2>2. ASSUME NEW i \in 1 .. Len(done) PROVE IsLine(done[i])
    <3>1. i \in 1 .. Len(lines) \/ i = Len(done)
      BY <1>1, <1>3
    <3> QED
      BY <1>2, <1>3, <1>5, <3>1 DEF IsLine, Last
  <2> QED
    BY <2>1, <2>2
<1>15. \A i \in 1 .. Len(done) - 1 : done[i] # <<>>
  BY <1>3, <1>5
<1> QED
  BY <1>2, <1>13, <1>14, <1>15 DEF done

(***************************************************************************)
(* The streams.                                                            *)
(***************************************************************************)
Alphabet(s) == Range(s.bytes) \cup Letters \cup {"n"}
\* The text of the bytes after the first a, up to the n-th.
Part(s, a, n) == Lossy(SubSeq(s.bytes, a + 1, n))
\* The events that end within the first n bytes.
Count(s, n) == Cardinality({k \in DOMAIN s.ends : s.ends[k] <= n})
\* No character is cut at n.
Whole(s, n) == n = Len(s.bytes) \/ s.bytes[n + 1] # "lo"

\* The types of a well-formed stream.
LEMMA StreamFacts ==
  ASSUME NEW s, WellFormed(s)
  PROVE  /\ s.bytes \in Seq(Range(s.bytes)) /\ Len(s.bytes) \in Nat /\ Paired(s.bytes)
         /\ Range(s.bytes) \cap Letters = {} /\ "none" \notin Alphabet(s) /\ "rn" \notin Alphabet(s)
         /\ \A p \in 1 .. Len(s.bytes) : s.bytes[p] \in Range(s.bytes)
         /\ \A p \in 1 .. Len(s.bytes) : p > 1 /\ s.bytes[p - 1] \in Eol => s.bytes[p] \in Fields \cup Eol
         /\ s.ends \in Seq(Nat) /\ Len(s.ends) \in Nat /\ DOMAIN s.ends = 1 .. Len(s.ends)
         /\ s.events \in Seq(Range(s.events)) /\ Len(s.events) = Len(s.ends)
<1>1. /\ s.bytes \in Seq(Range(s.bytes))
      /\ Range(s.bytes) \cap {"none", "half", "char", "bad", "rn"} = {}
      /\ \A p \in DOMAIN s.bytes : s.bytes[p] = "lo" <=> p > 1 /\ s.bytes[p - 1] = "hi"
      /\ \A p \in DOMAIN s.bytes : p > 1 /\ s.bytes[p - 1] \in {"n", "r"} => s.bytes[p] \in Fields \cup {"n", "r"}
      /\ s.ends \in Seq(Nat) /\ s.events \in Seq(Range(s.events)) /\ Len(s.events) = Len(s.ends)
  BY DEF WellFormed
<1> DEFINE bytes == s.bytes
           C == Range(s.bytes)
<1> HIDE DEF bytes, C
<1>2. bytes \in Seq(C) /\ Len(bytes) \in Nat /\ DOMAIN bytes = 1 .. Len(bytes) /\ \A p \in 1 .. Len(bytes) : bytes[p] \in C
  <2>1. bytes \in Seq(C)
    BY <1>1 DEF bytes, C
  <2> QED
    BY <2>1
<1>3. Paired(bytes)
  BY <1>1, <1>2 DEF Paired, bytes
<1>4. \A p \in 1 .. Len(bytes) : p > 1 /\ bytes[p - 1] \in Eol => bytes[p] \in Fields \cup Eol
  BY <1>1, <1>2 DEF Eol, bytes
<1>5. C \cap Letters = {} /\ "none" \notin C \cup Letters \cup {"n"} /\ "rn" \notin C \cup Letters \cup {"n"}
  BY <1>1 DEF Letters, C
<1>6. s.ends \in Seq(Nat) => Len(s.ends) \in Nat /\ DOMAIN s.ends = 1 .. Len(s.ends)
  OBVIOUS
<1> QED
  BY <1>1, <1>2, <1>3, <1>4, <1>5, <1>6 DEF Alphabet, bytes, C

\* The text of a part of a stream.
LEMMA PartFacts ==
  ASSUME NEW s, WellFormed(s), NEW n \in 0 .. Len(s.bytes), NEW a \in 0 .. n
  PROVE  /\ SubSeq(s.bytes, a + 1, n) \in Seq(Range(s.bytes)) /\ Len(SubSeq(s.bytes, a + 1, n)) = n - a
         /\ \A i \in 1 .. n - a : SubSeq(s.bytes, a + 1, n)[i] = s.bytes[a + i]
         /\ a < n => SubSeq(s.bytes, a + 1, n) # <<>> /\ Head(SubSeq(s.bytes, a + 1, n)) = s.bytes[a + 1]
         /\ Part(s, a, n) \in Seq(Alphabet(s)) /\ Len(Part(s, a, n)) <= n - a
         /\ a = n => Part(s, a, n) = <<>>
         /\ a < n => Part(s, a, n) # <<>>
<1> DEFINE bytes == s.bytes
           C == Range(s.bytes)
           part == SubSeq(bytes, a + 1, n)
<1> HIDE DEF bytes, C
<1>1. bytes \in Seq(C) /\ n \in 0 .. Len(bytes) /\ Len(bytes) \in Nat
  BY StreamFacts DEF bytes, C
<1>2. a + 1 \in 1 .. Len(bytes) + 1 /\ a + 1 <= n + 1 /\ n - (a + 1) + 1 = n - a /\ a \in Nat /\ n \in Nat
  BY <1>1
<1>3. /\ part \in Seq(C) /\ Len(part) = n - (a + 1) + 1
      /\ \A i \in 1 .. n - (a + 1) + 1 : part[i] = bytes[(a + 1) + i - 1]
  BY <1>1, <1>2, SubSeqFacts
<1> HIDE DEF part
<1>4. part \in Seq(C) /\ Len(part) = n - a /\ \A i \in 1 .. n - a : part[i] = bytes[a + i]
  <2>1. \A i \in 1 .. n - a : (a + 1) + i - 1 = a + i
    BY <1>2
  <2> QED
    BY <1>2, <1>3, <2>1
<1>5. a < n => part # <<>> /\ Head(part) = bytes[a + 1]
  <2> SUFFICES ASSUME a < n PROVE part # <<>> /\ Head(part) = bytes[a + 1]
    OBVIOUS
  <2>1. 1 \in 1 .. n - a /\ Len(part) # 0
    BY <1>2, <1>4
  <2>2. part # <<>> /\ Head(part) = part[1]
    BY <1>4, <2>1
  <2> QED
    BY <1>4, <2>1, <2>2
<1>6. Lossy(part) \in Seq(C \cup Letters) /\ Len(Lossy(part)) <= n - a /\ (part # <<>> => Lossy(part) # <<>>)
  BY <1>4, LossyLength DEF Decodings, Letters
<1>7. a = n => Lossy(part) = <<>>
  <2>1. a = n => part = <<>>
    BY <1>2, <1>4
  <2> QED
    BY <2>1, LossyFacts
<1>8. Lossy(part) \in Seq(C \cup Letters \cup {"n"})
  BY <1>6
<1> QED
  BY <1>4, <1>5, <1>6, <1>7, <1>8 DEF Part, Alphabet, part, bytes, C

\* Two parts make one, if no character is cut between them.
LEMMA PartsJoin ==
  ASSUME NEW s, WellFormed(s), NEW n \in 0 .. Len(s.bytes), NEW m \in 0 .. n, NEW a \in 0 .. m, m = n \/ s.bytes[m + 1] # "lo"
  PROVE  Part(s, a, n) = Part(s, a, m) \o Part(s, m, n)
<1> DEFINE bytes == s.bytes
           C == Range(s.bytes)
           first == SubSeq(bytes, a + 1, m)
           rest == SubSeq(bytes, m + 1, n)
           all == SubSeq(bytes, a + 1, n)
<1>1. Len(bytes) \in Nat /\ m \in 0 .. Len(bytes) /\ a \in 0 .. n /\ m \in Nat /\ n \in Nat /\ a \in Nat /\ a <= m /\ m <= n
  BY StreamFacts
<1>2. /\ first \in Seq(C) /\ Len(first) = m - a /\ \A i \in 1 .. m - a : first[i] = bytes[a + i]
  BY <1>1, PartFacts
<1>3. /\ rest \in Seq(C) /\ Len(rest) = n - m /\ (\A i \in 1 .. n - m : rest[i] = bytes[m + i])
      /\ (m < n => rest # <<>> /\ Head(rest) = bytes[m + 1])
  BY <1>1, PartFacts
<1>4. /\ all \in Seq(C) /\ Len(all) = n - a /\ \A i \in 1 .. n - a : all[i] = bytes[a + i]
  BY <1>1, PartFacts
<1> HIDE DEF bytes, C, first, rest, all
<1>5. rest = <<>> \/ Head(rest) # "lo"
  <2>1. m < n => bytes[m + 1] # "lo"
    BY <1>1 DEF bytes
  <2>2. m = n => Len(rest) = 0
    BY <1>1, <1>3
  <2>3. Len(rest) = 0 => rest = <<>>
    BY <1>3
  <2>4. m < n \/ m = n
    BY <1>1
  <2> QED
    BY <1>3, <2>1, <2>2, <2>3, <2>4
<1>6. all = first \o rest
  <2>0. first \in Seq(C) /\ rest \in Seq(C) /\ Len(first) = m - a /\ Len(rest) = n - m
    BY <1>2, <1>3
  <2> DEFINE both == first \o rest
  <2>1. /\ both \in Seq(C) /\ Len(both) = Len(first) + Len(rest)
        /\ \A i \in 1 .. Len(first) : both[i] = first[i]
        /\ \A i \in 1 .. Len(rest) : both[Len(first) + i] = rest[i]
    <3>1. both \in Seq(C) /\ Len(both) = Len(first) + Len(rest)
      BY <2>0
    <3>2. \A i \in 1 .. Len(first) : both[i] = first[i]
      BY <2>0
    <3>3. \A i \in 1 .. Len(rest) : both[Len(first) + i] = rest[i]
      BY <2>0
    <3> QED
      BY <3>1, <3>2, <3>3
  <2> HIDE DEF both
  <2>2. both \in Seq(C) /\ Len(both) = n - a
    BY <1>1, <2>0, <2>1
  <2>3. ASSUME NEW i \in 1 .. n - a PROVE both[i] = all[i]
    <3>1. CASE i <= m - a
      <4>1. i \in 1 .. m - a
        BY <1>1, <3>1
      <4> QED
        BY <1>2, <1>4, <2>0, <2>1, <4>1
    <3>2. CASE i > m - a
      <4>1. i - (m - a) \in 1 .. n - m /\ (m - a) + (i - (m - a)) = i /\ m + (i - (m - a)) = a + i
        BY <1>1, <3>2
      <4>2. both[(m - a) + (i - (m - a))] = rest[i - (m - a)]
        BY <2>0, <2>1, <4>1
      <4>3. rest[i - (m - a)] = bytes[m + (i - (m - a))]
        BY <1>3, <4>1
      <4> QED
        BY <1>4, <4>1, <4>2, <4>3
    <3>3. i <= m - a \/ i > m - a
      BY <1>1
    <3> QED
      BY <3>1, <3>2, <3>3
  <2>4. \A i \in 1 .. Len(all) : all[i] = both[i]
    BY <1>4, <2>3
  <2>5. all = both
    BY <1>4, <2>2, <2>4, SameSeq
  <2> QED
    BY <2>5 DEF both
<1>7. Lossy(first \o rest) = Lossy(first) \o Lossy(rest)
  BY <1>2, <1>3, <1>5, LossySplits
<1> QED
  BY <1>6, <1>7 DEF Part, first, rest, all, bytes

\* The ends of the events.
LEMMA EndFacts ==
  ASSUME NEW s, WellFormed(s)
  PROVE  /\ \A k \in 0 .. Len(s.ends) : EndOf(s, k) \in 0 .. Len(s.bytes)
         /\ EndOf(s, 0) = 0 /\ EndOf(s, Len(s.ends)) = Len(s.bytes)
         /\ \A k \in 1 .. Len(s.ends) : EndOf(s, k) = s.ends[k]
         /\ \A k \in 0 .. Len(s.ends), j \in 0 .. Len(s.ends) : j < k => EndOf(s, j) < EndOf(s, k)
<1> DEFINE N == Len(s.ends)
           E(k) == EndOf(s, k)
<1>1. N \in Nat /\ s.ends \in Seq(Nat) /\ DOMAIN s.ends = 1 .. N /\ Len(s.bytes) \in Nat
  BY StreamFacts
<1>2. E(0) = 0 /\ E(N) = Len(s.bytes) /\ \A k \in 1 .. N : E(k) = s.ends[k] /\ E(k - 1) < s.ends[k]
  <2>1. E(0) = 0 /\ \A k \in 1 .. N : E(k) = s.ends[k]
    BY <1>1 DEF EndOf
  <2>2. E(N) = Len(s.bytes) /\ \A k \in 1 .. N : E(k - 1) < s.ends[k]
    BY <1>1 DEF WellFormed
  <2> QED
    BY <2>1, <2>2
<1>3. \A k \in 0 .. N : E(k) \in Nat
  <2>1. \A k \in 1 .. N : s.ends[k] \in Nat
    BY <1>1
  <2> QED
    BY <1>1, <1>2, <2>1
<1> HIDE DEF E, N
<1>4. \A k \in 0 .. N, j \in 0 .. N : j < k => E(j) < E(k)
  <2> DEFINE P == {k \in Nat : k <= N => \A j \in 0 .. N : j < k => E(j) < E(k)}
  <2>1. 0 \in P
    BY <1>1
  <2>2. ASSUME NEW k \in P PROVE k + 1 \in P
    <3> SUFFICES ASSUME k + 1 <= N, NEW j \in 0 .. N, j < k + 1 PROVE E(j) < E(k + 1)
      OBVIOUS
    <3>1. k \in 0 .. N /\ k + 1 \in 1 .. N /\ (k + 1) - 1 = k /\ k + 1 \in 0 .. N
      BY <1>1
    <3>2. E(k) < E(k + 1)
      BY <1>2, <3>1
    <3>3. CASE j = k
      BY <3>2, <3>3
    <3>4. CASE j < k
      <4>1. E(j) < E(k)
        BY <3>1, <3>4
      <4> QED
        BY <1>3, <3>1, <3>2, <4>1
    <3> QED
      BY <3>1, <3>3, <3>4
  <2> HIDE DEF P
  <2>3. P = Nat
    <3>1. P \in SUBSET Nat
      BY DEF P
    <3> QED
      BY <2>1, <2>2, <3>1, SetInduction
  <2> QED
    BY <1>1, <2>3 DEF P
<1>5. \A k \in 0 .. N : E(k) \in 0 .. Len(s.bytes)
  <2> SUFFICES ASSUME NEW k \in 0 .. N PROVE E(k) \in 0 .. Len(s.bytes)
    OBVIOUS
  <2>1. N \in 0 .. N
    BY <1>1
  <2>2. k = N \/ E(k) < E(N)
    BY <1>1, <1>4, <2>1
  <2> QED
    BY <1>1, <1>2, <1>3, <2>2
<1> QED
  BY <1>2, <1>4, <1>5 DEF E, N

\* How many events have ended.
LEMMA CountFacts ==
  ASSUME NEW s, WellFormed(s), NEW n \in 0 .. Len(s.bytes)
  PROVE  /\ Count(s, n) \in 0 .. Len(s.ends) /\ EndOf(s, Count(s, n)) <= n
         /\ Count(s, n) < Len(s.ends) => n < EndOf(s, Count(s, n) + 1)
         /\ \A k \in 0 .. Len(s.ends) : EndOf(s, k) <= n => k <= Count(s, n)
<1> DEFINE N == Len(s.ends)
           E(k) == EndOf(s, k)
           Reached == {k \in 0 .. N : E(k) <= n}
<1>1. N \in Nat /\ n \in Nat /\ E(0) = 0 /\ DOMAIN s.ends = 1 .. N
      /\ (\A k \in 0 .. N : E(k) \in Nat) /\ (\A k \in 1 .. N : E(k) = s.ends[k])
      /\ \A k \in 0 .. N, j \in 0 .. N : j < k => E(j) < E(k)
  BY StreamFacts, EndFacts
<1> HIDE DEF E, N
<1>2. PICK m \in Reached : \A k \in Reached : k <= m
  <2>1. Reached \in SUBSET Nat /\ 0 \in Reached /\ \A k \in Reached : k <= N
    BY <1>1
  <2> HIDE DEF Reached
  <2> QED
    BY <1>1, <2>1, GreatestMember
<1>3. {k \in DOMAIN s.ends : s.ends[k] <= n} = 1 .. m
  <2> DEFINE A == {k \in 1 .. N : s.ends[k] <= n}
  <2>1. ASSUME NEW k \in 1 .. N PROVE s.ends[k] <= n <=> k <= m
    <3>1. k \in 0 .. N /\ m \in 0 .. N /\ E(m) <= n /\ E(k) = s.ends[k] /\ E(k) \in Nat /\ E(m) \in Nat
      BY <1>1
    <3>2. E(k) <= n => k <= m
      BY <1>2, <3>1
    <3>3. k <= m => E(k) <= E(m)
      <4>1. k < m => E(k) < E(m)
        BY <1>1, <3>1
      <4> QED
        BY <3>1, <4>1
    <3> QED
      BY <1>1, <3>1, <3>2, <3>3
  <2>2. m \in 0 .. N
    BY <1>2
  <2> QED
    BY <1>1, <2>1, <2>2
<1>4. Count(s, n) = m
  <2>1. m \in Nat
    BY <1>1, <1>2
  <2>2. Cardinality(1 .. m) = m
    BY <2>1, FS_Interval
  <2> QED
    BY <1>3, <2>2 DEF Count
<1>5. m < N => n < E(m + 1)
  <2> SUFFICES ASSUME m < N PROVE n < E(m + 1)
    OBVIOUS
  <2>1. m \in 0 .. N /\ m + 1 \in 0 .. N /\ ~ (m + 1 <= m)
    BY <1>1, <1>2
  <2>2. ~ (E(m + 1) <= n)
    BY <1>2, <2>1
  <2> QED
    BY <1>1, <2>1, <2>2
<1> QED
  BY <1>2, <1>4, <1>5 DEF E, N

\* What is written for the k-th event, and what it says.
LEMMA BlockFacts ==
  ASSUME NEW s, WellFormed(s), NEW k \in 1 .. Len(s.ends)
  PROVE  LET b == Part(s, EndOf(s, k - 1), EndOf(s, k))
         IN /\ EventsIn(b) = <<s.events[k]>> /\ FieldsIn(b) = Fresh /\ RestIn(b) = <<>> /\ LineIn(b) = <<>>
            /\ \A l \in Range(DoneIn(b)) : IsLine(l)
            /\ DoneIn(b) # <<>> /\ \A i \in 1 .. Len(DoneIn(b)) - 1 : DoneIn(b)[i] # <<>>
            /\ b \in Seq(Alphabet(s)) /\ b # <<>>
            /\ s.events[k] \in FieldStates(Alphabet(s) \ Eol)
            /\ s.bytes[EndOf(s, k - 1) + 1] \in Fields
            /\ s.bytes[EndOf(s, k)] \in Eol
            /\ EndOf(s, k - 1) \in 0 .. Len(s.bytes) /\ EndOf(s, k) \in 1 .. Len(s.bytes)
            /\ EndOf(s, k - 1) < EndOf(s, k)
<1> DEFINE D == Alphabet(s)
           e == EndOf(s, k)
           d == EndOf(s, k - 1)
           b == Part(s, d, e)
           block == SubSeq(s.bytes, d + 1, e)
<1> HIDE DEF D
<1>1. e \in 0 .. Len(s.bytes) /\ d \in 0 .. Len(s.bytes) /\ d < e /\ e = s.ends[k] /\ d \in 0 .. e /\ e \in 1 .. Len(s.bytes)
  <2>1. k \in 0 .. Len(s.ends) /\ k - 1 \in 0 .. Len(s.ends) /\ k - 1 < k /\ Len(s.bytes) \in Nat
    BY StreamFacts
  <2> QED
    BY <2>1, EndFacts
<1>2. Head(Block(s, k)) \in Fields /\ IsWritten(Lossy(Block(s, k)), s.events[k])
  BY StreamFacts DEF WellFormed
<1>3. Block(s, k) = block
  BY <1>1 DEF Block
<1> HIDE DEF d, e
<1>4. /\ block \in Seq(Range(s.bytes)) /\ block # <<>> /\ Head(block) = s.bytes[d + 1] /\ Len(block) = e - d
      /\ (\A i \in 1 .. e - d : block[i] = s.bytes[d + i])
      /\ b \in Seq(D) /\ b # <<>> /\ b = Lossy(block)
  BY <1>1, PartFacts DEF D, Part
<1> HIDE DEF b, block
<1>5. IsWritten(b, s.events[k])
  BY <1>2, <1>3, <1>4
<1>6. "none" \notin D
  BY StreamFacts DEF D
<1> DEFINE said == s.events[k]
<1> HIDE DEF said
<1>7. /\ EventsIn(b) = <<said>> /\ FieldsIn(b) = Fresh /\ RestIn(b) = <<>> /\ LineIn(b) = <<>>
      /\ \A l \in Range(DoneIn(b)) : IsLine(l)
      /\ DoneIn(b) # <<>> /\ \A i \in 1 .. Len(DoneIn(b)) - 1 : DoneIn(b)[i] # <<>>
  BY <1>4, <1>5, <1>6, BlockReads DEF said
<1>8. said \in FieldStates(D \ Eol)
  <2>1. EventsIn(b) \in Seq(FieldStates(D \ Eol))
    BY <1>4, ReadingFacts
  <2> DEFINE T == FieldStates(D \ Eol)
             one == <<said>>
  <2> HIDE DEF T
  <2>2. one \in Seq(T) /\ one[1] = said /\ 1 \in 1 .. Len(one)
    BY <1>7, <2>1 DEF T
  <2> HIDE DEF one
  <2>3. one[1] \in T
    BY <2>2
  <2> QED
    BY <2>2, <2>3 DEF T
<1>9. s.bytes[e] \in Eol
  <2> SUFFICES ASSUME s.bytes[e] \notin Eol PROVE FALSE
    OBVIOUS
  <2>1. block[Len(block)] = s.bytes[e]
    <3>1. e - d \in 1 .. e - d /\ d + (e - d) = e
      BY <1>1
    <3> QED
      BY <1>4, <3>1
  <2>2. LineIn(Lossy(block)) # <<>>
    BY <1>4, <2>1, EndsWithinLine
  <2> QED
    BY <1>4, <1>7, <2>2
<1>10. s.bytes[d + 1] \in Fields
  BY <1>2, <1>3, <1>4
<1> QED
  BY <1>1, <1>4, <1>7, <1>8, <1>9, <1>10 DEF b, d, e, D, said

\* No event begins within a character.
LEMMA WholeAtEnds ==
  ASSUME NEW s, WellFormed(s), NEW k \in 0 .. Len(s.ends)
  PROVE  /\ Whole(s, EndOf(s, k)) /\ Paired(s.bytes)
         /\ k < Len(s.ends) => EndOf(s, k) + 1 \in 1 .. Len(s.bytes) /\ s.bytes[EndOf(s, k) + 1] \in Fields
<1>1. Len(s.ends) \in Nat /\ EndOf(s, Len(s.ends)) = Len(s.bytes) /\ Len(s.bytes) \in Nat
  BY StreamFacts, EndFacts
<1>2. ASSUME k < Len(s.ends) PROVE EndOf(s, k) + 1 \in 1 .. Len(s.bytes) /\ s.bytes[EndOf(s, k) + 1] \in Fields
  <2>1. k + 1 \in 1 .. Len(s.ends) /\ (k + 1) - 1 = k
    BY <1>1, <1>2
  <2>2. s.bytes[EndOf(s, (k + 1) - 1) + 1] \in Fields /\ EndOf(s, (k + 1) - 1) \in 0 .. Len(s.bytes)
        /\ EndOf(s, k + 1) \in 1 .. Len(s.bytes) /\ EndOf(s, (k + 1) - 1) < EndOf(s, k + 1)
    BY <2>1, BlockFacts
  <2> DEFINE d == EndOf(s, k)
             e == EndOf(s, k + 1)
  <2>3. d = EndOf(s, (k + 1) - 1)
    BY <2>1
  <2>4. d \in 0 .. Len(s.bytes) /\ e \in 1 .. Len(s.bytes) /\ d < e /\ s.bytes[d + 1] \in Fields
    BY <2>2, <2>3
  <2> HIDE DEF d, e
  <2>5. d + 1 \in 1 .. Len(s.bytes)
    BY <1>1, <2>4
  <2> QED
    BY <2>4, <2>5 DEF d
<1>3. Whole(s, EndOf(s, k))
  <2>1. CASE k = Len(s.ends)
    BY <1>1, <2>1 DEF Whole
  <2>2. CASE k < Len(s.ends)
    BY <1>2, <2>2 DEF Whole, Fields
  <2> QED
    BY <1>1, <2>1, <2>2
<1> QED
  BY <1>2, <1>3, StreamFacts

\* At the end of an event everything before it was found and nothing is left.
AtEnd(s, k) ==
  LET text == Part(s, 0, EndOf(s, k))
  IN /\ EventsIn(text) = SubSeq(s.events, 1, k) /\ FieldsIn(text) = Fresh /\ RestIn(text) = <<>>
     /\ LineIn(text) = <<>> /\ \A l \in Range(DoneIn(text)) : IsLine(l)
     /\ EventsIn(text) \in Seq(FieldStates(Alphabet(s) \ Eol))

\* A text that ends with an event is followed by what comes behind that event.
LEMMA BehindEnd ==
  ASSUME NEW s, WellFormed(s), NEW k \in 0 .. Len(s.ends), AtEnd(s, k), NEW n \in EndOf(s, k) .. Len(s.bytes)
  PROVE  Follows(Part(s, 0, n), Part(s, EndOf(s, k), n), SubSeq(s.events, 1, k), Range(DoneIn(Part(s, 0, EndOf(s, k)))))
         /\ (n > EndOf(s, k) => Alike(Part(s, 0, n), Part(s, EndOf(s, k), n)))
<1> DEFINE D == Alphabet(s)
           d == EndOf(s, k)
           text == Part(s, 0, d)
           more == Part(s, d, n)
           es == SubSeq(s.events, 1, k)
           ls == Range(DoneIn(text))
<1>1. d \in 0 .. Len(s.bytes) /\ n \in 0 .. Len(s.bytes) /\ d \in 0 .. n /\ 0 \in 0 .. d /\ Len(s.bytes) \in Nat /\ 0 \in 0 .. n
  BY StreamFacts, EndFacts
<1>2. d = n \/ s.bytes[d + 1] # "lo"
  <2>1. Whole(s, d)
    BY WholeAtEnds
  <2> QED
    BY <1>1, <2>1 DEF Whole
<1> HIDE DEF d
<1>3. Part(s, 0, n) = text \o more
  BY <1>1, <1>2, PartsJoin
<1>4. text \in Seq(D) /\ more \in Seq(D)
  BY <1>1, PartFacts
<1>5. EventsIn(text) = es /\ FieldsIn(text) = Fresh /\ RestIn(text) = <<>> /\ LineIn(text) = <<>> /\ es \in Seq(FieldStates(D \ Eol))
  BY DEF AtEnd, d
<1>6. n > d => more # <<>>
  BY <1>1, PartFacts
<1>7. more = <<>> \/ Head(more) # "n"
  <2>1. CASE d = n
    BY <1>1, <2>1, PartFacts
  <2>2. CASE d # n
    <3>1. k < Len(s.ends)
      <4>1. Len(s.ends) \in Nat /\ EndOf(s, Len(s.ends)) = Len(s.bytes)
        BY StreamFacts, EndFacts
      <4> QED
        BY <1>1, <2>2, <4>1 DEF d
    <3>2. s.bytes[d + 1] \in Fields
      BY <3>1, WholeAtEnds DEF d
    <3>3. SubSeq(s.bytes, d + 1, n) \in Seq(Range(s.bytes)) /\ SubSeq(s.bytes, d + 1, n) # <<>> /\ Head(SubSeq(s.bytes, d + 1, n)) = s.bytes[d + 1]
      <4>1. d < n
        BY <1>1, <2>2
      <4>2. d < n => SubSeq(s.bytes, d + 1, n) # <<>> /\ Head(SubSeq(s.bytes, d + 1, n)) = s.bytes[d + 1]
        BY <1>1, PartFacts
      <4>3. SubSeq(s.bytes, d + 1, n) \in Seq(Range(s.bytes))
        BY <1>1, PartFacts
      <4> QED
        BY <4>1, <4>2, <4>3
    <3>4. Head(SubSeq(s.bytes, d + 1, n)) # "n"
      BY <3>2, <3>3 DEF Fields
    <3> QED
      BY <3>3, <3>4, HeadOfLossy DEF Part
  <2> QED
    BY <2>1, <2>2
<1> HIDE DEF text, more, D, es
<1>8. Follows(text, <<>>, es, ls)
  <2>1. Range(<<>>) = {} /\ es \o <<>> = es
    BY <1>5 DEF Range
  <2> QED
    BY <1>5, <2>1, ReadingNothing DEF Follows
<1> HIDE DEF ls
<1>9. <<>> \in Seq(D)
  OBVIOUS
<1>10. Follows(text \o more, <<>> \o more, es, ls) /\ (more # <<>> => Alike(text \o more, <<>> \o more))
  BY <1>4, <1>5, <1>7, <1>8, <1>9, Resume
<1>11. <<>> \o more = more
  BY <1>4
<1> QED
  BY <1>3, <1>6, <1>10, <1>11, <1>1 DEF text, more, es, ls, d

\* At every end of an event, by induction over the events.
LEMMA EventsAtEnds ==
  ASSUME NEW s, WellFormed(s)
  PROVE  \A k \in 0 .. Len(s.ends) : AtEnd(s, k)
<1> DEFINE N == Len(s.ends)
           P == {k \in Nat : k <= N => AtEnd(s, k)}
           T == FieldStates(Alphabet(s) \ Eol)
<1>1. N \in Nat /\ s.events \in Seq(Range(s.events)) /\ Len(s.events) = N /\ EndOf(s, 0) = 0
  BY StreamFacts, EndFacts
<1>2. 0 \in P
  <2>1. Part(s, 0, 0) = <<>>
    <3>1. 0 \in 0 .. Len(s.bytes) /\ 0 \in 0 .. 0
      BY StreamFacts
    <3> QED
      BY <3>1, PartFacts
  <2>2. SubSeq(s.events, 1, 0) = <<>> /\ Range(<<>>) = {} /\ <<>> \in Seq(T)
    BY <1>1 DEF Range
  <2>3. AtEnd(s, 0)
    BY <1>1, <2>1, <2>2, ReadingNothing DEF AtEnd
  <2> QED
    BY <2>3
<1>3. ASSUME NEW k \in P PROVE k + 1 \in P
  <2> SUFFICES ASSUME k + 1 <= N PROVE AtEnd(s, k + 1)
    OBVIOUS
  <2>1. k \in 0 .. N /\ k + 1 \in 1 .. N /\ (k + 1) - 1 = k /\ k + 1 \in 0 .. N /\ AtEnd(s, k)
    BY <1>1
  <2> DEFINE d == EndOf(s, k)
             e == EndOf(s, k + 1)
             b == Part(s, d, e)
             text == Part(s, 0, e)
             es == SubSeq(s.events, 1, k)
             ls == Range(DoneIn(Part(s, 0, d)))
             said == s.events[k + 1]
  <2>2. e \in d .. Len(s.bytes) /\ EventsIn(b) = <<said>> /\ FieldsIn(b) = Fresh /\ RestIn(b) = <<>> /\ LineIn(b) = <<>>
        /\ (\A l \in Range(DoneIn(b)) : IsLine(l)) /\ said \in T
    <3>1. LET c == Part(s, EndOf(s, (k + 1) - 1), EndOf(s, k + 1))
          IN /\ EventsIn(c) = <<s.events[k + 1]>> /\ FieldsIn(c) = Fresh /\ RestIn(c) = <<>> /\ LineIn(c) = <<>>
             /\ \A l \in Range(DoneIn(c)) : IsLine(l)
             /\ s.events[k + 1] \in FieldStates(Alphabet(s) \ Eol)
             /\ EndOf(s, (k + 1) - 1) \in 0 .. Len(s.bytes) /\ EndOf(s, k + 1) \in 1 .. Len(s.bytes)
             /\ EndOf(s, (k + 1) - 1) < EndOf(s, k + 1)
      BY <2>1, BlockFacts
    <3>2. EndOf(s, (k + 1) - 1) = d
      BY <2>1
    <3>3. d \in 0 .. Len(s.bytes) /\ e \in 1 .. Len(s.bytes) /\ d < e
      BY <3>1, <3>2
    <3>4. e \in d .. Len(s.bytes)
      <4> HIDE DEF d, e
      <4> QED
        BY <3>3
    <3> QED
      BY <3>1, <3>2, <3>4
  <2>3. Follows(text, b, es, ls)
    BY <2>1, <2>2, BehindEnd
  <2>4. es \in Seq(T) /\ \A l \in ls : IsLine(l)
    BY <2>1 DEF AtEnd
  <2>5. SubSeq(s.events, 1, k + 1) = es \o <<said>>
    <3> DEFINE evs == s.events
               U == Range(s.events)
               whole == SubSeq(evs, 1, k + 1)
    <3> HIDE DEF evs, U
    <3>1. evs \in Seq(U) /\ Len(evs) = N
      BY <1>1 DEF evs, U
    <3>2. whole = Append(SubSeq(evs, 1, (k + 1) - 1), evs[k + 1]) /\ SubSeq(evs, 1, (k + 1) - 1) \in Seq(U)
      BY <2>1, <3>1, PrefixOfText
    <3>3. SubSeq(evs, 1, (k + 1) - 1) = SubSeq(evs, 1, k)
      BY <2>1
    <3>4. \A q \in Seq(U) : Append(q, evs[k + 1]) = q \o <<evs[k + 1]>>
      OBVIOUS
    <3> QED
      BY <3>2, <3>3, <3>4 DEF evs
  <2>6. es \o <<said>> \in Seq(T)
    <3> HIDE DEF es, T, said
    <3>1. <<said>> \in Seq(T)
      BY <2>2
    <3> QED
      BY <2>4, <3>1, ConcatFacts
  <2> HIDE DEF es, b, text, ls, said
  <2>7. /\ EventsIn(text) = SubSeq(s.events, 1, k + 1) /\ FieldsIn(text) = Fresh /\ RestIn(text) = <<>> /\ LineIn(text) = <<>>
        /\ (\A l \in Range(DoneIn(text)) : IsLine(l)) /\ EventsIn(text) \in Seq(T)
    <3>1. EventsIn(text) = es \o <<said>> /\ FieldsIn(text) = FieldsIn(b) /\ RestIn(text) = RestIn(b) /\ LineIn(text) = LineIn(b)
          /\ Range(DoneIn(text)) = ls \cup Range(DoneIn(b))
      BY <2>2, <2>3 DEF Follows
    <3> QED
      BY <2>2, <2>4, <2>5, <2>6, <3>1
  <2> QED
    BY <2>7 DEF AtEnd, text
<1> HIDE DEF P
<1>4. P = Nat
  <2>1. P \in SUBSET Nat
    BY DEF P
  <2> QED
    BY <1>2, <1>3, <2>1, SetInduction
<1> QED
  BY <1>1, <1>4 DEF P

\* A text that only its end closes with an empty line has none before.
LEMMA OneEmptyLine ==
  ASSUME NEW D, NEW cs \in Seq(D), NEW xs \in Seq(D), xs # <<>>, LineIn(cs \o xs) = <<>>,
         \A i \in 1 .. Len(DoneIn(cs \o xs)) - 1 : DoneIn(cs \o xs)[i] # <<>>,
         LineIn(cs) # <<>> \/ "r" \notin D
  PROVE  /\ \A i \in 1 .. Len(DoneIn(cs)) : DoneIn(cs)[i] # <<>>
         /\ Range(DoneIn(cs)) \subseteq Range(DoneIn(cs \o xs))
<1> DEFINE all == cs \o xs
           done == DoneIn(all)
           first == DoneIn(cs)
<1>1. all \in Seq(D) /\ Len(done) \in Nat /\ Len(first) \in Nat /\ done \in Seq(Seq(D \ Eol)) /\ first \in Seq(Seq(D \ Eol))
  <2>1. all \in Seq(D)
    BY ConcatFacts
  <2>2. done \in Seq(Seq(D \ Eol)) /\ first \in Seq(Seq(D \ Eol))
    BY <2>1, ReadingFacts
  <2> QED
    BY <2>1, <2>2
<1>2. /\ Len(first) <= Len(done) /\ \A i \in 1 .. Len(first) : done[i] = first[i]
      /\ LineIn(cs) # <<>> /\ Len(done) = Len(first) => LineIn(all) # <<>>
  BY ReadingGrows DEF Grows, BeginsWith
<1>3. Len(first) # Len(done)
  <2> SUFFICES ASSUME Len(first) = Len(done) PROVE FALSE
    OBVIOUS
  <2>1. CASE LineIn(cs) # <<>>
    BY <1>2, <2>1
  <2>2. CASE "r" \notin D
    <3>1. PICK ys \in Seq(D), c \in D : xs = Append(ys, c)
      BY LastOfSeq
    <3> DEFINE most == cs \o ys
    <3>2. most \in Seq(D)
      BY ConcatFacts
    <3>3. all = Append(most, c)
      BY <3>1
    <3>4. Append(most, c) # <<>> /\ Append(most, c)[Len(Append(most, c))] = c
      <4> HIDE DEF most
      <4>1. Append(most, c)[Len(most) + 1] = c /\ Len(Append(most, c)) = Len(most) + 1
        BY <3>2
      <4>2. Append(most, c) # <<>>
        BY <3>2, AppendIsLonger
      <4> QED
        BY <4>1, <4>2
    <3>5. Len(first) <= Len(DoneIn(most)) /\ DoneIn(most) \in Seq(Seq(D \ Eol))
      <4>1. Len(DoneIn(cs)) <= Len(DoneIn(cs \o ys))
        BY ReadingGrows DEF Grows, BeginsWith
      <4> QED
        BY <3>2, <4>1, ReadingFacts
    <3> HIDE DEF most, all, first
    <3>6. c = "n"
      <4>1. LineIn(all) = <<>> /\ all # <<>> /\ all[Len(all)] = c
        BY <3>3, <3>4 DEF all
      <4> QED
        BY <1>1, <2>2, <4>1, LineFeeds
    <3>7. Closes(most, c)
      <4>1. ~ Returned(most)
        BY <2>2, <3>2, LineFeeds
      <4> QED
        BY <3>6, <4>1 DEF Closes, Eol
    <3>8. done = Append(DoneIn(most), LineIn(most))
      BY <3>2, <3>3, <3>7, ReadingCloses
    <3>9. Len(done) = Len(DoneIn(most)) + 1
      BY <3>5, <3>8, AppendIsLonger
    <3>10. Len(DoneIn(most)) \in Nat
      BY <3>5
    <3> QED
      BY <1>1, <3>5, <3>9, <3>10
  <2> QED
    BY <2>1, <2>2
<1>4. \A i \in 1 .. Len(first) : i \in 1 .. Len(done) - 1 /\ i \in 1 .. Len(done)
  BY <1>1, <1>2, <1>3
<1>5. \A i \in 1 .. Len(first) : first[i] # <<>>
  BY <1>2, <1>4
<1>6. Range(first) \subseteq Range(done)
  <2>1. ASSUME NEW l \in Range(first) PROVE l \in Range(done)
    <3>1. PICK i \in 1 .. Len(first) : l = first[i]
      BY <1>1 DEF Range
    <3>2. i \in DOMAIN done /\ done[i] = l
      BY <1>1, <1>2, <1>4, <3>1, SMTT(30)
    <3> QED
      BY <3>2 DEF Range
  <2> QED
    BY <2>1
<1> QED
  BY <1>5, <1>6

\* Without returns, a text with no empty line is kept as it is.
LEMMA AllIsKept ==
  ASSUME NEW D, "n" \in D, "r" \notin D, NEW cs \in Seq(D), \A i \in 1 .. Len(DoneIn(cs)) : DoneIn(cs)[i] # <<>>
  PROVE  Kept(cs) = cs
<1> DEFINE P == {s \in Seq(D) : (\A i \in 1 .. Len(DoneIn(s)) : DoneIn(s)[i] # <<>>) => Kept(s) = s}
<1>1. <<>> \in P
  <2>1. <<>> \in Seq(D) /\ Len(<<>>) = 0
    OBVIOUS
  <2>2. Kept(<<>>) \in Seq(D) /\ Len(Kept(<<>>)) <= 0
    BY <2>1, KeptStep, KeptIsKept DEF IsKept
  <2>3. Kept(<<>>) = <<>>
    <3> DEFINE ks == Kept(<<>>)
    <3> HIDE DEF ks
    <3>1. ks \in Seq(D) /\ Len(ks) <= 0
      BY <2>2 DEF ks
    <3>2. ks = <<>>
      BY <3>1
    <3> QED
      BY <3>2 DEF ks
  <2> QED
    BY <2>1, <2>3
<1>2. ASSUME NEW s \in P, NEW c \in D PROVE Append(s, c) \in P
  <2> DEFINE t == Append(s, c)
  <2>1. s \in Seq(D) /\ t \in Seq(D)
    OBVIOUS
  <2> SUFFICES ASSUME \A i \in 1 .. Len(DoneIn(t)) : DoneIn(t)[i] # <<>> PROVE Kept(t) = t
    BY <2>1
  <2>2. (\A i \in 1 .. Len(DoneIn(s)) : DoneIn(s)[i] # <<>>) => Kept(s) = s
    OBVIOUS
  <2> HIDE DEF P
  <2>3. DoneIn(s) \in Seq(Seq(D \ Eol)) /\ DoneIn(t) \in Seq(Seq(D \ Eol))
    BY <2>1, ReadingFacts
  <2>4. Len(DoneIn(s)) <= Len(DoneIn(t)) /\ \A i \in 1 .. Len(DoneIn(s)) : DoneIn(t)[i] = DoneIn(s)[i]
    <3>1. t = s \o <<c>> /\ <<c>> \in Seq(D)
      BY <2>1
    <3>2. Grows(s, s \o <<c>>)
      BY <2>1, <3>1, ReadingGrows
    <3> QED
      BY <3>1, <3>2 DEF Grows, BeginsWith
  <2>5. Kept(s) = s
    <3>1. \A i \in 1 .. Len(DoneIn(s)) : i \in 1 .. Len(DoneIn(t))
      BY <2>3, <2>4
    <3> QED
      BY <2>2, <2>4, <3>1
  <2>6. CASE c \notin Eol
    BY <2>1, <2>5, <2>6, KeptStep
  <2>7. CASE c \in Eol
    <3>1. c = "n" /\ ~ Returned(s)
      BY <2>1, <2>7, LineFeeds DEF Eol
    <3>2. Closes(s, c)
      BY <2>7, <3>1 DEF Closes
    <3>3. LineIn(s) # <<>>
      <4>1. DoneIn(t) = Append(DoneIn(s), LineIn(s))
        BY <2>1, <3>2, ReadingCloses
      <4> DEFINE d == DoneIn(s)
                 l == LineIn(s)
      <4> HIDE DEF d, l
      <4>2. d \in Seq(Seq(D \ Eol)) /\ Len(Append(d, l)) = Len(d) + 1
        BY <2>3, AppendIsLonger DEF d
      <4>3. Len(d) + 1 \in 1 .. Len(Append(d, l)) /\ Append(d, l)[Len(d) + 1] = l
        BY <4>2
      <4>4. Append(d, l)[Len(d) + 1] # <<>>
        BY <4>1, <4>3 DEF d, l
      <4> QED
        BY <4>3, <4>4 DEF l
    <3> QED
      BY <2>1, <2>5, <3>1, <3>2, <3>3, KeptStep
  <2> QED
    BY <2>6, <2>7
<1> HIDE DEF P
<1>3. P = Seq(D)
  <2>1. P \in SUBSET Seq(D)
    BY DEF P
  <2> QED
    BY <1>1, <1>2, <2>1, SeqInduction
<1> QED
  BY <1>3 DEF P

\* A line that has begun, or no returns at all.
LEMMA LastIsLetter ==
  ASSUME NEW s, WellFormed(s), NEW n \in 1 .. Len(s.bytes), NEW a \in 0 .. n - 1, s.bytes[n] \notin Eol
  PROVE  LineIn(Part(s, a, n)) # <<>> /\ ~ Returned(Part(s, a, n))
<1> DEFINE part == SubSeq(s.bytes, a + 1, n)
<1>1. n \in 0 .. Len(s.bytes) /\ a \in 0 .. n /\ n - a \in 1 .. n - a /\ a + (n - a) = n /\ a < n
  BY StreamFacts
<1>2. part \in Seq(Range(s.bytes)) /\ Len(part) = n - a /\ part[n - a] = s.bytes[n] /\ part # <<>>
  <2>1. /\ part \in Seq(Range(s.bytes)) /\ Len(part) = n - a /\ (a < n => part # <<>>)
        /\ \A i \in 1 .. n - a : part[i] = s.bytes[a + i]
    BY <1>1, PartFacts
  <2> HIDE DEF part
  <2>2. part[n - a] = s.bytes[a + (n - a)]
    BY <1>1, <2>1
  <2> QED
    BY <1>1, <2>1, <2>2
<1> HIDE DEF part
<1>3. part[Len(part)] \notin Eol
  BY <1>2
<1>4. LineIn(Lossy(part)) # <<>>
  BY <1>2, <1>3, EndsWithinLine
<1>5. ~ Returned(Lossy(part))
  <2> DEFINE C == Range(s.bytes)
  <2> HIDE DEF C
  <2>1. PICK t \in Seq(C), c \in C : part = Append(t, c)
    BY <1>2, LastOfSeq DEF C
  <2>2. c \notin Eol
    <3>1. Append(t, c)[Len(Append(t, c))] = c
      OBVIOUS
    <3> QED
      BY <1>3, <2>1, <3>1
  <2>3. PICK ds \in Decodings(C), x \in C \cup Letters : x \notin Eol /\ Lossy(part) = Append(ds, x)
    <3>1. CASE c \in {"hi", "lo"}
      <4>1. \E ds \in Decodings(C), x \in Letters : Lossy(Append(t, c)) = Append(ds, x)
        BY <3>1, LossyOfLonger
      <4> QED
        BY <2>1, <4>1 DEF Letters, Eol
    <3>2. CASE c \notin {"hi", "lo"}
      <4>1. Lossy(Append(t, c)) = Append(Lossy(t), c) /\ Lossy(t) \in Decodings(C)
        BY <3>2, LossyOfLonger, LossyLength
      <4> QED
        BY <2>1, <2>2, <4>1
    <3> QED
      BY <3>1, <3>2
  <2>4. ds \in Seq(C \cup Letters)
    BY <2>3 DEF Decodings, Letters
  <2> QED
    BY <2>3, <2>4, ReadingLonger
<1> QED
  BY <1>4, <1>5 DEF Part, part

\* The last event that has ended is the one that ends here, if one does.
LEMMA CountAtEnds ==
  ASSUME NEW s, WellFormed(s), NEW n \in 0 .. Len(s.bytes)
  PROVE  n = 0 \/ n \in Range(s.ends) <=> EndOf(s, Count(s, n)) = n
<1> DEFINE N == Len(s.ends)
           m == Count(s, n)
           E(k) == EndOf(s, k)
<1>1. N \in Nat /\ n \in Nat /\ DOMAIN s.ends = 1 .. N
  BY StreamFacts
<1>2. E(0) = 0 /\ (\A k \in 0 .. N : E(k) \in 0 .. Len(s.bytes)) /\ (\A k \in 1 .. N : E(k) = s.ends[k])
      /\ \A k \in 0 .. N, j \in 0 .. N : j < k => E(j) < E(k)
  BY EndFacts
<1>3. m \in 0 .. N /\ E(m) <= n /\ (\A k \in 0 .. N : E(k) <= n => k <= m) /\ Len(s.bytes) \in Nat
  BY StreamFacts, CountFacts
<1> HIDE DEF N, m, E
<1>4. n = 0 => E(m) = n
  BY <1>1, <1>2, <1>3
<1>5. n \in Range(s.ends) => E(m) = n
  <2> SUFFICES ASSUME NEW k \in 1 .. N, s.ends[k] = n PROVE E(m) = n
    BY <1>1 DEF Range
  <2>1. k \in 0 .. N /\ E(k) = n
    BY <1>1, <1>2
  <2>2. k <= m
    BY <1>1, <1>3, <2>1
  <2>3. k = m \/ E(k) < E(m)
    BY <1>1, <1>2, <1>3, <2>1, <2>2
  <2>4. E(m) \in Nat
    BY <1>2, <1>3
  <2> QED
    BY <1>1, <1>3, <2>1, <2>3, <2>4
<1>6. E(m) = n => n = 0 \/ n \in Range(s.ends)
  <2>1. m = 0 \/ m \in 1 .. N
    BY <1>1, <1>3
  <2> QED
    BY <1>1, <1>2, <2>1 DEF Range
<1> QED
  BY <1>4, <1>5, <1>6 DEF m, E

\* A position that a client may be at: a line has begun there, an event has
\* ended, or line ends are line feeds only.
Calm(s, n) == n = 0 \/ n \in Range(s.ends) \/ s.bytes[n] \notin Eol \/ "r" \notin Range(s.bytes)

\* Within an event there is a part of the event, and no empty line in it.
LEMMA WithinEvent ==
  ASSUME NEW s, WellFormed(s), NEW k \in 1 .. Len(s.ends), NEW n \in 1 .. Len(s.bytes),
         EndOf(s, k - 1) < n, n < EndOf(s, k), Whole(s, n), s.bytes[n] \notin Eol \/ "r" \notin Range(s.bytes)
  PROVE  LET p == Part(s, EndOf(s, k - 1), n)
         IN /\ p \in Seq(Alphabet(s)) /\ \A i \in 1 .. Len(DoneIn(p)) : DoneIn(p)[i] # <<>>
            /\ \A l \in Range(DoneIn(p)) : IsLine(l)
            /\ EventsIn(p) = <<>>
<1> DEFINE D == Alphabet(s)
           d == EndOf(s, k - 1)
           e == EndOf(s, k)
           p == Part(s, d, n)
           b == Part(s, d, e)
           xs == Part(s, n, e)
<1>1. /\ (\A l \in Range(DoneIn(b)) : IsLine(l)) /\ LineIn(b) = <<>>
      /\ (\A i \in 1 .. Len(DoneIn(b)) - 1 : DoneIn(b)[i] # <<>>)
      /\ d \in 0 .. Len(s.bytes) /\ e \in 1 .. Len(s.bytes) /\ d < e
  BY BlockFacts
<1> HIDE DEF d, e
<1>2. d < n /\ n < e /\ Len(s.bytes) \in Nat
  BY StreamFacts DEF d, e
<1>3. e \in 0 .. Len(s.bytes) /\ n \in 0 .. e /\ d \in 0 .. n /\ n \in 0 .. Len(s.bytes) /\ n # Len(s.bytes) /\ d \in 0 .. n - 1
  BY <1>1, <1>2
<1>4. n = e \/ s.bytes[n + 1] # "lo"
  BY <1>3 DEF Whole
<1>5. b = p \o xs
  BY <1>3, <1>4, PartsJoin
<1>6. p \in Seq(D) /\ xs \in Seq(D) /\ xs # <<>>
  BY <1>2, <1>3, PartFacts
<1>7. LineIn(p) # <<>> \/ "r" \notin D
  <2>1. CASE s.bytes[n] \notin Eol
    BY <1>3, <2>1, LastIsLetter
  <2>2. CASE "r" \notin Range(s.bytes)
    BY <2>2 DEF Alphabet, Letters
  <2> QED
    BY <2>1, <2>2
<1> HIDE DEF p, b, xs, D
<1>8. (\A i \in 1 .. Len(DoneIn(p)) : DoneIn(p)[i] # <<>>) /\ Range(DoneIn(p)) \subseteq Range(DoneIn(b))
  BY <1>1, <1>5, <1>6, <1>7, OneEmptyLine
<1>9. EventsIn(p) = <<>>
  <2>1. DoneIn(p) \in Seq(Seq(D \ Eol))
    BY <1>6, ReadingFacts
  <2> DEFINE done == DoneIn(p)
  <2> HIDE DEF done
  <2>2. Parsed(done).events = <<>>
    BY <1>8, <2>1, LinesEndNoEvent DEF done
  <2> QED
    BY <2>2 DEF EventsIn, done
<1> QED
  BY <1>1, <1>6, <1>8, <1>9 DEF p, d, D

\* Where a client may be: the events that ended were found, what is kept is of
\* the event that has begun.
LEMMA AtPosition ==
  ASSUME NEW s, WellFormed(s), NEW n \in 0 .. Len(s.bytes), Whole(s, n), Calm(s, n)
  PROVE  LET m == Count(s, n)
             text == Part(s, 0, n)
             part == Part(s, EndOf(s, m), n)
             es == SubSeq(s.events, 1, m)
         IN /\ EventsIn(text) = es /\ es \in Seq(FieldStates(Alphabet(s) \ Eol)) /\ EventsIn(part) = <<>>
            /\ \A l \in Range(DoneIn(text)) : IsLine(l)
            /\ Kept(text) = Kept(part) /\ Len(Kept(text)) <= n - EndOf(s, m)
            /\ n = EndOf(s, m) => LineIn(text) = <<>> /\ RestIn(text) = <<>>
            /\ n # EndOf(s, m) /\ s.bytes[n] \notin Eol => LineIn(text) # <<>>
            /\ "r" \notin Range(s.bytes) => Kept(part) = part
<1> DEFINE D == Alphabet(s)
           N == Len(s.ends)
           m == Count(s, n)
           d == EndOf(s, m)
           text == Part(s, 0, n)
           part == Part(s, d, n)
           es == SubSeq(s.events, 1, m)
           ls == Range(DoneIn(Part(s, 0, d)))
<1>1. m \in 0 .. N /\ d <= n /\ (m < N => n < EndOf(s, m + 1)) /\ N \in Nat /\ Len(s.bytes) \in Nat
  BY StreamFacts, CountFacts
<1>2. d \in 0 .. Len(s.bytes) /\ EndOf(s, N) = Len(s.bytes)
  BY <1>1, EndFacts
<1>3. AtEnd(s, m)
  BY <1>1, EventsAtEnds
<1>4. d \in 0 .. n /\ n \in d .. Len(s.bytes) /\ 0 \in 0 .. n
  <2> HIDE DEF d, m
  <2> QED
    BY <1>1, <1>2
<1>5. Follows(text, part, es, ls)
  BY <1>1, <1>3, <1>4, BehindEnd
<1>6. es \in Seq(FieldStates(D \ Eol)) /\ \A l \in ls : IsLine(l)
  BY <1>3 DEF AtEnd
<1>7. text \in Seq(D) /\ part \in Seq(D) /\ Len(part) <= n - d /\ (d = n => part = <<>>) /\ (d < n => part # <<>>)
  BY <1>4, PartFacts
<1>8. EventsIn(part) = <<>> /\ \A l \in Range(DoneIn(part)) : IsLine(l)
  <2>1. CASE d = n
    <3>1. part = <<>>
      BY <1>7, <2>1
    <3> HIDE DEF part
    <3>2. Range(<<>>) = {}
      BY DEF Range
    <3> QED
      BY <3>1, <3>2, ReadingNothing
  <2>2. CASE d # n
    <3>1. d < n /\ n \in 1 .. Len(s.bytes) /\ n # 0
      <4> HIDE DEF d
      <4> QED
        BY <1>4, <2>2
    <3>2. m < N
      <4> HIDE DEF m, N
      <4>1. m # N
        BY <1>1, <1>2, <3>1 DEF d
      <4> QED
        BY <1>1, <4>1
    <3>3. m + 1 \in 1 .. N /\ (m + 1) - 1 = m
      <4> HIDE DEF m, N
      <4> QED
        BY <1>1, <3>2
    <3>4. s.bytes[n] \notin Eol \/ "r" \notin Range(s.bytes)
      <4>1. ~ (n = 0 \/ n \in Range(s.ends))
        BY <2>2, CountAtEnds
      <4> QED
        BY <4>1 DEF Calm
    <3>5. EndOf(s, (m + 1) - 1) < n /\ n < EndOf(s, m + 1)
      BY <1>1, <3>1, <3>2, <3>3
    <3>6. LET p == Part(s, EndOf(s, (m + 1) - 1), n)
          IN EventsIn(p) = <<>> /\ \A l \in Range(DoneIn(p)) : IsLine(l)
      BY <3>1, <3>3, <3>4, <3>5, WithinEvent
    <3> QED
      BY <3>3, <3>6
  <2> QED
    BY <2>1, <2>2
<1>9. "r" \notin Range(s.bytes) => Kept(part) = part
  <2> SUFFICES ASSUME "r" \notin Range(s.bytes) PROVE Kept(part) = part
    OBVIOUS
  <2>1. "r" \notin D /\ "n" \in D
    BY DEF Alphabet, Letters
  <2>2. \A i \in 1 .. Len(DoneIn(part)) : DoneIn(part)[i] # <<>>
    <3>1. CASE d = n
      <4>1. part = <<>>
        BY <1>7, <3>1
      <4> QED
        BY <4>1, ReadingNothing
    <3>2. CASE d # n
      <4>1. d < n /\ n \in 1 .. Len(s.bytes)
        <5> HIDE DEF d
        <5> QED
          BY <1>4, <3>2
      <4>2. m + 1 \in 1 .. N /\ (m + 1) - 1 = m /\ m < N
        <5> HIDE DEF m, N
        <5>1. m # N
          BY <1>1, <1>2, <4>1 DEF d
        <5> QED
          BY <1>1, <5>1
      <4>3. EndOf(s, (m + 1) - 1) < n /\ n < EndOf(s, m + 1)
        BY <1>1, <4>1, <4>2
      <4>4. LET p == Part(s, EndOf(s, (m + 1) - 1), n)
            IN \A i \in 1 .. Len(DoneIn(p)) : DoneIn(p)[i] # <<>>
        BY <4>1, <4>2, <4>3, WithinEvent
      <4> QED
        BY <4>2, <4>4
    <3> QED
      BY <3>1, <3>2
  <2> HIDE DEF part, D
  <2> QED
    BY <1>7, <2>1, <2>2, AllIsKept
<1>10. n # d /\ s.bytes[n] \notin Eol => LineIn(text) # <<>>
  <2> SUFFICES ASSUME n # d, s.bytes[n] \notin Eol PROVE LineIn(text) # <<>>
    OBVIOUS
  <2>1. n \in 1 .. Len(s.bytes) /\ 0 \in 0 .. n - 1
    <3> HIDE DEF d
    <3> QED
      BY <1>4
  <2> QED
    BY <2>1, LastIsLetter
<1>11. n = d => LineIn(text) = <<>> /\ RestIn(text) = <<>>
  BY <1>3 DEF AtEnd
<1>12. Kept(part) \in Seq(D) /\ Len(Kept(part)) <= Len(part)
  <2>1. "n" \in D
    BY DEF Alphabet
  <2> HIDE DEF part, D
  <2> QED
    BY <1>7, <2>1, KeptStep, KeptIsKept DEF IsKept
<1> HIDE DEF text, part, es, ls, d, m, D
<1>13. EventsIn(text) = es /\ (\A l \in Range(DoneIn(text)) : IsLine(l)) /\ Kept(text) = Kept(part)
  <2>1. EventsIn(text) = es \o EventsIn(part) /\ Range(DoneIn(text)) = ls \cup Range(DoneIn(part))
    BY <1>5 DEF Follows
  <2>2. es \o <<>> = es
    BY <1>6
  <2> QED
    BY <1>5, <1>6, <1>8, <2>1, <2>2, FollowsKeeps
<1>14. Len(Kept(text)) <= n - d
  <2>1. Len(part) \in Nat /\ Len(Kept(part)) \in Nat /\ d \in Nat /\ n \in Nat
    BY <1>4, <1>7, <1>12
  <2> QED
    BY <1>7, <1>12, <1>13, <2>1
<1> QED
  BY <1>6, <1>8, <1>9, <1>10, <1>11, <1>13, <1>14 DEF text, part, es, d, m, D

\* One byte more.
LEMMA PartGrows ==
  ASSUME NEW s, WellFormed(s), NEW n \in 1 .. Len(s.bytes), NEW a \in 0 .. n - 1, s.bytes[n] \notin {"hi", "lo"}
  PROVE  /\ Part(s, a, n) = Append(Part(s, a, n - 1), s.bytes[n])
         /\ Part(s, a, n - 1) \in Seq(Alphabet(s)) /\ (a < n - 1 => Part(s, a, n - 1) # <<>>)
<1> DEFINE long == SubSeq(s.bytes, a + 1, n)
           short == SubSeq(s.bytes, a + 1, n - 1)
           C == Range(s.bytes)
           c == s.bytes[n]
           app == Append(short, c)
<1>1. n \in 0 .. Len(s.bytes) /\ a \in 0 .. n /\ n - 1 \in 0 .. Len(s.bytes) /\ a \in 0 .. n - 1 /\ n \in Nat /\ a \in Nat
  BY StreamFacts
<1>2. long \in Seq(C) /\ Len(long) = n - a /\ \A i \in 1 .. n - a : long[i] = s.bytes[a + i]
  BY <1>1, PartFacts
<1>3. short \in Seq(C) /\ Len(short) = (n - 1) - a /\ \A i \in 1 .. (n - 1) - a : short[i] = s.bytes[a + i]
  BY <1>1, PartFacts, ZenonT(40)
<1>4. c \in C
  BY StreamFacts
<1> HIDE DEF long, short, C
<1>5. /\ app \in Seq(C) /\ Len(app) = ((n - 1) - a) + 1 /\ app[((n - 1) - a) + 1] = c
      /\ \A i \in 1 .. (n - 1) - a : app[i] = short[i]
  BY <1>3, <1>4
<1> HIDE DEF app
<1>6. ASSUME NEW i \in 1 .. Len(long) PROVE long[i] = app[i]
  <2>1. i \in 1 .. (n - 1) - a \/ (i = ((n - 1) - a) + 1 /\ a + i = n)
    BY <1>1, <1>2
  <2>2. long[i] = s.bytes[a + i]
    BY <1>2
  <2> QED
    BY <1>3, <1>5, <2>1, <2>2 DEF c
<1>7. long = app
  <2>1. Len(long) = Len(app)
    BY <1>1, <1>2, <1>5
  <2> QED
    BY <1>2, <1>5, <1>6, <2>1, SameSeq
<1>8. Lossy(Append(short, c)) = Append(Lossy(short), c)
  <2> HIDE DEF c
  <2>1. c \notin {"hi", "lo"}
    BY DEF c
  <2> QED
    BY <1>3, <1>4, <2>1, LossyOfLonger
<1>9. Part(s, a, n - 1) \in Seq(Alphabet(s)) /\ (a < n - 1 => Part(s, a, n - 1) # <<>>)
  BY <1>1, PartFacts
<1> QED
  BY <1>7, <1>8, <1>9 DEF Part, long, short, app, c

\* The line feed before which a client finds an event ends that event.
LEMMA BeforeLast ==
  ASSUME NEW s, WellFormed(s), NEW n \in 1 .. Len(s.bytes), "r" \notin Range(s.bytes),
         n < Len(s.bytes), s.bytes[n] = "n", s.bytes[n + 1] = "n"
  PROVE  n + 1 \in Range(s.ends) /\ n \notin Range(s.ends)
<1> DEFINE N == Len(s.ends)
           m == Count(s, n)
           d == EndOf(s, m)
<1>1. m \in 0 .. N /\ d <= n /\ (m < N => n < EndOf(s, m + 1)) /\ N \in Nat /\ Len(s.bytes) \in Nat /\ n \in 0 .. Len(s.bytes)
  <2>1. n \in 0 .. Len(s.bytes)
    OBVIOUS
  <2> QED
    BY <2>1, StreamFacts, CountFacts
<1>2. d \in 0 .. Len(s.bytes) /\ EndOf(s, N) = Len(s.bytes)
  BY <1>1, EndFacts
<1>3. m < N
  <2> HIDE DEF m, N
  <2>1. m # N
    BY <1>1, <1>2 DEF d
  <2> QED
    BY <1>1, <2>1
<1>4. s.bytes[d + 1] \in Fields
  BY <1>1, <1>3, WholeAtEnds
<1>5. d # n
  BY <1>4 DEF Fields
<1>6. n \notin Range(s.ends)
  BY <1>1, <1>5, CountAtEnds
<1>7. m + 1 \in 1 .. N /\ (m + 1) - 1 = m /\ m + 1 \in 0 .. N
  <2> HIDE DEF m, N
  <2> QED
    BY <1>1, <1>3
<1> DEFINE e == EndOf(s, m + 1)
<1>8. e = s.ends[m + 1] /\ e \in 0 .. Len(s.bytes) /\ DOMAIN s.ends = 1 .. N
  BY <1>7, EndFacts, StreamFacts
<1>9. n + 1 = e
  <2> SUFFICES ASSUME n + 1 # e PROVE FALSE
    OBVIOUS
  <2> DEFINE q == n + 1
             p == Part(s, d, q)
             o == Part(s, d, n)
             D == Alphabet(s)
  <2>1. d < q /\ q < e /\ q \in 1 .. Len(s.bytes) /\ q \in 0 .. Len(s.bytes) /\ n \in 0 .. q /\ d \in 0 .. n /\ d < n /\ d \in 0 .. q
    <3> HIDE DEF d, e, m
    <3> QED
      BY <1>1, <1>2, <1>3, <1>5, <1>8 DEF e
  <2>2. Whole(s, q)
    <3> SUFFICES ASSUME q # Len(s.bytes) PROVE s.bytes[q + 1] # "lo"
      BY DEF Whole
    <3>1. q + 1 \in 1 .. Len(s.bytes) /\ (q + 1) - 1 = q
      BY <1>1, <2>1
    <3>2. s.bytes[q + 1] = "lo" => s.bytes[(q + 1) - 1] = "hi"
      BY <3>1, StreamFacts DEF Paired
    <3> QED
      BY <3>1, <3>2
  <2>3. \A i \in 1 .. Len(DoneIn(p)) : DoneIn(p)[i] # <<>>
    <3>1. LET w == Part(s, EndOf(s, (m + 1) - 1), q)
          IN \A i \in 1 .. Len(DoneIn(w)) : DoneIn(w)[i] # <<>>
      BY <1>7, <2>1, <2>2, WithinEvent
    <3> QED
      BY <1>7, <3>1
  <2>4. p = Append(o, "n") /\ o \in Seq(D) /\ o # <<>>
    <3>1. q - 1 = n /\ d \in 0 .. q - 1 /\ d < q - 1 /\ s.bytes[q] \notin {"hi", "lo"}
      BY <1>1, <2>1
    <3>2. /\ Part(s, d, q) = Append(Part(s, d, q - 1), s.bytes[q])
          /\ Part(s, d, q - 1) \in Seq(D) /\ Part(s, d, q - 1) # <<>>
      BY <2>1, <3>1, PartGrows
    <3> QED
      BY <3>1, <3>2
  <2>5. "n" \in D /\ "r" \notin D
    BY DEF Alphabet, Letters
  <2> HIDE DEF o, p, D
  <2>6. LineIn(o) = <<>>
    <3>1. PICK t \in Seq(Alphabet(s)) : o = Append(t, "n")
      <4>1. d \in 0 .. n - 1 /\ s.bytes[n] \notin {"hi", "lo"}
        BY <1>1, <2>1
      <4> QED
        BY <4>1, PartGrows DEF o
    <3>2. o[Len(o)] = "n"
      BY <3>1
    <3> QED
      BY <2>4, <2>5, <3>2, LineFeeds
  <2>7. DoneIn(p) = Append(DoneIn(o), <<>>)
    <3>1. ~ Returned(o)
      BY <2>4, <2>5, LineFeeds
    <3>2. Closes(o, "n")
      BY <3>1 DEF Closes, Eol
    <3> QED
      BY <2>4, <2>5, <2>6, <3>2, ReadingCloses
  <2>8. DoneIn(o) \in Seq(Seq(D \ Eol))
    BY <2>4, ReadingFacts
  <2> DEFINE done == DoneIn(o)
  <2> HIDE DEF done
  <2>9. Len(done) + 1 \in 1 .. Len(Append(done, <<>>)) /\ Append(done, <<>>)[Len(done) + 1] = <<>>
    BY <2>8 DEF done
  <2> QED
    BY <2>3, <2>7, <2>9 DEF done
<1> QED
  BY <1>6, <1>7, <1>8, <1>9 DEF Range

(***************************************************************************)
(* A client reads on where it is.                                          *)
(***************************************************************************)
LEMMA ReadOn ==
  ASSUME NEW s, WellFormed(s), NEW n \in 0 .. Len(s.bytes), NEW d \in 0 .. n, Whole(s, d), Calm(s, d)
  PROVE  LET text == Part(s, 0, d)
             cs == Kept(text) \o Part(s, d, n)
             all == Part(s, 0, n)
         IN /\ cs \in Seq(Alphabet(s)) /\ EventsIn(text) \in Seq(FieldStates(Alphabet(s) \ Eol))
            /\ Follows(all, cs, EventsIn(text), Range(DoneIn(text)))
            /\ Kept(all) = Kept(cs)
<1> DEFINE D == Alphabet(s)
           text == Part(s, 0, d)
           xs == Part(s, d, n)
           ks == Kept(text)
<1>1. d \in 0 .. Len(s.bytes) /\ 0 \in 0 .. d /\ Len(s.bytes) \in Nat /\ d \in Nat /\ n \in Nat
  BY StreamFacts
<1>2. text \in Seq(D) /\ xs \in Seq(D) /\ (d = n => xs = <<>>)
  BY <1>1, PartFacts
<1>3. "n" \in D
  BY DEF Alphabet
<1>4. Part(s, 0, n) = text \o xs
  <2>1. d = n \/ s.bytes[d + 1] # "lo"
    BY <1>1 DEF Whole
  <2> QED
    BY <1>1, <2>1, PartsJoin
<1>5. /\ Follows(text, ks, EventsIn(text), Range(DoneIn(text))) /\ ~ Returned(ks) /\ ks \in Seq(D)
      /\ EventsIn(text) \in Seq(FieldStates(D \ Eol))
  <2> HIDE DEF text, D
  <2> QED
    BY <1>2, <1>3, KeptIsKept, KeptStep, ReadingFacts DEF IsKept
<1>6. Alike(text, ks) \/ xs = <<>> \/ Head(xs) # "n"
  <2>1. CASE d = n
    BY <1>2, <2>1
  <2>2. CASE d # n /\ (d = 0 \/ d \in Range(s.ends))
    <3> DEFINE m == Count(s, d)
    <3>1. EndOf(s, m) = d /\ m \in 0 .. Len(s.ends)
      BY <1>1, <2>2, CountAtEnds, CountFacts
    <3>2. m < Len(s.ends)
      <4>1. EndOf(s, Len(s.ends)) = Len(s.bytes) /\ Len(s.ends) \in Nat
        BY EndFacts, StreamFacts
      <4> HIDE DEF m
      <4>2. m # Len(s.ends)
        BY <1>1, <2>2, <3>1, <4>1
      <4> QED
        BY <3>1, <4>1, <4>2
    <3>3. s.bytes[d + 1] \in Fields
      BY <3>1, <3>2, WholeAtEnds
    <3>4. d < n
      BY <1>1, <2>2
    <3>5. SubSeq(s.bytes, d + 1, n) \in Seq(Range(s.bytes))
          /\ (d < n => SubSeq(s.bytes, d + 1, n) # <<>> /\ Head(SubSeq(s.bytes, d + 1, n)) = s.bytes[d + 1])
      BY <1>1, PartFacts
    <3>6. Head(SubSeq(s.bytes, d + 1, n)) # "n" /\ SubSeq(s.bytes, d + 1, n) # <<>>
      BY <3>3, <3>4, <3>5 DEF Fields
    <3>7. Head(Lossy(SubSeq(s.bytes, d + 1, n))) # "n"
      BY <3>5, <3>6, HeadOfLossy
    <3> QED
      BY <3>7 DEF Part
  <2>3. CASE d # 0 /\ s.bytes[d] \notin Eol
    <3>1. d \in 1 .. Len(s.bytes) /\ 0 \in 0 .. d - 1
      BY <1>1, <2>3
    <3>2. ~ Returned(text)
      BY <2>3, <3>1, LastIsLetter
    <3> QED
      BY <1>5, <3>2 DEF Alike
  <2>4. CASE "r" \notin Range(s.bytes)
    <3>1. "r" \notin D
      BY <2>4 DEF Alphabet, Letters
    <3>2. ~ Returned(text)
      <4> HIDE DEF text, D
      <4> QED
        BY <1>2, <3>1, LineFeeds
    <3> QED
      BY <1>5, <3>2 DEF Alike
  <2> QED
    BY <2>1, <2>2, <2>3, <2>4 DEF Calm
<1> HIDE DEF text, xs, ks, D
<1>7. Follows(text \o xs, ks \o xs, EventsIn(text), Range(DoneIn(text)))
  BY <1>2, <1>5, <1>6, Resume
<1>8. ks \o xs \in Seq(D)
  BY <1>2, <1>5, ConcatFacts
<1>9. Kept(text \o xs) = Kept(ks \o xs)
  BY <1>7, FollowsKeeps
<1> QED
  BY <1>4, <1>5, <1>7, <1>8, <1>9 DEF text, xs, ks, D

\* What a client has found and kept when it has read the first n bytes.
Caught(s, n, found, left) == found = EventsIn(Part(s, 0, n)) /\ left = Kept(Part(s, 0, n))

\* The last byte of an event ends a line.
LEMMA EndsAreLineEnds ==
  ASSUME NEW s, WellFormed(s), NEW n \in Range(s.ends)
  PROVE  n \in 1 .. Len(s.bytes) /\ s.bytes[n] \in Eol
<1>1. PICK k \in 1 .. Len(s.ends) : n = s.ends[k]
  BY StreamFacts DEF Range
<1>2. n = EndOf(s, k)
  BY <1>1, EndFacts
<1> QED
  BY <1>2, BlockFacts

\* A stream ends with an event.
LEMMA LastIsEnd ==
  ASSUME NEW s, WellFormed(s), Len(s.bytes) > 0
  PROVE  Len(s.bytes) \in Range(s.ends)
<1>1. Len(s.ends) \in Nat /\ DOMAIN s.ends = 1 .. Len(s.ends) /\ Len(s.bytes) \in Nat
  BY StreamFacts
<1>2. EndOf(s, 0) = 0 /\ EndOf(s, Len(s.ends)) = Len(s.bytes) /\ \A k \in 1 .. Len(s.ends) : EndOf(s, k) = s.ends[k]
  BY EndFacts
<1>3. Len(s.ends) \in 1 .. Len(s.ends)
  BY <1>1, <1>2
<1> QED
  BY <1>1, <1>2, <1>3 DEF Range

(***************************************************************************)
(* What the stream's decoder of the Dart client holds back.                *)
(***************************************************************************)
Holds(s, n) == n > 0 /\ s.bytes[n] = "hi"
Pos(s, n) == IF Holds(s, n) THEN n - 1 ELSE n
Held(s, n) == IF Holds(s, n) THEN <<"hi">> ELSE <<>>
LineBegun(s, n) == n = 0 \/ n \in Range(s.ends) \/ s.bytes[n] \notin Eol

\* Without the byte that is held back, the Dart client is where it may be.
LEMMA DartPosition ==
  ASSUME NEW s, WellFormed(s), NEW n \in 0 .. Len(s.bytes), LineBegun(s, n)
  PROVE  /\ Pos(s, n) \in 0 .. n /\ Whole(s, Pos(s, n)) /\ LineBegun(s, Pos(s, n)) /\ Calm(s, Pos(s, n))
         /\ Count(s, n) <= Count(s, Pos(s, n))
<1>1. n \in Nat /\ Len(s.bytes) \in Nat
  BY StreamFacts
<1>2. CASE Holds(s, n)
  <2> DEFINE d == n - 1
  <2>1. n \in 1 .. Len(s.bytes) /\ s.bytes[n] = "hi" /\ Pos(s, n) = d /\ d \in 0 .. n /\ d \in 0 .. Len(s.bytes) /\ d + 1 = n
    BY <1>1, <1>2 DEF Holds, Pos
  <2>2. Whole(s, d)
    BY <2>1 DEF Whole
  <2>3. LineBegun(s, d)
    <3> SUFFICES ASSUME d # 0, s.bytes[d] \in Eol PROVE FALSE
      BY DEF LineBegun
    <3>1. n > 1
      BY <2>1
    <3>2. s.bytes[n] \in Fields \cup Eol
      BY <2>1, <3>1, StreamFacts
    <3> QED
      BY <2>1, <3>2 DEF Fields, Eol
  <2>4. Count(s, n) <= Count(s, d)
    <3> DEFINE m == Count(s, n)
    <3>1. m \in 0 .. Len(s.ends) /\ EndOf(s, m) <= n /\ EndOf(s, m) \in Nat
      <4>1. m \in 0 .. Len(s.ends) /\ EndOf(s, m) <= n
        BY CountFacts
      <4>2. EndOf(s, m) \in 0 .. Len(s.bytes)
        BY <4>1, EndFacts
      <4> QED
        BY <4>1, <4>2
    <3>2. n \notin Range(s.ends)
      <4>1. s.bytes[n] \notin Eol
        BY <2>1 DEF Eol
      <4> QED
        BY <4>1, EndsAreLineEnds
    <3>3. EndOf(s, m) # n
      BY <2>1, <3>2, CountAtEnds
    <3>4. EndOf(s, m) <= d
      <4> HIDE DEF m
      <4> QED
        BY <1>1, <3>1, <3>3
    <3> QED
      BY <2>1, <3>1, <3>4, CountFacts
  <2> QED
    BY <2>1, <2>2, <2>3, <2>4 DEF Calm, LineBegun
<1>3. CASE ~ Holds(s, n)
  <2>1. Pos(s, n) = n /\ n \in 0 .. n
    BY <1>1, <1>3 DEF Pos
  <2>2. Whole(s, n)
    <3> SUFFICES ASSUME n # Len(s.bytes), s.bytes[n + 1] = "lo" PROVE FALSE
      BY DEF Whole
    <3>1. n + 1 \in 1 .. Len(s.bytes) /\ (n + 1) - 1 = n
      BY <1>1
    <3>2. n + 1 > 1 /\ s.bytes[(n + 1) - 1] = "hi"
      BY <3>1, StreamFacts DEF Paired
    <3> QED
      BY <1>1, <1>3, <3>1, <3>2 DEF Holds
  <2>3. Count(s, n) \in Nat
    BY CountFacts
  <2> QED
    BY <2>1, <2>2, <2>3 DEF Calm, LineBegun
<1> QED
  BY <1>2, <1>3

\* What it decodes next.
LEMMA DartText ==
  ASSUME NEW s, WellFormed(s), NEW n \in 1 .. Len(s.bytes), NEW m \in 0 .. n - 1, LineBegun(s, m), LineBegun(s, n)
  PROVE  LET bytes == Held(s, m) \o SubSeq(s.bytes, m + 1, n)
         IN /\ Held(s, n) = IF Last(bytes) = "hi" THEN <<"hi">> ELSE <<>>
            /\ Lossy(SubSeq(bytes, 1, Len(bytes) - Len(Held(s, n)))) = Part(s, Pos(s, m), Pos(s, n))
            /\ Pos(s, m) \in 0 .. Pos(s, n)
<1> DEFINE d == Pos(s, m)
           e == Pos(s, n)
           C == Range(s.bytes)
           chunk == SubSeq(s.bytes, m + 1, n)
           bytes == Held(s, m) \o chunk
           want == SubSeq(s.bytes, d + 1, e)
           have == SubSeq(bytes, 1, Len(bytes) - Len(Held(s, n)))
<1>1. n \in Nat /\ m \in Nat /\ Len(s.bytes) \in Nat /\ m \in 0 .. n /\ n \in 0 .. Len(s.bytes) /\ m < n
  BY StreamFacts
<1>2. /\ Holds(s, m) => d = m - 1 /\ Held(s, m) = <<"hi">> /\ m > 0 /\ s.bytes[m] = "hi"
      /\ ~ Holds(s, m) => d = m /\ Held(s, m) = <<>>
      /\ Holds(s, n) => e = n - 1 /\ Held(s, n) = <<"hi">> /\ s.bytes[n] = "hi"
      /\ ~ Holds(s, n) => e = n /\ Held(s, n) = <<>> /\ s.bytes[n] # "hi"
  BY <1>1 DEF Holds, Pos, Held
<1>3. chunk \in Seq(C) /\ Len(chunk) = n - m /\ \A i \in 1 .. n - m : chunk[i] = s.bytes[m + i]
  BY <1>1, PartFacts
<1> HIDE DEF d, e
<1> DEFINE hm == Len(Held(s, m))
           hn == Len(Held(s, n))
<1>13. (Holds(s, m) => hm = 1) /\ (~ Holds(s, m) => hm = 0) /\ (Holds(s, n) => hn = 1) /\ (~ Holds(s, n) => hn = 0)
  <2>1. Len(<<"hi">>) = 1 /\ Len(<<>>) = 0
    OBVIOUS
  <2> QED
    BY <1>2, <2>1
<1> HIDE DEF hm, hn
<1>14. d \in Nat /\ e \in Nat /\ d < n /\ d <= m /\ d <= e /\ e <= n /\ m - d = hm /\ n - e = hn
  <2>1. d \in Nat /\ d <= m /\ m - d = hm
    BY <1>1, <1>2, <1>13
  <2>2. e \in Nat /\ e <= n /\ n - e = hn /\ m <= e
    BY <1>1, <1>2, <1>13
  <2> QED
    BY <1>1, <2>1, <2>2
<1>4. d \in Nat /\ e \in Nat /\ d < n /\ d <= m /\ d <= e /\ e <= n /\ m - d = Len(Held(s, m)) /\ n - e = Len(Held(s, n))
  BY <1>14 DEF hm, hn
<1>5. m > 0 => m \in 1 .. Len(s.bytes) /\ s.bytes[m] \in C
  BY <1>1, StreamFacts
<1> HIDE DEF d, e, C, chunk
<1>6. bytes \in Seq(C) /\ Len(bytes) = n - d /\ \A i \in 1 .. n - d : bytes[i] = s.bytes[d + i]
  <2>1. CASE Holds(s, m)
    <3>1. <<"hi">> \in Seq(C) /\ bytes = <<"hi">> \o chunk
      <4>1. "hi" \in C
        BY <1>2, <1>5, <2>1
      <4>2. <<"hi">> \in Seq(C)
        BY <4>1
      <4> QED
        BY <1>2, <2>1, <4>2
    <3>2. /\ <<"hi">> \o chunk \in Seq(C) /\ Len(<<"hi">> \o chunk) = 1 + (n - m) /\ (<<"hi">> \o chunk)[1] = "hi"
          /\ \A i \in 1 .. n - m : (<<"hi">> \o chunk)[1 + i] = chunk[i]
      BY <1>1, <1>3, <3>1, SMTT(30)
    <3> HIDE DEF bytes
    <3>3. ASSUME NEW i \in 1 .. n - d PROVE bytes[i] = s.bytes[d + i]
      <4>1. CASE i = 1
        <5>1. d + i = m
          BY <1>1, <1>2, <2>1, <4>1
        <5> QED
          BY <1>2, <2>1, <3>1, <3>2, <4>1, <5>1
      <4>2. CASE i # 1
        <5>1. i - 1 \in 1 .. n - m /\ 1 + (i - 1) = i /\ m + (i - 1) = d + i
          BY <1>1, <1>2, <1>4, <2>1, <4>2
        <5>2. bytes[1 + (i - 1)] = chunk[i - 1]
          BY <3>1, <3>2, <5>1
        <5>3. chunk[i - 1] = s.bytes[m + (i - 1)]
          BY <1>3, <5>1
        <5> QED
          BY <5>1, <5>2, <5>3
      <4> QED
        BY <4>1, <4>2
    <3>4. 1 + (n - m) = n - d
      BY <1>1, <1>2, <2>1
    <3> QED
      BY <3>1, <3>2, <3>3, <3>4
  <2>2. CASE ~ Holds(s, m)
    <3>1. bytes = chunk /\ d = m
      BY <1>2, <1>3, <2>2
    <3> QED
      BY <1>3, <3>1
  <2> QED
    BY <2>1, <2>2
<1>7. Last(bytes) = s.bytes[n]
  <2> HIDE DEF bytes
  <2>1. n - d \in 1 .. n - d /\ d + (n - d) = n
    BY <1>1, <1>4
  <2> QED
    BY <1>6, <2>1 DEF Last
<1>8. want \in Seq(C) /\ Len(want) = e - d /\ \A i \in 1 .. e - d : want[i] = s.bytes[d + i]
  <2>1. e \in 0 .. Len(s.bytes) /\ d \in 0 .. e
    BY <1>1, <1>4
  <2> QED
    BY <2>1, PartFacts DEF C
<1> HIDE DEF bytes, want
<1>9. have = SubSeq(bytes, 1, e - d)
  <2>1. Len(bytes) - Len(Held(s, n)) = e - d
    <3>1. (n - d) - (n - e) = e - d
      BY <1>1, <1>4
    <3> QED
      BY <1>4, <1>6, <3>1
  <2> QED
    BY <2>1
<1> HIDE DEF have
<1>10. have \in Seq(C) /\ Len(have) = e - d /\ \A i \in 1 .. e - d : have[i] = bytes[i]
  <2> DEFINE l == e - d
  <2>1. l \in 0 .. Len(bytes) /\ Len(bytes) \in Nat
    BY <1>1, <1>4, <1>6
  <2> HIDE DEF l
  <2>2. SubSeq(bytes, 1, l) \in Seq(C) /\ Len(SubSeq(bytes, 1, l)) = l /\ \A i \in 1 .. l : SubSeq(bytes, 1, l)[i] = bytes[i]
    BY <1>6, <2>1
  <2> QED
    BY <1>9, <2>2 DEF l
<1>11. have = want
  <2>1. \A i \in 1 .. e - d : i \in 1 .. n - d
    BY <1>1, <1>4
  <2>2. \A i \in 1 .. Len(have) : have[i] = want[i]
    BY <1>6, <1>8, <1>10, <2>1
  <2>3. Len(have) = Len(want)
    BY <1>8, <1>10
  <2> QED
    BY <1>8, <1>10, <2>2, <2>3, SameSeq
<1>12. Held(s, n) = IF Last(bytes) = "hi" THEN <<"hi">> ELSE <<>>
  BY <1>2, <1>7
<1>15. d \in 0 .. e
  BY <1>4
<1> QED
  BY <1>11, <1>12, <1>15 DEF have, want, bytes, chunk, d, e, Part

\* A chunk that begins and ends with a character is decoded as it is.
LEMMA ChunkText ==
  ASSUME NEW s, WellFormed(s), NEW n \in 1 .. Len(s.bytes), NEW m \in 0 .. n - 1, Whole(s, m), Whole(s, n)
  PROVE  Replaced(SubSeq(s.bytes, m + 1, n)) = Part(s, m, n)
<1> DEFINE C == Range(s.bytes)
           chunk == SubSeq(s.bytes, m + 1, n)
<1>1. n \in 0 .. Len(s.bytes) /\ m \in 0 .. n /\ Len(s.bytes) \in Nat /\ n \in Nat /\ m \in Nat /\ m < n
  BY StreamFacts
<1>2. chunk \in Seq(C) /\ Len(chunk) = n - m /\ \A i \in 1 .. n - m : chunk[i] = s.bytes[m + i]
  BY <1>1, PartFacts
<1>3. C \cap Letters = {}
  BY StreamFacts
<1>4. \A p \in 1 .. Len(s.bytes) : s.bytes[p] = "lo" <=> p > 1 /\ s.bytes[p - 1] = "hi"
  BY StreamFacts DEF Paired
<1>5. s.bytes[m + 1] # "lo"
  <2>1. m # Len(s.bytes)
    BY <1>1
  <2> QED
    BY <2>1 DEF Whole
<1>6. s.bytes[n] # "hi"
  <2>1. CASE n = Len(s.bytes)
    <3>1. n \in Range(s.ends)
      BY <1>1, <2>1, LastIsEnd
    <3>2. s.bytes[n] \in Eol
      BY <3>1, EndsAreLineEnds
    <3> QED
      BY <3>2 DEF Eol
  <2>2. CASE n # Len(s.bytes)
    <3>1. n + 1 \in 1 .. Len(s.bytes) /\ n + 1 > 1 /\ (n + 1) - 1 = n
      BY <1>1, <2>2
    <3>2. s.bytes[n + 1] # "lo"
      BY <2>2 DEF Whole
    <3> QED
      BY <1>4, <3>1, <3>2
  <2> QED
    BY <2>1, <2>2
<1> HIDE DEF chunk, C
<1>7. Paired(chunk)
  <2> SUFFICES ASSUME NEW i \in 1 .. n - m PROVE chunk[i] = "lo" <=> i > 1 /\ chunk[i - 1] = "hi"
    BY <1>2 DEF Paired
  <2>1. CASE i = 1
    BY <1>2, <1>5, <2>1
  <2>2. CASE i # 1
    <3>1. i - 1 \in 1 .. n - m /\ m + i \in 1 .. Len(s.bytes) /\ m + i > 1 /\ (m + i) - 1 = m + (i - 1) /\ i > 1
      BY <1>1, <2>2
    <3>2. s.bytes[m + i] = "lo" <=> s.bytes[(m + i) - 1] = "hi"
      BY <1>4, <3>1
    <3> QED
      BY <1>2, <3>1, <3>2
  <2> QED
    BY <2>1, <2>2
<1>8. chunk[Len(chunk)] # "hi"
  <2>1. n - m \in 1 .. n - m /\ m + (n - m) = n
    BY <1>1
  <2> QED
    BY <1>2, <1>6, <2>1
<1>9. Replaced(chunk) = Lossy(chunk)
  BY <1>2, <1>3, <1>7, <1>8, ReplacedIsLossy
<1> QED
  BY <1>9 DEF Part, chunk

(***************************************************************************)
(* The clients that go through the characters.                             *)
(***************************************************************************)
\* The events up to the j-th were found; what follows them is kept.
Waiting(s, n, j, found, left) ==
  /\ j \in 0 .. Len(s.ends) /\ EndOf(s, j) <= n
  /\ left = Part(s, EndOf(s, j), n) /\ found = SubSeq(s.events, 1, j)

\* A text that follows the end of an event is parsed up to its last event.
LEMMA ScanReads ==
  ASSUME NEW s, WellFormed(s), "r" \notin Range(s.bytes), NEW n \in 0 .. Len(s.bytes), Whole(s, n),
         NEW j \in 0 .. Len(s.ends), EndOf(s, j) <= n
  PROVE  LET cs == Part(s, EndOf(s, j), n)
         IN /\ cs \in Seq(Alphabet(s)) /\ (cs = <<>> \/ Head(cs) # "n") /\ \A l \in Range(DoneIn(cs)) : IsLine(l)
            /\ Waiting(s, n, Count(s, n), SubSeq(s.events, 1, j) \o EventsIn(cs), Kept(cs))
<1> DEFINE d == EndOf(s, j)
           cs == Part(s, d, n)
           all == Part(s, 0, n)
           m == Count(s, n)
           es == SubSeq(s.events, 1, j)
           ls == Range(DoneIn(Part(s, 0, d)))
<1>1. d \in 0 .. Len(s.bytes) /\ EndOf(s, Len(s.ends)) = Len(s.bytes) /\ Len(s.ends) \in Nat /\ Len(s.bytes) \in Nat
  BY EndFacts, StreamFacts
<1>2. d \in 0 .. n /\ n \in d .. Len(s.bytes) /\ (d = n \/ d < n)
  <2>1. d <= n
    OBVIOUS
  <2> HIDE DEF d
  <2> QED
    BY <1>1, <2>1
<1>3. Calm(s, n)
  BY DEF Calm
<1>4. /\ EventsIn(all) = SubSeq(s.events, 1, m)
      /\ (\A l \in Range(DoneIn(all)) : IsLine(l))
      /\ Kept(all) = Kept(Part(s, EndOf(s, m), n)) /\ Kept(Part(s, EndOf(s, m), n)) = Part(s, EndOf(s, m), n)
  BY <1>3, AtPosition
<1>5. Follows(all, cs, es, ls)
  BY <1>2, EventsAtEnds, BehindEnd
<1>6. cs \in Seq(Alphabet(s)) /\ (d = n => cs = <<>>)
  BY <1>2, PartFacts
<1>7. cs = <<>> \/ Head(cs) # "n"
  <2>1. CASE d = n
    BY <1>6, <2>1
  <2>2. CASE d < n
    <3>1. j < Len(s.ends)
      <4>1. d # Len(s.bytes)
        <5> HIDE DEF d
        <5> QED
          BY <1>1, <2>2
      <4>2. j # Len(s.ends)
        BY <1>1, <4>1
      <4> QED
        BY <1>1, <4>2
    <3>2. s.bytes[d + 1] \in Fields
      BY <3>1, WholeAtEnds
    <3>3. SubSeq(s.bytes, d + 1, n) \in Seq(Range(s.bytes))
          /\ (d < n => SubSeq(s.bytes, d + 1, n) # <<>> /\ Head(SubSeq(s.bytes, d + 1, n)) = s.bytes[d + 1])
      BY <1>2, PartFacts
    <3>4. Head(SubSeq(s.bytes, d + 1, n)) # "n" /\ SubSeq(s.bytes, d + 1, n) # <<>>
      BY <2>2, <3>2, <3>3 DEF Fields
    <3> QED
      BY <3>3, <3>4, HeadOfLossy DEF Part
  <2> QED
    BY <1>2, <2>1, <2>2
<1>8. Range(DoneIn(all)) = ls \cup Range(DoneIn(cs)) /\ EventsIn(all) = es \o EventsIn(cs) /\ Kept(all) = Kept(cs)
  BY <1>5, FollowsKeeps DEF Follows
<1>9. m \in 0 .. Len(s.ends) /\ EndOf(s, m) <= n
  BY CountFacts
<1> HIDE DEF d, cs, all, m, es, ls
<1>10. \A l \in Range(DoneIn(cs)) : IsLine(l)
  BY <1>4, <1>8
<1>11. Waiting(s, n, m, es \o EventsIn(cs), Kept(cs))
  BY <1>4, <1>8, <1>9 DEF Waiting
<1> QED
  BY <1>6, <1>7, <1>10, <1>11 DEF d, cs, m, es

\* An event ends with two line feeds, if with no return.
LEMMA TwoLineFeeds ==
  ASSUME NEW s, WellFormed(s), "r" \notin Range(s.bytes), NEW n \in Range(s.ends)
  PROVE  n \in 2 .. Len(s.bytes) /\ s.bytes[n] = "n" /\ s.bytes[n - 1] = "n"
<1>1. PICK k \in 1 .. Len(s.ends) : n = s.ends[k]
  BY StreamFacts DEF Range
<1>2. n = EndOf(s, k)
  BY <1>1, EndFacts
<1> DEFINE d == EndOf(s, k - 1)
           b == Part(s, d, n)
           o == Part(s, d, n - 1)
<1>3. RestIn(b) = <<>> /\ s.bytes[d + 1] \in Fields /\ s.bytes[n] \in Eol /\ d \in 0 .. Len(s.bytes) /\ n \in 1 .. Len(s.bytes) /\ d < n
  BY <1>2, BlockFacts
<1>4. Len(s.bytes) \in Nat /\ s.bytes[n] \in Range(s.bytes)
  BY <1>3, StreamFacts
<1>5. s.bytes[n] = "n"
  BY <1>3, <1>4 DEF Eol
<1> HIDE DEF d
<1>6. d + 1 # n
  BY <1>3, <1>5 DEF Fields
<1>7. n \in 2 .. Len(s.bytes) /\ d \in 0 .. n - 1 /\ n - 1 \in 1 .. Len(s.bytes) /\ d \in 0 .. (n - 1) - 1 /\ s.bytes[n] \notin {"hi", "lo"} /\ d < n - 1
  BY <1>3, <1>4, <1>5, <1>6
<1>8. b = Append(o, "n") /\ o \in Seq(Alphabet(s))
  <2>1. b = Append(o, s.bytes[n]) /\ o \in Seq(Alphabet(s))
    BY <1>3, <1>7, PartGrows
  <2> QED
    BY <1>5, <2>1
<1>9. s.bytes[n - 1] = "n"
  <2> SUFFICES ASSUME s.bytes[n - 1] # "n" PROVE FALSE
    OBVIOUS
  <2>1. s.bytes[n - 1] \in Range(s.bytes)
    BY <1>7, StreamFacts
  <2>2. s.bytes[n - 1] \notin Eol
    BY <2>1 DEF Eol
  <2>3. LineIn(o) # <<>> /\ ~ Returned(o)
    BY <1>7, <2>2, LastIsLetter
  <2> HIDE DEF o, b
  <2>4. Closes(o, "n") /\ "n" \in Alphabet(s)
    BY <2>3 DEF Closes, Eol, Alphabet
  <2>5. RestIn(b) = Append(RestIn(o), LineIn(o))
    BY <1>8, <2>3, <2>4, ReadingCloses
  <2>6. RestIn(o) \in Seq(Seq(Alphabet(s) \ Eol))
    BY <1>8, ReadingFacts
  <2> QED
    BY <1>3, <2>5, <2>6, AppendIsLonger
<1> QED
  BY <1>5, <1>7, <1>9

(***************************************************************************)
(* The Kotlin client.                                                      *)
(***************************************************************************)
\* It found an event whose last line feed has not come.
Early(s, n, found, left) ==
  /\ n \in 1 .. Len(s.bytes) - 1 /\ n + 1 \in Range(s.ends) /\ "r" \notin Range(s.bytes)
  /\ s.bytes[n] = "n" /\ s.bytes[n + 1] = "n"
  /\ left = <<>> /\ found = EventsIn(Part(s, 0, n + 1))

\* What it makes of a text that is followed by what came before.
LEMMA KotlinParses ==
  ASSUME NEW s, WellFormed(s), NEW n \in 1 .. Len(s.bytes), Whole(s, n),
         \/ LineBegun(s, n)
         \/ n < Len(s.bytes) /\ "r" \notin Range(s.bytes) /\ s.bytes[n] = "n" /\ s.bytes[n + 1] = "n",
         NEW cs \in Seq(Alphabet(s)), NEW es \in Seq(FieldStates(Alphabet(s) \ Eol)), NEW ls,
         Follows(Part(s, 0, n), cs, es, ls)
  PROVE  /\ \/ Caught(s, n, es \o ParseLines(Lines(cs)).events, ParseLines(Lines(cs)).kept)
            \/ Early(s, n, es \o ParseLines(Lines(cs)).events, ParseLines(Lines(cs)).kept)
         /\ ParseLines(Lines(cs)).crashed = FALSE
<1> DEFINE D == Alphabet(s)
           all == Part(s, 0, n)
           result == ParseLines(Lines(cs))
<1>1. "n" \in D
  BY DEF Alphabet
<1>2. n \in 0 .. Len(s.bytes) /\ Len(s.bytes) \in Nat /\ n \in Nat /\ 0 \in 0 .. n /\ n # 0 /\ 0 \in 0 .. n - 1
  BY StreamFacts
<1>3. all \in Seq(D)
  BY <1>2, PartFacts
<1>4. EventsIn(all) = es \o EventsIn(cs) /\ FieldsIn(all) = FieldsIn(cs) /\ RestIn(all) = RestIn(cs) /\ LineIn(all) = LineIn(cs)
      /\ Kept(all) = Kept(cs)
  BY FollowsKeeps DEF Follows
<1> HIDE DEF D
<1>5. /\ LineIn(cs) # <<>> \/ RestIn(cs) = <<>> => result.events = EventsIn(cs) /\ result.kept = Kept(cs)
      /\ LineIn(cs) = <<>> => result.events = Finished(EventsIn(cs), FieldsIn(cs)) /\ result.kept = <<>>
      /\ result.crashed = FALSE
  BY <1>1, KotlinReads DEF D
<1> HIDE DEF result
<1>6. CASE LineBegun(s, n)
  <2>1. Calm(s, n)
    BY <1>6 DEF LineBegun, Calm
  <2>2. LineIn(all) # <<>> \/ RestIn(all) = <<>>
    <3> DEFINE m == Count(s, n)
    <3>1. (n = EndOf(s, m) => RestIn(all) = <<>>) /\ (n # EndOf(s, m) /\ s.bytes[n] \notin Eol => LineIn(all) # <<>>)
      BY <1>2, <2>1, AtPosition
    <3>2. n \in Range(s.ends) => EndOf(s, m) = n
      BY <1>2, CountAtEnds
    <3> QED
      BY <1>2, <1>6, <3>1, <3>2 DEF LineBegun
  <2>3. result.events = EventsIn(cs) /\ result.kept = Kept(cs)
    BY <1>4, <1>5, <2>2
  <2> QED
    BY <1>4, <1>5, <2>3 DEF Caught, result
<1>7. CASE n < Len(s.bytes) /\ "r" \notin Range(s.bytes) /\ s.bytes[n] = "n" /\ s.bytes[n + 1] = "n"
  <2>1. n + 1 \in Range(s.ends) /\ n \in 1 .. Len(s.bytes) - 1 /\ n + 1 \in 1 .. Len(s.bytes) /\ 0 \in 0 .. (n + 1) - 1 /\ (n + 1) - 1 = n
    BY <1>2, <1>7, BeforeLast
  <2>2. "r" \notin D
    BY <1>7 DEF D, Alphabet, Letters
  <2>3. LineIn(all) = <<>> /\ ~ Returned(all)
    <3>1. all = Append(Part(s, 0, n - 1), s.bytes[n]) /\ Part(s, 0, n - 1) \in Seq(D)
      BY <1>2, <1>7, PartGrows DEF D
    <3> DEFINE t == Part(s, 0, n - 1)
    <3> HIDE DEF t, all
    <3>2. all = Append(t, "n") /\ t \in Seq(D)
      BY <1>7, <3>1 DEF t
    <3>3. all[Len(all)] = "n" /\ all # <<>>
      BY <3>2, AppendIsLonger
    <3> QED
      BY <1>3, <2>2, <3>3, LineFeeds
  <2>4. Part(s, 0, n + 1) = Append(all, "n")
    <3>1. s.bytes[n + 1] \notin {"hi", "lo"}
      BY <1>7
    <3>2. Part(s, 0, n + 1) = Append(Part(s, 0, (n + 1) - 1), s.bytes[n + 1])
      BY <2>1, <3>1, PartGrows
    <3> QED
      BY <1>7, <2>1, <3>2
  <2> HIDE DEF all
  <2>5. EventsIn(Append(all, "n")) = Finished(EventsIn(all), FieldsIn(all))
    <3>1. Closes(all, "n")
      BY <2>3 DEF Closes, Eol
    <3> QED
      BY <1>1, <1>3, <2>3, <3>1, ReadingCloses
  <2>6. Finished(es \o EventsIn(cs), FieldsIn(cs)) = es \o Finished(EventsIn(cs), FieldsIn(cs))
    <3>1. EventsIn(cs) \in Seq(FieldStates(D \ Eol)) /\ FieldsIn(cs) \in FieldStates(D \ Eol)
      BY ReadingFacts DEF D
    <3>2. es \in Seq(FieldStates(D \ Eol))
      BY DEF D
    <3> QED
      BY <3>1, <3>2, FinishedBehind
  <2>7. result.events = Finished(EventsIn(cs), FieldsIn(cs)) /\ result.kept = <<>>
    BY <1>4, <1>5, <2>3
  <2>8. es \o result.events = EventsIn(Part(s, 0, n + 1))
    BY <1>4, <2>4, <2>5, <2>6, <2>7
  <2> QED
    BY <1>5, <1>7, <2>1, <2>7, <2>8 DEF Early, result
<1> QED
  BY <1>6, <1>7

\* After an event that was found early, the next chunk begins with its line feed.
LEMMA KotlinGoesOn ==
  ASSUME NEW s, WellFormed(s), NEW n \in 1 .. Len(s.bytes), NEW d \in 0 .. n - 1, NEW found, NEW left, Early(s, d, found, left)
  PROVE  /\ left \o Part(s, d, n) \in Seq(Alphabet(s)) /\ found \in Seq(FieldStates(Alphabet(s) \ Eol))
         /\ \E ls : Follows(Part(s, 0, n), left \o Part(s, d, n), found, ls)
<1> DEFINE D == Alphabet(s)
           e == d + 1
           before == Part(s, 0, d)
           text == Part(s, 0, e)
           more == Part(s, e, n)
           feed == <<"n">>
<1>1. /\ d \in 1 .. Len(s.bytes) - 1 /\ e \in Range(s.ends) /\ "r" \notin Range(s.bytes)
      /\ s.bytes[d] = "n" /\ s.bytes[e] = "n"
      /\ left = <<>> /\ found = EventsIn(text)
  BY DEF Early
<1>2. /\ Len(s.bytes) \in Nat /\ e \in 1 .. Len(s.bytes) /\ e \in 0 .. n /\ n \in 0 .. Len(s.bytes) /\ e - 1 = d /\ d \in 0 .. e
      /\ 0 \in 0 .. e - 1 /\ 0 \in 0 .. d - 1 /\ d \in 0 .. e - 1 /\ d \in 1 .. Len(s.bytes) /\ 0 \in 0 .. e /\ e \in 0 .. Len(s.bytes)
      /\ d \in 0 .. Len(s.bytes) /\ d \in 0 .. d
  BY <1>1, StreamFacts
<1>3. "n" \in D /\ "r" \notin D
  BY <1>1 DEF Alphabet, Letters
<1>4. text \in Seq(D) /\ more \in Seq(D) /\ before \in Seq(D)
  <2>1. 0 \in 0 .. d
    BY <1>2
  <2> QED
    BY <1>2, <2>1, PartFacts
<1>5. text = Append(before, "n")
  <2>1. s.bytes[e] \notin {"hi", "lo"}
    BY <1>1
  <2>2. Part(s, 0, e) = Append(Part(s, 0, e - 1), s.bytes[e])
    BY <1>2, <2>1, PartGrows
  <2> QED
    BY <1>1, <1>2, <2>2
<1>6. s.bytes[e + 1] # "lo" \/ e = n
  <2> SUFFICES ASSUME e # n PROVE s.bytes[e + 1] # "lo"
    OBVIOUS
  <2>1. e + 1 \in 1 .. Len(s.bytes) /\ (e + 1) - 1 = e
    BY <1>2
  <2>2. s.bytes[e + 1] = "lo" => s.bytes[(e + 1) - 1] = "hi"
    BY <2>1, StreamFacts DEF Paired
  <2> QED
    BY <1>1, <2>1, <2>2
<1>7. Part(s, 0, n) = text \o more /\ Part(s, d, n) = Part(s, d, e) \o more
  BY <1>2, <1>6, PartsJoin
<1>8. Part(s, d, e) = feed
  <2>1. s.bytes[e] \notin {"hi", "lo"}
    BY <1>1
  <2>2. Part(s, d, e) = Append(Part(s, d, e - 1), s.bytes[e])
    BY <1>2, <2>1, PartGrows
  <2>3. Part(s, d, d) = <<>>
    BY <1>2, PartFacts
  <2> QED
    BY <1>1, <1>2, <2>2, <2>3
<1>9. Returned(before) = FALSE /\ LineIn(before) = <<>>
  <2>1. before = Append(Part(s, 0, d - 1), s.bytes[d]) /\ Part(s, 0, d - 1) \in Seq(D)
    <3>1. s.bytes[d] \notin {"hi", "lo"}
      BY <1>1
    <3> QED
      BY <1>2, <3>1, PartGrows
  <2> DEFINE t == Part(s, 0, d - 1)
  <2> HIDE DEF t, before, D
  <2>2. before = Append(t, "n") /\ t \in Seq(D)
    BY <1>1, <2>1 DEF t
  <2>3. before[Len(before)] = "n" /\ before # <<>>
    BY <2>2, AppendIsLonger
  <2>4. ~ Returned(before) /\ LineIn(before) = <<>> /\ Returned(before) \in BOOLEAN
    BY <1>3, <1>4, <2>3, LineFeeds, ReadingFacts
  <2> QED
    BY <2>4
<1> HIDE DEF before, text, more, D, e
<1>10. /\ DoneIn(text) = Append(DoneIn(before), <<>>) /\ LineIn(text) = <<>> /\ FieldsIn(text) = Fresh /\ RestIn(text) = <<>>
       /\ DoneIn(before) \in Seq(Seq(D \ Eol)) /\ EventsIn(text) \in Seq(FieldStates(D \ Eol))
  <2>1. Closes(before, "n")
    BY <1>9 DEF Closes, Eol
  <2>2. /\ DoneIn(Append(before, "n")) = Append(DoneIn(before), LineIn(before)) /\ LineIn(Append(before, "n")) = <<>>
        /\ FieldsIn(Append(before, "n")) = Fresh /\ RestIn(Append(before, "n")) = <<>>
    BY <1>3, <1>4, <1>9, <2>1, ReadingCloses
  <2> QED
    BY <1>4, <1>5, <1>9, <2>2, ReadingFacts
<1>11. /\ DoneIn(feed) = Append(<<>>, <<>>) /\ LineIn(feed) = <<>> /\ FieldsIn(feed) = Fresh /\ RestIn(feed) = <<>>
       /\ EventsIn(feed) = <<>> /\ feed \in Seq(D)
  <2>1. <<>> \in Seq(D) /\ feed = Append(<<>>, "n") /\ feed \in Seq(D)
    BY <1>3
  <2>2. Closes(<<>>, "n")
    BY ReadingNothing DEF Closes, Eol
  <2>3. /\ DoneIn(Append(<<>>, "n")) = Append(DoneIn(<<>>), LineIn(<<>>)) /\ LineIn(Append(<<>>, "n")) = <<>>
        /\ FieldsIn(Append(<<>>, "n")) = Fresh /\ RestIn(Append(<<>>, "n")) = <<>>
        /\ EventsIn(Append(<<>>, "n")) = Finished(EventsIn(<<>>), FieldsIn(<<>>))
    <3> DEFINE nothing == <<>>
    <3>1. nothing \in Seq(D) /\ LineIn(nothing) = <<>> /\ Closes(nothing, "n")
      BY <2>1, <2>2, ReadingNothing
    <3> HIDE DEF nothing
    <3>2. /\ DoneIn(Append(nothing, "n")) = Append(DoneIn(nothing), LineIn(nothing)) /\ LineIn(Append(nothing, "n")) = <<>>
          /\ FieldsIn(Append(nothing, "n")) = Fresh /\ RestIn(Append(nothing, "n")) = <<>>
          /\ EventsIn(Append(nothing, "n")) = Finished(EventsIn(nothing), FieldsIn(nothing))
      BY <1>3, <3>1, ReadingCloses
    <3> QED
      BY <3>2 DEF nothing
  <2>4. Finished(<<>>, Fresh) = <<>>
    BY DEF Finished, Fresh
  <2> QED
    BY <2>1, <2>3, <2>4, ReadingNothing
<1>12. Follows(text, feed, found, Range(DoneIn(text)))
  <2>1. Range(Append(DoneIn(before), <<>>)) = Range(DoneIn(before)) \cup {<<>>}
    BY <1>10, RangeOfAppend
  <2>2. Range(Append(<<>>, <<>>)) = {<<>>}
    <3>1. <<>> \in Seq({}) /\ Range(<<>>) = {}
      BY DEF Range
    <3>2. Range(Append(<<>>, <<>>)) = Range(<<>>) \cup {<<>>}
      BY <3>1, RangeOfAppend
    <3> QED
      BY <3>1, <3>2
  <2>3. found \o <<>> = found
    BY <1>1, <1>10
  <2> QED
    BY <1>1, <1>10, <1>11, <2>1, <2>2, <2>3 DEF Follows
<1>13. Alike(text, feed)
  <2>1. ~ Returned(text) /\ ~ Returned(feed)
    BY <1>3, <1>4, <1>11, LineFeeds
  <2> QED
    BY <2>1 DEF Alike
<1> HIDE DEF feed
<1>14. Follows(text \o more, feed \o more, found, Range(DoneIn(text)))
  BY <1>1, <1>4, <1>10, <1>11, <1>12, <1>13, Resume
<1>15. feed \o more \in Seq(D) /\ <<>> \o (feed \o more) = feed \o more
  <2>1. feed \o more \in Seq(D)
    BY <1>4, <1>11, ConcatFacts
  <2> DEFINE both == feed \o more
  <2> HIDE DEF both
  <2>2. <<>> \o both = both
    BY <2>1 DEF both
  <2> QED
    BY <2>1, <2>2 DEF both
<1> QED
  BY <1>1, <1>7, <1>8, <1>10, <1>14, <1>15 DEF D

(***************************************************************************)
(* The inductive invariant.                                                *)
(***************************************************************************)
Received ==
  /\ stream \in Streams /\ read \in 0 .. Len(stream.bytes)
  /\ cuts \subseteq 1 .. read /\ (read = 0 \/ read \in cuts)
\* What each client has found and kept.  Dart and Kotlin have parsed all they
\* decoded, but Kotlin may be one line feed ahead; Rust waits, and has parsed all
\* when a chunk ended with an event; Swift has parsed all.
AsSent ==
  /\ crashed = FALSE
  /\ parser = "dart" => undecoded = Held(stream, read) /\ Caught(stream, Pos(stream, read), events, kept)
  /\ parser = "kotlin" => Caught(stream, read, events, kept) \/ Early(stream, read, events, kept)
  /\ parser = "rust" => \E j \in 0 .. Len(stream.ends) :
                           Waiting(stream, read, j, events, kept) /\ (Prompt => EndOf(stream, j) = read)
  /\ parser \notin {"dart", "kotlin", "rust"} => Waiting(stream, read, Count(stream, read), events, kept)
ParserInv == Received /\ (Safe => AsSent)

(***************************************************************************)
(* Where a safe stream is cut.                                             *)
(***************************************************************************)
LEMMA NotBetween ==
  ASSUME WellFormed(stream), NEW p \in 1 .. Len(stream.bytes), ~ Between(p)
  PROVE  LineBegun(stream, p) \/ BeforeEmpty(p)
<1>1. CASE stream.bytes[p] \notin Eol
  BY <1>1 DEF LineBegun
<1>2. CASE p = Len(stream.bytes)
  <2>1. Len(stream.bytes) > 0
    BY <1>2, StreamFacts
  <2> QED
    BY <1>2, <2>1, LastIsEnd DEF LineBegun
<1>3. CASE p < Len(stream.bytes) /\ stream.bytes[p] \in Eol
  BY <1>3 DEF Between, BeforeEmpty, LineEnd, Eol, LineBegun
<1>4. p = Len(stream.bytes) \/ p < Len(stream.bytes)
  BY StreamFacts
<1> QED
  BY <1>1, <1>2, <1>3, <1>4

\* No stream begins within a character.
LEMMA WholeStart == ASSUME NEW s, WellFormed(s) PROVE Whole(s, 0)
<1>1. 0 \in 0 .. Len(s.ends) /\ EndOf(s, 0) = 0
  BY StreamFacts, EndFacts
<1> QED
  BY <1>1, WholeAtEnds

\* A position outside the characters.
LEMMA NotInCharacter ==
  ASSUME WellFormed(stream), NEW p \in 0 .. Len(stream.bytes), ~ InCharacter(p)
  PROVE  Whole(stream, p)
<1>1. p = Len(stream.bytes) \/ p < Len(stream.bytes)
  BY StreamFacts
<1> QED
  BY <1>1 DEF Whole, InCharacter

\* Where Kotlin's chunks end.
KotlinCut(s, p) ==
  \/ LineBegun(s, p)
  \/ p < Len(s.bytes) /\ "r" \notin Range(s.bytes) /\ s.bytes[p] = "n" /\ s.bytes[p + 1] = "n"

\* There the Kotlin client may be.
LEMMA KotlinCuts ==
  ASSUME WellFormed(stream), NEW p \in 1 .. Len(stream.bytes), ~ Between(p), ~ InCharacter(p), ~ (HasReturns /\ BeforeEmpty(p))
  PROVE  Whole(stream, p) /\ KotlinCut(stream, p) /\ Calm(stream, p)
<1>1. Whole(stream, p)
  <2>1. p \in 0 .. Len(stream.bytes)
    BY StreamFacts
  <2> QED
    BY <2>1, NotInCharacter
<1>2. CASE LineBegun(stream, p)
  BY <1>1, <1>2 DEF KotlinCut, LineBegun, Calm
<1>3. CASE BeforeEmpty(p)
  <2>1. "r" \notin Range(stream.bytes)
    BY <1>3 DEF HasReturns
  <2>2. /\ stream.bytes[p] \in {"n", "r"} /\ p < Len(stream.bytes) /\ stream.bytes[p + 1] \in {"n", "r"}
    BY <1>3 DEF BeforeEmpty, LineEnd
  <2>3. p + 1 \in 1 .. Len(stream.bytes)
    BY <2>2, StreamFacts
  <2>4. stream.bytes[p] \in Range(stream.bytes) /\ stream.bytes[p + 1] \in Range(stream.bytes)
    BY <2>3, StreamFacts
  <2> QED
    BY <1>1, <2>1, <2>2, <2>4 DEF KotlinCut, Calm
<1> QED
  BY <1>2, <1>3, NotBetween

(***************************************************************************)
(* A chunk arrives.                                                        *)
(***************************************************************************)
Arrives(n) == Received /\ WellFormed(stream) /\ n \in read + 1 .. Len(stream.bytes) /\ Receive(n)

\* What a chunk that arrives leaves of the invariant to be shown.
LEMMA Arrival ==
  ASSUME NEW n, Arrives(n)
  PROVE  /\ n \in 1 .. Len(stream.bytes) /\ n \in 0 .. Len(stream.bytes) /\ read \in 0 .. n - 1 /\ read \in 0 .. n
         /\ read \in 0 .. Len(stream.bytes) /\ (read = 0 \/ read \in cuts') /\ n \in cuts'
         /\ read' = n /\ stream' = stream /\ parser' = parser /\ cuts' = cuts \cup {n}
         /\ \A p \in cuts' : p \in 1 .. Len(stream.bytes)
         /\ WellFormed(stream) /\ Received'
<1>1. read' = n /\ stream' = stream /\ parser' = parser /\ cuts' = cuts \cup {n} /\ WellFormed(stream)
  BY DEF Arrives, Receive
<1>2. Len(stream.bytes) \in Nat
  BY <1>1, StreamFacts
<1>3. stream \in Streams /\ read \in 0 .. Len(stream.bytes) /\ cuts \subseteq 1 .. read /\ (read = 0 \/ read \in cuts)
      /\ n \in read + 1 .. Len(stream.bytes)
  BY DEF Arrives, Received
<1>4. n \in 1 .. Len(stream.bytes) /\ n \in 0 .. Len(stream.bytes) /\ read \in 0 .. n - 1 /\ read \in 0 .. n
  BY <1>2, <1>3
<1>5. cuts' \subseteq 1 .. n
  BY <1>1, <1>2, <1>3
<1>6. \A p \in cuts' : p \in 1 .. Len(stream.bytes)
  BY <1>2, <1>4, <1>5
<1>7. Received'
  BY <1>1, <1>3, <1>4, <1>5 DEF Received
<1> QED
  BY <1>1, <1>3, <1>4, <1>6, <1>7

\* A stream that is safe now was safe before.
LEMMA SafeBefore ==
  ASSUME NEW n, Arrives(n), Safe'
  PROVE  Safe
<1>1. stream' = stream /\ parser' = parser /\ cuts \subseteq cuts'
  BY Arrival
<1> QED
  BY <1>1 DEF Safe, Between, BeforeEmpty, InCharacter, LineEnd, HasReturns, MultiByte

\* A chunk for the Dart client, ...
LEMMA DartFeeds ==
  ASSUME NEW n, Arrives(n), AsSent, Safe', DartFeed(n)
  PROVE  AsSent'
<1> DEFINE s == stream
           d == Pos(s, read)
           e == Pos(s, n)
           bytes == Held(s, read) \o SubSeq(s.bytes, read + 1, n)
           cs == kept \o Part(s, d, e)
           result == ParseLines(DartLines(cs))
           D == Alphabet(s)
<1>1. n \in 1 .. Len(s.bytes) /\ n \in 0 .. Len(s.bytes) /\ read \in 0 .. n - 1 /\ read \in 0 .. Len(s.bytes) /\ (read = 0 \/ read \in cuts')
      /\ n \in cuts' /\ read' = n /\ stream' = s /\ parser' = parser /\ WellFormed(s) /\ \A p \in cuts' : p \in 1 .. Len(s.bytes)
  BY Arrival
<1>2. parser = "dart"
  BY DEF DartFeed
<1>3. \A p \in cuts' : ~ Between(p) /\ ~ BeforeEmpty(p)
  BY <1>1, <1>2 DEF Safe, Between, BeforeEmpty, LineEnd
<1>4. \A p \in cuts' : LineBegun(s, p)
  BY <1>1, <1>3, NotBetween
<1>5. LineBegun(s, read) /\ LineBegun(s, n)
  BY <1>1, <1>4 DEF LineBegun
<1>6. undecoded = Held(s, read) /\ Caught(s, d, events, kept)
  BY <1>2 DEF AsSent
<1>7. d \in 0 .. read /\ Whole(s, d) /\ Calm(s, d) /\ e \in 0 .. n /\ Whole(s, e) /\ Calm(s, e) /\ LineBegun(s, e)
  BY <1>1, <1>5, DartPosition
<1>8. /\ Held(s, n) = (IF Last(bytes) = "hi" THEN <<"hi">> ELSE <<>>)
      /\ Lossy(SubSeq(bytes, 1, Len(bytes) - Len(Held(s, n)))) = Part(s, d, e)
      /\ d \in 0 .. e
  BY <1>1, <1>5, DartText
<1>9. undecoded' = Held(s, n) /\ events' = events \o result.events /\ kept' = result.kept /\ crashed' = result.crashed
  <2>1. bytes = undecoded \o Chunk(n)
    BY <1>6 DEF Chunk
  <2> HIDE DEF bytes
  <2> QED
    BY <1>8, <2>1 DEF DartFeed, Found, Chunk
<1>10. e \in 0 .. Len(s.bytes)
  <2> HIDE DEF e
  <2> QED
    BY <1>1, <1>7, StreamFacts
<1>11. /\ cs \in Seq(D) /\ events \in Seq(FieldStates(D \ Eol))
       /\ Follows(Part(s, 0, e), cs, events, Range(DoneIn(Part(s, 0, d))))
       /\ Kept(Part(s, 0, e)) = Kept(cs)
  BY <1>1, <1>6, <1>7, <1>8, <1>10, ReadOn DEF Caught
<1>12. LineIn(Part(s, 0, e)) # <<>> \/ RestIn(Part(s, 0, e)) = <<>>
  <2> DEFINE m == Count(s, e)
             all == Part(s, 0, e)
  <2>1. (e = EndOf(s, m) => RestIn(all) = <<>>) /\ (e # EndOf(s, m) /\ s.bytes[e] \notin Eol => LineIn(all) # <<>>)
    BY <1>1, <1>7, <1>10, AtPosition
  <2>2. e = 0 \/ e \in Range(s.ends) => EndOf(s, m) = e
    BY <1>1, <1>10, CountAtEnds
  <2> HIDE DEF e, m, all
  <2>3. LineIn(all) # <<>> \/ RestIn(all) = <<>>
    BY <1>7, <2>1, <2>2 DEF LineBegun
  <2> QED
    BY <2>3 DEF all
<1> DEFINE all == Part(s, 0, e)
<1> HIDE DEF cs, all, D
<1>13. EventsIn(all) = events \o EventsIn(cs) /\ RestIn(all) = RestIn(cs) /\ LineIn(all) = LineIn(cs) /\ Kept(all) = Kept(cs)
  BY <1>11 DEF Follows, all
<1>14. result.events = EventsIn(cs) /\ result.kept = Kept(cs) /\ result.crashed = FALSE
  <2>1. "n" \in D
    BY DEF D, Alphabet
  <2>2. LineIn(cs) # <<>> \/ RestIn(cs) = <<>>
    BY <1>12, <1>13 DEF all
  <2> QED
    BY <1>11, <2>1, <2>2, DartReads
<1>15. Caught(s, e, events', kept')
  BY <1>9, <1>13, <1>14 DEF Caught, all
<1> QED
  BY <1>1, <1>2, <1>9, <1>14, <1>15 DEF AsSent

\* ... for the Kotlin client, ...
LEMMA KotlinFeeds ==
  ASSUME NEW n, Arrives(n), AsSent, Safe', KotlinFeed(n)
  PROVE  AsSent'
<1> DEFINE s == stream
           cs == kept \o Part(s, read, n)
           result == ParseLines(Lines(cs))
           D == Alphabet(s)
<1>1. n \in 1 .. Len(s.bytes) /\ n \in 0 .. Len(s.bytes) /\ read \in 0 .. n - 1 /\ read \in 0 .. Len(s.bytes) /\ (read = 0 \/ read \in cuts')
      /\ n \in cuts' /\ read' = n /\ stream' = s /\ parser' = parser /\ WellFormed(s) /\ (\A p \in cuts' : p \in 1 .. Len(s.bytes))
      /\ read \in 0 .. n
  BY Arrival
<1>2. parser = "kotlin"
  BY DEF KotlinFeed
<1>3. \A p \in cuts' : ~ Between(p) /\ ~ InCharacter(p) /\ ~ (HasReturns /\ BeforeEmpty(p))
  BY <1>1, <1>2 DEF Safe, Between, BeforeEmpty, LineEnd, InCharacter, HasReturns
<1>4. \A p \in cuts' : Whole(s, p) /\ KotlinCut(s, p) /\ Calm(s, p)
  BY <1>1, <1>3, KotlinCuts
<1>5. Whole(s, read) /\ Calm(s, read) /\ Whole(s, n) /\ KotlinCut(s, n)
  BY <1>1, <1>4, WholeStart DEF Calm
<1>6. Replaced(SubSeq(s.bytes, read + 1, n)) = Part(s, read, n)
  BY <1>1, <1>5, ChunkText
<1>7. events' = events \o result.events /\ kept' = result.kept /\ crashed' = result.crashed
  BY <1>6 DEF KotlinFeed, Found, Chunk
<1>8. \E ls : Follows(Part(s, 0, n), cs, events, ls) /\ cs \in Seq(D) /\ events \in Seq(FieldStates(D \ Eol))
  <2>1. CASE Caught(s, read, events, kept)
    <3>1. /\ cs \in Seq(D) /\ events \in Seq(FieldStates(D \ Eol))
          /\ Follows(Part(s, 0, n), cs, events, Range(DoneIn(Part(s, 0, read))))
      BY <1>1, <1>5, <2>1, ReadOn DEF Caught
    <3> QED
      BY <3>1
  <2>2. CASE Early(s, read, events, kept)
    BY <1>1, <2>2, KotlinGoesOn
  <2> QED
    BY <1>2, <2>1, <2>2 DEF AsSent
<1> HIDE DEF cs, D
<1>9. PICK ls : Follows(Part(s, 0, n), cs, events, ls) /\ cs \in Seq(D) /\ events \in Seq(FieldStates(D \ Eol))
  BY <1>8
<1>10. (Caught(s, n, events \o result.events, result.kept) \/ Early(s, n, events \o result.events, result.kept)) /\ result.crashed = FALSE
  BY <1>1, <1>5, <1>9, KotlinParses DEF KotlinCut, D
<1> QED
  BY <1>1, <1>2, <1>7, <1>10 DEF AsSent

\* What waits grows with the chunks.
LEMMA WaitingGrows ==
  ASSUME NEW s, WellFormed(s), NEW n \in 1 .. Len(s.bytes), NEW m \in 0 .. n - 1, Whole(s, m),
         NEW j, NEW found, NEW left, Waiting(s, m, j, found, left)
  PROVE  Waiting(s, n, j, found, left \o Part(s, m, n)) /\ EndOf(s, j) <= n /\ j \in 0 .. Len(s.ends)
<1> DEFINE d == EndOf(s, j)
<1>1. j \in 0 .. Len(s.ends) /\ d <= m /\ left = Part(s, d, m) /\ found = SubSeq(s.events, 1, j)
  BY DEF Waiting
<1>2. d \in 0 .. Len(s.bytes) /\ Len(s.bytes) \in Nat
  BY <1>1, EndFacts, StreamFacts
<1> HIDE DEF d
<1>3. d \in 0 .. m /\ m \in 0 .. n /\ n \in 0 .. Len(s.bytes) /\ d <= n /\ m # Len(s.bytes)
  BY <1>1, <1>2
<1>4. Part(s, d, n) = Part(s, d, m) \o Part(s, m, n)
  <2>1. s.bytes[m + 1] # "lo"
    BY <1>3 DEF Whole
  <2> QED
    BY <1>3, <2>1, PartsJoin
<1> QED
  BY <1>1, <1>3, <1>4 DEF Waiting, d

\* ... for the Swift client ...
LEMMA SwiftFeeds ==
  ASSUME NEW n, Arrives(n), AsSent, Safe', SwiftFeed(n)
  PROVE  AsSent'
<1> DEFINE s == stream
           m == Count(s, read)
           d == EndOf(s, m)
           cs == Part(s, d, n)
           result == SwiftParse(cs)
           D == Alphabet(s)
<1>1. n \in 1 .. Len(s.bytes) /\ n \in 0 .. Len(s.bytes) /\ read \in 0 .. n - 1 /\ read \in 0 .. Len(s.bytes) /\ (read = 0 \/ read \in cuts')
      /\ n \in cuts' /\ read' = n /\ stream' = s /\ parser' = parser /\ WellFormed(s) /\ (\A p \in cuts' : p \in 1 .. Len(s.bytes))
      /\ read \in 0 .. n
  BY Arrival
<1>2. parser = "swift"
  BY DEF SwiftFeed
<1>3. "r" \notin Range(s.bytes) /\ \A p \in cuts' : ~ InCharacter(p)
  BY <1>1, <1>2 DEF Safe, InCharacter, HasReturns
<1>4. \A p \in cuts' : Whole(s, p)
  <2>1. \A p \in cuts' : p \in 0 .. Len(s.bytes)
    BY <1>1, StreamFacts
  <2> QED
    BY <1>1, <1>3, <2>1, NotInCharacter
<1>5. Whole(s, read) /\ Whole(s, n)
  BY <1>1, <1>4, WholeStart
<1>6. Replaced(SubSeq(s.bytes, read + 1, n)) = Part(s, read, n)
  BY <1>1, <1>5, ChunkText
<1>7. Waiting(s, read, m, events, kept)
  BY <1>2 DEF AsSent
<1>8. d <= n /\ m \in 0 .. Len(s.ends) /\ kept \o Part(s, read, n) = cs /\ events = SubSeq(s.events, 1, m)
  <2>1. Waiting(s, n, m, events, kept \o Part(s, read, n))
    BY <1>1, <1>5, <1>7, WaitingGrows
  <2>2. EndOf(s, m) <= n /\ m \in 0 .. Len(s.ends)
    BY <1>1, <1>5, <1>7, WaitingGrows
  <2>3. kept \o Part(s, read, n) = Part(s, EndOf(s, m), n)
    BY <2>1 DEF Waiting
  <2>4. events = SubSeq(s.events, 1, m)
    BY <2>1 DEF Waiting
  <2> QED
    BY <2>2, <2>3, <2>4
<1>9. events' = events \o result.events /\ kept' = result.kept /\ crashed' = result.crashed
  BY <1>6, <1>8 DEF SwiftFeed, Found, Chunk
<1>10. /\ cs \in Seq(D) /\ (cs = <<>> \/ Head(cs) # "n") /\ (\A l \in Range(DoneIn(cs)) : IsLine(l))
       /\ Waiting(s, n, Count(s, n), events \o EventsIn(cs), Kept(cs))
  BY <1>1, <1>3, <1>5, <1>8, ScanReads
<1>11. result.events = EventsIn(cs) /\ result.kept = Kept(cs) /\ result.crashed = FALSE
  <2>1. "n" \in D /\ D \cap {"r", "rn"} = {}
    <3>1. "rn" \notin D
      BY <1>1, StreamFacts
    <3> QED
      BY <1>3, <3>1 DEF Alphabet, Letters
  <2> HIDE DEF cs, D
  <2> QED
    BY <1>10, <2>1, SwiftReads
<1>12. Waiting(s, n, Count(s, n), events', kept')
  BY <1>9, <1>10, <1>11
<1> QED
  BY <1>1, <1>2, <1>9, <1>11, <1>12 DEF AsSent

\* A text with no long character is its bytes.
LEMMA PlainPart ==
  ASSUME NEW s, WellFormed(s), "hi" \notin Range(s.bytes), NEW n \in 0 .. Len(s.bytes), NEW a \in 0 .. n
  PROVE  Part(s, a, n) = SubSeq(s.bytes, a + 1, n) /\ Part(s, a, n) \in Seq(Range(s.bytes)) /\ "lo" \notin Range(s.bytes)
<1> DEFINE C == Range(s.bytes)
           part == SubSeq(s.bytes, a + 1, n)
<1>1. part \in Seq(C)
  BY PartFacts
<1>2. "lo" \notin C
  <2> SUFFICES ASSUME "lo" \in C PROVE FALSE
    OBVIOUS
  <2>1. s.bytes \in Seq(C)
    BY StreamFacts
  <2>2. PICK p \in 1 .. Len(s.bytes) : s.bytes[p] = "lo"
    BY <2>1 DEF Range
  <2>3. p > 1 /\ s.bytes[p - 1] = "hi"
    BY <2>2, StreamFacts DEF Paired
  <2>4. p - 1 \in 1 .. Len(s.bytes)
    BY <2>3, StreamFacts
  <2>5. s.bytes[p - 1] \in C
    BY <2>4, StreamFacts
  <2> QED
    BY <2>3, <2>5
<1> HIDE DEF part, C
<1>3. Lossy(part) = part
  <2>1. "hi" \notin C
    BY DEF C
  <2> QED
    BY <1>1, <1>2, <2>1, LossyOfPlain
<1> QED
  BY <1>1, <1>2, <1>3 DEF Part, part, C

\* A text that ends with two line feeds.
LEMMA EndsWithTwo ==
  ASSUME NEW C, NEW cs \in Seq(C), Len(cs) >= 2, cs[Len(cs)] = "n", cs[Len(cs) - 1] = "n"
  PROVE  IsSuffix(<<"n", "n">>, cs)
<1> DEFINE l == Len(cs)
           two == <<"n", "n">>
           back == Reverse(cs)
           twoBack == Reverse(two)
<1>1. l \in Nat /\ l >= 2
  OBVIOUS
<1>2. back = [i \in 1 .. l |-> cs[(l - i) + 1]]
  BY DEF Reverse
<1>3. two \in Seq({"n"}) /\ Len(two) = 2 /\ two[1] = "n" /\ two[2] = "n"
  OBVIOUS
<1> HIDE DEF two
<1>4. twoBack = [i \in 1 .. 2 |-> two[(2 - i) + 1]]
  BY <1>3 DEF Reverse
<1>5. \A i \in 1 .. l : (l - i) + 1 \in 1 .. l
  BY <1>1
<1>6. back \in Seq(C) /\ Len(back) = l /\ back[1] = "n" /\ back[2] = "n"
  <2>1. \A i \in 1 .. l : cs[(l - i) + 1] \in C
    BY <1>5
  <2>2. back \in Seq(C) /\ Len(back) = l
    BY <1>1, <1>2, <2>1
  <2>3. 1 \in 1 .. l /\ 2 \in 1 .. l /\ (l - 1) + 1 = l /\ (l - 2) + 1 = l - 1
    BY <1>1
  <2> QED
    BY <1>2, <2>2, <2>3
<1>7. twoBack \in Seq({"n"}) /\ Len(twoBack) = 2 /\ twoBack[1] = "n" /\ twoBack[2] = "n"
  BY <1>3, <1>4
<1> HIDE DEF back, twoBack
<1>8. SubSeq(twoBack, 1, 2) = SubSeq(back, 1, 2)
  <2> DEFINE a == SubSeq(twoBack, 1, 2)
             b == SubSeq(back, 1, 2)
  <2>1. a \in Seq({"n"} \cup C) /\ Len(a) = 2 /\ a[1] = "n" /\ a[2] = "n"
    BY <1>7
  <2>2. b \in Seq({"n"} \cup C) /\ Len(b) = 2 /\ b[1] = "n" /\ b[2] = "n"
    BY <1>1, <1>6
  <2> HIDE DEF a, b
  <2>3. \A i \in 1 .. Len(a) : a[i] = b[i]
    BY <2>1, <2>2
  <2>4. a = b
    BY <2>1, <2>2, <2>3, SameSeq
  <2> QED
    BY <2>4 DEF a, b
<1> QED
  BY <1>1, <1>6, <1>7, <1>8 DEF IsSuffix, IsPrefix, back, twoBack, two

\* ... and for the Rust client.
LEMMA RustFeeds ==
  ASSUME NEW n, Arrives(n), AsSent, Safe', RustFeed(n)
  PROVE  AsSent'
<1> DEFINE s == stream
           chunk == SubSeq(s.bytes, read + 1, n)
           C == Range(s.bytes)
<1>1. n \in 1 .. Len(s.bytes) /\ n \in 0 .. Len(s.bytes) /\ read \in 0 .. n - 1 /\ read \in 0 .. Len(s.bytes) /\ (read = 0 \/ read \in cuts')
      /\ n \in cuts' /\ read' = n /\ stream' = s /\ parser' = parser /\ WellFormed(s) /\ (\A p \in cuts' : p \in 1 .. Len(s.bytes))
      /\ read \in 0 .. n
  BY Arrival
<1>2. parser = "rust"
  BY DEF RustFeed
<1>3. "r" \notin C /\ "hi" \notin C
  BY <1>1, <1>2 DEF Safe, HasReturns, MultiByte
<1>4. "lo" \notin C /\ Part(s, read, n) = chunk /\ Lossy(chunk) = chunk
  <2>1. Part(s, read, n) = chunk /\ "lo" \notin C
    BY <1>1, <1>3, PlainPart
  <2> QED
    BY <2>1 DEF Part
<1>5. \A p \in 0 .. Len(s.bytes) : Whole(s, p)
  <2>1. Len(s.bytes) \in Nat
    BY <1>1, StreamFacts
  <2>2. \A p \in 0 .. Len(s.bytes) : p = Len(s.bytes) \/ p + 1 \in 1 .. Len(s.bytes)
    BY <2>1
  <2>3. \A p \in 1 .. Len(s.bytes) : s.bytes[p] # "lo"
    BY <1>1, <1>4, StreamFacts
  <2> QED
    BY <2>2, <2>3 DEF Whole
<1>6. Utf8(chunk)
  <2>1. Replaced(chunk) = chunk
    BY <1>1, <1>4, <1>5, ChunkText
  <2>2. chunk \in Seq(C) /\ C \cap Letters = {}
    BY <1>1, PartFacts, StreamFacts
  <2> HIDE DEF chunk, C
  <2>3. \A i \in DOMAIN chunk : chunk[i] # "bad"
    BY <2>2 DEF Letters
  <2> QED
    BY <2>1, <2>3 DEF Utf8
<1>7. PICK j \in 0 .. Len(s.ends) : Waiting(s, read, j, events, kept)
  BY <1>2 DEF AsSent
<1> DEFINE cs == Part(s, EndOf(s, j), n)
<1>8. /\ Waiting(s, n, j, events, cs) /\ EndOf(s, j) <= n
      /\ kept \o chunk = cs /\ events = SubSeq(s.events, 1, j)
  <2>1. /\ Waiting(s, n, j, events, kept \o Part(s, read, n)) /\ EndOf(s, j) <= n
        /\ kept \o Part(s, read, n) = cs /\ events = SubSeq(s.events, 1, j)
    <3>1. Whole(s, read)
      BY <1>1, <1>5
    <3> QED
      <4>1. Waiting(s, n, j, events, kept \o Part(s, read, n)) /\ EndOf(s, j) <= n
        BY <1>1, <1>7, <3>1, WaitingGrows
      <4> QED
        BY <4>1 DEF Waiting
  <2> QED
    BY <1>4, <2>1
<1>9. CASE ~ IsSuffix(<<"n", "n">>, chunk)
  <2>1. kept' = cs /\ events' = events /\ crashed' = crashed
    BY <1>4, <1>6, <1>8, <1>9 DEF RustFeed, Chunk
  <2>2. ~ Prompt'
    <3> SUFFICES ASSUME Prompt' PROVE FALSE
      OBVIOUS
    <3>1. n \in Range(s.ends) /\ n - 1 \notin cuts'
      BY <1>1, <1>2 DEF Prompt
    <3>2. n \in 2 .. Len(s.bytes) /\ s.bytes[n] = "n" /\ s.bytes[n - 1] = "n"
      BY <1>1, <1>3, <3>1, TwoLineFeeds
    <3>3. read + 2 <= n /\ read \in Nat /\ n \in Nat
      BY <1>1, <3>1, <3>2, StreamFacts
    <3>4. chunk \in Seq(C) /\ Len(chunk) = n - read /\ \A i \in 1 .. n - read : chunk[i] = s.bytes[read + i]
      BY <1>1, PartFacts
    <3> HIDE DEF chunk, C
    <3>5. n - read \in 1 .. n - read /\ (n - read) - 1 \in 1 .. n - read /\ read + (n - read) = n /\ read + ((n - read) - 1) = n - 1 /\ n - read >= 2
      BY <3>3
    <3>6. chunk[n - read] = "n" /\ chunk[(n - read) - 1] = "n"
      BY <3>2, <3>4, <3>5
    <3>7. IsSuffix(<<"n", "n">>, chunk)
      BY <3>4, <3>5, <3>6, EndsWithTwo
    <3> QED
      BY <1>9, <3>7
  <2>3. crashed' = FALSE
    BY <2>1 DEF AsSent
  <2> QED
    BY <1>1, <1>2, <1>8, <2>1, <2>2, <2>3 DEF AsSent
<1>10. CASE IsSuffix(<<"n", "n">>, chunk)
  <2> DEFINE result == RustParse(cs)
             m == Count(s, n)
  <2>1. events' = events \o result.events /\ kept' = result.kept /\ crashed' = result.crashed
    BY <1>4, <1>6, <1>8, <1>10 DEF RustFeed, Chunk, Found
  <2>2. /\ (cs = <<>> \/ Head(cs) # "n") /\ (\A l \in Range(DoneIn(cs)) : IsLine(l))
        /\ Waiting(s, n, m, events \o EventsIn(cs), Kept(cs))
    BY <1>1, <1>3, <1>5, <1>8, ScanReads
  <2>3. cs \in Seq(C \cup {"n"})
    <3>1. EndOf(s, j) \in 0 .. n
      <4>1. EndOf(s, j) \in 0 .. Len(s.bytes)
        BY <1>1, EndFacts
      <4> QED
        BY <1>1, <1>8, <4>1, StreamFacts
    <3>2. cs \in Seq(C)
      BY <1>1, <1>3, <3>1, PlainPart
    <3> HIDE DEF cs, C
    <3> QED
      BY <3>2
  <2>4. "n" \in C \cup {"n"} /\ (C \cup {"n"}) \cap {"r", "hi", "lo", "char"} = {}
    <3>1. C \cap Letters = {}
      BY <1>1, StreamFacts
    <3> QED
      BY <1>3, <1>4, <3>1 DEF Letters
  <2> DEFINE D == C \cup {"n"}
  <2> HIDE DEF D, cs
  <2>5. result.events = EventsIn(cs) /\ result.kept = Kept(cs) /\ result.crashed = FALSE
    <3>1. cs \in Seq(D) /\ "n" \in D /\ D \cap {"r", "hi", "lo", "char"} = {}
      BY <2>3, <2>4 DEF D
    <3> QED
      BY <2>2, <3>1, RustReads
  <2>6. Waiting(s, n, m, events', kept')
    BY <2>1, <2>2, <2>5
  <2>7. Prompt' => EndOf(s, m) = n
    <3> SUFFICES ASSUME Prompt' PROVE EndOf(s, m) = n
      OBVIOUS
    <3>1. n \in Range(s.ends)
      BY <1>1, <1>2 DEF Prompt
    <3> QED
      BY <1>1, <3>1, CountAtEnds
  <2>8. m \in 0 .. Len(s.ends)
    BY <1>1, CountFacts
  <2> QED
    BY <1>1, <1>2, <2>1, <2>5, <2>6, <2>7, <2>8 DEF AsSent
<1> QED
  BY <1>9, <1>10

(***************************************************************************)
(* What the invariant says of the events.                                  *)
(***************************************************************************)
LEMMA EventsInOrder ==
  ASSUME NEW s, WellFormed(s), NEW j \in 0 .. Len(s.ends), NEW m \in 0 .. j, NEW found, found = SubSeq(s.events, 1, j)
  PROVE  IsPrefix(found, s.events) /\ IsPrefix(SubSeq(s.events, 1, m), found)
<1> DEFINE E == Range(s.events)
           evs == s.events
           due == SubSeq(evs, 1, m)
<1>1. evs \in Seq(E) /\ Len(evs) = Len(s.ends) /\ Len(s.ends) \in Nat
  BY StreamFacts
<1> HIDE DEF evs, E
<1>2. j \in 0 .. Len(evs) /\ m \in 0 .. Len(evs) /\ m <= j /\ j \in Nat /\ m \in Nat /\ Len(evs) \in Nat
  BY <1>1
<1>3. found \in Seq(E) /\ Len(found) = j /\ \A i \in 1 .. j : found[i] = evs[i]
  <2>1. SubSeq(evs, 1, j) \in Seq(E) /\ Len(SubSeq(evs, 1, j)) = j /\ \A i \in 1 .. j : SubSeq(evs, 1, j)[i] = evs[i]
    BY <1>1, <1>2
  <2> QED
    BY <2>1 DEF evs
<1>4. due \in Seq(E) /\ Len(due) = m /\ \A i \in 1 .. m : due[i] = evs[i]
  BY <1>1, <1>2
<1> HIDE DEF due
<1>5. IsPrefix(found, evs)
  <2>1. SubSeq(found, 1, j) = found
    BY <1>2, <1>3
  <2> QED
    BY <1>2, <1>3, <2>1 DEF IsPrefix, evs
<1>6. IsPrefix(due, found)
  <2> DEFINE a == SubSeq(due, 1, m)
             b == SubSeq(found, 1, m)
  <2>1. a \in Seq(E) /\ Len(a) = m /\ \A i \in 1 .. m : a[i] = due[i]
    BY <1>2, <1>4
  <2>2. b \in Seq(E) /\ Len(b) = m /\ \A i \in 1 .. m : b[i] = found[i]
    BY <1>2, <1>3
  <2> HIDE DEF a, b
  <2>3. \A i \in 1 .. Len(a) : a[i] = b[i]
    <3>1. \A i \in 1 .. m : i \in 1 .. j
      BY <1>2
    <3> QED
      BY <1>3, <1>4, <2>1, <2>2, <3>1
  <2>4. a = b
    BY <2>1, <2>2, <2>3, SameSeq
  <2> QED
    BY <1>2, <1>3, <1>4, <2>4 DEF IsPrefix, a, b
<1> QED
  BY <1>5, <1>6 DEF due, evs

\* Where all was parsed, up to a position that the bytes read have reached or
\* that is one line feed further.
LEMMA CaughtIsSent ==
  ASSUME NEW s, WellFormed(s), NEW d \in 0 .. Len(s.bytes), Whole(s, d), Calm(s, d), NEW found, NEW left, Caught(s, d, found, left)
  PROVE  found = SubSeq(s.events, 1, Count(s, d)) /\ Len(left) <= d - EndOf(s, Count(s, d)) /\ Len(left) \in Nat
<1> DEFINE text == Part(s, 0, d)
<1>1. found = EventsIn(text) /\ left = Kept(text)
  BY DEF Caught
<1>2. EventsIn(text) = SubSeq(s.events, 1, Count(s, d)) /\ Len(Kept(text)) <= d - EndOf(s, Count(s, d))
  BY AtPosition
<1>3. Len(Kept(text)) \in Nat
  <2>1. text \in Seq(Alphabet(s)) /\ "n" \in Alphabet(s)
    <3>1. 0 \in 0 .. d
      BY StreamFacts
    <3> QED
      BY <3>1, PartFacts DEF Alphabet
  <2> HIDE DEF text
  <2>2. Kept(text) \in Seq(Alphabet(s))
    BY <2>1, KeptStep
  <2> QED
    BY <2>2
<1> QED
  BY <1>1, <1>2, <1>3

\* No fewer events have ended further on.
LEMMA CountGrows ==
  ASSUME NEW s, WellFormed(s), NEW n \in 0 .. Len(s.bytes), NEW m \in 0 .. n
  PROVE  Count(s, m) <= Count(s, n) /\ EndOf(s, Count(s, m)) <= EndOf(s, Count(s, n))
<1> DEFINE k == Count(s, m)
           l == Count(s, n)
<1>1. n \in Nat /\ m \in Nat /\ m \in 0 .. Len(s.bytes) /\ m <= n
  BY StreamFacts
<1>2. k \in 0 .. Len(s.ends) /\ EndOf(s, k) <= m /\ l \in 0 .. Len(s.ends) /\ EndOf(s, l) <= n
  BY <1>1, CountFacts
<1>3. EndOf(s, k) \in Nat /\ EndOf(s, l) \in Nat /\ Len(s.ends) \in Nat
  BY <1>2, EndFacts, StreamFacts
<1>4. EndOf(s, k) <= n
  <2> HIDE DEF k
  <2> QED
    BY <1>1, <1>2, <1>3
<1>5. k <= l
  BY <1>2, <1>4, CountFacts
<1>6. k = l \/ EndOf(s, k) < EndOf(s, l)
  <2>1. k = l \/ k < l
    BY <1>2, <1>3, <1>5
  <2> QED
    BY <1>2, <2>1, EndFacts
<1> QED
  BY <1>3, <1>5, <1>6

\* The safety properties, from the invariant.
Correct == FindsWhatWasSent /\ KeepsAPart

LEMMA InvIsCorrect == ASSUME WellFormed(stream), ParserInv PROVE Correct
<1> DEFINE s == stream
           n == read
           m == Count(s, n)
<1> SUFFICES ASSUME Safe PROVE /\ ~ crashed /\ IsPrefix(events, s.events)
                               /\ Prompt => IsPrefix(SubSeq(s.events, 1, m), events) /\ Len(kept) <= n - EndOf(s, m)
  BY DEF Correct, FindsWhatWasSent, KeepsAPart, Due, Arrived, Count
<1>1. AsSent /\ crashed = FALSE /\ n \in 0 .. Len(s.bytes) /\ Len(s.bytes) \in Nat /\ n \in Nat
      /\ (n = 0 \/ n \in cuts) /\ cuts \subseteq 1 .. n
  BY StreamFacts DEF ParserInv, Received, AsSent
<1>2. m \in 0 .. Len(s.ends) /\ EndOf(s, m) <= n /\ Len(s.ends) \in Nat /\ EndOf(s, m) \in Nat
  <2>1. m \in 0 .. Len(s.ends) /\ EndOf(s, m) <= n /\ Len(s.ends) \in Nat
    BY <1>1, CountFacts, StreamFacts
  <2> QED
    BY <2>1, EndFacts
<1>3. n # 0 => n \in 1 .. Len(s.bytes) /\ n \in cuts
  BY <1>1
<1>4. \A j \in 0 .. Len(s.ends) : m <= j /\ events = SubSeq(s.events, 1, j) =>
        IsPrefix(events, s.events) /\ IsPrefix(SubSeq(s.events, 1, m), events)
  <2> SUFFICES ASSUME NEW j \in 0 .. Len(s.ends), m <= j, events = SubSeq(s.events, 1, j)
               PROVE  IsPrefix(events, s.events) /\ IsPrefix(SubSeq(s.events, 1, m), events)
    OBVIOUS
  <2>1. m \in 0 .. j
    <3> HIDE DEF m
    <3> QED
      BY <1>2
  <2> QED
    BY <2>1, EventsInOrder
<1>5. CASE parser = "dart"
  <2> DEFINE d == Pos(s, n)
  <2>1. \A p \in cuts : ~ Between(p) /\ ~ BeforeEmpty(p)
    BY <1>5 DEF Safe
  <2>2. LineBegun(s, n)
    <3>1. CASE n = 0
      BY <3>1 DEF LineBegun
    <3>2. CASE n # 0
      BY <1>3, <2>1, <3>2, NotBetween
    <3> QED
      BY <3>1, <3>2
  <2>3. d \in 0 .. n /\ Whole(s, d) /\ Calm(s, d) /\ m <= Count(s, d)
    BY <1>1, <2>2, DartPosition
  <2> HIDE DEF d
  <2>4. d \in 0 .. Len(s.bytes)
    BY <1>1, <2>3
  <2>5. Caught(s, d, events, kept)
    BY <1>1, <1>5 DEF AsSent, d
  <2>6. events = SubSeq(s.events, 1, Count(s, d)) /\ Len(kept) <= d - EndOf(s, Count(s, d)) /\ Len(kept) \in Nat
    BY <2>3, <2>4, <2>5, CaughtIsSent
  <2>7. Count(s, d) \in 0 .. Len(s.ends) /\ EndOf(s, Count(s, d)) \in Nat
    <3>1. Count(s, d) \in 0 .. Len(s.ends)
      BY <2>4, CountFacts
    <3> QED
      BY <3>1, EndFacts
  <2>8. EndOf(s, m) <= EndOf(s, Count(s, d))
    <3>1. m = Count(s, d) \/ m < Count(s, d)
      <4> HIDE DEF m
      <4> QED
        BY <1>2, <2>3, <2>7
    <3>2. m < Count(s, d) => EndOf(s, m) < EndOf(s, Count(s, d))
      BY <1>2, <2>7, EndFacts
    <3> DEFINE a == EndOf(s, m)
               b == EndOf(s, Count(s, d))
    <3>3. m = Count(s, d) => a = b
      OBVIOUS
    <3>4. a \in Nat /\ b \in Nat /\ (a = b \/ a < b)
      BY <1>2, <2>7, <3>1, <3>2, <3>3
    <3> HIDE DEF a, b
    <3>5. a <= b
      BY <3>4
    <3> QED
      BY <3>5 DEF a, b
  <2>9. Len(kept) <= n - EndOf(s, m)
    <3> DEFINE a == EndOf(s, m)
               b == EndOf(s, Count(s, d))
    <3>1. a \in Nat /\ b \in Nat /\ a <= b /\ d \in 0 .. n /\ n \in Nat /\ Len(kept) \in Nat /\ Len(kept) <= d - b
      BY <1>1, <1>2, <2>3, <2>6, <2>7, <2>8
    <3> HIDE DEF a, b
    <3>2. Len(kept) <= n - a
      BY <3>1
    <3> QED
      BY <3>2 DEF a
  <2> QED
    BY <1>1, <1>4, <2>3, <2>6, <2>7, <2>9
<1>6. CASE parser = "kotlin"
  <2>1. \A p \in cuts : ~ Between(p) /\ ~ InCharacter(p) /\ ~ (HasReturns /\ BeforeEmpty(p))
    BY <1>6 DEF Safe
  <2>2. Whole(s, n) /\ Calm(s, n)
    <3>1. CASE n = 0
      BY <3>1, WholeStart DEF Calm
    <3>2. CASE n # 0
      BY <1>3, <2>1, <3>2, KotlinCuts
    <3> QED
      BY <3>1, <3>2
  <2>3. CASE Caught(s, n, events, kept)
    <3>1. events = SubSeq(s.events, 1, m) /\ Len(kept) <= n - EndOf(s, m)
      BY <1>1, <2>2, <2>3, CaughtIsSent
    <3>2. m <= m
      BY <1>2
    <3> QED
      BY <1>1, <1>2, <1>4, <3>1, <3>2
  <2>4. CASE Early(s, n, events, kept)
    <3> DEFINE e == n + 1
    <3>1. n \in 1 .. Len(s.bytes) - 1 /\ e \in Range(s.ends) /\ kept = <<>> /\ events = EventsIn(Part(s, 0, e)) /\ s.bytes[e] = "n"
      BY <2>4 DEF Early
    <3>2. e \in 0 .. Len(s.bytes) /\ n \in 0 .. e /\ e \in 1 .. Len(s.bytes)
      BY <1>1, <3>1
    <3>3. Calm(s, e)
      BY <3>1 DEF Calm
    <3>4. Whole(s, e)
      <4> SUFFICES ASSUME e # Len(s.bytes) PROVE s.bytes[e + 1] # "lo"
        BY DEF Whole
      <4>1. e + 1 \in 1 .. Len(s.bytes) /\ (e + 1) - 1 = e
        BY <1>1, <3>2
      <4>2. s.bytes[e + 1] = "lo" => s.bytes[(e + 1) - 1] = "hi"
        BY <4>1, StreamFacts DEF Paired
      <4> QED
        BY <3>1, <4>1, <4>2
    <3>5. EventsIn(Part(s, 0, e)) = SubSeq(s.events, 1, Count(s, e))
      BY <3>2, <3>3, <3>4, AtPosition
    <3>6. Count(s, e) \in 0 .. Len(s.ends) /\ m <= Count(s, e)
      BY <3>2, CountFacts, CountGrows
    <3>7. Len(kept) <= n - EndOf(s, m)
      <4>1. Len(kept) = 0
        BY <3>1
      <4> DEFINE a == EndOf(s, m)
      <4>2. a \in Nat /\ a <= n /\ n \in Nat
        BY <1>1, <1>2
      <4> HIDE DEF a
      <4>3. 0 <= n - a
        BY <4>2
      <4> QED
        BY <4>1, <4>3 DEF a
    <3> QED
      BY <1>1, <1>4, <3>1, <3>5, <3>6, <3>7
  <2> QED
    BY <1>1, <1>6, <2>3, <2>4 DEF AsSent
<1>7. CASE parser # "dart" /\ parser # "kotlin"
  <2>1. PICK j \in 0 .. Len(s.ends) : Waiting(s, n, j, events, kept) /\ (Prompt => j = m)
    <3>1. CASE parser = "rust"
      <4>1. PICK j \in 0 .. Len(s.ends) : Waiting(s, n, j, events, kept) /\ (Prompt => EndOf(s, j) = n)
        BY <1>1, <3>1 DEF AsSent
      <4>2. EndOf(s, j) = n => j = m
        <5> SUFFICES ASSUME EndOf(s, j) = n, j # m PROVE FALSE
          OBVIOUS
        <5>1. j <= m
          BY <1>1, CountFacts
        <5>2. j < m
          BY <1>2, <5>1
        <5>3. EndOf(s, j) < EndOf(s, m)
          BY <1>2, <5>2, EndFacts
        <5> DEFINE b == EndOf(s, m)
        <5>4. b \in Nat /\ b <= n /\ n < b /\ n \in Nat
          BY <1>1, <1>2, <5>3
        <5> HIDE DEF b
        <5> QED
          BY <5>4
      <4> QED
        BY <4>1, <4>2
    <3>2. CASE parser # "rust"
      <4>1. Waiting(s, n, m, events, kept)
        BY <1>1, <1>7, <3>2 DEF AsSent
      <4> QED
        BY <1>2, <4>1
    <3> QED
      BY <3>1, <3>2
  <2>2. EndOf(s, j) <= n /\ kept = Part(s, EndOf(s, j), n) /\ events = SubSeq(s.events, 1, j)
    BY <2>1 DEF Waiting
  <2>3. IsPrefix(events, s.events)
    <3>1. j \in 0 .. j
      BY <1>2
    <3> QED
      BY <2>2, <3>1, EventsInOrder
  <2>4. ASSUME Prompt PROVE IsPrefix(SubSeq(s.events, 1, m), events) /\ Len(kept) <= n - EndOf(s, m)
    <3>1. j = m /\ m <= m
      BY <1>2, <2>1, <2>4
    <3>2. EndOf(s, m) \in 0 .. n
      <4> DEFINE a == EndOf(s, m)
      <4>1. a \in Nat /\ a <= n
        BY <1>2
      <4> HIDE DEF a
      <4>2. a \in 0 .. n
        BY <1>1, <4>1
      <4> QED
        BY <4>2 DEF a
    <3>3. Len(Part(s, EndOf(s, m), n)) <= n - EndOf(s, m)
      BY <1>1, <3>2, PartFacts
    <3> QED
      BY <1>2, <1>4, <2>2, <3>1, <3>3
  <2> QED
    BY <1>1, <2>3, <2>4
<1> QED
  BY <1>5, <1>6, <1>7

(***************************************************************************)
(* The invariant holds.                                                    *)
(***************************************************************************)
LEMMA ParserInvInit == ParserInit => ParserInv
<1> SUFFICES ASSUME ParserInit PROVE ParserInv
  OBVIOUS
<1> DEFINE s == stream
<1>1. /\ s \in Streams /\ read = 0 /\ undecoded = <<>> /\ kept = <<>> /\ events = <<>> /\ crashed = FALSE /\ cuts = {}
  BY DEF ParserInit
<1>2. WellFormed(s)
  BY <1>1, StreamsAssumption
<1>3. Len(s.bytes) \in Nat /\ Len(s.ends) \in Nat /\ s.events \in Seq(Range(s.events)) /\ 0 \in 0 .. Len(s.bytes) /\ 0 \in 0 .. 0
  BY <1>2, StreamFacts
<1>4. Received
  BY <1>1, <1>3 DEF Received
<1>5. Part(s, 0, 0) = <<>>
  BY <1>2, <1>3, PartFacts
<1>6. Kept(<<>>) = <<>> /\ EventsIn(<<>>) = <<>> /\ SubSeq(s.events, 1, 0) = <<>>
  <2>1. <<>> \in Seq(Seq({"n"})) /\ <<>> \in Seq({"n"})
    OBVIOUS
  <2>2. Joined(Append(<<>>, <<>>)) = <<>>
    BY <2>1, JoinedFacts
  <2>3. RestIn(<<>>) = <<>> /\ LineIn(<<>>) = <<>> /\ EventsIn(<<>>) = <<>>
    BY ReadingNothing
  <2>4. Kept(<<>>) = <<>>
    BY <2>2, <2>3 DEF Kept
  <2>5. SubSeq(s.events, 1, 0) = <<>>
    BY <1>3
  <2> QED
    BY <2>3, <2>4, <2>5
<1>7. Caught(s, 0, events, kept)
  BY <1>1, <1>5, <1>6 DEF Caught
<1>8. Count(s, 0) = 0 /\ EndOf(s, 0) = 0
  <2> DEFINE m == Count(s, 0)
  <2>1. EndOf(s, 0) = 0 /\ m \in 0 .. Len(s.ends) /\ EndOf(s, m) <= 0 /\ 0 \in 0 .. Len(s.ends)
    BY <1>2, <1>3, EndFacts, CountFacts
  <2>2. m > 0 => EndOf(s, 0) < EndOf(s, m)
    BY <1>2, <2>1, EndFacts
  <2>3. EndOf(s, m) \in Nat
    BY <1>2, <2>1, EndFacts
  <2> DEFINE a == EndOf(s, m)
  <2>4. a \in Nat /\ a <= 0 /\ (m > 0 => 0 < a)
    BY <2>1, <2>2, <2>3
  <2> HIDE DEF a, m
  <2>5. m = 0
    BY <1>3, <2>1, <2>4
  <2> QED
    BY <2>1, <2>5 DEF m
<1>9. Waiting(s, 0, 0, events, kept)
  BY <1>1, <1>3, <1>5, <1>6, <1>8 DEF Waiting
<1>10. Held(s, 0) = <<>> /\ Pos(s, 0) = 0
  BY DEF Held, Pos, Holds
<1> QED
  BY <1>1, <1>3, <1>4, <1>7, <1>8, <1>9, <1>10 DEF ParserInv, AsSent

\* Every chunk keeps the invariant.
LEMMA ParserInvNext == ParserInv /\ [ParserNext]_parsing => ParserInv'
<1> SUFFICES ASSUME ParserInv, [ParserNext]_parsing PROVE ParserInv'
  OBVIOUS
<1>1. CASE UNCHANGED parsing
  BY <1>1 DEF ParserInv, Received, Safe, AsSent, Prompt, Between, BeforeEmpty, InCharacter, LineEnd, HasReturns, MultiByte, parsing
<1>2. CASE ParserNext
  <2>1. PICK n \in read + 1 .. Len(stream.bytes) : Receive(n) /\ (DartFeed(n) \/ KotlinFeed(n) \/ RustFeed(n) \/ SwiftFeed(n))
    BY <1>2 DEF ParserNext
  <2>2. Received /\ WellFormed(stream)
    BY StreamsAssumption DEF ParserInv, Received
  <2>3. Arrives(n)
    BY <2>1, <2>2 DEF Arrives
  <2>4. Received'
    BY <2>3, Arrival
  <2>5. ASSUME Safe' PROVE AsSent'
    <3>1. AsSent
      BY <2>3, <2>5, SafeBefore DEF ParserInv
    <3> QED
      BY <2>1, <2>3, <2>5, <3>1, DartFeeds, KotlinFeeds, RustFeeds, SwiftFeeds
  <2> QED
    BY <2>4, <2>5 DEF ParserInv
<1> QED
  BY <1>1, <1>2 DEF ParserNext

\* The invariant and what it implies hold throughout.
LEMMA ParserInvHolds == ParserSpec => [](ParserInv /\ Correct)
<1>1. ParserInv => Correct
  <2>1. ParserInv => WellFormed(stream)
    BY StreamsAssumption DEF ParserInv, Received
  <2> QED
    BY <2>1, InvIsCorrect
<1> QED
  BY <1>1, ParserInvInit, ParserInvNext, PTL DEF ParserSpec

\* For any streams, cut anywhere but where a client is known to go wrong, each
\* of the four clients finds the events that were sent, in their order, each once
\* and none made of the parts of two, and all that have arrived.
THEOREM FindsWhatWasSentCorrect == ParserSpec => []FindsWhatWasSent
<1>1. ParserInv /\ Correct => FindsWhatWasSent
  BY DEF Correct
<1> QED
  BY <1>1, ParserInvHolds, PTL

\* The text that a client keeps for the next chunk is no longer than what has
\* arrived of the event that has begun.
THEOREM KeepsAPartCorrect == ParserSpec => []KeepsAPart
<1>1. ParserInv /\ Correct => KeepsAPart
  BY DEF Correct
<1> QED
  BY <1>1, ParserInvHolds, PTL
=============================================================================
