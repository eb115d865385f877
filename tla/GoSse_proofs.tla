----------------------------- MODULE GoSse_proofs -----------------------------
(***************************************************************************)
(* Theorems about GoSse, for any messages, calls and buffer: a response    *)
(* with an error status holds that error only, whether heartbeats fall due *)
(* or not; and without heartbeats every step is one that EventStream       *)
(* allows, so what is delivered is what was accepted, in order and once.   *)
(***************************************************************************)
EXTENDS GoSse, SequenceFacts, SequenceTheorems, TLAPS

-----------------------------------------------------------------------------
(* The accesses of the one goroutine that writes.                          *)

Access(op, frame) == [op |-> op, frame |-> frame]
SendNext == <<Access("send", "stale"), Access("reset", "stale")>>
ResetNext == <<Access("reset", "stale")>>
CancelNext == <<Access("cancel", "stale")>>

\* The handler's goroutine has the accesses t to make, and before them it ...
Idle(t) ==          \* ... has nothing in the buffer,
    todo["handler"] = t /\ end = 0
Copying(f, t) ==    \* ... has to write the frame f to the empty buffer,
    todo["handler"] = <<Access("copy", f)>> \o (<<Access("advance", f)>> \o t) /\ end = 0
Advancing(f, t) ==  \* ... has to count the frame it placed there,
    todo["handler"] = <<Access("advance", f)>> \o t /\ end = 0 /\ buffer[1] = f
Holding(f, t) ==    \* ... has that frame in the buffer,
    todo["handler"] = t /\ end = 1 /\ buffer[1] = f
Resetting(t) ==     \* ... has to empty the buffer it wrote out.
    todo["handler"] = ResetNext \o t /\ end = 1 /\ sent["handler"] = 1

Domains ==
    /\ DOMAIN todo = Goroutine /\ DOMAIN sent = Goroutine
    /\ DOMAIN buffer = 1..BufferCells /\ buffer = [i \in 1..BufferCells |-> buffer[i]]

\* Nobody else writes.
OneWriter == todo["beat"] = <<>> /\ ~broken

\* A status line that is still to be chosen: the procedure has not started
\* its stream and nothing was answered.
Untouched ==
    /\ OneWriter /\ ~headersSent /\ beat = "none" /\ Idle(<<>>) /\ wire = <<>>
    /\ stage \notin {"finishing", "finished"}

\* A response that was answered with an error, on its way to the client.
Answered ==
    /\ OneWriter /\ beat = "none"
    /\ \/ /\ stage = "returned" /\ wire = <<>>
          /\ Copying("error", <<>>) \/ Advancing("error", <<>>) \/ Holding("error", <<>>)
       \/ stage = "finishing" /\ wire = <<>> /\ Holding("error", SendNext)
       \/ /\ stage = "finishing" /\ wire \in {<<>>, <<"error">>}
          /\ Resetting(<<>>) \/ Idle(<<>>)
       \/ stage = "finished" /\ wire \in {<<>>, <<"error">>} /\ Idle(<<>>)

PureInv ==
    /\ Domains
    /\ status \in {"unset", "ok", "error"}
    /\ status = "unset" => Untouched
    /\ status = "error" => Answered

\* What was accepted and what is on the wire, as long as there is one, is the
\* same but for the frame that is being written.
Level == ~clientGone => accepted = wire
Ahead(f) == ~clientGone => accepted = Append(wire, f)

\* Without heartbeats the handler's goroutine writes frame after frame, each
\* of which is written out before the next; an error is left to net/http.
Flow ==
    CASE stage = "procedure" ->
           \E t \in {<<>>, CancelNext} :
              \/ Idle(t) /\ Level
              \/ Resetting(t) /\ Level
              \/ \E f \in Frame :
                    /\ Ahead(f)
                    /\ Copying(f, SendNext \o t) \/ Advancing(f, SendNext \o t) \/ Holding(f, SendNext \o t)
      [] stage = "returned" ->
           \/ Idle(<<>>) /\ Level
           \/ \E f \in Frame :
                 /\ Ahead(f)
                 /\ Copying(f, <<>>) \/ Advancing(f, <<>>) \/ Holding(f, <<>>)
      [] stage = "finishing" ->
           \/ (Idle(SendNext) \/ Resetting(<<>>) \/ Idle(<<>>)) /\ Level
           \/ \E f \in Frame : Ahead(f) /\ Holding(f, SendNext)
      [] OTHER -> Idle(<<>>) /\ Level

\* What is on the wire is the beginning of what was accepted, also when the
\* rest of it is lost.
Beginning ==
    /\ accepted \in Seq(Frame)
    /\ wire \in Seq(Frame)
    /\ Len(wire) <= Len(accepted)
    /\ wire = SubSeq(accepted, 1, Len(wire))

FlowInv == Domains /\ OneWriter /\ ~tick /\ Flow /\ Beginning

-----------------------------------------------------------------------------
(* How an access shortens what is left to do.                              *)

Accesses == [op : {"copy", "advance", "send", "reset", "cancel"}, frame : Frame \cup {"stale"}]

LEMMA AccessIn ==
  ASSUME NEW op \in {"copy", "advance", "send", "reset", "cancel"}, NEW f \in Frame \cup {"stale"}
  PROVE  Access(op, f) \in Accesses /\ Access(op, f).op = op /\ Access(op, f).frame = f
  BY DEF Access, Accesses

LEMMA Calls ==
  ASSUME NEW f \in Frame
  PROVE  /\ Write(f) = <<Access("copy", f)>> \o (<<Access("advance", f)>> \o <<>>)
         /\ Flush = SendNext
         /\ Cancel = CancelNext
         /\ Write(f) \o Flush = <<Access("copy", f)>> \o (<<Access("advance", f)>> \o SendNext)
         /\ Write(f) \o Flush \o Cancel =
              <<Access("copy", f)>> \o (<<Access("advance", f)>> \o (SendNext \o CancelNext))
  BY DEF Write, Flush, Cancel, Access, SendNext, CancelNext

LEMMA Programs ==
  /\ <<>> \in Seq(Accesses) /\ CancelNext \in Seq(Accesses)
  /\ SendNext \in Seq(Accesses) /\ ResetNext \in Seq(Accesses)
  /\ \A t \in Seq(Accesses) :
        /\ ResetNext \o t \in Seq(Accesses) /\ SendNext \o t \in Seq(Accesses)
        /\ SendNext \o t = <<Access("send", "stale")>> \o (ResetNext \o t)
        /\ ResetNext \o t = <<Access("reset", "stale")>> \o t
        /\ \A f \in Frame : <<Access("advance", f)>> \o t \in Seq(Accesses)
  /\ SendNext \o <<>> = SendNext /\ ResetNext \o <<>> = ResetNext
  /\ CancelNext = <<Access("cancel", "stale")>> \o <<>>
<1>1. /\ Access("send", "stale") \in Accesses /\ Access("reset", "stale") \in Accesses
      /\ Access("cancel", "stale") \in Accesses
      /\ \A f \in Frame : Access("copy", f) \in Accesses /\ Access("advance", f) \in Accesses
  BY AccessIn
<1>2. ASSUME NEW a \in Accesses, NEW b \in Accesses
      PROVE  /\ <<>> \in Seq(Accesses) /\ <<a>> \in Seq(Accesses) /\ <<a, b>> \in Seq(Accesses)
             /\ <<a>> \o <<>> = <<a>> /\ <<a, b>> \o <<>> = <<a, b>>
  OBVIOUS
<1>3. ASSUME NEW a \in Accesses, NEW b \in Accesses, NEW t \in Seq(Accesses)
      PROVE  /\ <<a>> \o t \in Seq(Accesses) /\ <<a, b>> \o t \in Seq(Accesses)
             /\ <<a, b>> \o t = <<a>> \o (<<b>> \o t)
  <2>1. <<a>> \in Seq(Accesses) /\ <<b>> \in Seq(Accesses)
    OBVIOUS
  <2>3. <<a, b>> = <<a>> \o <<b>>
    <3>1. <<a, b>> = Append(<<a>>, b)
      OBVIOUS
    <3> QED
      BY <2>1, <3>1, AppendIsConcat
  <2>2. (<<a>> \o <<b>>) \o t = <<a>> \o (<<b>> \o t)
    BY <2>1, ConcatAssociative
  <2> QED
    BY <2>1, <2>2, <2>3
<1> QED
  BY <1>1, <1>2, <1>3 DEF SendNext, ResetNext, CancelNext

LEMMA Pop ==
  ASSUME NEW a \in Accesses, NEW t \in Seq(Accesses), NEW s, s = <<a>> \o t
  PROVE  s # <<>> /\ s[1] = a /\ SubSeq(s, 2, Len(s)) = t
OBVIOUS

LEMMA PopTwo ==
  ASSUME NEW a \in Accesses, NEW b \in Accesses, NEW t \in Seq(Accesses),
         NEW s, s = <<a>> \o (<<b>> \o t)
  PROVE  SubSeq(s, 3, Len(s)) = t
OBVIOUS

\* A step of a goroutine is the handler's, while it is the only writer.
LEMMA StepAlone ==
  ASSUME Domains, OneWriter, NEW g \in Goroutine, Step(g)
  PROVE  g = "handler" /\ todo["handler"] # <<>> /\ todo'["beat"] = <<>>
<1>1. todo[g] # <<>>
  BY DEF Step, Copy, Advance, Send, Reset, CancelContext, StrayAccess, Doing, AtRest
<1>2. g = "handler"
  BY <1>1 DEF OneWriter, Goroutine
<1>3. \A n : Performed("handler", n) => todo'["beat"] = todo["beat"]
  BY DEF Performed
<1> QED
  BY <1>1, <1>2, <1>3
     DEF OneWriter, Step, Copy, Advance, Send, Reset, CancelContext, StrayAccess

\* The handler's goroutine with the accesses <<a>> \o t to make makes a.
LEMMA StepIs ==
  ASSUME Domains, OneWriter, stage # "finished", Step("handler"),
         NEW a \in Accesses, NEW t \in Seq(Accesses), todo["handler"] = <<a>> \o t
  PROVE  \/ a.op = "copy" /\ Copy("handler")
         \/ a.op = "advance" /\ Advance("handler")
         \/ a.op = "send" /\ Send("handler")
         \/ a.op = "reset" /\ Reset("handler")
         \/ a.op = "cancel" /\ CancelContext("handler")
<1>1. todo["handler"][1] = a
  BY Pop
<1> QED
  BY <1>1 DEF Step, Copy, Advance, Send, Reset, CancelContext, StrayAccess, Doing

LEMMA StepOnce ==
  ASSUME Domains, NEW a \in Accesses, NEW t \in Seq(Accesses), todo["handler"] = <<a>> \o t,
         Performed("handler", 1)
  PROVE  todo'["handler"] = t /\ DOMAIN todo' = Goroutine
<1>1. todo'["handler"] = SubSeq(todo["handler"], 1 + 1, Len(todo["handler"])) /\ DOMAIN todo' = Goroutine
  BY DEF Performed, Domains, Goroutine
<1>2. 1 + 1 = 2
  OBVIOUS
<1> QED
  BY <1>1, <1>2, Pop

\* What a step does to each of the states above.
LEMMA CopyStep ==
  ASSUME Domains, OneWriter, stage # "finished", Step("handler"),
         NEW f \in Frame, NEW t \in Seq(Accesses), Copying(f, t)
  PROVE  Advancing(f, t)' /\ Domains' /\ OneWriter' /\ UNCHANGED wire
<1> DEFINE a == Access("copy", f)
           rest == <<Access("advance", f)>> \o t
<1>1. a \in Accesses /\ a.op = "copy" /\ a.frame = f /\ rest \in Seq(Accesses)
  BY Programs, AccessIn
<1>2. todo["handler"] = <<a>> \o rest /\ end = 0
  BY DEF Copying
<1> HIDE DEF a, rest
<1>3. Copy("handler") /\ todo["handler"][1] = a
  BY <1>1, <1>2, StepIs, Pop
<1>4. Performed("handler", 1) /\ buffer' = [buffer EXCEPT ![1] = f] /\ UNCHANGED <<end, sent, broken, wire>>
  BY <1>1, <1>2, <1>3 DEF Copy, OneWriter
<1>5. todo'["handler"] = rest /\ DOMAIN todo' = Goroutine
  BY <1>1, <1>2, <1>4, StepOnce
<1>6. 1 \in 1..BufferCells
  BY ConstantsAssumption DEF ConstantsAssumption
<1>7. todo'["beat"] = <<>>
  BY StepAlone DEF Goroutine
<1> QED
  BY <1>2, <1>4, <1>5, <1>6, <1>7 DEF Advancing, Domains, OneWriter, rest

LEMMA AdvanceStep ==
  ASSUME Domains, OneWriter, stage # "finished", Step("handler"),
         NEW f \in Frame, NEW t \in Seq(Accesses), Advancing(f, t)
  PROVE  Holding(f, t)' /\ Domains' /\ OneWriter' /\ UNCHANGED wire
<1> DEFINE a == Access("advance", f)
<1>1. a \in Accesses /\ a.op = "advance"
  BY AccessIn
<1>2. todo["handler"] = <<a>> \o t /\ end = 0 /\ buffer[1] = f
  BY DEF Advancing
<1> HIDE DEF a
<1>3. Advance("handler")
  BY <1>1, <1>2, StepIs
<1>4. Performed("handler", 1) /\ end' = end + 1 /\ UNCHANGED <<buffer, sent, broken, wire>>
  BY <1>3 DEF Advance
<1>5. todo'["handler"] = t /\ DOMAIN todo' = Goroutine
  BY <1>1, <1>2, <1>4, StepOnce
<1>6. todo'["beat"] = <<>>
  BY StepAlone DEF Goroutine
<1> QED
  BY <1>2, <1>4, <1>5, <1>6 DEF Holding, Domains, OneWriter

LEMMA SendStep ==
  ASSUME Domains, OneWriter, stage # "finished", Step("handler"),
         NEW f \in Frame, NEW t \in Seq(Accesses), Holding(f, SendNext \o t)
  PROVE  /\ Resetting(t)' /\ Domains' /\ OneWriter'
         /\ wire' = IF clientGone THEN wire ELSE OnWire(<<f>>)
<1> DEFINE a == Access("send", "stale")
           rest == ResetNext \o t
<1>1. a \in Accesses /\ a.op = "send" /\ rest \in Seq(Accesses) /\ SendNext \o t = <<a>> \o rest
  BY Programs, AccessIn
<1>2. todo["handler"] = <<a>> \o rest /\ end = 1 /\ buffer[1] = f
  BY <1>1 DEF Holding
<1> HIDE DEF a, rest
<1>3. Send("handler")
  BY <1>1, <1>2, StepIs
<1>4. /\ Performed("handler", 1) /\ sent' = [sent EXCEPT !["handler"] = 1]
      /\ wire' = IF clientGone THEN wire ELSE OnWire(SubSeq(buffer, 1, 1))
      /\ UNCHANGED <<buffer, end, broken>>
  BY <1>2, <1>3 DEF Send, OneWriter
<1>5. todo'["handler"] = rest /\ DOMAIN todo' = Goroutine
  BY <1>1, <1>2, <1>4, StepOnce
<1>6. todo'["beat"] = <<>>
  BY StepAlone DEF Goroutine
<1>7. SubSeq(buffer, 1, 1) = <<f>>
  <2> DEFINE T == {buffer[i] : i \in 1..BufferCells}
  <2>1. BufferCells \in Nat /\ BufferCells >= 1
    BY ConstantsAssumption DEF ConstantsAssumption
  <2>2. \A i \in 1..BufferCells : buffer[i] \in T
    OBVIOUS
  <2>3. buffer \in Seq(T) /\ Len(buffer) = BufferCells
    <3> HIDE DEF T
    <3> QED
      BY <2>1, <2>2, FunctionIsSeq DEF Domains
  <2> HIDE DEF T
  <2>4. SubSeq(buffer, 1, 1) = <<buffer[1]>> \o SubSeq(buffer, 1 + 1, 1)
    BY <2>1, <2>3, SubSeqRecursiveFirst
  <2>5. SubSeq(buffer, 1 + 1, 1) = <<>>
    BY SubSeqEmpty
  <2>6. <<f>> \o <<>> = <<f>>
    OBVIOUS
  <2> QED
    BY <1>2, <2>4, <2>5, <2>6
<1> QED
  BY <1>2, <1>4, <1>5, <1>6, <1>7 DEF Resetting, Domains, OneWriter, Goroutine, rest

LEMMA ResetStep ==
  ASSUME Domains, OneWriter, stage # "finished", Step("handler"),
         NEW t \in Seq(Accesses), Resetting(t)
  PROVE  Idle(t)' /\ Domains' /\ OneWriter' /\ UNCHANGED wire
<1> DEFINE a == Access("reset", "stale")
<1>1. a \in Accesses /\ a.op = "reset"
  BY AccessIn
<1>2. todo["handler"] = <<a>> \o t /\ end = 1 /\ sent["handler"] = 1
  BY Programs DEF Resetting
<1> HIDE DEF a
<1>3. Reset("handler")
  BY <1>1, <1>2, StepIs
<1>4. /\ Performed("handler", 1) /\ end' = 0 /\ sent' = [sent EXCEPT !["handler"] = 0]
      /\ UNCHANGED <<buffer, broken, wire>>
  BY <1>2, <1>3 DEF Reset
<1>5. todo'["handler"] = t /\ DOMAIN todo' = Goroutine
  BY <1>1, <1>2, <1>4, StepOnce
<1>6. todo'["beat"] = <<>>
  BY StepAlone DEF Goroutine
<1> QED
  BY <1>2, <1>4, <1>5, <1>6 DEF Idle, Domains, OneWriter

\* A flush that finds nothing in the buffer skips the rest.
LEMMA SkipStep ==
  ASSUME Domains, OneWriter, stage # "finished", Step("handler"), Idle(SendNext)
  PROVE  Idle(<<>>)' /\ Domains' /\ OneWriter' /\ UNCHANGED wire
<1> DEFINE a == Access("send", "stale")
           b == Access("reset", "stale")
<1>1. /\ a \in Accesses /\ b \in Accesses /\ a.op = "send" /\ ResetNext \in Seq(Accesses)
      /\ SendNext = <<a>> \o ResetNext /\ ResetNext = <<b>> \o <<>> /\ <<>> \in Seq(Accesses)
  BY Programs, AccessIn
<1>2. todo["handler"] = <<a>> \o ResetNext /\ end = 0
  BY <1>1 DEF Idle
<1> HIDE DEF a, b
<1>3. Send("handler")
  BY <1>1, <1>2, StepIs
<1>4. Performed("handler", 2) /\ UNCHANGED <<buffer, end, sent, broken, wire>>
  BY <1>2, <1>3 DEF Send
<1>5. todo'["handler"] = SubSeq(todo["handler"], 2 + 1, Len(todo["handler"])) /\ DOMAIN todo' = Goroutine
  BY <1>4 DEF Performed, Domains, Goroutine
<1>6. todo["handler"] = <<a>> \o (<<b>> \o <<>>) /\ 2 + 1 = 3
  BY <1>1, <1>2
<1>7. SubSeq(todo["handler"], 3, Len(todo["handler"])) = <<>>
  BY <1>1, <1>6, PopTwo
<1>8. todo'["beat"] = <<>>
  BY StepAlone DEF Goroutine
<1> QED
  BY <1>2, <1>4, <1>5, <1>6, <1>7, <1>8 DEF Idle, Domains, OneWriter

LEMMA CancelStep ==
  ASSUME Domains, OneWriter, stage # "finished", Step("handler"), Idle(CancelNext)
  PROVE  Idle(<<>>)' /\ Domains' /\ OneWriter' /\ UNCHANGED wire
<1> DEFINE a == Access("cancel", "stale")
<1>1. a \in Accesses /\ a.op = "cancel" /\ <<>> \in Seq(Accesses) /\ CancelNext = <<a>> \o <<>>
  BY Programs, AccessIn
<1>2. todo["handler"] = <<a>> \o <<>> /\ end = 0
  BY <1>1 DEF Idle
<1> HIDE DEF a
<1>3. CancelContext("handler")
  BY <1>1, <1>2, StepIs
<1>4. Performed("handler", 1) /\ UNCHANGED <<buffer, end, sent, broken, wire>>
  BY <1>3 DEF CancelContext, bufio
<1>5. todo'["handler"] = <<>> /\ DOMAIN todo' = Goroutine
  BY <1>1, <1>2, <1>4, StepOnce
<1>6. todo'["beat"] = <<>>
  BY StepAlone DEF Goroutine
<1> QED
  BY <1>2, <1>4, <1>5, <1>6 DEF Idle, Domains, OneWriter

\* What a goroutine's step leaves alone.
LEMMA StepKeeps ==
  ASSUME NEW g \in Goroutine, Step(g)
  PROVE  UNCHANGED <<stage, clientGone, status, accepted, tick, beat>>
  BY DEF Step, controller

LEMMA DomainsStep ==
  ASSUME Domains, [Next]_vars
  PROVE  Domains'
<1> USE DEF Domains
<1>1. CASE Pipeline
  BY <1>1 DEF Pipeline, Preflight, CheckFails, CheckPasses, ProcedureFails, ProcedureReturns,
              AfterResponseFails, AfterResponsePasses, ServerFlushes, ServerFinishes, HandleError, bufio
<1>2. CASE Procedure
  BY <1>2 DEF Procedure, InitStream, Push, Close, SetHeartbeatEnabled, Call, bufio
<1>3. CASE ClientGone \/ Tick \/ BeatTick \/ BeatDone
  BY <1>3 DEF ClientGone, Tick, BeatTick, BeatDone, bufio
<1>4. ASSUME NEW g \in Goroutine, Step(g)
      PROVE  Domains'
  <2>1. \A n : Performed(g, n) => DOMAIN todo' = Goroutine
    BY DEF Performed
  <2>2. CASE Copy(g)
    BY <2>1, <2>2 DEF Copy
  <2>3. CASE Advance(g)
    BY <2>1, <2>3 DEF Advance
  <2>4. CASE Send(g)
    BY <2>1, <2>4 DEF Send
  <2>5. CASE Reset(g)
    BY <2>1, <2>5 DEF Reset
  <2>6. CASE CancelContext(g) \/ StrayAccess(g)
    BY <2>1, <2>6 DEF CancelContext, StrayAccess, bufio
  <2> QED
    BY <1>4, <2>2, <2>3, <2>4, <2>5, <2>6 DEF Step
<1>5. CASE UNCHANGED vars
  BY <1>5 DEF vars, bufio
<1> QED
  BY <1>1, <1>2, <1>3, <1>4, <1>5 DEF Next

-----------------------------------------------------------------------------
(* A response with an error status.                                        *)

\* handleError on a response that was left alone so far.
LEMMA HandleErrorIsPure ==
  ASSUME Domains, Untouched, status = "unset", HandleError
  PROVE  status' = "error" /\ Answered'
<1>1. "error" \in Frame
  BY DEF Frame
<1>2. todo'["handler"] = Write("error") /\ todo'["beat"] = <<>>
  BY DEF HandleError, Untouched, OneWriter, Domains, Goroutine
<1>3. Copying("error", <<>>)'
  BY <1>1, <1>2, Calls DEF Copying, HandleError, Untouched, Idle, bufio
<1> QED
  BY <1>2, <1>3 DEF HandleError, FirstStatus, Answered, Untouched, OneWriter, controller, bufio

\* What is written of the error's frame.
LEMMA ErrorOnWire ==
  ASSUME wire = <<>>
  PROVE  OnWire(<<"error">>) \in {<<>>, <<"error">>}
<1> DEFINE kept == Only(<<"error">>, Recorded)
<1>1. <<"error">> \in Seq({"error"}) /\ Len(<<"error">>) = 1
  OBVIOUS
<1>2. /\ kept \in Seq({"error"} \cap Recorded)
      /\ Len(kept) = Cardinality({i \in 1 .. 1 : <<"error">>[i] \in Recorded})
  BY <1>1, OnlyFacts
<1> HIDE DEF kept
<1>3. Len(kept) <= 1
  <2> DEFINE places == {i \in 1 .. 1 : <<"error">>[i] \in Recorded}
  <2>1. IsFiniteSet(1 .. 1) /\ Cardinality(1 .. 1) = 1
    <3>1. 1 \in Int /\ ~(1 > 1) /\ 1 - 1 + 1 = 1
      OBVIOUS
    <3> QED
      BY <3>1, FS_Interval
  <2>2. places \in SUBSET (1 .. 1)
    OBVIOUS
  <2> HIDE DEF places
  <2>3. Cardinality(places) <= 1
    BY <2>1, <2>2, FS_Subset
  <2> QED
    BY <1>2, <2>3 DEF places
<1>4. kept = <<>> \/ kept = <<"error">>
  <2>1. kept \in Seq({"error"}) /\ Len(kept) \in Nat
    <3>1. {"error"} \cap Recorded \subseteq {"error"}
      OBVIOUS
    <3> QED
      BY <1>2, <3>1, SeqMonotonic
  <2>2. CASE Len(kept) = 0
    BY <2>1, <2>2
  <2>3. CASE Len(kept) = 1
    <3>1. kept[1] = "error"
      <4>1. 1 \in 1 .. Len(kept)
        BY <2>3
      <4>2. kept[1] \in {"error"}
        BY <2>1, <4>1, ElementOfSeq
      <4> QED
        BY <4>2
    <3> QED
      BY <1>1, <2>1, <2>3, <3>1, SeqEqual
  <2>4. Len(kept) = 0 \/ Len(kept) = 1
    <3>1. ASSUME NEW n \in Nat, n <= 1
          PROVE  n = 0 \/ n = 1
      BY <3>1
    <3> QED
      BY <1>3, <2>1, <3>1, Zenon
  <2> QED
    BY <2>2, <2>3, <2>4
<1>5. OnWire(<<"error">>) = <<>> \o kept
  BY DEF OnWire, kept
<1>6. <<>> \o <<>> = <<>> /\ <<>> \o <<"error">> = <<"error">>
  OBVIOUS
<1> QED
  BY <1>4, <1>5, <1>6

LEMMA AnsweredStep ==
  ASSUME Domains, Answered, NEW g \in Goroutine, Step(g)
  PROVE  Answered'
<1> DEFINE e == "error"
<1>1. /\ e \in Frame /\ <<>> \in Seq(Accesses)
      /\ SendNext \o <<>> = SendNext /\ ResetNext \o <<>> = ResetNext
  BY Programs DEF Frame
<1>2. OneWriter /\ g = "handler" /\ todo["handler"] # <<>> /\ Step("handler")
  BY StepAlone DEF Answered
<1>3. UNCHANGED <<stage, beat>>
  BY StepKeeps
<1>4. stage # "finished"
  BY <1>2 DEF Answered, Idle
<1> HIDE DEF e
<1>5. CASE stage = "returned" /\ wire = <<>> /\ Copying(e, <<>>)
  BY <1>1, <1>2, <1>3, <1>4, <1>5, CopyStep DEF Answered, e
<1>6. CASE stage = "returned" /\ wire = <<>> /\ Advancing(e, <<>>)
  BY <1>1, <1>2, <1>3, <1>4, <1>6, AdvanceStep DEF Answered, e
<1>7. CASE stage = "returned" /\ Holding(e, <<>>)
  BY <1>2, <1>7 DEF Holding
<1>8. CASE stage = "finishing" /\ wire = <<>> /\ Holding(e, SendNext)
  <2>1. /\ Resetting(<<>>)' /\ OneWriter'
        /\ wire' = IF clientGone THEN wire ELSE OnWire(<<e>>)
    BY <1>1, <1>2, <1>4, <1>8, SendStep
  <2> QED
    BY <1>3, <1>8, <2>1, ErrorOnWire DEF Answered, e
<1>9. CASE stage = "finishing" /\ wire \in {<<>>, <<e>>} /\ Resetting(<<>>)
  BY <1>1, <1>2, <1>3, <1>4, <1>9, ResetStep DEF Answered, e
<1>10. CASE Idle(<<>>)
  BY <1>2, <1>10 DEF Idle
<1> QED
  BY <1>5, <1>6, <1>7, <1>8, <1>9, <1>10 DEF Answered, e

LEMMA PureStep ==
  ASSUME PureInv, [Next]_vars
  PROVE  PureInv'
<1>1. Domains'
  BY DomainsStep DEF PureInv
<1>2. CASE status = "ok"
  <2>1. status' = "ok"
    <3>1. CASE Pipeline
      BY <1>2, <3>1 DEF Pipeline, Preflight, CheckFails, CheckPasses, ProcedureFails, ProcedureReturns,
           AfterResponseFails, AfterResponsePasses, ServerFlushes, ServerFinishes, HandleError,
           FirstStatus, connection
    <3>2. CASE Procedure
      BY <1>2, <3>2 DEF Procedure, InitStream, Push, Close, SetHeartbeatEnabled, Call, StartStream,
           FirstStatus, connection
    <3>3. CASE ClientGone \/ Tick \/ BeatTick \/ BeatDone
      BY <1>2, <3>3 DEF ClientGone, Tick, BeatTick, BeatDone, connection
    <3>4. CASE \E g \in Goroutine : Step(g)
      BY <1>2, <3>4, StepKeeps
    <3>5. CASE UNCHANGED vars
      BY <1>2, <3>5 DEF vars, connection
    <3> QED
      BY <3>1, <3>2, <3>3, <3>4, <3>5 DEF Next
  <2> QED
    BY <1>1, <2>1 DEF PureInv
<1>3. CASE status = "unset"
  <2>1. Untouched /\ Domains
    BY <1>3 DEF PureInv
  <2> USE DEF Untouched, OneWriter, Idle
  <2>2. CASE CheckFails \/ ProcedureFails \/ AfterResponseFails
    BY <1>1, <1>3, <2>1, <2>2, HandleErrorIsPure
       DEF PureInv, CheckFails, ProcedureFails, AfterResponseFails
  <2>3. CASE Preflight \/ ServerFlushes
    BY <1>1, <1>3, <2>3 DEF Preflight, ServerFlushes, FirstStatus, PureInv
  <2>4. CASE CheckPasses
    <3>1. stage' \notin {"finishing", "finished"}
      BY <2>4 DEF CheckPasses, Check
    <3> QED
      BY <1>1, <1>3, <2>1, <2>4, <3>1 DEF CheckPasses, PureInv, controller, connection, bufio
  <2>5. CASE ProcedureReturns \/ AfterResponsePasses
    BY <1>1, <1>3, <2>1, <2>5
       DEF ProcedureReturns, AfterResponsePasses, PureInv, controller, connection, bufio
  <2>6. CASE ServerFinishes
    BY <2>1, <2>6 DEF ServerFinishes
  <2>7. CASE InitStream \/ (\E m \in Message : Push(m)) \/ (\E n \in BOOLEAN : Close(n))
    <3>1. PICK frames, accesses : Call(frames, accesses)
      BY <2>7 DEF InitStream, Push, Close
    <3> QED
      BY <1>1, <1>3, <2>1, <3>1 DEF Call, StartStream, FirstStatus, PureInv
  <2>8. CASE \E v \in HeartbeatChoices : SetHeartbeatEnabled(v)
    BY <1>1, <1>3, <2>1, <2>8 DEF SetHeartbeatEnabled, PureInv, connection, bufio
  <2>9. CASE ClientGone \/ Tick
    BY <1>1, <1>3, <2>1, <2>9 DEF ClientGone, Tick, PureInv, controller, connection, bufio
  <2>10. CASE BeatTick \/ BeatDone
    BY <2>1, <2>10 DEF BeatTick, BeatDone
  <2>11. CASE \E g \in Goroutine : Step(g)
    BY <2>1, <2>11, StepAlone
  <2>12. CASE UNCHANGED vars
    BY <1>1, <1>3, <2>1, <2>12 DEF vars, PureInv, controller, connection, bufio
  <2> QED
    BY <2>2, <2>3, <2>4, <2>5, <2>6, <2>7, <2>8, <2>9, <2>10, <2>11, <2>12
       DEF Next, Pipeline, Procedure
<1>4. CASE status = "error"
  <2>1. Answered /\ Domains
    BY <1>4 DEF PureInv
  <2>2. stage \in {"returned", "finishing", "finished"}
    BY <2>1 DEF Answered
  <2> SUFFICES status' = "error" /\ Answered'
    BY <1>1 DEF PureInv
  <2>3. CASE Preflight \/ CheckFails \/ CheckPasses
    <3>1. stage \in {"createEvent", "method", "onRequest", "middleware", "params"}
      BY <2>3 DEF Preflight, CheckFails, CheckPasses, Check, ToSet
    <3> QED
      BY <2>2, <3>1
  <2>4. CASE ProcedureFails \/ ProcedureReturns \/ AfterResponseFails \/ AfterResponsePasses \/ Procedure
    BY <2>2, <2>4 DEF ProcedureFails, ProcedureReturns, AfterResponseFails, AfterResponsePasses,
         Procedure, InitStream, Push, Close, Call, SetHeartbeatEnabled
  <2>5. CASE ServerFlushes
    <3>1. stage = "returned" /\ todo["handler"] = <<>>
      BY <2>5 DEF ServerFlushes, AtRest
    <3>2. \A f \in Frame : ~Copying(f, <<>>) /\ ~Advancing(f, <<>>)
      BY <3>1, Programs, AccessIn DEF Copying, Advancing
    <3>3. OneWriter /\ beat = "none" /\ wire = <<>> /\ Holding("error", <<>>)
      BY <2>1, <3>1, <3>2 DEF Answered, Frame
    <3>4. todo'["handler"] = SendNext /\ todo'["beat"] = todo["beat"]
      BY <2>1, <2>5 DEF ServerFlushes, Domains, Goroutine, Flush, SendNext, Access
    <3> QED
      BY <1>4, <2>5, <3>3, <3>4
         DEF ServerFlushes, FirstStatus, Answered, Holding, OneWriter, controller, bufio
  <2>6. CASE ServerFinishes
    <3>1. stage = "finishing" /\ todo["handler"] = <<>>
      BY <2>6 DEF ServerFinishes, AtRest
    <3>2. ~Holding("error", SendNext) /\ ~Resetting(<<>>)
      BY <3>1, Programs DEF Holding, Resetting, SendNext, ResetNext
    <3> QED
      BY <1>4, <2>1, <2>6, <3>1, <3>2
         DEF ServerFinishes, Answered, Idle, OneWriter, controller, connection, bufio
  <2>7. CASE ClientGone \/ Tick \/ UNCHANGED vars
    BY <1>4, <2>1, <2>7 DEF ClientGone, Tick, vars, Answered, Copying, Advancing, Holding, Resetting,
         Idle, OneWriter, controller, connection, bufio
  <2>8. CASE BeatTick \/ BeatDone
    BY <2>1, <2>8 DEF BeatTick, BeatDone, Answered
  <2>9. CASE \E g \in Goroutine : Step(g)
    BY <1>4, <2>1, <2>9, AnsweredStep, StepKeeps
  <2> QED
    BY <2>3, <2>4, <2>5, <2>6, <2>7, <2>8, <2>9 DEF Next, Pipeline
<1> QED
  BY <1>2, <1>3, <1>4 DEF PureInv

LEMMA SpecIsSafe == Spec => Init /\ [][Next]_vars
  BY PTL DEF Spec

LEMMA DomainsInit == Init => Domains
  BY DEF Init, Domains

\* A response with an error status carries that error and no frame of a
\* stream: once handleError has chosen the status nothing else is written,
\* whatever the heartbeat's goroutine does, and a stream that has started has
\* chosen its status (handleError, startStream; procedures.go).
THEOREM ErrorResponseIsPureCorrect == Spec => []ErrorResponseIsPure
<1>1. Init => PureInv
  BY DomainsInit DEF Init, PureInv, Untouched, OneWriter, Idle, Goroutine
<1>2. PureInv /\ [Next]_vars => PureInv'
  BY PureStep
<1>3. PureInv => ErrorResponseIsPure
  BY DEF PureInv, Answered, ErrorResponseIsPure
<1>4. QED
  BY <1>1, <1>2, <1>3, SpecIsSafe, PTL

-----------------------------------------------------------------------------
(* The steps of EventStream.                                               *)

LEMMA AcceptFrame ==
  ASSUME Beginning, NEW f \in Frame, accepted' = Append(accepted, f), UNCHANGED <<wire, clientGone>>
  PROVE  Beginning' /\ Promise!Next
<1>1. Promise!Next
  BY DEF Promise!Next, Promise!Accept
<1>2. accepted' \in Seq(Frame) /\ Len(accepted') = Len(accepted) + 1
  BY AppendProperties DEF Beginning
<1>3. \A i \in 1..Len(accepted) : accepted'[i] = accepted[i]
  BY AppendProperties DEF Beginning
<1>4. Len(wire) \in Nat /\ Len(accepted) \in Nat /\ Len(wire) <= Len(accepted)
  BY LenProperties DEF Beginning
<1>5. SubSeq(accepted', 1, Len(wire)) = SubSeq(accepted, 1, Len(wire))
  BY <1>2, <1>3, <1>4 DEF Beginning
<1> QED
  BY <1>1, <1>2, <1>4, <1>5 DEF Beginning

LEMMA DeliverFrame ==
  ASSUME Beginning, NEW f \in Frame, accepted = Append(wire, f), wire' = accepted,
         UNCHANGED <<accepted, clientGone>>
  PROVE  Beginning' /\ Promise!Next
<1>1. /\ Len(wire) \in Nat /\ Len(accepted) = Len(wire) + 1
      /\ SubSeq(accepted, 1, Len(accepted)) = accepted
  BY AppendProperties, LenProperties, SubSeqFull DEF Beginning
<1>2. Len(accepted) \in Len(wire) + 1 .. Len(accepted)
  BY <1>1
<1>3. Promise!Next
  BY <1>1, <1>2 DEF Promise!Next, Promise!Deliver
<1> QED
  BY <1>1, <1>3 DEF Beginning

LEMMA KeepFrames ==
  ASSUME Beginning, UNCHANGED <<accepted, wire, clientGone>>
  PROVE  Beginning' /\ UNCHANGED Promise!vars
  BY DEF Beginning, Promise!vars

-----------------------------------------------------------------------------
(* A stream in which no heartbeat falls due.                               *)

\* A goroutine at rest has written all it was given, but for an error that
\* net/http is still to flush.
LEMMA AtRestIsIdle ==
  ASSUME Flow, todo["handler"] = <<>>
  PROVE  \/ Idle(<<>>) /\ Level
         \/ stage = "returned" /\ \E f \in Frame : Ahead(f) /\ Holding(f, <<>>)
<1>1. ASSUME NEW f \in Frame, NEW t \in Seq(Accesses)
      PROVE  ~Copying(f, t) /\ ~Advancing(f, t) /\ ~Holding(f, SendNext \o t) /\ ~Resetting(t) /\ ~Idle(SendNext)
  <2>1. /\ <<Access("advance", f)>> \o t \in Seq(Accesses)
        /\ Access("copy", f) \in Accesses /\ Access("advance", f) \in Accesses
        /\ Access("send", "stale") \in Accesses /\ Access("reset", "stale") \in Accesses
        /\ ResetNext \in Seq(Accesses) /\ ResetNext \o t \in Seq(Accesses)
        /\ SendNext \o t = <<Access("send", "stale")>> \o (ResetNext \o t)
        /\ ResetNext \o t = <<Access("reset", "stale")>> \o t
    BY Programs, AccessIn
  <2>2. /\ <<Access("copy", f)>> \o (<<Access("advance", f)>> \o t) # <<>>
        /\ <<Access("advance", f)>> \o t # <<>>
        /\ SendNext \o t # <<>> /\ ResetNext \o t # <<>>
    BY <2>1, Pop
  <2>3. SendNext # <<>>
    BY DEF SendNext
  <2> QED
    BY <2>2, <2>3 DEF Copying, Advancing, Holding, Resetting, Idle
<1>2. "start" \in Frame
  BY DEF Frame
<1>3. /\ <<>> \in Seq(Accesses) /\ CancelNext \in Seq(Accesses)
      /\ SendNext \in Seq(Accesses) /\ SendNext \o CancelNext \in Seq(Accesses)
      /\ SendNext \o <<>> = SendNext
  BY Programs
<1>4. CASE stage = "procedure"
  <2>1. PICK t \in {<<>>, CancelNext} :
              \/ Idle(t) /\ Level
              \/ Resetting(t) /\ Level
              \/ \E f \in Frame :
                    /\ Ahead(f)
                    /\ Copying(f, SendNext \o t) \/ Advancing(f, SendNext \o t) \/ Holding(f, SendNext \o t)
    BY <1>4 DEF Flow
  <2>2. t \in Seq(Accesses) /\ SendNext \o t \in Seq(Accesses)
    BY <1>3, Programs
  <2>3. Idle(t) /\ Level
    BY <1>1, <1>2, <2>1, <2>2
  <2> QED
    BY <2>3 DEF Idle
<1>5. CASE stage = "returned"
  BY <1>1, <1>3, <1>5 DEF Flow
<1>6. CASE stage = "finishing"
  BY <1>1, <1>2, <1>3, <1>6 DEF Flow
<1>7. CASE stage \notin {"procedure", "returned", "finishing"}
  BY <1>7 DEF Flow
<1> QED
  BY <1>4, <1>5, <1>6, <1>7

\* A call of the controller that writes the frame f.
LEMMA CallWrites ==
  ASSUME FlowInv, NEW f \in Frame, NEW t \in {<<>>, CancelNext}, NEW accesses,
         accesses = <<Access("copy", f)>> \o (<<Access("advance", f)>> \o (SendNext \o t)),
         Call(<<f>>, accesses)
  PROVE  FlowInv' /\ Promise!Next
<1>1. stage = "procedure" /\ todo["handler"] = <<>>
  BY DEF Call, AtRest
<1>2. Idle(<<>>) /\ Level
  BY <1>1, AtRestIsIdle DEF FlowInv
<1>3. accepted' = Append(accepted, f)
  <2>1. accepted \in Seq(Frame) /\ accepted' = accepted \o <<f>>
    BY DEF Call, FlowInv, Beginning
  <2> QED
    BY <2>1, AppendIsConcat
<1>4. UNCHANGED <<stage, tick, clientGone, end, buffer, sent, broken, wire>>
  BY DEF Call, bufio
<1>5. todo'["handler"] = accesses /\ todo'["beat"] = todo["beat"] /\ DOMAIN todo' = DOMAIN todo
  BY DEF Call, FlowInv, Domains, Goroutine
<1>6. Beginning' /\ Promise!Next
  BY <1>3, <1>4, AcceptFrame DEF FlowInv
<1>7. Copying(f, SendNext \o t)' /\ Ahead(f)'
  BY <1>2, <1>3, <1>4, <1>5 DEF Copying, Idle, Level, Ahead
<1>8. Flow'
  BY <1>1, <1>4, <1>7 DEF Flow
<1> QED
  BY <1>4, <1>5, <1>6, <1>8 DEF FlowInv, Domains, OneWriter

\* A call of the controller that writes nothing.
LEMMA CallWritesNothing ==
  ASSUME FlowInv, NEW t \in {<<>>, CancelNext}, Call(<<>>, t)
  PROVE  FlowInv' /\ UNCHANGED Promise!vars
<1>1. stage = "procedure" /\ todo["handler"] = <<>>
  BY DEF Call, AtRest
<1>2. Idle(<<>>) /\ Level
  BY <1>1, AtRestIsIdle DEF FlowInv
<1>3. UNCHANGED accepted
  <2>1. accepted \in Seq(Frame) /\ accepted' = accepted \o <<>>
    BY DEF Call, FlowInv, Beginning
  <2> QED
    BY <2>1, ConcatEmptySeq
<1>4. UNCHANGED <<stage, tick, clientGone, end, buffer, sent, broken, wire>>
  BY DEF Call, bufio
<1>5. todo'["handler"] = t /\ todo'["beat"] = todo["beat"] /\ DOMAIN todo' = DOMAIN todo
  BY DEF Call, FlowInv, Domains, Goroutine
<1>6. Beginning' /\ UNCHANGED Promise!vars
  BY <1>3, <1>4, KeepFrames DEF FlowInv
<1>7. Idle(t)' /\ Level'
  BY <1>2, <1>3, <1>4, <1>5 DEF Idle, Level
<1>8. Flow'
  BY <1>1, <1>4, <1>7 DEF Flow
<1> QED
  BY <1>4, <1>5, <1>6, <1>8 DEF FlowInv, Domains, OneWriter

LEMMA ProcedureFlows ==
  ASSUME FlowInv, Procedure
  PROVE  FlowInv' /\ [Promise!Next]_(Promise!vars)
<1>1. /\ SendNext \o <<>> = SendNext
      /\ "start" \in Frame /\ "done" \in Frame /\ Message \subseteq Frame
  BY Programs DEF Frame
<1>2. CASE InitStream
  <2>1. Call(<<"start">>, Write("start") \o Flush)
    BY <1>2 DEF InitStream
  <2> QED
    BY <1>1, <2>1, CallWrites, Calls
<1>3. ASSUME NEW m \in Message, Push(m)
      PROVE  FlowInv' /\ [Promise!Next]_(Promise!vars)
  <2>1. Call(<<>>, <<>>) \/ Call(<<m>>, Write(m) \o Flush)
    BY <1>3 DEF Push
  <2> QED
    BY <1>1, <2>1, CallWrites, CallWritesNothing, Calls
<1>4. ASSUME NEW n \in BOOLEAN, Close(n)
      PROVE  FlowInv' /\ [Promise!Next]_(Promise!vars)
  <2>1. Call(<<"done">>, Write("done") \o Flush \o Cancel) \/ Call(<<>>, Cancel)
    BY <1>4 DEF Close
  <2>2. Cancel = CancelNext
    BY <1>1, Calls
  <2> QED
    BY <1>1, <2>1, <2>2, CallWrites, CallWritesNothing, Calls
<1>5. ASSUME NEW v \in HeartbeatChoices, SetHeartbeatEnabled(v)
      PROVE  FlowInv' /\ [Promise!Next]_(Promise!vars)
  <2>1. UNCHANGED <<stage, todo, tick, clientGone, end, buffer, sent, broken, wire, accepted>>
    BY <1>5 DEF SetHeartbeatEnabled, connection, bufio
  <2> QED
    BY <2>1, KeepFrames DEF FlowInv, Domains, OneWriter, Flow, Idle, Copying, Advancing, Holding,
         Resetting, Level, Ahead
<1> QED
  BY <1>2, <1>3, <1>4, <1>5 DEF Procedure

\* handleError leaves its frame to net/http.
LEMMA HandleErrorFlows ==
  ASSUME FlowInv, HandleError, todo["handler"] = <<>>, stage # "returned"
  PROVE  FlowInv' /\ Promise!Next
<1>1. Idle(<<>>) /\ Level
  BY AtRestIsIdle DEF FlowInv
<1>2. "error" \in Frame
  BY DEF Frame
<1>3. /\ stage' = "returned" /\ accepted' = Append(accepted, "error")
      /\ UNCHANGED <<tick, clientGone, end, buffer, sent, broken, wire>>
  BY DEF HandleError, controller, bufio
<1>4. todo'["handler"] = Write("error") /\ todo'["beat"] = todo["beat"] /\ DOMAIN todo' = DOMAIN todo
  BY DEF HandleError, FlowInv, Domains, Goroutine
<1>5. Beginning' /\ Promise!Next
  BY <1>2, <1>3, AcceptFrame DEF FlowInv
<1>6. Copying("error", <<>>)' /\ Ahead("error")'
  BY <1>1, <1>2, <1>3, <1>4, Calls DEF Copying, Idle, Level, Ahead
<1>7. Flow'
  BY <1>2, <1>3, <1>6 DEF Flow
<1> QED
  BY <1>3, <1>4, <1>5, <1>7 DEF FlowInv, Domains, OneWriter

LEMMA PipelineFlows ==
  ASSUME FlowInv, Pipeline
  PROVE  FlowInv' /\ [Promise!Next]_(Promise!vars)
<1>1. CASE CheckFails
  <2>1. stage \in {"createEvent", "method", "onRequest", "middleware", "params"}
    BY <1>1 DEF CheckFails, Check, ToSet
  <2>2. todo["handler"] = <<>>
    BY <2>1 DEF FlowInv, Flow, Idle
  <2> QED
    BY <1>1, <2>1, <2>2, HandleErrorFlows DEF CheckFails
<1>2. CASE ProcedureFails
  BY <1>2, HandleErrorFlows DEF ProcedureFails, AtRest
<1>3. CASE AfterResponseFails
  <2>1. todo["handler"] = <<>> /\ stage # "returned"
    BY <1>3 DEF AfterResponseFails, FlowInv, Flow, Idle
  <2> QED
    BY <1>3, <2>1, HandleErrorFlows DEF AfterResponseFails
<1>4. CASE Preflight \/ CheckPasses \/ ProcedureReturns \/ AfterResponsePasses \/ ServerFinishes
  <2>1. UNCHANGED <<todo, tick, clientGone, end, buffer, sent, broken, wire, accepted>>
    BY <1>4 DEF Preflight, CheckPasses, ProcedureReturns, AfterResponsePasses, ServerFinishes,
         controller, connection, bufio
  <2>2. stage # "returned" /\ stage' # "finishing"
    BY <1>4 DEF Preflight, CheckPasses, ProcedureReturns, AfterResponsePasses, ServerFinishes, Check
  <2>3. todo["handler"] = <<>>
    BY <1>4 DEF Preflight, CheckPasses, ProcedureReturns, AfterResponsePasses, ServerFinishes, Check,
         AtRest, FlowInv, Flow, Idle
  <2>4. Idle(<<>>) /\ Level
    BY <2>2, <2>3, AtRestIsIdle DEF FlowInv
  <2>5. Idle(<<>>)' /\ Level'
    BY <2>1, <2>4 DEF Idle, Level
  <2>6. Flow'
    BY <2>2, <2>5 DEF Flow
  <2> QED
    BY <2>1, <2>6, KeepFrames DEF FlowInv, Domains, OneWriter
<1>5. CASE ServerFlushes
  <2>1. /\ stage = "returned" /\ stage' = "finishing" /\ todo["handler"] = <<>>
        /\ UNCHANGED <<tick, clientGone, end, buffer, sent, broken, wire, accepted>>
    BY <1>5 DEF ServerFlushes, AtRest, controller, bufio
  <2>2. todo'["handler"] = SendNext /\ todo'["beat"] = todo["beat"] /\ DOMAIN todo' = DOMAIN todo
    BY <1>5 DEF ServerFlushes, FlowInv, Domains, Goroutine, Flush, SendNext, Access
  <2>3. Flow'
    <3>1. CASE Idle(<<>>) /\ Level
      BY <2>1, <2>2, <3>1 DEF Flow, Idle, Level
    <3>2. ASSUME NEW f \in Frame, Ahead(f), Holding(f, <<>>)
          PROVE  Flow'
      BY <2>1, <2>2, <3>2 DEF Flow, Holding, Ahead
    <3> QED
      BY <2>1, <3>1, <3>2, AtRestIsIdle DEF FlowInv
  <2> QED
    BY <2>1, <2>2, <2>3, KeepFrames DEF FlowInv, Domains, OneWriter
<1> QED
  BY <1>1, <1>2, <1>3, <1>4, <1>5 DEF Pipeline

\* The buffer's frame goes to the connection.
LEMMA SendDelivers ==
  ASSUME FlowInv, Frame \subseteq Recorded, Step("handler"), stage # "finished",
         NEW f \in Frame, NEW t \in Seq(Accesses), Holding(f, SendNext \o t), Ahead(f)
  PROVE  Resetting(t)' /\ Level' /\ Domains' /\ OneWriter' /\ Beginning' /\ [Promise!Next]_(Promise!vars)
<1>1. /\ Resetting(t)' /\ Domains' /\ OneWriter'
      /\ wire' = IF clientGone THEN wire ELSE OnWire(<<f>>)
  BY SendStep DEF FlowInv
<1>2. UNCHANGED <<clientGone, accepted>>
  BY StepKeeps DEF Goroutine
<1>3. OnWire(<<f>>) = Append(wire, f)
  <2>1. <<f>> \in Seq(Recorded)
    OBVIOUS
  <2>2. Only(<<f>>, Recorded) = <<f>>
    BY <2>1, OnlyKeepsAll
  <2>3. wire \in Seq(Frame)
    BY DEF FlowInv, Beginning
  <2> QED
    BY <2>2, <2>3, AppendIsConcat DEF OnWire
<1>4. CASE clientGone
  BY <1>1, <1>2, <1>4, KeepFrames DEF FlowInv, Level
<1>5. CASE ~clientGone
  <2>1. accepted = Append(wire, f) /\ wire' = accepted
    BY <1>1, <1>3, <1>5 DEF Ahead
  <2> QED
    BY <1>1, <1>2, <2>1, DeliverFrame DEF FlowInv, Level
<1> QED
  BY <1>4, <1>5

LEMMA HandlerFlows ==
  ASSUME FlowInv, Frame \subseteq Recorded, NEW g \in Goroutine, Step(g)
  PROVE  FlowInv' /\ [Promise!Next]_(Promise!vars)
<1>1. Domains /\ OneWriter /\ Flow /\ Beginning /\ ~tick
  BY DEF FlowInv
<1>2. Step("handler") /\ todo["handler"] # <<>>
  BY <1>1, StepAlone
<1>3. UNCHANGED <<stage, clientGone, accepted, tick>>
  BY StepKeeps
<1>4. /\ <<>> \in Seq(Accesses) /\ CancelNext \in Seq(Accesses)
      /\ \A t \in Seq(Accesses) : SendNext \o t \in Seq(Accesses)
      /\ SendNext \in Seq(Accesses) /\ SendNext \o <<>> = SendNext
  BY Programs
<1>5. ~Idle(<<>>) /\ \A f \in Frame : ~Holding(f, <<>>)
  BY <1>2 DEF Idle, Holding
\* Every step but "send" leaves the wire as it is.
<1>6. ASSUME Flow', Domains', OneWriter', UNCHANGED wire
      PROVE  FlowInv' /\ [Promise!Next]_(Promise!vars)
  BY <1>1, <1>3, <1>6, KeepFrames DEF FlowInv
<1>7. ASSUME Flow', Domains', OneWriter', Beginning', [Promise!Next]_(Promise!vars)
      PROVE  FlowInv' /\ [Promise!Next]_(Promise!vars)
  BY <1>1, <1>3, <1>7 DEF FlowInv
<1>8. CASE stage = "procedure"
  <2>1. PICK t \in {<<>>, CancelNext} :
              \/ Idle(t) /\ Level
              \/ Resetting(t) /\ Level
              \/ \E f \in Frame :
                    /\ Ahead(f)
                    /\ Copying(f, SendNext \o t) \/ Advancing(f, SendNext \o t) \/ Holding(f, SendNext \o t)
    BY <1>1, <1>8 DEF Flow
  <2>2. t \in Seq(Accesses) /\ SendNext \o t \in Seq(Accesses)
    BY <1>4
  <2>3. CASE Idle(t) /\ Level
    <3>1. Idle(CancelNext)
      BY <1>5, <2>3
    <3>2. Idle(<<>>)' /\ Domains' /\ OneWriter' /\ UNCHANGED wire
      BY <1>1, <1>2, <1>8, <3>1, CancelStep
    <3>3. Flow'
      BY <1>3, <1>8, <2>3, <3>2 DEF Flow, Level
    <3> QED
      BY <1>6, <3>2, <3>3
  <2>4. CASE Resetting(t) /\ Level
    <3>1. Idle(t)' /\ Domains' /\ OneWriter' /\ UNCHANGED wire
      BY <1>1, <1>2, <1>8, <2>2, <2>4, ResetStep
    <3>2. Flow'
      BY <1>3, <1>8, <2>4, <3>1 DEF Flow, Level
    <3> QED
      BY <1>6, <3>1, <3>2
  <2>5. ASSUME NEW f \in Frame, Ahead(f), Copying(f, SendNext \o t)
        PROVE  FlowInv' /\ [Promise!Next]_(Promise!vars)
    <3>1. Advancing(f, SendNext \o t)' /\ Domains' /\ OneWriter' /\ UNCHANGED wire
      BY <1>1, <1>2, <1>8, <2>2, <2>5, CopyStep
    <3>2. Flow'
      BY <1>3, <1>8, <2>5, <3>1 DEF Flow, Ahead
    <3> QED
      BY <1>6, <3>1, <3>2
  <2>6. ASSUME NEW f \in Frame, Ahead(f), Advancing(f, SendNext \o t)
        PROVE  FlowInv' /\ [Promise!Next]_(Promise!vars)
    <3>1. Holding(f, SendNext \o t)' /\ Domains' /\ OneWriter' /\ UNCHANGED wire
      BY <1>1, <1>2, <1>8, <2>2, <2>6, AdvanceStep
    <3>2. Flow'
      BY <1>3, <1>8, <2>6, <3>1 DEF Flow, Ahead
    <3> QED
      BY <1>6, <3>1, <3>2
  <2>7. ASSUME NEW f \in Frame, Ahead(f), Holding(f, SendNext \o t)
        PROVE  FlowInv' /\ [Promise!Next]_(Promise!vars)
    <3>1. Resetting(t)' /\ Level' /\ Domains' /\ OneWriter' /\ Beginning' /\ [Promise!Next]_(Promise!vars)
      BY <1>2, <1>8, <2>2, <2>7, SendDelivers
    <3>2. Flow'
      BY <1>3, <1>8, <3>1 DEF Flow
    <3> QED
      BY <1>7, <3>1, <3>2
  <2> QED
    BY <2>1, <2>3, <2>4, <2>5, <2>6, <2>7
<1>9. CASE stage = "returned"
  <2>1. PICK f \in Frame : Ahead(f) /\ (Copying(f, <<>>) \/ Advancing(f, <<>>))
    BY <1>1, <1>5, <1>9 DEF Flow
  <2>2. CASE Copying(f, <<>>)
    <3>1. Advancing(f, <<>>)' /\ Domains' /\ OneWriter' /\ UNCHANGED wire
      BY <1>1, <1>2, <1>4, <1>9, <2>2, CopyStep
    <3>2. Flow'
      BY <1>3, <1>9, <2>1, <3>1 DEF Flow, Ahead
    <3> QED
      BY <1>6, <3>1, <3>2
  <2>3. CASE Advancing(f, <<>>)
    <3>1. Holding(f, <<>>)' /\ Domains' /\ OneWriter' /\ UNCHANGED wire
      BY <1>1, <1>2, <1>4, <1>9, <2>3, AdvanceStep
    <3>2. Flow'
      BY <1>3, <1>9, <2>1, <3>1 DEF Flow, Ahead
    <3> QED
      BY <1>6, <3>1, <3>2
  <2> QED
    BY <2>1, <2>2, <2>3
<1>10. CASE stage = "finishing"
  <2>1. CASE Idle(SendNext) /\ Level
    <3>1. Idle(<<>>)' /\ Domains' /\ OneWriter' /\ UNCHANGED wire
      BY <1>1, <1>2, <1>10, <2>1, SkipStep
    <3>2. Flow'
      BY <1>3, <1>10, <2>1, <3>1 DEF Flow, Level
    <3> QED
      BY <1>6, <3>1, <3>2
  <2>2. CASE Resetting(<<>>) /\ Level
    <3>1. Idle(<<>>)' /\ Domains' /\ OneWriter' /\ UNCHANGED wire
      BY <1>1, <1>2, <1>4, <1>10, <2>2, ResetStep
    <3>2. Flow'
      BY <1>3, <1>10, <2>2, <3>1 DEF Flow, Level
    <3> QED
      BY <1>6, <3>1, <3>2
  <2>3. ASSUME NEW f \in Frame, Ahead(f), Holding(f, SendNext)
        PROVE  FlowInv' /\ [Promise!Next]_(Promise!vars)
    <3>1. Resetting(<<>>)' /\ Level' /\ Domains' /\ OneWriter' /\ Beginning' /\ [Promise!Next]_(Promise!vars)
      BY <1>2, <1>4, <1>10, <2>3, SendDelivers
    <3>2. Flow'
      BY <1>3, <1>10, <3>1 DEF Flow
    <3> QED
      BY <1>7, <3>1, <3>2
  <2> QED
    BY <1>1, <1>5, <1>10, <2>1, <2>2, <2>3 DEF Flow
<1>11. CASE stage \notin {"procedure", "returned", "finishing"}
  BY <1>1, <1>5, <1>11 DEF Flow
<1> QED
  BY <1>8, <1>9, <1>10, <1>11

LEMMA FlowInit == Init => FlowInv /\ Promise!Init
<1> SUFFICES ASSUME Init PROVE FlowInv /\ Promise!Init
  OBVIOUS
<1>1. Flow
  BY DEF Init, Flow, Idle, Level, Goroutine
<1>2. Beginning
  <2>1. accepted = <<>> /\ wire = <<>>
    BY DEF Init
  <2>2. <<>> \in Seq(Frame) /\ Len(<<>>) = 0 /\ SubSeq(<<>>, 1, 0) = <<>>
    BY EmptySeq, SubSeqEmpty
  <2> QED
    BY <2>1, <2>2 DEF Beginning
<1>3. Promise!Init
  BY DEF Init, Promise!Init
<1> QED
  BY <1>1, <1>2, <1>3, DomainsInit DEF Init, FlowInv, OneWriter, Goroutine

LEMMA FlowStep ==
  ASSUME ~Ticking, Frame \subseteq Recorded, FlowInv, [Next]_vars
  PROVE  FlowInv' /\ [Promise!Next]_(Promise!vars)
<1>1. CASE ClientGone
  <2>1. /\ ~clientGone /\ clientGone'
        /\ UNCHANGED <<stage, todo, tick, end, buffer, sent, broken, wire, accepted>>
    BY <1>1 DEF ClientGone, controller, bufio
  <2>2. Promise!Next
    BY <1>1, <2>1 DEF ClientGone, Promise!Next, Promise!Drop
  <2> QED
    BY <2>1, <2>2 DEF FlowInv, Domains, OneWriter, Flow, Beginning, Idle, Copying, Advancing, Holding,
         Resetting, Level, Ahead
<1>2. CASE Tick
  BY <1>2 DEF Tick
<1>3. CASE BeatTick
  BY <1>3 DEF BeatTick, FlowInv
<1>4. CASE BeatDone \/ UNCHANGED vars
  <2>1. UNCHANGED <<stage, todo, tick, clientGone, end, buffer, sent, broken, wire, accepted>>
    BY <1>4 DEF BeatDone, vars, controller, connection, bufio
  <2> QED
    BY <2>1, KeepFrames DEF FlowInv, Domains, OneWriter, Flow, Idle, Copying, Advancing, Holding,
         Resetting, Level, Ahead
<1> QED
  BY <1>1, <1>2, <1>3, <1>4, PipelineFlows, ProcedureFlows, HandlerFlows DEF Next

\* A stream in which no heartbeat falls due implements EventStream, as far as
\* safety goes: whatever Init, Push, Close and handleError hand over is on the
\* connection at most once, in that order and nothing in between, also when
\* values cannot be encoded, checks or the procedure fail and the client drops
\* the connection at any point (Init, Push, Close; procedures_sse.go).
THEOREM StreamIsEventStream ==
  ASSUME ~Ticking, Frame \subseteq Recorded
  PROVE  Spec => Promise!Init /\ [][Promise!Next]_(Promise!vars)
<1>1. Init => FlowInv /\ Promise!Init
  BY FlowInit
<1>2. FlowInv /\ [Next]_vars => FlowInv' /\ [Promise!Next]_(Promise!vars)
  BY FlowStep
<1>3. QED
  BY <1>1, <1>2, SpecIsSafe, PTL

\* What has reached the connection is always the beginning of what the handler
\* handed over, also after the connection was lost with frames under way.
THEOREM WireIsBeginning ==
  ASSUME ~Ticking, Frame \subseteq Recorded
  PROVE  Spec => [](Len(wire) <= Len(accepted) /\ wire = SubSeq(accepted, 1, Len(wire)))
<1>1. Init => FlowInv
  BY FlowInit
<1>2. FlowInv /\ [Next]_vars => FlowInv'
  BY FlowStep
<1>3. FlowInv => Len(wire) <= Len(accepted) /\ wire = SubSeq(accepted, 1, Len(wire))
  BY DEF FlowInv, Beginning
<1>4. QED
  BY <1>1, <1>2, <1>3, SpecIsSafe, PTL
=============================================================================
