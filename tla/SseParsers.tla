------------------------------ MODULE SseParsers ------------------------------
(***************************************************************************)
(* How the clients turn the body of an event stream into events.  The body *)
(* arrives in chunks, cut wherever the network and the read buffers cut it; *)
(* a client decodes a chunk, puts it behind the text it kept, parses that   *)
(* and keeps what follows the last complete event.                         *)
(*                                                                         *)
(* The wire is a sequence of bytes: "n" and "r" end lines, the names of the *)
(* fields and the words of the values count as one byte each, and "hi","lo" *)
(* are the two bytes of the one character that needs two.                  *)
(***************************************************************************)
EXTENDS Naturals, Sequences, SequencesExt, FiniteSets

CONSTANTS Parsers,  \* of "dart", "kotlin", "rust", "swift"
          Streams,  \* [bytes, events, ends]: bodies, their events and where each ends
          MaxChunks \* bound: the chunks of a stream
Fields == {"id:", "event:", "data:", "retry:"}

VARIABLES parser, stream,
          read,      \* how many bytes of the stream were received
          undecoded, \* bytes held by a decoder that waits for the rest of a character
          kept,      \* the text in pendingData
          events,    \* the events the client found
          crashed,
          cuts       \* history: where the chunks ended
parsing == <<parser, stream, read, undecoded, kept, events, crashed, cuts>>

None == <<"none">>
Event(id, event, data, retry) == [id |-> id, event |-> event, data |-> data, retry |-> retry]

(***************************************************************************)
(* Decoding.                                                               *)
(***************************************************************************)
\* Characters of the bytes; half a character becomes a replacement character.
Decoded(cs, b) == CASE b = "lo" /\ cs # <<>> /\ Last(cs) = "half" -> Append(Front(cs), "char")
                    [] b = "hi" -> Append(cs, "half")
                    [] b = "lo" /\ (cs = <<>> \/ Last(cs) # "half") -> Append(cs, "bad")
                    [] OTHER -> Append(cs, b)
Lossy(bytes) ==
  LET text[i \in 0 .. Len(bytes)] == IF i = 0 THEN <<>> ELSE Decoded(text[i - 1], bytes[i])
  IN text[Len(bytes)]
Replaced(bytes) == [i \in DOMAIN Lossy(bytes) |-> IF Lossy(bytes)[i] = "half" THEN "bad" ELSE Lossy(bytes)[i]]
Utf8(bytes) == \A i \in DOMAIN Replaced(bytes) : Replaced(bytes)[i] # "bad"
Encoded(cs) == FlattenSeq([i \in DOMAIN cs |-> IF cs[i] = "char" THEN <<"hi", "lo">> ELSE <<cs[i]>>])

(***************************************************************************)
(* The fields of an event, from its lines.                                 *)
(***************************************************************************)
Fresh == [id |-> None, event |-> None, data |-> None, retry |-> None]
LineResult(fields, line) ==
  IF line = <<>> THEN fields
  ELSE CASE Head(line) = "id:" -> [fields EXCEPT !.id = Tail(line)]
         [] Head(line) = "event:" -> [fields EXCEPT !.event = Tail(line)]
         [] Head(line) = "data:" -> [fields EXCEPT !.data = Tail(line)]
         [] Head(line) = "retry:" -> [fields EXCEPT !.retry = Tail(line)]
         [] OTHER -> fields
\* An empty id or event name counts as none in the Swift client.
SwiftLineResult(fields, line) ==
  IF line # <<>> /\ Head(line) \in {"id:", "event:"} /\ Tail(line) = <<>> THEN fields ELSE LineResult(fields, line)
Finished(found, fields) ==
  IF fields.data = None THEN found
  ELSE Append(found, Event(fields.id, IF fields.event = None THEN <<"message">> ELSE fields.event,
                           fields.data, fields.retry))

(***************************************************************************)
(* Dart and Kotlin split the text into lines.                              *)
(***************************************************************************)
\* The line an end of line closes; what follows the last end is a line too.
SplitStep(a, c) ==
  CASE c = "n" /\ a.cr -> [a EXCEPT !.cr = FALSE]
    [] c = "r" \/ (c = "n" /\ ~ a.cr) -> [done |-> Append(a.done, a.line), line |-> <<>>, cr |-> c = "r"]
    [] OTHER -> [a EXCEPT !.line = Append(@, c), !.cr = FALSE]
Split(cs) ==
  LET at[i \in 0 .. Len(cs)] ==
        IF i = 0 THEN [done |-> <<>>, line |-> <<>>, cr |-> FALSE] ELSE SplitStep(at[i - 1], cs[i])
  IN at[Len(cs)]
Lines(cs) == Append(Split(cs).done, Split(cs).line)
\* Dart's LineSplitter leaves that one out when it is empty.
DartLines(cs) == IF Last(Lines(cs)) = <<>> THEN Front(Lines(cs)) ELSE Lines(cs)

\* Mutant: an event ends with every line.
LineStepEnds(a, line) ==
  [events |-> Finished(a.events, LineResult(a.fields, line)), fields |-> Fresh, rest |-> <<>>]
\* The loop over the lines; the lines that follow the last empty one are kept.
LineStep(a, line) ==
  IF line = <<>> THEN [events |-> Finished(a.events, a.fields), fields |-> Fresh, rest |-> <<>>]
  ELSE [a EXCEPT !.fields = LineResult(@, line), !.rest = Append(@, line)]
Parsed(lines) ==
  LET at[i \in 0 .. Len(lines)] ==
        IF i = 0 THEN [events |-> <<>>, fields |-> Fresh, rest |-> <<>>] ELSE LineStep(at[i - 1], lines[i])
  IN at[Len(lines)]
\* No line end follows the last line.
Joined(lines) == FlattenSeq([i \in DOMAIN lines |-> IF i = 1 THEN lines[i] ELSE <<"n">> \o lines[i]])
ParseLines(lines) == [events |-> Parsed(lines).events, crashed |-> FALSE, kept |-> Joined(Parsed(lines).rest)]

(***************************************************************************)
(* Rust and Swift go through the characters.  next is the index of the      *)
(* character after the last complete event, counted from 0.                *)
(***************************************************************************)
Start == [line |-> <<>>, prev |-> "", ignore |-> FALSE, fields |-> Fresh, events |-> <<>>, next |-> 0,
          skip |-> FALSE, crashed |-> FALSE]
EndEvent(a) == [a EXCEPT !.events = Finished(@, a.fields), !.fields = Fresh]
\* The fields after the line that c ends.
LineClosed(p, a) ==
  [a EXCEPT !.fields = IF p = "swift" THEN SwiftLineResult(@, a.line) ELSE LineResult(@, a.line), !.line = <<>>]
LineFeed(p, a, i) ==
  IF a.ignore THEN [a EXCEPT !.ignore = FALSE]
  ELSE IF a.prev = "n" THEN [EndEvent(LineClosed(p, a)) EXCEPT !.next = i] ELSE LineClosed(p, a)

\* Rust takes the character after a carriage return that ends an event as well.
RustReturn(a, cs, i) ==
  LET ended == EndEvent(a)
  IN CASE i = Len(cs) -> [ended EXCEPT !.next = i - 1]
       [] i < Len(cs) /\ cs[i + 1] \in {"n", "r"} -> [ended EXCEPT !.next = i + 1, !.skip = TRUE]
       [] OTHER -> [ended EXCEPT !.next = i, !.skip = TRUE, !.line = <<cs[i + 1]>>]
SwiftReturn(a, cs, i) ==
  IF i = Len(cs) THEN [a EXCEPT !.crashed = TRUE]   \* no character at that index
  ELSE [EndEvent(a) EXCEPT !.next = IF cs[i + 1] \in {"n", "r"} THEN i + 1 ELSE i]
CarriageReturn(p, a, cs, i) ==
  LET closed == [LineClosed(p, a) EXCEPT !.ignore = TRUE]
  IN CASE a.prev \notin {"n", "r"} -> closed
       [] a.prev \in {"n", "r"} /\ p = "rust" -> RustReturn(closed, cs, i)
       [] OTHER -> SwiftReturn(closed, cs, i)

\* One turn of the loop over the characters, and all of them.
CharStep(p, a, cs, i) ==
  LET c == cs[i]
      b == CASE c = "r" -> CarriageReturn(p, a, cs, i)
             [] c = "n" -> LineFeed(p, a, i)
             [] OTHER -> [a EXCEPT !.ignore = FALSE, !.line = Append(@, c)]
  IN IF a.skip THEN [a EXCEPT !.skip = FALSE] ELSE [b EXCEPT !.prev = c]
Scanned(p, cs) ==
  LET at[i \in 0 .. Len(cs)] == IF i = 0 THEN Start ELSE CharStep(p, at[i - 1], cs, i)
  IN at[Len(cs)]
SseMessageList(cs) == Scanned("rust", cs)
\* The index counts characters and the text is cut by bytes: a panic inside a character.
RustParse(cs) ==
  LET a == SseMessageList(cs)
      rest == SubSeq(Encoded(cs), a.next + 1, Len(Encoded(cs)))
  IN [events |-> a.events, crashed |-> rest # <<>> /\ Head(rest) = "lo", kept |-> Lossy(rest)]

\* A carriage return and a line feed are one Character to Swift.
Characters(cs) ==
  LET at[i \in 0 .. Len(cs)] ==
        IF i = 0 THEN <<>>
        ELSE IF cs[i] = "n" /\ at[i - 1] # <<>> /\ Last(at[i - 1]) = "r" THEN Append(Front(at[i - 1]), "rn")
        ELSE Append(at[i - 1], cs[i])
  IN at[Len(cs)]
SseEventList(gs) == Scanned("swift", gs)
SwiftParse(cs) ==
  LET a == SseEventList(Characters(cs))
      rest == SubSeq(Characters(cs), a.next + 1, Len(Characters(cs)))
  IN [events |-> a.events, crashed |-> a.crashed,
      kept |-> FlattenSeq([i \in DOMAIN rest |-> IF rest[i] = "rn" THEN <<"r", "n">> ELSE <<rest[i]>>])]

(***************************************************************************)
(* The streams: events one after the other, each written as lines that end *)
(* with a line end and an empty line after them.  An event is what its     *)
(* fields say, whatever reads them.                                        *)
(***************************************************************************)
EndOf(s, k) == IF k = 0 THEN 0 ELSE s.ends[k]
Block(s, k) == SubSeq(s.bytes, EndOf(s, k - 1) + 1, s.ends[k])

Says(lines, name, value, default) ==
  /\ \A i \in DOMAIN lines : Head(lines[i]) = name => value = Tail(lines[i])
  /\ (\A i \in DOMAIN lines : Head(lines[i]) # name) => value = default
SaysEvent(lines, e) ==
  /\ e = Event(e.id, e.event, e.data, e.retry) /\ e.data # None
  /\ Says(lines, "id:", e.id, None) /\ Says(lines, "event:", e.event, <<"message">>)
  /\ Says(lines, "data:", e.data, None) /\ Says(lines, "retry:", e.retry, None)
\* A line of an event; an id or an event name is not empty.
IsFieldLine(line) == line # <<>> /\ (Head(line) \in {"id:", "event:"} => Tail(line) # <<>>)
IsWritten(text, e) ==
  LET done == Split(text).done
  IN /\ Split(text).line = <<>> /\ done # <<>> /\ Last(done) = <<>>
     /\ \A i \in DOMAIN Front(done) : IsFieldLine(done[i])
     /\ SaysEvent(Front(done), e)
WellFormed(s) ==
  /\ s.bytes \in Seq(Range(s.bytes))
  /\ Range(s.bytes) \cap {"none", "half", "char", "bad", "rn"} = {}
  /\ \A p \in DOMAIN s.bytes : s.bytes[p] = "lo" <=> p > 1 /\ s.bytes[p - 1] = "hi"
  \* A line begins with the name of a field, or is empty.
  /\ \A p \in DOMAIN s.bytes : p > 1 /\ s.bytes[p - 1] \in {"n", "r"} => s.bytes[p] \in Fields \cup {"n", "r"}
  /\ s.ends \in Seq(Nat) /\ s.events \in Seq(Range(s.events)) /\ Len(s.events) = Len(s.ends)
  /\ EndOf(s, Len(s.ends)) = Len(s.bytes)
  /\ \A k \in DOMAIN s.ends :
       /\ EndOf(s, k - 1) < s.ends[k]
       /\ Head(Block(s, k)) \in Fields
       /\ IsWritten(Lossy(Block(s, k)), s.events[k])
ASSUME StreamsAssumption == \A s \in Streams : WellFormed(s)

(***************************************************************************)
(* A chunk arrives.                                                        *)
(***************************************************************************)
ParserInit ==
  /\ parser \in Parsers /\ stream \in Streams
  /\ read = 0 /\ undecoded = <<>> /\ kept = <<>> /\ events = <<>> /\ crashed = FALSE /\ cuts = {}

Chunk(n) == SubSeq(stream.bytes, read + 1, n)
Receive(n) == read' = n /\ cuts' = cuts \cup {n} /\ UNCHANGED <<parser, stream>>
Found(r) == events' = events \o r.events /\ kept' = r.kept /\ crashed' = r.crashed

\* Mutant: the rest is put behind the text that was kept before.
KotlinFeedKeepsMore(n) ==
  LET r == ParseLines(Lines(kept \o Replaced(Chunk(n)))) IN
  /\ parser = "kotlin"
  /\ events' = events \o r.events /\ crashed' = FALSE
  /\ kept' = IF r.kept = <<>> THEN <<>> ELSE kept \o r.kept
  /\ UNCHANGED undecoded

\* The stream's decoder holds the first half of a character back.
DartFeed(n) ==
  LET bytes == undecoded \o Chunk(n)
      held == IF Last(bytes) = "hi" THEN <<"hi">> ELSE <<>>
  IN /\ parser = "dart"
     /\ undecoded' = held
     /\ Found(ParseLines(DartLines(kept \o Lossy(SubSeq(bytes, 1, Len(bytes) - Len(held))))))
KotlinFeed(n) ==
  /\ parser = "kotlin"
  /\ Found(ParseLines(Lines(kept \o Replaced(Chunk(n)))))
  /\ UNCHANGED undecoded
\* A chunk is parsed only if it ends with an empty line itself.
RustFeed(n) ==
  LET text == Lossy(Chunk(n)) IN
  /\ parser = "rust"
  /\ IF ~ Utf8(Chunk(n)) THEN UNCHANGED <<events, kept, crashed>>
     ELSE IF ~ IsSuffix(<<"n", "n">>, text) THEN kept' = kept \o text /\ UNCHANGED <<events, crashed>>
     ELSE Found(RustParse(kept \o text))
  /\ UNCHANGED undecoded
SwiftFeed(n) ==
  /\ parser = "swift"
  /\ Found(SwiftParse(kept \o Replaced(Chunk(n))))
  /\ UNCHANGED undecoded

ParserNext ==
        /\ ~ crashed /\ Cardinality(cuts) < MaxChunks
        /\ \E n \in read + 1 .. Len(stream.bytes) :
             Receive(n) /\ (DartFeed(n) \/ KotlinFeed(n) \/ RustFeed(n) \/ SwiftFeed(n))
ParserSpec == ParserInit /\ [][ParserNext]_parsing

(***************************************************************************)
(* Where a client is known to go wrong, and what it must do elsewhere.      *)
(***************************************************************************)
MultiByte == "hi" \in Range(stream.bytes)
InCharacter(n) == n < Len(stream.bytes) /\ stream.bytes[n + 1] = "lo"
LineEnd(n) == stream.bytes[n] \in {"n", "r"}
\* The end of a line that another line of the same event follows.
Between(n) == /\ LineEnd(n) /\ n < Len(stream.bytes)
              /\ stream.bytes[n + 1] \notin {"n", "r"} /\ n \notin Range(stream.ends)
\* The end of the last line of an event, or half of it.
BeforeEmpty(n) == /\ LineEnd(n) /\ n < Len(stream.bytes) /\ stream.bytes[n + 1] \in {"n", "r"}
                  /\ n \notin Range(stream.ends)
HasReturns == "r" \in Range(stream.bytes)
Safe == CASE parser = "dart" -> \A n \in cuts : ~ Between(n) /\ ~ BeforeEmpty(n)
          [] parser = "kotlin" -> \A n \in cuts : ~ Between(n) /\ ~ InCharacter(n) /\ ~ (HasReturns /\ BeforeEmpty(n))
          [] parser = "rust" -> ~ HasReturns /\ ~ MultiByte
          [] OTHER -> ~ HasReturns /\ \A n \in cuts : ~ InCharacter(n)
\* Rust waits for a chunk that ends with an event, in two bytes of that chunk.
Prompt == parser = "rust" => read \in Range(stream.ends) /\ read - 1 \notin cuts
\* The events that end within the first n bytes.
Arrived(n) == Cardinality({k \in DOMAIN stream.ends : stream.ends[k] <= n})
Due == SubSeq(stream.events, 1, Arrived(read))

\* However else the stream is cut, a client finds the events that were sent, in
\* their order, each once and none made of the parts of two, and it finds every
\* event that has arrived.
FindsWhatWasSent ==
  Safe => /\ ~ crashed
          /\ IsPrefix(events, stream.events)
          /\ Prompt => IsPrefix(Due, events)
\* The text kept for the next chunk holds no complete event: it stays as short
\* as an event is, however long the stream.
KeepsAPart ==
  Safe /\ Prompt => Len(kept) <= read - EndOf(stream, Arrived(read))
===============================================================================
