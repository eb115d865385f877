------------------------------ MODULE MCClients ------------------------------
(***************************************************************************)
(* The two halves of the clients' event sources: the loop of requests       *)
(* (EventSources), where what a chunk holds is given, and the parser        *)
(* (SseParsers), which finds it.  A behaviour is of one of the two: of the  *)
(* loop if parser is "none".                                               *)
(***************************************************************************)
EXTENDS EventSources, SseParsers

MCChunks == {<<"message">>, <<"unnamed", "message">>, <<"message", "done">>, <<"other">>}

\* Streams of two or three short events, with every kind of line end, in the
\* lines in which the servers write an event.
Ev(id, event, data) == [id |-> id, event |-> event, data |-> data, retry |-> None]
Field(name, value) == IF value = None THEN <<>> ELSE << <<name>> \o value >>
LinesOf(e) == Field("id:", e.id) \o (IF e.event = <<"message">> THEN <<>> ELSE Field("event:", e.event))
              \o Field("data:", e.data)
Written(e, eol) == FlattenSeq([i \in DOMAIN LinesOf(e) |-> LinesOf(e)[i] \o eol]) \o eol
\* The character of two bytes, read as one.
Text(data) == IF Len(data) = 3 THEN <<data[1], "char">> ELSE data
Made(es, eol) ==
  LET bytes(k) == FlattenSeq([i \in 1..k |-> Written(es[i], eol)])
  IN [bytes |-> bytes(Len(es)), ends |-> [k \in DOMAIN es |-> Len(bytes(k))],
      events |-> [i \in DOMAIN es |-> [es[i] EXCEPT !.data = Text(@)]]]
Eols == {<<"n">>, <<"r", "n">>, <<"r">>}
MCStreams ==
  {Made(<<Ev(<<"1">>, <<"message">>, <<"a">>), Ev(None, <<"message">>, <<"b", "a">>)>>, eol) : eol \in Eols} \cup
  {Made(<<Ev(None, <<"message">>, <<"a", "hi", "lo">>), Ev(<<"1">>, <<"message">>, <<"b">>)>>, eol) : eol \in Eols} \cup
  {Made(<<Ev(None, <<"message">>, <<"a">>), Ev(None, <<"message">>, <<>>), Ev(None, <<"done">>, <<"b">>)>>, eol) : eol \in Eols}

MCInit == \/ Init /\ parser = "none" /\ stream = [bytes |-> <<>>, events |-> <<>>, ends |-> <<>>] /\ read = 0 /\ undecoded = <<>> /\ kept = <<>>
                  /\ events = <<>> /\ crashed = FALSE /\ cuts = {}
          \/ ParserInit /\ Init /\ client = "kotlin"
MCNext == \/ parser = "none" /\ Next /\ UNCHANGED parsing
          \/ parser # "none" /\ ParserNext /\ UNCHANGED vars
MCSpec == /\ MCInit /\ [][MCNext]_<<vars, parsing>>
          /\ WF_vars(parser = "none" /\ (Rust \/ Swift)) /\ WF_vars(parser = "none" /\ Unwind)
===============================================================================
