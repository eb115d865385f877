-------------------------- MODULE RpcServers_proofs --------------------------
(***************************************************************************)
(* Proofs of what the two servers' applications promise, for any           *)
(* procedures, routes and requests.                                        *)
(*                                                                         *)
(* OneAnswer: the invariant says of every stage of a handler what was      *)
(* written before it.                                                      *)
(* ListedIsServed: the invariant relates a name in the listing to the      *)
(* procedure under the path it lists, and a model's name to its shape.     *)
(***************************************************************************)
EXTENDS RpcServers, SequenceFacts, TLAPS

(***************************************************************************)
(* The Go server: a request.                                               *)
(***************************************************************************)
Early == {"create", "method", "onRequest", "middleware", "params", "handler"}

\* What was written of a procedure's response before each stage of its handler.
GoWritten ==
  /\ at \in Early => body = <<>> /\ status = 0
  /\ at = "before" => body = <<>> /\ status = 0 /\ ran
  /\ at = "encode" => body = <<>> /\ status = 200 /\ ran
  /\ at = "after" => body = <<"result">> /\ status = 200 /\ ran
GoExchange ==
  server = "go" =>
    /\ at # "idle" => app = "serving"
    /\ at \notin {"idle", "done"} /\ Go!Target(request) = "rpc" =>
         at \in Early \cup {"before", "encode", "after"} /\ told = 0 /\ GoWritten
    /\ Go!OneAnswer

\* The row of stages of a procedure's handler.
LEMMA GoRow ==
  /\ \A stage \in Early : Go!Following("rpc", stage) \in Early \cup {"before"}
  /\ \A stage \in Early : Go!Following("rpc", stage) = "before" <=> stage = "handler"
  /\ Go!Following("rpc", "before") = "encode"
  /\ Go!Following("rpc", "encode") = "after"
  /\ Go!Following("rpc", "after") = "done"
<1> DEFINE row == Go!Stages("rpc")
           place(stage) == CHOOSE i \in DOMAIN row : row[i] = stage
<1>1. row = <<"create", "method", "onRequest", "middleware", "params", "handler", "before", "encode", "after">>
  BY DEF Go!Stages
<1> HIDE DEF row
<1>2. DOMAIN row = 1 .. 9 /\ Len(row) = 9
  BY <1>1
<1>3. /\ place("create") = 1 /\ place("method") = 2 /\ place("onRequest") = 3 /\ place("middleware") = 4
      /\ place("params") = 5 /\ place("handler") = 6 /\ place("before") = 7 /\ place("encode") = 8
      /\ place("after") = 9
  BY <1>1, <1>2
<1>4. ASSUME NEW stage
      PROVE  Go!Following("rpc", stage) = IF place(stage) = 9 THEN "done" ELSE row[place(stage) + 1]
  BY <1>2 DEF Go!Following, row
<1>5. /\ Go!Following("rpc", "create") = "method" /\ Go!Following("rpc", "method") = "onRequest"
      /\ Go!Following("rpc", "onRequest") = "middleware" /\ Go!Following("rpc", "middleware") = "params"
      /\ Go!Following("rpc", "params") = "handler" /\ Go!Following("rpc", "handler") = "before"
      /\ Go!Following("rpc", "before") = "encode" /\ Go!Following("rpc", "encode") = "after"
      /\ Go!Following("rpc", "after") = "done"
  <2> HIDE DEF place
  <2> QED
    BY <1>1, <1>3, <1>4
<1> QED
  BY <1>5 DEF Early

LEMMA OnePart == Append(<<>>, "result") = <<"result">> /\ Append(<<>>, "error") = <<"error">>
OBVIOUS

\* A stage that passes leaves what the next one expects.
LEMMA GoPassKeeps ==
  ASSUME GoExchange, server = "go", server' = server, Go!Pass PROVE GoExchange'
<1>1. /\ at \notin {"idle", "done"} /\ at' = Go!Following(Go!Target(request), at)
      /\ UNCHANGED <<procedures, definitions, routes, middleware, app, request, told>>
  BY DEF Go!Pass, Go!InProgress, Go!listing
<1>2. Go!Target(request)' = Go!Target(request) /\ (Go!Function)' = Go!Function
  BY <1>1 DEF Go!Target, Go!Function
<1>3. app = "serving" /\ app' = "serving"
  BY <1>1 DEF GoExchange
<1>4. CASE Go!Target(request) # "rpc"
  BY <1>2, <1>3, <1>4 DEF GoExchange, Go!OneAnswer
<1>5. CASE Go!Target(request) = "rpc"
  <2>1. at \in Early \cup {"before", "encode", "after"} /\ told = 0 /\ GoWritten
    BY <1>1, <1>5 DEF GoExchange
  <2>2. /\ status' = IF at = "before" THEN (IF status = 0 THEN 200 ELSE status) ELSE status
        /\ body' = IF at = "encode" THEN Append(body, "result") ELSE body
        /\ ran' = (ran \/ at = "handler")
    BY <1>5 DEF Go!Pass, Go!WritesStatus, Go!WritesBody, Go!FirstStatus
  <2>3. CASE at \in Early
    <3>1. at' \in Early \cup {"before"} /\ (at' = "before" <=> at = "handler") /\ at' \notin {"encode", "after", "done"}
      BY <1>1, <1>5, <2>3, GoRow DEF Early
    <3>2. body' = <<>> /\ status' = 0 /\ (at' = "before" => ran')
      BY <2>1, <2>2, <2>3, <3>1 DEF GoWritten, Early
    <3> QED
      BY <1>1, <1>2, <1>3, <2>1, <3>1, <3>2 DEF GoExchange, GoWritten, Early, Go!OneAnswer
  <2>4. CASE at = "before"
    <3>1. at' = "encode" /\ body' = <<>> /\ status' = 200 /\ ran'
      BY <1>1, <1>5, <2>1, <2>2, <2>4, GoRow DEF GoWritten
    <3> QED
      BY <1>1, <1>2, <1>3, <2>1, <3>1 DEF GoExchange, GoWritten, Early, Go!OneAnswer
  <2>5. CASE at = "encode"
    <3>1. at' = "after" /\ body' = <<"result">> /\ status' = 200 /\ ran'
      BY <1>1, <1>5, <2>1, <2>2, <2>5, GoRow, OnePart DEF GoWritten
    <3> QED
      BY <1>1, <1>2, <1>3, <2>1, <3>1 DEF GoExchange, GoWritten, Early, Go!OneAnswer
  <2>6. CASE at = "after"
    <3>1. at' = "done" /\ body' = <<"result">> /\ status' = 200 /\ ran' /\ told' = 0
      BY <1>1, <1>5, <2>1, <2>2, <2>6, GoRow DEF GoWritten
    <3> QED
      BY <1>3, <3>1 DEF GoExchange, Go!OneAnswer
  <2> QED
    BY <2>1, <2>3, <2>4, <2>5, <2>6
<1> QED
  BY <1>4, <1>5

\* A stage that fails ends the request with the one answer it has.
LEMMA GoFailKeeps ==
  ASSUME GoExchange, server = "go", server' = server, Go!FailStage PROVE GoExchange'
<1>1. /\ at \notin {"idle", "done"} /\ Go!MayFail(Go!Target(request)) /\ Go!HandleError(at = "after")
      /\ at' = IF Go!Target(request) = "definition" /\ at = "onRequest" THEN "before" ELSE "done"
      /\ ran' = (ran \/ at = "handler")
      /\ UNCHANGED <<procedures, definitions, routes, middleware, app, request>>
  BY DEF Go!FailStage, Go!InProgress, Go!listing
<1>2. Go!Target(request)' = Go!Target(request) /\ (Go!Function)' = Go!Function
  BY <1>1 DEF Go!Target, Go!Function
<1>3. app = "serving" /\ app' = "serving"
  BY <1>1 DEF GoExchange
<1>4. CASE Go!Target(request) # "rpc"
  BY <1>2, <1>3, <1>4 DEF GoExchange, Go!OneAnswer
<1>5. CASE Go!Target(request) = "rpc"
  <2>1. at \in Early \cup {"before", "encode", "after"} /\ told = 0 /\ GoWritten
    BY <1>1, <1>5 DEF GoExchange
  <2>2. at' = "done" /\ told' = 1
    BY <1>1, <1>5, <2>1 DEF Go!HandleError
  <2>3. CASE at = "after"
    <3>1. body' = <<"result">> /\ status' = 200 /\ ran'
      BY <1>1, <2>1, <2>3 DEF GoWritten, Go!HandleError
    <3> QED
      BY <1>3, <2>2, <3>1 DEF GoExchange, Go!OneAnswer
  <2>4. CASE at = "encode"
    <3>1. body' = <<"error">> /\ ran'
      BY <1>1, <2>1, <2>4, OnePart DEF GoWritten, Go!HandleError
    <3>2. Go!Function.response # Go!Empty
      BY <1>1, <2>4 DEF Go!MayFail
    <3> QED
      BY <1>2, <1>3, <2>2, <3>1, <3>2 DEF GoExchange, Go!OneAnswer
  <2>5. CASE at \in Early \cup {"before"}
    <3>1. body' = <<"error">> /\ status' = Go!ErrorCode
      BY <1>1, <2>1, <2>5, OnePart DEF GoWritten, Go!HandleError, Go!FirstStatus, Early
    <3>2. status' >= 400
      BY <2>5, <3>1 DEF Go!ErrorCode, Early
    <3> QED
      BY <1>3, <2>2, <3>1, <3>2 DEF GoExchange, Go!OneAnswer
  <2> QED
    BY <2>1, <2>3, <2>4, <2>5
<1> QED
  BY <1>4, <1>5

\* Only a server that serves has a request, so registering leaves it alone.
LEMMA GoExchangeStep ==
  ASSUME GoExchange, [Next]_vars PROVE GoExchange'
<1>1. CASE UNCHANGED vars
  BY <1>1 DEF GoExchange, GoWritten, Go!Target, Go!Function, Go!OneAnswer, vars, goOnly
<1>2. CASE server # "go" /\ Next
  BY <1>2 DEF Next, GoExchange
<1>3. CASE server = "go" /\ Next
  <2>1. server' = server /\ Go!Next
    BY <1>3 DEF Next
  <2>2. CASE app = "registering" /\ UNCHANGED Go!exchange
    <3>1. at = "idle" /\ at' = "idle"
      BY <1>3, <2>2 DEF GoExchange, Go!exchange
    <3> QED
      BY <3>1 DEF GoExchange, Go!OneAnswer
  <2>3. ASSUME NEW q \in Requests, Go!Arrive(q) PROVE GoExchange'
    <3>1. app = "serving" /\ app' = "serving"
      BY <2>3 DEF Go!Arrive, Go!listing
    <3>2. CASE q.method = "options"
      <4>1. at' = "done" /\ status' = 200 /\ body' = <<"ok">> /\ told' = 0
        BY <2>3, <3>2 DEF Go!Arrive
      <4> QED
        BY <3>1, <4>1 DEF GoExchange, Go!OneAnswer
    <3>3. CASE q.method # "options"
      <4>1. at' = "create" /\ status' = 0 /\ body' = <<>> /\ told' = 0
        BY <2>3, <3>3 DEF Go!Arrive
      <4> QED
        BY <3>1, <4>1 DEF GoExchange, GoWritten, Early, Go!OneAnswer
    <3> QED
      BY <3>2, <3>3
  <2>4. CASE Go!Pass
    BY <1>3, <2>1, <2>4, GoPassKeeps
  <2>5. CASE Go!FailStage
    BY <1>3, <2>1, <2>5, GoFailKeeps
  <2>6. CASE Go!Again
    BY <2>6 DEF Go!Again, GoExchange, Go!OneAnswer
  <2>7. ASSUME NEW p \in Functions, Go!Register(p) PROVE GoExchange'
    BY <2>2, <2>7 DEF Go!Register
  <2>8. ASSUME NEW m \in Models, Go!RegisterDef(m) PROVE GoExchange'
    BY <2>2, <2>8 DEF Go!RegisterDef
  <2>9. CASE Go!Use \/ Go!Run
    BY <2>2, <2>9 DEF Go!Use, Go!Run
  <2> QED
    BY <2>1, <2>3, <2>4, <2>5, <2>6, <2>7, <2>8, <2>9 DEF Go!Next
<1> QED
  BY <1>1, <1>2, <1>3
-----------------------------------------------------------------------------
(***************************************************************************)
(* The TypeScript server: how calls of rpc add up when a service is used.  *)
(***************************************************************************)
\* The first k calls that ArriApp.use makes for a service.
BuiltUpTo(s, k, built) ==
  built = [n \in 0 .. k |->
             IF n = 0 THEN Ts!Built
             ELSE Ts!Rpc(built[n - 1], built[n - 1].nameOf[services[s][n]], services[s][n])]

\* They can be made up to any number.
LEMMA BuiltExists ==
  ASSUME NEW s, NEW k \in Nat PROVE \E built : BuiltUpTo(s, k, built)
<1> DEFINE P == {n \in Nat : \E built : BuiltUpTo(s, n, built)}
           call(a, n) == Ts!Rpc(a, a.nameOf[services[s][n]], services[s][n])
<1> HIDE DEF call
<1>1. ASSUME NEW n, NEW built
      PROVE  BuiltUpTo(s, n, built) <=> built = [m \in 0 .. n |-> IF m = 0 THEN Ts!Built ELSE call(built[m - 1], m)]
  BY DEF BuiltUpTo, call
<1>2. 0 \in P
  <2> DEFINE built == [n \in 0 .. 0 |-> Ts!Built]
  <2>1. built = [m \in 0 .. 0 |-> IF m = 0 THEN Ts!Built ELSE call(built[m - 1], m)]
    OBVIOUS
  <2> QED
    BY <1>1, <2>1
<1>3. ASSUME NEW n \in P PROVE n + 1 \in P
  <2>1. PICK built : BuiltUpTo(s, n, built)
    OBVIOUS
  <2> DEFINE more == [m \in 0 .. n + 1 |-> IF m <= n THEN built[m] ELSE call(built[m - 1], m)]
  <2>2. \A m \in 0 .. n : built[m] = IF m = 0 THEN Ts!Built ELSE call(built[m - 1], m)
    BY <1>1, <2>1
  <2>3. \A m \in 0 .. n + 1 : more[m] = IF m = 0 THEN Ts!Built ELSE call(more[m - 1], m)
    BY <2>2
  <2>4. BuiltUpTo(s, n + 1, more)
    <3> HIDE DEF more
    <3>1. more = [m \in 0 .. n + 1 |-> more[m]]
      BY DEF more
    <3> QED
      BY <1>1, <2>3, <3>1
  <2> QED
    BY <2>4
<1> HIDE DEF P
<1>4. P = Nat
  <2>1. P \in SUBSET Nat
    BY DEF P
  <2> QED
    BY <1>2, <1>3, <2>1, SetInduction
<1> QED
  BY <1>4 DEF P

\* ... and using a service is the last of them.
LEMMA UsedIsBuilt ==
  ASSUME NEW s, Len(services[s]) \in Nat
  PROVE  \E built : BuiltUpTo(s, Len(services[s]), built) /\ Ts!Used(s) = built[Len(services[s])]
<1> DEFINE built == CHOOSE built : BuiltUpTo(s, Len(services[s]), built)
<1>1. Ts!Used(s) = built[Len(services[s])]
  BY DEF Ts!Used, BuiltUpTo
<1>2. BuiltUpTo(s, Len(services[s]), built)
  <2>1. \E f : BuiltUpTo(s, Len(services[s]), f)
    BY BuiltExists
  <2> QED
    BY <2>1, Zenon
<1> QED
  BY <1>1, <1>2
-----------------------------------------------------------------------------
(***************************************************************************)
(* The TypeScript server: what is registered.                              *)
(***************************************************************************)
\* What a call of rpc lists of an object under a name.
DefinedBy(defs, name, o) ==
  Ts!Defined(Ts!Defined(defs, name, Proc[o].params, "Params"), name, Proc[o].response, "Response")
SlotName(name, slot) == Ts!SchemaName(name, slot[1], slot[2])
NamedBy(c) == {SlotName(c[1], slot) : slot \in {slot \in Ts!Slots(c) : slot[1] # Ts!NoSchema}}

LEMMA DefinedFacts ==
  ASSUME NEW defs, NEW name, NEW o
  PROVE  LET D == DefinedBy(defs, name, o) IN
         /\ DOMAIN D = DOMAIN defs \cup NamedBy(<<name, o>>)
         /\ \A k \in NamedBy(<<name, o>>) : \E slot \in Ts!Slots(<<name, o>>) :
              slot[1] # Ts!NoSchema /\ SlotName(name, slot) = k /\ D[k] = slot[1].shape
         /\ \A k \in DOMAIN defs \ NamedBy(<<name, o>>) : D[k] = defs[k]
<1> DEFINE p == Proc[o]
           in == SlotName(name, <<p.params, "Params">>)
           out == SlotName(name, <<p.response, "Response">>)
           first == Ts!Defined(defs, name, p.params, "Params")
           D == DefinedBy(defs, name, o)
<1>1. Ts!Slots(<<name, o>>) = {<<p.params, "Params">>, <<p.response, "Response">>}
  BY DEF Ts!Slots
<1>2. first = IF p.params = Ts!NoSchema THEN defs ELSE Ts!Put(defs, in, p.params.shape)
  BY DEF Ts!Defined, SlotName
<1>3. D = IF p.response = Ts!NoSchema THEN first ELSE Ts!Put(first, out, p.response.shape)
  BY DEF DefinedBy, Ts!Defined, SlotName
<1>4. NamedBy(<<name, o>>) = (IF p.params = Ts!NoSchema THEN {} ELSE {in}) \cup (IF p.response = Ts!NoSchema THEN {} ELSE {out})
  BY <1>1 DEF NamedBy
<1>5. /\ DOMAIN first = DOMAIN defs \cup (IF p.params = Ts!NoSchema THEN {} ELSE {in})
      /\ p.params # Ts!NoSchema => first[in] = p.params.shape
      /\ \A k \in DOMAIN defs : p.params = Ts!NoSchema \/ k # in => first[k] = defs[k]
  <2> HIDE DEF first, in
  <2> QED
    BY <1>2 DEF Ts!Put
<1>6. /\ DOMAIN D = DOMAIN first \cup (IF p.response = Ts!NoSchema THEN {} ELSE {out})
      /\ p.response # Ts!NoSchema => D[out] = p.response.shape
      /\ \A k \in DOMAIN first : p.response = Ts!NoSchema \/ k # out => D[k] = first[k]
  <2> HIDE DEF first, out, D
  <2> QED
    BY <1>3 DEF Ts!Put
<1>7. DOMAIN D = DOMAIN defs \cup NamedBy(<<name, o>>)
  <2> HIDE DEF first, in, out, D
  <2> QED
    BY <1>4, <1>5, <1>6
<1>8. ASSUME NEW k \in DOMAIN defs \ NamedBy(<<name, o>>) PROVE D[k] = defs[k]
  <2> HIDE DEF first, in, out, D
  <2> QED
    BY <1>4, <1>5, <1>6, <1>8
<1>9. ASSUME NEW k \in NamedBy(<<name, o>>)
      PROVE  \E slot \in Ts!Slots(<<name, o>>) :
               slot[1] # Ts!NoSchema /\ SlotName(name, slot) = k /\ D[k] = slot[1].shape
  <2>1. CASE p.response # Ts!NoSchema /\ k = out
    <3>1. D[k] = p.response.shape
      BY <1>6, <2>1
    <3> QED
      BY <1>1, <2>1, <3>1
  <2>2. CASE ~ (p.response # Ts!NoSchema /\ k = out)
    <3>1. p.params # Ts!NoSchema /\ k = in
      BY <1>4, <2>2
    <3>2. D[k] = p.params.shape
      <4> HIDE DEF first, in, out, D
      <4> QED
        BY <1>5, <1>6, <2>2, <3>1
    <3> QED
      BY <1>1, <3>1, <3>2
  <2> QED
    BY <2>1, <2>2
<1> QED
  BY <1>7, <1>8, <1>9

\* Ts!Alone and Ts!NamesAreUnique of a set of calls.
AloneIn(cs) ==
  /\ \A c, d \in cs : c[2] = d[2] \/ c[1] = d[1] \/ Ts!Key(c) = Ts!Key(d) => c = d
  /\ \A c \in cs, r \in Routes : Ts!Key(c) # <<r.path, r.method>>
UniqueIn(cs) ==
  \A c, d \in cs : \A s \in Ts!Slots(c), t \in Ts!Slots(d) :
    /\ s[1] # Ts!NoSchema /\ t[1] # Ts!NoSchema
    /\ SlotName(c[1], s) = SlotName(d[1], t)
    => s[1].shape = t[1].shape

\* What calls of rpc made of an application: the names of objects, the listing,
\* the models it lists and the router.
Calls(cs) == \A c \in cs : c = <<c[1], c[2]>> /\ c[2] \in Objects
Routed(rts) == \A k \in DOMAIN rts : rts[k] \in Objects \cup {"route", "validated", "definition"}
Named(nm, cs) == nm = [o \in Objects |-> nm[o]] /\ (AloneIn(cs) => \A c \in cs : nm[c[2]] = c[1])
ListedAt(procs, rts, c) == /\ procs[c[1]] = Ts!HttpRpcDefinition(Proc[c[2]], c[1])
                           /\ Ts!Key(c) \in DOMAIN rts /\ rts[Ts!Key(c)] = c[2]
Mounts(procs, rts, cs) ==
  AloneIn(cs) => \A n \in DOMAIN procs : \E c \in cs : c[1] = n /\ ListedAt(procs, rts, c)
Resolves(procs, defs, cs) ==
  AloneIn(cs) /\ UniqueIn(cs) =>
    \A c \in cs : c[1] \in DOMAIN procs => \A s \in Ts!Slots(c) : s[1] # Ts!NoSchema =>
      SlotName(c[1], s) \in DOMAIN defs /\ defs[SlotName(c[1], s)] = s[1].shape
Sound(nm, procs, defs, rts, cs) ==
  Calls(cs) /\ Routed(rts) /\ Named(nm, cs) /\ Mounts(procs, rts, cs) /\ Resolves(procs, defs, cs)

\* With fewer calls there is less to be in each other's way.
LEMMA FewerCalls ==
  ASSUME NEW cs, NEW ds, cs \subseteq ds
  PROVE  (AloneIn(ds) => AloneIn(cs)) /\ (UniqueIn(ds) => UniqueIn(cs))
BY DEF AloneIn, UniqueIn

\* Writing a name into an object, under which it is called.
LEMMA NamedOne ==
  ASSUME NEW nm, NEW cs, Named(nm, cs), Calls(cs), NEW name, NEW o \in Objects
  PROVE  Named([nm EXCEPT ![o] = name], cs \cup {<<name, o>>})
<1> DEFINE new == <<name, o>>
           ds == cs \cup {new}
           nm2 == [nm EXCEPT ![o] = name]
<1>1. new[1] = name /\ new[2] = o /\ new \in ds /\ (AloneIn(ds) => AloneIn(cs))
  BY FewerCalls
<1>2. nm2 = [x \in Objects |-> nm2[x]] /\ nm2[o] = name /\ \A x \in Objects : x # o => nm2[x] = nm[x]
  BY DEF Named
<1> HIDE DEF nm2
<1>3. ASSUME AloneIn(ds), NEW c \in ds PROVE nm2[c[2]] = c[1]
  <2>1. CASE c = new
    BY <1>1, <1>2, <2>1
  <2>2. CASE c # new
    <3>1. c \in cs /\ c[2] \in Objects
      BY <2>2 DEF Calls
    <3>2. c[2] # o
      BY <1>1, <1>3, <2>2 DEF AloneIn
    <3>3. nm[c[2]] = c[1]
      BY <1>1, <1>3, <3>1 DEF Named
    <3> QED
      BY <1>2, <3>1, <3>2, <3>3
  <2> QED
    BY <2>1, <2>2
<1> QED
  BY <1>2, <1>3 DEF Named, nm2

\* One call of rpc keeps all of it, whatever was registered before.
LEMMA RpcKeepsSound ==
  ASSUME NEW nm, NEW procs, NEW defs, NEW rts, NEW cs, Sound(nm, procs, defs, rts, cs),
         NEW name, NEW o \in Objects
  PROVE  Sound([nm EXCEPT ![o] = name],
               Ts!Put(procs, name, Ts!HttpRpcDefinition(Proc[o], name)),
               DefinedBy(defs, name, o),
               Ts!Put(rts, Ts!Key(<<name, o>>), o),
               cs \cup {<<name, o>>})
<1> DEFINE new == <<name, o>>
           ds == cs \cup {new}
           listed == Ts!HttpRpcDefinition(Proc[o], name)
           procs2 == Ts!Put(procs, name, listed)
           rts2 == Ts!Put(rts, Ts!Key(new), o)
           defs2 == DefinedBy(defs, name, o)
<1>1. new[1] = name /\ new[2] = o /\ new \in ds /\ cs \subseteq ds
  OBVIOUS
<1>2. (AloneIn(ds) => AloneIn(cs)) /\ (UniqueIn(ds) => UniqueIn(cs))
  BY FewerCalls
<1>3. DOMAIN procs2 = DOMAIN procs \cup {name} /\ procs2[name] = listed
      /\ \A n \in DOMAIN procs : n # name => procs2[n] = procs[n]
  <2> HIDE DEF listed
  <2> QED
    BY DEF Ts!Put
<1>4. DOMAIN rts2 = DOMAIN rts \cup {Ts!Key(new)} /\ rts2[Ts!Key(new)] = o
      /\ \A k \in DOMAIN rts : k # Ts!Key(new) => rts2[k] = rts[k]
  <2> HIDE DEF new
  <2> QED
    BY DEF Ts!Put
<1> HIDE DEF procs2, rts2, defs2, ds
<1>5. Calls(ds)
  BY DEF Sound, Calls, ds
<1>6. Routed(rts2)
  <2>1. ASSUME NEW k \in DOMAIN rts2 PROVE rts2[k] \in Objects \cup {"route", "validated", "definition"}
    <3> HIDE DEF new
    <3> QED
      BY <1>4, <2>1 DEF Sound, Routed
  <2> QED
    BY <2>1 DEF Routed
<1>7. Named([nm EXCEPT ![o] = name], ds)
  BY NamedOne DEF Sound, ds
<1>8. Mounts(procs2, rts2, ds)
  <2> SUFFICES ASSUME AloneIn(ds), NEW n \in DOMAIN procs2
               PROVE  \E c \in ds : c[1] = n /\ ListedAt(procs2, rts2, c)
    BY DEF Mounts
  <2>1. CASE n = name
    BY <1>1, <1>3, <1>4, <2>1 DEF ListedAt
  <2>2. CASE n # name
    <3>1. PICK c \in cs : c[1] = n /\ ListedAt(procs, rts, c)
      BY <1>2, <1>3, <2>2 DEF Sound, Mounts
    <3>2. c # new /\ Ts!Key(c) # Ts!Key(new)
      BY <1>1, <2>2, <3>1 DEF AloneIn
    <3>3. ListedAt(procs2, rts2, c)
      <4> HIDE DEF new
      <4> QED
        BY <1>3, <1>4, <2>2, <3>1, <3>2 DEF ListedAt
    <3> QED
      BY <1>1, <3>1, <3>3
  <2> QED
    BY <2>1, <2>2
<1>9. Resolves(procs2, defs2, ds)
  <2> SUFFICES ASSUME AloneIn(ds), UniqueIn(ds), NEW c \in ds, c[1] \in DOMAIN procs2,
                      NEW s \in Ts!Slots(c), s[1] # Ts!NoSchema
               PROVE  SlotName(c[1], s) \in DOMAIN defs2 /\ defs2[SlotName(c[1], s)] = s[1].shape
    BY DEF Resolves
  <2>1. /\ DOMAIN defs2 = DOMAIN defs \cup NamedBy(new)
        /\ \A k \in NamedBy(new) : \E slot \in Ts!Slots(new) :
             slot[1] # Ts!NoSchema /\ SlotName(name, slot) = k /\ defs2[k] = slot[1].shape
        /\ \A k \in DOMAIN defs \ NamedBy(new) : defs2[k] = defs[k]
    BY DefinedFacts DEF defs2
  <2>2. CASE SlotName(c[1], s) \in NamedBy(new)
    <3>1. PICK slot \in Ts!Slots(new) : /\ slot[1] # Ts!NoSchema /\ SlotName(name, slot) = SlotName(c[1], s)
                                        /\ defs2[SlotName(c[1], s)] = slot[1].shape
      BY <2>1, <2>2
    <3>2. slot[1].shape = s[1].shape
      BY <1>1, <3>1 DEF UniqueIn
    <3> QED
      BY <2>1, <2>2, <3>1, <3>2
  <2>3. CASE SlotName(c[1], s) \notin NamedBy(new)
    <3>1. c # new
      BY <1>1, <2>3 DEF NamedBy
    <3>2. c \in cs /\ c[1] \in DOMAIN procs
      <4>1. c[1] # name
        BY <1>1, <3>1 DEF AloneIn
      <4> QED
        BY <1>3, <3>1, <4>1 DEF ds
    <3>3. SlotName(c[1], s) \in DOMAIN defs /\ defs[SlotName(c[1], s)] = s[1].shape
      BY <1>2, <3>2 DEF Sound, Resolves
    <3> QED
      BY <2>1, <2>3, <3>3
  <2> QED
    BY <2>2, <2>3
<1> QED
  BY <1>5, <1>6, <1>7, <1>8, <1>9 DEF Sound, procs2, rts2, defs2, ds

\* A service's objects were called under the name they have.
TsCollected ==
  /\ services = [s \in Services |-> services[s]]
  /\ \A s \in Services : /\ services[s] \in Seq(Objects)
                         /\ \A i \in DOMAIN services[s] : <<nameOf[services[s][i]], services[s][i]>> \in calls
TsListing == server = "ts" => Sound(nameOf, procedures, definitions, routes, calls) /\ TsCollected

LEMMA TsListingInit == Init => TsListing
<1> SUFFICES ASSUME Ts!Init PROVE Sound(nameOf, procedures, definitions, routes, calls) /\ TsCollected
  BY DEF Init, TsListing
<1>1. Calls(calls) /\ Named(nameOf, calls)
  BY DEF Ts!Init, Calls, Named
<1>2. Routed(routes)
  BY DEF Ts!Init, Routed
<1>3. DOMAIN procedures = {}
  <2>1. DOMAIN <<>> = {}
    OBVIOUS
  <2> QED
    BY <2>1 DEF Ts!Init
<1>4. TsCollected
  <2>1. services = [s \in Services |-> <<>>]
    BY DEF Ts!Init
  <2>2. <<>> \in Seq(Objects) /\ DOMAIN <<>> = {}
    OBVIOUS
  <2> QED
    BY <2>1, <2>2 DEF TsCollected
<1> QED
  BY <1>1, <1>2, <1>3, <1>4 DEF Sound, Mounts, Resolves

\* Registering on the application: the effect of one call of rpc.
LEMMA AppRpcKeeps ==
  ASSUME TsListing, server = "ts", server' = server, NEW name, NEW o \in Objects, Ts!AppRpc(name, o)
  PROVE  TsListing'
<1>1. /\ nameOf' = [nameOf EXCEPT ![o] = name]
      /\ procedures' = Ts!Put(procedures, name, Ts!HttpRpcDefinition(Proc[o], name))
      /\ definitions' = DefinedBy(definitions, name, o)
      /\ routes' = Ts!Put(routes, Ts!Key(<<name, o>>), o)
      /\ calls' = calls \cup {<<name, o>>} /\ services' = services
  BY DEF Ts!AppRpc, Ts!Builds, Ts!Rpc, Ts!Built, DefinedBy, Ts!Key
<1>2. Sound(nameOf, procedures, definitions, routes, calls)'
  <2>1. Sound(nameOf, procedures, definitions, routes, calls)
    BY DEF TsListing
  <2>2. Sound(nameOf', procedures', definitions', routes', calls')
    BY <1>1, <2>1, RpcKeepsSound
  <2> QED
    BY <2>2
<1>3. TsCollected'
  BY <1>1 DEF TsListing, TsCollected, Sound, Named
<1> QED
  BY <1>2, <1>3 DEF TsListing

\* Registering on a service: the object is named and kept for later.
LEMMA ServiceRpcKeeps ==
  ASSUME TsListing, server = "ts", server' = server,
         NEW s \in Services, NEW short, NEW o \in Objects, Ts!ServiceRpc(s, short, o)
  PROVE  TsListing'
<1> DEFINE name == s \o "." \o short
           new == <<name, o>>
<1>1. /\ nameOf' = [nameOf EXCEPT ![o] = name]
      /\ services' = [services EXCEPT ![s] = Append(@, o)]
      /\ calls' = calls \cup {new} /\ UNCHANGED <<procedures, definitions, routes>>
  BY DEF Ts!ServiceRpc
<1> HIDE DEF name
<1>2. /\ Calls(calls) /\ Routed(routes) /\ Named(nameOf, calls) /\ Mounts(procedures, routes, calls)
      /\ Resolves(procedures, definitions, calls) /\ TsCollected
  BY DEF TsListing, Sound
<1>3. Calls(calls) /\ Calls(calls') /\ new[1] = name /\ new[2] = o
  BY <1>1, <1>2 DEF Calls
<1>4. Named(nameOf', calls')
  BY <1>1, <1>2, NamedOne
<1>5. (AloneIn(calls') => AloneIn(calls)) /\ (UniqueIn(calls') => UniqueIn(calls))
  BY <1>1, FewerCalls
<1>6. Mounts(procedures, routes, calls')
  BY <1>1, <1>2, <1>5 DEF Mounts
<1>7. Resolves(procedures, definitions, calls')
  <2> SUFFICES ASSUME AloneIn(calls'), UniqueIn(calls'), NEW c \in calls', c[1] \in DOMAIN procedures,
                      NEW slot \in Ts!Slots(c), slot[1] # Ts!NoSchema
               PROVE  /\ SlotName(c[1], slot) \in DOMAIN definitions
                      /\ definitions[SlotName(c[1], slot)] = slot[1].shape
    BY DEF Resolves
  <2>1. PICK d \in calls : d[1] = c[1]
    BY <1>2, <1>5 DEF Mounts
  <2>2. c \in calls
    <3>1. c = d
      BY <1>1, <2>1 DEF AloneIn
    <3> QED
      BY <2>1, <3>1
  <2> QED
    BY <1>2, <1>5, <2>2 DEF Resolves
<1>8. TsCollected'
  <2>1. nameOf = [x \in Objects |-> nameOf[x]]
    BY <1>2 DEF Named
  <2>2. ASSUME NEW t \in Services
        PROVE  /\ services'[t] \in Seq(Objects)
               /\ \A i \in DOMAIN services'[t] : <<nameOf'[services'[t][i]], services'[t][i]>> \in calls'
    <3>1. services[t] \in Seq(Objects) /\ \A i \in DOMAIN services[t] : <<nameOf[services[t][i]], services[t][i]>> \in calls
      BY <1>2 DEF TsCollected
    <3>2. services'[t] = IF t = s THEN Append(services[t], o) ELSE services[t]
      BY <1>1, <1>2 DEF TsCollected
    <3>3. services'[t] \in Seq(Objects)
      BY <3>1, <3>2
    <3>4. ASSUME NEW i \in DOMAIN services'[t] PROVE services'[t][i] = o \/ (i \in DOMAIN services[t] /\ services'[t][i] = services[t][i])
      BY <3>1, <3>2
    <3>5. ASSUME NEW i \in DOMAIN services'[t] PROVE <<nameOf'[services'[t][i]], services'[t][i]>> \in calls'
      <4>1. CASE services'[t][i] = o
        BY <1>1, <2>1, <4>1
      <4>2. CASE services'[t][i] # o
        <5>1. services'[t][i] \in Objects
          BY <3>3
        <5>2. nameOf'[services'[t][i]] = nameOf[services'[t][i]]
          BY <1>1, <2>1, <4>2, <5>1
        <5> QED
          BY <1>1, <3>1, <3>4, <4>2, <5>2
      <4> QED
        BY <4>1, <4>2
    <3> QED
      BY <3>3, <3>5
  <2>3. services' = [t \in Services |-> services'[t]]
    BY <1>1, <1>2 DEF TsCollected
  <2> QED
    BY <2>2, <2>3 DEF TsCollected
<1> QED
  BY <1>1, <1>2, <1>3, <1>4, <1>6, <1>7, <1>8 DEF TsListing, Sound

\* Using a service: a call of rpc for every object it collected, each under the
\* name that is written in the object, which gives none a new name.
LEMMA UseServiceKeeps ==
  ASSUME TsListing, server = "ts", server' = server, NEW s \in Services, Ts!UseService(s)
  PROVE  TsListing'
<1>1. /\ Sound(nameOf, procedures, definitions, routes, calls) /\ TsCollected
      /\ nameOf = [x \in Objects |-> nameOf[x]] /\ services[s] \in Seq(Objects) /\ Len(services[s]) \in Nat
  BY DEF TsListing, TsCollected, Sound, Named
<1>2. PICK built : BuiltUpTo(s, Len(services[s]), built) /\ Ts!Used(s) = built[Len(services[s])]
  BY <1>1, UsedIsBuilt
<1> DEFINE Fine(a) == /\ Sound(a.nameOf, a.procedures, a.definitions, a.routes, a.calls)
                      /\ a.nameOf = nameOf /\ a.calls = calls
           P == {n \in Nat : n <= Len(services[s]) => Fine(built[n])}
<1>3. 0 \in P
  <2>1. built[0] = Ts!Built
    BY <1>1, <1>2 DEF BuiltUpTo
  <2>2. Fine(Ts!Built)
    BY <1>1 DEF Ts!Built
  <2> HIDE DEF Fine
  <2> QED
    BY <2>1, <2>2
<1>4. ASSUME NEW n \in P PROVE n + 1 \in P
  <2> SUFFICES ASSUME n + 1 <= Len(services[s]) PROVE Fine(built[n + 1])
    OBVIOUS
  <2> DEFINE a == built[n]
             o == services[s][n + 1]
             name == nameOf[o]
  <2>1. n \in Nat /\ n + 1 \in 1 .. Len(services[s]) /\ Fine(a)
    BY <1>1
  <2>2. o \in Objects /\ <<name, o>> \in calls
    <3>1. n + 1 \in DOMAIN services[s]
      BY <1>1, <2>1
    <3>2. services[s][n + 1] \in Objects
      BY <1>1, <3>1
    <3>3. <<nameOf[services[s][n + 1]], services[s][n + 1]>> \in calls
      BY <1>1, <3>1 DEF TsCollected
    <3> QED
      BY <3>2, <3>3
  <2>3. built[n + 1] = Ts!Rpc(a, name, o)
    <3>1. n + 1 \in 0 .. Len(services[s]) /\ n + 1 # 0 /\ (n + 1) - 1 = n
      BY <2>1
    <3>2. built[n + 1] = Ts!Rpc(built[n], built[n].nameOf[services[s][n + 1]], services[s][n + 1])
      BY <1>2, <3>1 DEF BuiltUpTo
    <3> QED
      BY <2>1, <3>2
  <2> HIDE DEF a, o, name
  <2> DEFINE b == Ts!Rpc(a, name, o)
  <2>4. /\ b.nameOf = [a.nameOf EXCEPT ![o] = name]
        /\ b.procedures = Ts!Put(a.procedures, name, Ts!HttpRpcDefinition(Proc[o], name))
        /\ b.definitions = DefinedBy(a.definitions, name, o)
        /\ b.routes = Ts!Put(a.routes, Ts!Key(<<name, o>>), o)
        /\ b.calls = a.calls \cup {<<name, o>>}
    BY DEF Ts!Rpc, DefinedBy, Ts!Key
  <2> HIDE DEF b
  <2>5. Sound(b.nameOf, b.procedures, b.definitions, b.routes, b.calls)
    BY <2>1, <2>2, <2>4, RpcKeepsSound
  <2>6. b.nameOf = nameOf /\ b.calls = calls
    BY <1>1, <2>1, <2>2, <2>4 DEF name
  <2>7. Fine(b)
    BY <2>5, <2>6
  <2> HIDE DEF Fine
  <2> QED
    BY <2>3, <2>7 DEF b
<1> HIDE DEF P
<1>5. P = Nat
  <2>1. P \in SUBSET Nat
    BY DEF P
  <2> QED
    BY <1>3, <1>4, <2>1, SetInduction
<1>6. Fine(Ts!Used(s))
  <2> HIDE DEF Fine
  <2>1. Len(services[s]) \in P
    BY <1>1, <1>5
  <2> QED
    BY <1>1, <1>2, <2>1 DEF P
<1> DEFINE u == Ts!Used(s)
<1> HIDE DEF u
<1>7. /\ nameOf' = u.nameOf /\ procedures' = u.procedures /\ definitions' = u.definitions
      /\ routes' = u.routes /\ calls' = u.calls /\ services' = services
  BY DEF Ts!UseService, Ts!Builds, u
<1>8. Sound(nameOf', procedures', definitions', routes', calls') /\ nameOf' = nameOf /\ calls' = calls
  BY <1>6, <1>7 DEF u
<1>9. TsCollected'
  BY <1>1, <1>7, <1>8 DEF TsCollected
<1> QED
  BY <1>8, <1>9 DEF TsListing

\* A route takes no procedure's place, or the procedures are not alone.
LEMMA RouteKeeps ==
  ASSUME TsListing, server = "ts", server' = server, NEW r \in Routes, Ts!Route(r)
  PROVE  TsListing'
<1> DEFINE key == <<r.path, r.method>>
           mount == IF Ts!Validates(r) THEN "validated" ELSE "route"
<1>1. /\ routes' = Ts!Put(routes, key, mount)
      /\ UNCHANGED <<nameOf, services, procedures, definitions, calls>>
  BY DEF Ts!Route
<1>2. /\ Sound(nameOf, procedures, definitions, routes, calls) /\ TsCollected
  BY DEF TsListing
<1>3. /\ DOMAIN routes' = DOMAIN routes \cup {key} /\ routes'[key] \in {"route", "validated"}
      /\ \A k \in DOMAIN routes : k # key => routes'[k] = routes[k]
  <2> HIDE DEF key
  <2> QED
    BY <1>1 DEF Ts!Put
<1>4. Routed(routes')
  <2> HIDE DEF key
  <2> QED
    BY <1>2, <1>3 DEF Sound, Routed
<1>5. Mounts(procedures, routes', calls)
  <2> SUFFICES ASSUME AloneIn(calls), NEW n \in DOMAIN procedures
               PROVE  \E c \in calls : c[1] = n /\ ListedAt(procedures, routes', c)
    BY DEF Mounts
  <2>1. PICK c \in calls : c[1] = n /\ ListedAt(procedures, routes, c)
    BY <1>2 DEF Sound, Mounts
  <2>2. Ts!Key(c) # key
    BY DEF AloneIn
  <2> HIDE DEF key
  <2>3. ListedAt(procedures, routes', c)
    BY <1>3, <2>1, <2>2 DEF ListedAt
  <2> QED
    BY <2>1, <2>3
<1>6. Sound(nameOf', procedures', definitions', routes', calls')
  BY <1>1, <1>2, <1>4, <1>5 DEF Sound
<1>7. TsCollected'
  BY <1>1, <1>2 DEF TsCollected
<1> QED
  BY <1>6, <1>7 DEF TsListing

LEMMA TsListingStep ==
  ASSUME TsListing, [Next]_vars PROVE TsListing'
<1>1. CASE UNCHANGED <<server, nameOf, services, procedures, definitions, routes, calls>>
  BY <1>1 DEF TsListing, TsCollected
<1>2. CASE UNCHANGED vars
  BY <1>1, <1>2 DEF vars, tsOnly
<1>3. CASE Next /\ server # "ts"
  BY <1>3 DEF Next, TsListing
<1>4. CASE Next /\ server = "ts"
  <2>1. server' = server /\ Ts!Next
    BY <1>4 DEF Next
  <2>2. ASSUME NEW o \in Objects, NEW n \in Names, Ts!AppRpc(n, o) PROVE TsListing'
    BY <1>4, <2>1, <2>2, AppRpcKeeps
  <2>3. ASSUME NEW o \in Objects, NEW n \in Names, NEW s \in Services, Ts!ServiceRpc(s, n, o) PROVE TsListing'
    BY <1>4, <2>1, <2>3, ServiceRpcKeeps
  <2>4. ASSUME NEW s \in Services, Ts!UseService(s) PROVE TsListing'
    BY <1>4, <2>1, <2>4, UseServiceKeeps
  <2>5. ASSUME NEW r \in Routes, Ts!Route(r) PROVE TsListing'
    BY <1>4, <2>1, <2>5, RouteKeeps
  <2>6. CASE Ts!UseMiddleware \/ Ts!Listen
    BY <1>1, <2>1, <2>6 DEF Ts!UseMiddleware, Ts!Listen
  <2>7. CASE (\E q \in Requests : Ts!Arrive(q)) \/ Ts!Again
    BY <1>1, <2>1, <2>7 DEF Ts!Arrive, Ts!Again, Ts!listing
  <2>8. CASE Ts!Pass \/ Ts!FailStage
    BY <1>1, <2>1, <2>8 DEF Ts!Pass, Ts!FailStage, Ts!listing
  <2> QED
    BY <2>1, <2>2, <2>3, <2>4, <2>5, <2>6, <2>7, <2>8 DEF Ts!Next
<1> QED
  BY <1>2, <1>3, <1>4

\* A stream is listed under "get" and mounted under "post" unless it says a method.
StreamsHaveMethod == \A o \in Objects : Proc[o].stream => Proc[o].method # ""

\* The fields of what is listed.
LEMMA ListedFields ==
  ASSUME NEW p, NEW name
  PROVE  LET d == Ts!HttpRpcDefinition(p, name) IN
         /\ d.path = Ts!RpcPath(p, name)
         /\ ~ (p.method = "" /\ p.stream) => d.method = Ts!HttpMethod(p)
         /\ d.params = Ts!Listed(name, p.params, "Params") /\ d.response = Ts!Listed(name, p.response, "Response")
<1> DEFINE streams == p.method = "" /\ p.stream
           method == IF streams THEN "get" ELSE Ts!HttpMethod(p)
<1>1. Ts!HttpRpcDefinition(p, name) =
        [path |-> Ts!RpcPath(p, name), method |-> method,
         params |-> Ts!Listed(name, p.params, "Params"), response |-> Ts!Listed(name, p.response, "Response")]
  BY Zenon DEF Ts!HttpRpcDefinition
<1>2. ~ streams => method = Ts!HttpMethod(p)
  BY Zenon
<1> HIDE DEF streams, method
<1>3. /\ Ts!HttpRpcDefinition(p, name).path = Ts!RpcPath(p, name)
      /\ Ts!HttpRpcDefinition(p, name).method = method
      /\ Ts!HttpRpcDefinition(p, name).params = Ts!Listed(name, p.params, "Params")
      /\ Ts!HttpRpcDefinition(p, name).response = Ts!Listed(name, p.response, "Response")
  BY <1>1
<1> QED
  BY <1>2, <1>3, Zenon DEF streams

LEMMA TsListingImplies ==
  ASSUME TsListing, server = "ts", StreamsHaveMethod
  PROVE  Ts!ListedIsServed /\ Ts!DefinitionsResolve
<1>1. /\ Calls(calls) /\ Named(nameOf, calls) /\ Mounts(procedures, routes, calls)
      /\ Resolves(procedures, definitions, calls)
  BY DEF TsListing, Sound
<1>2. Ts!Alone = AloneIn(calls) /\ Ts!NamesAreUnique = UniqueIn(calls)
  BY DEF Ts!Alone, AloneIn, Ts!NamesAreUnique, UniqueIn, SlotName
<1>3. Ts!ListedIsServed
  <2> SUFFICES ASSUME AloneIn(calls), NEW n \in DOMAIN procedures
               PROVE  LET d == procedures[n]
                          mount == routes[<<d.path, d.method>>]
                      IN  /\ <<d.path, d.method>> \in DOMAIN routes /\ mount \in Objects /\ <<n, mount>> \in calls
                          /\ (app = "serving" => nameOf[mount] = n)
    BY <1>2 DEF Ts!ListedIsServed
  <2>1. PICK c \in calls : c[1] = n /\ ListedAt(procedures, routes, c)
    BY <1>1 DEF Mounts
  <2>2. c = <<n, c[2]>> /\ c[2] \in Objects /\ nameOf[c[2]] = n
    BY <1>1, <2>1 DEF Calls, Named
  <2>3. procedures[n].path = Ts!RpcPath(Proc[c[2]], n) /\ procedures[n].method = Ts!HttpMethod(Proc[c[2]])
    <3>1. ~ (Proc[c[2]].method = "" /\ Proc[c[2]].stream)
      BY <2>2, Zenon DEF StreamsHaveMethod
    <3>2. procedures[n] = Ts!HttpRpcDefinition(Proc[c[2]], n)
      BY <2>1 DEF ListedAt
    <3>3. /\ Ts!HttpRpcDefinition(Proc[c[2]], n).path = Ts!RpcPath(Proc[c[2]], n)
          /\ Ts!HttpRpcDefinition(Proc[c[2]], n).method = Ts!HttpMethod(Proc[c[2]])
      BY <3>1, ListedFields, Zenon
    <3> QED
      BY <3>2, <3>3
  <2>4. <<procedures[n].path, procedures[n].method>> = Ts!Key(c)
    BY <2>1, <2>3 DEF Ts!Key
  <2> QED
    BY <2>1, <2>2, <2>4 DEF ListedAt
<1>4. Ts!DefinitionsResolve
  <2> SUFFICES ASSUME AloneIn(calls), UniqueIn(calls), NEW c \in calls, c[1] \in DOMAIN procedures
               PROVE  LET d == procedures[c[1]]
                          p == Proc[c[2]]
                      IN  /\ (p.params # Ts!NoSchema => definitions[d.params] = p.params.shape)
                          /\ (p.response # Ts!NoSchema => definitions[d.response] = p.response.shape)
    BY <1>2 DEF Ts!DefinitionsResolve
  <2>1. PICK e \in calls : e[1] = c[1] /\ ListedAt(procedures, routes, e)
    BY <1>1 DEF Mounts
  <2>2. procedures[c[1]] = Ts!HttpRpcDefinition(Proc[c[2]], c[1])
    <3>1. e = c
      BY <2>1 DEF AloneIn
    <3> QED
      BY <2>1, <3>1 DEF ListedAt
  <2> DEFINE p == Proc[c[2]]
             in == <<p.params, "Params">>
             out == <<p.response, "Response">>
  <2>3. /\ in \in Ts!Slots(c) /\ out \in Ts!Slots(c) /\ in[1] = p.params /\ out[1] = p.response
    BY DEF Ts!Slots
  <2>4. /\ p.params # Ts!NoSchema => procedures[c[1]].params = SlotName(c[1], in)
        /\ p.response # Ts!NoSchema => procedures[c[1]].response = SlotName(c[1], out)
    <3>1. /\ procedures[c[1]].params = Ts!Listed(c[1], p.params, "Params")
          /\ procedures[c[1]].response = Ts!Listed(c[1], p.response, "Response")
      BY <2>2, ListedFields, Zenon
    <3>2. in[1] = p.params /\ in[2] = "Params" /\ out[1] = p.response /\ out[2] = "Response"
      OBVIOUS
    <3> HIDE DEF in, out, p
    <3> QED
      BY <3>1, <3>2 DEF Ts!Listed, SlotName
  <2> HIDE DEF in, out
  <2>5. \A slot \in Ts!Slots(c) : slot[1] # Ts!NoSchema => definitions[SlotName(c[1], slot)] = slot[1].shape
    BY <1>1 DEF Resolves
  <2> QED
    BY <2>3, <2>4, <2>5
<1> QED
  BY <1>3, <1>4
-----------------------------------------------------------------------------
(***************************************************************************)
(* The Go server: what is registered.                                      *)
(***************************************************************************)
\* Functions are mounted where they say and listed by their names; a listing
\* that did not panic describes the function under its path; a mounted
\* function's models have their shapes.
GoMounts ==
  /\ \A path \in DOMAIN routes : Go!RpcPath(routes[path]) = path /\ Go!RpcName(routes[path]) \in DOMAIN procedures
  /\ \A n \in DOMAIN procedures :
       LET path == procedures[n].path
       IN  path \in DOMAIN routes /\ Go!RpcName(routes[path]) = n /\ procedures[n] = Go!RpcDef(routes[path])
GoSlotName(p, slot) == Go!ModelName(p, slot[1], slot[2])
GoResolves ==
  Go!NamesAreUnique => \A p \in Go!Mounted : \A slot \in Go!Slots(p) : slot[1] # Go!Empty =>
    GoSlotName(p, slot) \in DOMAIN definitions /\ definitions[GoSlotName(p, slot)] = slot[1].shape
GoListing == server = "go" /\ app # "panicked" => GoMounts /\ GoResolves

LEMMA GoListingInit == Init => GoListing
<1>1. DOMAIN <<>> = {}
  OBVIOUS
<1> QED
  BY <1>1 DEF Init, Go!Init, GoListing, GoMounts, GoResolves, Go!Mounted

LEMMA GoListingImplies ==
  ASSUME GoListing, server = "go" PROVE Go!ListedIsServed /\ Go!DefinitionsResolve
<1> SUFFICES ASSUME app # "panicked", GoMounts, GoResolves PROVE Go!ListedIsServed /\ Go!DefinitionsResolve
  BY DEF GoListing, Go!ListedIsServed, Go!DefinitionsResolve
<1>1. Go!ListedIsServed
  BY DEF GoMounts, Go!ListedIsServed, Go!RpcDef
<1>2. Go!DefinitionsResolve
  <2> SUFFICES ASSUME Go!NamesAreUnique, NEW p \in Go!Mounted, Go!RpcPath(p) = procedures[Go!RpcName(p)].path
               PROVE  LET d == procedures[Go!RpcName(p)]
                      IN  /\ (p.params # Go!Empty => definitions[d.params] = p.params.shape)
                          /\ (p.response # Go!Empty => definitions[d.response] = p.response.shape)
    BY DEF Go!DefinitionsResolve
  <2>1. PICK path \in DOMAIN routes : p = routes[path]
    BY DEF Go!Mounted
  <2>2. procedures[Go!RpcName(p)] = Go!RpcDef(p)
    BY <2>1 DEF GoMounts
  <2> DEFINE in == <<p.params, "Params">>
             out == <<p.response, "Response">>
  <2>3. in \in Go!Slots(p) /\ out \in Go!Slots(p) /\ in[1] = p.params /\ out[1] = p.response
    BY DEF Go!Slots
  <2>4. /\ p.params # Go!Empty => procedures[Go!RpcName(p)].params = GoSlotName(p, in)
        /\ p.response # Go!Empty => procedures[Go!RpcName(p)].response = GoSlotName(p, out)
    BY <2>2 DEF Go!RpcDef, Go!Listed, GoSlotName
  <2> HIDE DEF in, out
  <2>5. \A slot \in Go!Slots(p) : slot[1] # Go!Empty => definitions[GoSlotName(p, slot)] = slot[1].shape
    BY DEF GoResolves
  <2> QED
    BY <2>3, <2>4, <2>5
<1> QED
  BY <1>1, <1>2

\* What registering a function lists of its models.
GoDefinedBy(defs, p) == Go!Defined(Go!Defined(defs, p, p.params, "Params"), p, p.response, "Response")
GoNamedBy(p) == {GoSlotName(p, slot) : slot \in {slot \in Go!Slots(p) : slot[1] # Go!Empty}}

LEMMA GoDefinedFacts ==
  ASSUME NEW defs, NEW p
  PROVE  LET D == GoDefinedBy(defs, p) IN
         /\ DOMAIN D = DOMAIN defs \cup GoNamedBy(p)
         /\ \A k \in GoNamedBy(p) : \E slot \in Go!Slots(p) :
              slot[1] # Go!Empty /\ GoSlotName(p, slot) = k /\ D[k] = slot[1].shape
         /\ \A k \in DOMAIN defs \ GoNamedBy(p) : D[k] = defs[k]
<1> DEFINE in == GoSlotName(p, <<p.params, "Params">>)
           out == GoSlotName(p, <<p.response, "Response">>)
           first == Go!Defined(defs, p, p.params, "Params")
           D == GoDefinedBy(defs, p)
<1>1. Go!Slots(p) = {<<p.params, "Params">>, <<p.response, "Response">>}
  BY DEF Go!Slots
<1>2. first = IF p.params = Go!Empty THEN defs ELSE Go!Put(defs, in, p.params.shape)
  BY DEF Go!Defined, GoSlotName
<1>3. D = IF p.response = Go!Empty THEN first ELSE Go!Put(first, out, p.response.shape)
  BY DEF GoDefinedBy, Go!Defined, GoSlotName
<1>4. GoNamedBy(p) = (IF p.params = Go!Empty THEN {} ELSE {in}) \cup (IF p.response = Go!Empty THEN {} ELSE {out})
  BY <1>1 DEF GoNamedBy
<1>5. /\ DOMAIN first = DOMAIN defs \cup (IF p.params = Go!Empty THEN {} ELSE {in})
      /\ p.params # Go!Empty => first[in] = p.params.shape
      /\ \A k \in DOMAIN defs : p.params = Go!Empty \/ k # in => first[k] = defs[k]
  <2> HIDE DEF first, in
  <2> QED
    BY <1>2 DEF Go!Put
<1>6. /\ DOMAIN D = DOMAIN first \cup (IF p.response = Go!Empty THEN {} ELSE {out})
      /\ p.response # Go!Empty => D[out] = p.response.shape
      /\ \A k \in DOMAIN first : p.response = Go!Empty \/ k # out => D[k] = first[k]
  <2> HIDE DEF first, out, D
  <2> QED
    BY <1>3 DEF Go!Put
<1>7. DOMAIN D = DOMAIN defs \cup GoNamedBy(p) /\ \A k \in DOMAIN defs \ GoNamedBy(p) : D[k] = defs[k]
  <2> HIDE DEF first, in, out, D
  <2> QED
    BY <1>4, <1>5, <1>6
<1>8. ASSUME NEW k \in GoNamedBy(p)
      PROVE  \E slot \in Go!Slots(p) : slot[1] # Go!Empty /\ GoSlotName(p, slot) = k /\ D[k] = slot[1].shape
  <2>1. CASE p.response # Go!Empty /\ k = out
    <3>1. D[k] = p.response.shape
      BY <1>6, <2>1
    <3> QED
      BY <1>1, <2>1, <3>1
  <2>2. CASE ~ (p.response # Go!Empty /\ k = out)
    <3>1. p.params # Go!Empty /\ k = in
      BY <1>4, <2>2
    <3>2. D[k] = p.params.shape
      <4> HIDE DEF first, in, out, D
      <4> QED
        BY <1>5, <1>6, <2>2, <3>1
    <3> QED
      BY <1>1, <3>1, <3>2
  <2> QED
    BY <2>1, <2>2
<1> QED
  BY <1>7, <1>8

\* A function is listed and mounted, or the mux panics.
LEMMA RegisterKeeps ==
  ASSUME GoListing, server = "go", NEW p, Go!Register(p), app' # "panicked"
  PROVE  GoMounts' /\ GoResolves'
<1> DEFINE path == Go!RpcPath(p)
           name == Go!RpcName(p)
<1>1. /\ path \notin DOMAIN routes /\ routes' = Go!Put(routes, path, p)
      /\ procedures' = Go!Put(procedures, name, Go!RpcDef(p))
      /\ definitions' = GoDefinedBy(definitions, p)
      /\ GoMounts /\ GoResolves
  BY DEF GoListing, Go!Register, GoDefinedBy
<1>2. Go!RpcDef(p).path = path
  BY DEF Go!RpcDef
<1> HIDE DEF path, name
<1>3. /\ DOMAIN routes' = DOMAIN routes \cup {path} /\ routes'[path] = p
      /\ \A k \in DOMAIN routes : k # path /\ routes'[k] = routes[k]
  BY <1>1 DEF Go!Put
<1>4. /\ DOMAIN procedures' = DOMAIN procedures \cup {name} /\ procedures'[name] = Go!RpcDef(p)
      /\ \A n \in DOMAIN procedures : n # name => procedures'[n] = procedures[n]
  BY <1>1 DEF Go!Put
<1>5. GoMounts'
  <2>1. ASSUME NEW k \in DOMAIN routes'
        PROVE  Go!RpcPath(routes'[k]) = k /\ Go!RpcName(routes'[k]) \in DOMAIN procedures'
    BY <1>1, <1>3, <1>4, <2>1 DEF GoMounts, path, name
  <2>2. ASSUME NEW n \in DOMAIN procedures'
        PROVE  /\ procedures'[n].path \in DOMAIN routes' /\ Go!RpcName(routes'[procedures'[n].path]) = n
               /\ procedures'[n] = Go!RpcDef(routes'[procedures'[n].path])
    <3>1. CASE n = name
      BY <1>2, <1>3, <1>4, <3>1 DEF name
    <3>2. CASE n # name
      BY <1>1, <1>3, <1>4, <2>2, <3>2 DEF GoMounts
    <3> QED
      BY <3>1, <3>2
  <2> QED
    BY <2>1, <2>2 DEF GoMounts
<1>6. Go!Mounted' = Go!Mounted \cup {p}
  BY <1>3 DEF Go!Mounted
<1>7. GoResolves'
  <2> SUFFICES ASSUME Go!NamesAreUnique', NEW q \in Go!Mounted', NEW slot \in Go!Slots(q), slot[1] # Go!Empty
               PROVE  /\ GoSlotName(q, slot) \in DOMAIN definitions'
                      /\ definitions'[GoSlotName(q, slot)] = slot[1].shape
    BY DEF GoResolves
  <2>1. Go!NamesAreUnique
    BY <1>6 DEF Go!NamesAreUnique
  <2>2. /\ DOMAIN definitions' = DOMAIN definitions \cup GoNamedBy(p)
        /\ \A k \in GoNamedBy(p) : \E t \in Go!Slots(p) :
             t[1] # Go!Empty /\ GoSlotName(p, t) = k /\ definitions'[k] = t[1].shape
        /\ \A k \in DOMAIN definitions \ GoNamedBy(p) : definitions'[k] = definitions[k]
    <3> DEFINE D == GoDefinedBy(definitions, p)
    <3>1. /\ DOMAIN D = DOMAIN definitions \cup GoNamedBy(p)
          /\ \A k \in GoNamedBy(p) : \E t \in Go!Slots(p) :
               t[1] # Go!Empty /\ GoSlotName(p, t) = k /\ D[k] = t[1].shape
          /\ \A k \in DOMAIN definitions \ GoNamedBy(p) : D[k] = definitions[k]
      BY GoDefinedFacts
    <3> HIDE DEF D
    <3>2. definitions' = D
      BY <1>1 DEF D
    <3> QED
      BY <3>1, <3>2
  <2>3. CASE GoSlotName(q, slot) \in GoNamedBy(p)
    <3>1. PICK t \in Go!Slots(p) : /\ t[1] # Go!Empty /\ GoSlotName(p, t) = GoSlotName(q, slot)
                                   /\ definitions'[GoSlotName(q, slot)] = t[1].shape
      BY <2>2, <2>3
    <3>2. t[1].shape = slot[1].shape
      BY <1>6, <3>1 DEF Go!NamesAreUnique, GoSlotName
    <3> QED
      BY <2>2, <2>3, <3>1, <3>2
  <2>4. CASE GoSlotName(q, slot) \notin GoNamedBy(p)
    <3>1. q \in Go!Mounted
      BY <1>6, <2>4 DEF GoNamedBy
    <3>2. GoSlotName(q, slot) \in DOMAIN definitions /\ definitions[GoSlotName(q, slot)] = slot[1].shape
      BY <1>1, <2>1, <3>1 DEF GoResolves
    <3> QED
      BY <2>2, <2>4, <3>2
  <2> QED
    BY <2>3, <2>4
<1> QED
  BY <1>5, <1>7

\* A model an application registers has the shape its name has elsewhere.
LEMMA RegisterDefKeeps ==
  ASSUME GoMounts, GoResolves, NEW m \in Models, Go!RegisterDef(m)
  PROVE  GoMounts' /\ GoResolves'
<1>1. definitions' = Go!Put(definitions, m.name, m.shape) /\ UNCHANGED <<procedures, routes>>
  BY DEF Go!RegisterDef
<1>2. GoMounts'
  BY <1>1 DEF GoMounts
<1>3. GoResolves'
  <2> SUFFICES ASSUME Go!NamesAreUnique, NEW q \in Go!Mounted, NEW slot \in Go!Slots(q), slot[1] # Go!Empty
               PROVE  /\ GoSlotName(q, slot) \in DOMAIN definitions'
                      /\ definitions'[GoSlotName(q, slot)] = slot[1].shape
    BY <1>1 DEF GoResolves, Go!NamesAreUnique, Go!Mounted
  <2>1. GoSlotName(q, slot) \in DOMAIN definitions /\ definitions[GoSlotName(q, slot)] = slot[1].shape
    BY DEF GoResolves
  <2>2. m.name = GoSlotName(q, slot) => m.shape = slot[1].shape
    BY DEF Go!NamesAreUnique, GoSlotName
  <2> QED
    BY <1>1, <2>1, <2>2 DEF Go!Put
<1> QED
  BY <1>2, <1>3

LEMMA GoListingStep ==
  ASSUME GoListing, [Next]_vars PROVE GoListing'
<1>1. CASE UNCHANGED <<server, procedures, definitions, routes>> /\ (app' = app \/ app # "panicked")
  BY <1>1 DEF GoListing, GoMounts, GoResolves, Go!NamesAreUnique, Go!Mounted
<1>2. CASE UNCHANGED vars
  BY <1>1, <1>2 DEF vars
<1>3. CASE Next /\ server # "go"
  BY <1>3 DEF Next, GoListing
<1>4. CASE Next /\ server = "go"
  <2>1. server' = server /\ Go!Next
    BY <1>4 DEF Next
  <2>2. ASSUME NEW p \in Functions, Go!Register(p) PROVE GoListing'
    BY <1>4, <2>2, RegisterKeeps DEF GoListing
  <2>3. ASSUME NEW m \in Models, Go!RegisterDef(m) PROVE GoListing'
    <3>1. app = "registering"
      BY <2>3 DEF Go!RegisterDef
    <3> QED
      BY <1>4, <2>3, <3>1, RegisterDefKeeps DEF GoListing
  <2>4. CASE Go!Use \/ Go!Run
    BY <1>1, <2>1, <2>4 DEF Go!Use, Go!Run
  <2>5. CASE (\E q \in Requests : Go!Arrive(q)) \/ Go!Pass \/ Go!FailStage \/ Go!Again
    BY <1>1, <2>1, <2>5 DEF Go!Arrive, Go!Pass, Go!FailStage, Go!Again, Go!listing
  <2> QED
    BY <2>1, <2>2, <2>3, <2>4, <2>5 DEF Go!Next
<1> QED
  BY <1>2, <1>3, <1>4

\* For any procedures, models and routes, whatever is registered in whatever
\* order: what a server's definition lists is served where and under the method
\* it says, and the models it names are the ones the procedure has.
THEOREM ListedIsServedCorrect ==
  ASSUME StreamsHaveMethod
  PROVE  Spec => []ListedIsServed
<1>1. Init => GoListing /\ TsListing
  BY GoListingInit, TsListingInit
<1>2. GoListing /\ TsListing /\ [Next]_vars => (GoListing /\ TsListing)'
  BY GoListingStep, TsListingStep
<1>3. Init => server \in {"go", "ts"}
  BY DEF Init
<1>4. server \in {"go", "ts"} /\ [Next]_vars => (server \in {"go", "ts"})'
  BY DEF Next, vars
<1>5. GoListing /\ TsListing /\ server \in {"go", "ts"} => ListedIsServed
  BY GoListingImplies, TsListingImplies DEF ListedIsServed
<1> QED
  BY <1>1, <1>2, <1>3, <1>4, <1>5, PTL DEF Spec
-----------------------------------------------------------------------------
(***************************************************************************)
(* The TypeScript server: a request.                                       *)
(***************************************************************************)
TsEarly == {"onRequest", "middleware", "params", "handler"}
Answered == {"after", "post"}

LEMMA TsMount ==
  ASSUME TsListing, server = "ts", NEW q
  PROVE  Ts!Mount(q) \in Objects \cup {"route", "validated", "definition", "fallback"}
BY DEF TsListing, Sound, Routed, Ts!Mount

\* The rows of stages, one by one.
LEMMA TsLongRow ==
  ASSUME NEW mount \in Objects \cup {"route", "validated"}
  PROVE  /\ Ts!Stages(mount)[1] = "onRequest"
         /\ Ts!Following(mount, "onRequest") = "middleware" /\ Ts!Following(mount, "middleware") = "params"
         /\ Ts!Following(mount, "params") = "handler" /\ Ts!Following(mount, "handler") = "before"
         /\ Ts!Following(mount, "before") = "send" /\ Ts!Following(mount, "send") = "after"
         /\ Ts!Following(mount, "after") = "post" /\ Ts!Following(mount, "post") = "done"
<1> DEFINE row == Ts!Stages(mount)
           place(stage) == CHOOSE i \in DOMAIN row : row[i] = stage
<1>1. row = <<"onRequest", "middleware", "params", "handler", "before", "send", "after", "post">>
  BY ObjectsAssumption DEF Ts!Stages
<1> HIDE DEF row
<1>2. DOMAIN row = 1 .. 8 /\ Len(row) = 8
  BY <1>1
<1>3. /\ place("onRequest") = 1 /\ place("middleware") = 2 /\ place("params") = 3 /\ place("handler") = 4
      /\ place("before") = 5 /\ place("send") = 6 /\ place("after") = 7 /\ place("post") = 8
  BY <1>1, <1>2
<1>4. ASSUME NEW stage
      PROVE  Ts!Following(mount, stage) = IF place(stage) = Len(row) THEN "done" ELSE row[place(stage) + 1]
  BY DEF Ts!Following, row
<1> HIDE DEF place
<1> QED
  BY <1>1, <1>2, <1>3, <1>4 DEF row

LEMMA TsDefinitionRow ==
  ASSUME NEW mount, mount = "definition"
  PROVE  Ts!Stages(mount)[1] = "send" /\ Ts!Following(mount, "send") = "done"
<1> DEFINE row == Ts!Stages(mount)
           place(stage) == CHOOSE i \in DOMAIN row : row[i] = stage
<1>1. row = <<"send">>
  BY ObjectsAssumption DEF Ts!Stages
<1> HIDE DEF row
<1>2. DOMAIN row = 1 .. 1 /\ Len(row) = 1
  BY <1>1
<1>3. place("send") = 1
  BY <1>1, <1>2
<1>4. ASSUME NEW stage
      PROVE  Ts!Following(mount, stage) = IF place(stage) = Len(row) THEN "done" ELSE row[place(stage) + 1]
  BY DEF Ts!Following, row
<1> HIDE DEF place
<1>5. Ts!Following(mount, "send") = "done"
  BY <1>1, <1>2, <1>3, <1>4
<1> QED
  BY <1>1, <1>5 DEF row

LEMMA TsFallbackRow ==
  ASSUME NEW mount, mount = "fallback"
  PROVE  /\ Ts!Stages(mount)[1] = "onRequest" /\ Ts!Following(mount, "onRequest") = "notFound"
         /\ Ts!Following(mount, "notFound") = "done"
<1> DEFINE row == Ts!Stages(mount)
           place(stage) == CHOOSE i \in DOMAIN row : row[i] = stage
<1>1. row = <<"onRequest", "notFound">>
  BY ObjectsAssumption DEF Ts!Stages
<1> HIDE DEF row
<1>2. DOMAIN row = 1 .. 2 /\ Len(row) = 2
  BY <1>1
<1>3. place("onRequest") = 1 /\ place("notFound") = 2
  BY <1>1, <1>2
<1>4. ASSUME NEW stage
      PROVE  Ts!Following(mount, stage) = IF place(stage) = Len(row) THEN "done" ELSE row[place(stage) + 1]
  BY DEF Ts!Following, row
<1> HIDE DEF place
<1>5. Ts!Following(mount, "onRequest") = "notFound" /\ Ts!Following(mount, "notFound") = "done"
  BY <1>1, <1>2, <1>3, <1>4
<1> QED
  BY <1>1, <1>5 DEF row

\* Where a request can be, by what handles it.
TsPlaced(mount) ==
  \/ mount \in Objects \cup {"route", "validated"} /\ at \in TsEarly \cup {"before", "send"} \cup Answered
  \/ mount = "definition" /\ at = "send"
  \/ mount = "fallback" /\ at \in {"onRequest", "notFound"}

\* The status of an answer that is no error.
Plain(mount) == IF mount = "fallback" THEN 404 ELSE 200
\* What was written before each stage: until the response is sent at most what a
\* hook or the procedure wrote by itself, then one answer.
TsWritten(mount) ==
  /\ at \notin Answered =>
       (answer = <<>> /\ status = 0) \/ (answer = <<"foreign">> /\ status = Plain(mount))
  /\ at \in {"before", "send"} /\ mount \in Objects => ran
  /\ at \in Answered => /\ status = Plain(mount) /\ answer \in {<<"foreign">>, <<"result">>}
                        /\ (answer = <<"result">> /\ mount \in Objects => ran)
TsExchange ==
  server = "ts" =>
    /\ at # "idle" => app = "serving"
    /\ at \notin {"idle", "done"} =>
         told = 0 /\ TsPlaced(Ts!Mount(request)) /\ TsWritten(Ts!Mount(request))
    /\ Ts!OneAnswer

LEMMA Parts ==
  /\ \A part : Append(<<>>, part) = <<part>>
  /\ \A part : Len(<<part>>) = 1 /\ <<part>> # <<>>
  /\ <<"foreign">> # <<"error">> /\ <<"result">> # <<"error">> /\ <<"foreign">> # <<"result">>
OBVIOUS

\* A stage that passes leaves what the next one expects.
LEMMA TsPassKeeps ==
  ASSUME TsExchange, TsListing, server = "ts", server' = server, Ts!Pass PROVE TsExchange'
<1> DEFINE mount == Ts!Mount(request)
<1>1. /\ at \notin {"idle", "done"} /\ Ts!MayPass(mount) /\ at' = Ts!Following(mount, at)
      /\ \/ at = "send" /\ answer = <<>> /\ answer' = Append(answer, "result") /\ status' = 200
         \/ (at = "send" => answer # <<>>) /\ UNCHANGED <<answer, status>>
         \/ at \in TsEarly \ {"params"} /\ answer = <<>> /\ answer' = Append(answer, "foreign") /\ status' = Plain(mount)
      /\ ran' = (ran \/ at = "handler")
      /\ UNCHANGED <<routes, app, request, told>>
  BY DEF Ts!Pass, Ts!InProgress, Ts!listing, Ts!Handled, Ts!Respond, Ts!Answers, TsEarly, Plain
<1>2. mount' = mount
  BY <1>1 DEF Ts!Mount
<1>3. app' = "serving" /\ told' = 0 /\ TsPlaced(mount) /\ TsWritten(mount)
  BY <1>1 DEF TsExchange
<1>4. mount \in Objects => mount \notin {"route", "validated", "definition", "fallback"}
  BY ObjectsAssumption
<1>5. (at = "notFound" => answer # <<>>) /\ (at = "send" /\ mount \in Objects => answer = <<>>)
  BY <1>1 DEF Ts!MayPass, Ts!Handled
<1> HIDE DEF mount
<1>6. ASSUME at' # "done", TsPlaced(mount)', TsWritten(mount)' PROVE TsExchange'
  BY <1>1, <1>2, <1>3, <1>6 DEF TsExchange, Ts!OneAnswer, mount
<1>7. ASSUME at' = "done", status' = Plain(mount), answer' \in {<<"foreign">>, <<"result">>},
             answer' = <<"result">> /\ mount \in Objects => ran'
      PROVE  TsExchange'
  BY <1>1, <1>2, <1>3, <1>7, Parts DEF TsExchange, Ts!OneAnswer, Plain, mount
<1>8. CASE at \in TsEarly \cup {"before"} /\ mount \in Objects \cup {"route", "validated"}
  <2>1. /\ at' \in TsEarly \cup {"before", "send"} /\ (at' = "before" <=> at = "handler") /\ (at' = "send" <=> at = "before")
    BY <1>1, <1>3, <1>4, <1>8, TsLongRow DEF TsEarly, TsPlaced, Answered
  <2>2. (answer' = <<>> /\ status' = 0) \/ (answer' = <<"foreign">> /\ status' = Plain(mount))
    BY <1>1, <1>3, <1>8, Parts DEF TsWritten, TsEarly, Answered
  <2>3. at' \in {"before", "send"} /\ mount \in Objects => ran'
    BY <1>1, <1>3, <1>8, <2>1 DEF TsWritten
  <2> QED
    BY <1>2, <1>6, <1>8, <2>1, <2>2, <2>3 DEF TsPlaced, TsWritten, TsEarly, Answered
<1>9. CASE at = "send" /\ mount \in Objects \cup {"route", "validated"}
  <2>1. at' = "after"
    BY <1>1, <1>9, TsLongRow
  <2>2. status' = Plain(mount) /\ answer' \in {<<"foreign">>, <<"result">>} /\ (mount \in Objects => ran')
    <3>1. Plain(mount) = 200
      BY <1>4, <1>9 DEF Plain
    <3> QED
      BY <1>1, <1>3, <1>9, <3>1, Parts DEF TsWritten, TsEarly, Answered
  <2> QED
    BY <1>2, <1>6, <1>9, <2>1, <2>2 DEF TsPlaced, TsWritten, Answered
<1>10. CASE at \in Answered
  <2>1. mount \in Objects \cup {"route", "validated"} /\ UNCHANGED <<answer, status>>
    BY <1>1, <1>3, <1>10 DEF TsPlaced, Answered, TsEarly
  <2>2. at' = IF at = "after" THEN "post" ELSE "done"
    BY <1>1, <1>10, <2>1, TsLongRow DEF Answered
  <2>3. /\ status' = Plain(mount) /\ answer' \in {<<"foreign">>, <<"result">>}
        /\ (answer' = <<"result">> /\ mount \in Objects => ran')
    BY <1>1, <1>3, <1>10, <2>1 DEF TsWritten
  <2>4. CASE at = "after"
    BY <1>2, <1>6, <2>1, <2>2, <2>3, <2>4 DEF TsPlaced, TsWritten, Answered
  <2>5. CASE at = "post"
    BY <1>7, <2>2, <2>3, <2>5
  <2> QED
    BY <1>10, <2>4, <2>5 DEF Answered
<1>11. CASE mount = "definition"
  <2>1. at = "send" /\ at' = "done"
    BY <1>1, <1>3, <1>4, <1>11, TsDefinitionRow DEF TsPlaced
  <2>2. status' = Plain(mount) /\ answer' \in {<<"foreign">>, <<"result">>}
    BY <1>1, <1>3, <1>11, <2>1, Parts DEF TsWritten, TsEarly, Answered, Plain
  <2> QED
    BY <1>4, <1>7, <1>11, <2>1, <2>2
<1>12. CASE mount = "fallback"
  <2>1. at \in {"onRequest", "notFound"} /\ at' = IF at = "onRequest" THEN "notFound" ELSE "done"
    BY <1>1, <1>3, <1>4, <1>12, TsFallbackRow DEF TsPlaced
  <2>2. (answer' = <<>> /\ status' = 0) \/ (answer' = <<"foreign">> /\ status' = Plain(mount))
    BY <1>1, <1>3, <2>1, Parts DEF TsWritten, TsEarly, Answered
  <2>3. CASE at = "onRequest"
    BY <1>2, <1>4, <1>6, <1>12, <2>1, <2>2, <2>3 DEF TsPlaced, TsWritten, Answered
  <2>4. CASE at = "notFound"
    <3>1. answer' = answer /\ answer # <<>>
      BY <1>1, <1>5, <2>4 DEF TsEarly
    <3> QED
      BY <1>4, <1>7, <1>12, <2>1, <2>2, <2>4, <3>1
  <2> QED
    BY <2>1, <2>3, <2>4
<1> QED
  BY <1>3, <1>8, <1>9, <1>10, <1>11, <1>12 DEF TsPlaced

\* A stage that fails is told of once; it ends the request with an error, or
\* leaves the answer that was sent.
LEMMA TsFailKeeps ==
  ASSUME TsExchange, server = "ts", server' = server, Ts!FailStage PROVE TsExchange'
<1> DEFINE mount == Ts!Mount(request)
<1>1. /\ at \notin {"idle", "done"} /\ at' = "done" /\ told' = told + 1 /\ ran' = (ran \/ at = "handler")
      /\ \/ answer # <<>> /\ UNCHANGED <<answer, status>>
         \/ answer = <<>> /\ answer' = Append(answer, "error") /\ status' \in {Ts!ErrorCode, 500}
         \/ answer = <<>> /\ answer' = Append(answer, "foreign") /\ status' = Plain(mount)
      /\ UNCHANGED <<routes, app, request>>
  BY DEF Ts!FailStage, Ts!InProgress, Ts!HandleH3Error, Ts!Handled, Ts!Answers, Ts!Respond, Ts!listing, Plain
<1>2. mount' = mount
  BY <1>1 DEF Ts!Mount
<1>3. app' = "serving" /\ told' = 1 /\ TsWritten(mount)
  BY <1>1 DEF TsExchange
<1> HIDE DEF mount
<1>4. CASE answer = <<>> /\ answer' = Append(answer, "error") /\ status' \in {Ts!ErrorCode, 500}
  <2>1. status' >= 400
    BY <1>4 DEF Ts!ErrorCode
  <2>2. answer' = <<"error">>
    BY <1>4, Parts
  <2> QED
    BY <1>1, <1>3, <2>1, <2>2, Parts DEF TsExchange, Ts!OneAnswer
<1>5. CASE ~ (answer = <<>> /\ answer' = Append(answer, "error") /\ status' \in {Ts!ErrorCode, 500})
  <2>1. /\ status' = Plain(mount) /\ answer' \in {<<"foreign">>, <<"result">>}
        /\ (answer' = <<"result">> /\ mount \in Objects => ran')
    <3>1. CASE answer # <<>> /\ UNCHANGED <<answer, status>>
      BY <1>1, <1>3, <3>1, Parts DEF TsWritten
    <3>2. CASE answer' = Append(answer, "foreign") /\ answer = <<>> /\ status' = Plain(mount)
      BY <3>2, Parts
    <3> QED
      BY <1>1, <1>5, <3>1, <3>2
  <2> QED
    BY <1>1, <1>2, <1>3, <2>1, Parts DEF TsExchange, Ts!OneAnswer, Plain, mount
<1> QED
  BY <1>4, <1>5

LEMMA TsExchangeStep ==
  ASSUME TsExchange, TsListing, [Next]_vars PROVE TsExchange'
<1>1. CASE UNCHANGED vars
  BY <1>1 DEF TsExchange, TsPlaced, TsWritten, Ts!Mount, Ts!OneAnswer, vars, tsOnly
<1>2. CASE server # "ts" /\ Next
  BY <1>2 DEF Next, TsExchange
<1>3. CASE server = "ts" /\ Next
  <2>1. server' = server /\ Ts!Next
    BY <1>3 DEF Next
  <2>2. CASE app = "registering" /\ UNCHANGED Ts!exchange
    <3>1. at = "idle" /\ at' = "idle"
      BY <1>3, <2>2 DEF TsExchange, Ts!exchange
    <3> QED
      BY <3>1 DEF TsExchange, Ts!OneAnswer
  <2>3. ASSUME NEW q \in Requests, Ts!Arrive(q) PROVE TsExchange'
    <3> DEFINE mount == Ts!Mount(q)
    <3>1. /\ app' = "serving" /\ request' = q /\ at' = Ts!Stages(mount)[1]
          /\ status' = 0 /\ answer' = <<>> /\ told' = 0 /\ routes' = routes
      BY <2>3 DEF Ts!Arrive, Ts!listing
    <3>2. Ts!Mount(request)' = mount /\ mount' = mount
      BY <3>1 DEF Ts!Mount
    <3>3. mount \in Objects \cup {"route", "validated", "definition", "fallback"}
      BY <1>3, TsMount
    <3> HIDE DEF mount
    <3>4. TsPlaced(mount)' /\ at' \in {"onRequest", "send"} /\ (at' = "send" => mount \notin Objects)
      BY <3>1, <3>2, <3>3, TsLongRow, TsDefinitionRow, TsFallbackRow, ObjectsAssumption DEF TsPlaced, TsEarly
    <3>5. TsWritten(mount)'
      BY <3>1, <3>2, <3>4 DEF TsWritten, Answered
    <3> QED
      BY <3>1, <3>2, <3>4, <3>5 DEF TsExchange, Ts!OneAnswer
  <2>4. CASE Ts!Pass
    BY <1>3, <2>1, <2>4, TsPassKeeps
  <2>5. CASE Ts!FailStage
    BY <1>3, <2>1, <2>5, TsFailKeeps
  <2>6. CASE Ts!Again
    BY <2>6 DEF Ts!Again, TsExchange, Ts!OneAnswer
  <2>7. ASSUME NEW o \in Objects, NEW n \in Names, Ts!AppRpc(n, o) PROVE TsExchange'
    BY <2>2, <2>7 DEF Ts!AppRpc
  <2>8. ASSUME NEW o \in Objects, NEW n \in Names, NEW s \in Services, Ts!ServiceRpc(s, n, o) PROVE TsExchange'
    BY <2>2, <2>8 DEF Ts!ServiceRpc
  <2>9. ASSUME NEW s \in Services, Ts!UseService(s) PROVE TsExchange'
    BY <2>2, <2>9 DEF Ts!UseService
  <2>10. ASSUME NEW r \in Routes, Ts!Route(r) PROVE TsExchange'
    BY <2>2, <2>10 DEF Ts!Route
  <2>11. CASE Ts!Listen
    BY <2>2, <2>11 DEF Ts!Listen
  <2>12. CASE Ts!UseMiddleware
    <3>1. at = "idle" /\ at' = "idle"
      BY <2>12 DEF Ts!UseMiddleware, Ts!exchange
    <3> QED
      BY <3>1 DEF TsExchange, Ts!OneAnswer
  <2> QED
    BY <2>1, <2>3, <2>4, <2>5, <2>6, <2>7, <2>8, <2>9, <2>10, <2>11, <2>12 DEF Ts!Next
<1> QED
  BY <1>1, <1>2, <1>3

\* For any procedures, routes, hooks and requests: a request of either server gets
\* one answer, an error is said once and under an error's status, and a result
\* is of a procedure that ran.
THEOREM OneAnswerCorrect == Spec => []OneAnswer
<1>1. Init => GoExchange /\ TsExchange /\ TsListing
  <2>1. Init => at = "idle"
    BY DEF Init, Go!Init, Ts!Init
  <2>2. Init => GoExchange /\ TsExchange
    BY <2>1 DEF GoExchange, TsExchange, Go!OneAnswer, Ts!OneAnswer
  <2> QED
    BY <2>2, TsListingInit
<1>2. GoExchange /\ TsExchange /\ TsListing /\ [Next]_vars => (GoExchange /\ TsExchange /\ TsListing)'
  BY GoExchangeStep, TsExchangeStep, TsListingStep
<1>3. Init => server \in {"go", "ts"}
  BY DEF Init
<1>4. server \in {"go", "ts"} /\ [Next]_vars => (server \in {"go", "ts"})'
  BY DEF Next, vars
<1>5. GoExchange /\ TsExchange /\ server \in {"go", "ts"} => OneAnswer
  BY DEF GoExchange, TsExchange, OneAnswer
<1> QED
  BY <1>1, <1>2, <1>3, <1>4, <1>5, PTL DEF Spec
=============================================================================
