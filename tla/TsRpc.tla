-------------------------------- MODULE TsRpc --------------------------------
(***************************************************************************)
(* The TypeScript server's application.  Procedures are objects: the app    *)
(* and its services write the name they are registered under into them.    *)
(* Registration lists a procedure in the app definition and mounts it on   *)
(* h3's router; then requests are answered, each by a row of stages that    *)
(* may wait for promises and may answer by themselves.                     *)
(***************************************************************************)
EXTENDS Naturals, Sequences, FiniteSets, Maps

CONSTANTS Objects,   \* procedure objects, none of them a name below Mount
          Proc,      \* by object: [path, method, params, response, stream, post]
          Services,  \* names of services
          Names,     \* names procedures are registered under
          Routes,    \* routes: [path, method, query, body]: whether it has a schema for each
          Requests,  \* [path, method, good]: good says whether the input is valid
          MaxCalls   \* bound: how often procedures are registered
\* A schema is [name, shape, compiles]; name is "" without a metadata id.

VARIABLES nameOf,       \* the name property of an object, "" before
          services,     \* by service: the objects it collected
          procedures,   \* the app definition: by name, [path, method, params, response]
          definitions,  \* the app definition: by name, the shape of a schema
          routes,       \* the router: by path and method, what handles it
          useJit,       \* useJitCompiler
          middleware,   \* how many middlewares the app's array holds
          calls,        \* history: the names objects were given, <<name, object>>
          app,          \* "registering" or "serving"
          request, at,  \* the request being served, and the stage it is at
          status, answer, \* the status sent, and who wrote a response
          told, ran     \* how often onError was called; the procedure was called
listing == <<nameOf, services, procedures, definitions, routes, useJit, middleware, calls, app>>
exchange == <<request, at, status, answer, told, ran>>
vars == <<listing, exchange>>

NoSchema == [name |-> "", shape |-> "none", compiles |-> TRUE]
Definition == "/__definition"
None == "none"
NoRequest == [path |-> "", method |-> "", good |-> FALSE]

\* The constructor mounts the definition and the default route.
Init == /\ nameOf = [o \in Objects |-> ""] /\ services = [s \in Services |-> <<>>]
        /\ procedures = <<>> /\ definitions = <<>> /\ calls = {} /\ middleware = 0 /\ useJit = TRUE
        /\ routes = [r \in {<<Definition, "get">>, <<"/", "get">>, <<"/", "head">>} |->
                      IF r[1] = Definition THEN "definition" ELSE "route"]
        /\ app = "registering"
        /\ request = NoRequest /\ at = "idle" /\ status = 0 /\ answer = <<>> /\ told = 0 /\ ran = FALSE

(***************************************************************************)
(* Registration.                                                           *)
(***************************************************************************)
\* A custom path is taken as it is, without the prefix.
RpcPath(p, name) == IF p.path # "" THEN p.path ELSE "/" \o name
HttpMethod(p) == IF p.method = "" THEN "post" ELSE p.method
SchemaName(name, schema, type) == IF schema.name = "" THEN name \o type ELSE schema.name
Listed(name, schema, type) == IF schema = NoSchema THEN None ELSE SchemaName(name, schema, type)
Defined(known, name, schema, type) ==
  IF schema = NoSchema THEN known ELSE Put(known, SchemaName(name, schema, type), schema.shape)
HttpRpcDefinition(p, name) ==
  [path |-> RpcPath(p, name), method |-> IF p.method = "" /\ p.stream THEN "get" ELSE HttpMethod(p),
   params |-> Listed(name, p.params, "Params"), response |-> Listed(name, p.response, "Response")]

\* The first schema that does not compile turns the compiler off for good.
Compiled(jit, p) == jit /\ p.params.compiles /\ p.response.compiles

\* A call of rpc for one object, on what calls before it made of the app.
Rpc(a, name, o) ==
  LET p == Proc[o] IN
  [nameOf |-> [a.nameOf EXCEPT ![o] = name],
   procedures |-> Put(a.procedures, name, HttpRpcDefinition(p, name)),
   definitions |-> Defined(Defined(a.definitions, name, p.params, "Params"), name, p.response, "Response"),
   routes |-> Put(a.routes, <<RpcPath(p, name), HttpMethod(p)>>, o),
   useJit |-> Compiled(a.useJit, p),
   calls |-> a.calls \cup {<<name, o>>}]
Built == [nameOf |-> nameOf, procedures |-> procedures, definitions |-> definitions, routes |-> routes,
          useJit |-> useJit, calls |-> calls]
Builds(a) == /\ nameOf' = a.nameOf /\ procedures' = a.procedures /\ definitions' = a.definitions
             /\ routes' = a.routes /\ useJit' = a.useJit /\ calls' = a.calls

AppRpc(name, o) == /\ app = "registering" /\ Cardinality(calls) < MaxCalls
                   /\ Builds(Rpc(Built, name, o)) /\ UNCHANGED <<services, middleware, app, exchange>>
ServiceRpc(s, name, o) ==
  /\ app = "registering" /\ Cardinality(calls) < MaxCalls
  /\ <<s \o "." \o name, o>> \notin calls   \* once
  /\ nameOf' = [nameOf EXCEPT ![o] = s \o "." \o name]
  /\ services' = [services EXCEPT ![s] = Append(@, o)]
  /\ calls' = calls \cup {<<s \o "." \o name, o>>}
  /\ UNCHANGED <<procedures, definitions, routes, useJit, middleware, app, exchange>>
\* Every object is registered under the name it has by now.
Used(s) ==
  LET built[n \in 0 .. Len(services[s])] ==
        IF n = 0 THEN Built
        ELSE Rpc(built[n - 1], built[n - 1].nameOf[services[s][n]], services[s][n])
  IN built[Len(services[s])]
UseService(s) ==
  /\ app = "registering" /\ services[s] # <<>>
  /\ Builds(Used(s))
  /\ UNCHANGED <<services, middleware, app, exchange>>
UseMiddleware == /\ middleware = 0 /\ middleware' = 1 /\ at = "idle"
                 /\ UNCHANGED <<nameOf, services, procedures, definitions, routes, useJit, calls, app, exchange>>
\* A schema for the body means nothing to a method without one.
Bodiless == {"get", "head", "connect", "options"}
Validates(r) == r.query \/ (r.body /\ r.method \notin Bodiless)
Route(r) == /\ app = "registering"
            /\ routes' = Put(routes, <<r.path, r.method>>, IF Validates(r) THEN "validated" ELSE "route")
            /\ UNCHANGED <<nameOf, services, procedures, definitions, useJit, middleware, calls, app, exchange>>
Listen == /\ app = "registering" /\ app' = "serving"
          /\ UNCHANGED <<nameOf, services, procedures, definitions, routes, useJit, middleware, calls, exchange>>

(***************************************************************************)
(* A request.                                                              *)
(***************************************************************************)
\* What handles a request: a procedure object, "route" or "validated" for a route,
\* "definition" or "fallback".
Mount(q) == IF <<q.path, q.method>> \in DOMAIN routes THEN routes[<<q.path, q.method>>] ELSE "fallback"
Stages(mount) ==
  CASE mount \in Objects \cup {"route", "validated"} ->
         <<"onRequest", "middleware", "params", "handler", "before", "send", "after", "post">>
    [] mount = "definition" -> <<"send">>
    [] mount = "fallback" -> <<"onRequest", "notFound">>
Following(mount, stage) ==
  LET row == Stages(mount)
      i == CHOOSE i \in DOMAIN row : row[i] = stage
  IN IF i = Len(row) THEN "done" ELSE row[i + 1]

Arrive(q) == /\ app = "serving" /\ at = "idle" /\ request' = q /\ at' = Stages(Mount(q))[1]
             /\ status' = 0 /\ answer' = <<>> /\ told' = 0 /\ ran' = FALSE
             /\ UNCHANGED listing

InProgress == at \notin {"idle", "done"}
Handled == answer # <<>>
\* A procedure's headers cannot be set any more once something answered.
MayPass(mount) ==
  CASE at = "params" -> request.good \/ mount = "route" \/ (mount \in Objects /\ Proc[mount].params = NoSchema)
    [] at = "send" -> mount \in Objects => ~ Handled
    [] at = "notFound" -> Handled
    [] OTHER -> TRUE
MayFail(mount) ==
  CASE at \in {"params", "notFound"} -> ~ MayPass(mount)
    [] at = "middleware" -> middleware > 0
    [] at = "send" -> mount \in Objects \/ (mount # "definition" /\ ~ Handled)
    [] at = "before" -> mount \in Objects \/ ~ Handled
    [] at = "post" -> mount \in Objects => Proc[mount].post
    [] OTHER -> TRUE
ErrorCode == CASE at = "notFound" -> 404 [] at = "params" -> 400 [] at = "send" -> 500 [] OTHER -> 403

Respond(part, code) == answer' = Append(answer, part) /\ status' = IF answer = <<>> THEN code ELSE status
\* A hook or the procedure writes a response of its own; the fallback has set the
\* status of an unknown path before it asks the hook.
Answers == /\ at \in {"onRequest", "middleware", "handler"} /\ (at = "middleware" => middleware > 0) /\ ~ Handled
           /\ Respond("foreign", IF Mount(request) = "fallback" THEN 404 ELSE 200)
Pass == LET mount == Mount(request) IN
  /\ InProgress /\ MayPass(mount) /\ at' = Following(mount, at)
  /\ \/ at = "send" /\ ~ Handled /\ Respond("result", 200)
     \/ (at = "send" => Handled) /\ UNCHANGED <<answer, status>>
     \/ Answers
  /\ ran' = (ran \/ at = "handler")
  /\ UNCHANGED <<listing, request, told>>

\* The error is written by onError or else by sendArriError.  onError may throw;
\* then h3 sends the error it threw.  None of it if something answered, be it the
\* stage that failed.
HandleH3Error == /\ told' = told + 1
                 /\ \/ Handled /\ UNCHANGED <<answer, status>>
                    \/ ~ Handled /\ \E code \in {ErrorCode, 500} : Respond("error", code)
                    \/ Answers
FailStage == LET mount == Mount(request) IN
  /\ InProgress /\ MayFail(mount) /\ HandleH3Error
  /\ at' = "done" /\ ran' = (ran \/ at = "handler")
  /\ UNCHANGED <<listing, request>>
Again == /\ at = "done" /\ at' = "idle" /\ request' = NoRequest /\ status' = 0 /\ answer' = <<>>
         /\ told' = 0 /\ ran' = FALSE /\ UNCHANGED listing

Next == \/ \E o \in Objects, n \in Names : AppRpc(n, o) \/ \E s \in Services : ServiceRpc(s, n, o)
        \/ \E s \in Services : UseService(s)
        \/ \E r \in Routes : Route(r)
        \/ UseMiddleware \/ Listen
        \/ \E q \in Requests : Arrive(q)
        \/ Pass \/ FailStage \/ Again

(***************************************************************************)
(* Properties.                                                             *)
(***************************************************************************)
\* No object is registered under two names, no two procedures share a path and
\* a method, and no route takes a procedure's: the server checks none of it.
Key(c) == <<RpcPath(Proc[c[2]], c[1]), HttpMethod(Proc[c[2]])>>
Alone == /\ \A c, d \in calls : c[2] = d[2] \/ c[1] = d[1] \/ Key(c) = Key(d) => c = d
         /\ \A c \in calls, r \in Routes : Key(c) # <<r.path, r.method>>
\* What the app definition lists is served where it says, under its method, and
\* the middleware of the request is told the name it is listed under.
ListedIsServed ==
  Alone => \A n \in DOMAIN procedures :
    LET d == procedures[n]
        mount == routes[<<d.path, d.method>>]
    IN <<d.path, d.method>> \in DOMAIN routes /\ mount \in Objects /\ <<n, mount>> \in calls
       /\ (app = "serving" => nameOf[mount] = n)

\* The schemas a procedure names resolve to those it is checked against, as
\* long as two schemas under one name have one shape.
Slots(c) == {<<Proc[c[2]].params, "Params">>, <<Proc[c[2]].response, "Response">>}
NamesAreUnique ==
  \A c, d \in calls : \A s \in Slots(c), t \in Slots(d) :
    /\ s[1] # NoSchema /\ t[1] # NoSchema
    /\ SchemaName(c[1], s[1], s[2]) = SchemaName(d[1], t[1], t[2])
    => s[1].shape = t[1].shape
DefinitionsResolve ==
  Alone /\ NamesAreUnique => \A c \in {c \in calls : c[1] \in DOMAIN procedures} :
    LET d == procedures[c[1]]
        p == Proc[c[2]]
    IN /\ (p.params # NoSchema => definitions[d.params] = p.params.shape)
       /\ (p.response # NoSchema => definitions[d.response] = p.response.shape)

\* A request is answered once, by whoever answers first: an error under an error's
\* status and told once, before; any other answer under 200, or 404 for a path
\* nothing is mounted at.
OneAnswer ==
  at = "done" => /\ Len(answer) = 1 /\ told <= 1
                 /\ (answer = <<"error">> => status >= 400 /\ told = 1)
                 /\ (answer # <<"error">> => status = IF Mount(request) = "fallback" THEN 404 ELSE 200)
                 /\ (answer = <<"result">> /\ Mount(request) \in Objects => ran)

===============================================================================
