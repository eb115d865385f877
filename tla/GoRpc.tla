-------------------------------- MODULE GoRpc --------------------------------
(***************************************************************************)
(* The Go server's application: procedures and models are registered, which *)
(* lists them in the app definition and mounts them on a mux; then requests *)
(* are answered, each by one handler that runs a fixed row of stages.       *)
(***************************************************************************)
EXTENDS Naturals, Sequences, Maps

CONSTANTS Functions, \* functions: [fn, service, path, method, params, response]
          Models,    \* models an application registers by themselves
          Requests   \* [path, method, good]: good says whether the input can be decoded
\* A model is [name, shape]; name is "" for an unnamed struct.

VARIABLES procedures,   \* the app definition: by name, [path, method, params, response]
          definitions,  \* the app definition: by name, the shape of a model
          routes,       \* the mux: by path, the function mounted there
          middleware,   \* how many middlewares are installed
          app,          \* "registering", "panicked" or "serving"
          request, at,  \* the request being served, and the stage it is at
          status, body, \* what was written: the status sent, the parts of the body
          told,         \* how often onError was called
          ran           \* the procedure was called
listing == <<procedures, definitions, routes, middleware, app>>
exchange == <<request, at, status, body, told, ran>>
vars == <<listing, exchange>>

Empty == [name |-> "EmptyMessage", shape |-> "empty"]
Root == "/"
Definition == "/__definition"
None == "none"
NoRequest == [path |-> "", method |-> "", good |-> FALSE]

Init == /\ procedures = <<>> /\ definitions = <<>> /\ routes = <<>> /\ middleware = 0
        /\ app = "registering"
        /\ request = NoRequest /\ at = "idle" /\ status = 0 /\ body = <<>> /\ told = 0 /\ ran = FALSE

(***************************************************************************)
(* Registration.                                                           *)
(***************************************************************************)
RpcName(p) == IF p.service = "" THEN p.fn ELSE p.service \o "." \o p.fn
RpcPath(p) == CASE p.path # "" -> p.path
                [] p.service # "" -> "/" \o p.service \o "/" \o p.fn
                [] OTHER -> "/" \o p.fn
Method(p) == IF p.method = "" THEN "post" ELSE p.method
ModelName(p, model, suffix) == IF model.name = "" THEN RpcName(p) \o suffix ELSE model.name
Listed(p, model, suffix) == IF model = Empty THEN None ELSE ModelName(p, model, suffix)
Defined(known, p, model, suffix) ==
  IF model = Empty THEN known ELSE Put(known, ModelName(p, model, suffix), model.shape)
\* Mutant: the custom path is kept from the listing.
RpcDefUnrouted(p) == [path |-> IF p.service = "" THEN "/" \o p.fn ELSE "/" \o p.service \o "/" \o p.fn,
                      method |-> Method(p), params |-> Listed(p, p.params, "Params"),
                      response |-> Listed(p, p.response, "Response")]
RpcDef(p) == [path |-> RpcPath(p), method |-> Method(p),
              params |-> Listed(p, p.params, "Params"), response |-> Listed(p, p.response, "Response")]

\* The mux panics on a path it has, when the procedure is listed already.
Register(p) ==
  /\ app = "registering"
  /\ definitions' = Defined(Defined(definitions, p, p.params, "Params"), p, p.response, "Response")
  /\ procedures' = Put(procedures, RpcName(p), RpcDef(p))
  /\ IF RpcPath(p) \in DOMAIN routes \cup {Root, Definition}
     THEN app' = "panicked" /\ UNCHANGED routes
     ELSE routes' = Put(routes, RpcPath(p), p) /\ UNCHANGED app
  /\ UNCHANGED <<middleware, exchange>>
RegisterDef(model) == /\ app = "registering"
                      /\ definitions' = Put(definitions, model.name, model.shape)
                      /\ UNCHANGED <<procedures, routes, middleware, app, exchange>>
Use == /\ app = "registering" /\ middleware = 0 /\ middleware' = 1
       /\ UNCHANGED <<procedures, definitions, routes, app, exchange>>
Run == app = "registering" /\ app' = "serving" /\ UNCHANGED <<procedures, definitions, routes, middleware, exchange>>

(***************************************************************************)
(* A request.  Every handler is a row of stages, each of which passes or    *)
(* ends the request with an error.                                         *)
(***************************************************************************)
Target(q) == CASE q.path \in DOMAIN routes -> "rpc"
               [] q.path = Definition -> "definition"
               [] OTHER -> "root"
Stages(target) ==
  CASE target = "rpc" -> <<"create", "method", "onRequest", "middleware", "params", "handler", "before", "encode", "after">>
    [] target = "root" -> <<"create", "onRequest", "path", "before", "after">>
    [] target = "definition" -> <<"create", "onRequest", "before", "after">>
Following(target, stage) ==
  LET row == Stages(target)
      i == CHOOSE i \in DOMAIN row : row[i] = stage
  IN IF i = Len(row) THEN "done" ELSE row[i + 1]

FirstStatus(code) == status' = IF status = 0 THEN code ELSE status
Function == routes[request.path]

Arrive(q) ==
  /\ app = "serving" /\ at = "idle" /\ request' = q /\ told' = 0 /\ ran' = FALSE
  /\ IF q.method = "options"
     THEN at' = "done" /\ status' = 200 /\ body' = <<"ok">>
     ELSE at' = "create" /\ status' = 0 /\ body' = <<>>
  /\ UNCHANGED listing

\* What a stage asks of the request; the rest is up to the application's hooks.
MayPass(target) ==
  CASE at = "method" -> request.method = Method(Function)
    [] at = "params" -> Function.params = Empty \/ request.good
    [] at = "path" -> request.path = Root
    [] OTHER -> TRUE
MayFail(target) ==
  CASE at \in {"method", "params", "path"} -> ~ MayPass(target)
    [] at = "middleware" -> middleware > 0
    [] at = "encode" -> Function.response # Empty
    [] OTHER -> TRUE
ErrorCode == CASE at \in {"method", "path"} -> 404
               [] at = "params" -> 400
               [] at = "encode" -> 500
               [] OTHER -> 403    \* the application's choice
\* The stage after which the status is written, and the one after which the body is.
WritesStatus(target) == CASE target = "root" -> at = "path" [] OTHER -> at = "before"
WritesBody(target) == CASE target = "rpc" -> at = "encode" [] OTHER -> at = "before"

InProgress == at \notin {"idle", "done"}
Pass == LET target == Target(request) IN
  /\ InProgress /\ MayPass(target)
  /\ at' = Following(target, at)
  /\ IF WritesStatus(target) THEN FirstStatus(200) ELSE UNCHANGED status
  /\ body' = IF WritesBody(target) THEN Append(body, "result") ELSE body
  /\ ran' = (ran \/ at = "handler")
  /\ UNCHANGED <<listing, request, told>>

\* Mutant: the error is sent in any case.
HandleErrorAgain(sent) == told' = told + 1 /\ FirstStatus(ErrorCode) /\ body' = Append(body, "error")
\* Sending the error is left out once the response was sent.
HandleError(sent) == /\ told' = told + 1
                     /\ IF sent THEN UNCHANGED <<status, body>>
                        ELSE FirstStatus(ErrorCode) /\ body' = Append(body, "error")
FailStage == LET target == Target(request) IN
  /\ InProgress /\ MayFail(target) /\ HandleError(at = "after")
  \* The definition's handler goes on after onRequest failed.
  /\ at' = IF target = "definition" /\ at = "onRequest" THEN "before" ELSE "done"
  /\ ran' = (ran \/ at = "handler")
  /\ UNCHANGED <<listing, request>>
Again == /\ at = "done" /\ at' = "idle" /\ request' = NoRequest /\ status' = 0 /\ body' = <<>>
         /\ told' = 0 /\ ran' = FALSE /\ UNCHANGED listing

Next == \/ \E p \in Functions : Register(p)
        \/ \E m \in Models : RegisterDef(m)
        \/ Use \/ Run
        \/ \E q \in Requests : Arrive(q)
        \/ Pass \/ FailStage \/ Again

(***************************************************************************)
(* Properties.                                                             *)
(***************************************************************************)
\* What the app definition lists is mounted where it says, under its method.
ListedIsServed ==
  app # "panicked" => \A n \in DOMAIN procedures :
    LET d == procedures[n] IN d.path \in DOMAIN routes /\ RpcName(routes[d.path]) = n /\ d.method = Method(routes[d.path])

\* The models a procedure names resolve to those its handler uses, as long as
\* two models under one name have one shape (procedures.go:68 and 88 overwrite).
Mounted == {routes[path] : path \in DOMAIN routes}
Slots(p) == {<<p.params, "Params">>, <<p.response, "Response">>}
NamesAreUnique ==
  \A p \in Mounted : \A s \in Slots(p) : s[1] # Empty =>
    /\ \A m \in Models : m.name = ModelName(p, s[1], s[2]) => m.shape = s[1].shape
    /\ \A q \in Mounted : \A t \in Slots(q) :
         t[1] # Empty /\ ModelName(q, t[1], t[2]) = ModelName(p, s[1], s[2]) => t[1].shape = s[1].shape
DefinitionsResolve ==
  app # "panicked" /\ NamesAreUnique => \A p \in Mounted :
    LET d == procedures[RpcName(p)]
    IN RpcPath(p) = d.path =>
         /\ (p.params # Empty => definitions[d.params] = p.params.shape)
         /\ (p.response # Empty => definitions[d.response] = p.response.shape)

\* A procedure's request gets one answer, an error under an error status and told
\* once; but 200 was sent when the response turns out not to be encodable.
OneAnswer ==
  at = "done" /\ Target(request) = "rpc" =>
    /\ Len(body) = 1 /\ told <= 1
    /\ (body = <<"error">> => told = 1 /\ (status >= 400 \/ (ran /\ Function.response # Empty)))
    /\ (body = <<"result">> => status = 200 /\ ran)

===============================================================================
