--------------------------------- MODULE MCRpc ---------------------------------
(***************************************************************************)
(* The two servers' applications, each on a few procedures, with the same   *)
(* requests.                                                               *)
(***************************************************************************)
EXTENDS RpcServers

\* Two functions of one name, one name for two models, custom paths that are taken.
GoModel(name, shape) == [name |-> name, shape |-> shape]
GoEmpty == GoModel("EmptyMessage", "empty")
Fn(fn, service, path, method, params, response) ==
  [fn |-> fn, service |-> service, path |-> path, method |-> method, params |-> params, response |-> response]
MCFunctions == {Fn("get", "users", "", "get", GoModel("Id", "A"), GoModel("User", "B")),
                Fn("get", "users", "/custom", "", GoModel("", "C"), GoModel("", "E")),
                Fn("get", "", "", "", GoEmpty, GoModel("", "B")),
                Fn("list", "", "/get", "get", GoModel("Id", "D"), GoModel("User", "B"))}
MCModels == {GoModel("Id", "A"), GoModel("User", "B")}

Schema(name, shape, compiles) == [name |-> name, shape |-> shape, compiles |-> compiles]
NoSchema == Schema("", "none", TRUE)
MCProc == [o1 |-> [path |-> "", method |-> "get", params |-> Schema("Id", "A", TRUE),
                   response |-> Schema("User", "B", FALSE), stream |-> FALSE, post |-> TRUE],
           o2 |-> [path |-> "/get", method |-> "", params |-> Schema("", "C", TRUE),
                   response |-> Schema("", "E", TRUE), stream |-> FALSE, post |-> FALSE],
           o3 |-> [path |-> "", method |-> "", params |-> Schema("Id", "D", TRUE),
                   response |-> NoSchema, stream |-> FALSE, post |-> FALSE]]
MCObjects == DOMAIN MCProc

\* Every mount under a method of its own, under another, and with a bad input.
Request(path, method, good) == [path |-> path, method |-> method, good |-> good]
MCRequests == {Request("/", "get", TRUE), Request("/__definition", "get", TRUE), Request("/health", "get", FALSE),
               Request("/hook", "post", TRUE), Request("/hook", "post", FALSE),
               Request("/custom", "post", TRUE), Request("/custom", "post", FALSE), Request("/custom", "get", TRUE),
               Request("/users/get", "get", TRUE), Request("/users/get", "get", FALSE), Request("/users/get", "options", TRUE),
               Request("/get", "get", FALSE), Request("/get", "post", TRUE), Request("/get", "post", FALSE),
               Request("/users.get", "get", TRUE)}

MCServices == {"users"}
MCNames == {"get", "list"}
MCRoutes == {[path |-> "/health", method |-> "get", query |-> FALSE, body |-> TRUE],
             [path |-> "/hook", method |-> "post", query |-> FALSE, body |-> TRUE]}
===============================================================================
