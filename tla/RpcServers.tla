------------------------------ MODULE RpcServers ------------------------------
(***************************************************************************)
(* The two servers' applications with the same requests: a behaviour is of *)
(* one of the two.  What a server promises about its listing and about a   *)
(* request is stated once for both.                                        *)
(***************************************************************************)
EXTENDS Naturals, Sequences

CONSTANTS
    Functions, Models,                                 \* of a Go application
    Objects, Proc, Services, Names, Routes, MaxCalls,  \* of a TypeScript application
    Requests

\* What else a request is handled by has a name that is no procedure object's.
ASSUME ObjectsAssumption == Objects \cap {"definition", "route", "validated", "fallback"} = {}

VARIABLES server, procedures, definitions, routes, middleware, app, request, at, status, told, ran,
          body,                                    \* Go
          nameOf, services, useJit, calls, answer  \* TypeScript
goOnly == body
tsOnly == <<nameOf, services, useJit, calls, answer>>
vars == <<server, procedures, definitions, routes, middleware, app, at, request, status, told, ran, goOnly, tsOnly>>

Go == INSTANCE GoRpc
Ts == INSTANCE TsRpc

Init == \/ server = "go" /\ Go!Init /\ nameOf = "" /\ services = "" /\ useJit = FALSE /\ calls = {} /\ answer = <<>>
        \/ server = "ts" /\ Ts!Init /\ body = <<>>
Next == UNCHANGED server /\ (\/ server = "go" /\ Go!Next /\ UNCHANGED tsOnly
                             \/ server = "ts" /\ Ts!Next /\ UNCHANGED goOnly)
Spec == Init /\ [][Next]_vars

\* Of both servers: what the definition lists is served where and under the method
\* it says, with the models it names.
ListedIsServed ==
  IF server = "go" THEN Go!ListedIsServed /\ Go!DefinitionsResolve
                   ELSE Ts!ListedIsServed /\ Ts!DefinitionsResolve
\* Of both servers: a request gets one answer, an error is said once and under an
\* error's status, and a result is of a procedure that ran.
OneAnswer == IF server = "go" THEN Go!OneAnswer ELSE Ts!OneAnswer
=============================================================================
