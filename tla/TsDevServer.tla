----------------------------- MODULE TsDevServer -----------------------------
(***************************************************************************)
(* arri dev for a TypeScript app (tsServer.ts): each change of the sources *)
(* starts a handler that writes the app's entry with a route for each      *)
(* procedure file, bundles it, imports the bundle into the running server  *)
(* and generates the clients if the app definition has changed.  Handlers  *)
(* are not serialised: between two awaits of one any step of another, and  *)
(* another save, may come.  The first handler is the start of the command. *)
(*                                                                         *)
(* External: esbuild, whose rebuild() joins a build that is under way, and *)
(* the generators, which write the clients or fail.                        *)
(***************************************************************************)
EXTENDS Naturals, Sequences

CONSTANTS Sources  \* what the sources are after each save: files, the procedure
                   \* files; shape, what the definition shows of the rest; compiles;
                   \* event, as what the watcher announces the save

ASSUME SourcesAssumption ==
    /\ Sources \in Seq([files : SUBSET STRING, shape : STRING, compiles : BOOLEAN, event : STRING])
    /\ Sources # <<>>
    /\ \A i \in DOMAIN Sources : "torn" \notin Sources[i].files

VARIABLES
    edition,         \* the saves so far: the sources are Sources[edition]
    events,          \* events of the watcher that no handler has taken
    handler,         \* the handlers that were begun
    genApp,          \* the procedures the entry file on disk lists
    build,           \* the build under way
    outApp,          \* the bundle on disk
    dynamicHandler,  \* the app the dev server answers with
    appDefStr,       \* the definition of the last generation
    client,          \* the definition the generated clients are of
    disturbed,       \* history: the last handler overlapped with one before it, or
                     \* a save was not announced since it began
    crossed          \* history: reloads overlapped, or a generator failed

watched == <<edition, events>>
files == <<genApp, build, outApp>>
served == <<dynamicHandler, appDefStr, client>>
vars == <<watched, handler, files, served, disturbed, crossed>>

Torn == {"torn"}  \* what a file lists that is being written
TornApp == [procs |-> Torn, edition |-> 0]
None == [procs |-> {}, edition |-> 0]
Definition(app) == [procs |-> app.procs, shape |-> Sources[app.edition].shape]
NoDefinition == [procs |-> {}, shape |-> ""]
NoBuild == [stage |-> "none", procs |-> {}, app |-> None]
Handler(stage, procs, app) == [stage |-> stage, procs |-> procs, app |-> app]
Done == Handler("done", {}, None)

Init ==
    /\ edition = 1 /\ events = 0
    /\ handler = <<Handler("glob", {}, None)>>
    /\ genApp = {} /\ build = NoBuild /\ outApp = None
    /\ dynamicHandler = None /\ client = NoDefinition /\ appDefStr = NoDefinition
    /\ disturbed = FALSE /\ crossed = FALSE

At(stage) == {h \in DOMAIN handler : handler[h].stage = stage}
Busy == {h \in DOMAIN handler : handler[h].stage \notin {"done", "exited"}}
Watching == handler[1].stage = "done"
\* A handler catches what fails in it; an error of the start ends the command.
Failed(h) == IF h = 1 THEN [Done EXCEPT !.stage = "exited"] ELSE Done

-----------------------------------------------------------------------------
(* The developer and the watcher.                                          *)

\* The watcher is created last, and the handler leaves new files alone.
Save ==
    /\ edition < Len(Sources)
    /\ edition' = edition + 1
    /\ IF Watching /\ Sources[edition'].event \notin {"add", "addDir"}
       THEN events' = events + 1 /\ UNCHANGED disturbed
       ELSE disturbed' = TRUE /\ UNCHANGED events
    /\ UNCHANGED <<handler, files, served, crossed>>

HandleEvent ==
    /\ events > 0
    /\ events' = events - 1
    /\ handler' = Append(handler, Handler("glob", {}, None))
    /\ disturbed' = (Busy # {})
    /\ UNCHANGED <<edition, files, served, crossed>>

-----------------------------------------------------------------------------
(* createAppWithRoutesModule: find the files, and format and write a module *)
(* that imports them.                                                      *)

Glob(h) ==
    /\ handler[h].stage = "glob"
    /\ handler' = [handler EXCEPT ![h] = Handler("truncate", Sources[edition].files, None)]
    /\ UNCHANGED <<watched, files, served, disturbed, crossed>>

Truncate(h) ==
    /\ handler[h].stage = "truncate"
    /\ handler' = [handler EXCEPT ![h].stage = "write"]
    /\ genApp' = Torn
    /\ UNCHANGED <<watched, build, outApp, served, disturbed, crossed>>

\* rebuild() follows: it begins a build or joins the one under way.
Write(h) ==
    /\ handler[h].stage = "write"
    /\ handler' = [handler EXCEPT ![h] = Handler("rebuild", {}, None)]
    /\ genApp' = handler[h].procs
    /\ build' = IF build = NoBuild THEN [NoBuild EXCEPT !.stage = "entry"] ELSE build
    /\ UNCHANGED <<watched, outApp, served, disturbed, crossed>>

-----------------------------------------------------------------------------
(* The build.                                                              *)

ReadEntry ==
    /\ build.stage = "entry"
    /\ build' = [build EXCEPT !.stage = "sources", !.procs = genApp]
    /\ UNCHANGED <<watched, handler, genApp, outApp, served, disturbed, crossed>>

\* A file that is being written is an empty module: it exports no app.
Bundle == IF build.procs = Torn THEN TornApp ELSE [procs |-> build.procs, edition |-> edition]
Builds == build.procs = Torn \/ (Sources[edition].compiles /\ build.procs \subseteq Sources[edition].files)

ReadSources ==
    /\ build.stage = "sources" /\ Builds
    /\ build' = [build EXCEPT !.stage = "write", !.app = Bundle]
    /\ outApp' = TornApp
    /\ UNCHANGED <<watched, handler, genApp, served, disturbed, crossed>>

BuildFails ==
    /\ build.stage = "sources" /\ ~Builds
    /\ build' = NoBuild
    /\ handler' = [h \in DOMAIN handler |-> IF h \in At("rebuild") THEN Failed(h) ELSE handler[h]]
    /\ UNCHANGED <<watched, genApp, outApp, served, disturbed, crossed>>

Reloading == At("import") \cup At("swap") \cup At("generate") \cup At("generated")

Shared == \E g, h \in At("rebuild") : g # h

\* Mutant: of the handlers that joined the build one goes on.
WriteOutputForOne ==
    /\ build.stage = "write"
    /\ build' = NoBuild /\ outApp' = build.app
    /\ \E h \in At("rebuild") : handler' = [handler EXCEPT ![h].stage = "import"]
    /\ crossed' = (crossed \/ Shared \/ Reloading # {})
    /\ UNCHANGED <<watched, genApp, served, disturbed>>

WriteOutput ==
    /\ build.stage = "write"
    /\ build' = NoBuild /\ outApp' = build.app
    /\ handler' = [h \in DOMAIN handler |->
                     IF h \in At("rebuild") THEN [handler[h] EXCEPT !.stage = "import"] ELSE handler[h]]
    /\ crossed' = (crossed \/ Shared \/ Reloading # {})
    /\ UNCHANGED <<watched, genApp, served, disturbed>>

-----------------------------------------------------------------------------
(* reload, and what the handler does with the definition it returns.       *)

Import(h) ==
    /\ handler[h].stage = "import"
    /\ handler' = [handler EXCEPT ![h] = IF outApp = TornApp THEN Failed(h) ELSE Handler("swap", {}, outApp)]
    /\ UNCHANGED <<watched, files, served, disturbed, crossed>>

\* Mutant: the app is exchanged when its definition has changed.
SwapOnNewDefinition(h) ==
    LET app == handler[h].app IN
    /\ handler[h].stage = "swap"
    /\ appDefStr' = IF h = 1 THEN Definition(app) ELSE appDefStr
    /\ IF h = 1 \/ Definition(app) # appDefStr
       THEN handler' = [handler EXCEPT ![h].stage = "generate"] /\ dynamicHandler' = app
       ELSE handler' = [handler EXCEPT ![h] = Done] /\ UNCHANGED dynamicHandler
    /\ UNCHANGED <<watched, files, client, disturbed, crossed>>

Swap(h) ==
    LET app == handler[h].app IN
    /\ handler[h].stage = "swap"
    /\ dynamicHandler' = app
    /\ appDefStr' = IF h = 1 THEN Definition(app) ELSE appDefStr
    /\ handler' = [handler EXCEPT ![h] = IF h = 1 \/ Definition(app) # appDefStr
                                         THEN [@ EXCEPT !.stage = "generate"] ELSE Done]
    /\ UNCHANGED <<watched, files, client, disturbed, crossed>>

Generate(h) ==
    /\ handler[h].stage = "generate"
    /\ handler' = [handler EXCEPT ![h].stage = "generated"]
    /\ client' = Definition(handler[h].app)
    /\ UNCHANGED <<watched, files, dynamicHandler, appDefStr, disturbed, crossed>>

\* A generator that fails is logged; the definition counts as generated.
GeneratorFails(h) ==
    /\ handler[h].stage = "generate"
    /\ handler' = [handler EXCEPT ![h].stage = "generated"]
    /\ crossed' = TRUE
    /\ UNCHANGED <<watched, files, served, disturbed>>

\* Mutant: the definition is not remembered.
FinishForgets(h) ==
    /\ handler[h].stage = "generated"
    /\ handler' = [handler EXCEPT ![h] = Done]
    /\ UNCHANGED <<watched, files, served, disturbed, crossed>>

Finish(h) ==
    /\ handler[h].stage = "generated"
    /\ handler' = [handler EXCEPT ![h] = Done]
    /\ appDefStr' = Definition(handler[h].app)
    /\ UNCHANGED <<watched, files, dynamicHandler, client, disturbed, crossed>>

-----------------------------------------------------------------------------
Proceed(h) == \/ Glob(h) \/ Truncate(h) \/ Write(h)
              \/ Import(h) \/ Swap(h) \/ Generate(h) \/ GeneratorFails(h) \/ Finish(h)
Command == \/ HandleEvent \/ ReadEntry \/ ReadSources \/ BuildFails \/ WriteOutput
           \/ \E h \in DOMAIN handler : Proceed(h)
Next == Save \/ Command

\* Every promise the code awaits settles; no save has to come.
Spec == Init /\ [][Next]_vars /\ WF_vars(Command)

AtRest == events = 0 /\ Busy = {}

-----------------------------------------------------------------------------
\* The last handler, if it had the command for itself and nothing was saved
\* without an event since it began, leaves the latest sources served with all
\* their procedures, whatever earlier handlers made of the files.
FreshAtRest ==
    AtRest /\ Watching /\ ~disturbed /\ Sources[edition].compiles =>
      dynamicHandler = [procs |-> Sources[edition].files, edition |-> edition]

\* As long as no two reloads overlapped and no generator failed, the clients
\* are at rest of the app that is served, one that is no longer the latest
\* included.
ClientFollows == AtRest /\ Watching /\ ~crossed => client = Definition(dynamicHandler)

\* After the last save the command comes to rest: no handler waits for a build
\* that another one began.
ComesToRest == <>[]AtRest
=============================================================================
