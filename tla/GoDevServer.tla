---------------------------- MODULE GoDevServer ----------------------------
(***************************************************************************)
(* `arri dev` for a Go server: devFn of the CLI's goServer.ts.  A watcher  *)
(* restarts the server process when a source file changes; the server      *)
(* writes the app definition as it starts; a second watcher hands a new    *)
(* definition to the client generators.                                    *)
(*                                                                         *)
(* The CLI is one event loop: a callback runs to its end, then the         *)
(* microtasks it made runnable run before the next callback.  The watch    *)
(* handler is two pieces, before and after `await closeChildProcess()`.    *)
(* What runs beside the loop - the editor, the server processes, the       *)
(* generators - may step between any two pieces, the synchronous build     *)
(* included.                                                               *)
(***************************************************************************)
EXTENDS Integers, Sequences, FiniteSets, SequencesExt

CONSTANTS
    Definition,  \* app definitions, as the text of the file
    Sources,     \* what each edition of the sources compiles to, in order
    Broken,      \* the result of sources that do not compile
    MaxCrashes   \* servers that exit by themselves (a bound)

ASSUME SourcesAssumption ==
    /\ Broken \notin Definition
    /\ Sources \in Seq(Definition \cup {Broken})
    /\ Len(Sources) > 0
    /\ MaxCrashes \in Nat

ASSUME FileAssumption == {"", "absent"} \cap Definition = {}

VARIABLES
    edition,       \* the sources on disk, an index of Sources
    changes,       \* watch events of the source files, not yet delivered
    server,        \* every process spawned, in order
    childProcess,  \* the one the CLI holds, 0 for undefined
    pending,       \* watch handlers that have begun and not ended
    runnable,      \* those of them whose await is settled
    defFile,       \* the content of __definition.json
    defEvent,      \* a watch event of that file is due
    defFileCache,  \* the definition last handed to the generators
    runs,          \* generator runs under way, in the order they began
    client,        \* the definition the generated client was made from
    crashes,
    overlaps       \* which work was begun while older work of its kind was
                   \* under way: "restarts", "generators" (history)

loop == <<changes, childProcess, pending, runnable>>
codegen == <<defFileCache, runs, client>>
vars == <<edition, loop, server, defFile, defEvent, codegen, crashes, overlaps>>

Server ==
    [edition : 1..Len(Sources),
     stage   : {"started", "writing", "written", "serving", "exited", "noticed"},
     killed  : BOOLEAN,
     base    : BOOLEAN,   \* it still has the listeners spawnProcess() gave it
     waiters : Nat]       \* watch handlers listening for its exit

-----------------------------------------------------------------------------
NewServer ==
    [edition |-> edition, stage |-> "started", killed |-> FALSE, base |-> TRUE, waiters |-> 0]

Running(s) == server[s].stage \notin {"exited", "noticed"}

\* removeAllListeners() on what the CLI holds
Silenced == [s \in DOMAIN server |->
               IF s = childProcess
               THEN [server[s] EXCEPT !.base = FALSE, !.waiters = 0]
               ELSE server[s]]

\* childProcess?.removeAllListeners(); childProcess = undefined; spawnProcess().
\* A build that fails is logged and leaves childProcess undefined.
Respawn ==
    IF Sources[edition] = Broken
    THEN /\ childProcess' = 0
         /\ server' = Silenced
    ELSE /\ childProcess' = Len(server) + 1
         /\ server' = Append(Silenced, NewServer)

\* The first spawnProcess().  A definition file and a client may be left
\* from an earlier session; the watcher reports a file it finds.
Init ==
    /\ edition = 1
    /\ changes = 0
    /\ IF Sources[1] = Broken
       THEN server = <<>> /\ childProcess = 0
       ELSE server = <<NewServer>> /\ childProcess = 1
    /\ pending = 0 /\ runnable = 0
    /\ defFile \in Definition \cup {"absent"}
    /\ defEvent = (defFile # "absent")
    /\ defFileCache = ""
    /\ runs = <<>>
    /\ client \in Definition \cup {"absent"}
    /\ crashes = 0
    /\ overlaps = {}
-----------------------------------------------------------------------------
(* The environment.                                                        *)

\* A source file is saved.
Edit ==
    /\ edition < Len(Sources)
    /\ edition' = edition + 1
    /\ changes' = changes + 1
    /\ UNCHANGED <<childProcess, pending, runnable, server, defFile, defEvent, codegen,
                   crashes, overlaps>>

Goes(s, stage) ==
    /\ server' = [server EXCEPT ![s].stage = stage]
    /\ UNCHANGED <<edition, loop, codegen, overlaps>>

\* --def-out: os.WriteFile truncates the file, then writes it.
TruncatesDefinition(s) ==
    /\ server[s].stage = "started"
    /\ defFile' = ""
    /\ defEvent' = TRUE
    /\ Goes(s, "writing")
    /\ UNCHANGED crashes

WritesDefinition(s) ==
    /\ server[s].stage = "writing"
    /\ defFile' = Sources[server[s].edition]
    /\ defEvent' = TRUE
    /\ Goes(s, "written")
    /\ UNCHANGED crashes

\* http.ListenAndServe; all editions listen on one port, and Run() returns
\* the error when it is taken.
Listens(s) ==
    /\ server[s].stage = "written"
    /\ Goes(s, IF \E t \in DOMAIN server : server[t].stage = "serving"
               THEN "exited" ELSE "serving")
    /\ UNCHANGED <<defFile, defEvent, crashes>>

Dies(s) ==
    /\ Running(s)
    /\ server[s].killed
    /\ Goes(s, "exited")
    /\ UNCHANGED <<defFile, defEvent, crashes>>

Crashes(s) ==
    /\ Running(s)
    /\ crashes < MaxCrashes
    /\ crashes' = crashes + 1
    /\ Goes(s, "exited")
    /\ UNCHANGED <<defFile, defEvent>>

\* generator.run(appDef, true) rewrites the client; runs end in any order.
GeneratorEnds(r) ==
    /\ client' = runs[r]
    /\ runs' = RemoveAt(runs, r)
    /\ UNCHANGED <<edition, loop, server, defFile, defEvent, defFileCache, crashes, overlaps>>
-----------------------------------------------------------------------------
(* The event loop.                                                         *)

\* Mutant: a handler drops the listeners of those before it.
ReplacesListeners ==
    /\ runnable = 0
    /\ changes > 0
    /\ changes' = changes - 1
    /\ pending' = pending + 1
    /\ overlaps' = IF pending > 0 THEN overlaps \cup {"restarts"} ELSE overlaps
    /\ IF childProcess = 0
       THEN runnable' = 1 /\ server' = server
       ELSE /\ runnable' = 0
            /\ server' = [server EXCEPT ![childProcess].waiters = 1,
                                        ![childProcess].killed = TRUE]
    /\ UNCHANGED <<edition, childProcess, defFile, defEvent, codegen, crashes>>

\* Mutant: the handler goes on while the server is still running.
DoesNotAwait ==
    /\ runnable = 0
    /\ changes > 0
    /\ changes' = changes - 1
    /\ pending' = pending + 1
    /\ overlaps' = IF pending > 0 THEN overlaps \cup {"restarts"} ELSE overlaps
    /\ runnable' = 1
    /\ server' = IF childProcess = 0 THEN server
                 ELSE [server EXCEPT ![childProcess].killed = TRUE]
    /\ UNCHANGED <<edition, childProcess, defFile, defEvent, codegen, crashes>>

\* watcher.on('all'), up to the await.  closeChildProcess() settles at once
\* when nothing is held; else the handler listens for the exit.
HandleChange ==
    /\ runnable = 0
    /\ changes > 0
    /\ changes' = changes - 1
    /\ pending' = pending + 1
    /\ overlaps' = IF pending > 0 THEN overlaps \cup {"restarts"} ELSE overlaps
    /\ IF childProcess = 0
       THEN runnable' = 1 /\ server' = server
       ELSE /\ runnable' = 0
            /\ server' = [server EXCEPT ![childProcess].waiters = @ + 1,
                                        ![childProcess].killed = TRUE]
    /\ UNCHANGED <<edition, childProcess, defFile, defEvent, codegen, crashes>>

\* ... and from the await to the end.
Resume ==
    /\ runnable > 0
    /\ runnable' = runnable - 1
    /\ pending' = pending - 1
    /\ Respawn
    /\ UNCHANGED <<edition, changes, defFile, defEvent, codegen, crashes, overlaps>>

\* Mutant: childProcess is not cleared.
KeepsChildProcess(s) ==
    /\ runnable = 0
    /\ server[s].stage = "exited"
    /\ runnable' = server[s].waiters
    /\ server' = [server EXCEPT ![s].stage = "noticed", ![s].waiters = 0]
    /\ UNCHANGED <<edition, changes, pending, childProcess, defFile, defEvent, codegen,
                   crashes, overlaps>>

\* 'exit' and 'close' of a process, in one callback: the waiting handlers
\* become runnable, and the listener of spawnProcess() clears childProcess,
\* whichever process that holds by now.
NoticeExit(s) ==
    /\ runnable = 0
    /\ server[s].stage = "exited"
    /\ runnable' = server[s].waiters
    /\ server' = [(IF server[s].base THEN Silenced ELSE server) EXCEPT ![s].stage = "noticed",
                                                                       ![s].waiters = 0]
    /\ childProcess' = IF server[s].base THEN 0 ELSE childProcess
    /\ UNCHANGED <<edition, changes, pending, defFile, defEvent, codegen, crashes, overlaps>>

\* Mutant of HandleAppDef: a change is ignored while the generators run.
IgnoresWhileGenerating ==
    /\ runnable = 0
    /\ defEvent
    /\ defEvent' = FALSE
    /\ IF defFile \in {"", "absent", defFileCache} \/ runs # <<>>
       THEN UNCHANGED <<defFileCache, runs>>
       ELSE /\ defFileCache' = defFile
            /\ runs' = Append(runs, defFile)
    /\ UNCHANGED <<edition, loop, server, defFile, client, crashes, overlaps>>

\* handleAppDef(), up to its await: nothing to do for a missing or empty
\* file, or one that was handled already.
HandleAppDef ==
    /\ runnable = 0
    /\ defEvent
    /\ defEvent' = FALSE
    /\ IF defFile \in {"", "absent", defFileCache}
       THEN UNCHANGED <<defFileCache, runs, overlaps>>
       ELSE /\ defFileCache' = defFile
            /\ runs' = Append(runs, defFile)
            /\ overlaps' = IF runs # <<>> THEN overlaps \cup {"generators"} ELSE overlaps
    /\ UNCHANGED <<edition, loop, server, defFile, client, crashes>>
-----------------------------------------------------------------------------
ServerSteps(s) == TruncatesDefinition(s) \/ WritesDefinition(s) \/ Listens(s) \/ Dies(s)

EventLoop ==
    \/ HandleChange \/ Resume \/ HandleAppDef
    \/ \E s \in DOMAIN server : NoticeExit(s)

Next ==
    \/ Edit
    \/ EventLoop
    \/ \E s \in DOMAIN server : ServerSteps(s) \/ Crashes(s)
    \/ \E r \in DOMAIN runs : GeneratorEnds(r)

\* The loop never goes idle with an event due, and there are finitely many:
\* it comes to each.  Processes and generators are not stopped half way.
Fairness ==
    /\ WF_vars(EventLoop)
    /\ \A s \in 1..Len(Sources) : WF_vars(s \in DOMAIN server /\ ServerSteps(s))
    /\ WF_vars(\E r \in DOMAIN runs : GeneratorEnds(r))

Spec == Init /\ [][Next]_vars /\ Fairness
-----------------------------------------------------------------------------
Settled(s) ==
    \/ server[s].stage = "noticed"
    \/ server[s].stage = "serving" /\ ~server[s].killed

\* Everything the last edit set in motion is over.
AtRest ==
    /\ changes = 0 /\ pending = 0
    /\ ~defEvent /\ runs = <<>>
    /\ \A s \in DOMAIN server : Settled(s)

Compiles == Sources[edition] # Broken

ServesLatest == \E s \in DOMAIN server :
                  server[s].stage = "serving" /\ server[s].edition = edition

\* No watch handler waits for an exit it will not be told of, although the
\* handlers share one variable and every spawn and exit removes listeners:
\* each one still pending is runnable or listens to the process the CLI holds.
NoHandlerForgotten ==
    pending = runnable + IF childProcess = 0 THEN 0 ELSE server[childProcess].waiters

\* The CLI never loses a server behind its back while changes come one at a
\* time: what runs is held, or it is the only one and already told to exit.
NoOrphan ==
    "restarts" \notin overlaps => \A s \in DOMAIN server : Running(s) => s = childProcess

\* What the developer is promised, as far as the code keeps it: if no server
\* crashed, then at rest some server answers, though after overlapping changes
\* it may be an old one the CLI has lost hold of.  If no change arrived during
\* the restart of another one, it is of the latest sources, and the definition
\* file and the generated client follow from them.
FreshAtRest ==
    AtRest /\ crashes = 0 /\ Compiles =>
      /\ \E s \in DOMAIN server : /\ server[s].stage = "serving"
                                  /\ (server[s].edition = edition \/ s # childProcess)
      /\ "restarts" \notin overlaps =>
           /\ ServesLatest
           /\ defFile = Sources[edition]
           /\ ("generators" \notin overlaps => client = defFile)

\* After the last edit the restarts and the generators come to an end: no
\* handler hangs on a process that is gone, and no two restart each other.
ComesToRest == <>[]AtRest
=============================================================================
