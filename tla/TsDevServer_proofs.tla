----------------------- MODULE TsDevServer_proofs -----------------------
(***************************************************************************)
(* Proofs about arri dev for a TypeScript app, for every sequence of saves *)
(* and any number of overlapping handlers: a handler that had the command  *)
(* for itself leaves the latest sources served, and the clients are those  *)
(* of the app that is served unless reloads overlapped.                    *)
(***************************************************************************)
EXTENDS TsDevServer, SequenceFacts, TLAPS

Stage == {"glob", "truncate", "write", "rebuild", "import", "swap", "generate", "generated", "done", "exited"}
Name == STRING \cup Torn
App == [procs : SUBSET Name, edition : Nat]
HandlerType == [stage : Stage, procs : SUBSET Name, app : App]
BuildType == [stage : {"none", "entry", "sources", "write"}, procs : SUBSET Name, app : App]

Types ==
    /\ edition \in 1 .. Len(Sources) /\ events \in Nat
    /\ handler \in Seq(HandlerType) /\ Len(handler) > 0
    /\ genApp \in SUBSET Name /\ build \in BuildType
    /\ outApp \in App /\ dynamicHandler \in App
    /\ disturbed \in BOOLEAN /\ crossed \in BOOLEAN

\* A build is under way as long as a handler waits for one.
Joined ==
    /\ build.stage = "none" => build = NoBuild
    /\ build.stage = "none" <=> At("rebuild") = {}

\* Nothing is watched before the start is over, and only the start may exit.
StartsAlone ==
    /\ handler[1].stage # "done" => Len(handler) = 1 /\ events = 0
    /\ \A h \in DOMAIN handler : handler[h].stage = "exited" => h = 1

CommandInv == Types /\ Joined /\ StartsAlone

Latest == [procs |-> Sources[edition].files, edition |-> edition]
Last == handler[Len(handler)]

\* Undisturbed, the last handler has the command for itself.
Alone == ~disturbed => \A h \in Busy : h = Len(handler)

\* What the last handler has found, written, bundled, imported and served by now
\* is the latest, if no save was announced or missed since it began.
LastIsFresh ==
    ~disturbed /\ events = 0 /\ Sources[edition].compiles =>
      /\ Last.stage \in {"truncate", "write"} => Last.procs = Latest.procs
      /\ Last.stage = "rebuild" =>
           /\ genApp = Latest.procs
           /\ build.stage = "sources" => build.procs = Latest.procs
           /\ build.stage = "write" => build.app = Latest
      /\ Last.stage = "import" => outApp = Latest
      /\ Last.stage = "swap" => Last.app = Latest
      /\ Last.stage \in {"generate", "generated", "done"} => dynamicHandler = Latest

\* Reloads that do not cross: one at a time, and the clients and the remembered
\* definition are behind the served app only while its handler generates.
OneReload == ~crossed => \A g, h \in Reloading : g = h
ClientInv ==
    ~crossed =>
      /\ \A h \in At("generate") \cup At("generated") : handler[h].app = dynamicHandler
      /\ \A h \in At("generated") : client = Definition(dynamicHandler)
      /\ Watching /\ At("generate") \cup At("generated") = {} =>
           client = Definition(dynamicHandler) /\ appDefStr = client

-----------------------------------------------------------------------------
LEMMA SourcesFacts ==
    ASSUME NEW e \in 1 .. Len(Sources)
    PROVE  /\ Len(Sources) \in Nat /\ e \in Nat /\ e > 0
           /\ Sources[e].files \in SUBSET Name /\ Sources[e].files # Torn
<1> DEFINE Source == [files : SUBSET STRING, shape : STRING, compiles : BOOLEAN, event : STRING]
<1>1. Sources \in Seq(Source) /\ "torn" \notin Sources[e].files
  BY SourcesAssumption
<1>2. Source = [files : SUBSET STRING, shape : STRING, compiles : BOOLEAN, event : STRING]
  OBVIOUS
<1> HIDE DEF Source
<1>3. Sources[e] \in Source /\ Len(Sources) \in Nat
  BY <1>1
<1> QED
  BY <1>1, <1>2, <1>3 DEF Torn, Name

LEMMA ConstantTypes ==
    /\ None \in App /\ TornApp \in App /\ NoBuild \in BuildType /\ NoBuild.stage = "none"
    /\ Done \in HandlerType /\ [Done EXCEPT !.stage = "exited"] \in HandlerType
    /\ \A stage \in Stage, procs \in SUBSET Name, app \in App : Handler(stage, procs, app) \in HandlerType
<1>1. None \in App
  BY DEF None, App
<1>0. TornApp \in App
  BY DEF TornApp, App, Name
<1>2. \A stage \in Stage, procs \in SUBSET Name, app \in App : Handler(stage, procs, app) \in HandlerType
  BY DEF Handler, HandlerType
<1>3. Done \in HandlerType /\ Done.stage = "done"
  BY <1>0, <1>1, <1>2 DEF Done, Stage, Handler
<1>4. [Done EXCEPT !.stage = "exited"] \in HandlerType
  BY <1>3 DEF HandlerType, Stage
<1>5. NoBuild \in BuildType /\ NoBuild.stage = "none"
  BY <1>0, <1>1 DEF NoBuild, BuildType
<1> QED
  BY <1>0, <1>1, <1>2, <1>3, <1>4, <1>5

LEMMA HandlerFacts ==
    ASSUME Types
    PROVE  /\ Len(handler) \in Nat /\ DOMAIN handler = 1 .. Len(handler) /\ 1 \in DOMAIN handler
           /\ Len(handler) \in DOMAIN handler
           /\ \A h \in DOMAIN handler :
                /\ handler[h] \in HandlerType
                /\ handler[h].stage \in Stage /\ handler[h].procs \in SUBSET Name /\ handler[h].app \in App
<1>1. \A h \in DOMAIN handler : handler[h] \in HandlerType
  BY DEF Types
<1> QED
  BY <1>1 DEF Types, HandlerType

\* One handler moves on, the others stay where they are.
LEMMA Moved ==
    ASSUME Types, NEW h \in DOMAIN handler, NEW to \in HandlerType, handler' = [handler EXCEPT ![h] = to]
    PROVE  /\ handler' \in Seq(HandlerType) /\ Len(handler') = Len(handler) /\ DOMAIN handler' = DOMAIN handler
           /\ handler'[h] = to /\ \A g \in DOMAIN handler : g # h => handler'[g] = handler[g]
BY DEF Types

\* A handler that only changes its stage.
LEMMA NextStage ==
    ASSUME Types, NEW h \in DOMAIN handler, NEW stage \in Stage, handler' = [handler EXCEPT ![h].stage = stage]
    PROVE  /\ handler' \in Seq(HandlerType) /\ Len(handler') = Len(handler) /\ DOMAIN handler' = DOMAIN handler
           /\ handler'[h].stage = stage /\ handler'[h].procs = handler[h].procs /\ handler'[h].app = handler[h].app
           /\ \A g \in DOMAIN handler : g # h => handler'[g] = handler[g]
<1> DEFINE to == [handler[h] EXCEPT !.stage = stage]
<1>1. handler' = [handler EXCEPT ![h] = to]
  BY HandlerFacts
<1>2. to \in HandlerType /\ to.stage = stage /\ to.procs = handler[h].procs /\ to.app = handler[h].app
  BY HandlerFacts DEF HandlerType
<1> HIDE DEF to
<1> QED
  BY <1>1, <1>2, Moved

\* A step that moves the handlers of one stage: the rest of it is as before.
LEMMA MovedTogether ==
    ASSUME Types, NEW from, NEW F, \A h \in At(from) : F[h] \in HandlerType,
           handler' = [h \in DOMAIN handler |-> IF h \in At(from) THEN F[h] ELSE handler[h]]
    PROVE  /\ handler' \in Seq(HandlerType) /\ Len(handler') = Len(handler) /\ DOMAIN handler' = DOMAIN handler
           /\ \A h \in At(from) : handler'[h] = F[h]
           /\ \A h \in DOMAIN handler : h \notin At(from) => handler'[h] = handler[h]
<1> DEFINE n == Len(handler)
<1>1. n \in Nat /\ DOMAIN handler = 1 .. n /\ \A h \in 1 .. n : handler[h] \in HandlerType
  BY HandlerFacts
<1>2. DOMAIN handler' = 1 .. n /\ handler' = [h \in 1 .. n |-> handler'[h]]
  BY <1>1
<1>3. \A h \in 1 .. n : handler'[h] = IF h \in At(from) THEN F[h] ELSE handler[h]
  BY <1>1
<1>4. \A h \in 1 .. n : handler'[h] \in HandlerType
  BY <1>1, <1>3
<1> HIDE DEF n
<1>5. handler' \in Seq(HandlerType) /\ Len(handler') = n
  BY <1>1, <1>2, <1>4, FunctionIsSeq
<1> QED
  BY <1>1, <1>2, <1>3, <1>5 DEF n, At
-----------------------------------------------------------------------------
(* Inv is inductive: one lemma for each action.                            *)

Inv == CommandInv /\ Alone /\ LastIsFresh /\ OneReload /\ ClientInv

LEMMA GlobStep ==
    ASSUME Inv, NEW h \in DOMAIN handler, Glob(h)
    PROVE  Inv'
<1> DEFINE to == Handler("truncate", Sources[edition].files, None)
<1>1. Types /\ Joined /\ StartsAlone /\ Alone /\ LastIsFresh /\ OneReload /\ ClientInv
  BY DEF Inv, CommandInv
<1>2. to \in HandlerType /\ to.stage = "truncate" /\ to.procs = Latest.procs
  BY <1>1, ConstantTypes, SourcesFacts DEF Types, Stage, Handler, Latest
<1>3. handler' = [handler EXCEPT ![h] = to] /\ handler[h].stage = "glob"
  BY DEF Glob
<1> HIDE DEF to
<1>4. /\ handler' \in Seq(HandlerType) /\ Len(handler') = Len(handler) /\ DOMAIN handler' = DOMAIN handler
      /\ handler'[h].stage = "truncate" /\ handler'[h].procs = Latest.procs
      /\ \A g \in DOMAIN handler : g # h => handler'[g] = handler[g]
  BY <1>1, <1>2, <1>3, Moved
<1>5. Types'
  BY <1>1, <1>4 DEF Types, Glob, watched, files, served
<1>6. Joined'
  BY <1>1, <1>3, <1>4 DEF Joined, At, Glob, files
<1>7. StartsAlone'
  BY <1>1, <1>3, <1>4, HandlerFacts DEF StartsAlone, Glob, watched
<1>8. Alone'
  BY <1>1, <1>3, <1>4, HandlerFacts DEF Alone, Busy, Glob
<1>9. LastIsFresh'
  BY <1>1, <1>3, <1>4, HandlerFacts DEF LastIsFresh, Last, Latest, Glob, watched, files, served
<1>10. OneReload'
  BY <1>1, <1>3, <1>4, HandlerFacts DEF OneReload, Reloading, At, Glob
<1>11. ClientInv'
  BY <1>1, <1>3, <1>4, HandlerFacts DEF ClientInv, At, Watching, Definition, Glob, served
<1> QED
  BY <1>5, <1>6, <1>7, <1>8, <1>9, <1>10, <1>11 DEF Inv, CommandInv

LEMMA SaveStep ==
    ASSUME Inv, Save
    PROVE  Inv'
<1>1. Types /\ Joined /\ StartsAlone /\ Alone /\ LastIsFresh /\ OneReload /\ ClientInv
  BY DEF Inv, CommandInv
<1>2. edition' \in 1 .. Len(Sources)
  BY <1>1, SourcesFacts DEF Save, Types
<1>3. events \in Nat /\ events' \in Nat /\ (events' = events + 1 \/ disturbed' = TRUE) /\ disturbed' \in BOOLEAN
  <2>1. events \in Nat /\ disturbed \in BOOLEAN
    BY <1>1 DEF Types
  <2>2. \/ events' = events + 1 /\ disturbed' = disturbed
        \/ events' = events /\ disturbed' = TRUE
    BY DEF Save
  <2>3. events' \in Nat
    BY <2>1, <2>2
  <2> QED
    BY <2>1, <2>2, <2>3
<1>4. Types'
  BY <1>1, <1>2, <1>3, HandlerFacts
     DEF Types, Save, watched, files, served
<1>5. Joined'
  BY <1>1, <1>2, <1>3, HandlerFacts
     DEF Joined, At, Save, files
<1>6. StartsAlone'
  BY <1>1, <1>2, <1>3, HandlerFacts
     DEF StartsAlone, Save, watched, Watching
<1>7. Alone'
  BY <1>1, <1>2, <1>3, HandlerFacts
     DEF Alone, Busy, Save
<1>8. LastIsFresh'
  BY <1>1, <1>2, <1>3, HandlerFacts
     DEF LastIsFresh, Last, Latest, Save, watched, files, served
<1>9. OneReload'
  BY <1>1, <1>2, <1>3, HandlerFacts
     DEF OneReload, Reloading, At, Save
<1>10. ClientInv'
  BY <1>1, <1>2, <1>3, HandlerFacts
     DEF ClientInv, At, Watching, Definition, Save, served
<1> QED
  BY <1>4, <1>5, <1>6, <1>7, <1>8, <1>9, <1>10 DEF Inv, CommandInv

LEMMA HandleEventStep ==
    ASSUME Inv, HandleEvent
    PROVE  Inv'
<1>1. Types /\ Joined /\ StartsAlone /\ Alone /\ LastIsFresh /\ OneReload /\ ClientInv
  BY DEF Inv, CommandInv
<1>2. Handler("glob", {}, None) \in HandlerType
  BY ConstantTypes DEF Stage
<1>3. /\ handler' \in Seq(HandlerType) /\ Len(handler') = Len(handler) + 1
      /\ DOMAIN handler' = DOMAIN handler \cup {Len(handler')}
      /\ handler'[Len(handler')].stage = "glob"
      /\ \A g \in DOMAIN handler : handler'[g] = handler[g]
  BY <1>1, <1>2, HandlerFacts DEF Types, HandleEvent, Handler
<1>4. Watching
  BY <1>1 DEF StartsAlone, HandleEvent, Watching
<1>5. Types'
  BY <1>1, <1>2, <1>3, <1>4, HandlerFacts
     DEF Types, HandleEvent, watched, files, served
<1>6. Joined'
  BY <1>1, <1>2, <1>3, <1>4, HandlerFacts
     DEF Joined, At, HandleEvent, files
<1>7. StartsAlone'
  BY <1>1, <1>2, <1>3, <1>4, HandlerFacts
     DEF StartsAlone, HandleEvent, watched, Watching
<1>8. Alone'
  BY <1>1, <1>2, <1>3, <1>4, HandlerFacts
     DEF Alone, Busy, HandleEvent
<1>9. LastIsFresh'
  BY <1>1, <1>2, <1>3, <1>4, HandlerFacts
     DEF LastIsFresh, Last, Latest, HandleEvent, watched, files, served
<1>10. OneReload'
  BY <1>1, <1>2, <1>3, <1>4, HandlerFacts
     DEF OneReload, Reloading, At, HandleEvent
<1>11. ClientInv'
  BY <1>1, <1>2, <1>3, <1>4, HandlerFacts
     DEF ClientInv, At, Watching, Definition, HandleEvent, served
<1> QED
  BY <1>5, <1>6, <1>7, <1>8, <1>9, <1>10, <1>11 DEF Inv, CommandInv

LEMMA TruncateStep ==
    ASSUME Inv, NEW h \in DOMAIN handler, Truncate(h)
    PROVE  Inv'
<1>1. Types /\ Joined /\ StartsAlone /\ Alone /\ LastIsFresh /\ OneReload /\ ClientInv
  BY DEF Inv, CommandInv
<1>2. handler[h].stage = "truncate" /\ "write" \in Stage
  BY DEF Truncate, Stage
<1>3. /\ handler' \in Seq(HandlerType) /\ Len(handler') = Len(handler) /\ DOMAIN handler' = DOMAIN handler
      /\ handler'[h].stage = "write" /\ handler'[h].procs = handler[h].procs
      /\ \A g \in DOMAIN handler : g # h => handler'[g] = handler[g]
  BY <1>1, <1>2, NextStage DEF Truncate
<1>4. Torn \in SUBSET Name
  BY DEF Torn, Name
<1>5. Types'
  BY <1>1, <1>2, <1>3, <1>4, HandlerFacts
     DEF Types, Truncate, watched, files, served
<1>6. Joined'
  BY <1>1, <1>2, <1>3, <1>4, HandlerFacts
     DEF Joined, At, Truncate, files
<1>7. StartsAlone'
  BY <1>1, <1>2, <1>3, <1>4, HandlerFacts
     DEF StartsAlone, Truncate, watched
<1>8. Alone'
  BY <1>1, <1>2, <1>3, <1>4, HandlerFacts
     DEF Alone, Busy, Truncate
<1>9. LastIsFresh'
  BY <1>1, <1>2, <1>3, <1>4, HandlerFacts
     DEF LastIsFresh, Last, Latest, Truncate, watched, files, served, Alone, Busy
<1>10. OneReload'
  BY <1>1, <1>2, <1>3, <1>4, HandlerFacts
     DEF OneReload, Reloading, At, Truncate
<1>11. ClientInv'
  BY <1>1, <1>2, <1>3, <1>4, HandlerFacts
     DEF ClientInv, At, Watching, Definition, Truncate, served
<1> QED
  BY <1>5, <1>6, <1>7, <1>8, <1>9, <1>10, <1>11 DEF Inv, CommandInv

LEMMA WriteStep ==
    ASSUME Inv, NEW h \in DOMAIN handler, Write(h)
    PROVE  Inv'
<1>1. Types /\ Joined /\ StartsAlone /\ Alone /\ LastIsFresh /\ OneReload /\ ClientInv
  BY DEF Inv, CommandInv
<1> DEFINE to == Handler("rebuild", {}, None)
<1>2. to \in HandlerType /\ to.stage = "rebuild"
  BY ConstantTypes DEF Stage, Handler
<1>3. handler[h].stage = "write" /\ handler' = [handler EXCEPT ![h] = to]
  BY DEF Write
<1> HIDE DEF to
<1>4. /\ handler' \in Seq(HandlerType) /\ Len(handler') = Len(handler) /\ DOMAIN handler' = DOMAIN handler
      /\ handler'[h].stage = "rebuild"
      /\ \A g \in DOMAIN handler : g # h => handler'[g] = handler[g]
  BY <1>1, <1>2, <1>3, Moved
<1>5. /\ build' \in BuildType /\ build'.stage # "none"
      /\ At("rebuild") = {} => build'.stage = "entry"
  BY <1>1, ConstantTypes DEF Write, Types, Joined, BuildType
<1>6. Types'
  BY <1>1, <1>2, <1>3, <1>4, <1>5, HandlerFacts
     DEF Types, Write, watched, files, served
<1>7. Joined'
  BY <1>1, <1>2, <1>3, <1>4, <1>5, HandlerFacts
     DEF Joined, At, Write, files
<1>8. StartsAlone'
  BY <1>1, <1>2, <1>3, <1>4, <1>5, HandlerFacts
     DEF StartsAlone, Write, watched
<1>9. Alone'
  BY <1>1, <1>2, <1>3, <1>4, <1>5, HandlerFacts
     DEF Alone, Busy, Write
<1>10. LastIsFresh'
  BY <1>1, <1>2, <1>3, <1>4, <1>5, HandlerFacts
     DEF LastIsFresh, Last, Latest, Write, watched, files, served, Alone, Busy, At
<1>11. OneReload'
  BY <1>1, <1>2, <1>3, <1>4, <1>5, HandlerFacts
     DEF OneReload, Reloading, At, Write
<1>12. ClientInv'
  BY <1>1, <1>2, <1>3, <1>4, <1>5, HandlerFacts
     DEF ClientInv, At, Watching, Definition, Write, served
<1> QED
  BY <1>6, <1>7, <1>8, <1>9, <1>10, <1>11, <1>12 DEF Inv, CommandInv

LEMMA ReadEntryStep ==
    ASSUME Inv, ReadEntry
    PROVE  Inv'
<1>1. Types /\ Joined /\ StartsAlone /\ Alone /\ LastIsFresh /\ OneReload /\ ClientInv
  BY DEF Inv, CommandInv
<1>2. /\ build' \in BuildType /\ build'.stage = "sources" /\ build'.procs = genApp
  BY <1>1 DEF ReadEntry, Types, BuildType
<1>3. Types'
  BY <1>1, <1>2, HandlerFacts
     DEF Types, ReadEntry, watched, files, served
<1>4. Joined'
  BY <1>1, <1>2, HandlerFacts
     DEF Joined, At, ReadEntry, files
<1>5. StartsAlone'
  BY <1>1, <1>2, HandlerFacts
     DEF StartsAlone, ReadEntry, watched
<1>6. Alone'
  BY <1>1, <1>2, HandlerFacts
     DEF Alone, Busy, ReadEntry
<1>7. LastIsFresh'
  BY <1>1, <1>2, HandlerFacts
     DEF LastIsFresh, Last, Latest, ReadEntry, watched, files, served
<1>8. OneReload'
  BY <1>1, <1>2, HandlerFacts
     DEF OneReload, Reloading, At, ReadEntry
<1>9. ClientInv'
  BY <1>1, <1>2, HandlerFacts
     DEF ClientInv, At, Watching, Definition, ReadEntry, served
<1> QED
  BY <1>3, <1>4, <1>5, <1>6, <1>7, <1>8, <1>9 DEF Inv, CommandInv

LEMMA ReadSourcesStep ==
    ASSUME Inv, ReadSources
    PROVE  Inv'
<1>1. Types /\ Joined /\ StartsAlone /\ Alone /\ LastIsFresh /\ OneReload /\ ClientInv
  BY DEF Inv, CommandInv
<1>2. Bundle \in App /\ (build.procs = Latest.procs => Bundle = Latest)
  BY <1>1, ConstantTypes, SourcesFacts DEF Bundle, Types, BuildType, App, Latest
<1>3. /\ build' \in BuildType /\ build'.stage = "write" /\ build'.app = Bundle
  BY <1>1, <1>2 DEF ReadSources, Types, BuildType
<1>4. Types'
  BY <1>1, <1>2, <1>3, HandlerFacts, ConstantTypes
     DEF Types, ReadSources, watched, files, served
<1>5. Joined'
  BY <1>1, <1>2, <1>3, HandlerFacts
     DEF Joined, At, ReadSources, files
<1>6. StartsAlone'
  BY <1>1, <1>2, <1>3, HandlerFacts
     DEF StartsAlone, ReadSources, watched
<1>7. Alone'
  BY <1>1, <1>2, <1>3, HandlerFacts
     DEF Alone, Busy, ReadSources
<1>8. LastIsFresh'
  BY <1>1, <1>2, <1>3, HandlerFacts
     DEF LastIsFresh, Last, Latest, ReadSources, watched, files, served, Joined, At, Alone, Busy
<1>9. OneReload'
  BY <1>1, <1>2, <1>3, HandlerFacts
     DEF OneReload, Reloading, At, ReadSources
<1>10. ClientInv'
  BY <1>1, <1>2, <1>3, HandlerFacts
     DEF ClientInv, At, Watching, Definition, ReadSources, served
<1> QED
  BY <1>4, <1>5, <1>6, <1>7, <1>8, <1>9, <1>10 DEF Inv, CommandInv

LEMMA BuildFailsStep ==
    ASSUME Inv, BuildFails
    PROVE  Inv'
<1>1. Types /\ Joined /\ StartsAlone /\ Alone /\ LastIsFresh /\ OneReload /\ ClientInv
  BY DEF Inv, CommandInv
<1> DEFINE F == [h \in DOMAIN handler |-> Failed(h)]
<1>2. \A h \in DOMAIN handler : F[h] \in HandlerType /\ F[h].stage = IF h = 1 THEN "exited" ELSE "done"
  BY ConstantTypes DEF Failed, Done, Handler
<1>3. handler' = [h \in DOMAIN handler |-> IF h \in At("rebuild") THEN F[h] ELSE handler[h]]
  BY DEF BuildFails, At
<1> HIDE DEF F
<1>4. /\ handler' \in Seq(HandlerType) /\ Len(handler') = Len(handler) /\ DOMAIN handler' = DOMAIN handler
      /\ \A h \in At("rebuild") : handler'[h].stage = IF h = 1 THEN "exited" ELSE "done"
      /\ \A h \in DOMAIN handler : h \notin At("rebuild") => handler'[h] = handler[h]
  <2>1. \A h \in At("rebuild") : h \in DOMAIN handler
    BY DEF At
  <2>2. \A h \in At("rebuild") : F[h] \in HandlerType
    BY <1>2, <2>1
  <2>3. /\ handler' \in Seq(HandlerType) /\ Len(handler') = Len(handler) /\ DOMAIN handler' = DOMAIN handler
        /\ \A h \in At("rebuild") : handler'[h] = F[h]
        /\ \A h \in DOMAIN handler : h \notin At("rebuild") => handler'[h] = handler[h]
    BY <1>1, <1>3, <2>2, MovedTogether
  <2> QED
    BY <1>2, <2>1, <2>3
<1>5. At("rebuild") # {} /\ At("rebuild")' = {}
  BY <1>1, <1>4 DEF Joined, At, BuildFails
<1>6. /\ At("import")' = At("import") /\ At("swap")' = At("swap")
      /\ At("generate")' = At("generate") /\ At("generated")' = At("generated")
      /\ \A h \in At("generate") \cup At("generated") : handler'[h] = handler[h]
      /\ Watching' => Watching
  BY <1>1, <1>4, HandlerFacts DEF At, Watching
<1>7. ~(~disturbed /\ events = 0 /\ Sources[edition].compiles)
  BY <1>1, <1>5, HandlerFacts DEF LastIsFresh, Last, Latest, Alone, Busy, At, Builds, BuildFails
<1>8. Types'
  BY <1>1, <1>2, <1>3, <1>4, <1>5, <1>6, <1>7, HandlerFacts, ConstantTypes
     DEF Types, BuildFails, watched, files, served
<1>9. Joined'
  BY <1>1, <1>2, <1>3, <1>4, <1>5, <1>6, <1>7, HandlerFacts, ConstantTypes
     DEF Joined, At, BuildFails, files
<1>10. StartsAlone'
  BY <1>1, <1>2, <1>3, <1>4, <1>5, <1>6, <1>7, HandlerFacts
     DEF StartsAlone, BuildFails, watched, At
<1>11. Alone'
  BY <1>1, <1>2, <1>3, <1>4, <1>5, <1>6, <1>7, HandlerFacts
     DEF Alone, Busy, BuildFails
<1>12. LastIsFresh'
  BY <1>1, <1>2, <1>3, <1>4, <1>5, <1>6, <1>7, HandlerFacts
     DEF LastIsFresh, Last, Latest, BuildFails, watched, files, served
<1>13. OneReload'
  BY <1>1, <1>6 DEF OneReload, Reloading, Shared, BuildFails
<1>14. ClientInv'
  <2>1. /\ dynamicHandler' = dynamicHandler /\ appDefStr' = appDefStr /\ client' = client
        /\ ~crossed' => ~crossed
    BY DEF BuildFails, served
  <2>2. Definition(dynamicHandler)' = Definition(dynamicHandler)
    BY <2>1 DEF Definition
  <2> SUFFICES ASSUME ~crossed'
               PROVE  ClientInv'
    BY DEF ClientInv
  <2>3. \A h \in At("generate")' \cup At("generated")' : handler'[h].app = dynamicHandler'
    BY <1>1, <1>6, <2>1 DEF ClientInv
  <2>4. \A h \in At("generated")' : client' = Definition(dynamicHandler)'
    BY <1>1, <1>6, <2>1, <2>2 DEF ClientInv
  <2>5. Watching' /\ At("generate")' \cup At("generated")' = {} =>
          client' = Definition(dynamicHandler)' /\ appDefStr' = client'
    BY <1>1, <1>6, <2>1, <2>2 DEF ClientInv
  <2> QED
    BY <2>3, <2>4, <2>5 DEF ClientInv
<1> QED
  BY <1>8, <1>9, <1>10, <1>11, <1>12, <1>13, <1>14 DEF Inv, CommandInv

LEMMA WriteOutputStep ==
    ASSUME Inv, WriteOutput
    PROVE  Inv'
<1>1. Types /\ Joined /\ StartsAlone /\ Alone /\ LastIsFresh /\ OneReload /\ ClientInv
  BY DEF Inv, CommandInv
<1> DEFINE F == [h \in DOMAIN handler |-> [handler[h] EXCEPT !.stage = "import"]]
<1>2. \A h \in DOMAIN handler : /\ F[h] \in HandlerType /\ F[h].stage = "import" /\ F[h].app = handler[h].app
  BY <1>1, HandlerFacts DEF HandlerType, Stage
<1>3. handler' = [h \in DOMAIN handler |-> IF h \in At("rebuild") THEN F[h] ELSE handler[h]]
  BY DEF WriteOutput, At
<1> HIDE DEF F
<1>4. /\ handler' \in Seq(HandlerType) /\ Len(handler') = Len(handler) /\ DOMAIN handler' = DOMAIN handler
      /\ \A h \in At("rebuild") : handler'[h].stage = "import"
      /\ \A h \in DOMAIN handler : h \notin At("rebuild") => handler'[h] = handler[h]
  <2>1. \A h \in At("rebuild") : h \in DOMAIN handler
    BY DEF At
  <2>2. \A h \in At("rebuild") : F[h] \in HandlerType
    BY <1>2, <2>1
  <2>3. /\ handler' \in Seq(HandlerType) /\ Len(handler') = Len(handler) /\ DOMAIN handler' = DOMAIN handler
        /\ \A h \in At("rebuild") : handler'[h] = F[h]
        /\ \A h \in DOMAIN handler : h \notin At("rebuild") => handler'[h] = handler[h]
    BY <1>1, <1>3, <2>2, MovedTogether
  <2> QED
    BY <1>2, <2>1, <2>3
<1>5. At("rebuild") # {} /\ At("rebuild")' = {}
  BY <1>1, <1>4 DEF Joined, At, WriteOutput
<1>6. build.app \in App
  BY <1>1 DEF Types, BuildType
<1>7. /\ At("import")' \subseteq At("import") \cup At("rebuild") /\ At("swap")' = At("swap")
      /\ At("generate")' = At("generate") /\ At("generated")' = At("generated")
      /\ \A h \in At("generate") \cup At("generated") : handler'[h] = handler[h]
      /\ Watching' => Watching
  BY <1>1, <1>4, HandlerFacts DEF At, Watching
<1>8. Types'
  BY <1>1, <1>2, <1>3, <1>4, <1>5, <1>6, <1>7, HandlerFacts, ConstantTypes
     DEF Types, WriteOutput, watched, files, served
<1>9. Joined'
  BY <1>1, <1>2, <1>3, <1>4, <1>5, <1>6, <1>7, HandlerFacts, ConstantTypes
     DEF Joined, At, WriteOutput, files
<1>10. StartsAlone'
  BY <1>1, <1>2, <1>3, <1>4, <1>5, <1>6, <1>7, HandlerFacts
     DEF StartsAlone, WriteOutput, watched, At
<1>11. Alone'
  BY <1>1, <1>2, <1>3, <1>4, <1>5, <1>6, <1>7, HandlerFacts
     DEF Alone, Busy, WriteOutput, At
<1>12. LastIsFresh'
  BY <1>1, <1>2, <1>3, <1>4, <1>5, <1>6, <1>7, HandlerFacts
     DEF LastIsFresh, Last, Latest, WriteOutput, watched, files, served, Alone, Busy, At
<1>13. OneReload'
  BY <1>1, <1>7 DEF OneReload, Reloading, Shared, WriteOutput
<1>14. ClientInv'
  <2>1. /\ dynamicHandler' = dynamicHandler /\ appDefStr' = appDefStr /\ client' = client
        /\ ~crossed' => ~crossed
    BY DEF WriteOutput, served
  <2>2. Definition(dynamicHandler)' = Definition(dynamicHandler)
    BY <2>1 DEF Definition
  <2> SUFFICES ASSUME ~crossed'
               PROVE  ClientInv'
    BY DEF ClientInv
  <2>3. \A h \in At("generate")' \cup At("generated")' : handler'[h].app = dynamicHandler'
    BY <1>1, <1>7, <2>1 DEF ClientInv
  <2>4. \A h \in At("generated")' : client' = Definition(dynamicHandler)'
    BY <1>1, <1>7, <2>1, <2>2 DEF ClientInv
  <2>5. Watching' /\ At("generate")' \cup At("generated")' = {} =>
          client' = Definition(dynamicHandler)' /\ appDefStr' = client'
    BY <1>1, <1>7, <2>1, <2>2 DEF ClientInv
  <2> QED
    BY <2>3, <2>4, <2>5 DEF ClientInv
<1> QED
  BY <1>8, <1>9, <1>10, <1>11, <1>12, <1>13, <1>14 DEF Inv, CommandInv

LEMMA ImportStep ==
    ASSUME Inv, NEW h \in DOMAIN handler, Import(h)
    PROVE  Inv'
<1>1. Types /\ Joined /\ StartsAlone /\ Alone /\ LastIsFresh /\ OneReload /\ ClientInv
  BY DEF Inv, CommandInv
<1> DEFINE to == IF outApp = TornApp THEN Failed(h) ELSE Handler("swap", {}, outApp)
<1>2. /\ to \in HandlerType
      /\ outApp = TornApp => to.stage = IF h = 1 THEN "exited" ELSE "done"
      /\ outApp # TornApp => to.stage = "swap" /\ to.app = outApp
  BY <1>1, ConstantTypes DEF Types, Stage, Failed, Done, Handler
<1>3. handler[h].stage = "import" /\ handler' = [handler EXCEPT ![h] = to]
  BY DEF Import
<1> HIDE DEF to
<1>4. /\ handler' \in Seq(HandlerType) /\ Len(handler') = Len(handler) /\ DOMAIN handler' = DOMAIN handler
      /\ handler'[h] = to /\ \A g \in DOMAIN handler : g # h => handler'[g] = handler[g]
  BY <1>1, <1>2, <1>3, Moved
<1>5. Latest # TornApp
  BY <1>1, SourcesFacts DEF Latest, TornApp, Types
<1>6. Types'
  BY <1>1, <1>2, <1>3, <1>4, <1>5, HandlerFacts
     DEF Types, Import, watched, files, served
<1>7. Joined'
  BY <1>1, <1>2, <1>3, <1>4, <1>5, HandlerFacts
     DEF Joined, At, Import, files
<1>8. StartsAlone'
  BY <1>1, <1>2, <1>3, <1>4, <1>5, HandlerFacts
     DEF StartsAlone, Import, watched
<1>9. Alone'
  BY <1>1, <1>2, <1>3, <1>4, <1>5, HandlerFacts
     DEF Alone, Busy, Import
<1>10. LastIsFresh'
  BY <1>1, <1>2, <1>3, <1>4, <1>5, HandlerFacts
     DEF LastIsFresh, Last, Latest, Import, watched, files, served, Alone, Busy
<1>11. OneReload'
  BY <1>1, <1>2, <1>3, <1>4, <1>5, HandlerFacts
     DEF OneReload, Reloading, At, Import
<1>12. ClientInv'
  BY <1>1, <1>2, <1>3, <1>4, <1>5, HandlerFacts
     DEF ClientInv, At, Watching, Definition, Import, served
<1> QED
  BY <1>6, <1>7, <1>8, <1>9, <1>10, <1>11, <1>12 DEF Inv, CommandInv

LEMMA SwapStep ==
    ASSUME Inv, NEW h \in DOMAIN handler, Swap(h)
    PROVE  Inv'
<1>1. Types /\ Joined /\ StartsAlone /\ Alone /\ LastIsFresh /\ OneReload /\ ClientInv
  BY DEF Inv, CommandInv
<1> DEFINE app == handler[h].app
<1> DEFINE goes == h = 1 \/ Definition(app) # appDefStr
<1> DEFINE to == IF goes THEN [handler[h] EXCEPT !.stage = "generate"] ELSE Done
<1>2. /\ to \in HandlerType
      /\ goes => to.stage = "generate" /\ to.app = app
      /\ ~goes => to.stage = "done"
  BY <1>1, ConstantTypes, HandlerFacts DEF HandlerType, Stage, Done, Handler
<1>3. handler[h].stage = "swap" /\ handler' = [handler EXCEPT ![h] = to]
  BY <1>1, HandlerFacts DEF Swap
<1> HIDE DEF to
<1>4. /\ handler' \in Seq(HandlerType) /\ Len(handler') = Len(handler) /\ DOMAIN handler' = DOMAIN handler
      /\ handler'[h] = to /\ \A g \in DOMAIN handler : g # h => handler'[g] = handler[g]
  BY <1>1, <1>2, <1>3, Moved
<1>5. Types'
  BY <1>1, <1>2, <1>3, <1>4, HandlerFacts
     DEF Types, Swap, watched, files, served
<1>6. Joined'
  BY <1>1, <1>2, <1>3, <1>4, HandlerFacts
     DEF Joined, At, Swap, files
<1>7. StartsAlone'
  BY <1>1, <1>2, <1>3, <1>4, HandlerFacts
     DEF StartsAlone, Swap, watched
<1>8. Alone'
  BY <1>1, <1>2, <1>3, <1>4, HandlerFacts
     DEF Alone, Busy, Swap
<1>9. LastIsFresh'
  BY <1>1, <1>2, <1>3, <1>4, HandlerFacts
     DEF LastIsFresh, Last, Latest, Swap, watched, files, served, Alone, Busy
<1>10. OneReload'
  BY <1>1, <1>2, <1>3, <1>4, HandlerFacts
     DEF OneReload, Reloading, At, Swap
<1>11. ClientInv'
  BY <1>1, <1>2, <1>3, <1>4, HandlerFacts
     DEF ClientInv, At, Watching, Definition, Swap, served, OneReload, Reloading, StartsAlone
<1> QED
  BY <1>5, <1>6, <1>7, <1>8, <1>9, <1>10, <1>11 DEF Inv, CommandInv

LEMMA GenerateStep ==
    ASSUME Inv, NEW h \in DOMAIN handler, Generate(h)
    PROVE  Inv'
<1>1. Types /\ Joined /\ StartsAlone /\ Alone /\ LastIsFresh /\ OneReload /\ ClientInv
  BY DEF Inv, CommandInv
<1>2. handler[h].stage = "generate" /\ "generated" \in Stage
  BY DEF Generate, Stage
<1>3. /\ handler' \in Seq(HandlerType) /\ Len(handler') = Len(handler) /\ DOMAIN handler' = DOMAIN handler
      /\ handler'[h].stage = "generated" /\ handler'[h].app = handler[h].app
      /\ \A g \in DOMAIN handler : g # h => handler'[g] = handler[g]
  BY <1>1, <1>2, NextStage DEF Generate
<1>4. Types'
  BY <1>1, <1>2, <1>3, HandlerFacts
     DEF Types, Generate, watched, files, served
<1>5. Joined'
  BY <1>1, <1>2, <1>3, HandlerFacts
     DEF Joined, At, Generate, files
<1>6. StartsAlone'
  BY <1>1, <1>2, <1>3, HandlerFacts
     DEF StartsAlone, Generate, watched
<1>7. Alone'
  BY <1>1, <1>2, <1>3, HandlerFacts
     DEF Alone, Busy, Generate
<1>8. LastIsFresh'
  BY <1>1, <1>2, <1>3, HandlerFacts
     DEF LastIsFresh, Last, Latest, Generate, watched, files, served
<1>9. OneReload'
  BY <1>1, <1>2, <1>3, HandlerFacts
     DEF OneReload, Reloading, At, Generate
<1>10. ClientInv'
  BY <1>1, <1>2, <1>3, HandlerFacts
     DEF ClientInv, At, Watching, Definition, Generate, served, OneReload, Reloading
<1> QED
  BY <1>4, <1>5, <1>6, <1>7, <1>8, <1>9, <1>10 DEF Inv, CommandInv

LEMMA GeneratorFailsStep ==
    ASSUME Inv, NEW h \in DOMAIN handler, GeneratorFails(h)
    PROVE  Inv'
<1>1. Types /\ Joined /\ StartsAlone /\ Alone /\ LastIsFresh /\ OneReload /\ ClientInv
  BY DEF Inv, CommandInv
<1>2. handler[h].stage = "generate" /\ "generated" \in Stage
  BY DEF GeneratorFails, Stage
<1>3. /\ handler' \in Seq(HandlerType) /\ Len(handler') = Len(handler) /\ DOMAIN handler' = DOMAIN handler
      /\ handler'[h].stage = "generated" /\ handler'[h].app = handler[h].app
      /\ \A g \in DOMAIN handler : g # h => handler'[g] = handler[g]
  BY <1>1, <1>2, NextStage DEF GeneratorFails
<1>4. Types'
  BY <1>1, <1>2, <1>3, HandlerFacts
     DEF Types, GeneratorFails, watched, files, served
<1>5. Joined'
  BY <1>1, <1>2, <1>3, HandlerFacts
     DEF Joined, At, GeneratorFails, files
<1>6. StartsAlone'
  BY <1>1, <1>2, <1>3, HandlerFacts
     DEF StartsAlone, GeneratorFails, watched
<1>7. Alone'
  BY <1>1, <1>2, <1>3, HandlerFacts
     DEF Alone, Busy, GeneratorFails
<1>8. LastIsFresh'
  BY <1>1, <1>2, <1>3, HandlerFacts
     DEF LastIsFresh, Last, Latest, GeneratorFails, watched, files, served
<1>9. OneReload'
  BY <1>1, <1>2, <1>3, HandlerFacts
     DEF OneReload, Reloading, At, GeneratorFails
<1>10. ClientInv'
  BY <1>1, <1>2, <1>3, HandlerFacts
     DEF ClientInv, At, Watching, Definition, GeneratorFails, served
<1> QED
  BY <1>4, <1>5, <1>6, <1>7, <1>8, <1>9, <1>10 DEF Inv, CommandInv

LEMMA FinishStep ==
    ASSUME Inv, NEW h \in DOMAIN handler, Finish(h)
    PROVE  Inv'
<1>1. Types /\ Joined /\ StartsAlone /\ Alone /\ LastIsFresh /\ OneReload /\ ClientInv
  BY DEF Inv, CommandInv
<1>2. Done \in HandlerType /\ Done.stage = "done"
  BY ConstantTypes DEF Done, Handler
<1>3. handler[h].stage = "generated"
  BY DEF Finish
<1>4. /\ handler' \in Seq(HandlerType) /\ Len(handler') = Len(handler) /\ DOMAIN handler' = DOMAIN handler
      /\ handler'[h].stage = "done" /\ \A g \in DOMAIN handler : g # h => handler'[g] = handler[g]
  BY <1>1, <1>2, Moved DEF Finish
<1>5. Types'
  BY <1>1, <1>2, <1>3, <1>4, HandlerFacts
     DEF Types, Finish, watched, files, served
<1>6. Joined'
  BY <1>1, <1>2, <1>3, <1>4, HandlerFacts
     DEF Joined, At, Finish, files
<1>7. StartsAlone'
  BY <1>1, <1>2, <1>3, <1>4, HandlerFacts
     DEF StartsAlone, Finish, watched
<1>8. Alone'
  BY <1>1, <1>2, <1>3, <1>4, HandlerFacts
     DEF Alone, Busy, Finish
<1>9. LastIsFresh'
  BY <1>1, <1>2, <1>3, <1>4, HandlerFacts
     DEF LastIsFresh, Last, Latest, Finish, watched, files, served
<1>10. OneReload'
  BY <1>1, <1>2, <1>3, <1>4, HandlerFacts
     DEF OneReload, Reloading, At, Finish
<1>11. ClientInv'
  BY <1>1, <1>2, <1>3, <1>4, HandlerFacts
     DEF ClientInv, At, Watching, Definition, Finish, served, OneReload, Reloading
<1> QED
  BY <1>5, <1>6, <1>7, <1>8, <1>9, <1>10, <1>11 DEF Inv, CommandInv

-----------------------------------------------------------------------------
LEMMA InitInv == Init => Inv
<1> SUFFICES ASSUME Init
             PROVE  Inv
  OBVIOUS
<1> DEFINE first == Handler("glob", {}, None)
<1>1. first \in HandlerType /\ first.stage = "glob"
  BY ConstantTypes DEF Stage, Handler
<1> HIDE DEF first
<1>2. handler = <<first>>
  BY DEF Init, first
<1>3. handler \in Seq(HandlerType) /\ Len(handler) = 1 /\ DOMAIN handler = {1} /\ handler[1].stage = "glob"
  BY <1>1, <1>2
<1>4. 1 \in 1 .. Len(Sources)
  <2>1. Len(Sources) \in Nat
    BY SourcesAssumption
  <2>2. Len(Sources) # 0
    BY SourcesAssumption
  <2> QED
    BY <2>1, <2>2
<1>5. Types
  <2>1. edition \in 1 .. Len(Sources) /\ events \in Nat
    BY <1>4 DEF Init
  <2>2. genApp \in SUBSET Name /\ build \in BuildType /\ outApp \in App /\ dynamicHandler \in App
    BY ConstantTypes DEF Init
  <2>3. disturbed \in BOOLEAN /\ crossed \in BOOLEAN
    BY DEF Init
  <2> QED
    BY <1>3, <2>1, <2>2, <2>3 DEF Types
<1>6. Joined
  BY <1>3, ConstantTypes DEF Init, Joined, At
<1>7. StartsAlone
  BY <1>3 DEF Init, StartsAlone
<1>8. Alone /\ LastIsFresh
  BY <1>3 DEF Alone, Busy, LastIsFresh, Last
<1>9. OneReload /\ ClientInv
  BY <1>3 DEF OneReload, Reloading, ClientInv, At, Watching
<1> QED
  BY <1>5, <1>6, <1>7, <1>8, <1>9 DEF Inv, CommandInv

LEMMA Inductive ==
    ASSUME Inv, [Next]_vars
    PROVE  Inv'
<1>1. ASSUME NEW h \in DOMAIN handler, Proceed(h)
      PROVE  Inv'
  BY <1>1, GlobStep, TruncateStep, WriteStep, ImportStep, SwapStep, GenerateStep, GeneratorFailsStep,
     FinishStep DEF Proceed
<1>2. CASE Save
  BY <1>2, SaveStep
<1>3. CASE Command
  BY <1>1, <1>3, HandleEventStep, ReadEntryStep, ReadSourcesStep, BuildFailsStep, WriteOutputStep DEF Command
<1>4. CASE UNCHANGED vars
  <2>1. /\ handler' = handler /\ edition' = edition /\ events' = events /\ genApp' = genApp /\ build' = build
        /\ outApp' = outApp /\ dynamicHandler' = dynamicHandler /\ appDefStr' = appDefStr /\ client' = client
        /\ disturbed' = disturbed /\ crossed' = crossed
    BY <1>4 DEF vars, watched, files, served
  <2>2. CommandInv'
    BY <2>1 DEF Inv, CommandInv, Types, Joined, At, StartsAlone
  <2>3. Alone' /\ LastIsFresh'
    BY <2>1 DEF Inv, Alone, Busy, LastIsFresh, Last, Latest
  <2>4. OneReload' /\ ClientInv'
    BY <2>1 DEF Inv, OneReload, Reloading, ClientInv, At, Watching, Definition
  <2> QED
    BY <2>2, <2>3, <2>4 DEF Inv
<1> QED
  BY <1>2, <1>3, <1>4 DEF Next

\* Types, Joined, StartsAlone: the state of the command, whatever the saves.
THEOREM InvCorrect == Spec => []Inv
BY InitInv, Inductive, PTL DEF Spec

\* However saves, events and handlers interleave (tsServer.ts rebuilds without
\* waiting for an earlier rebuild), the last handler, if none other was busy
\* since it began and no save went without an event, leaves the dev server
\* answering with the latest sources and every procedure file of them.
THEOREM FreshAtRestCorrect == Spec => []FreshAtRest
<1>1. Inv => FreshAtRest
  <2> SUFFICES ASSUME Inv, AtRest, Watching, ~disturbed, Sources[edition].compiles
               PROVE  dynamicHandler = Latest
    BY DEF FreshAtRest, Latest
  <2>1. Types /\ StartsAlone /\ LastIsFresh
    BY DEF Inv, CommandInv
  <2>2. Len(handler) \in DOMAIN handler
    BY <2>1, HandlerFacts
  <2>3. Last.stage \in {"done", "exited"}
    BY <2>2 DEF AtRest, Busy, Last
  <2>4. Last.stage # "exited"
    BY <2>1, <2>2 DEF StartsAlone, Last, Watching
  <2> QED
    BY <2>1, <2>3, <2>4 DEF LastIsFresh, AtRest
<1> QED
  BY <1>1, InvCorrect, PTL

\* As long as no two reloads overlapped and no generator failed, the clients on
\* disk are at rest those of the app the dev server answers with: the definition
\* remembered at each reload (appDefStr) never skips a generation that is due.
THEOREM ClientFollowsCorrect == Spec => []ClientFollows
<1>1. Inv => ClientFollows
  <2> SUFFICES ASSUME Inv, AtRest, Watching, ~crossed
               PROVE  client = Definition(dynamicHandler)
    BY DEF ClientFollows
  <2>1. At("generate") \cup At("generated") = {}
    BY DEF AtRest, Busy, At
  <2> QED
    BY <2>1 DEF Inv, ClientInv
<1> QED
  BY <1>1, InvCorrect, PTL
=============================================================================
