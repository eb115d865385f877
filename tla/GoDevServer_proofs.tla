------------------------- MODULE GoDevServer_proofs -------------------------
(***************************************************************************)
(* Proofs about GoDevServer, for every sequence of edits, any definitions  *)
(* and any number of crashes: no watch handler is forgotten, the CLI keeps *)
(* hold of every server while restarts do not overlap, and at rest server, *)
(* definition and client are those of the latest sources.                  *)
(*                                                                         *)
(* All rest on who may hold listeners: only the process in childProcess   *)
(* has the listeners of spawnProcess() or is waited for, and nobody waits  *)
(* for it while handlers are runnable, because handlers resume before the  *)
(* next event is taken.                                                    *)
(***************************************************************************)
EXTENDS GoDevServer, TLAPS

\* What a step may rely on of the types.
Types ==
    /\ edition \in 1..Len(Sources)
    /\ server \in Seq(Server)
    /\ childProcess \in 0..Len(server)
    /\ pending \in Nat /\ runnable \in Nat

\* The process the CLI holds has its listeners and its exit is still to come.
HeldIsHeard ==
    childProcess # 0 => server[childProcess].base /\ server[childProcess].stage # "noticed"

\* A process the CLI does not hold has no listener, or nothing more to say.
LostIsSilent ==
    \A s \in DOMAIN server : s # childProcess =>
        server[s].waiters = 0 /\ (server[s].base => server[s].stage = "noticed")

\* While handlers are runnable no other one waits.
DrainedFirst ==
    runnable > 0 /\ childProcess # 0 => server[childProcess].waiters = 0

HandlerInv == Types /\ HeldIsHeard /\ LostIsSilent /\ DrainedFirst /\ NoHandlerForgotten

\* Without overlapping restarts one handler is under way, and it resumes with
\* nothing held and nothing running.
OneRestart ==
    "restarts" \notin overlaps => pending <= 1 /\ (runnable > 0 => childProcess = 0)

OrphanInv == OneRestart /\ NoOrphan
-----------------------------------------------------------------------------
\* A function on 1..n is a sequence of length n.
LEMMA FunctionIsSeq ==
    ASSUME NEW T, NEW n \in Nat, NEW f, DOMAIN f = 1..n,
           f = [i \in 1..n |-> f[i]], \A i \in 1..n : f[i] \in T
    PROVE  f \in Seq(T) /\ Len(f) = n
OBVIOUS

\* removeAllListeners() changes no process but the one held, and of that one
\* only the listeners.
LEMMA SilencedFacts ==
    ASSUME server \in Seq(Server), childProcess \in 0..Len(server)
    PROVE  /\ Silenced \in Seq(Server)
           /\ Len(Silenced) = Len(server)
           /\ \A s \in DOMAIN server :
                /\ Silenced[s].stage = server[s].stage
                /\ Silenced[s].edition = server[s].edition /\ Silenced[s].killed = server[s].killed
                /\ s # childProcess => Silenced[s] = server[s]
                /\ s = childProcess => Silenced[s].base = FALSE /\ Silenced[s].waiters = 0
<1>1. \A s \in DOMAIN server : server[s] \in Server
  OBVIOUS
<1>2. \A s \in DOMAIN server :
        /\ Silenced[s] \in Server
        /\ Silenced[s].stage = server[s].stage
        /\ Silenced[s].edition = server[s].edition /\ Silenced[s].killed = server[s].killed
        /\ s # childProcess => Silenced[s] = server[s]
        /\ s = childProcess => Silenced[s].base = FALSE /\ Silenced[s].waiters = 0
  BY <1>1 DEF Silenced, Server
<1>3. Silenced = [s \in 1..Len(server) |-> Silenced[s]] /\ DOMAIN Silenced = 1..Len(server)
  BY DEF Silenced
<1>4. Len(server) \in Nat /\ DOMAIN server = 1..Len(server)
  OBVIOUS
<1>5. \A s \in 1..Len(server) : Silenced[s] \in Server
  BY <1>2, <1>4
<1>6. Silenced \in Seq(Server) /\ Len(Silenced) = Len(server)
  <2> DEFINE f == Silenced
             n == Len(server)
  <2>1. n \in Nat /\ DOMAIN f = 1..n /\ f = [i \in 1..n |-> f[i]] /\ \A i \in 1..n : f[i] \in Server
    BY <1>3, <1>4, <1>5
  <2> HIDE DEF f, n
  <2>2. f \in Seq(Server) /\ Len(f) = n
    BY <2>1, FunctionIsSeq
  <2> QED
    BY <2>2 DEF f, n
<1> QED
  BY <1>2, <1>6

\* A process that moves to another stage keeps everything else.
LEMMA GoesFacts ==
    ASSUME Types, NEW s \in DOMAIN server, NEW stage \in {"writing", "written", "serving", "exited"},
           Goes(s, stage)
    PROVE  /\ Types' /\ DOMAIN server' = DOMAIN server
           /\ UNCHANGED <<childProcess, pending, runnable, overlaps>>
           /\ \A t \in DOMAIN server : /\ server'[t].base = server[t].base
                                       /\ server'[t].waiters = server[t].waiters
                                       /\ server'[t].edition = server[t].edition
                                       /\ server'[t].killed = server[t].killed
           /\ \A t \in DOMAIN server : t # s => server'[t] = server[t]
           /\ server'[s].stage = stage
<1>1. \A t \in DOMAIN server : server[t] \in Server
  BY DEF Types
<1>2. /\ server' = [server EXCEPT ![s].stage = stage]
      /\ UNCHANGED <<edition, childProcess, pending, runnable, overlaps>>
  BY DEF Goes, loop
<1>3. [server[s] EXCEPT !.stage = stage] \in Server
  BY <1>1 DEF Server
<1>4. server' \in Seq(Server) /\ Len(server') = Len(server) /\ DOMAIN server' = DOMAIN server
  BY <1>1, <1>2, <1>3 DEF Types
<1>5. \A t \in DOMAIN server : /\ server'[t].base = server[t].base
                               /\ server'[t].waiters = server[t].waiters
                               /\ server'[t].edition = server[t].edition
                               /\ server'[t].killed = server[t].killed
                               /\ t # s => server'[t] = server[t]
                               /\ t = s => server'[t].stage = stage
  BY <1>1, <1>2 DEF Server
<1>6. Types'
  BY <1>2, <1>4 DEF Types
<1> QED
  BY <1>2, <1>4, <1>5, <1>6
-----------------------------------------------------------------------------
LEMMA HandlerInvInit == Init => HandlerInv
<1> SUFFICES ASSUME Init PROVE HandlerInv
  OBVIOUS
<1>1. edition = 1 /\ pending = 0 /\ runnable = 0
  BY DEF Init
<1>2. edition \in 1..Len(Sources)
  BY <1>1, SourcesAssumption
<1>3. CASE Sources[1] = Broken
  <2>1. server = <<>> /\ childProcess = 0
    BY <1>3 DEF Init
  <2> QED
    BY <1>1, <1>2, <2>1
    DEF HandlerInv, Types, HeldIsHeard, LostIsSilent, DrainedFirst, NoHandlerForgotten
<1>4. CASE Sources[1] # Broken
  <2>1. server = <<NewServer>> /\ childProcess = 1
    BY <1>4 DEF Init
  <2>2. NewServer \in Server /\ NewServer.base /\ NewServer.stage = "started" /\ NewServer.waiters = 0
    BY <1>2 DEF NewServer, Server
  <2>3. server \in Seq(Server) /\ Len(server) = 1 /\ DOMAIN server = {1} /\ server[1] = NewServer
    BY <2>1, <2>2
  <2> QED
    BY <1>1, <1>2, <2>1, <2>2, <2>3
    DEF HandlerInv, Types, HeldIsHeard, LostIsSilent, DrainedFirst, NoHandlerForgotten
<1> QED
  BY <1>3, <1>4

\* A change of stage disturbs nothing, as long as no exit is noticed by it.
LEMMA GoesKeepsHandlerInv ==
    ASSUME HandlerInv, NEW s \in DOMAIN server,
           NEW stage \in {"writing", "written", "serving", "exited"},
           server[s].stage # "noticed", Goes(s, stage)
    PROVE  HandlerInv'
<1>1. Types
  BY DEF HandlerInv
<1>2. /\ Types' /\ DOMAIN server' = DOMAIN server
      /\ UNCHANGED <<childProcess, pending, runnable>>
      /\ \A t \in DOMAIN server : /\ server'[t].base = server[t].base
                                  /\ server'[t].waiters = server[t].waiters
      /\ \A t \in DOMAIN server : t # s => server'[t] = server[t]
      /\ server'[s].stage = stage
  BY <1>1, GoesFacts
<1>3. childProcess # 0 => childProcess \in DOMAIN server
  BY <1>1 DEF Types
<1>4. HeldIsHeard'
  BY <1>2, <1>3 DEF HandlerInv, HeldIsHeard
<1>5. LostIsSilent'
  <2> SUFFICES ASSUME NEW t \in DOMAIN server', t # childProcess'
               PROVE  server'[t].waiters = 0 /\ (server'[t].base => server'[t].stage = "noticed")
    BY DEF LostIsSilent
  <2>1. server[t].waiters = 0 /\ (server[t].base => server[t].stage = "noticed")
    BY <1>2 DEF HandlerInv, LostIsSilent
  <2> QED
    BY <1>2, <2>1
<1>6. DrainedFirst'
  BY <1>2, <1>3 DEF HandlerInv, DrainedFirst
<1>7. NoHandlerForgotten'
  BY <1>2, <1>3 DEF HandlerInv, NoHandlerForgotten
<1> QED
  BY <1>2, <1>4, <1>5, <1>6, <1>7 DEF HandlerInv

\* Respawning: what was held falls silent, and the new process, if the build
\* succeeds, is held with its listeners.
LEMMA RespawnFacts ==
    ASSUME Types, Respawn
    PROVE  /\ server' \in Seq(Server) /\ childProcess' \in 0..Len(server')
           /\ DOMAIN server \subseteq DOMAIN server'
           /\ \A s \in DOMAIN server : server'[s] = Silenced[s]
           /\ \A s \in DOMAIN server' : s \in DOMAIN server \/ s = childProcess'
           /\ childProcess' # 0 =>
                /\ childProcess' \notin DOMAIN server
                /\ server'[childProcess'].stage = "started"
                /\ server'[childProcess'].base /\ server'[childProcess'].waiters = 0
                /\ server'[childProcess'].edition = edition /\ ~server'[childProcess'].killed
           /\ Compiles => childProcess' # 0
<1>1. /\ Silenced \in Seq(Server) /\ Len(Silenced) = Len(server)
      /\ DOMAIN server = 1..Len(server) /\ Len(server) \in Nat
      /\ DOMAIN Silenced = DOMAIN server
  <2>1. Silenced \in Seq(Server) /\ Len(Silenced) = Len(server)
    BY SilencedFacts DEF Types
  <2>2. DOMAIN server = 1..Len(server) /\ Len(server) \in Nat
    BY DEF Types
  <2>3. DOMAIN Silenced = DOMAIN server
    BY DEF Silenced
  <2> QED
    BY <2>1, <2>2, <2>3
<1>2. /\ NewServer \in Server /\ NewServer.base /\ NewServer.stage = "started" /\ NewServer.waiters = 0
      /\ NewServer.edition = edition /\ ~NewServer.killed
  BY DEF Types, NewServer, Server
<1>3. CASE Sources[edition] = Broken
  <2>1. childProcess' = 0 /\ server' = Silenced
    BY <1>3 DEF Respawn
  <2> QED
    BY <1>1, <1>3, <2>1 DEF Compiles
<1>4. CASE Sources[edition] # Broken
  <2>1. childProcess' = Len(server) + 1 /\ server' = Append(Silenced, NewServer)
    BY <1>4 DEF Respawn
  <2> DEFINE f == Silenced
             new == NewServer
  <2>2. f \in Seq(Server) /\ Len(f) = Len(server) /\ server' = Append(f, new) /\ new \in Server
    BY <1>1, <1>2, <2>1
  <2> HIDE DEF f, new
  <2>3. /\ server' \in Seq(Server) /\ Len(server') = Len(server) + 1
        /\ DOMAIN server' = 1..(Len(server) + 1)
        /\ \A s \in 1..Len(server) : server'[s] = f[s]
        /\ server'[Len(server) + 1] = new
    BY <1>1, <2>2
  <2> QED
    BY <1>1, <1>2, <2>1, <2>3 DEF f, new
<1> QED
  BY <1>3, <1>4

\* The watch handler up to its await.
LEMMA HandleChangeKeepsHandlerInv == HandlerInv /\ HandleChange => HandlerInv'
<1> SUFFICES ASSUME HandlerInv, HandleChange PROVE HandlerInv'
  OBVIOUS
<1>1. /\ runnable = 0 /\ pending' = pending + 1
      /\ edition' = edition /\ childProcess' = childProcess
  BY DEF HandleChange
<1>2. /\ server \in Seq(Server) /\ childProcess \in 0..Len(server) /\ pending \in Nat
      /\ edition \in 1..Len(Sources)
  BY DEF HandlerInv, Types
<1>3. CASE childProcess = 0
  <2>1. runnable' = 1 /\ server' = server
    BY <1>3 DEF HandleChange
  <2>2. NoHandlerForgotten'
    BY <1>1, <1>2, <1>3, <2>1 DEF HandlerInv, NoHandlerForgotten
  <2> QED
    BY <1>1, <1>2, <1>3, <2>1, <2>2
    DEF HandlerInv, Types, HeldIsHeard, LostIsSilent, DrainedFirst
<1>4. CASE childProcess # 0
  <2> DEFINE held == [server[childProcess] EXCEPT !.waiters = @ + 1, !.killed = TRUE]
  <2>1. runnable' = 0 /\ server' = [server EXCEPT ![childProcess] = held]
    BY <1>4 DEF HandleChange
  <2>2. childProcess \in DOMAIN server /\ server[childProcess] \in Server
    BY <1>2, <1>4
  <2>3. /\ held \in Server
        /\ held.base = server[childProcess].base /\ held.stage = server[childProcess].stage
        /\ held.waiters = server[childProcess].waiters + 1
    <3> DEFINE old == server[childProcess]
               more == old.waiters + 1
    <3>1. old \in Server /\ held = [old EXCEPT !.waiters = more, !.killed = TRUE]
      BY <2>2
    <3>2. more \in Nat
      BY <2>2 DEF Server
    <3> HIDE DEF old, held, more
    <3>3. held \in Server
      BY <3>1, <3>2, Zenon DEF Server
    <3>4. held.base = old.base /\ held.stage = old.stage /\ held.waiters = more
      BY <3>1, Zenon DEF Server
    <3> QED
      BY <3>3, <3>4 DEF old, more
  <2> HIDE DEF held
  <2>4. /\ server' \in Seq(Server) /\ Len(server') = Len(server) /\ DOMAIN server' = DOMAIN server
        /\ server'[childProcess] = held
        /\ \A s \in DOMAIN server : s # childProcess => server'[s] = server[s]
    BY <1>2, <2>1, <2>2, <2>3
  <2>5. Types'
    BY <1>1, <1>2, <2>1, <2>4 DEF Types
  <2>6. HeldIsHeard'
    BY <1>1, <2>3, <2>4 DEF HandlerInv, HeldIsHeard
  <2>7. LostIsSilent'
    BY <1>1, <2>4 DEF HandlerInv, LostIsSilent
  <2>8. DrainedFirst'
    BY <2>1 DEF DrainedFirst
  <2>9. NoHandlerForgotten'
    <3>1. pending = 0 + server[childProcess].waiters
      BY <1>1, <1>4 DEF HandlerInv, NoHandlerForgotten
    <3>2. server[childProcess].waiters \in Nat
      BY <2>2 DEF Server
    <3>3. pending' = 0 + held.waiters
      BY <1>1, <2>3, <3>1, <3>2
    <3> QED
      BY <1>1, <1>4, <2>1, <2>4, <3>3 DEF NoHandlerForgotten
  <2> QED
    BY <2>5, <2>6, <2>7, <2>8, <2>9 DEF HandlerInv
<1> QED
  BY <1>3, <1>4

\* ... and from the await to the end.
LEMMA ResumeKeepsHandlerInv == HandlerInv /\ Resume => HandlerInv'
<1> SUFFICES ASSUME HandlerInv, Resume PROVE HandlerInv'
  OBVIOUS
<1>1. /\ runnable > 0 /\ runnable' = runnable - 1 /\ pending' = pending - 1
      /\ edition' = edition /\ Respawn
  BY DEF Resume
<1>2. Types
  BY DEF HandlerInv
<1>3. /\ server' \in Seq(Server) /\ childProcess' \in 0..Len(server')
      /\ \A s \in DOMAIN server : server'[s] = Silenced[s]
      /\ \A s \in DOMAIN server' : s \in DOMAIN server \/ s = childProcess'
      /\ childProcess' # 0 =>
           /\ server'[childProcess'].stage = "started"
           /\ server'[childProcess'].base /\ server'[childProcess'].waiters = 0
  BY <1>1, <1>2, RespawnFacts
<1>4. pending = runnable
  <2>1. CASE childProcess = 0
    BY <1>2, <2>1 DEF HandlerInv, NoHandlerForgotten, Types
  <2>2. CASE childProcess # 0
    <3>1. server[childProcess].waiters = 0
      BY <1>1, <2>2 DEF HandlerInv, DrainedFirst
    <3> QED
      BY <1>2, <2>2, <3>1 DEF HandlerInv, NoHandlerForgotten, Types
  <2> QED
    BY <2>1, <2>2
<1>5. Types'
  BY <1>1, <1>2, <1>3, <1>4 DEF Types
<1>6. HeldIsHeard'
  BY <1>3 DEF HeldIsHeard
<1>7. LostIsSilent'
  <2> SUFFICES ASSUME NEW s \in DOMAIN server', s # childProcess'
               PROVE  server'[s].waiters = 0 /\ (server'[s].base => server'[s].stage = "noticed")
    BY DEF LostIsSilent
  <2>1. s \in DOMAIN server /\ server'[s] = Silenced[s]
    BY <1>3
  <2>2. CASE s = childProcess
    BY <1>2, <2>1, <2>2, SilencedFacts DEF Types
  <2>3. CASE s # childProcess
    <3>1. Silenced[s] = server[s]
      BY <1>2, <2>1, <2>3, SilencedFacts DEF Types
    <3> QED
      BY <2>1, <2>3, <3>1 DEF HandlerInv, LostIsSilent
  <2> QED
    BY <2>2, <2>3
<1>8. DrainedFirst'
  BY <1>3 DEF DrainedFirst
<1>9. NoHandlerForgotten'
  BY <1>1, <1>2, <1>3, <1>4 DEF NoHandlerForgotten, Types
<1> QED
  BY <1>5, <1>6, <1>7, <1>8, <1>9 DEF HandlerInv

\* What an exit changes: only the process held still has listeners, so it is
\* let go; the others change their stage.
LEMMA NoticeExitFacts ==
    ASSUME HandlerInv, NEW s \in DOMAIN server, NoticeExit(s)
    PROVE  /\ server' \in Seq(Server) /\ Len(server') = Len(server)
           /\ DOMAIN server' = DOMAIN server
           /\ server'[s].stage = "noticed" /\ server'[s].waiters = 0
           /\ \A t \in DOMAIN server : t # s => server'[t] = server[t]
           /\ s = childProcess => childProcess' = 0
           /\ s # childProcess => childProcess' = childProcess /\ server[s].waiters = 0
<1>1. /\ server[s].stage = "exited"
      /\ server' = [(IF server[s].base THEN Silenced ELSE server)
                      EXCEPT ![s].stage = "noticed", ![s].waiters = 0]
      /\ childProcess' = IF server[s].base THEN 0 ELSE childProcess
  BY DEF NoticeExit
<1>2. /\ server \in Seq(Server) /\ childProcess \in 0..Len(server)
      /\ s # 0 /\ DOMAIN server = 1..Len(server) /\ Len(server) \in Nat
  BY DEF HandlerInv, Types
<1>3. server[s].base <=> s = childProcess
  <2>1. ASSUME s = childProcess PROVE server[s].base
    BY <1>2, <2>1 DEF HandlerInv, HeldIsHeard
  <2>2. ASSUME s # childProcess PROVE ~server[s].base
    <3>1. server[s].base => server[s].stage = "noticed"
      BY <2>2 DEF HandlerInv, LostIsSilent
    <3>2. server[s].stage # "noticed"
      BY <1>1
    <3> QED
      BY <3>1, <3>2
  <2> QED
    BY <2>1, <2>2
<1> DEFINE f == IF server[s].base THEN Silenced ELSE server
<1>4. /\ f \in Seq(Server) /\ Len(f) = Len(server) /\ DOMAIN f = DOMAIN server
      /\ \A t \in DOMAIN server : t # s => f[t] = server[t]
  <2>1. CASE s = childProcess
    <3>1. f = Silenced
      BY <1>3, <2>1
    <3>2. DOMAIN Silenced = DOMAIN server
      BY DEF Silenced
    <3>3. /\ Silenced \in Seq(Server) /\ Len(Silenced) = Len(server)
          /\ \A t \in DOMAIN server : t # childProcess => Silenced[t] = server[t]
      BY <1>2, SilencedFacts
    <3> HIDE DEF f
    <3> QED
      BY <2>1, <3>1, <3>2, <3>3
  <2>2. CASE s # childProcess
    <3>1. f = server
      BY <1>3, <2>2
    <3> HIDE DEF f
    <3> QED
      BY <1>2, <3>1
  <2> QED
    BY <2>1, <2>2
<1>5. server' = [f EXCEPT ![s].stage = "noticed", ![s].waiters = 0]
  BY <1>1
<1> HIDE DEF f
<1> DEFINE gone == [f[s] EXCEPT !.stage = "noticed", !.waiters = 0]
<1>6. gone \in Server /\ gone.stage = "noticed" /\ gone.waiters = 0
  <2>1. f[s] \in Server
    BY <1>4
  <2> QED
    BY <2>1 DEF Server
<1>7. server' = [f EXCEPT ![s] = gone]
  <2>1. server' = [t \in DOMAIN f |-> IF t = s THEN gone ELSE f[t]]
    BY <1>5, Zenon
  <2> HIDE DEF gone
  <2> QED
    BY <2>1
<1> HIDE DEF gone
<1>8. /\ server' \in Seq(Server) /\ Len(server') = Len(server) /\ DOMAIN server' = DOMAIN server
      /\ server'[s] = gone /\ \A t \in DOMAIN server : t # s => server'[t] = server[t]
  BY <1>2, <1>4, <1>6, <1>7
<1>9. s # childProcess => server[s].waiters = 0
  BY DEF HandlerInv, LostIsSilent
<1>10. /\ s = childProcess => childProcess' = 0
       /\ s # childProcess => childProcess' = childProcess
  BY <1>1, <1>3
<1> QED
  BY <1>6, <1>8, <1>9, <1>10

\* The exit of a process resumes exactly the handlers that waited for it.
LEMMA NoticeExitKeepsHandlerInv ==
    ASSUME HandlerInv, NEW s \in DOMAIN server, NoticeExit(s)
    PROVE  HandlerInv'
<1>1. /\ server' \in Seq(Server) /\ Len(server') = Len(server)
      /\ DOMAIN server' = DOMAIN server
      /\ server'[s].stage = "noticed" /\ server'[s].waiters = 0
      /\ \A t \in DOMAIN server : t # s => server'[t] = server[t]
      /\ s = childProcess => childProcess' = 0
      /\ s # childProcess => childProcess' = childProcess /\ server[s].waiters = 0
  BY NoticeExitFacts
<1>2. /\ runnable = 0 /\ runnable' = server[s].waiters
      /\ edition' = edition /\ pending' = pending
  BY DEF NoticeExit
<1>3. /\ server \in Seq(Server) /\ childProcess \in 0..Len(server) /\ pending \in Nat
      /\ edition \in 1..Len(Sources) /\ s # 0
      /\ childProcess # 0 => childProcess \in DOMAIN server
  BY DEF HandlerInv, Types
<1>4. server[s].waiters \in Nat
  <2>1. server[s] \in Server
    BY <1>3
  <2> QED
    BY <2>1 DEF Server
<1>5. Types'
  BY <1>1, <1>2, <1>3, <1>4 DEF Types
<1>6. HeldIsHeard'
  BY <1>1, <1>3 DEF HandlerInv, HeldIsHeard
<1>7. LostIsSilent'
  <2> SUFFICES ASSUME NEW t \in DOMAIN server, t # childProcess'
               PROVE  server'[t].waiters = 0 /\ (server'[t].base => server'[t].stage = "noticed")
    BY <1>1 DEF LostIsSilent
  <2>1. CASE t = s
    BY <1>1, <2>1
  <2>2. CASE t # s
    <3>1. t # childProcess /\ server'[t] = server[t]
      BY <1>1, <2>2
    <3> QED
      BY <3>1 DEF HandlerInv, LostIsSilent
  <2> QED
    BY <2>1, <2>2
<1>8. DrainedFirst'
  BY <1>1, <1>2, <1>3 DEF DrainedFirst
<1>9. NoHandlerForgotten'
  <2>1. CASE s = childProcess
    BY <1>1, <1>2, <1>3, <1>4, <2>1 DEF HandlerInv, NoHandlerForgotten
  <2>2. CASE s # childProcess
    BY <1>1, <1>2, <1>3, <1>4, <2>2 DEF HandlerInv, NoHandlerForgotten
  <2> QED
    BY <2>1, <2>2
<1> QED
  BY <1>5, <1>6, <1>7, <1>8, <1>9 DEF HandlerInv

\* A step that touches no process and no handler.
LEMMA HandlerInvUnchanged ==
    HandlerInv /\ edition' \in 1..Len(Sources)
               /\ UNCHANGED <<server, childProcess, pending, runnable>> => HandlerInv'
BY DEF HandlerInv, Types, HeldIsHeard, LostIsSilent, DrainedFirst, NoHandlerForgotten

LEMMA HandlerInvStep == HandlerInv /\ [Next]_vars => HandlerInv'
<1> SUFFICES ASSUME HandlerInv, [Next]_vars PROVE HandlerInv'
  OBVIOUS
<1>0. edition \in 1..Len(Sources)
  BY DEF HandlerInv, Types
<1>1. CASE Edit
  <2>1. edition' \in 1..Len(Sources)
    BY <1>0, <1>1, SourcesAssumption DEF Edit
  <2> QED
    BY <1>1, <2>1, HandlerInvUnchanged DEF Edit
<1>2. CASE HandleChange
  BY <1>2, HandleChangeKeepsHandlerInv
<1>3. CASE Resume
  BY <1>3, ResumeKeepsHandlerInv
<1>4. CASE HandleAppDef
  BY <1>0, <1>4, HandlerInvUnchanged DEF HandleAppDef, loop
<1>5. ASSUME NEW s \in DOMAIN server, NoticeExit(s) PROVE HandlerInv'
  BY <1>5, NoticeExitKeepsHandlerInv
<1>6. ASSUME NEW s \in DOMAIN server, ServerSteps(s) \/ Crashes(s) PROVE HandlerInv'
  <2>1. PICK stage \in {"writing", "written", "serving", "exited"} :
          server[s].stage # "noticed" /\ Goes(s, stage)
    BY <1>6 DEF ServerSteps, TruncatesDefinition, WritesDefinition, Listens, Dies, Crashes, Running
  <2> QED
    BY <2>1, GoesKeepsHandlerInv
<1>7. ASSUME NEW r \in DOMAIN runs, GeneratorEnds(r) PROVE HandlerInv'
  BY <1>0, <1>7, HandlerInvUnchanged DEF GeneratorEnds, loop
<1>8. CASE UNCHANGED vars
  BY <1>0, <1>8, HandlerInvUnchanged DEF vars, loop
<1> QED
  BY <1>1, <1>2, <1>3, <1>4, <1>5, <1>6, <1>7, <1>8 DEF Next, EventLoop

\* No watch handler is forgotten: each one under way can resume or listens to
\* the process in childProcess, whose exit is still to be reported
\* (closeChildProcess() and the listeners of spawnProcess() in goServer.ts).
THEOREM NoHandlerForgottenCorrect == Spec => []NoHandlerForgotten
<1>1. HandlerInv => NoHandlerForgotten
  BY DEF HandlerInv
<1> QED
  BY <1>1, HandlerInvInit, HandlerInvStep, PTL DEF Spec
-----------------------------------------------------------------------------
\* A process that ends or goes on starting is held as before.
LEMMA GoesKeepsOrphanInv ==
    ASSUME HandlerInv, OrphanInv, NEW s \in DOMAIN server,
           NEW stage \in {"writing", "written", "serving", "exited"},
           Running(s), Goes(s, stage)
    PROVE  OrphanInv'
<1>1. /\ DOMAIN server' = DOMAIN server
      /\ UNCHANGED <<childProcess, pending, runnable, overlaps>>
      /\ \A t \in DOMAIN server : t # s => server'[t] = server[t]
  BY GoesFacts DEF HandlerInv
<1>2. OneRestart'
  BY <1>1 DEF OrphanInv, OneRestart
<1>3. NoOrphan'
  <2> SUFFICES ASSUME "restarts" \notin overlaps, NEW t \in DOMAIN server, Running(t)'
               PROVE  t = childProcess
    BY <1>1 DEF NoOrphan
  <2>1. Running(t)
    BY <1>1 DEF Running
  <2> QED
    BY <2>1 DEF OrphanInv, NoOrphan
<1> QED
  BY <1>2, <1>3 DEF OrphanInv

\* A handler that begins while none is under way finds what runs in its hands.
LEMMA HandleChangeKeepsOrphanInv == HandlerInv /\ OrphanInv /\ HandleChange => OrphanInv'
<1> SUFFICES ASSUME HandlerInv, OrphanInv, HandleChange, "restarts" \notin overlaps'
             PROVE  OrphanInv'
  BY DEF OrphanInv, OneRestart, NoOrphan
<1>1. /\ pending' = pending + 1 /\ childProcess' = childProcess
      /\ childProcess # 0 => runnable' = 0
      /\ overlaps' = IF pending > 0 THEN overlaps \cup {"restarts"} ELSE overlaps
  BY DEF HandleChange
<1>2. ~(pending > 0) /\ "restarts" \notin overlaps
  BY <1>1
<1>3. /\ server \in Seq(Server) /\ childProcess \in 0..Len(server) /\ pending \in Nat
  BY DEF HandlerInv, Types
<1>4. OneRestart'
  BY <1>1, <1>2, <1>3 DEF OneRestart
<1>5. DOMAIN server' = DOMAIN server /\ \A s \in DOMAIN server : server'[s].stage = server[s].stage
  <2>1. CASE childProcess = 0
    BY <2>1 DEF HandleChange
  <2>2. CASE childProcess # 0
    <3>1. server' = [server EXCEPT ![childProcess].waiters = @ + 1, ![childProcess].killed = TRUE]
      BY <2>2 DEF HandleChange
    <3>2. \A s \in DOMAIN server : server[s] \in Server
      BY <1>3
    <3> QED
      BY <3>1, <3>2 DEF Server
  <2> QED
    BY <2>1, <2>2
<1>6. NoOrphan'
  BY <1>1, <1>2, <1>5 DEF OrphanInv, NoOrphan, Running
<1> QED
  BY <1>4, <1>6 DEF OrphanInv

\* The only handler resumes with nothing running: what it spawns is held.
LEMMA ResumeKeepsOrphanInv == HandlerInv /\ OrphanInv /\ Resume => OrphanInv'
<1> SUFFICES ASSUME HandlerInv, OrphanInv, Resume, "restarts" \notin overlaps'
             PROVE  OrphanInv'
  BY DEF OrphanInv, OneRestart, NoOrphan
<1>1. /\ runnable > 0 /\ runnable' = runnable - 1 /\ pending' = pending - 1
      /\ overlaps' = overlaps /\ Respawn
  BY DEF Resume
<1>2. Types
  BY DEF HandlerInv
<1>3. pending <= 1 /\ childProcess = 0
  BY <1>1 DEF OrphanInv, OneRestart
<1>4. pending = runnable
  BY <1>3 DEF HandlerInv, NoHandlerForgotten, Types
<1>5. OneRestart'
  BY <1>1, <1>2, <1>3, <1>4 DEF OneRestart, Types
<1>6. /\ \A s \in DOMAIN server : server'[s] = Silenced[s]
      /\ \A s \in DOMAIN server' : s \in DOMAIN server \/ s = childProcess'
  BY <1>1, <1>2, RespawnFacts
<1>7. NoOrphan'
  <2> SUFFICES ASSUME NEW s \in DOMAIN server', Running(s)', s # childProcess'
               PROVE  FALSE
    BY DEF NoOrphan
  <2>1. s \in DOMAIN server /\ server'[s] = Silenced[s]
    BY <1>6
  <2>2. server'[s].stage = server[s].stage
    BY <1>2, <2>1, SilencedFacts DEF Types
  <2>3. s = childProcess
    BY <1>1, <2>1, <2>2 DEF OrphanInv, NoOrphan, Running
  <2>4. s # 0
    BY <1>2, <2>1 DEF Types
  <2> QED
    BY <1>3, <2>3, <2>4
<1> QED
  BY <1>5, <1>7 DEF OrphanInv

\* Nothing is left running when the process held has exited.
LEMMA NoticeExitKeepsOrphanInv ==
    ASSUME HandlerInv, OrphanInv, NEW s \in DOMAIN server, NoticeExit(s)
    PROVE  OrphanInv'
<1>1. /\ DOMAIN server' = DOMAIN server
      /\ server'[s].stage = "noticed"
      /\ \A t \in DOMAIN server : t # s => server'[t] = server[t]
      /\ s = childProcess => childProcess' = 0
      /\ s # childProcess => childProcess' = childProcess /\ server[s].waiters = 0
  BY NoticeExitFacts
<1>2. /\ runnable' = server[s].waiters /\ pending' = pending /\ overlaps' = overlaps
  BY DEF NoticeExit
<1>3. OneRestart'
  BY <1>1, <1>2 DEF OrphanInv, OneRestart
<1>4. NoOrphan'
  <2> SUFFICES ASSUME "restarts" \notin overlaps, NEW t \in DOMAIN server, Running(t)'
               PROVE  t = childProcess'
    BY <1>1, <1>2 DEF NoOrphan
  <2>1. t # s /\ Running(t)
    BY <1>1 DEF Running
  <2>2. t = childProcess
    BY <2>1 DEF OrphanInv, NoOrphan
  <2> QED
    BY <1>1, <2>1, <2>2
<1> QED
  BY <1>3, <1>4 DEF OrphanInv

LEMMA OrphanInvStep == HandlerInv /\ OrphanInv /\ [Next]_vars => OrphanInv'
<1> SUFFICES ASSUME HandlerInv, OrphanInv, [Next]_vars PROVE OrphanInv'
  OBVIOUS
<1>0. UNCHANGED <<server, childProcess, pending, runnable>>
        /\ ("restarts" \in overlaps => "restarts" \in overlaps')
        /\ ("restarts" \in overlaps' => "restarts" \in overlaps) => OrphanInv'
  BY DEF OrphanInv, OneRestart, NoOrphan, Running
<1>1. CASE Edit
  BY <1>0, <1>1 DEF Edit
<1>2. CASE HandleChange
  BY <1>2, HandleChangeKeepsOrphanInv
<1>3. CASE Resume
  BY <1>3, ResumeKeepsOrphanInv
<1>4. CASE HandleAppDef
  <2>1. UNCHANGED <<server, childProcess, pending, runnable>>
    BY <1>4 DEF HandleAppDef, loop
  <2>2. overlaps' = overlaps \/ overlaps' = overlaps \cup {"generators"}
    BY <1>4 DEF HandleAppDef
  <2> QED
    BY <1>0, <2>1, <2>2
<1>5. ASSUME NEW s \in DOMAIN server, NoticeExit(s) PROVE OrphanInv'
  BY <1>5, NoticeExitKeepsOrphanInv
<1>6. ASSUME NEW s \in DOMAIN server, ServerSteps(s) \/ Crashes(s) PROVE OrphanInv'
  <2>1. PICK stage \in {"writing", "written", "serving", "exited"} :
          Running(s) /\ Goes(s, stage)
    BY <1>6 DEF ServerSteps, TruncatesDefinition, WritesDefinition, Listens, Dies, Crashes, Running
  <2> QED
    BY <2>1, GoesKeepsOrphanInv
<1>7. ASSUME NEW r \in DOMAIN runs, GeneratorEnds(r) PROVE OrphanInv'
  BY <1>0, <1>7 DEF GeneratorEnds, loop
<1>8. CASE UNCHANGED vars
  BY <1>0, <1>8 DEF vars, loop
<1> QED
  BY <1>1, <1>2, <1>3, <1>4, <1>5, <1>6, <1>7, <1>8 DEF Next, EventLoop

LEMMA OrphanInvInit == Init => OrphanInv
<1> SUFFICES ASSUME Init PROVE OrphanInv
  OBVIOUS
<1>1. pending = 0 /\ runnable = 0
  BY DEF Init
<1>2. server = <<>> \/ (server = <<NewServer>> /\ childProcess = 1)
  BY DEF Init
<1>3. \A s \in DOMAIN server : s = childProcess
  BY <1>2
<1> QED
  BY <1>1, <1>3 DEF OrphanInv, OneRestart, NoOrphan

\* As long as no change is handled during the restart of another one, every
\* server that runs is the one in childProcess: the CLI can stop it.
THEOREM NoOrphanCorrect == Spec => []NoOrphan
<1>1. OrphanInv => NoOrphan
  BY DEF OrphanInv
<1> QED
  BY <1>1, HandlerInvInit, HandlerInvStep, OrphanInvInit, OrphanInvStep, PTL DEF Spec
-----------------------------------------------------------------------------
(* What is left when all is over.  A process told to exit is awaited, so   *)
(* that a change is always followed by a spawn; a server that finds the    *)
(* port taken exits, but then the one that has it goes on.                 *)

ToldIsAwaited ==
    \A s \in DOMAIN server : Running(s) /\ server[s].killed => s = childProcess /\ server[s].waiters > 0

NoChange == changes = 0 /\ pending = 0
HeldIsLatest == NoChange /\ childProcess # 0 => server[childProcess].edition = edition
SomeRuns == NoChange /\ crashes = 0 /\ Compiles => \E s \in DOMAIN server : Running(s)

RestInv == changes \in Nat /\ crashes \in Nat /\ ToldIsAwaited /\ HeldIsLatest /\ SomeRuns

\* A watch handler that begins tells at most the process held to exit, and then
\* listens for it.
LEMMA HandleChangeFacts ==
    ASSUME Types, HandleChange
    PROVE  /\ DOMAIN server' = DOMAIN server
           /\ \A s \in DOMAIN server :
                /\ server'[s].stage = server[s].stage /\ server'[s].edition = server[s].edition
                /\ s # childProcess => server'[s] = server[s]
                /\ s = childProcess => server'[s].waiters > 0
<1>1. server \in Seq(Server) /\ childProcess \in 0..Len(server)
  BY DEF Types
<1>2. CASE childProcess = 0
  <2>1. server' = server
    BY <1>2 DEF HandleChange
  <2>2. 0 \notin DOMAIN server
    BY <1>1
  <2> QED
    BY <1>2, <2>1, <2>2
<1>3. CASE childProcess # 0
  <2> DEFINE more == server[childProcess].waiters + 1
  <2>1. server' = [server EXCEPT ![childProcess].waiters = more, ![childProcess].killed = TRUE]
    BY <1>3 DEF HandleChange
  <2>2. childProcess \in DOMAIN server /\ \A s \in DOMAIN server : server[s] \in Server
    BY <1>1, <1>3
  <2>3. more > 0
    BY <2>2 DEF Server
  <2> HIDE DEF more
  <2>4. server'[childProcess].waiters = more
    BY <2>1, <2>2 DEF Server
  <2> QED
    BY <2>1, <2>2, <2>3, <2>4 DEF Server
<1> QED
  BY <1>2, <1>3

LEMMA GoesKeepsToldIsAwaited ==
    ASSUME Types, ToldIsAwaited, NEW s \in DOMAIN server,
           NEW stage \in {"writing", "written", "serving", "exited"}, Running(s), Goes(s, stage)
    PROVE  ToldIsAwaited' /\ (HeldIsLatest => HeldIsLatest')
<1>1. /\ DOMAIN server' = DOMAIN server /\ childProcess' = childProcess
      /\ \A t \in DOMAIN server : /\ server'[t].waiters = server[t].waiters
                                  /\ server'[t].edition = server[t].edition
                                  /\ server'[t].killed = server[t].killed
      /\ \A t \in DOMAIN server : t # s => server'[t] = server[t]
  BY GoesFacts
<1>2. edition' = edition /\ changes' = changes /\ pending' = pending
  BY DEF Goes, loop
<1>3. \A t \in DOMAIN server : Running(t)' => Running(t)
  BY <1>1 DEF Running
<1>4. ToldIsAwaited'
  BY <1>1, <1>3 DEF ToldIsAwaited
<1>5. HeldIsLatest => HeldIsLatest'
  <2>1. childProcess # 0 => childProcess \in DOMAIN server
    BY DEF Types
  <2> QED
    BY <1>1, <1>2, <2>1 DEF HeldIsLatest, NoChange
<1> QED
  BY <1>4, <1>5

\* While a server runs one still runs after it has listened or exited: the port
\* is taken only by a server that runs.
LEMMA ServerKeepsRestInv ==
    ASSUME HandlerInv, RestInv, NEW s \in DOMAIN server, ServerSteps(s) \/ Crashes(s)
    PROVE  RestInv'
<1>1. Types /\ crashes \in Nat /\ ToldIsAwaited /\ HeldIsLatest /\ SomeRuns
  BY DEF HandlerInv, RestInv
<1>2. PICK stage \in {"writing", "written", "serving", "exited"} : Running(s) /\ Goes(s, stage)
  BY DEF ServerSteps, TruncatesDefinition, WritesDefinition, Listens, Dies, Crashes, Running
<1>3. ToldIsAwaited' /\ HeldIsLatest'
  BY <1>1, <1>2, GoesKeepsToldIsAwaited
<1>4. /\ DOMAIN server' = DOMAIN server
      /\ \A t \in DOMAIN server : t # s => server'[t] = server[t]
      /\ server'[s].stage = stage
  BY <1>1, <1>2, GoesFacts
<1>5. edition' = edition /\ changes' = changes /\ pending' = pending
  BY <1>2 DEF Goes, loop
<1>6. crashes' \in Nat /\ (crashes' = 0 => crashes = 0 /\ ~Crashes(s))
  <2>1. ServerSteps(s) => crashes' = crashes
    BY DEF ServerSteps, TruncatesDefinition, WritesDefinition, Listens, Dies
  <2>2. Crashes(s) => crashes' = crashes + 1
    BY DEF Crashes
  <2> QED
    BY <1>1, <2>1, <2>2
<1>7. SomeRuns'
  <2> SUFFICES ASSUME NoChange, crashes' = 0
               PROVE  \E t \in DOMAIN server : Running(t)'
    BY <1>4, <1>5 DEF SomeRuns, NoChange
  <2>1. ServerSteps(s)
    BY <1>6
  <2>2. CASE stage # "exited"
    BY <1>4, <2>2 DEF Running
  <2>3. CASE Dies(s)
    <3>1. s = childProcess /\ server[s].waiters > 0
      BY <1>1, <2>3 DEF ToldIsAwaited, Dies
    <3>2. pending = runnable + server[s].waiters /\ pending = 0 /\ runnable \in Nat
      BY <1>1, <3>1 DEF HandlerInv, NoHandlerForgotten, NoChange, Types
    <3>3. server[s].waiters \in Nat
      <4>1. server[s] \in Server
        BY <1>1 DEF Types
      <4> QED
        BY <4>1 DEF Server
    <3> QED
      BY <3>1, <3>2, <3>3
  <2>4. CASE stage = "exited" /\ ~Dies(s)
    <3>1. Listens(s)
      <4>1. \/ Listens(s)
            \/ Goes(s, "writing")
            \/ Goes(s, "written")
        BY <2>1, <2>4 DEF ServerSteps, TruncatesDefinition, WritesDefinition
      <4>2. ASSUME NEW other \in {"writing", "written"}, Goes(s, other)
            PROVE  FALSE
        <5>1. server'[s].stage = other
          BY <1>1, <4>2, GoesFacts
        <5> QED
          BY <1>4, <2>4, <5>1
      <4> QED
        BY <4>1, <4>2
    <3>2. PICK t \in DOMAIN server : server[t].stage = "serving"
      <4>1. server[s].stage = "written" /\
              Goes(s, IF \E t \in DOMAIN server : server[t].stage = "serving" THEN "exited" ELSE "serving")
        BY <3>1 DEF Listens
      <4>2. ASSUME Goes(s, "serving")
            PROVE  FALSE
        <5>1. server'[s].stage = "serving"
          BY <1>1, <4>2, GoesFacts
        <5> QED
          BY <1>4, <2>4, <5>1
      <4> QED
        BY <4>1, <4>2
    <3>3. t # s
      BY <3>1, <3>2 DEF Listens
    <3> QED
      BY <1>4, <3>2, <3>3 DEF Running
  <2> QED
    BY <2>2, <2>3, <2>4
<1> QED
  BY <1>1, <1>3, <1>5, <1>6, <1>7 DEF RestInv

LEMMA RestInvStep == HandlerInv /\ RestInv /\ [Next]_vars => RestInv'
<1> SUFFICES ASSUME HandlerInv, RestInv, [Next]_vars PROVE RestInv'
  OBVIOUS
<1>1. Types /\ Types' /\ pending \in Nat /\ changes \in Nat /\ crashes \in Nat
  BY HandlerInvStep DEF HandlerInv, Types, RestInv
<1>2. ToldIsAwaited /\ HeldIsLatest /\ SomeRuns
  BY DEF RestInv
<1>3. childProcess # 0 => childProcess \in DOMAIN server
  BY <1>1 DEF Types
<1>4. UNCHANGED <<edition, changes, pending, server, childProcess, crashes>> => RestInv'
  BY <1>1, <1>2 DEF RestInv, ToldIsAwaited, HeldIsLatest, SomeRuns, NoChange, Running, Compiles
<1>5. CASE Edit
  <2>1. changes' = changes + 1 /\ UNCHANGED <<server, childProcess, crashes>>
    BY <1>5 DEF Edit
  <2>2. ToldIsAwaited'
    BY <1>2, <2>1 DEF ToldIsAwaited, Running
  <2>3. ~NoChange' /\ changes' \in Nat
    BY <1>1, <2>1 DEF NoChange
  <2> QED
    BY <1>1, <2>1, <2>2, <2>3 DEF RestInv, HeldIsLatest, SomeRuns
<1>6. CASE HandleChange
  <2>1. /\ changes' = changes - 1 /\ changes > 0 /\ pending' = pending + 1
        /\ UNCHANGED <<childProcess, crashes>>
    BY <1>6 DEF HandleChange
  <2>2. ToldIsAwaited'
    BY <1>1, <1>2, <1>6, <2>1, HandleChangeFacts DEF ToldIsAwaited, Running
  <2>3. ~NoChange' /\ changes' \in Nat
    BY <1>1, <2>1 DEF NoChange
  <2> QED
    BY <1>1, <2>1, <2>2, <2>3 DEF RestInv, HeldIsLatest, SomeRuns
<1>7. CASE Resume
  <2>1. Respawn /\ UNCHANGED <<edition, changes, crashes>> /\ runnable > 0
    BY <1>7 DEF Resume
  <2>2. /\ \A s \in DOMAIN server : server'[s] = Silenced[s]
        /\ \A s \in DOMAIN server' : s \in DOMAIN server \/ s = childProcess'
        /\ childProcess' # 0 =>
             /\ server'[childProcess'].stage = "started"
             /\ server'[childProcess'].edition = edition /\ ~server'[childProcess'].killed
        /\ Compiles => childProcess' # 0
    BY <1>1, <2>1, RespawnFacts
  <2>3. childProcess' # 0 => childProcess' \in DOMAIN server'
    BY <1>1 DEF Types
  <2>4. \A s \in DOMAIN server : ~(Running(s) /\ server[s].killed)
    <3> SUFFICES ASSUME NEW s \in DOMAIN server, Running(s), server[s].killed
                 PROVE  FALSE
      OBVIOUS
    <3>1. s = childProcess /\ server[s].waiters > 0 /\ s # 0
      BY <1>1, <1>2 DEF ToldIsAwaited, Types
    <3> QED
      BY <2>1, <3>1 DEF HandlerInv, DrainedFirst
  <2>5. \A s \in DOMAIN server : server'[s].stage = server[s].stage /\ server'[s].killed = server[s].killed
    BY <1>1, <2>2, SilencedFacts DEF Types
  <2>6. ToldIsAwaited'
    <3> SUFFICES ASSUME NEW s \in DOMAIN server', Running(s)', server'[s].killed
                 PROVE  FALSE
      BY DEF ToldIsAwaited
    <3>1. CASE s \in DOMAIN server
      BY <2>4, <2>5, <3>1 DEF Running
    <3>2. CASE s \notin DOMAIN server
      <4>1. s = childProcess' /\ s # 0
        BY <1>1, <2>2, <3>2 DEF Types
      <4> QED
        BY <2>2, <4>1
    <3> QED
      BY <3>1, <3>2
  <2>7. HeldIsLatest'
    BY <2>1, <2>2 DEF HeldIsLatest
  <2>8. SomeRuns'
    BY <2>1, <2>2, <2>3 DEF SomeRuns, Compiles, Running
  <2> QED
    BY <1>1, <2>1, <2>6, <2>7, <2>8 DEF RestInv
<1>8. CASE HandleAppDef
  BY <1>4, <1>8 DEF HandleAppDef, loop
<1>9. ASSUME NEW s \in DOMAIN server, NoticeExit(s)
      PROVE  RestInv'
  <2>1. /\ DOMAIN server' = DOMAIN server /\ server'[s].stage = "noticed"
        /\ \A t \in DOMAIN server : t # s => server'[t] = server[t]
        /\ s = childProcess => childProcess' = 0
        /\ s # childProcess => childProcess' = childProcess
    BY <1>9, NoticeExitFacts
  <2>2. UNCHANGED <<edition, changes, pending, crashes>> /\ server[s].stage = "exited"
    BY <1>9 DEF NoticeExit
  <2>3. \A t \in DOMAIN server : Running(t)' <=> Running(t)
    BY <2>1, <2>2 DEF Running
  <2>4. ToldIsAwaited'
    BY <1>2, <2>1, <2>3 DEF ToldIsAwaited, Running
  <2>5. HeldIsLatest'
    BY <1>2, <1>3, <2>1, <2>2 DEF HeldIsLatest, NoChange
  <2>6. SomeRuns'
    BY <1>2, <2>1, <2>2, <2>3 DEF SomeRuns, NoChange, Compiles
  <2> QED
    BY <1>1, <2>2, <2>4, <2>5, <2>6 DEF RestInv
<1>10. ASSUME NEW s \in DOMAIN server, ServerSteps(s) \/ Crashes(s)
       PROVE  RestInv'
  BY <1>10, ServerKeepsRestInv
<1>11. ASSUME NEW r \in DOMAIN runs, GeneratorEnds(r)
       PROVE  RestInv'
  BY <1>4, <1>11 DEF GeneratorEnds, loop
<1>12. CASE UNCHANGED vars
  BY <1>4, <1>12 DEF vars, loop
<1> QED
  BY <1>5, <1>6, <1>7, <1>8, <1>9, <1>10, <1>11, <1>12 DEF Next, EventLoop
-----------------------------------------------------------------------------
(* The definition file and the client, while restarts do not overlap: only *)
(* the server that runs writes the file, and its watcher hands on what it  *)
(* finds there.                                                            *)

FileOfHeld ==
    "restarts" \notin overlaps =>
      \A s \in DOMAIN server :
        server[s].stage \in {"written", "serving"} => defFile = Sources[server[s].edition]

FileSeen == ~defEvent => defFile \in {"", "absent", defFileCache}

ClientOfCache ==
    "generators" \notin overlaps =>
      /\ runs = <<>> => client = defFileCache \/ defFileCache = ""
      /\ runs # <<>> => runs = <<defFileCache>>

FileInv == FileOfHeld /\ FileSeen /\ ClientOfCache

\* The server that writes the file is the only one that runs.
LEMMA ServerKeepsFileOfHeld ==
    ASSUME HandlerInv, OrphanInv, FileOfHeld, NEW s \in DOMAIN server, ServerSteps(s) \/ Crashes(s)
    PROVE  FileOfHeld'
<1>1. Types
  BY DEF HandlerInv
<1>2. PICK stage \in {"writing", "written", "serving", "exited"} : Running(s) /\ Goes(s, stage)
  BY DEF ServerSteps, TruncatesDefinition, WritesDefinition, Listens, Dies, Crashes, Running
<1>3. /\ DOMAIN server' = DOMAIN server
      /\ \A t \in DOMAIN server : t # s => server'[t] = server[t]
      /\ server'[s].stage = stage /\ server'[s].edition = server[s].edition /\ overlaps' = overlaps
  BY <1>1, <1>2, GoesFacts
<1> SUFFICES ASSUME "restarts" \notin overlaps, NEW t \in DOMAIN server,
                    server'[t].stage \in {"written", "serving"}
             PROVE  defFile' = Sources[server'[t].edition]
  BY <1>3 DEF FileOfHeld
<1>4. t = s
  <2> SUFFICES ASSUME t # s
               PROVE  FALSE
    OBVIOUS
  <2>1. Running(t)
    BY <1>3 DEF Running
  <2> QED
    BY <1>2, <2>1 DEF OrphanInv, NoOrphan
<1>5. \A other \in {"writing", "written", "serving", "exited"} : Goes(s, other) => stage = other
  BY <1>1, <1>3, GoesFacts
<1>6. WritesDefinition(s) \/ (Listens(s) /\ defFile' = defFile)
  <2>1. ~TruncatesDefinition(s) /\ ~Dies(s) /\ ~Crashes(s)
    BY <1>3, <1>4, <1>5 DEF TruncatesDefinition, Dies, Crashes
  <2> QED
    BY <2>1 DEF ServerSteps, Listens
<1>7. CASE WritesDefinition(s)
  BY <1>3, <1>4, <1>7 DEF WritesDefinition
<1>8. CASE Listens(s) /\ defFile' = defFile
  BY <1>3, <1>4, <1>8 DEF Listens, FileOfHeld
<1> QED
  BY <1>6, <1>7, <1>8

\* The one run of the generators ends.
LEMMA LastRunEnds ==
    ASSUME NEW v, NEW r \in DOMAIN <<v>>
    PROVE  r = 1 /\ <<v>>[r] = v /\ RemoveAt(<<v>>, r) = <<>>
<1>1. r = 1 /\ <<v>>[r] = v
  OBVIOUS
<1>2. SubSeq(<<v>>, 1, 0) = <<>> /\ SubSeq(<<v>>, 2, 1) = <<>>
  OBVIOUS
<1>3. Len(<<v>>) = 1 /\ r - 1 = 0 /\ r + 1 = 2
  BY <1>1
<1>4. <<>> \o <<>> = <<>>
  OBVIOUS
<1> QED
  BY <1>1, <1>2, <1>3, <1>4 DEF RemoveAt

LEMMA FileInvStep == HandlerInv /\ OrphanInv /\ FileInv /\ [Next]_vars => FileInv'
<1> SUFFICES ASSUME HandlerInv, OrphanInv, FileInv, [Next]_vars PROVE FileInv'
  OBVIOUS
<1>1. Types /\ FileOfHeld /\ FileSeen /\ ClientOfCache
  BY DEF HandlerInv, FileInv
<1>2. UNCHANGED <<defFile, defEvent, defFileCache>> => FileSeen'
  <2> SUFFICES ASSUME defFile' = defFile, defEvent' = defEvent, defFileCache' = defFileCache, ~defEvent'
               PROVE  defFile' \in {"", "absent", defFileCache'}
    BY DEF FileSeen
  <2>1. ~defEvent
    BY Zenon
  <2> QED
    BY <1>1, <2>1 DEF FileSeen
<1>3. UNCHANGED codegen /\ ("generators" \in overlaps => "generators" \in overlaps') => ClientOfCache'
  BY <1>1 DEF ClientOfCache, codegen
<1>4. UNCHANGED <<server, defFile>> /\ ("restarts" \in overlaps => "restarts" \in overlaps') => FileOfHeld'
  BY <1>1 DEF FileOfHeld
<1>5. CASE Edit
  BY <1>2, <1>3, <1>4, <1>5 DEF Edit, codegen, FileInv
<1>6. CASE HandleChange
  <2>1. /\ UNCHANGED <<defFile, defEvent>> /\ UNCHANGED codegen
        /\ overlaps' = IF pending > 0 THEN overlaps \cup {"restarts"} ELSE overlaps
    BY <1>6 DEF HandleChange
  <2>2. FileOfHeld'
    BY <1>1, <1>6, <2>1, HandleChangeFacts DEF FileOfHeld
  <2> QED
    BY <1>2, <1>3, <2>1, <2>2 DEF FileInv, codegen
<1>7. CASE Resume
  <2>1. Respawn /\ UNCHANGED <<defFile, defEvent, overlaps>> /\ UNCHANGED codegen
    BY <1>7 DEF Resume
  <2>2. /\ \A s \in DOMAIN server : server'[s] = Silenced[s]
        /\ \A s \in DOMAIN server' : s \in DOMAIN server \/ (s = childProcess' /\ server'[s].stage = "started")
    <3>1. /\ \A s \in DOMAIN server : server'[s] = Silenced[s]
          /\ \A s \in DOMAIN server' : s \in DOMAIN server \/ s = childProcess'
          /\ childProcess' # 0 => server'[childProcess'].stage = "started"
      BY <1>1, <2>1, RespawnFacts
    <3>2. 0 \notin DOMAIN server'
      BY HandlerInvStep DEF HandlerInv, Types
    <3> QED
      BY <3>1, <3>2
  <2>3. \A s \in DOMAIN server : /\ server'[s].stage = server[s].stage
                                 /\ server'[s].edition = server[s].edition
    BY <1>1, <2>2, SilencedFacts DEF Types
  <2>4. FileOfHeld'
    BY <1>1, <2>1, <2>2, <2>3 DEF FileOfHeld
  <2> QED
    BY <1>2, <1>3, <2>1, <2>4 DEF FileInv, codegen
<1>8. CASE HandleAppDef
  <2>1. UNCHANGED <<server, defFile, client>> /\ ~defEvent'
    BY <1>8 DEF HandleAppDef
  <2>2. CASE defFile \in {"", "absent", defFileCache}
    <3>1. UNCHANGED <<defFileCache, runs, overlaps>>
      BY <1>8, <2>2 DEF HandleAppDef
    <3>2. FileSeen'
      BY <2>1, <2>2, <3>1 DEF FileSeen
    <3> QED
      BY <1>3, <1>4, <2>1, <3>1, <3>2 DEF FileInv, codegen
  <2>3. CASE defFile \notin {"", "absent", defFileCache}
    <3>1. /\ defFileCache' = defFile /\ runs' = Append(runs, defFile)
          /\ overlaps' = IF runs # <<>> THEN overlaps \cup {"generators"} ELSE overlaps
      BY <1>8, <2>3 DEF HandleAppDef
    <3>2. FileSeen'
      BY <2>1, <3>1 DEF FileSeen
    <3>3. FileOfHeld'
      BY <1>4, <2>1, <3>1
    <3>4. ClientOfCache'
      <4>1. CASE runs = <<>>
        BY <3>1, <4>1 DEF ClientOfCache
      <4>2. CASE runs # <<>>
        BY <3>1, <4>2 DEF ClientOfCache
      <4> QED
        BY <4>1, <4>2
    <3> QED
      BY <3>2, <3>3, <3>4 DEF FileInv
  <2> QED
    BY <2>2, <2>3
<1>9. ASSUME NEW s \in DOMAIN server, NoticeExit(s)
      PROVE  FileInv'
  <2>1. UNCHANGED <<defFile, defEvent, overlaps>> /\ UNCHANGED codegen
    BY <1>9 DEF NoticeExit
  <2>2. FileOfHeld'
    BY <1>1, <1>9, <2>1, NoticeExitFacts DEF FileOfHeld
  <2> QED
    BY <1>2, <1>3, <2>1, <2>2 DEF FileInv, codegen
<1>10. ASSUME NEW s \in DOMAIN server, ServerSteps(s) \/ Crashes(s)
       PROVE  FileInv'
  <2>1. UNCHANGED overlaps /\ UNCHANGED codegen
    BY <1>10 DEF ServerSteps, TruncatesDefinition, WritesDefinition, Listens, Dies, Crashes, Goes
  <2>2. defEvent' = TRUE \/ UNCHANGED <<defFile, defEvent>>
    BY <1>10 DEF ServerSteps, TruncatesDefinition, WritesDefinition, Listens, Dies, Crashes
  <2>3. FileSeen'
    BY <1>1, <2>1, <2>2 DEF FileSeen, codegen
  <2>4. FileOfHeld'
    BY <1>1, <1>10, ServerKeepsFileOfHeld
  <2> QED
    BY <1>3, <2>1, <2>3, <2>4 DEF FileInv
<1>11. ASSUME NEW r \in DOMAIN runs, GeneratorEnds(r)
       PROVE  FileInv'
  <2>1. /\ client' = runs[r] /\ runs' = RemoveAt(runs, r)
        /\ UNCHANGED <<server, defFile, defEvent, defFileCache, overlaps>>
    BY <1>11 DEF GeneratorEnds
  <2>2. ClientOfCache'
    <3> SUFFICES ASSUME "generators" \notin overlaps
                 PROVE  runs' = <<>> /\ client' = defFileCache
      BY <2>1 DEF ClientOfCache
    <3>1. runs # <<>>
      BY <1>11
    <3>2. runs = <<defFileCache>>
      BY <1>1, <3>1 DEF ClientOfCache
    <3> QED
      BY <1>11, <2>1, <3>2, LastRunEnds
  <2> QED
    BY <1>2, <1>4, <2>1, <2>2 DEF FileInv
<1>12. CASE UNCHANGED vars
  BY <1>2, <1>3, <1>4, <1>12 DEF vars, codegen, FileInv
<1> QED
  BY <1>5, <1>6, <1>7, <1>8, <1>9, <1>10, <1>11, <1>12 DEF Next, EventLoop

LEMMA RestInit == Init => RestInv /\ FileInv
<1> SUFFICES ASSUME Init PROVE RestInv /\ FileInv
  OBVIOUS
<1>1. edition = 1 /\ changes = 0 /\ crashes = 0 /\ defFileCache = "" /\ runs = <<>> /\ defEvent = (defFile # "absent")
  BY DEF Init
<1>2. \/ Sources[1] = Broken /\ server = <<>> /\ childProcess = 0
      \/ Sources[1] # Broken /\ server = <<NewServer>> /\ childProcess = 1
  BY DEF Init
<1>3. \A s \in DOMAIN server : /\ s = 1 /\ childProcess = 1 /\ server[s].stage = "started"
                               /\ ~server[s].killed /\ server[s].edition = 1
  <2>1. /\ NewServer.stage = "started" /\ ~NewServer.killed /\ NewServer.edition = 1
    BY <1>1 DEF NewServer
  <2> QED
    BY <1>2, <2>1
<1>4. Sources[1] # Broken => 1 \in DOMAIN server
  BY <1>2
<1>5. RestInv
  <2>1. childProcess # 0 => childProcess \in DOMAIN server
    BY <1>2
  <2>2. ToldIsAwaited
    BY <1>3 DEF ToldIsAwaited
  <2>3. HeldIsLatest
    BY <1>1, <1>3, <2>1 DEF HeldIsLatest
  <2>4. SomeRuns
    BY <1>1, <1>3, <1>4 DEF SomeRuns, Compiles, Running
  <2> QED
    BY <1>1, <2>2, <2>3, <2>4 DEF RestInv
<1>6. FileInv
  BY <1>1, <1>3 DEF FileInv, FileOfHeld, FileSeen, ClientOfCache
<1> QED
  BY <1>5, <1>6

\* At rest, unless a server crashed, some server answers: an old one only if the
\* CLI lost hold of it in overlapping restarts.  Without those it is of the
\* latest sources, its definition is on disk, and the generated client is made
\* from it unless two runs of the generators overlapped (devFn in goServer.ts).
THEOREM FreshAtRestCorrect == Spec => []FreshAtRest
<1>1. HandlerInv /\ NoOrphan /\ RestInv /\ FileInv => FreshAtRest
  <2> SUFFICES ASSUME HandlerInv, NoOrphan, RestInv, FileInv, AtRest, crashes = 0, Compiles
               PROVE  /\ \E s \in DOMAIN server : /\ server[s].stage = "serving"
                                                  /\ (server[s].edition = edition \/ s # childProcess)
                      /\ "restarts" \notin overlaps =>
                           /\ ServesLatest
                           /\ defFile = Sources[edition]
                           /\ ("generators" \notin overlaps => client = defFile)
    BY DEF FreshAtRest
  <2>1. NoChange /\ HeldIsLatest
    BY DEF AtRest, NoChange, RestInv
  <2>2. PICK s \in DOMAIN server : Running(s)
    BY <2>1 DEF RestInv, SomeRuns
  <2>3. server[s].stage = "serving" /\ s # 0
    BY <2>2 DEF AtRest, Settled, Running, HandlerInv, Types
  <2>4. s = childProcess => server[s].edition = edition
    BY <2>1, <2>3 DEF HeldIsLatest
  <2>5. ASSUME "restarts" \notin overlaps
        PROVE  /\ ServesLatest /\ defFile = Sources[edition]
               /\ ("generators" \notin overlaps => client = defFile)
    <3>1. server[s].edition = edition
      BY <2>2, <2>4, <2>5 DEF NoOrphan
    <3>2. ServesLatest
      BY <2>3, <3>1 DEF ServesLatest
    <3>3. defFile = Sources[edition]
      BY <2>3, <2>5, <3>1 DEF FileInv, FileOfHeld
    <3>4. defFile \in Definition
      <4>1. edition \in 1..Len(Sources)
        BY DEF HandlerInv, Types
      <4>2. Sources[edition] \in Definition \cup {Broken}
        BY <4>1, SourcesAssumption
      <4> QED
        BY <3>3, <4>2 DEF Compiles
    <3>5. defFile \notin {"", "absent"}
      BY <3>4, FileAssumption
    <3>6. defFile = defFileCache /\ runs = <<>>
      BY <3>5 DEF AtRest, FileInv, FileSeen
    <3>7. "generators" \notin overlaps => client = defFile
      BY <3>5, <3>6 DEF FileInv, ClientOfCache
    <3> QED
      BY <3>2, <3>3, <3>7
  <2> QED
    BY <2>3, <2>4, <2>5
<1> QED
  BY <1>1, RestInit, HandlerInvInit, HandlerInvStep, OrphanInvInit, OrphanInvStep, RestInvStep, FileInvStep,
     PTL DEF Spec, OrphanInv
=============================================================================
