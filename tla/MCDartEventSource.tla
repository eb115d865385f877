-------------------------- MODULE MCDartEventSource --------------------------
(***************************************************************************)
(* Small instances of DartEventSource for TLC.                             *)
(***************************************************************************)
EXTENDS DartEventSource

CONSTANTS i1, i2

M(id) == [kind |-> "message", id |-> id]
Raw == [kind |-> "raw", id |-> NoId]
Done == [kind |-> "done", id |-> NoId]

\* What an arri server writes: messages with and without an id, a chunk with
\* two messages, the closing event, and a heartbeat that follows it (the Go
\* server's ticker runs until the handler's context is cancelled).
MCChunks == {<<M(i1)>>, <<M(i2), M(NoId)>>, <<Raw>>, <<M(i2), Done>>, <<Done, Raw>>}

\* The same without ids, for the runs that do not look at them.
MCPlainChunks == {<<M(NoId)>>, <<Raw>>, <<M(NoId), Done>>, <<Done, Raw>>}

MCBoolean == BOOLEAN
MCNoIds == {}
=============================================================================
