--------------------------- MODULE MCTsEventStream ---------------------------
(***************************************************************************)
(* Small instances of TsEventStream for TLC.                               *)
(***************************************************************************)
EXTENDS TsEventStream

CONSTANTS good, other, bad

MCItem == {good, other, bad}
MCValid == {good, other}
MCBatch == {<<good>>, <<bad>>, <<good, bad, other>>}
=============================================================================
