------------------------------- MODULE MCGoSse -------------------------------
(***************************************************************************)
(* Small instances of GoSse for TLC.                                       *)
(***************************************************************************)
EXTENDS GoSse

CONSTANTS m1, m2, m3

MCMessage == {m1, m2, m3}
MCOneMessage == {m1}
MCUnencodable == {m3}
MCFrames == Frame \cup {"stale"}

MCEndings == {"done", "error"}
MCBoolean == BOOLEAN
MCNever == {}
=============================================================================
