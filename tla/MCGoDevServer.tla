--------------------------- MODULE MCGoDevServer ---------------------------
(***************************************************************************)
(* Small instances of GoDevServer for TLC.  Definitions are model values,  *)
(* strings here because the file may also be "" or "absent".               *)
(***************************************************************************)
EXTENDS GoDevServer

MCDefinition == {"one", "two"}

\* An edit that changes the definition, one that does not compile, one that
\* takes the first back.
MCSources == <<"one", "two", "broken", "one">>

=============================================================================
