---------------------------- MODULE MCTsDevServer ----------------------------
(***************************************************************************)
(* Four saves: one that adds a procedure file and one that registers it,   *)
(* one that does not compile, and one that removes the file again.         *)
(***************************************************************************)
EXTENDS TsDevServer

Saved(procs, shape, compiles, event) ==
    [files |-> procs, shape |-> shape, compiles |-> compiles, event |-> event]
MCSources == << Saved({"a"}, "one", TRUE, "change"),
                Saved({"a", "b"}, "one", TRUE, "add"),
                Saved({"a", "b"}, "one", TRUE, "change"),
                Saved({"a", "b"}, "two", FALSE, "change"),
                Saved({"a"}, "one", TRUE, "unlink") >>
=============================================================================
