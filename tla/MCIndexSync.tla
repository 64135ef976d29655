---------------------------- MODULE MCIndexSync ----------------------------
(***************************************************************************)
(* Constants of IndexSync for TLC.                                         *)
(***************************************************************************)
EXTENDS IndexSync

\* Two projects.
Projects == {"flask", "numpy"}
Same     == [p \in Projects |-> p]

\* One project, under two spellings of its name.
Spellings == {"foo_bar", "foo-bar"}
Dashed    == [p \in Spellings |-> "foo-bar"]
Verbatim  == [p \in Spellings |-> p]
=============================================================================
