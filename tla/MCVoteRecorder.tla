--------------------------- MODULE MCVoteRecorder ---------------------------
(***************************************************************************)
(* Constants of VoteRecorder for TLC.                                      *)
(***************************************************************************)
EXTENDS VoteRecorder

\* Two clients of one network, and one whose address is not known.
TheClients == {"c1", "c2", "nobody"}
OneNet     == [c \in TheClients |-> IF c = "nobody" THEN "none" ELSE "net"]
=============================================================================
