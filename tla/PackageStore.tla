---------------------------- MODULE PackageStore ----------------------------
(***************************************************************************)
(* What the cache promises to those who read it: a package is in a         *)
(* directory or it is not, never in part, and it leaves the cache only     *)
(* when the sync process decided that it should.                           *)
(*                                                                         *)
(* CacheManager implements this specification; PackageServing reads a      *)
(* store that behaves so while it looks for a file.                        *)
(***************************************************************************)
CONSTANTS
  Files,      \* package paths
  Dirs        \* directories of the cache

VARIABLES
  where,      \* [Files -> SUBSET Dirs]: the directories with a copy of the file
  doomed      \* the files the current plan has no room for

store == <<where, doomed>>

Init == where \in [Files -> SUBSET Dirs] /\ doomed = {}

\* The sync process makes up its mind, or forgets what it had decided.
Plan == doomed' \in SUBSET Files /\ UNCHANGED where

\* A whole copy appears: a download, or a copy of what is in another directory.
Place(f, d) ==
  /\ where' = [where EXCEPT ![f] = @ \cup {d}]
  /\ UNCHANGED doomed

\* A copy changes directory in one step.
Move(f, s, d) ==
  /\ s \in where[f]
  /\ where' = [where EXCEPT ![f] = (@ \ {s}) \cup {d}]
  /\ UNCHANGED doomed

\* One of several copies goes.
Drop(f, s) ==
  /\ s \in where[f] /\ where[f] # {s}
  /\ where' = [where EXCEPT ![f] = @ \ {s}]
  /\ UNCHANGED doomed

\* A copy of a file without a tier goes, be it the only one.
Evict(f, s) ==
  /\ s \in where[f] /\ f \in doomed
  /\ where' = [where EXCEPT ![f] = @ \ {s}]
  /\ UNCHANGED doomed

Next ==
  \/ Plan
  \/ \E f \in Files, d \in Dirs :
       \/ Place(f, d) \/ Drop(f, d) \/ Evict(f, d)
       \/ \E s \in Dirs : Move(f, s, d)

Spec == Init /\ [][Next]_store
-----------------------------------------------------------------------------
TypeOK == where \in [Files -> SUBSET Dirs] /\ doomed \subseteq Files
=============================================================================
