----------------------------- MODULE MCSyncEngine -----------------------------
(* Instances of SyncEngine for TLC.                                         *)
EXTENDS SyncEngine, TLC

CONSTANTS a, b, p1, p2, loop, kick

NoHidden == {}

\* The environments of the runs.  Unless "race" is among them, the two sides
\* change only between passes.
Everything      == EnvKinds
OneAtATime      == EnvKinds \ {"race", "walk", "head"}
SoleWriter      == EnvKinds \ {"remote", "foreign", "store", "crash"}
NothingSkipped  == EnvKinds \ {"foreign", "walk", "head"}
Edits           == {"edit"}

\* Contents are interchangeable, and so are paths none of which is hidden.
Symmetry == Permutations(Contents) \cup Permutations(Paths)
===============================================================================
