-------------------------- MODULE MCFolioAllocator --------------------------
(* Four CAFs: one stored before the columns existed and about to expire,   *)
(* one of each environment after it, with a gap between them, one with the *)
(* range of the certification CAF in the other environment, and a second   *)
(* download of the production CAF, for the run where uploads race.         *)
EXTENDS FolioAllocator, TLC

CONSTANTS r1, r2, r3, old, cert, prod, clash, twin

Files ==
  (old :> [from |-> 1, to |-> 2, env |-> Unmarked, expires |-> 0]) @@
  (cert :> [from |-> 3, to |-> 4, env |-> "certification", expires |-> 1]) @@
  (prod :> [from |-> 6, to |-> 7, env |-> "production", expires |-> 1]) @@
  (clash :> [from |-> 3, to |-> 4, env |-> "production", expires |-> 1]) @@
  (twin :> [from |-> 6, to |-> 7, env |-> "production", expires |-> 1])

MCFrom == [c \in Caf |-> Files[c].from]
MCTo == [c \in Caf |-> Files[c].to]
MCEnv == [c \in Caf |-> Files[c].env]
MCExpires == [c \in Caf |-> Files[c].expires]
=============================================================================
