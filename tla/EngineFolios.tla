----------------------------- MODULE EngineFolios ---------------------------
(***************************************************************************)
(* The folio manager of the engine (folios.py), for use without the        *)
(* service's database. Processes share a JSON registry of the last folio   *)
(* given; each has its own list of CAFs of the type and its own copy of    *)
(* the registry, which next_folio reads again under a file lock. A CAF is  *)
(* <<from, to>>. The system releases the lock of a process that dies.      *)
(***************************************************************************)
EXTENDS Integers, FiniteSets

CONSTANTS
  Process,     \* processes of the engine
  CafFile,     \* the ranges that may be loaded
  MaxCrashes   \* bound on the crashes

NONE == 0
FREE == "free"

ASSUME ProcessAssumption == FREE \notin Process
ASSUME CafFileAssumption ==
  /\ CafFile \subseteq (Nat \ {0}) \X Nat
  /\ \A c \in CafFile : c[1] <= c[2]
ASSUME CrashesAssumption == MaxCrashes \in Nat

VARIABLES
  registry,    \* the file: last folio given, or NONE
  owner,       \* the process that holds the file lock, or FREE
  loaded,      \* loaded[p]: the CAFs p has registered
  memory,      \* memory[p]: p's copy of the registry
  target,      \* target[p]: the folio p is about to store, or NONE
  failed,      \* failed[p]: the last save of p failed
  given,       \* what next_folio has returned: set of [by, folio, serial]
  crashes      \* crashes so far

vars == <<registry, owner, loaded, memory, target, failed, given, crashes>>

Init ==
  /\ registry = NONE
  /\ owner = FREE
  /\ loaded = [p \in Process |-> {}]
  /\ memory = [p \in Process |-> NONE]
  /\ target = [p \in Process |-> NONE]
  /\ failed = [p \in Process |-> FALSE]
  /\ given = {}
  /\ crashes = 0

Overlap(a, b) == a[1] <= b[2] /\ b[1] <= a[2]

(* register_caf: the same range is ignored, one that overlaps is refused.  *)
RegisterCaf(p, caf) ==
  /\ target[p] = NONE /\ owner # p
  /\ \A c \in loaded[p] : ~Overlap(c, caf)
  /\ loaded' = [loaded EXCEPT ![p] = @ \cup {caf}]
  /\ UNCHANGED <<registry, owner, memory, target, failed, given, crashes>>

First(cafs) == CHOOSE c \in cafs : \A d \in cafs : c[1] <= d[1]

(* _target: the first folio that may be given.                             *)
Target(cafs, last) == IF last = NONE THEN First(cafs)[1] ELSE last + 1

(* Seeded fault: the state in memory is used as it is.                     *)
Lock_Stale(p) ==
  /\ owner = FREE /\ target[p] = NONE /\ loaded[p] # {}
  /\ owner' = p
  /\ UNCHANGED <<memory, registry, loaded, target, failed, given, crashes>>

(* next_folio, under the lock: the state is read again from the file.      *)
Lock(p) ==
  /\ owner = FREE /\ target[p] = NONE /\ loaded[p] # {}
  /\ owner' = p
  /\ memory' = [memory EXCEPT ![p] = registry]
  /\ failed' = [failed EXCEPT ![p] = FALSE]
  /\ UNCHANGED <<registry, loaded, target, given, crashes>>

Candidates(p) == {c \in loaded[p] : c[2] >= Target(loaded[p], memory[p])}

(* It takes the lowest CAF with folios left, over the gaps between ranges. *)
Choose(p) ==
  /\ owner = p /\ target[p] = NONE /\ Candidates(p) # {}
  /\ LET caf == First(Candidates(p))
         next == Target(loaded[p], memory[p])
     IN  target' = [target EXCEPT ![p] = IF next > caf[1] THEN next ELSE caf[1]]
  /\ memory' = [memory EXCEPT ![p] = target'[p]]
  /\ UNCHANGED <<registry, owner, loaded, failed, given, crashes>>

Exhausted(p) ==
  /\ owner = p /\ target[p] = NONE /\ Candidates(p) = {}
  /\ owner' = FREE
  /\ UNCHANGED <<registry, loaded, memory, target, failed, given, crashes>>

(* _save_state: a temporary file replaces the registry at once.            *)
Save(p) ==
  /\ owner = p /\ target[p] # NONE
  /\ registry' = memory[p]
  /\ owner' = FREE
  /\ UNCHANGED <<loaded, memory, target, failed, given, crashes>>

(* It cannot be written: the caller gets an error, and the copy is ahead.   *)
SaveFails(p) ==
  /\ owner = p /\ target[p] # NONE
  /\ owner' = FREE
  /\ target' = [target EXCEPT ![p] = NONE]
  /\ failed' = [failed EXCEPT ![p] = TRUE]
  /\ UNCHANGED <<registry, loaded, memory, given, crashes>>

Return(p) ==
  /\ owner # p /\ target[p] # NONE
  /\ given' = given \cup {[by |-> p, folio |-> target[p], serial |-> Cardinality(given)]}
  /\ target' = [target EXCEPT ![p] = NONE]
  /\ UNCHANGED <<registry, owner, loaded, memory, failed, crashes>>

(* A process dies and starts again: it reads the registry, without CAFs.   *)
Restart(p) ==
  /\ crashes < MaxCrashes
  /\ crashes' = crashes + 1
  /\ owner' = IF owner = p THEN FREE ELSE owner
  /\ loaded' = [loaded EXCEPT ![p] = {}]
  /\ memory' = [memory EXCEPT ![p] = registry]
  /\ failed' = [failed EXCEPT ![p] = FALSE]
  /\ target' = [target EXCEPT ![p] = NONE]
  /\ UNCHANGED <<registry, given>>

Next ==
  \E p \in Process :
    \/ \E caf \in CafFile : RegisterCaf(p, caf)
    \/ Lock(p) \/ Choose(p) \/ Exhausted(p) \/ Save(p) \/ SaveFails(p) \/ Return(p) \/ Restart(p)

Spec == Init /\ [][Next]_vars

-----------------------------------------------------------------------------
(* A folio is given at most once, out of a range of some CAF; and unless   *)
(* its last save failed, a process never remembers more than the file has, *)
(* so that available_folios never says less than there is.                 *)
EngineFoliosUnique ==
  /\ \A g, h \in given : g.folio = h.folio => g = h
  /\ \A g \in given : \E c \in CafFile : g.folio \in c[1]..c[2]
  /\ \A p \in Process : owner # p /\ ~failed[p] => memory[p] <= registry
=============================================================================
