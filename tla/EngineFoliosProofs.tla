------------------------- MODULE EngineFoliosProofs -------------------------
(***************************************************************************)
(* EngineFoliosUnique for any number of processes, CAFs and crashes.       *)
(*                                                                         *)
(* The argument: whoever holds the file lock has read the registry after   *)
(* everyone who wrote it (HolderIsCurrent), so the folio it is about to    *)
(* store lies above all that were ever stored; a folio that is stored but  *)
(* not yet returned belongs to one process alone (PendingIsOwn), and every *)
(* folio returned was stored before (GivenIsStored).                       *)
(***************************************************************************)
EXTENDS EngineFolios, WellFoundedInduction, TLAPS

Authorised(f) == \E c \in CafFile : f \in c[1]..c[2]

TypeInv ==
  /\ registry \in Nat
  /\ owner \in Process \cup {FREE}
  /\ loaded \in [Process -> SUBSET CafFile]
  /\ memory \in [Process -> Nat]
  /\ target \in [Process -> Nat]
  /\ failed \in [Process -> BOOLEAN]
  /\ \A g \in given : g.folio \in Nat

(* A folio that was stored and is to be returned. *)
Pending(p) == owner # p /\ target[p] # NONE

HolderIsCurrent ==
  \A p \in Process : owner = p =>
    IF target[p] = NONE THEN memory[p] = registry
                        ELSE memory[p] = target[p] /\ target[p] > registry

PendingIsOwn ==
  \A p \in Process : Pending(p) =>
    /\ target[p] <= registry
    /\ \A g \in given : g.folio # target[p]
    /\ \A q \in Process \ {p} : Pending(q) => target[q] # target[p]

TargetAuthorised == \A p \in Process : target[p] # NONE => Authorised(target[p])

GivenIsStored == \A g \in given : g.folio <= registry /\ Authorised(g.folio)

GivenOnce == \A g, h \in given : g.folio = h.folio => g = h

MemoryBehind == \A p \in Process : owner # p /\ ~failed[p] => memory[p] <= registry

IInv ==
  /\ TypeInv
  /\ HolderIsCurrent
  /\ PendingIsOwn
  /\ TargetAuthorised
  /\ GivenIsStored
  /\ GivenOnce
  /\ MemoryBehind

-----------------------------------------------------------------------------
(* CAFs are pairs of naturals with at least one folio between them.        *)
LEMMA CafType ==
  ASSUME NEW c \in CafFile
  PROVE  c[1] \in Nat \ {0} /\ c[2] \in Nat /\ c[1] <= c[2]
BY CafFileAssumption

(* Some CAF of a set that is not empty has the lowest first folio.         *)
LEMMA FirstIsLowest ==
  ASSUME NEW cafs \in SUBSET CafFile, cafs # {}
  PROVE  First(cafs) \in cafs
<1> DEFINE starts == {c[1] : c \in cafs}
<1>1. starts \in SUBSET Nat /\ starts # {}
  BY CafType
<1>2. PICK n \in starts : \A m \in starts : n <= m
  <2> DEFINE below == {ss \in Nat \X Nat : ss[1] < ss[2]}
  <2> HIDE DEF starts
  <2>1. IsWellFoundedOn(below, Nat)
    BY NatLessThanWellFounded, Zenon DEF OpToRel
  <2>2. PICK n \in starts : \A m \in starts : <<m, n>> \notin below
    <3> HIDE DEF below
    <3> QED BY <1>1, <2>1, WFMin, Zenon
  <2>3. ASSUME NEW m \in starts PROVE n <= m
    <3>1. n \in Nat /\ m \in Nat
      BY <1>1
    <3>2. ~(m < n)
      BY <2>2, <3>1
    <3> QED
      BY <3>1, <3>2
  <2> QED
    BY <2>3
<1>3. PICK c \in cafs : c[1] = n
  BY <1>2
<1>4. \A d \in cafs : c[1] <= d[1]
  BY <1>2, <1>3
<1> QED
  BY <1>3, <1>4 DEF First

(* The folio that Choose takes is above the process's copy and in a CAF.   *)
LEMMA ChosenIsNew ==
  ASSUME TypeInv, NEW p \in Process, Choose(p)
  PROVE  /\ target'[p] \in Nat
         /\ target'[p] > memory[p]
         /\ Authorised(target'[p])
         /\ target' = [target EXCEPT ![p] = target'[p]]
         /\ memory' = [memory EXCEPT ![p] = target'[p]]
<1> DEFINE caf == First(Candidates(p))
           next == Target(loaded[p], memory[p])
<1>1. Candidates(p) # {} /\ Candidates(p) \subseteq loaded[p]
  BY DEF Choose, Candidates
<1>2. loaded[p] \in SUBSET CafFile /\ loaded[p] # {} /\ memory[p] \in Nat
  BY <1>1 DEF TypeInv
<1>3. caf \in Candidates(p) /\ caf \in CafFile
  BY <1>1, <1>2, FirstIsLowest
<1>4. caf[2] >= next
  BY <1>3 DEF Candidates
<1>5. First(loaded[p]) \in CafFile
  BY <1>2, FirstIsLowest
<1>6. next \in Nat /\ next > memory[p]
  BY <1>2, <1>5, CafType DEF Target, NONE
<1>7. target'[p] = IF next > caf[1] THEN next ELSE caf[1]
  BY DEF Choose, TypeInv
<1> HIDE DEF caf, next
<1>8. caf[1] \in Nat /\ caf[2] \in Nat /\ caf[1] <= caf[2]
  BY <1>3, CafType
<1>9. target'[p] \in caf[1]..caf[2] /\ target'[p] > memory[p] /\ target'[p] \in Nat
  BY <1>2, <1>4, <1>6, <1>7, <1>8
<1>10. target' = [target EXCEPT ![p] = target'[p]] /\ memory' = [memory EXCEPT ![p] = target'[p]]
  BY DEF Choose, TypeInv
<1> QED
  BY <1>3, <1>9, <1>10 DEF Authorised

-----------------------------------------------------------------------------
LEMMA InitInv == Init => IInv
BY ProcessAssumption DEF Init, IInv, TypeInv, Pending, HolderIsCurrent, PendingIsOwn,
   TargetAuthorised, GivenIsStored, GivenOnce, MemoryBehind, NONE

(* A CAF that is loaded changes nothing else.                              *)
LEMMA RegisterCafInv ==
  ASSUME IInv, NEW p \in Process, NEW caf \in CafFile, RegisterCaf(p, caf)
  PROVE  IInv'
<1>1. loaded' \in [Process -> SUBSET CafFile]
  BY DEF RegisterCaf, IInv, TypeInv
<1>2. UNCHANGED <<registry, owner, memory, target, failed, given>>
  BY DEF RegisterCaf
<1> QED
  BY <1>1, <1>2 DEF IInv, TypeInv, Pending, HolderIsCurrent, PendingIsOwn,
     TargetAuthorised, GivenIsStored, GivenOnce, MemoryBehind, Authorised

(* The holder of the lock reads what was stored last.                      *)
LEMMA LockInv ==
  ASSUME IInv, NEW p \in Process, Lock(p)
  PROVE  IInv'
<1>1. /\ owner = FREE /\ owner' = p /\ target[p] = NONE
      /\ memory' = [memory EXCEPT ![p] = registry]
      /\ failed' = [failed EXCEPT ![p] = FALSE]
      /\ UNCHANGED <<registry, loaded, target, given>>
  BY DEF Lock
<1>2. TypeInv'
  BY <1>1 DEF IInv, TypeInv
<1>3. HolderIsCurrent'
  BY <1>1 DEF IInv, TypeInv, HolderIsCurrent
<1>4. \A q \in Process : Pending(q)' => Pending(q)
  BY <1>1, ProcessAssumption DEF Pending
<1>5. PendingIsOwn' /\ TargetAuthorised' /\ GivenIsStored' /\ GivenOnce'
  BY <1>1, <1>4 DEF IInv, PendingIsOwn, TargetAuthorised, GivenIsStored, GivenOnce, Authorised
<1>6. MemoryBehind'
  BY <1>1, ProcessAssumption DEF IInv, TypeInv, MemoryBehind
<1> QED
  BY <1>2, <1>3, <1>5, <1>6 DEF IInv

(* Its next folio lies above every one that was stored.                    *)
LEMMA ChooseInv ==
  ASSUME IInv, NEW p \in Process, Choose(p)
  PROVE  IInv'
<1>1. /\ owner = p /\ target[p] = NONE
      /\ UNCHANGED <<registry, owner, loaded, failed, given>>
  BY DEF Choose
<1>2. /\ target'[p] \in Nat /\ target'[p] > registry /\ Authorised(target'[p])
      /\ target' = [target EXCEPT ![p] = target'[p]]
      /\ memory' = [memory EXCEPT ![p] = target'[p]]
  BY <1>1, ChosenIsNew DEF IInv, HolderIsCurrent
<1> DEFINE f == target'[p]
<1>3. /\ target' = [target EXCEPT ![p] = f] /\ memory' = [memory EXCEPT ![p] = f]
      /\ f \in Nat /\ f > registry /\ Authorised(f)
  BY <1>2
<1> HIDE DEF f
<1>4. TypeInv'
  BY <1>1, <1>3 DEF IInv, TypeInv
<1>5. HolderIsCurrent'
  BY <1>1, <1>3 DEF IInv, TypeInv, HolderIsCurrent, NONE
<1>6. \A q \in Process : q # p => target'[q] = target[q] /\ memory'[q] = memory[q]
  BY <1>3 DEF IInv, TypeInv
<1>7. \A q \in Process : Pending(q)' => q # p /\ Pending(q)
  BY <1>1, <1>6 DEF Pending
<1>8. PendingIsOwn'
  BY <1>1, <1>6, <1>7 DEF IInv, PendingIsOwn
<1>9. TargetAuthorised'
  <2>1. target'[p] = f
    BY DEF f
  <2> QED
    BY <1>3, <1>6, <2>1 DEF IInv, TargetAuthorised, Authorised
<1>10. GivenIsStored' /\ GivenOnce' /\ MemoryBehind'
  BY <1>1, <1>6 DEF IInv, GivenIsStored, GivenOnce, MemoryBehind, Authorised
<1> QED
  BY <1>4, <1>5, <1>8, <1>9, <1>10 DEF IInv

LEMMA ExhaustedInv ==
  ASSUME IInv, NEW p \in Process, Exhausted(p)
  PROVE  IInv'
<1>1. /\ owner = p /\ target[p] = NONE /\ owner' = FREE
      /\ UNCHANGED <<registry, loaded, memory, target, failed, given>>
  BY DEF Exhausted
<1>2. memory[p] = registry /\ registry \in Nat
  BY <1>1 DEF IInv, HolderIsCurrent, TypeInv
<1>3. \A q \in Process : owner' # q /\ (owner # q \/ q = p)
  BY <1>1, ProcessAssumption
<1>4. \A q \in Process : Pending(q)' => Pending(q)
  BY <1>1, <1>3 DEF Pending
<1>5. TypeInv' /\ HolderIsCurrent'
  BY <1>1, <1>3 DEF IInv, TypeInv, HolderIsCurrent
<1>6. PendingIsOwn' /\ TargetAuthorised' /\ GivenIsStored' /\ GivenOnce'
  BY <1>1, <1>4 DEF IInv, PendingIsOwn, TargetAuthorised, GivenIsStored, GivenOnce, Authorised
<1>7. MemoryBehind'
  BY <1>1, <1>2, <1>3 DEF IInv, MemoryBehind
<1> QED
  BY <1>5, <1>6, <1>7 DEF IInv

(* The registry goes up to the folio, which only this process has.         *)
LEMMA SaveInv ==
  ASSUME IInv, NEW p \in Process, Save(p)
  PROVE  IInv'
<1>1. /\ owner = p /\ target[p] # NONE /\ owner' = FREE /\ registry' = memory[p]
      /\ UNCHANGED <<loaded, memory, target, failed, given>>
  BY DEF Save
<1>2. /\ registry' = target[p] /\ target[p] > registry /\ memory[p] = target[p]
      /\ registry \in Nat /\ target[p] \in Nat
  BY <1>1 DEF IInv, HolderIsCurrent, TypeInv
<1>3. \A q \in Process : owner' # q /\ (owner # q \/ q = p)
  BY <1>1, ProcessAssumption
<1>4. \A q \in Process : Pending(q)' => q = p \/ Pending(q)
  BY <1>1, <1>3 DEF Pending
<1>5. TypeInv' /\ HolderIsCurrent'
  BY <1>1, <1>2, <1>3 DEF IInv, TypeInv, HolderIsCurrent
<1>6. PendingIsOwn'
  <2>1. \A q \in Process : Pending(q) => target[q] <= registry /\ target[q] \in Nat
    BY DEF IInv, PendingIsOwn, TypeInv
  <2>2. \A g \in given : g.folio <= registry /\ g.folio \in Nat
    BY DEF IInv, GivenIsStored, TypeInv
  <2>3. ASSUME NEW q \in Process, Pending(q)' PROVE target[q] <= registry'
    BY <1>2, <1>4, <2>1, <2>3
  <2>4. ASSUME NEW q \in Process, Pending(q)', NEW g \in given PROVE g.folio # target[q]
    BY <1>2, <1>4, <2>2, <2>4 DEF IInv, PendingIsOwn
  <2>5. ASSUME NEW q \in Process, Pending(q)', NEW r \in Process \ {q}, Pending(r)'
        PROVE  target[r] # target[q]
    BY <1>2, <1>4, <2>1, <2>5 DEF IInv, PendingIsOwn
  <2> QED
    BY <1>1, <2>3, <2>4, <2>5 DEF PendingIsOwn
<1>7. TargetAuthorised' /\ GivenOnce'
  BY <1>1 DEF IInv, TargetAuthorised, GivenOnce, Authorised
<1>8. GivenIsStored'
  BY <1>1, <1>2 DEF IInv, TypeInv, GivenIsStored, Authorised
<1>9. MemoryBehind'
  BY <1>1, <1>2, <1>3 DEF IInv, TypeInv, MemoryBehind
<1> QED
  BY <1>5, <1>6, <1>7, <1>8, <1>9 DEF IInv

(* The registry stays; the copy of the process is ahead, and it says so.   *)
LEMMA SaveFailsInv ==
  ASSUME IInv, NEW p \in Process, SaveFails(p)
  PROVE  IInv'
<1>1. /\ owner = p /\ owner' = FREE
      /\ target' = [target EXCEPT ![p] = NONE]
      /\ failed' = [failed EXCEPT ![p] = TRUE]
      /\ UNCHANGED <<registry, loaded, memory, given>>
  BY DEF SaveFails
<1>2. \A q \in Process : owner' # q /\ (owner # q \/ q = p)
  BY <1>1, ProcessAssumption
<1>3. TypeInv' /\ HolderIsCurrent'
  BY <1>1, <1>2 DEF IInv, TypeInv, HolderIsCurrent, NONE
<1>4. target'[p] = NONE /\ \A q \in Process : q # p => target'[q] = target[q]
  BY <1>1 DEF IInv, TypeInv
<1>5. \A q \in Process : Pending(q)' => q # p /\ Pending(q)
  BY <1>2, <1>4 DEF Pending
<1>6. PendingIsOwn'
  BY <1>1, <1>4, <1>5 DEF IInv, PendingIsOwn
<1>7. TargetAuthorised' /\ GivenIsStored' /\ GivenOnce'
  BY <1>1, <1>4 DEF IInv, TargetAuthorised, GivenIsStored, GivenOnce, Authorised
<1>8. MemoryBehind'
  BY <1>1, <1>2 DEF IInv, TypeInv, MemoryBehind
<1> QED
  BY <1>3, <1>6, <1>7, <1>8 DEF IInv

(* A folio is returned that was stored and that nobody else has.           *)
LEMMA ReturnInv ==
  ASSUME IInv, NEW p \in Process, Return(p)
  PROVE  IInv'
<1> DEFINE new == [by |-> p, folio |-> target[p], serial |-> Cardinality(given)]
<1>1. /\ Pending(p) /\ given' = given \cup {new}
      /\ target' = [target EXCEPT ![p] = NONE]
      /\ UNCHANGED <<registry, owner, loaded, memory, failed>>
  BY DEF Return, Pending
<1>2. /\ new.folio = target[p] /\ target[p] \in Nat /\ target[p] <= registry
      /\ Authorised(target[p])
      /\ \A g \in given : g.folio # target[p]
      /\ \A q \in Process \ {p} : Pending(q) => target[q] # target[p]
  BY <1>1 DEF IInv, PendingIsOwn, TargetAuthorised, TypeInv, Pending
<1> HIDE DEF new
<1>3. TypeInv' /\ HolderIsCurrent'
  BY <1>1, <1>2 DEF IInv, TypeInv, HolderIsCurrent, Pending, NONE
<1>4. target'[p] = NONE /\ \A q \in Process : q # p => target'[q] = target[q]
  BY <1>1 DEF IInv, TypeInv
<1>5. \A q \in Process : Pending(q)' => q # p /\ Pending(q)
  BY <1>1, <1>4 DEF Pending
<1>6. PendingIsOwn'
  BY <1>1, <1>2, <1>4, <1>5 DEF IInv, PendingIsOwn
<1>7. TargetAuthorised' /\ GivenIsStored' /\ GivenOnce'
  BY <1>1, <1>2, <1>4 DEF IInv, TargetAuthorised, GivenIsStored, GivenOnce, Authorised
<1>8. MemoryBehind'
  BY <1>1 DEF IInv, MemoryBehind
<1> QED
  BY <1>3, <1>6, <1>7, <1>8 DEF IInv

(* A process that dies loses the lock and its folio, stored or not.        *)
LEMMA RestartInv ==
  ASSUME IInv, NEW p \in Process, Restart(p)
  PROVE  IInv'
<1>1. /\ owner' = IF owner = p THEN FREE ELSE owner
      /\ loaded' = [loaded EXCEPT ![p] = {}]
      /\ memory' = [memory EXCEPT ![p] = registry]
      /\ failed' = [failed EXCEPT ![p] = FALSE]
      /\ target' = [target EXCEPT ![p] = NONE]
      /\ UNCHANGED <<registry, given>>
  BY DEF Restart
<1>2. /\ target'[p] = NONE /\ memory'[p] = registry
      /\ \A q \in Process : q # p => /\ target'[q] = target[q] /\ memory'[q] = memory[q]
                                      /\ failed'[q] = failed[q]
  BY <1>1 DEF IInv, TypeInv
<1>3. TypeInv'
  BY <1>1 DEF IInv, TypeInv, NONE
<1>4. \A q \in Process : owner' = q <=> q # p /\ owner = q
  BY <1>1, ProcessAssumption
<1>5. HolderIsCurrent'
  BY <1>1, <1>2, <1>4 DEF IInv, HolderIsCurrent
<1>6. \A q \in Process : Pending(q)' => q # p /\ Pending(q)
  BY <1>2, <1>4 DEF Pending
<1>7. PendingIsOwn'
  BY <1>1, <1>2, <1>6 DEF IInv, PendingIsOwn
<1>8. TargetAuthorised' /\ GivenIsStored' /\ GivenOnce'
  BY <1>1, <1>2 DEF IInv, TargetAuthorised, GivenIsStored, GivenOnce, Authorised
<1>9. MemoryBehind'
  BY <1>1, <1>2, <1>4 DEF IInv, TypeInv, MemoryBehind
<1> QED
  BY <1>3, <1>5, <1>7, <1>8, <1>9 DEF IInv

LEMMA StepInv == IInv /\ [Next]_vars => IInv'
<1> SUFFICES ASSUME IInv, [Next]_vars PROVE IInv'
  OBVIOUS
<1>1. CASE UNCHANGED vars
  BY <1>1 DEF vars, IInv, TypeInv, Pending, HolderIsCurrent, PendingIsOwn,
     TargetAuthorised, GivenIsStored, GivenOnce, MemoryBehind, Authorised
<1>2. ASSUME NEW p \in Process,
             \/ \E caf \in CafFile : RegisterCaf(p, caf)
             \/ Lock(p) \/ Choose(p) \/ Exhausted(p) \/ Save(p) \/ SaveFails(p)
             \/ Return(p) \/ Restart(p)
      PROVE  IInv'
  BY <1>2, RegisterCafInv, LockInv, ChooseInv, ExhaustedInv, SaveInv, SaveFailsInv,
     ReturnInv, RestartInv
<1> QED
  BY <1>1, <1>2 DEF Next

(* Every reachable state satisfies the inductive invariant.                *)
THEOREM Invariance == Spec => []IInv
BY InitInv, StepInv, PTL DEF Spec

(* next_folio of folios.py never returns a folio twice nor one outside the *)
(* CAFs, whichever processes share the registry, whenever they load their  *)
(* CAFs, die, or fail to write it; and the copy in memory of a process     *)
(* whose last save did not fail is never ahead of the file.                *)
THEOREM FoliosAreUnique == Spec => []EngineFoliosUnique
<1>1. IInv => EngineFoliosUnique
  BY DEF IInv, GivenOnce, GivenIsStored, MemoryBehind, Authorised, EngineFoliosUnique
<1> QED
  BY <1>1, Invariance, PTL
=============================================================================
