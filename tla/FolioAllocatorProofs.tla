------------------------ MODULE FolioAllocatorProofs ------------------------
(***************************************************************************)
(* Theorems about FolioAllocator for any number of calls and CAFs.         *)
(*                                                                         *)
(* The argument: the pointer row's lock makes the last_folio a call reads  *)
(* stay current until it commits (TargetFresh), every assigned folio lies  *)
(* at or behind the pointer (AssignedBehind) and the pointer itself is     *)
(* assigned (PointerAssigned); so the next folio is new, and it extends    *)
(* the run of assigned folios of the CAF it comes from.                    *)
(***************************************************************************)
EXTENDS FolioAllocator, TLAPS

InTransaction(r) == pc[r] \in {"locked", "chosen"}

LockHeld == \A r \in Call : InTransaction(r) <=> lock = r

TargetFresh == \A r \in Call : InTransaction(r) => target[r] = last + 1

PickLoaded ==
  \A r \in Call :
    pc[r] = "chosen" => /\ pick[r] \in Loaded
                        /\ FolioTo[pick[r]] >= target[r]

AssignedBehind == \A f \in assigned : f <= last

PointerAssigned == last = 0 \/ last \in assigned

AssignedAuthorised == \A f \in assigned : \E c \in Loaded : InRange(f, c)

GivenServed == \A r \in Call : given[r] # 0 => pc[r] = "served"

IInv ==
  /\ TypeOK
  /\ LockHeld
  /\ TargetFresh
  /\ PickLoaded
  /\ AssignedBehind
  /\ PointerAssigned
  /\ AssignedAuthorised
  /\ NoHoles
  /\ GivenServed
  /\ NoConflict

-----------------------------------------------------------------------------
(* A folio within a CAF's range is one of the authorised folios.           *)
LEMMA FolioInRange ==
  ASSUME NEW c \in Caf, NEW f \in Nat, InRange(f, c)
  PROVE  f \in Folio
<1>1. f \in FolioFrom[c]..FolioTo[c]
  BY CafAssumption DEF InRange
<1> QED
  BY <1>1 DEF Folio

(* Authorised folios are positive integers. *)
LEMMA FolioType == Folio \subseteq Nat \ {0}
<1> SUFFICES ASSUME NEW f \in Folio PROVE f \in Nat \ {0}
  OBVIOUS
<1>1. PICK c \in Caf : f \in FolioFrom[c]..FolioTo[c]
  BY DEF Folio
<1>2. FolioFrom[c] \in Nat \ {0} /\ FolioTo[c] \in Nat
  BY CafAssumption
<1> QED
  BY <1>1, <1>2

(* The folio a call is about to commit lies ahead of the pointer and in    *)
(* the range of the CAF it chose, and nobody has it.                       *)
LEMMA NextFolioFresh ==
  ASSUME IInv, NEW r \in Call, pc[r] = "chosen"
  PROVE  /\ pick[r] \in Caf
         /\ NextFolio(r) \in Nat
         /\ NextFolio(r) > last
         /\ InRange(NextFolio(r), pick[r])
         /\ NextFolio(r) \in Folio
         /\ NextFolio(r) \notin assigned
<1>1. /\ pick[r] \in Caf
      /\ FolioTo[pick[r]] >= target[r]
  BY DEF IInv, PickLoaded, Loaded
<1>2. /\ target[r] = last + 1
      /\ last \in Nat
  BY FolioType DEF IInv, TargetFresh, InTransaction, TypeOK
<1>3. /\ FolioFrom[pick[r]] \in Nat
      /\ FolioTo[pick[r]] \in Nat
      /\ FolioFrom[pick[r]] <= FolioTo[pick[r]]
  BY <1>1, CafAssumption
<1>4. /\ NextFolio(r) \in Nat
      /\ NextFolio(r) > last
      /\ InRange(NextFolio(r), pick[r])
  BY <1>1, <1>2, <1>3 DEF NextFolio, Larger, InRange
<1>5. NextFolio(r) \in Folio
  BY <1>1, <1>4, FolioInRange
<1>6. NextFolio(r) \notin assigned
  BY <1>2, <1>4, FolioType DEF IInv, AssignedBehind, TypeOK
<1> QED
  BY <1>1, <1>4, <1>5, <1>6

(* Initially no folio is assigned and no call is running.                  *)
LEMMA InitIInv == Init => IInv
<1> SUFFICES ASSUME Init PROVE IInv
  OBVIOUS
<1> USE CafAssumption DEF Init
<1>1. TypeOK
  BY DEF TypeOK
<1>2. LockHeld /\ TargetFresh /\ PickLoaded /\ GivenServed /\ NoConflict
  BY DEF LockHeld, TargetFresh, PickLoaded, GivenServed, NoConflict, InTransaction
<1>3. AssignedBehind /\ PointerAssigned /\ AssignedAuthorised /\ NoHoles
  BY DEF AssignedBehind, PointerAssigned, AssignedAuthorised, NoHoles
<1> QED
  BY <1>1, <1>2, <1>3 DEF IInv

-----------------------------------------------------------------------------
(* The steps of a call other than its commit: they touch neither the       *)
(* pointer nor the assignments nor which CAFs are loaded.                  *)
LEMMA CallStepIInv ==
  ASSUME IInv, NEW r \in Call,
         Begin(r) \/ NoPointer(r) \/ LockPointer(r) \/ ChooseCaf(r)
           \/ Exhausted(r) \/ Abort(r)
  PROVE  IInv'
<1> USE CafAssumption DEF IInv
<1>1. TypeOK'
  <2>1. CASE Begin(r)
    BY <2>1 DEF TypeOK, Begin, pointerVars
  <2>2. CASE NoPointer(r)
    BY <2>2 DEF TypeOK, NoPointer, End, pointerVars
  <2>3. CASE LockPointer(r)
    BY <2>3, FolioType DEF TypeOK, LockPointer, pointerVars
  <2>4. CASE ChooseCaf(r)
    <3> DEFINE Ties(c) == {d \in Candidates(r) \ Usable(r) :
                             FolioFrom[d] = FolioFrom[c]}
               Before(c) == {d \in Candidates(r) :
                               FolioFrom[d] < FolioFrom[c]}
    <3>1. PICK c \in Usable(r) :
            /\ \E ties \in SUBSET Ties(c) :
                 examined' = [examined EXCEPT ![r] = {c} \cup ties \cup Before(c)]
            /\ pick' = [pick EXCEPT ![r] = c]
      BY <2>4 DEF ChooseCaf
    <3>2. PICK ties \in SUBSET Ties(c) :
            examined' = [examined EXCEPT ![r] = {c} \cup ties \cup Before(c)]
      BY <3>1
    <3>3. c \in Caf
      BY <3>1 DEF Usable, Candidates
    <3>4. {c} \cup ties \cup Before(c) \in SUBSET Caf
      BY <3>2, <3>3 DEF Candidates
    <3> HIDE DEF Ties, Before
    <3>5. examined' \in [Call -> SUBSET Caf]
      BY <3>2, <3>4 DEF TypeOK
    <3> QED
      BY <2>4, <3>1, <3>3, <3>5 DEF TypeOK, ChooseCaf, pointerVars
  <2>5. CASE Exhausted(r)
    BY <2>5 DEF TypeOK, Exhausted, End, Candidates, pointerVars
  <2>6. CASE Abort(r)
    BY <2>6 DEF TypeOK, Abort, End, pointerVars
  <2> QED
    BY <2>1, <2>2, <2>3, <2>4, <2>5, <2>6
<1>2. UNCHANGED <<row, last, assigned, given>>
  BY DEF Begin, NoPointer, LockPointer, ChooseCaf, Exhausted, Abort, pointerVars
<1>3. AssignedBehind' /\ PointerAssigned' /\ AssignedAuthorised' /\ NoHoles'
  BY <1>2 DEF AssignedBehind, PointerAssigned, AssignedAuthorised, NoHoles,
              Loaded, Disjoint, Overlaps, InRange
<1>4. LockHeld'
  BY DEF LockHeld, InTransaction, TypeOK, Begin, NoPointer, LockPointer,
         ChooseCaf, Exhausted, Abort, End
<1>5. TargetFresh'
  BY DEF TargetFresh, InTransaction, TypeOK, Begin, NoPointer, LockPointer,
         ChooseCaf, Exhausted, Abort, End, pointerVars
<1>6. PickLoaded'
  <2>1. CASE ChooseCaf(r)
    <3>1. PICK c \in Usable(r) : pick' = [pick EXCEPT ![r] = c]
      BY <2>1 DEF ChooseCaf
    <3>2. c \in Loaded /\ FolioTo[c] >= target[r]
      BY <3>1 DEF Usable, Candidates, Loaded
    <3> QED
      BY <2>1, <3>1, <3>2 DEF PickLoaded, ChooseCaf, Loaded, TypeOK
  <2>2. CASE ~ChooseCaf(r)
    BY <2>2 DEF PickLoaded, Loaded, TypeOK, Begin, NoPointer, LockPointer,
                Exhausted, Abort, End
  <2> QED
    BY <2>1, <2>2
<1>7. GivenServed' /\ NoConflict'
  BY DEF GivenServed, NoConflict, TypeOK, Begin, NoPointer, LockPointer,
         ChooseCaf, Exhausted, Abort, End
<1> QED
  BY <1>1, <1>3, <1>4, <1>5, <1>6, <1>7

-----------------------------------------------------------------------------
(* The commit: the only step that assigns a folio and moves the pointer.   *)
LEMMA CommitIInv ==
  ASSUME IInv, NEW r \in Call, CommitFolio(r)
  PROVE  IInv'
<1> USE CafAssumption DEF IInv
<1> DEFINE folio == NextFolio(r)
           c == pick[r]
<1>1. pc[r] = "chosen"
  BY DEF CommitFolio
<1>2. /\ c \in Caf
      /\ folio \in Nat
      /\ folio > last
      /\ InRange(folio, c)
      /\ folio \in Folio
      /\ folio \notin assigned
  BY <1>1, NextFolioFresh
<1>3. /\ last' = folio
      /\ assigned' = assigned \cup {folio}
      /\ given' = [given EXCEPT ![r] = folio]
      /\ pc' = [pc EXCEPT ![r] = "served"]
      /\ lock' = None
      /\ target' = [target EXCEPT ![r] = 0]
      /\ pick' = [pick EXCEPT ![r] = None]
      /\ row' \in {row, [row EXCEPT ![c] = "exhausted"]}
  BY <1>2 DEF CommitFolio, End
<1>4. Loaded' = Loaded /\ c \in Loaded
  BY <1>1, <1>2, <1>3 DEF Loaded, TypeOK, PickLoaded
<1> HIDE DEF folio, c
<1>5. TypeOK'
  <2>1. row' \in [Caf -> {"absent", "active", "exhausted"}]
    BY <1>2, <1>3 DEF TypeOK
  <2>2. filled' \subseteq Caf
    BY DEF TypeOK, CommitFolio, Backfill
  <2>3. /\ UNCHANGED <<environment, today, hasPointer, upload>>
        /\ seenEnv' \in [Call -> Env \cup {None}]
        /\ examined' \in [Call -> SUBSET Caf]
    BY DEF TypeOK, CommitFolio, End
  <2>4. /\ target' \in [Call -> Nat]
        /\ pick' \in [Call -> Caf \cup {None}]
        /\ given' \in [Call -> Folio \cup {0}]
    BY <1>2, <1>3 DEF TypeOK
  <2>5. pc' \in [Call -> {"idle", "waiting", "locked", "chosen", "served",
                         "refused", "conflict", "aborted"}]
    BY <1>3 DEF TypeOK
  <2> QED
    BY <1>2, <1>3, <2>1, <2>2, <2>3, <2>4, <2>5 DEF TypeOK
<1>6. LockHeld'
  BY <1>1, <1>3 DEF LockHeld, InTransaction, TypeOK
<1>7. TargetFresh'
  BY <1>1, <1>3, <1>6 DEF TargetFresh, LockHeld, InTransaction, TypeOK
<1>8. PickLoaded'
  BY <1>3, <1>4 DEF PickLoaded, TypeOK
<1>9. AssignedBehind' /\ PointerAssigned'
  BY <1>2, <1>3, FolioType DEF AssignedBehind, PointerAssigned, TypeOK
<1>10. AssignedAuthorised'
  BY <1>2, <1>3, <1>4 DEF AssignedAuthorised, InRange
<1>11. NoHoles'
  <2> SUFFICES ASSUME Disjoint, NEW d \in Loaded, NEW f \in assigned',
                      InRange(f, d)
               PROVE  FolioFrom[d]..f \subseteq assigned'
    BY <1>4 DEF NoHoles, Disjoint, Overlaps, InRange
  <2>1. CASE f \in assigned
    BY <1>3, <2>1 DEF NoHoles
  <2>2. CASE f = folio
    <3>1. d \in Caf /\ FolioFrom[d] \in Nat /\ FolioTo[d] \in Nat
      BY DEF Loaded
    <3>2. FolioFrom[c] \in Nat \ {0} /\ FolioTo[c] \in Nat
      BY <1>2
    <3>3. d = c
      BY <1>2, <1>4, <2>2, <3>1, <3>2 DEF Disjoint, Overlaps, InRange
    <3>4. target[r] = last + 1 /\ last \in Nat
      BY <1>1, FolioType DEF TargetFresh, InTransaction, TypeOK
    <3>5. CASE FolioFrom[c] >= target[r]
      <4>1. folio = FolioFrom[c]
        BY <3>2, <3>4, <3>5 DEF folio, c, NextFolio, Larger
      <4> QED
        BY <1>3, <2>2, <3>2, <3>3, <4>1
    <3>6. CASE FolioFrom[c] < target[r]
      <4>1. folio = last + 1
        BY <3>2, <3>4, <3>6 DEF folio, c, NextFolio, Larger
      <4>2. last \in assigned /\ InRange(last, c)
        BY <1>2, <3>2, <3>4, <3>6, <4>1 DEF PointerAssigned, InRange
      <4>3. FolioFrom[c]..last \subseteq assigned
        BY <1>4, <4>2 DEF NoHoles
      <4> QED
        BY <1>3, <2>2, <3>2, <3>3, <3>4, <4>1, <4>3
    <3> QED
      BY <3>2, <3>4, <3>5, <3>6
  <2> QED
    BY <1>3, <2>1, <2>2
<1>12. GivenServed' /\ NoConflict'
  BY <1>3 DEF GivenServed, NoConflict, TypeOK
<1> QED
  BY <1>5, <1>6, <1>7, <1>8, <1>9, <1>10, <1>11, <1>12

(* Uploads, retirements, changes of environment and midnight.              *)
LEMMA AdminIInv ==
  ASSUME IInv,
         \/ \E c \in Caf : CheckCaf(c) \/ FlushCaf(c) \/ CommitCaf(c) \/ RetireCaf(c)
         \/ \E e \in Env : UpdateEnvironment(e)
         \/ NextDay
  PROVE  IInv'
<1> USE CafAssumption DEF IInv
<1>1. UNCHANGED <<callVars, last, assigned>>
  BY DEF CheckCaf, FlushCaf, CommitCaf, RetireCaf, UpdateEnvironment, NextDay,
         pointerVars
<1>2. Loaded \subseteq Loaded'
  BY DEF CheckCaf, FlushCaf, CommitCaf, RetireCaf, UpdateEnvironment, NextDay,
         Loaded, TypeOK
<1>3. TypeOK'
  <2>1. ASSUME NEW c \in Caf, CheckCaf(c) \/ FlushCaf(c) PROVE TypeOK'
    BY <2>1 DEF TypeOK, CheckCaf, FlushCaf, callVars, pointerVars
  <2>2. ASSUME NEW c \in Caf, CommitCaf(c) PROVE TypeOK'
    BY <2>2 DEF TypeOK, CommitCaf, callVars
  <2>3. ASSUME NEW c \in Caf, RetireCaf(c) PROVE TypeOK'
    BY <2>3 DEF TypeOK, RetireCaf, callVars, pointerVars
  <2>4. ASSUME NEW e \in Env, UpdateEnvironment(e) PROVE TypeOK'
    BY <2>4 DEF TypeOK, UpdateEnvironment, callVars, pointerVars
  <2>5. CASE NextDay
    BY <2>5 DEF TypeOK, NextDay, callVars, pointerVars
  <2> QED
    BY <2>1, <2>2, <2>3, <2>4, <2>5
<1>4. /\ LockHeld' /\ TargetFresh' /\ AssignedBehind' /\ PointerAssigned'
      /\ GivenServed' /\ NoConflict'
  BY <1>1 DEF LockHeld, TargetFresh, AssignedBehind, PointerAssigned,
              GivenServed, NoConflict, InTransaction, callVars
<1>5. PickLoaded' /\ AssignedAuthorised'
  BY <1>1, <1>2 DEF PickLoaded, AssignedAuthorised, InRange, callVars
<1>6. NoHoles'
  <2> SUFFICES ASSUME Disjoint', NEW d \in Loaded', NEW f \in assigned,
                      InRange(f, d)
               PROVE  FolioFrom[d]..f \subseteq assigned
    BY <1>1 DEF NoHoles, InRange
  <2>1. Disjoint
    BY <1>2 DEF Disjoint, Overlaps
  <2>2. PICK e \in Loaded : InRange(f, e)
    BY DEF AssignedAuthorised
  <2>3. d = e
    <3>1. /\ d \in Caf /\ FolioFrom[d] \in Nat /\ FolioTo[d] \in Nat
          /\ e \in Caf /\ FolioFrom[e] \in Nat /\ FolioTo[e] \in Nat
          /\ f \in Nat
      BY FolioType DEF Loaded, TypeOK
    <3>2. Overlaps(d, e)
      BY <2>2, <3>1 DEF InRange, Overlaps
    <3> QED
      BY <1>2, <2>2, <3>2 DEF Disjoint, Overlaps
  <2> QED
    BY <2>1, <2>2, <2>3 DEF NoHoles
<1> QED
  BY <1>3, <1>4, <1>5, <1>6

LEMMA StepIInv == IInv /\ [Next]_vars => IInv'
<1> SUFFICES ASSUME IInv, [Next]_vars PROVE IInv'
  OBVIOUS
<1>1. CASE \E r \in Call : Begin(r) \/ Step(r) \/ Abort(r)
  BY <1>1, CallStepIInv, CommitIInv DEF Step
<1>2. CASE \/ \E c \in Caf : CheckCaf(c) \/ FlushCaf(c) \/ CommitCaf(c) \/ RetireCaf(c)
           \/ \E e \in Env : UpdateEnvironment(e)
           \/ NextDay
  BY <1>2, AdminIInv
<1>3. CASE UNCHANGED vars
  BY <1>3 DEF vars, IInv, TypeOK, LockHeld, InTransaction, TargetFresh,
              PickLoaded, AssignedBehind, PointerAssigned, AssignedAuthorised,
              NoHoles, Disjoint, Overlaps, InRange, Loaded, GivenServed,
              NoConflict
<1> QED
  BY <1>1, <1>2, <1>3 DEF Next

(* The inductive invariant holds in every reachable state.                 *)
THEOREM Invariance == Spec => []IInv
  BY InitIInv, StepIInv, PTL DEF Spec

(* TypeOK for any number of calls and CAFs.                                *)
THEOREM TypeCorrect == Spec => []TypeOK
  BY Invariance, PTL DEF IInv

(* The pointer row's lock is enough: no transaction ever meets the unique  *)
(* constraint of FolioAssignment.                                          *)
THEOREM LockSuffices == Spec => []NoConflict
  BY Invariance, PTL DEF IInv

(* The folios of each CAF are consumed without holes.                      *)
THEOREM Correlativity == Spec => []NoHoles
  BY Invariance, PTL DEF IInv

-----------------------------------------------------------------------------
(* With every assigned folio behind the pointer, caf_state classifies a    *)
(* row as usable exactly when next_folio would accept it.                  *)
LEMMA ReportFollows == IInv => ReportAgrees
<1> SUFFICES ASSUME IInv, NEW c \in Loaded \cap filled
             PROVE  c \in ReportedUsable <=>
                      row[c] = "active" /\ FolioTo[c] > last /\ Suits(c, environment)
  BY DEF ReportAgrees
<1>1. /\ c \in Caf /\ c \in filled
      /\ row[c] \in {"active", "exhausted"}
      /\ environment \in Env
      /\ CafEnv[c] \in Env \cup {Unmarked}
      /\ last \in Nat /\ today \in Nat /\ ExpiresOn[c] \in Nat
      /\ FolioFrom[c] \in Nat /\ FolioTo[c] \in Nat
      /\ FolioFrom[c] <= FolioTo[c]
  BY CafAssumption, FolioType DEF IInv, TypeOK, Loaded
<1>2. UnusedFolios(c) = {} => FolioTo[c] <= last
  <2> SUFFICES ASSUME UnusedFolios(c) = {} PROVE FolioTo[c] <= last
    OBVIOUS
  <2>1. FolioTo[c] \in FolioFrom[c]..FolioTo[c]
    BY <1>1
  <2>2. FolioTo[c] \in assigned
    BY <2>1 DEF UnusedFolios
  <2> QED
    BY <2>2 DEF IInv, AssignedBehind
<1>3. c \in ReportedUsable <=> CafState(c) \in {"in_use", "pending"}
  BY DEF ReportedUsable
<1>4. CASE CafEnv[c] \notin {Unmarked, environment}
  BY <1>1, <1>3, <1>4 DEF CafState, Suits
<1>5. CASE CafEnv[c] \in {Unmarked, environment} /\ today > ExpiresOn[c]
  BY <1>1, <1>2, <1>3, <1>5 DEF CafState, Suits
<1>6. CASE CafEnv[c] \in {Unmarked, environment} /\ ~(today > ExpiresOn[c])
  BY <1>1, <1>3, <1>6 DEF CafState, Suits
<1> QED
  BY <1>4, <1>5, <1>6

(* The inventory agrees with the allocator in every reachable state.       *)
THEOREM ReportIsFaithful == Spec => []ReportAgrees
  BY Invariance, ReportFollows, PTL

-----------------------------------------------------------------------------
(* What ChooseCaf knows of the rows it passed over stays true until the    *)
(* commit: a wrong environment by the call's own Customer, or an expiry    *)
(* date, which no later day undoes.                                        *)
PassedOver ==
  \A r \in Call : pc[r] = "chosen" =>
    \A d \in examined[r] \ {pick[r]} :
      \/ CafEnv[d] \notin {Unmarked, seenEnv[r]}
      \/ today > ExpiresOn[d]

LEMMA ChoosePassesOver ==
  ASSUME TypeOK, PassedOver, NEW r \in Call, ChooseCaf(r)
  PROVE  PassedOver'
<1> DEFINE Ties(c) == {d \in Candidates(r) \ Usable(r) :
                         FolioFrom[d] = FolioFrom[c]}
           Before(c) == {d \in Candidates(r) : FolioFrom[d] < FolioFrom[c]}
<1>1. PICK c \in Usable(r) :
        /\ \A d \in Usable(r) : FolioFrom[c] <= FolioFrom[d]
        /\ \E ties \in SUBSET Ties(c) :
             examined' = [examined EXCEPT ![r] = {c} \cup ties \cup Before(c)]
        /\ pick' = [pick EXCEPT ![r] = c]
  BY DEF ChooseCaf
<1>2. PICK ties \in SUBSET Ties(c) :
        examined' = [examined EXCEPT ![r] = {c} \cup ties \cup Before(c)]
  BY <1>1
<1>3. /\ pc' = [pc EXCEPT ![r] = "chosen"]
      /\ seenEnv' = seenEnv /\ today' = today
  BY DEF ChooseCaf
<1>4. ASSUME NEW d \in (ties \cup Before(c)) \ {c}
      PROVE  CafEnv[d] \notin {Unmarked, seenEnv[r]} \/ today > ExpiresOn[d]
  <2>1. d \in Candidates(r) /\ d \in Caf /\ c \in Caf
    BY <1>1, <1>2, <1>4 DEF Candidates, Usable
  <2>2. d \notin Usable(r)
    BY <1>1, <1>2, <1>4, <2>1, CafAssumption
  <2> QED
    BY <2>1, <2>2, CafAssumption DEF Usable, Suits, TypeOK
<1> HIDE DEF Ties, Before
<1>5. ASSUME NEW q \in Call, pc'[q] = "chosen",
             NEW d \in examined'[q] \ {pick'[q]}
      PROVE  CafEnv[d] \notin {Unmarked, seenEnv'[q]} \/ today' > ExpiresOn[d]
  <2>1. CASE q = r
    BY <1>1, <1>2, <1>3, <1>4, <1>5, <2>1 DEF TypeOK
  <2>2. CASE q # r
    BY <1>1, <1>2, <1>3, <1>5, <2>2 DEF TypeOK, PassedOver
  <2> QED
    BY <2>1, <2>2
<1> QED
  BY <1>5 DEF PassedOver

LEMMA StepPassesOver == TypeOK /\ PassedOver /\ [Next]_vars => PassedOver'
<1> SUFFICES ASSUME TypeOK, PassedOver, [Next]_vars PROVE PassedOver'
  OBVIOUS
<1>1. ASSUME NEW r \in Call, ChooseCaf(r) PROVE PassedOver'
  BY <1>1, ChoosePassesOver
<1>2. ASSUME NEW r \in Call,
             \/ Begin(r) \/ NoPointer(r) \/ LockPointer(r) \/ Exhausted(r)
             \/ CommitFolio(r) \/ Abort(r)
      PROVE  PassedOver'
  <2>1. /\ today' = today
        /\ \A q \in Call : pc'[q] = "chosen" =>
             /\ pc[q] = "chosen" /\ q # r
             /\ seenEnv'[q] = seenEnv[q]
             /\ pick'[q] = pick[q] /\ examined'[q] = examined[q]
    BY <1>2 DEF TypeOK, Begin, NoPointer, LockPointer, Exhausted, CommitFolio,
                Abort, End
  <2> QED
    BY <2>1 DEF PassedOver
<1>3. ASSUME \/ \E c \in Caf : CheckCaf(c) \/ FlushCaf(c) \/ CommitCaf(c) \/ RetireCaf(c)
             \/ \E e \in Env : UpdateEnvironment(e)
             \/ NextDay
             \/ UNCHANGED vars
      PROVE  PassedOver'
  <2>1. UNCHANGED callVars /\ (today' = today \/ today' = today + 1)
    BY <1>3 DEF CheckCaf, FlushCaf, CommitCaf, RetireCaf, UpdateEnvironment,
                NextDay, vars, callVars
  <2>2. today \in Nat /\ examined \in [Call -> SUBSET Caf]
        /\ \A d \in Caf : ExpiresOn[d] \in Nat
    BY CafAssumption DEF TypeOK
  <2>3. UNCHANGED <<pc, seenEnv, pick, examined>>
    BY <2>1 DEF callVars
  <2>4. ASSUME NEW q \in Call, pc[q] = "chosen",
               NEW d \in examined[q] \ {pick[q]}
        PROVE  CafEnv[d] \notin {Unmarked, seenEnv[q]} \/ today' > ExpiresOn[d]
    <3>1. d \in Caf
      BY <2>2
    <3> QED
      BY <2>1, <2>2, <2>4, <3>1 DEF PassedOver
  <2> QED
    BY <2>3, <2>4 DEF PassedOver
<1> QED
  BY <1>1, <1>2, <1>3 DEF Next, Step

(* A CAF that next_folio passed over is never reported as exhausted while  *)
(* it holds folios that must be annulled.                                  *)
THEOREM SkippedStaysVisible == Spec => SkippedIsReported
<1> DEFINE Claim(r) ==
      CommitFolio(r) /\ seenEnv[r] = environment =>
        \A d \in examined[r] \ {pick[r]} :
          UnusedFolios(d)' # {}
            => CafState(d)' \in {"wrong_environment", "expired"}
<1>1. Init => PassedOver
  BY DEF Init, PassedOver
<1>2. ASSUME IInv, PassedOver, NEW r \in Call PROVE Claim(r)
  <2> SUFFICES ASSUME CommitFolio(r), seenEnv[r] = environment,
                      NEW d \in examined[r] \ {pick[r]},
                      UnusedFolios(d)' # {}
               PROVE  CafState(d)' \in {"wrong_environment", "expired"}
    OBVIOUS
  <2>1. pc[r] = "chosen"
    BY DEF CommitFolio
  <2>2. NextFolio(r) \notin assigned
    BY <2>1, <1>2, NextFolioFresh
  <2>3. d \in filled' /\ environment' = environment /\ today' = today
    BY <2>2 DEF CommitFolio, Backfill
  <2>4. \/ CafEnv[d] \notin {Unmarked, environment}
        \/ today > ExpiresOn[d]
    BY <1>2, <2>1 DEF PassedOver
  <2> QED
    BY <2>3, <2>4 DEF CafState
<1>3. IInv /\ PassedOver /\ [Next]_vars => [\A r \in Call : Claim(r)]_vars
  BY <1>2
<1>4. IInv => TypeOK
  BY DEF IInv
<1> HIDE DEF Claim
<1>5. Spec => [][\A r \in Call : Claim(r)]_vars
  BY <1>1, <1>3, <1>4, StepPassesOver, Invariance, PTL DEF Spec
<1> QED
  BY <1>5 DEF SkippedIsReported, Claim

-----------------------------------------------------------------------------
(* usable_remaining loses the folio handed out and nothing else: the CAF   *)
(* used is the lowest of those reported usable, so the folios between the  *)
(* old and the new pointer belong to none of them.                         *)
LEMMA CommitCountsDown ==
  ASSUME IInv, ReportAgrees, ReportAgrees', NEW r \in Call, CommitFolio(r),
         Disjoint, Loaded \subseteq filled, pick[r] \in ReportedUsable,
         \A d \in ReportedUsable : FolioFrom[pick[r]] <= FolioFrom[d]
  PROVE  UsableRemaining \ UsableRemaining' = {given'[r]}
<1>1. PICK c, folio : c = pick[r] /\ folio = NextFolio(r)
  OBVIOUS
<1>2. /\ pc[r] = "chosen" /\ c \in Caf
      /\ folio \in Nat /\ folio > last /\ InRange(folio, c) /\ folio \notin assigned
  BY <1>1, NextFolioFresh DEF CommitFolio
<1>3. /\ last' = folio /\ given'[r] = folio
      /\ environment' = environment /\ today' = today /\ filled \subseteq filled'
      /\ row' = IF folio >= FolioTo[c] THEN [row EXCEPT ![c] = "exhausted"] ELSE row
  BY <1>1, <1>2 DEF CommitFolio, Backfill, IInv, TypeOK
<1>4. /\ last \in Nat /\ row \in [Caf -> {"absent", "active", "exhausted"}]
      /\ target[r] = last + 1
  BY <1>2, FolioType DEF IInv, TypeOK, TargetFresh, InTransaction
<1>5. \A d \in Caf : FolioFrom[d] \in Nat /\ FolioTo[d] \in Nat
  BY CafAssumption
<1>6. folio = IF last + 1 >= FolioFrom[c] THEN last + 1 ELSE FolioFrom[c]
  BY <1>1, <1>4 DEF NextFolio, Larger
<1>7. /\ Loaded \subseteq Caf /\ Loaded \subseteq Loaded'
      /\ ReportedUsable \subseteq Loaded /\ c \in ReportedUsable
  BY <1>1, <1>2, <1>3, <1>4 DEF Loaded, ReportedUsable
<1>8. ASSUME NEW d \in ReportedUsable
      PROVE  row[d] = "active" /\ Suits(d, environment)
  BY <1>7 DEF ReportAgrees
<1>9. ASSUME NEW d \in ReportedUsable, FolioTo[d] > folio
      PROVE  d \in ReportedUsable'
  <2>1. d \in Caf /\ d \in Loaded' /\ d \in filled'
    BY <1>3, <1>7
  <2>2. row'[d] = "active"
    BY <1>2, <1>3, <1>4, <1>5, <1>8, <1>9, <2>1
  <2>3. Suits(d, environment)'
    BY <1>3, <1>8 DEF Suits
  <2> QED
    BY <1>3, <1>9, <2>1, <2>2, <2>3 DEF ReportAgrees
<1>10. \A f \in UsableRemaining' : f > folio
  BY <1>3 DEF UsableRemaining, Remaining
<1>11. folio \in UsableRemaining
  BY <1>2, <1>5, <1>7 DEF UsableRemaining, Remaining, InRange
<1>12. ASSUME NEW f \in UsableRemaining, f \notin UsableRemaining'
       PROVE  f = folio
  <2>1. PICK d \in ReportedUsable : f \in Remaining(d)
    BY DEF UsableRemaining
  <2>2. d \in Caf /\ d \in Loaded /\ c \in Loaded
    BY <1>7, <2>1
  <2>3. /\ FolioFrom[d] \in Nat /\ FolioTo[d] \in Nat
        /\ FolioFrom[c] \in Nat /\ FolioTo[c] \in Nat
    BY <1>2, <1>5, <2>2
  <2>4. f \in Nat /\ FolioFrom[d] <= f /\ f <= FolioTo[d] /\ f > last
    BY <2>1, <2>3 DEF Remaining
  <2>5. FolioFrom[c] <= FolioFrom[d]
    BY <1>1, <2>1
  <2>6. f <= folio
    <3> SUFFICES ASSUME f > folio PROVE FALSE
      BY <1>2, <2>4
    <3>1. d \in ReportedUsable'
      BY <1>2, <1>9, <2>1, <2>3, <2>4
    <3>2. f \in Remaining(d)'
      BY <1>3, <2>3, <2>4 DEF Remaining
    <3> QED
      BY <1>12, <3>1, <3>2 DEF UsableRemaining
  <2>7. d = c
    <3>1. Overlaps(d, c)
      BY <1>2, <2>3, <2>4, <2>5, <2>6 DEF Overlaps, InRange
    <3> QED
      BY <2>2, <3>1 DEF Disjoint
  <2> QED
    BY <1>2, <1>4, <1>6, <2>3, <2>4, <2>6, <2>7
<1> QED
  BY <1>2, <1>3, <1>10, <1>11, <1>12

(* The number of folios the portal shows goes down by those handed out.    *)
THEOREM RemainingCountsDown == Spec => CountsDown
<1> DEFINE Claim(r) ==
      /\ CommitFolio(r)
      /\ Disjoint /\ Loaded \subseteq filled
      /\ pick[r] \in ReportedUsable
      /\ \A d \in ReportedUsable : FolioFrom[pick[r]] <= FolioFrom[d]
      => UsableRemaining \ UsableRemaining' = {given'[r]}
<1>1. ASSUME IInv, ReportAgrees, ReportAgrees', NEW r \in Call PROVE Claim(r)
  BY <1>1, CommitCountsDown
<1>2. IInv /\ ReportAgrees /\ ReportAgrees' => [\A r \in Call : Claim(r)]_vars
  BY <1>1
<1> HIDE DEF Claim
<1>3. Spec => [][\A r \in Call : Claim(r)]_vars
  BY <1>2, Invariance, ReportIsFaithful, PTL
<1> QED
  BY <1>3 DEF CountsDown, Claim

-----------------------------------------------------------------------------
(* Every step of the allocator hands one new authorised folio to one call  *)
(* that had none, or changes nothing the callers can see.                  *)
THEOREM Refinement == Spec => ImplementsDispenser
<1>1. Init => Dispenser!DispenserInit
  BY DEF Init, Dispenser!DispenserInit
<1>2. IInv /\ [Next]_vars => [Dispenser!DispenserNext]_(Dispenser!dispenserVars)
  <2> SUFFICES ASSUME IInv, [Next]_vars
               PROVE  Dispenser!DispenserNext \/ UNCHANGED <<last, given>>
    BY DEF Dispenser!dispenserVars
  <2>1. ASSUME NEW r \in Call, CommitFolio(r)
        PROVE  Dispenser!Give(r)
    <3>1. pc[r] = "chosen" /\ given[r] = 0
      BY <2>1 DEF CommitFolio, IInv, GivenServed, TypeOK
    <3>2. /\ pick[r] \in Caf
          /\ NextFolio(r) \in Nat /\ NextFolio(r) > last
          /\ InRange(NextFolio(r), pick[r])
          /\ NextFolio(r) \notin assigned
      BY <3>1, NextFolioFresh
    <3>3. last' = NextFolio(r) /\ given' = [given EXCEPT ![r] = last']
      BY <2>1, <3>2 DEF CommitFolio
    <3>4. Dispenser!Authorised(last')
      <4> DEFINE g == [from |-> FolioFrom[pick[r]], to |-> FolioTo[pick[r]]]
      <4>1. g.from <= last' /\ last' <= g.to
        BY <3>2, <3>3 DEF InRange
      <4>2. g \in {[from |-> FolioFrom[c], to |-> FolioTo[c]] : c \in Caf}
        BY <3>2
      <4> QED
        BY <4>1, <4>2 DEF Dispenser!Authorised
    <3> QED
      BY <3>1, <3>2, <3>3, <3>4 DEF Dispenser!Give
  <2>2. ASSUME NEW r \in Call,
               \/ Begin(r) \/ NoPointer(r) \/ LockPointer(r) \/ ChooseCaf(r)
               \/ Exhausted(r) \/ Abort(r)
        PROVE  UNCHANGED <<last, given>>
    BY <2>2 DEF Begin, NoPointer, LockPointer, ChooseCaf, Exhausted, Abort,
                pointerVars
  <2>3. CASE \/ \E c \in Caf : CheckCaf(c) \/ FlushCaf(c) \/ CommitCaf(c) \/ RetireCaf(c)
             \/ \E e \in Env : UpdateEnvironment(e)
             \/ NextDay
             \/ UNCHANGED vars
    BY <2>3 DEF CheckCaf, FlushCaf, CommitCaf, RetireCaf, UpdateEnvironment,
                NextDay, vars, callVars, pointerVars
  <2> QED
    BY <2>1, <2>2, <2>3 DEF Next, Step, Dispenser!DispenserNext
<1> QED
  BY <1>1, <1>2, Invariance, PTL DEF Spec, ImplementsDispenser,
     Dispenser!DispenserSpec
=============================================================================
