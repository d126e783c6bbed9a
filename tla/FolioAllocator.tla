--------------------------- MODULE FolioAllocator ---------------------------
(***************************************************************************)
(* app/services/folio_service.py and the part of customer_service.py that  *)
(* feeds it, for one customer and one document type (every query filters   *)
(* by both, so customers and types do not interact).                       *)
(*                                                                         *)
(* next_folio is one PostgreSQL transaction of three steps that other      *)
(* transactions interleave with: lock the FolioPointer row, read the CAF   *)
(* rows, commit. READ COMMITTED: each SELECT sees what had been committed  *)
(* when it ran. The CAF upload and retirement take no lock.                *)
(***************************************************************************)
EXTENDS Naturals, FiniteSets

CONSTANTS
  Call,        \* calls of next_folio, each one HTTP request or batch item
  Caf,         \* CAF files that may be uploaded
  Legacy,      \* the CAF rows stored before IDK and dates had columns
  FolioFrom,   \* first folio of each CAF
  FolioTo,     \* last folio of each CAF
  CafEnv,      \* environment its <IDK> names, or Unmarked
  ExpiresOn,   \* last day it may stamp; beyond MaxDay, never
  MaxDay,      \* the calendar stops here (model bound)
  None         \* no call, no CAF

Env == {"certification", "production"}
Unmarked == "no_idk"

ASSUME CafAssumption ==
  /\ Legacy \subseteq Caf
  /\ None \notin Caf \cup Call \cup Env
  /\ FolioFrom \in [Caf -> Nat \ {0}]
  /\ FolioTo \in [Caf -> Nat]
  /\ \A c \in Caf : FolioFrom[c] <= FolioTo[c]
  /\ CafEnv \in [Caf -> Env \cup {Unmarked}]
  /\ ExpiresOn \in [Caf -> Nat]
  /\ MaxDay \in Nat

VARIABLES
  environment, \* Customer.environment as committed
  today,       \* the date
  row,         \* the caf table: absent, active or exhausted
  filled,      \* rows whose key_id, authorized_on and expires_on are set
  hasPointer,  \* the FolioPointer row exists
  last,        \* FolioPointer.last_folio
  assigned,    \* folios with a FolioAssignment row
  lock,        \* the call holding FolioPointer FOR UPDATE
  pc,          \* progress of each call
  seenEnv,     \* environment of the Customer object in the call's session
  target,      \* ptr.last_folio + 1 as the call read it
  pick,        \* the CAF the call settled on
  examined,    \* the CAF rows the call backfilled on its way there
  given,       \* the folio a call returned, 0 before
  upload       \* progress of the upload of each CAF

vars == <<environment, today, row, filled, hasPointer, last, assigned, lock,
          pc, seenEnv, target, pick, examined, given, upload>>

callVars == <<lock, pc, seenEnv, target, pick, examined, given>>
pointerVars == <<hasPointer, last, assigned>>

Larger(a, b) == IF a >= b THEN a ELSE b

Folio == UNION {FolioFrom[c]..FolioTo[c] : c \in Caf}

InRange(f, c) == FolioFrom[c] <= f /\ f <= FolioTo[c]

Loaded == {c \in Caf : row[c] # "absent"}

Init ==
  /\ environment \in Env
  /\ today = 0
  /\ row = [c \in Caf |-> IF c \in Legacy THEN "active" ELSE "absent"]
  /\ filled = {}
  /\ hasPointer = (Legacy # {})
  /\ last = 0
  /\ assigned = {}
  /\ lock = None
  /\ pc = [r \in Call |-> "idle"]
  /\ seenEnv = [r \in Call |-> None]
  /\ target = [r \in Call |-> 0]
  /\ pick = [r \in Call |-> None]
  /\ examined = [r \in Call |-> {}]
  /\ given = [r \in Call |-> 0]
  /\ upload = [c \in Caf |-> IF c \in Legacy THEN "stored" ELSE "idle"]

-----------------------------------------------------------------------------
(* next_folio *)

(* The tenant dependency loads the Customer; the session never re-reads it *)
(* (expire_on_commit=False), so the call keeps this environment.           *)
Begin(r) ==
  /\ pc[r] = "idle"
  /\ pc' = [pc EXCEPT ![r] = "waiting"]
  /\ seenEnv' = [seenEnv EXCEPT ![r] = environment]
  /\ UNCHANGED <<environment, today, row, filled, pointerVars, lock, target,
                 pick, examined, given, upload>>

(* The call returns or raises: its session and local variables go with it. *)
End(r, how) ==
  /\ pc' = [pc EXCEPT ![r] = how]
  /\ seenEnv' = [seenEnv EXCEPT ![r] = None]
  /\ target' = [target EXCEPT ![r] = 0]
  /\ pick' = [pick EXCEPT ![r] = None]
  /\ examined' = [examined EXCEPT ![r] = {}]

(* SELECT ... FOR UPDATE finds no row: FolioError. *)
NoPointer(r) ==
  /\ pc[r] = "waiting"
  /\ ~hasPointer
  /\ End(r, "refused")
  /\ UNCHANGED <<environment, today, row, filled, pointerVars, lock, given,
                 upload>>

(* Seeded fault: a plain SELECT, without FOR UPDATE. *)
LockPointer_PlainSelect(r) ==
  /\ pc[r] = "waiting"
  /\ hasPointer
  /\ lock' = r
  /\ target' = [target EXCEPT ![r] = last + 1]
  /\ pc' = [pc EXCEPT ![r] = "locked"]
  /\ UNCHANGED <<environment, today, row, filled, pointerVars, seenEnv, pick,
                 examined, given, upload>>

(* SELECT ... FOR UPDATE: waits for the row, then reads last_folio. *)
LockPointer(r) ==
  /\ pc[r] = "waiting"
  /\ hasPointer
  /\ lock = None
  /\ lock' = r
  /\ target' = [target EXCEPT ![r] = last + 1]
  /\ pc' = [pc EXCEPT ![r] = "locked"]
  /\ UNCHANGED <<environment, today, row, filled, pointerVars, seenEnv, pick,
                 examined, given, upload>>

(* Seeded fault: candidates not filtered by folio_to. *)
Candidates_AnyRange(r) == {c \in Caf : row[c] = "active"}

Candidates(r) == {c \in Caf : row[c] = "active" /\ FolioTo[c] >= target[r]}

(* The two defects that make the loop skip a candidate. *)
Suits(c, env) ==
  /\ CafEnv[c] = Unmarked \/ CafEnv[c] = env
  /\ today <= ExpiresOn[c]

Usable(r) == {c \in Candidates(r) : Suits(c, seenEnv[r])}

(* The loop ends on the first usable candidate by folio_from. It backfills *)
(* every row it looks at: those before it, it, and some of those it ties   *)
(* with (ORDER BY folio_from alone).                                       *)
ChooseCaf(r) ==
  /\ pc[r] = "locked"
  /\ \E c \in Usable(r) :
       /\ \A d \in Usable(r) : FolioFrom[c] <= FolioFrom[d]
       /\ \E ties \in SUBSET {d \in Candidates(r) \ Usable(r) :
                                FolioFrom[d] = FolioFrom[c]} :
            examined' = [examined EXCEPT ![r] =
              {c} \cup ties \cup
              {d \in Candidates(r) : FolioFrom[d] < FolioFrom[c]}]
       /\ pick' = [pick EXCEPT ![r] = c]
  /\ pc' = [pc EXCEPT ![r] = "chosen"]
  /\ UNCHANGED <<environment, today, row, filled, pointerVars, lock, seenEnv,
                 target, given, upload>>

(* Seeded fault: FoliosExhausted raised without the commit that frees the  *)
(* pointer, in a session that nobody closes.                               *)
Exhausted_KeepsLock(r) ==
  /\ pc[r] = "locked"
  /\ Usable(r) = {}
  /\ End(r, "refused")
  /\ UNCHANGED <<environment, today, row, filled, pointerVars, lock, given,
                 upload>>

(* for/else: nothing usable. Commits the backfill and frees the pointer,   *)
(* then raises FoliosExhausted.                                            *)
Exhausted(r) ==
  /\ pc[r] = "locked"
  /\ Usable(r) = {}
  /\ filled' = filled \cup Candidates(r)
  /\ lock' = None
  /\ End(r, "refused")
  /\ UNCHANGED <<environment, today, row, pointerVars, given, upload>>

(* Skips gaps between CAFs and CAFs that cannot be used. *)
NextFolio(r) == Larger(target[r], FolioFrom[pick[r]])

(* Seeded fault: only the CAF that is used has its columns completed. *)
Backfill_ChosenOnly(r) == filled \cup {pick[r]}

Backfill(r) == filled \cup examined[r]

(* Moves the pointer, retires a CAF that is used up and inserts the        *)
(* FolioAssignment, all in one commit. The unique constraint on the folio  *)
(* would abort the transaction: the call would then end in "conflict".     *)
CommitFolio(r) ==
  LET folio == NextFolio(r)
      unique == folio \notin assigned
      ended == unique /\ folio >= FolioTo[pick[r]]
  IN
  /\ pc[r] = "chosen"
  /\ End(r, IF unique THEN "served" ELSE "conflict")
  /\ last' = IF unique THEN folio ELSE last
  /\ assigned' = assigned \cup {folio}
  /\ row' = IF ended THEN [row EXCEPT ![pick[r]] = "exhausted"] ELSE row
  /\ filled' = IF unique THEN Backfill(r) ELSE filled
  /\ given' = IF unique THEN [given EXCEPT ![r] = folio] ELSE given
  /\ lock' = None
  /\ UNCHANGED <<environment, today, hasPointer, upload>>

(* Seeded fault: the pointer committed ahead of the FolioAssignment. *)
Abort_PointerMoved(r) ==
  /\ pc[r] \in {"locked", "chosen"}
  /\ last' = IF pc[r] = "chosen" THEN NextFolio(r) ELSE last
  /\ lock' = None
  /\ End(r, "aborted")
  /\ UNCHANGED <<environment, today, row, filled, hasPointer, assigned, given,
                 upload>>

(* The worker dies, or decrypting or parsing a CAF raises: the connection  *)
(* closes and the transaction rolls back.                                  *)
Abort(r) ==
  /\ pc[r] \in {"locked", "chosen"}
  /\ lock' = None
  /\ End(r, "aborted")
  /\ UNCHANGED <<environment, today, row, filled, pointerVars, given, upload>>

-----------------------------------------------------------------------------
(* customer_service: CAF rows and the customer's environment *)

Overlaps(c, d) == FolioFrom[c] <= FolioTo[d] /\ FolioFrom[d] <= FolioTo[c]

(* caf_problem and the overlap query of add_caf. *)
Acceptable(c) ==
  /\ CafEnv[c] # Unmarked
  /\ Suits(c, environment)
  /\ \A d \in Loaded : ~Overlaps(c, d)

CheckCaf(c) ==
  /\ upload[c] = "idle"
  /\ upload' = [upload EXCEPT ![c] =
                  IF Acceptable(c) THEN "checked" ELSE "rejected"]
  /\ UNCHANGED <<environment, today, row, filled, pointerVars, callVars>>

(* Inserts the row, uncommitted, and ensure_pointer looks for the pointer. *)
FlushCaf(c) ==
  /\ upload[c] = "checked"
  /\ upload' = [upload EXCEPT ![c] =
                  IF hasPointer THEN "flushed" ELSE "flushed_first"]
  /\ UNCHANGED <<environment, today, row, filled, pointerVars, callVars>>

(* Seeded fault: ensure_pointer merges a row with last_folio = 0.          *)
CommitCaf_ResetsPointer(c) ==
  /\ upload[c] \in {"flushed", "flushed_first"}
  /\ upload' = [upload EXCEPT ![c] = "stored"]
  /\ row' = [row EXCEPT ![c] = "active"]
  /\ filled' = filled \cup {c}
  /\ hasPointer' = TRUE
  /\ last' = IF upload[c] = "flushed_first" THEN 0 ELSE last
  /\ UNCHANGED <<environment, today, assigned, callVars>>

(* The router commits the CAF, the pointer and the audit entry together.   *)
(* Inserting a pointer that another upload has just inserted violates its  *)
(* primary key and rolls everything back.                                  *)
CommitCaf(c) ==
  LET taken == upload[c] = "flushed_first" /\ hasPointer IN
  /\ upload[c] \in {"flushed", "flushed_first"}
  /\ upload' = [upload EXCEPT ![c] = IF taken THEN "rejected" ELSE "stored"]
  /\ row' = IF taken THEN row ELSE [row EXCEPT ![c] = "active"]
  /\ filled' = IF taken THEN filled ELSE filled \cup {c}
  /\ hasPointer' = TRUE
  /\ UNCHANGED <<environment, today, last, assigned, callVars>>

RetireCaf(c) ==
  /\ row[c] = "active"
  /\ row' = [row EXCEPT ![c] = "exhausted"]
  /\ UNCHANGED <<environment, today, filled, pointerVars, callVars, upload>>

UpdateEnvironment(e) ==
  /\ e # environment
  /\ environment' = e
  /\ UNCHANGED <<today, row, filled, pointerVars, callVars, upload>>

NextDay ==
  /\ today < MaxDay
  /\ today' = today + 1
  /\ UNCHANGED <<environment, row, filled, pointerVars, callVars, upload>>

-----------------------------------------------------------------------------
Step(r) ==
  NoPointer(r) \/ LockPointer(r) \/ ChooseCaf(r) \/ Exhausted(r) \/ CommitFolio(r)

Next ==
  \/ \E r \in Call : Begin(r) \/ Step(r) \/ Abort(r)
  \/ \E c \in Caf : CheckCaf(c) \/ FlushCaf(c) \/ CommitCaf(c) \/ RetireCaf(c)
  \/ \E e \in Env : UpdateEnvironment(e)
  \/ NextDay

Spec == Init /\ [][Next]_vars

(* A call that has begun keeps running, and PostgreSQL grants a free row   *)
(* to one of those waiting: calls are finitely many, so weak fairness of   *)
(* each call's own steps is enough.                                        *)
Fairness == \A r \in Call : WF_vars(Step(r))

FairSpec == Spec /\ Fairness

-----------------------------------------------------------------------------
(* folio_report *)

UnusedFolios(c) == {f \in FolioFrom[c]..FolioTo[c] : f \notin assigned}

(* Seeded fault: a retired CAF is not told from one in use.                *)
CafState_IgnoresRetired(c) ==
  IF c \in filled /\ CafEnv[c] \notin {Unmarked, environment}
    THEN "wrong_environment"
  ELSE IF c \in filled /\ today > ExpiresOn[c] /\ UnusedFolios(c) # {}
    THEN "expired"
  ELSE IF FolioTo[c] <= last THEN "exhausted"
  ELSE IF FolioFrom[c] <= last + 1 THEN "in_use"
  ELSE "pending"

(* caf_state, from the columns: a row not yet backfilled has no IDK and no *)
(* expiry date.                                                            *)
CafState(c) ==
  IF c \in filled /\ CafEnv[c] \notin {Unmarked, environment}
    THEN "wrong_environment"
  ELSE IF c \in filled /\ today > ExpiresOn[c] /\ UnusedFolios(c) # {}
    THEN "expired"
  ELSE IF FolioTo[c] <= last THEN "exhausted"
  ELSE IF row[c] = "exhausted" THEN "retired"
  ELSE IF FolioFrom[c] <= last + 1 THEN "in_use"
  ELSE "pending"

ReportedUsable == {c \in Loaded : CafState(c) \in {"in_use", "pending"}}

(* Seeded fault: the folio at the pointer counted as still free. *)
Remaining_FromPointer(c) == {f \in FolioFrom[c]..FolioTo[c] : f >= last}

Remaining(c) == {f \in FolioFrom[c]..FolioTo[c] : f > last}

(* The folios behind usable_remaining; the ranges are disjoint. *)
UsableRemaining == UNION {Remaining(c) : c \in ReportedUsable}

-----------------------------------------------------------------------------
(* Properties *)

TypeOK ==
  /\ environment \in Env
  /\ today \in 0..MaxDay
  /\ row \in [Caf -> {"absent", "active", "exhausted"}]
  /\ filled \subseteq Caf
  /\ hasPointer \in BOOLEAN
  /\ last \in Folio \cup {0}
  /\ assigned \subseteq Folio
  /\ lock \in Call \cup {None}
  /\ pc \in [Call -> {"idle", "waiting", "locked", "chosen", "served",
                      "refused", "conflict", "aborted"}]
  /\ seenEnv \in [Call -> Env \cup {None}]
  /\ target \in [Call -> Nat]
  /\ pick \in [Call -> Caf \cup {None}]
  /\ examined \in [Call -> SUBSET Caf]
  /\ given \in [Call -> Folio \cup {0}]
  /\ upload \in [Caf -> {"idle", "checked", "flushed", "flushed_first",
                         "stored", "rejected"}]

(* The FOR UPDATE lock alone keeps two workers off the same folio: the     *)
(* unique constraint of FolioAssignment never has to stop one.             *)
NoConflict == \A r \in Call : pc[r] # "conflict"

Disjoint == \A c, d \in Loaded : c # d => ~Overlaps(c, d)

(* Correlativity: the folios assigned from a CAF leave no hole behind      *)
(* them, whatever was skipped, retired or switched in between (as long as  *)
(* the loaded ranges are disjoint).                                        *)
NoHoles ==
  Disjoint =>
    \A c \in Loaded : \A f \in assigned :
      InRange(f, c) => FolioFrom[c]..f \subseteq assigned

(* The inventory does not lie about what next_folio can use: for a row     *)
(* with its columns filled, in_use or pending means exactly that a call    *)
(* starting now would accept it.                                           *)
ReportAgrees ==
  \A c \in Loaded \cap filled :
    c \in ReportedUsable <=>
      row[c] = "active" /\ FolioTo[c] > last /\ Suits(c, environment)

(* usable_remaining counts down by exactly the folio handed out, unless    *)
(* the picture the call had read is stale: the CAF was retired, expired or *)
(* switched environment meanwhile, or a lower CAF arrived.                 *)
CountsDown ==
  [][\A r \in Call :
       /\ CommitFolio(r)
       /\ Disjoint /\ Loaded \subseteq filled
       /\ pick[r] \in ReportedUsable
       /\ \A d \in ReportedUsable : FolioFrom[pick[r]] <= FolioFrom[d]
       => UsableRemaining \ UsableRemaining' = {given'[r]}]_vars

(* A CAF skipped because it expired or belongs elsewhere is reported so    *)
(* from then on while it has unused folios, never as exhausted: they must  *)
(* be annulled at the SII.                                                 *)
SkippedIsReported ==
  [][\A r \in Call :
       CommitFolio(r) /\ seenEnv[r] = environment =>
         \A d \in examined[r] \ {pick[r]} :
           UnusedFolios(d)' # {}
             => CafState(d)' \in {"wrong_environment", "expired"}]_vars

(* Every call that begins is answered: nobody waits on the pointer row     *)
(* for ever.                                                               *)
CallsEnd ==
  \A r \in Call :
    pc[r] = "waiting" ~> pc[r] \in {"served", "refused", "conflict", "aborted"}

Dispenser ==
  INSTANCE FolioDispenser
    WITH Ranges <- {[from |-> FolioFrom[c], to |-> FolioTo[c]] : c \in Caf}

(* The allocator keeps the promise of FolioDispenser. *)
ImplementsDispenser == Dispenser!DispenserSpec
=============================================================================
