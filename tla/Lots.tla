-------------------------------- MODULE Lots --------------------------------
(***************************************************************************)
(* Emission of lots for one customer: N documents in one envelope, by      *)
(* dte_service.issue_batch and its twins for export and settlement, or N   *)
(* receipts (boletas) by receipt_service.issue_batch.                      *)
(*                                                                         *)
(* A lot takes its folios, and later records what became of them, one      *)
(* transaction per document; in between it builds the envelope and makes   *)
(* one upload, whose retries Emission shows. A receipt may name a folio    *)
(* reserved before; a document may refer to a position of its lot. Around  *)
(* a lot of DTE runs idempotency.run, which Emission models; receipts are  *)
(* stored by _store instead, and carry no key.                             *)
(***************************************************************************)
EXTENDS Naturals, Sequences, FiniteSets

CONSTANTS
  Lot,           \* requests that emit a lot
  Receipts,      \* the lots of receipts; the others are of DTE
  Docs,          \* the documents of each lot: records [type, named, ref]
  Reservation,   \* reservations of folios the ERP may name
  TypeOf,        \* the document type of each reservation
  NoReservation, \* the document names no folio
  MaxFolio       \* folios authorised for each type (model bound)

Folio == 1..MaxFolio
Slot == UNION {{l} \X DOMAIN Docs[l] : l \in Lot}
Type == {Docs[s[1]][s[2]].type : s \in Slot} \cup {TypeOf[r] : r \in Reservation}

(* A lot has some document (min_length of the request); only receipts name *)
(* a folio, and only DTE refer to a position.                              *)
ASSUME LotsAssumption ==
  /\ Receipts \subseteq Lot
  /\ MaxFolio \in Nat
  /\ NoReservation \notin Reservation
  /\ Slot \cap Reservation = {}
  /\ \A l \in Lot : Len(Docs[l]) \in Nat \ {0} /\ DOMAIN Docs[l] = 1..Len(Docs[l])
  /\ \A l \in Lot : \A i \in DOMAIN Docs[l] :
       /\ Docs[l][i].named # NoReservation =>
            /\ l \in Receipts
            /\ Docs[l][i].named \in Reservation
            /\ TypeOf[Docs[l][i].named] = Docs[l][i].type
       /\ Docs[l][i].ref # 0 => l \notin Receipts

VARIABLES
  last,        \* FolioPointer.last_folio of each type
  status,      \* FolioAssignment.status of each folio, free without a row
  reservation, \* the folio of each reservation, 0 before
  pc,          \* progress of each lot
  taken,       \* the folios each lot has so far: assigned
  outcome,     \* the status its folios are to have
  marked,      \* how many of them are recorded
  answer,      \* what the request will answer
  received,    \* the SII has the envelope of the lot
  stored,      \* IssuedReceipt: records [type, folio, lot, tracked]
  submission   \* ReceiptSubmission: the lots with a row

vars == <<last, status, reservation, pc, taken, outcome, marked, answer,
          received, stored, submission>>
folioVars == <<last, status, reservation>>
storeVars == <<stored, submission>>
resultVars == <<outcome, marked, answer>>

InService == {"numbering", "numbered", "posting", "sent", "recording"}
Ended == {"ok", "rejected", "error", "conflict", "crashed"}

Init ==
  /\ last = [t \in Type |-> 0]
  /\ status = [t \in Type |-> [f \in Folio |-> "free"]]
  /\ reservation = [r \in Reservation |-> 0]
  /\ pc = [l \in Lot |-> "idle"]
  /\ taken = [l \in Lot |-> <<>>]
  /\ outcome = [l \in Lot |-> "assigned"]
  /\ marked = [l \in Lot |-> 0]
  /\ answer = [l \in Lot |-> "ok"]
  /\ received = [l \in Lot |-> FALSE]
  /\ stored = {}
  /\ submission = {}

Goto(l, where) == pc' = [pc EXCEPT ![l] = where]

Mark(t, f, what) == status' = [status EXCEPT ![t][f] = what]

(* What the lot resolved to do with its folios and with its request.       *)
Resolve(l, fate, reply) ==
  /\ outcome' = [outcome EXCEPT ![l] = fate]
  /\ answer' = [answer EXCEPT ![l] = reply]
  /\ UNCHANGED marked

-----------------------------------------------------------------------------
(* next_folio of FolioAllocator, as its callers see it: FolioDispenser.    *)
Give(t, f) ==
  /\ f > last[t]
  /\ last' = [last EXCEPT ![t] = f]
  /\ Mark(t, f, "assigned")

(* POST /dte/folios/reserve. *)
Reserve(r) ==
  /\ reservation[r] = 0
  /\ \E f \in Folio :
       /\ Give(TypeOf[r], f)
       /\ reservation' = [reservation EXCEPT ![r] = f]
  /\ UNCHANGED <<pc, taken, resultVars, received, storeVars>>

-----------------------------------------------------------------------------
(* Every document is checked before any folio: _check_issuer and           *)
(* validate_content. The ERP names only folios it was given.               *)
StartLot(l) ==
  /\ pc[l] = "idle"
  /\ \A i \in DOMAIN Docs[l] :
       Docs[l][i].named # NoReservation => reservation[Docs[l][i].named] # 0
  /\ \E where \in {"numbering", "rejected"} : Goto(l, where)
  /\ UNCHANGED <<folioVars, taken, resultVars, received, storeVars>>

Doc(l) == Docs[l][Len(taken[l]) + 1]

Take(l, f) ==
  /\ taken' = [taken EXCEPT ![l] = Append(@, f)]
  /\ Goto(l, IF Len(taken[l]) + 1 = Len(Docs[l]) THEN "numbered" ELSE "numbering")

(* Seeded fault: the pointer does not move past the folio it gives. *)
TakeNext_StuckPointer(l) ==
  /\ pc[l] = "numbering"
  /\ Doc(l).named = NoReservation
  /\ \E f \in Folio :
       /\ f > last[Doc(l).type]
       /\ Mark(Doc(l).type, f, "assigned")
       /\ Take(l, f)
  /\ UNCHANGED <<last, reservation, resultVars, received, storeVars>>

(* One turn of the loop that numbers the documents. *)
TakeNext(l) ==
  /\ pc[l] = "numbering"
  /\ Doc(l).named = NoReservation
  /\ \E f \in Folio : Give(Doc(l).type, f) /\ Take(l, f)
  /\ UNCHANGED <<reservation, resultVars, received, storeVars>>

(* Seeded fault: the status of the named folio is not looked at. *)
TakeReserved_AnyStatus(l) ==
  /\ pc[l] = "numbering"
  /\ Doc(l).named # NoReservation
  /\ Take(l, reservation[Doc(l).named])
  /\ UNCHANGED <<folioVars, resultVars, received, storeVars>>

(* caf_for_reserved: the receipt names a folio, which must be assigned.    *)
(* Nothing is written, so another receipt may name it at the same time.    *)
TakeReserved(l) ==
  /\ pc[l] = "numbering"
  /\ Doc(l).named # NoReservation
  /\ status[Doc(l).type][reservation[Doc(l).named]] = "assigned"
  /\ Take(l, reservation[Doc(l).named])
  /\ UNCHANGED <<folioVars, resultVars, received, storeVars>>

(* No CAF has a folio left, or the named one is no longer assigned.        *)
NumberingFails(l) ==
  /\ pc[l] = "numbering"
  /\ Goto(l, "recording")
  /\ Resolve(l, "failed", "error")
  /\ UNCHANGED <<folioVars, taken, received, storeVars>>

(* _resolve_batch_references: a reference past the lot, or to itself.      *)
BadReference(l) ==
  \E i \in DOMAIN Docs[l] : Docs[l][i].ref > Len(Docs[l]) \/ Docs[l][i].ref = i

(* The references are filled in, the documents signed and wrapped.         *)
Build(l) ==
  /\ pc[l] = "numbered"
  /\ ~BadReference(l)
  /\ \E send \in BOOLEAN :
       IF send THEN Goto(l, "posting") /\ UNCHANGED resultVars
       ELSE /\ Goto(l, IF l \in Receipts THEN "sent" ELSE "recording")
            /\ Resolve(l, "issued", "ok")
  /\ UNCHANGED <<folioVars, taken, received, storeVars>>

(* Any step of it may fail; a bad reference always does, as a DomainError. *)
BuildFails(l) ==
  /\ pc[l] = "numbered"
  /\ Goto(l, "recording")
  /\ \E reply \in {"rejected", "error"} :
       /\ BadReference(l) => reply = "rejected"
       /\ Resolve(l, "failed", reply)
  /\ UNCHANGED <<folioVars, taken, received, storeVars>>

(* Seeded fault: DTE are stored as receipts as well. *)
UploadAnswered_StoresAll(l) ==
  /\ pc[l] = "posting"
  /\ received' = [received EXCEPT ![l] = TRUE]
  /\ Goto(l, "sent")
  /\ Resolve(l, "issued", "ok")
  /\ UNCHANGED <<folioVars, taken, storeVars>>

(* Answered by the SII. A receipt client asks for a TrackID; the upload of *)
(* DTE takes any answer.                                                   *)
UploadAnswered(l) ==
  /\ pc[l] = "posting"
  /\ \E got \in IF l \in Receipts THEN {TRUE} ELSE BOOLEAN :
       received' = [received EXCEPT ![l] = got]
  /\ Goto(l, IF l \in Receipts THEN "sent" ELSE "recording")
  /\ Resolve(l, "issued", "ok")
  /\ UNCHANGED <<folioVars, taken, storeVars>>

(* sending_outcome: failed or unknown, and either may have arrived.        *)
UploadFails(l) ==
  /\ pc[l] = "posting"
  /\ \E got \in BOOLEAN : received' = [received EXCEPT ![l] = got]
  /\ Goto(l, "recording")
  /\ \E fate \in {"failed", "unknown"} : Resolve(l, fate, "error")
  /\ UNCHANGED <<folioVars, taken, storeVars>>

-----------------------------------------------------------------------------
(* _register and _store of receipt_service *)

Rows(l) ==
  {[type |-> Docs[l][i].type, folio |-> taken[l][i], lot |-> l,
    tracked |-> received[l]] : i \in DOMAIN taken[l]}

(* The unique constraint of IssuedReceipt, against the table and within    *)
(* the lot.                                                                *)
Clashes(l) ==
  \/ Cardinality(Rows(l)) < Len(taken[l])
  \/ \E row \in Rows(l), old \in stored :
       row.type = old.type /\ row.folio = old.folio

(* Seeded fault: _register commits on its own instead of flushing. *)
Store_RegisterApart(l) ==
  /\ pc[l] = "sent"
  /\ submission' = IF received[l] THEN submission \cup {l} ELSE submission
  /\ IF Clashes(l) THEN Goto(l, "conflict") /\ UNCHANGED stored
     ELSE Goto(l, "recording") /\ stored' = stored \cup Rows(l)
  /\ UNCHANGED <<folioVars, taken, resultVars, received>>

(* Seeded fault: the folios are recorded without storing the receipts. *)
Store_Skipped(l) ==
  /\ pc[l] = "sent"
  /\ submission' = IF received[l] THEN submission \cup {l} ELSE submission
  /\ Goto(l, "recording")
  /\ UNCHANGED <<folioVars, taken, resultVars, received, stored>>

(* Seeded fault: a clash is tried again instead of raised. *)
Store_TriesAgain(l) ==
  /\ pc[l] = "sent"
  /\ ~Clashes(l)
  /\ Goto(l, "recording")
  /\ stored' = stored \cup Rows(l)
  /\ submission' = IF received[l] THEN submission \cup {l} ELSE submission
  /\ UNCHANGED <<folioVars, taken, resultVars, received>>

(* The submission and every receipt of the lot in one transaction. What    *)
(* goes wrong here goes past every except: nothing is recorded.            *)
Store(l) ==
  /\ pc[l] = "sent"
  /\ IF Clashes(l) THEN Goto(l, "conflict") /\ UNCHANGED storeVars
     ELSE /\ Goto(l, "recording")
          /\ stored' = stored \cup Rows(l)
          /\ submission' = IF received[l] THEN submission \cup {l} ELSE submission
  /\ UNCHANGED <<folioVars, taken, resultVars, received>>

-----------------------------------------------------------------------------
(* One turn of _mark_batch, or _mark. *)
RecordOutcome(l) ==
  LET i == marked[l] + 1 IN
  /\ pc[l] = "recording"
  /\ i <= Len(taken[l])
  /\ Mark(Docs[l][i].type, taken[l][i], outcome[l])
  /\ marked' = [marked EXCEPT ![l] = i]
  /\ UNCHANGED <<last, reservation, pc, taken, outcome, answer, received, storeVars>>

(* Seeded fault: the loop forgets the last document. *)
Reply_OffByOne(l) ==
  /\ pc[l] = "recording"
  /\ marked[l] + 1 >= Len(taken[l])
  /\ Goto(l, answer[l])
  /\ UNCHANGED <<folioVars, taken, resultVars, received, storeVars>>

(* All recorded: the exception goes on, or the response leaves. *)
Reply(l) ==
  /\ pc[l] = "recording"
  /\ marked[l] = Len(taken[l])
  /\ Goto(l, answer[l])
  /\ UNCHANGED <<folioVars, taken, resultVars, received, storeVars>>

(* The worker dies; what it had committed stays. *)
Crash(l) ==
  /\ pc[l] \in InService
  /\ Goto(l, "crashed")
  /\ UNCHANGED <<folioVars, taken, resultVars, received, storeVars>>

Serve(l) ==
  \/ TakeNext(l) \/ TakeReserved(l) \/ NumberingFails(l)
  \/ Build(l) \/ BuildFails(l) \/ UploadAnswered(l) \/ UploadFails(l)
  \/ Store(l) \/ RecordOutcome(l) \/ Reply(l)

Next ==
  \/ \E r \in Reservation : Reserve(r)
  \/ \E l \in Lot : StartLot(l) \/ Serve(l) \/ Crash(l)

Spec == Init /\ [][Next]_vars

(* The thread of a request in service runs on; nothing makes the ERP ask.  *)
FairSpec == Spec /\ \A l \in Lot : WF_vars(Serve(l))

-----------------------------------------------------------------------------
(* Properties *)

TypeOK ==
  /\ last \in [Type -> 0..MaxFolio]
  /\ status \in [Type -> [Folio -> {"free", "assigned", "issued", "failed", "unknown"}]]
  /\ reservation \in [Reservation -> 0..MaxFolio]
  /\ pc \in [Lot -> {"idle"} \cup InService \cup Ended]
  /\ \A l \in Lot : /\ taken[l] \in Seq(Folio)
                    /\ Len(taken[l]) <= Len(Docs[l])
                    /\ marked[l] \in 0..Len(taken[l])
  /\ outcome \in [Lot -> {"assigned", "issued", "failed", "unknown"}]
  /\ answer \in [Lot -> {"ok", "rejected", "error"}]
  /\ received \in [Lot -> BOOLEAN]
  /\ \A row \in stored : /\ row.type \in Type /\ row.folio \in Folio
                         /\ row.lot \in Receipts /\ row.tracked \in BOOLEAN
  /\ submission \subseteq Receipts

Held(l) == {<<Docs[l][i].type, taken[l][i]>> : i \in DOMAIN taken[l]}

(* A lot that shares no folio with another one, nor names one twice.       *)
Uncontested(l) ==
  /\ Cardinality(Held(l)) = Len(taken[l])
  /\ \A m \in Lot \ {l} : Held(l) \cap Held(m) = {}

(* The documents of an envelope share its fate: once its request is        *)
(* answered, with success or an error, every folio of a lot has the same   *)
(* status and none is left assigned. Only a reservation named twice, or a  *)
(* worker that died, spoils it.                                            *)
FateIsShared ==
  \A l \in Lot : pc[l] \in Ended \ {"crashed"} /\ Uncontested(l) =>
    \E fate \in {"issued", "failed", "unknown"} :
      \A h \in Held(l) : status[h[1]][h[2]] = fate

(* The buyer of a receipt that counts as issued can always fetch it: no    *)
(* crash or clash separates the status from the stored document.           *)
IssuedReceiptIsStored ==
  \A l \in Receipts : \A h \in Held(l) : status[h[1]][h[2]] = "issued" =>
    \E row \in stored : row.type = h[1] /\ row.folio = h[2]

(* The square of receipts against the SII starts from true counts: a       *)
(* submission has exactly the receipts of its lot, and a receipt that      *)
(* travelled belongs to a submission.                                      *)
SubmissionCounts ==
  /\ \A l \in submission :
       Cardinality({row \in stored : row.lot = l}) = Len(Docs[l])
  /\ \A row \in stored : row.tracked => row.lot \in submission

(* A later request cannot emit again on a reserved folio: whoever takes it *)
(* finds that every other lot that took it is still in service, died, or   *)
(* lost the folio to another one when it was stored.                       *)
ReservedNotReused ==
  [][\A l, m \in Lot :
       l # m /\ pc[m] \in {"ok", "rejected", "error"}
         => (Held(l)' \ Held(l)) \cap Held(m) = {}]_vars

OwnFolios(l) == {i \in DOMAIN taken[l] : Docs[l][i].named = NoReservation}

(* Reservations and documents without a named folio draw on the dispenser  *)
(* of their type.                                                          *)
Dispenser(t) ==
  INSTANCE FolioDispenser
    WITH Call <- Slot \cup Reservation,
         Ranges <- {[from |-> 1, to |-> MaxFolio]},
         last <- last[t],
         given <- [x \in Slot \cup Reservation |->
                     IF x \in Reservation
                     THEN IF TypeOf[x] = t THEN reservation[x] ELSE 0
                     ELSE IF x[2] \in OwnFolios(x[1]) /\ Docs[x[1]][x[2]].type = t
                          THEN taken[x[1]][x[2]] ELSE 0]

(* Lots and reservations together never draw a folio of a type twice:      *)
(* DispenserSpec of every type at once.                                    *)
DrawsFromDispenser ==
  /\ \A t \in Type : Dispenser(t)!DispenserInit
  /\ [][\A t \in Type :
         [Dispenser(t)!DispenserNext]_(Dispenser(t)!dispenserVars)]_vars

(* Every lot in service is answered, unless its worker dies. *)
LotsEnd == \A l \in Lot : pc[l] \in InService ~> pc[l] \in Ended

-----------------------------------------------------------------------------
(* A statement of the repository that the code does not keep *)

(* dte_service.issue_batch validates the whole lot before it touches any   *)
(* folio: a lot refused as malformed has spent none.                       *)
RefusedLotSpendsNothing ==
  \A l \in Lot : pc[l] = "rejected" => taken[l] = <<>>
=============================================================================
