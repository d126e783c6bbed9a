------------------------------ MODULE Emission ------------------------------
(***************************************************************************)
(* Emission of single documents for one customer and one document type:    *)
(* app/services/idempotency.py around dte_service.issue, the folios of     *)
(* folio_service and the upload of vendor/dte_chile's SIIClient.           *)
(*                                                                         *)
(* An attempt is one HTTP request for one sale of the ERP; the ERP repeats *)
(* a request whenever it likes, also while an earlier one is running,      *)
(* because it may never see the answer, and may reserve the folio of a     *)
(* sale beforehand. The idempotency key of a sale is the sale itself. Each *)
(* action is one database transaction or one HTTP exchange with the tax    *)
(* authority (SII); the worker may die between any two. A folio is taken   *)
(* by the Give step of FolioDispenser, which FolioAllocator implements.    *)
(***************************************************************************)
EXTENDS Naturals, FiniteSets

CONSTANTS
  Attempt,    \* HTTP requests to emit
  Sale,       \* documents of the ERP
  SaleOf,     \* the sale each attempt is for
  Keyed,      \* attempts that carry an Idempotency-Key
  MaxFolio,   \* folios authorised (model bound)
  MaxTries,   \* HTTP tries of one upload: 1 + the retries of build_session
  None        \* no sale

Folio == 1..MaxFolio

ASSUME EmissionAssumption ==
  /\ SaleOf \in [Attempt -> Sale]
  /\ Keyed \subseteq Attempt
  /\ MaxFolio \in Nat
  /\ MaxTries \in Nat \ {0}
  /\ None \notin Sale
  /\ Attempt \cap Sale = {}

VARIABLES
  last,        \* FolioPointer.last_folio
  status,      \* FolioAssignment.status of each folio, free without a row
  reservation, \* the folio reserved for each sale, 0 without one
  mark,        \* EmissionRequest.state of each sale's key, none without a row
  response,    \* folio in the stored response of each key
  archive,     \* IssuedDocument: the sale whose document holds each folio
  pc,          \* progress of each attempt
  folio,       \* the folio each attempt emits with, 0 before
  tries,       \* HTTP tries the upload of each attempt has made
  received     \* the SII has received the attempt's document

vars == <<last, status, reservation, mark, response, archive, pc, folio, tries,
          received>>
folioVars == <<last, status, reservation>>
keyVars == <<mark, response>>

Ended == {"answered", "replayed", "conflict", "refused", "error", "crashed"}

InService == {"replaying", "claimed", "numbered", "built", "posting",
              "never_left", "cut", "sent", "issued", "archiving", "archived",
              "raising_data", "raising_engine"}

Init ==
  /\ last = 0
  /\ status = [f \in Folio |-> "free"]
  /\ reservation = [s \in Sale |-> 0]
  /\ mark = [s \in Sale |-> "none"]
  /\ response = [s \in Sale |-> 0]
  /\ archive = [f \in Folio |-> None]
  /\ pc = [a \in Attempt |-> "idle"]
  /\ folio = [a \in Attempt |-> 0]
  /\ tries = [a \in Attempt |-> 0]
  /\ received = [a \in Attempt |-> FALSE]

Goto(a, where) == pc' = [pc EXCEPT ![a] = where]

Mark(f, what) == status' = [status EXCEPT ![f] = what]

-----------------------------------------------------------------------------
(* POST /dte/folios/reserve: next_folio without emitting. *)
Reserve(s) ==
  /\ reservation[s] = 0
  /\ \E f \in Folio :
       /\ f > last
       /\ last' = f
       /\ Mark(f, "assigned")
       /\ reservation' = [reservation EXCEPT ![s] = f]
  /\ UNCHANGED <<keyVars, archive, pc, folio, tries, received>>

-----------------------------------------------------------------------------
(* idempotency.run *)

(* Without a key every request emits. *)
StartUnkeyed(a) ==
  /\ pc[a] = "idle"
  /\ a \notin Keyed
  /\ Goto(a, "claimed")
  /\ UNCHANGED <<folioVars, keyVars, archive, folio, tries, received>>

(* Seeded fault: the mark of an emission that failed may be claimed again. *)
Claim_RetakesFailed(a) ==
  /\ pc[a] = "idle"
  /\ a \in Keyed
  /\ mark[SaleOf[a]] \in {"none", "failed"}
  /\ mark' = [mark EXCEPT ![SaleOf[a]] = "running"]
  /\ Goto(a, "claimed")
  /\ UNCHANGED <<folioVars, response, archive, folio, tries, received>>

(* _claim inserts the mark and commits: the unique constraint lets one in. *)
Claim(a) ==
  /\ pc[a] = "idle"
  /\ a \in Keyed
  /\ mark[SaleOf[a]] = "none"
  /\ mark' = [mark EXCEPT ![SaleOf[a]] = "running"]
  /\ Goto(a, "claimed")
  /\ UNCHANGED <<folioVars, response, archive, folio, tries, received>>

(* _claim meets the constraint and rolls back. *)
KeyTaken(a) ==
  /\ pc[a] = "idle"
  /\ a \in Keyed
  /\ mark[SaleOf[a]] # "none"
  /\ Goto(a, "replaying")
  /\ UNCHANGED <<folioVars, keyVars, archive, folio, tries, received>>

(* Seeded fault: the repeated request waits for the one that is running. *)
Replay_Waits(a) ==
  /\ pc[a] = "replaying"
  /\ mark[SaleOf[a]] # "running"
  /\ Goto(a, CASE mark[SaleOf[a]] = "done" -> "replayed"
               [] mark[SaleOf[a]] = "failed" -> "conflict"
               [] OTHER -> "error")
  /\ UNCHANGED <<folioVars, keyVars, archive, folio, tries, received>>

(* _replay reads the mark anew: it may be gone by then, deleted by         *)
(* _close_failed, and query.one() raises.                                  *)
Replay(a) ==
  /\ pc[a] = "replaying"
  /\ Goto(a, CASE mark[SaleOf[a]] = "done" -> "replayed"
               [] mark[SaleOf[a]] \in {"running", "failed"} -> "conflict"
               [] OTHER -> "error")
  /\ UNCHANGED <<folioVars, keyVars, archive, folio, tries, received>>

(* Seeded fault: any failure deletes the mark. *)
CloseFailed_AlwaysDelete(a) ==
  /\ pc[a] \in {"raising_data", "raising_engine"}
  /\ mark' = IF a \in Keyed THEN [mark EXCEPT ![SaleOf[a]] = "none"] ELSE mark
  /\ Goto(a, "refused")
  /\ UNCHANGED <<folioVars, response, archive, folio, tries, received>>

(* _close_failed: DomainError and ValueError delete the mark, anything     *)
(* else keeps it as failed. Without a key the exception just propagates.   *)
CloseFailed(a) ==
  LET closed == IF pc[a] = "raising_data" THEN "none" ELSE "failed" IN
  /\ pc[a] \in {"raising_data", "raising_engine"}
  /\ mark' = IF a \in Keyed THEN [mark EXCEPT ![SaleOf[a]] = closed] ELSE mark
  /\ Goto(a, "refused")
  /\ UNCHANGED <<folioVars, response, archive, folio, tries, received>>

(* _archive looks whether the folio's document is already stored. *)
ArchiveCheck(a) ==
  /\ pc[a] = "issued"
  /\ Goto(a, IF archive[folio[a]] = None THEN "archiving" ELSE "archived")
  /\ UNCHANGED <<folioVars, keyVars, archive, folio, tries, received>>

(* Seeded fault: the document is added to the session but not committed. *)
ArchiveCommit_Lost(a) ==
  /\ pc[a] = "archiving"
  /\ Goto(a, "archived")
  /\ UNCHANGED <<folioVars, keyVars, archive, folio, tries, received>>

(* _archive inserts and commits; an insert that lost a race breaks the     *)
(* unique constraint, outside the try of run(): the mark stays running.    *)
ArchiveCommit(a) ==
  LET stored == archive[folio[a]] # None IN
  /\ pc[a] = "archiving"
  /\ archive' = IF stored THEN archive
                ELSE [archive EXCEPT ![folio[a]] = SaleOf[a]]
  /\ Goto(a, IF stored THEN "error" ELSE "archived")
  /\ UNCHANGED <<folioVars, keyVars, folio, tries, received>>

(* The mark becomes done and keeps the response. *)
Finish(a) ==
  /\ pc[a] = "archived"
  /\ mark' = IF a \in Keyed THEN [mark EXCEPT ![SaleOf[a]] = "done"] ELSE mark
  /\ response' = IF a \in Keyed
                 THEN [response EXCEPT ![SaleOf[a]] = folio[a]] ELSE response
  /\ Goto(a, "answered")
  /\ UNCHANGED <<folioVars, archive, folio, tries, received>>

-----------------------------------------------------------------------------
(* dte_service.issue *)

(* _check_issuer and validate_content: DomainError before any folio. *)
RejectData(a) ==
  /\ pc[a] = "claimed"
  /\ Goto(a, "raising_data")
  /\ UNCHANGED <<folioVars, keyVars, archive, folio, tries, received>>

(* Seeded fault: the pointer does not move past the folio it gives. *)
NextFolio_StuckPointer(a) ==
  /\ pc[a] = "claimed"
  /\ \E f \in Folio :
       /\ f > last
       /\ UNCHANGED last
       /\ Mark(f, "assigned")
       /\ folio' = [folio EXCEPT ![a] = f]
  /\ Goto(a, "numbered")
  /\ UNCHANGED <<reservation, keyVars, archive, tries, received>>

(* The request names no folio: the next one is taken. *)
NextFolio(a) ==
  /\ pc[a] = "claimed"
  /\ \E f \in Folio :
       /\ f > last
       /\ last' = f
       /\ Mark(f, "assigned")
       /\ folio' = [folio EXCEPT ![a] = f]
  /\ Goto(a, "numbered")
  /\ UNCHANGED <<reservation, keyVars, archive, tries, received>>

(* FolioError and FoliosExhausted are engine errors, not data errors. *)
NoFolio(a) ==
  /\ pc[a] = "claimed"
  /\ Goto(a, "raising_engine")
  /\ UNCHANGED <<folioVars, keyVars, archive, folio, tries, received>>

(* The request names the folio reserved for its sale. caf_for_reserved is  *)
(* a plain SELECT of a row that must still be assigned.                    *)
UseReserved(a) ==
  LET f == reservation[SaleOf[a]] IN
  /\ pc[a] = "claimed"
  /\ f # 0
  /\ status[f] = "assigned"
  /\ folio' = [folio EXCEPT ![a] = f]
  /\ Goto(a, "numbered")
  /\ UNCHANGED <<folioVars, keyVars, archive, tries, received>>

ReservedSpent(a) ==
  LET f == reservation[SaleOf[a]] IN
  /\ pc[a] = "claimed"
  /\ f # 0
  /\ status[f] # "assigned"
  /\ Goto(a, "raising_engine")
  /\ UNCHANGED <<folioVars, keyVars, archive, folio, tries, received>>

(* Stamp, sign, wrap and validate the document; req.send decides the rest. *)
Build(a) ==
  /\ pc[a] = "numbered"
  /\ \E send \in BOOLEAN : Goto(a, IF send THEN "built" ELSE "sent")
  /\ UNCHANGED <<folioVars, keyVars, archive, folio, tries, received>>

(* Seeded fault: the burned folio is not recorded. *)
BuildFails_Unmarked(a) ==
  /\ pc[a] = "numbered"
  /\ \E kind \in {"raising_data", "raising_engine"} : Goto(a, kind)
  /\ UNCHANGED <<folioVars, keyVars, archive, folio, tries, received>>

(* The folio is burned. The engine raises ValueError here as well (a TED   *)
(* field it cannot encode), which run() takes for a data error.            *)
BuildFails(a) ==
  /\ pc[a] = "numbered"
  /\ Mark(folio[a], "failed")
  /\ \E kind \in {"raising_data", "raising_engine"} : Goto(a, kind)
  /\ UNCHANGED <<last, reservation, keyVars, archive, folio, tries, received>>

(* Seed and token come before the upload. SiiAuthError and a connection    *)
(* timeout read as failed, any other network error as unknown.             *)
Authenticate(a) ==
  /\ pc[a] = "built"
  /\ \E to \in {"posting", "never_left", "cut"} : Goto(a, to)
  /\ UNCHANGED <<folioVars, keyVars, archive, folio, tries, received>>

(* The session answers with a TrackID, or with something that carries none *)
(* (an HTML page, an XML without TRACKID), which send_dte also returns.    *)
PostAnswered(a) ==
  /\ pc[a] = "posting"
  /\ \E got \in {TRUE, received[a]} : received' = [received EXCEPT ![a] = got]
  /\ tries' = [tries EXCEPT ![a] = 0]
  /\ Goto(a, "sent")
  /\ UNCHANGED <<folioVars, keyVars, archive, folio>>

(* Seeded fault: one retry too many. *)
Retry_OffByOne(a, last_resort) ==
  LET spent == tries[a] = MaxTries IN
  /\ tries' = [tries EXCEPT ![a] = IF spent THEN 0 ELSE @ + 1]
  /\ Goto(a, IF spent THEN last_resort ELSE "posting")

(* build_session: urllib3 tries again until the retries are spent, and     *)
(* then raises what the last try met.                                      *)
Retry(a, last_resort) ==
  LET spent == tries[a] + 1 = MaxTries IN
  /\ tries' = [tries EXCEPT ![a] = IF spent THEN 0 ELSE @ + 1]
  /\ Goto(a, IF spent THEN last_resort ELSE "posting")

(* The try ends in a 5xx, a reset or a read timeout: the SII may or may    *)
(* not have the document. Retried, and unknown after the last try.         *)
PostLost(a) ==
  /\ pc[a] = "posting"
  /\ \E got \in {TRUE, received[a]} : received' = [received EXCEPT ![a] = got]
  /\ Retry(a, "cut")
  /\ UNCHANGED <<folioVars, keyVars, archive, folio>>

(* The try never connects. If it is the last one, requests raises          *)
(* ConnectTimeout, which sending_outcome takes as proof that nothing left. *)
PostUnconnected(a) ==
  /\ pc[a] = "posting"
  /\ Retry(a, "never_left")
  /\ UNCHANGED <<folioVars, keyVars, archive, folio, received>>

SendingOutcome(a) == IF pc[a] = "never_left" THEN "failed" ELSE "unknown"

SendFails(a) ==
  /\ pc[a] \in {"never_left", "cut"}
  /\ Mark(folio[a], SendingOutcome(a))
  /\ Goto(a, "raising_engine")
  /\ UNCHANGED <<last, reservation, keyVars, archive, folio, tries, received>>

MarkIssued(a) ==
  /\ pc[a] = "sent"
  /\ Mark(folio[a], "issued")
  /\ Goto(a, "issued")
  /\ UNCHANGED <<last, reservation, keyVars, archive, folio, tries, received>>

-----------------------------------------------------------------------------
(* The worker dies; what it had committed stays. *)
Crash(a) ==
  /\ pc[a] \in InService
  /\ Goto(a, "crashed")
  /\ tries' = [tries EXCEPT ![a] = 0]
  /\ UNCHANGED <<folioVars, keyVars, archive, folio, received>>

Start(a) == StartUnkeyed(a) \/ Claim(a) \/ KeyTaken(a)

Post(a) == PostAnswered(a) \/ PostLost(a) \/ PostUnconnected(a)

Serve(a) ==
  \/ Replay(a) \/ CloseFailed(a) \/ ArchiveCheck(a) \/ ArchiveCommit(a) \/ Finish(a)
  \/ RejectData(a) \/ NextFolio(a) \/ NoFolio(a) \/ UseReserved(a) \/ ReservedSpent(a)
  \/ Build(a) \/ BuildFails(a) \/ Authenticate(a) \/ Post(a) \/ SendFails(a)
  \/ MarkIssued(a)

Next ==
  \/ \E s \in Sale : Reserve(s)
  \/ \E a \in Attempt : Start(a) \/ Serve(a) \/ Crash(a)

Spec == Init /\ [][Next]_vars

(* The thread of a request in service runs on: every wait in it has a      *)
(* timeout. Nothing makes the ERP send a request.                          *)
FairSpec == Spec /\ \A a \in Attempt : WF_vars(Serve(a))

-----------------------------------------------------------------------------
(* Properties *)

TypeOK ==
  /\ last \in 0..MaxFolio
  /\ status \in [Folio -> {"free", "assigned", "issued", "failed", "unknown"}]
  /\ reservation \in [Sale -> 0..MaxFolio]
  /\ mark \in [Sale -> {"none", "running", "done", "failed"}]
  /\ response \in [Sale -> 0..MaxFolio]
  /\ archive \in [Folio -> Sale \cup {None}]
  /\ pc \in [Attempt -> {"idle"} \cup InService \cup Ended]
  /\ folio \in [Attempt -> 0..MaxFolio]
  /\ tries \in [Attempt -> 0..(MaxTries - 1)]
  /\ received \in [Attempt -> BOOLEAN]

(* The promise of the Idempotency-Key: of all the attempts that carry the  *)
(* key of a sale, however they overlap, fail, crash or are repeated, the   *)
(* documents of at most one reach the SII.                                 *)
KeyEmitsOnce ==
  \A a, b \in Keyed :
    received[a] /\ received[b] /\ SaleOf[a] = SaleOf[b] => a = b

(* A retry is told of the document that exists: once the mark is done, any *)
(* document emitted under the key carries the stored folio, and its XML is *)
(* archived under that folio.                                              *)
ReplayNamesDocument ==
  \A s \in Sale : mark[s] = "done" =>
    /\ archive[response[s]] = s
    /\ \A a \in Keyed : SaleOf[a] = s /\ received[a] => folio[a] = response[s]

(* Two sales never share a folio at the SII, reserved or not. *)
FolioIsOfOneSale ==
  \A a, b \in Attempt :
    folio[a] # 0 /\ folio[a] = folio[b] => SaleOf[a] = SaleOf[b]

(* The inventory's orphans are what it says: a folio keeps the status      *)
(* assigned only while its attempt runs, after a crash, or reserved and    *)
(* not yet used. Every error path records what became of the folio.        *)
OrphansComeFromCrashes ==
  \A f \in Folio : status[f] = "assigned" =>
    \/ \E a \in Attempt : folio[a] = f /\ pc[a] \in InService \cup {"crashed"}
    \/ /\ \E s \in Sale : reservation[s] = f
       /\ \A a \in Attempt : folio[a] # f

(* The folios reserved and the folios the attempts took themselves: a      *)
(* reserved folio was handed to its sale, not to the attempt that uses it. *)
Dispenser ==
  INSTANCE FolioDispenser
    WITH Call <- Attempt \cup Sale,
         Ranges <- {[from |-> 1, to |-> MaxFolio]},
         given <- [x \in Attempt \cup Sale |->
                     IF x \in Sale THEN reservation[x]
                     ELSE IF folio[x] = reservation[SaleOf[x]] THEN 0
                     ELSE folio[x]]

(* Emission and reservation draw on one dispenser: together they never     *)
(* hand the same folio out twice, nor change one already given.            *)
DrawsFromDispenser == Dispenser!DispenserSpec

(* The keys as their clients see them: a mark left running or failed keeps *)
(* its key taken, and whoever is answered is told the stored response.     *)
Promise ==
  INSTANCE OncePerKey
    WITH Key <- Sale,
         Request <- Keyed,
         KeyOf <- SaleOf,
         state <- [s \in Sale |-> CASE mark[s] = "none" -> "open"
                                     [] mark[s] = "done" -> "done"
                                     [] OTHER -> "taken"],
         working <- [s \in Sale |->
                       {a \in Keyed : SaleOf[a] = s /\ pc[a] \in InService \ {"replaying"}}],
         number <- [a \in Keyed |-> folio[a]],
         delivered <- [s \in Sale |-> {a \in Keyed : SaleOf[a] = s /\ received[a]}],
         reply <- response,
         told <- [a \in Keyed |->
                    IF pc[a] \in {"answered", "replayed"} THEN response[SaleOf[a]] ELSE 0]

(* The requests of a key, however they overlap, are repeated or die, show  *)
(* what OncePerKey allows and nothing else.                                *)
KeepsPromise == Promise!OnceSpec

(* Every request in service is answered, unless its worker dies. *)
AttemptsEnd == \A a \in Attempt : pc[a] \in InService ~> pc[a] \in Ended

-----------------------------------------------------------------------------
(* Statements of the repository that the code does not keep *)

(* dte_service.sending_outcome: failed only when it is certain that the    *)
(* document never left.                                                    *)
FailedNeverArrived ==
  \A a \in Attempt :
    folio[a] # 0 /\ status[folio[a]] = "failed" => ~received[a]

(* folio_service.caf_for_reserved: nobody emits again on a folio already   *)
(* used.                                                                   *)
ReservedEmittedOnce ==
  \A a, b \in Attempt :
    received[a] /\ received[b] /\ folio[a] = folio[b] => a = b

(* idempotency.py: every document emitted is archived here. The service    *)
(* has finished with the attempt and its worker did not die.               *)
EmittedIsArchived ==
  \A a \in Attempt :
    received[a] /\ pc[a] \in Ended \ {"crashed"} => archive[folio[a]] # None
=============================================================================
