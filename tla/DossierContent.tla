--------------------------- MODULE DossierContent ---------------------------
(***************************************************************************)
(* What the system puts into a test set of the certification               *)
(* (certification_fill.py): issuer, date, case reference and receivers of  *)
(* the documents a definition lists, and the lines of the guide book, read *)
(* back from envelopes the SII accepted. A definition is [endpoint,        *)
(* documents]; a reference is [kind, index, dated] with kind "SET" (the    *)
(* case), "BATCH" (a document of the same lot) or "OTHER".                 *)
(***************************************************************************)
EXTENDS SalesLines, SequencesExt

OWN_CUSTOMER_DOCS == {33, 34, 52}
NATIONAL_NOTES == {56, 61}
INTERNAL_TRANSFER == 5
SII_RUT == "SII"
OWN_RUT == "ISSUER"
NOBODY == "NONE"
Blank == {NOBODY, SII_RUT}
WITHOUT_CASE_REFERENCE == {"simulacion"}

-----------------------------------------------------------------------------
(* Saving keeps only what belongs to the case.                             *)
Strip(doc) ==
  LET own == SelectSeq(doc.references, LAMBDA r : r.kind # "SET")
  IN  [doc EXCEPT !.issuer = NOBODY, !.issue_date = NULL,
         !.references = [i \in DOMAIN own |->
            [own[i] EXCEPT !.dated = IF own[i].kind = "BATCH" THEN @ ELSE FALSE]]]

(* The case comes first, then the references of the definition, dated.     *)
CaseReference(kind, doc, n) ==
  IF kind \in WITHOUT_CASE_REFERENCE THEN <<>>
  ELSE <<[kind |-> "SET", index |-> IF doc.case # NULL THEN doc.case ELSE n, dated |-> TRUE]>>

Completed(kind, doc, n, today) ==
  [doc EXCEPT !.issuer = OWN_RUT, !.issue_date = today, !.case = NULL,
     !.references = CaseReference(kind, doc, n) \o
        [i \in DOMAIN doc.references |->
           [doc.references[i] EXCEPT !.dated = @ \/ doc.references[i].kind # "BATCH"]]]

NeedsReceiver(doc) ==
  /\ doc.type \in OWN_CUSTOMER_DOCS
  /\ ~(doc.type = 52 /\ doc.transfer_type = INTERNAL_TRANSFER)
  /\ doc.receiver \in Blank

(* The destination is another warehouse of the issuer, if none was given.   *)
ToOwnWarehouse(doc) ==
  [doc EXCEPT !.receiver = OWN_RUT,
     !.transport = IF @ = {} THEN {"dest_address", "dest_commune"} ELSE @]

(* Seeded fault: the list of receivers is not advanced.                    *)
Receivers_Stuck(docs, list) ==
  [i \in DOMAIN docs |->
     IF NeedsReceiver(docs[i]) /\ list # <<>> THEN [docs[i] EXCEPT !.receiver = list[1]]
     ELSE docs[i]]
(* One pass: an internal transfer goes to the issuer, a sale to the next   *)
(* receiver of the list, a note to whoever its document already has.       *)
Receivers(docs, list) ==
  LET place(acc, doc) ==
        LET batch == SelectSeq(doc.references, LAMBDA r : r.kind = "BATCH")
            named == IF batch = <<>> THEN 0 ELSE batch[1].index
            before == Append(acc.docs, doc)
            filled == before \o SubSeq(docs, Len(before) + 1, Len(docs))
            to(rut, next) == [docs |-> Append(acc.docs, [doc EXCEPT !.receiver = rut]),
                              next |-> next]
        IN  IF doc.type = 52 /\ doc.transfer_type = INTERNAL_TRANSFER
            THEN [docs |-> Append(acc.docs, ToOwnWarehouse(doc)), next |-> acc.next]
            ELSE IF NeedsReceiver(doc) /\ list # <<>>
            THEN to(list[(acc.next % Len(list)) + 1], acc.next + 1)
            ELSE IF doc.type \in NATIONAL_NOTES /\ doc.receiver \in Blank
                    /\ named \in DOMAIN docs
            THEN to(filled[named].receiver, acc.next)
            ELSE to(doc.receiver, acc.next)
  IN  FoldLeft(place, [docs |-> <<>>, next |-> 0], docs).docs

(* fill: a definition of documents as it is emitted.                       *)
Fill(kind, docs, list, today) ==
  Receivers([i \in DOMAIN docs |-> Completed(kind, Strip(docs[i]), i, today)], list)

(* What the engine asks of a transfer of goods; transport is the fields of *)
(* the transport that a document informs, asked for once they are in force.*)
Res154Fields == {"plate", "carrier_rut", "driver", "dest_address", "dest_commune",
                 "departure_date", "departure_time", "arrival_date"}
AccompaniesGoods(doc) == doc.type = 52 \/ doc.dispatch_type # NULL
ValidTransfer(doc, inForce) ==
  /\ doc.type = 52 <=> doc.transfer_type # NULL
  /\ doc.transfer_type = INTERNAL_TRANSFER => doc.receiver = doc.issuer
  /\ AccompaniesGoods(doc) /\ inForce => Res154Fields \subseteq doc.transport

-----------------------------------------------------------------------------
(* A guide; the case of the set says which ones were voided afterwards,    *)
(* and a voided one brings no amount.                                      *)
GuideLine(t, transfer) ==
  [folio |-> t.folio, total_amount |-> Printed(t, "MntTotal"), transfer_type |-> transfer,
   voided |-> NULL, modified_amount |-> NULL]

LinesFromEnvelope(guides, voidedCases) ==
  [i \in DOMAIN guides |->
     IF i \in voidedCases
     THEN [guides[i] EXCEPT !.voided = AFTER_SENDING, !.total_amount = 0]
     ELSE guides[i]]
=============================================================================
