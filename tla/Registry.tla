------------------------------- MODULE Registry -----------------------------
(***************************************************************************)
(* The registry of purchases and sales of the SII (rcv.py) and its         *)
(* reconciliation with the documents of the taxpayer's own system          *)
(* (rcv_service.py). A RUT is [id, form]: the same taxpayer may be written *)
(* in more than one form, and only the reconciliation normalises it.       *)
(***************************************************************************)
EXTENDS Amounts

(* A row of the CSV without a type or a folio is not a document.           *)
Processable(row) == row.doc_type # NULL /\ row.folio # NULL

Amounts4 == {"exempt_amount", "net_amount", "vat_amount", "total_amount"}

(* Purchases only bring the VAT that may be recovered.                     *)
RcvDocument(row, operation, state) ==
  [doc_type |-> row.doc_type, folio |-> row.folio, rut |-> row.rut, date |-> row.date,
   state |-> state, exempt_amount |-> row.exempt_amount, net_amount |-> row.net_amount,
   vat_amount |-> IF operation = "COMPRA" THEN row.recoverable ELSE row.vat,
   total_amount |-> row.total_amount]

(* The rows of each state, in the order in which the code asks for them.   *)
Flattened(detail, operation) ==
  LET rows(state) == [i \in DOMAIN detail[state] |->
                        RcvDocument(detail[state][i], operation, state)]
  IN  IF operation = "COMPRA"
      THEN rows("REGISTRO") \o rows("RECLAMADO") \o rows("PENDIENTE")
      ELSE rows("REGISTRO")

RowKey(d) == <<d.doc_type, d.rut, d.folio>>

(* Seeded fault: the extra lines of taxes are taken for documents.         *)
Normalize_KeepsExtraLines(detail, operation) ==
  LET all == Flattened(detail, operation)
  IN  Restrict(all, {i \in DOMAIN all : Processable(all[i])})
(* Of the rows with one key the first is kept. The list that remains keeps *)
(* the places the rows had, in their order.                                *)
Normalize(detail, operation) ==
  LET all == Flattened(detail, operation)
      documents == {i \in DOMAIN all : Processable(all[i])}
  IN  Restrict(all, {i \in documents :
                       \A j \in documents : j < i => RowKey(all[j]) # RowKey(all[i])})

(* normalize_rut: type, taxpayer and folio identify a document.            *)
Key(d) == <<d.doc_type, d.rut.id, d.folio>>

(* A dictionary by key: of the documents with one key the last stays.      *)
ByKey(docs) ==
  [k \in {Key(docs[i]) : i \in DOMAIN docs} |->
     docs[CHOOSE i \in DOMAIN docs :
            Key(docs[i]) = k /\ \A j \in DOMAIN docs : Key(docs[j]) = k => j <= i]]

Differences(sii, source) ==
  {f \in Amounts4 \cup {"date"} : sii[f] # source[f]}

Reconcile(siiDocuments, sourceDocuments) ==
  LET sii == ByKey(siiDocuments)
      source == ByKey(sourceDocuments)
      both == DOMAIN sii \cap DOMAIN source
      onlySii == DOMAIN sii \ DOMAIN source
      onlySource == DOMAIN source \ DOMAIN sii
      mismatched == {k \in both : Differences(sii[k], source[k]) # {}}
      total(docs) == SumFunction([i \in DOMAIN docs |-> docs[i].total_amount])
  IN  [matched |-> Cardinality(both), only_in_sii |-> onlySii, only_in_source |-> onlySource,
       mismatched |-> mismatched, balanced |-> onlySii \cup onlySource \cup mismatched = {},
       sii_total |-> total(siiDocuments), source_total |-> total(sourceDocuments)]
-----------------------------------------------------------------------------
(* What the reconciliation calls balanced adds up the same on both sides,  *)
(* if the taxpayer lists no document twice; and its groups tell every      *)
(* document of either side apart.                                          *)
BalancedMeansEqual(siiDocuments, sourceDocuments, r) ==
  LET listed(docs) == {Key(docs[i]) : i \in DOMAIN docs}
      size(docs) == Cardinality(DOMAIN docs)
      once(docs) == Cardinality(listed(docs)) = size(docs)
  IN  /\ r.balanced /\ once(sourceDocuments) => r.sii_total = r.source_total
      /\ r.matched + Cardinality(r.only_in_sii) = size(siiDocuments)
      /\ once(sourceDocuments) =>
           r.matched + Cardinality(r.only_in_source) = size(sourceDocuments)
      /\ \A k \in r.mismatched : k \in listed(siiDocuments) \cap listed(sourceDocuments)
=============================================================================
