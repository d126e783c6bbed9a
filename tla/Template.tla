------------------------------ MODULE Template ------------------------------
(***************************************************************************)
(* The test sets as the service creates them for a taxpayer who begins a   *)
(* certification (certification_template.py): which documents a set has,   *)
(* in which order, and which of them refers to which. Names and the data   *)
(* of customs are left out; the filler price is a parameter, for the       *)
(* operator replaces it. A document has the fields DossierContent fills    *)
(* and those Documents computes with.                                      *)
(***************************************************************************)
EXTENDS DossierContent

ANNULS == 1
CORRECTS_TEXT == 2
CORRECTS_AMOUNT == 3
IMPORTER == "IMPORTER"
PRINCIPAL == "PRINCIPAL"
FOREIGN_RATE == 100   \* one peso, to be replaced
CHARGE == 100
HOTEL_SERVICE == 4

-----------------------------------------------------------------------------
Blank0 ==
  [type |-> NULL, folio |-> 1, items |-> <<>>, global_discounts |-> <<>>, retentions |-> <<>>,
   additional_taxes |-> <<>>, prices_include_vat |-> FALSE, references |-> <<>>,
   lines |-> <<>>, commissions |-> <<>>, receiver |-> NOBODY, transfer_type |-> NULL,
   dispatch_type |-> NULL, transport |-> {}, issuer |-> NOBODY, issue_date |-> NULL,
   case |-> NULL, service |-> NULL, exchange_rate |-> NULL, payment_mode |-> NULL]

ItemOf(price, exempt) ==
  [halves |-> 2, unit_price |-> price, discount_amount |-> NULL, discount_pct |-> 0,
   exempt |-> exempt, additional_tax_code |-> NULL]
Afectos(n, price) == [i \in 1..n |-> ItemOf(price, FALSE)]
Exentos(n, price) == [i \in 1..n |-> ItemOf(price, TRUE)]

Ref(index, code) == [kind |-> "BATCH", index |-> index, code |-> code, dated |-> FALSE]
RefExterna(type) == [kind |-> "OTHER", index |-> type, code |-> NULL, dated |-> FALSE]

Document(type, items) == [type |-> type, items |-> items] @@ Blank0
NoteOf(type, items, index, code) ==
  [Document(type, items) EXCEPT !.references = <<Ref(index, code)>>]

-----------------------------------------------------------------------------
(* The fourth invoice has a discount over its affected lines only. *)
Basico(p) ==
  <<Document(33, Afectos(2, p)), Document(33, Afectos(2, p)), Document(33, Afectos(3, p)),
    [Document(33, Append(Afectos(2, p), ItemOf(p, TRUE))) EXCEPT !.global_discounts =
       <<[kind |-> "D", value_type |-> "%", value |-> 20, scope |-> "afecto"]>>],
    NoteOf(61, Afectos(1, 0), 1, CORRECTS_TEXT),
    NoteOf(61, Afectos(2, p), 2, CORRECTS_AMOUNT),
    NoteOf(61, Afectos(3, p), 3, ANNULS),
    NoteOf(56, Afectos(1, 0), 5, ANNULS)>>

(* A transfer within the company, and two sales, one sent by each side.    *)
Guias(p) ==
  <<[Document(52, Afectos(3, 0)) EXCEPT !.transfer_type = INTERNAL_TRANSFER,
                                        !.transport = {"dest_address"}],
    [Document(52, Afectos(2, p)) EXCEPT !.transfer_type = 1, !.dispatch_type = 2],
    [Document(52, Afectos(2, p)) EXCEPT !.transfer_type = 1, !.dispatch_type = 1]>>

Exenta(p) ==
  <<Document(34, Exentos(1, p)), NoteOf(61, Exentos(1, p), 1, CORRECTS_AMOUNT),
    Document(34, Exentos(2, p)), NoteOf(61, Exentos(1, 0), 3, CORRECTS_TEXT),
    NoteOf(56, Exentos(1, 0), 4, ANNULS), Document(34, Exentos(2, p)),
    NoteOf(61, Exentos(1, p), 6, CORRECTS_AMOUNT), NoteOf(56, Exentos(1, p), 6, CORRECTS_AMOUNT)>>

(* Export documents: prices in the foreign currency, charges on the whole. *)
Exported(type, n, p, charges, references) ==
  [type |-> type, receiver |-> IMPORTER, exchange_rate |-> FOREIGN_RATE,
   items |-> [i \in 1..n |-> [halves |-> 2, unit_price |-> p * UNIT, amount |-> 0,
                              discount_pct |-> 0, surcharge_pct |-> 0]],
   lines |-> [i \in 1..n |-> [quantity |-> 1, unit_price |-> p]],
   global_discounts |-> [i \in 1..charges |->
                           [kind |-> "R", value_type |-> "$", value |-> 100 * CHARGE]],
   references |-> references] @@ Blank0

Exportacion1(p) ==
  <<[Exported(110, 1, p, 2, <<RefExterna(810)>>) EXCEPT !.payment_mode = NO_PAYMENT],
    Exported(112, 1, p, 0, <<Ref(1, CORRECTS_AMOUNT)>>),
    Exported(111, 1, p, 0, <<Ref(2, ANNULS)>>)>>

(* The hotel's guest is identified by a passport, which the template does  *)
(* not bring: the operator adds the reference.                             *)
Exportacion2(p) ==
  <<[Exported(110, 1, p, 0, <<RefExterna(812)>>) EXCEPT !.payment_mode = 11, !.service = 3],
    [Exported(110, 2, p, 3, <<RefExterna(807), RefExterna(809)>>) EXCEPT
       !.payment_mode = NO_PAYMENT],
    [Exported(110, 1, p, 0, <<>>) EXCEPT !.service = HOTEL_SERVICE]>>

Liquidacion(p) ==
  LET settled(commissions) ==
        [items |-> <<[amount |-> p, exempt |-> FALSE]>>, receiver |-> PRINCIPAL,
         lines |-> <<[quantity |-> 1, unit_price |-> p, advance |-> FALSE,
                      liquidated_type |-> 33]>>,
         commissions |-> [i \in 1..commissions |->
                            [net_amount |-> CHARGE, exempt_amount |-> 0, fixed |-> FALSE,
                             vat_amount |-> 0]]] @@ Blank0
  IN  <<settled(0), settled(0), settled(2), settled(1)>>

(* The whole tax of a purchase invoice is retained, in its notes as well.  *)
FacturaCompra(p) ==
  LET kept(doc) == [doc EXCEPT !.retentions = <<[code |-> 15, amount |-> NULL]>>]
  IN  <<kept(Document(46, Afectos(2, p))),
        kept(NoteOf(61, Afectos(2, p), 1, CORRECTS_AMOUNT)),
        kept(NoteOf(56, Afectos(2, p), 2, ANNULS))>>

(* SETS; the books have no documents of their own.                         *)
TemplateSets(p) ==
  [basico |-> Basico(p), guias |-> Guias(p), exenta |-> Exenta(p),
   exportacion_1 |-> Exportacion1(p), exportacion_2 |-> Exportacion2(p),
   liquidacion |-> Liquidacion(p), factura_compra |-> FacturaCompra(p),
   libro_ventas |-> <<>>, libro_compras |-> <<>>, libro_guias |-> <<>>]

(* Only the sets that were given a number are created.                     *)
SetsForImport(codes, p) == [k \in codes \cap DOMAIN TemplateSets(p) |-> TemplateSets(p)[k]]

-----------------------------------------------------------------------------
(* The totals a document of the template is emitted with, and whether the  *)
(* engine accepts it.                                                      *)
AsDocument(doc) == [doc EXCEPT !.references = doc.references # <<>>]
Emits(doc) ==
  IF doc.type = NULL THEN SettlementTotales(doc)
  ELSE IF doc.type \in {110, 111, 112} THEN ExportTotales(doc)
  ELSE Totales(AsDocument(doc))
Accepts(doc) ==
  IF doc.type = NULL THEN ValidSettlement(doc)
  ELSE IF doc.type \in {110, 111, 112} THEN ValidExport(AsDocument(doc))
  ELSE ValidContent(AsDocument(doc))

Worth(t) == <<Printed(t, "MntNeto"), Printed(t, "MntExe"), Printed(t, "IVA"), t.MntTotal>>

(* Every document is one the engine accepts; a note refers to a document   *)
(* before it, so that the receiver is known; a note that annuls another    *)
(* document carries its amounts, and one that corrects a text carries none *)
(* (otherwise the SII objects, as the comments of the template say).       *)
SetHoldsTogether(docs) ==
  \A i \in DOMAIN docs :
    /\ Accepts(docs[i])
    /\ \A r \in DOMAIN docs[i].references :
         LET ref == docs[i].references[r]
         IN  ref.kind = "BATCH" =>
               /\ ref.index \in 1..(i - 1)
               /\ ref.code = ANNULS => Worth(Emits(docs[i])) = Worth(Emits(docs[ref.index]))
               /\ ref.code = CORRECTS_TEXT => Emits(docs[i]).MntTotal = 0
=============================================================================
