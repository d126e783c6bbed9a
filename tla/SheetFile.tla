------------------------------ MODULE SheetFile -----------------------------
(***************************************************************************)
(* The files the SII hands out, section by section (certification_sheet.py)*)
(* and how what was read of them is loaded: import_sheet and _apply_sets   *)
(* of routers/certification.py. A text that is not understood refuses the  *)
(* whole request.                                                          *)
(***************************************************************************)
EXTENDS Sheet

NoPayload ==
  [ok |-> TRUE, documents |-> <<>>, receipts |-> <<>>, voided |-> {}, lines |-> <<>>,
   factor |-> NULL]

-----------------------------------------------------------------------------
(* The cases of a set, from its first CASO to the rule after the last.     *)
Cases(body) ==
  LET split(acc, line) ==
        IF line.key = "CASO"
        THEN [open |-> TRUE, cases |-> Append(acc.cases, [code |-> line.numbers[1],
                                          number |-> line.numbers[2], lines |-> <<>>])]
        ELSE IF ~acc.open THEN acc
        ELSE IF line.key = "RULE" THEN [acc EXCEPT !.open = FALSE]
        ELSE [acc EXCEPT !.cases[Len(acc.cases)].lines = Append(@, line)]
  IN  FoldLeft(split, [open |-> FALSE, cases |-> <<>>], body).cases

(* They are numbered from one, under the number of the set, and each is    *)
(* read with those before it.                                              *)
Documentos(kind, code, body) ==
  LET cases == Cases(body)
      read(acc, c) ==
        LET r == FoldLeft(LAMBDA x, line : ReadLine(code, c.number, x, line), Unread, c.lines)
        IN  IF /\ acc.ok /\ c.code = code /\ c.number = Len(acc.documents) + 1
               /\ Understood(kind, r, Referred(r, acc.documents))
            THEN [acc EXCEPT !.documents = Append(@, Caso(kind, r, Referred(r, acc.documents)))]
            ELSE [acc EXCEPT !.ok = FALSE]
  IN  [FoldLeft(read, NoPayload, cases) EXCEPT !.ok = @ /\ cases # <<>>]

-----------------------------------------------------------------------------
(* Books. The guides that were voided are named by their cases.            *)
LibroGuias(body) ==
  [NoPayload EXCEPT !.voided =
     {body[i].numbers[1] : i \in {j \in DOMAIN body : body[j].key = "VOIDED GUIDE"}}]

(* The table of purchases lies between the second and the third rule; a    *)
(* purchase takes three rows: document, observation and amounts. The first *)
(* amount is exempt, unless the row begins with a tabulator.               *)
Marks(body) == SelectSeq([i \in DOMAIN body |-> i], LAMBDA i : body[i].key = "=")
Purchases(body) ==
  SelectSeq(SubSeq(body, Marks(body)[2] + 1, Marks(body)[3] - 1), LAMBDA l : l.key # "")
Amounts3(row) ==
  IF row.key = "TAB" THEN <<0, row.numbers[1]>>
  ELSE IF Len(row.numbers) = 2 THEN row.numbers ELSE <<row.numbers[1], 0>>

Observations == {"DERECHO A CREDITO", "IVA USO COMUN", "ENTREGA GRATUITA", "RETENCION TOTAL",
                 "NOTA DE CREDITO", "NOTA DE DEBITO"}
LineaCompra(type, exempt, net, observation) ==
  LET iva == RoundHalfUp(net * VAT_RATE, 100)
      special == CASE observation = "IVA USO COMUN" -> [vat_amount |-> 0, common_use_vat |-> iva]
                   [] observation = "ENTREGA GRATUITA" ->
                        [vat_amount |-> 0,
                         non_recoverable_vat |-> <<[code |-> 4, amount |-> iva]>>]
                   [] observation = "RETENCION TOTAL" -> [retained_total_vat |-> iva]
                   [] OTHER -> <<>>
  IN  special @@ [doc_type |-> type, exempt_amount |-> exempt, net_amount |-> net,
                  vat_amount |-> iva,
                  total_amount |-> exempt + net
                                   + IF observation = "RETENCION TOTAL" THEN 0 ELSE iva]
      @@ BlankLine

LibroCompras(body) ==
  LET rows == Purchases(body)
      factor == SelectInSeq(body, LAMBDA l : l.key = "FACTOR")
      document(i) == rows[3 * i - 2]
      observation(i) == rows[3 * i - 1].says
      line(i) == LET amounts == Amounts3(rows[3 * i])
                 IN  LineaCompra(PurchaseTypes[document(i).says], amounts[1], amounts[2],
                                 observation(i))
      read == /\ Len(Marks(body)) >= 3 /\ Len(rows) % 3 = 0
              /\ \A i \in 1..(Len(rows) \div 3) :
                   /\ document(i).says \in DOMAIN PurchaseTypes
                   /\ observation(i) \in Observations
  IN  IF ~read THEN [NoPayload EXCEPT !.ok = FALSE]
      ELSE [NoPayload EXCEPT !.lines = [i \in 1..(Len(rows) \div 3) |-> line(i)],
              !.factor = IF factor = 0 THEN NULL ELSE body[factor].numbers[1]]

-----------------------------------------------------------------------------
(* The set of receipts is another file: CASO-n, up to a rule of its own.   *)
ReceiptCases(lines) ==
  LET split(acc, line) ==
        IF line.key = "CASO-" THEN Append(acc, [number |-> line.numbers[1], lines |-> <<>>])
        ELSE IF acc = <<>> THEN acc
        ELSE [acc EXCEPT ![Len(acc)].lines = Append(@, line)]
      upTo(body) == LET end == SelectInSeq(body, LAMBDA l : l.key = "FIN")
                    IN  IF end = 0 THEN body ELSE SubSeq(body, 1, end - 1)
      cases == FoldLeft(split, <<>>, lines)
  IN  [i \in DOMAIN cases |-> [cases[i] EXCEPT !.lines = upTo(@)]]

(* An observation marks the items above it: some as exempt, all with their *)
(* unit.                                                                   *)
ReadReceipt(r, line) ==
  IF ~r.ok THEN r
  ELSE IF IsBlank(line) THEN [r EXCEPT !.table = FALSE]
  ELSE IF line.key = "ITEM" THEN [r EXCEPT !.table = TRUE, !.columns = line.columns]
  ELSE IF r.table
  THEN IF FitsTable(line, r.columns) THEN [r EXCEPT !.items = Append(@, Fila(line, r.columns))]
       ELSE Refused(r)
  ELSE IF line.key = "OBSERVACION" /\ ToSet(line.numbers) \subseteq DOMAIN r.items
  THEN [r EXCEPT !.exempt = @ \cup ToSet(line.numbers),
                 !.unit = IF "UNIDAD" \in line.words THEN @ \cup DOMAIN r.items ELSE @]
  ELSE Refused(r)

Receipt(kind, number, r) ==
  [Document(39, [i \in DOMAIN r.items |->
                   [ItemOfRow(kind, 39, r.items[i]) EXCEPT !.exempt = i \in r.exempt,
                                                          !.unit = i \in r.unit]])
     EXCEPT !.references = <<[kind |-> "CODE", index |-> number, code |-> NULL, dated |-> FALSE]>>]

Boletas(lines) ==
  LET cases == ReceiptCases(lines)
      blank == [ok |-> TRUE, table |-> FALSE, columns |-> <<>>, items |-> <<>>, exempt |-> {},
                unit |-> {}]
      r == [i \in DOMAIN cases |-> FoldLeft(ReadReceipt, blank, cases[i].lines)]
      complete(row) == {"CANTIDAD", "PRECIO UNITARIO CON IVA"} \subseteq DOMAIN row.cells
  IN  [NoPayload EXCEPT
         !.ok = /\ cases # <<>>
                /\ \A i \in DOMAIN cases :
                     /\ cases[i].number = i /\ r[i].ok /\ r[i].items # <<>>
                     /\ \A j \in DOMAIN r[i].items : complete(r[i].items[j]),
         !.receipts = [i \in DOMAIN cases |-> Receipt("boletas", i, r[i])]]

-----------------------------------------------------------------------------
(* A file: its sections, from the header of a set to the next one, or the  *)
(* set of receipts.                                                        *)
Sections(lines) ==
  LET split(acc, line) ==
        IF line.key = "SET"
        THEN Append(acc, [name |-> line.says, code |-> line.numbers[1], body |-> <<>>])
        ELSE IF acc = <<>> THEN acc
        ELSE [acc EXCEPT ![Len(acc)].body = Append(@, line)]
  IN  FoldLeft(split, <<>>, lines)

Payload(kind, section) ==
  CASE kind = "libro_compras" -> LibroCompras(section.body)
    [] kind = "libro_ventas" -> NoPayload
    [] kind = "libro_guias" -> LibroGuias(section.body)
    [] OTHER -> Documentos(kind, section.code, section.body)

Loaded(kind, code, payload) ==
  [kind |-> kind, code |-> code, endpoint |-> Endpoints[kind], payload |-> payload]

(* [ok, sets]: a set of a kind that was not seen before, or none at all.   *)
SetDePruebas(lines) ==
  LET add(acc, section) ==
        IF section.name \notin DOMAIN SetNames THEN [acc EXCEPT !.ok = FALSE]
        ELSE LET kind == SetNames[section.name]
                 payload == Payload(kind, section)
             IN  [ok |-> /\ acc.ok /\ payload.ok
                         /\ \A i \in DOMAIN acc.sets : acc.sets[i].kind # kind,
                  sets |-> Append(acc.sets, Loaded(kind, section.code, payload))]
      sections == Sections(lines)
  IN  FoldLeft(add, [ok |-> sections # <<>>, sets |-> <<>>], sections)

NO_CODE == 0
Parse(lines) ==
  IF \E i \in DOMAIN lines : i <= 5 /\ lines[i].key = "SET DE PRUEBA DE BOLETA"
  THEN LET payload == Boletas(lines)
       IN  [ok |-> payload.ok, sets |-> <<Loaded("boletas", NO_CODE, payload)>>]
  ELSE SetDePruebas(lines)

-----------------------------------------------------------------------------
(* What the service emits for a document that was read. What the sheet did *)
(* not give takes the default of the request, or is missing in it. A       *)
(* settlement's amounts are its lines, an export's charges global ones.    *)
Given(v, scale) == IF v = NULL THEN NULL ELSE scale * v
OrZero(v) == IF v = NULL THEN 0 ELSE v

NationalRequest(doc) ==
  [items |-> [i \in DOMAIN doc.items |->
     LET item == doc.items[i]
     IN  [halves |-> Given(item.quantity, 2), unit_price |-> item.unit_price,
          discount_amount |-> NULL, discount_pct |-> OrZero(item.discount_pct),
          exempt |-> item.exempt, additional_tax_code |-> NULL]],
   global_discounts |-> [i \in DOMAIN doc.discounts |->
     [kind |-> "D", value_type |-> "%", value |-> doc.discounts[i], scope |-> "afecto"]]]

ExportRequest(doc) ==
  [items |-> [i \in DOMAIN doc.items |->
     LET item == doc.items[i]
     IN  [halves |-> Given(item.quantity, 2), unit_price |-> Given(item.unit_price, UNIT),
          amount |-> UNIT * OrZero(item.amount), discount_pct |-> OrZero(item.discount_pct),
          surcharge_pct |-> OrZero(item.surcharge_pct)]],
   lines |-> [i \in DOMAIN doc.items |->
     [quantity |-> doc.items[i].quantity, unit_price |-> doc.items[i].unit_price]],
   global_discounts |-> [i \in DOMAIN doc.charges |->
     [kind |-> "R", value_type |-> "$", value |-> doc.charges[i]]]]

SettlementRequest(doc) ==
  [items |-> [i \in DOMAIN doc.lines |->
     [amount |-> doc.lines[i].amount, exempt |-> doc.lines[i].exempt]],
   lines |-> [i \in DOMAIN doc.lines |->
     [quantity |-> doc.lines[i].quantity, unit_price |-> NULL,
      advance |-> doc.lines[i].advance, liquidated_type |-> doc.lines[i].liquidated_type]],
   commissions |-> [i \in DOMAIN doc.commissions |->
     [net_amount |-> doc.commissions[i].net_amount, exempt_amount |-> 0, fixed |-> FALSE,
      vat_amount |-> 0]]]

AsRequest(doc) ==
  (IF doc.type = NULL THEN SettlementRequest(doc)
   ELSE IF doc.type \in ExportTypes THEN ExportRequest(doc)
   ELSE NationalRequest(doc)) @@ Restrict(doc, DOMAIN Blank0)

Definition(set) ==
  [kind |-> set.kind, endpoint |-> set.endpoint,
   documents |-> [i \in DOMAIN set.payload.documents |->
                    Strip(AsRequest(set.payload.documents[i]))],
   receipts |-> set.payload.receipts, groups |-> <<>>, voided |-> set.payload.voided,
   lines |-> set.payload.lines, factor |-> set.payload.factor]

(* A set is found by its number, or by its kind if the SII gives it none.  *)
Place(stored, set) ==
  LET sameKind == {k \in DOMAIN stored : stored[k].kind = set.kind}
  IN  IF set.code # NO_CODE THEN <<set.code, "">>
      ELSE IF sameKind # {} THEN CHOOSE k \in sameKind : TRUE ELSE <<NO_CODE, set.kind>>

ApplySets(stored, sets) ==
  FoldLeft(LAMBDA acc, set : (Place(acc, set) :> Definition(set)) @@ acc, stored, sets)

(* Every file is read before the first set is stored, and no set may come  *)
(* in two of them; a dry run only shows what would be loaded.              *)
Kinds(sets) == {sets[i].kind : i \in DOMAIN sets}
Together(acc, read) ==
  [ok |-> acc.ok /\ read.ok /\ Kinds(read.sets) \cap Kinds(acc.sets) = {},
   sets |-> acc.sets \o read.sets]
Load(read, stored, dryRun) ==
  [ok |-> read.ok, sets |-> read.sets,
   stored |-> IF read.ok /\ ~dryRun THEN ApplySets(stored, read.sets) ELSE stored]
ImportSheet(files, stored, dryRun) ==
  LET add(acc, file) == Together(acc, Parse(file))
  IN  Load(FoldLeft(add, [ok |-> TRUE, sets |-> <<>>], files), stored, dryRun)

-----------------------------------------------------------------------------
(* What reading owes to the text. No row of a table is lost or invented in *)
(* a document that can be emitted; what a settlement alone has, its table  *)
(* of commissions, is left out of the others.                              *)
Priced(doc) ==
  \A i \in DOMAIN doc.items : doc.items[i].quantity # NULL /\ doc.items[i].unit_price # NULL
RowsOf(lines) == Count(lines, LAMBDA l : l.key = "ROW")
Lists(lines, key) == \E i \in DOMAIN lines : lines[i].key = key
RowsAreKept(lines, doc) ==
  /\ RowsOf(lines) # 0
  /\ doc.type # NULL => Priced(doc) /\ ~Lists(lines, "COMISIONES Y OTROS CARGOS")
  => RowsOf(lines) = Len(doc.items) + Len(doc.lines) + Len(doc.commissions)

(* A note without rows that annuls a document is worth what that is, if    *)
(* nothing applies to it as a whole; one that corrects a text is worth     *)
(* nothing; and one that gives back units of its items, whose prices the   *)
(* sheet leaves to the reader, is worth as much as the document if it      *)
(* gives back all of them, and never more.                                 *)
Whole(doc) == doc.discounts = <<>> /\ doc.charges = <<>>
GivesBack(lines) ==
  /\ RowsOf(lines) # 0
  /\ \A i \in DOMAIN lines : lines[i].key = "ITEM" => lines[i].columns = <<"CANTIDAD">>
WorthOf(doc) ==
  LET request == AsRequest(doc)
  IN  IF doc.type \in ExportTypes THEN <<ExportTotal(request)>> ELSE Worth(Emits(request))
NoteFollows(lines, doc, original, worth, worthBefore) ==
  LET sold(item) == original.items[Original(original.items, item)]
      all == /\ Len(doc.items) = Len(original.items)
             /\ \A i \in DOMAIN doc.items :
                  /\ doc.items[i].quantity = sold(doc.items[i]).quantity
                  /\ sold(doc.items[i]).surcharge_pct = NULL
      names(d) == {d.items[i].name : i \in DOMAIN d.items}
      code == doc.references[1].code
  IN  /\ RowsOf(lines) = 0 /\ code = ANNULS /\ Whole(original) => worth = worthBefore
      /\ RowsOf(lines) = 0 /\ code = CORRECTS_TEXT => Last(worth) = 0
      /\ /\ GivesBack(lines) /\ Whole(original)
         /\ Cardinality(names(doc)) = Len(doc.items)
         /\ Cardinality(names(original)) = Len(original.items)
         /\ \A i \in DOMAIN doc.items : doc.items[i].quantity <= sold(doc.items[i]).quantity
         => Last(worth) <= Last(worthBefore) /\ (all => worth = worthBefore)
NotesFollow(lines, n, docs) ==
  Lists(lines, "REFERENCIA") /\ docs[n].type # NULL =>
    \E before \in {docs[n].references[1].index} \cap (1..(n - 1)) :
      Priced(docs[n]) /\ Priced(docs[before]) =>
        NoteFollows(lines, docs[n], docs[before], WorthOf(docs[n]), WorthOf(docs[before]))

SectionIsWhole(section, set) ==
  LET cases == Cases(section.body)
      docs == set.payload.documents
  IN  docs # <<>> =>
        /\ Len(docs) = Len(cases)
        /\ \A n \in DOMAIN docs :
             RowsAreKept(cases[n].lines, docs[n]) /\ NotesFollow(cases[n].lines, n, docs)

(* A file that was read gives a set for every header; loading it again     *)
(* changes nothing, and no other set is touched. The numbers of the sets   *)
(* are supposed to be different.                                           *)
LoadsOnce(files, stored, result) ==
  LET codes == {result.sets[i].code : i \in DOMAIN result.sets}
  IN  result.ok /\ Cardinality(codes) = Len(result.sets) =>
        /\ ImportSheet(files, result.stored, FALSE).stored = result.stored
        /\ \A i \in DOMAIN result.sets :
             \E p \in DOMAIN result.stored : result.stored[p] = Definition(result.sets[i])
        /\ \A p \in DOMAIN stored :
             p[1] \notin codes => p \in DOMAIN result.stored /\ result.stored[p] = stored[p]

SheetsAreWhole(files, stored, result) ==
  /\ LoadsOnce(files, stored, result)
  /\ result.ok =>
       LET sections == FlattenSeq([i \in DOMAIN files |->
                         IF files[i][1].key = "SET DE PRUEBA DE BOLETA" THEN <<[body |-> <<>>]>>
                         ELSE Sections(files[i])])
       IN  /\ Len(sections) = Len(result.sets)
           /\ \A i \in DOMAIN sections : SectionIsWhole(sections[i], result.sets[i])
  /\ ~result.ok => result.stored = stored
=============================================================================
