---------------------------- MODULE MCAlgorithms ----------------------------
(***************************************************************************)
(* The computations of the system over bounded inputs, each in one step    *)
(* from its input to its output, and the folio manager of the engine, in   *)
(* one run: the initial state says which part it is and what its input is. *)
(***************************************************************************)
EXTENDS EngineFolios, Computations

CONSTANTS e1, e2

MCProcess == {e1, e2}
MCCafFile == {<<1, 2>>, <<2, 3>>, <<5, 6>>}

Content == INSTANCE Readiness
Tpl == INSTANCE Template
Sht == INSTANCE SheetSamples

None == NULL
UpTo(n, S) == UNION {[1..k -> S] : k \in 0..n}
OneToTwo(S) == UpTo(2, S) \ {<<>>}

-----------------------------------------------------------------------------
(* Documents: halves of units, line discounts, exempt lines, taxes by line.*)
Item(halves, price, amount, pct, exempt, code) ==
  [halves |-> halves, unit_price |-> price, discount_amount |-> amount,
   discount_pct |-> pct, exempt |-> exempt, additional_tax_code |-> code]
Items == {Item(2, 1000, None, 0, FALSE, None), Item(3, 333, None, 10, FALSE, None),
          Item(1, 1, None, 0, FALSE, None), Item(2, 990, 90, 0, FALSE, 24),
          Item(3, 501, None, 0, FALSE, 24), Item(2, 77, None, 0, FALSE, 27),
          Item(2, 700, None, 0, TRUE, None), Item(1, 1005, None, 5, TRUE, None),
         Item(2, 100, 1100, 0, FALSE, 24)}

Global(kind, type, value, scope) ==
  [kind |-> kind, value_type |-> type, value |-> value, scope |-> scope]
Globals == {<<>>, <<Global("D", "%", 10, "afecto")>>, <<Global("D", "$", 500, "afecto")>>,
            <<Global("R", "%", 3, "no_afecto")>>,
            <<Global("D", "%", 7, "afecto"), Global("D", "%", 5, "exento")>>}
Retentions == {<<>>, <<[code |-> 15, amount |-> None]>>, <<[code |-> 15, amount |-> 100]>>,
               <<[code |-> 30, amount |-> 7], [code |-> 31, amount |-> 0]>>}
Tax(code, rate, amount) == [code |-> code, rate |-> rate, amount |-> amount]
Taxes == {<<>>, <<Tax(24, 18, None)>>, <<Tax(24, 0, 33)>>,
          <<Tax(24, 18, None), Tax(27, 10, None)>>}

MCDocumentQuestions ==
  {d \in [type : {33, 34, 39, 41, 46, 52, 56, 61}, folio : {1}, items : OneToTwo(Items),
          global_discounts : Globals, retentions : Retentions, additional_taxes : Taxes,
          prices_include_vat : BOOLEAN, references : {TRUE}] :
     /\ d.prices_include_vat => d.type \in ReceiptTypes
     /\ d.global_discounts # <<>> => d.type \notin ReceiptTypes
     /\ d.retentions # <<>> => d.type \in RetentionAllowed
     /\ d.additional_taxes # <<>> => d.type \in AdditionalTaxAllowed}

MCSettlementQuestions ==
  [items : OneToTwo([amount : {1003, 77, -50}, exempt : BOOLEAN]),
   commissions : UpTo(2, [net_amount : {103, 55, -8}, exempt_amount : {0, 12},
                          fixed : BOOLEAN, vat_amount : {9}]),
   folio : {1}]

ExportItem(halves, price, amount, off, on) ==
  [halves |-> halves, unit_price |-> price, amount |-> amount,
   discount_pct |-> off, surcharge_pct |-> on]
MCExportQuestions ==
  [type : {110, 112}, folio : {1},
   items : OneToTwo({ExportItem(3, 123457, 0, 0, 0), ExportItem(2, 250000, 0, 10, 0),
                     ExportItem(None, None, 205000, 0, 7), ExportItem(1, 3, 0, 0, 0)}),
   global_discounts : {<<>>, <<Global("D", "%", 3, "afecto")>>,
                       <<Global("R", "$", 215, "afecto"), Global("D", "%", 5, "afecto")>>},
   exchange_rate : {905, 70}, payment_mode : {1, 21}, references : {TRUE}]

-----------------------------------------------------------------------------
(* Book lines: plain, voided, with taxes, and in another currency.         *)
Line(r) == r ++ BlankLine
BookLines ==
  {Line([doc_type |-> 33, net_amount |-> 1000, vat_amount |-> 190, total_amount |-> 1190]),
   Line([doc_type |-> 33, net_amount |-> 500, vat_amount |-> 95, total_amount |-> 595,
         common_use_vat |-> 95]),
   Line([doc_type |-> 33, net_amount |-> 900, total_amount |-> 1071,
         non_recoverable_vat |-> <<[code |-> 1, amount |-> 100], [code |-> 4, amount |-> 71]>>]),
   Line([doc_type |-> 46, net_amount |-> 300, vat_amount |-> 57, total_amount |-> 300,
         retained_total_vat |-> 57]),
   Line([doc_type |-> 33, net_amount |-> 200, vat_amount |-> 38, total_amount |-> 279,
         other_taxes |-> <<[code |-> 24, amount |-> 36], [code |-> 15, amount |-> 5]>>]),
   Line([doc_type |-> 33, voided |-> TRUE]),
   Line([doc_type |-> 43, net_amount |-> 400, vat_amount |-> 76, total_amount |-> 380,
         commission_net |-> 80, commission_vat |-> 16, non_billable_amount |-> 25]),
   Line([doc_type |-> 33, exempt_amount |-> 100, net_amount |-> 1100, vat_amount |-> 209,
         total_amount |-> 1409, currency |-> TRUE, exchange_rate |-> 15040,
         non_recoverable_vat |-> <<[code |-> 1, amount |-> 209]>>]),
   Line([doc_type |-> 110, exempt_amount |-> 12345, total_amount |-> 12345,
         currency |-> TRUE, exchange_rate |-> 45256])}
MCBookQuestions == [lines : UpTo(3, BookLines) \ {<<>>}, compra : BOOLEAN, factor : {None, 60}]

Guide(total, transfer, voided, modified) ==
  [folio |-> 1, total_amount |-> total, transfer_type |-> transfer, voided |-> voided,
   modified_amount |-> modified]
Guides ==
  {g \in UpTo(3, {Guide(100, 1, None, None), Guide(70, 1, None, 60), Guide(50, 2, None, None),
                  Guide(30, 5, None, 10), Guide(20, None, None, None), Guide(0, None, 1, None),
                  Guide(40, 1, 2, None)}) : GuideBookAccepted(g)}

(* The guides of a test set, read back from the envelope, with the cases   *)
(* that say they were voided.                                              *)
GuideDocuments ==
  {d \in DocumentQuestions :
     d.type = 52 /\ Len(d.items) = 1 /\ d.global_discounts = <<>> /\ ValidContent(d)}
SetGuides ==
  {Content!LinesFromEnvelope([i \in DOMAIN g |-> Content!GuideLine(Totales(g[i]), t[i])],
                             cases) :
     g \in OneToTwo(GuideDocuments), t \in [1..2 -> {1, 5}], cases \in SUBSET {1, 2}}

MCGuideQuestions == Guides \cup SetGuides

MCReportQuestions ==
  {r \in UpTo(4, [folio : 1..5, voided : BOOLEAN, total_amount : {10}]) :
     \A i, j \in DOMAIN r : r[i].folio = r[j].folio => i = j}

-----------------------------------------------------------------------------
(* The registry writes a RUT in one form, the taxpayer's system in another.*)
MCSiiRuts == {[id |-> 1, form |-> "sii"]}
Row(type, folio, total, recoverable) ==
  [doc_type |-> type, folio |-> folio, rut |-> CHOOSE r \in SiiRuts : TRUE, date |-> 1,
   exempt_amount |-> 0, net_amount |-> total - 19, recoverable |-> recoverable, vat |-> 19,
   total_amount |-> total]
Rows == {Row(33, 1, 119, 19), Row(33, 1, 5, 0), Row(33, 2, 119, 10), Row(None, 1, 50, 0)}
Own(folio, form, total, vat) ==
  [doc_type |-> 33, folio |-> folio, rut |-> [id |-> 1, form |-> form], date |-> 1,
   state |-> "posted", exempt_amount |-> 0, net_amount |-> total - 19, vat_amount |-> vat,
   total_amount |-> total]
MCRegistryQuestions ==
  [operation : {"COMPRA", "VENTA"},
   detail : [REGISTRO : UpTo(2, Rows), RECLAMADO : UpTo(1, Rows), PENDIENTE : UpTo(1, Rows)],
   source : UpTo(2, {Own(1, "sii", 119, 19), Own(1, "own", 119, 19), Own(2, "own", 119, 19),
                     Own(2, "own", 120, 10)})]

-----------------------------------------------------------------------------
(* Authorised about the ends of months, asked about the end of the CAF.    *)
Authorized ==
  {d \in {2023, 2024, 2027} \X (1..12) \X {1, 15, 28, 29, 30, 31} :
     d[3] <= MonthLength(d[1], d[2])}
Around(d) ==
  LET back == Yesterday(d)
      on == Tomorrow(d)
  IN  {Yesterday(Yesterday(back)), Yesterday(back), back, d, on,
       Tomorrow(on), Tomorrow(Tomorrow(on))}
MCCafQuestions ==
  UNION {[authorized : {d}, date : Around(AddMonths(d, 6)), hour : {0, 3, 23},
          chile : {3, 4}, hostInUtc : BOOLEAN] : d \in Authorized}

-----------------------------------------------------------------------------
(* Dossiers: everything is in order except what varies.                    *)
Doc(type) ==
  [type |-> type, transfer_type |-> IF type = 52 THEN 1 ELSE None, dispatch_type |-> None,
   transport |-> {}, receiver |-> Content!NOBODY, issuer |-> "X",
   issue_date |-> None, case |-> None, references |-> <<>>, lines |-> <<>>, service |-> None]
Batch(i) == [kind |-> "BATCH", index |-> i, dated |-> FALSE]
Of(docs) == [documents |-> docs, receipts |-> <<>>, groups |-> <<>>]
Note(type, i) == [Doc(type) EXCEPT !.references = <<Batch(i)>>]
Internal == [Doc(52) EXCEPT !.transfer_type = 5]
Export(line) == [Doc(110) EXCEPT !.lines = <<line>>]
ExportedLine(quantity) ==
  [quantity |-> quantity, unit_price |-> 10, advance |-> FALSE, liquidated_type |-> None]
Settled(advance) ==
  [Doc(None) EXCEPT !.lines = <<[quantity |-> 1, unit_price |-> 1, advance |-> advance,
                                 liquidated_type |-> 33]>>]

Basics == {Of(<<Doc(33), Doc(33), Note(61, 1)>>), Of(<<Doc(33), Note(61, 1), Note(56, 2)>>),
           Of(<<[Doc(33) EXCEPT !.receiver = "OTHER"], Doc(33), Doc(33), Note(61, 2)>>)}
Mixed(n) ==
  [documents |-> <<>>, receipts |-> <<>>,
   groups |-> <<[i \in 1..n |-> Doc(<<33, 34, 46, 52, 56, 61>>[(i % 6) + 1])],
                <<Export(ExportedLine(1)), Doc(111), Doc(112)>>, <<Settled(FALSE)>>>>]
Simulations == {Of(<<>>), Of(<<Doc(33), Internal, Doc(52)>>), Mixed(16), Mixed(15)}
Definitions(basic, simulation, exported, advance) ==
  [basico |-> basic, exenta |-> Of(<<Doc(34), Note(61, 1)>>), guias |-> Of(<<Internal, Doc(52)>>),
   exportacion_1 |-> Of(<<exported, Note(112, 1)>>), exportacion_2 |-> Of(<<Export(ExportedLine(1))>>),
   liquidacion |-> Of(<<Settled(advance)>>), factura_compra |-> Of(<<Doc(46)>>),
   libro_guias |-> Of(<<>>), libro_compras |-> Of(<<>>), libro_ventas |-> Of(<<>>),
   boletas |-> Of(<<>>), simulacion |-> simulation]

Caf(from, to, usable) == [from |-> from, to |-> to, usable |-> usable]
Cafs33 == {<<>>, <<Caf(1, 3, "yes")>>, <<Caf(1, 3, "yes"), Caf(6, 8, "yes")>>,
           <<Caf(2, 9, "keys")>>, <<Caf(3, 4, "yes"), Caf(5, 5, "yes")>>,
           <<Caf(1, 2, "yes"), Caf(4, 9, "expired")>>}
Certificate(days, rut) ==
  [days |-> days, readable |-> TRUE, selfSigned |-> FALSE, rut |-> rut,
   thumbprint |-> IF rut THEN "a" ELSE "b", signs |-> TRUE]

Dossiers ==
  {[production |-> production, profile |-> TRUE, resolution |-> "own",
    certificates |-> certificates, submissions |-> submissions,
    cafs |-> [t \in {33, 34, 39, 43, 46, 52, 56, 61, 110, 111, 112} |->
                IF t = 33 THEN rows ELSE <<Caf(1, 9, "yes")>>],
    pointer |-> [t \in {33, 34, 39, 43, 46, 52, 56, 61, 110, 111, 112} |->
                   IF t = 33 THEN last ELSE 0],
    sets |-> Content!Kinds,
    definitions |-> Definitions(basic, simulation, Export(ExportedLine(1)), advance),
    receivers |-> receivers, accepted |-> {"basico"}] :
     production \in BOOLEAN, advance \in BOOLEAN, rows \in Cafs33, last \in 0..6,
     certificates \in {<<Certificate(60, TRUE)>>, <<Certificate(0 - 1, TRUE), Certificate(5, FALSE)>>,
                     <<Certificate(5, FALSE), Certificate(60, TRUE)>>},
     submissions \in {<<>>, <<[state |-> "RFR", thumbprint |-> "a"]>>},
     basic \in Basics, simulation \in Simulations,
     receivers \in {<<>>, <<"A">>, <<"A", "B">>, <<"A", "B", "C">>}}

(* Dossiers begun from the template, some of its sets, with or without the *)
(* reference to a passport that the operator adds; and from a sheet.       *)
TemplateKinds == DOMAIN Tpl!TemplateSets(1)
WithPassport(sets) ==
  IF "exportacion_2" \notin DOMAIN sets THEN sets
  ELSE [sets EXCEPT !.exportacion_2[3].references = Append(@, Tpl!RefExterna(Content!PASSPORT))]
DefinitionsOf(sets) ==
  [k \in {sets[i].kind : i \in DOMAIN sets} |->
     Sht!Definition(sets[CHOOSE i \in DOMAIN sets : sets[i].kind = k])]
DocumentsOf(definitions) ==
  [k \in DOMAIN definitions \ {"boletas"} |-> definitions[k].documents]
FromSheet == DocumentsOf(DefinitionsOf(Sht!ImportSheet(Sht!WHOLE_SHEET, Sht!Nothing, FALSE).sets))
Imported ==
  LET created == {Tpl!SetsForImport(codes, 1) : codes \in {TemplateKinds, TemplateKinds \ {"guias"}}}
  IN  created \cup {WithPassport(sets) : sets \in created} \cup {FromSheet}
Begun ==
  {[production |-> FALSE, profile |-> TRUE, resolution |-> "own",
    certificates |-> <<Certificate(60, TRUE)>>, submissions |-> <<>>,
    cafs |-> [t \in {33, 34, 39, 43, 46, 52, 56, 61, 110, 111, 112} |-> <<Caf(1, 9, "yes"), Caf(12, to, "yes")>>],
    pointer |-> [t \in {33, 34, 39, 43, 46, 52, 56, 61, 110, 111, 112} |-> last],
    sets |-> DOMAIN sets,
    definitions |-> [k \in DOMAIN sets |-> Of(sets[k])] @@ [simulacion |-> Of(<<>>)],
    receivers |-> receivers, accepted |-> {}] :
     sets \in Imported, to \in {12, 16}, last \in 0..9,
     receivers \in {<<"A", "B">>, <<"A", "B", "C", "D">>}}

-----------------------------------------------------------------------------
(* Two envelopes of up to two documents, which refer to one another or out.*)
MCEmissions ==
  UpTo(2, [type : {33, 61}, folio : {1, 2}, rest : {1}, signed : {1},
           refs : {<<>>} \cup {<<[type |-> 33, folio |-> f]>> : f \in {1, 2}}])

-----------------------------------------------------------------------------
MCInit ==
  /\ Init
  /\ \/ ComputationInit
     \/ /\ done = FALSE /\ output = Unanswered
        /\ \/ Ask("dossier", Dossiers \cup Begun)
           \/ Ask("template", [kind : TemplateKinds, price : {1, 301}])
           \/ Ask("sheet", [files : Sht!Files, stored : Sht!Held])
           \/ Ask("engine", {Unanswered})

MCCompute ==
  \/ ComputationNext
  \/ Answer("dossier", [ready |-> Content!Ready(input)])
  \/ Answer("template", LET docs == Tpl!TemplateSets(input.price)[input.kind]
                        IN  [i \in DOMAIN docs |-> Tpl!Emits(docs[i])])
  \/ Answer("sheet", Sht!ImportSheet(input.files, input.stored, FALSE))

MCNext ==
  \/ MCCompute /\ UNCHANGED vars
  \/ part = "engine" /\ Next /\ UNCHANGED computationVars

MCSpec == MCInit /\ [][MCNext]_<<computationVars, vars>>

-----------------------------------------------------------------------------
(* A dossier without errors has the folios and the receivers its sets      *)
(* take: certification_checks.py, folio_service.py, certification_fill.py. *)
ReadySetsGoOut == Answered("dossier") => Content!ReadySetsGoOut(input)

NothingToObject(definitions) ==
  /\ Content!Content([sets |-> DOMAIN definitions, definitions |-> definitions]) = {}
  /\ \A k \in DOMAIN definitions : definitions[k].lines # <<>> =>
       BookAddsUp(definitions[k].lines, TRUE,
                          BookSummary(definitions[k].lines, TRUE, definitions[k].factor))

(* In the sets created from certification_template.py what annuls a        *)
(* document carries its amounts, and the book made of them adds up. What   *)
(* certification_sheet.py reads of the SII's text keeps its rows, its      *)
(* notes are worth what they modify, its purchases add up, and none of it  *)
(* is content the service objects to; import_sheet loads all of it or      *)
(* nothing, and once.                                                      *)
SetsAreWhole ==
  /\ Answered("template") =>
       /\ Tpl!SetHoldsTogether(Tpl!TemplateSets(input.price)[input.kind])
       /\ LET lines == [i \in DOMAIN output |-> SalesLine(output[i])]
          IN  BookAddsUp(lines, FALSE, BookSummary(lines, FALSE, None))
  /\ Answered("sheet") =>
       /\ Sht!SheetsAreWhole(input.files, input.stored, output)
       /\ output.ok => NothingToObject(DefinitionsOf(output.sets))
=============================================================================
