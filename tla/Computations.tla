---------------------------- MODULE Computations ----------------------------
(***************************************************************************)
(* The computations whose promise is one of arithmetic, each in one step   *)
(* from a question to its answer: the totals of a document, until when a   *)
(* CAF is used, whether two emissions of a test set say the same, the      *)
(* reconciliation with the registry of the SII, and the summaries of       *)
(* books. The questions are parameters; what is assumed of them is what    *)
(* the schemas and the SII's formats say of their types.                   *)
(***************************************************************************)
EXTENDS CafDates, Comparison, Registry, SalesLines

CONSTANTS
  DocumentQuestions,
  SettlementQuestions,
  ExportQuestions,
  CafQuestions,
  Emissions,          \* envelopes of a test set
  SiiRuts,            \* the RUTs, as the registry of the SII writes them
  RegistryQuestions,
  BookQuestions,
  GuideQuestions,
  ReportQuestions

ItemOfRequest ==
  [halves : Int, unit_price : Int, exempt : BOOLEAN, discount_pct : 0..100,
   discount_amount : {NULL} \cup Nat, additional_tax_code : {NULL} \cup (Nat \ {0})]
GlobalOfRequest ==
  [kind : {"D", "R"}, value_type : {"%", "$"}, value : Nat,
   scope : {"afecto", "exento", "no_afecto"}]
TaxOfRequest == [code : Int, rate : 0..100, amount : {NULL} \cup Nat]
DocumentOfRequest ==
  [type : {33, 34, 39, 41, 46, 52, 56, 61}, folio : Nat, items : Seq(ItemOfRequest),
   global_discounts : Seq(GlobalOfRequest), additional_taxes : Seq(TaxOfRequest),
   retentions : Seq([code : Int, amount : {NULL} \cup Nat]),
   prices_include_vat : BOOLEAN, references : BOOLEAN]
(* Only a request for receipts says whether its prices include the tax, and *)
(* it has no global discounts.                                             *)
Request ==
  {d \in DocumentOfRequest :
     /\ d.prices_include_vat => d.type \in ReceiptTypes
     /\ d.type \in ReceiptTypes => d.global_discounts = <<>>}
SettlementRequest ==
  [folio : Nat, items : Seq([amount : Int, exempt : BOOLEAN]),
   commissions : Seq([net_amount : Int, exempt_amount : Int, fixed : BOOLEAN,
                      vat_amount : Int])]
ExportRequest ==
  [type : {110, 111, 112}, folio : Nat, references : BOOLEAN, payment_mode : Int,
   exchange_rate : Nat \ {0}, global_discounts : Seq(GlobalOfRequest),
   items : Seq([halves : Int, unit_price : Int, amount : Int,
                discount_pct : 0..100, surcharge_pct : Nat])]

Date == {d \in Int \X (1..12) \X (1..31) : d[3] <= MonthLength(d[1], d[2])}
CafQuestion ==
  [authorized : Date, date : Date, hour : Nat, chile : Nat, hostInUtc : BOOLEAN]

(* What a leaf of an envelope says is a number.                            *)
SetDocument ==
  [type : Nat, folio : Nat, refs : Seq([type : Nat, folio : Nat]), rest : Nat, signed : Nat]

RegistryRow ==
  [doc_type : Int, folio : Int, rut : SiiRuts, date : Nat, exempt_amount : Int,
   net_amount : Int, recoverable : Int, vat : Int, total_amount : Int]
OwnDocument ==
  [doc_type : Nat, folio : Nat, rut : [id : Nat, form : STRING], date : Nat, state : STRING,
   exempt_amount : Int, net_amount : Int, vat_amount : Int, total_amount : Int]
RegistryQuestion ==
  [operation : {"COMPRA", "VENTA"},
   detail : [{"REGISTRO", "RECLAMADO", "PENDIENTE"} -> Seq(RegistryRow)],
   source : Seq(OwnDocument)]

BookTax == [code : Nat, amount : Int]
LineOfBook ==
  [doc_type : Nat, voided : BOOLEAN, currency : BOOLEAN, exchange_rate : Int,
   exempt_amount : Int, net_amount : Int, vat_amount : Int, total_amount : Int,
   common_use_vat : Int, retained_total_vat : Int, retained_vat_code : Nat,
   non_billable_amount : Int, commission_net : Int, commission_exempt : Int,
   commission_vat : Int, non_recoverable_vat : Seq(BookTax), other_taxes : Seq(BookTax)]
BookQuestion == [lines : Seq(LineOfBook), compra : BOOLEAN, factor : Int]
LineOfGuides ==
  [folio : Nat, total_amount : Int, transfer_type : {NULL} \cup 1..9,
   voided : {NULL, BEFORE_SENDING, AFTER_SENDING}, modified_amount : Int]
LineOfReport == [folio : Nat, voided : BOOLEAN, total_amount : Int]

ASSUME QuestionsAssumption ==
  /\ DocumentQuestions \subseteq Request
  /\ SettlementQuestions \subseteq SettlementRequest
  /\ ExportQuestions \subseteq ExportRequest
  /\ CafQuestions \subseteq CafQuestion
  /\ Emissions \subseteq Seq(SetDocument)
  /\ SiiRuts \subseteq [id : Nat, form : STRING]
  /\ \A r, s \in SiiRuts : r.id = s.id => r = s
  /\ RegistryQuestions \subseteq RegistryQuestion
  /\ BookQuestions \subseteq BookQuestion
  /\ GuideQuestions \subseteq Seq(LineOfGuides)
  /\ ReportQuestions \subseteq Seq(LineOfReport)

VARIABLES part, done, input, output

computationVars == <<part, done, input, output>>

Unanswered == [x \in {} |-> 0]

Ask(p, questions) ==
  /\ part = p
  /\ input \in questions

(* What the engine refuses is not answered: it takes no folio.             *)
Asked ==
  \/ Ask("document", {d \in DocumentQuestions : ValidContent(d)})
  \/ Ask("settlement", {s \in SettlementQuestions : ValidSettlement(s)})
  \/ Ask("export", {x \in ExportQuestions : ValidExport(x)})
  \/ Ask("caf", CafQuestions)
  \/ Ask("comparison", [approved : Emissions, emitted : Emissions])
  \/ Ask("registry", RegistryQuestions)
  \/ Ask("book", BookQuestions)
  \/ Ask("guides", GuideQuestions)
  \/ Ask("report", ReportQuestions)

ComputationInit ==
  /\ done = FALSE
  /\ output = Unanswered
  /\ Asked

Answer(p, value) ==
  /\ part = p /\ ~done
  /\ done' = TRUE
  /\ output' = value
  /\ UNCHANGED <<part, input>>

Instant(q) == [date |-> q.date, hour |-> q.hour]
HostBehind(q) == IF q.hostInUtc THEN 0 ELSE q.chile

PrintedTotals(d) == IF d.type \in ReceiptTypes THEN ReceiptTotales(d) ELSE Totales(d)

ComputationNext ==
  \/ Answer("document", PrintedTotals(input))
  \/ Answer("settlement", SettlementTotales(input))
  \/ Answer("export", ExportTotales(input))
  \/ Answer("caf", [refused |-> AllocatorRefuses(33, input.authorized, Instant(input),
                                                 HostBehind(input))])
  \/ Answer("comparison", Differing(input.approved, input.emitted))
  \/ Answer("registry", Reconcile(Normalize(input.detail, input.operation), input.source))
  \/ Answer("book", BookSummary(input.lines, input.compra, input.factor))
  \/ Answer("guides", GuideSummary(input))
  \/ Answer("report", FolioSummary(input))

ComputationSpec == ComputationInit /\ [][ComputationNext]_computationVars

Answered(p) == done /\ part = p
-----------------------------------------------------------------------------
(* What a document, a settlement or an export prints adds up to its total, *)
(* the tax is that of its net, the header's taxes are carried by lines,    *)
(* and the line it becomes in the sales book is worth the same: models.py, *)
(* settlement.py, export_invoice.py and certification_fill.py round in     *)
(* different places and read each other's XML. A total is not negative, if *)
(* no line with a tax of its own is: the engine looks at net and exempt.   *)
TotalsReachTheBook ==
  /\ Answered("document") =>
       /\ TotalsClose(output)
       /\ TaxedLinesPositive(input) => output.MntTotal >= 0
       /\ TaxOfNet(input, output)
       /\ HeaderTaxesOnLines(input, output)
       /\ LineIsWorth(output.MntTotal, output)
  /\ Answered("settlement") => TotalsClose(output) /\ LineIsWorth(output.MntTotal, output)
  /\ Answered("export") =>
       /\ TotalsClose(output)
       /\ LineIsWorth(RoundHalfUp(output.MntTotal * input.exchange_rate, 100 * UNIT), output)

(* A CAF is used until six months after its authorisation and not a day    *)
(* more, by whichever of the three clocks: caf.py and folio_service.py.    *)
CafNeverOverstays ==
  Answered("caf") =>
    UsedInTime(33, input.authorized, Instant(input), HostBehind(input), input.chile,
               output.refused)

(* A balanced reconciliation has the same total on both sides, for rcv.py  *)
(* leaves no document twice; and certification_compare.py finds two        *)
(* emissions equal exactly when they are, whatever folios they took.       *)
ComparisonsTell ==
  /\ Answered("registry") =>
       BalancedMeansEqual(Normalize(input.detail, input.operation), input.source, output)
  /\ Answered("comparison") => ComparisonTells(input.approved, input.emitted, output)

(* The summary of a book, of a guide book and of a report of folios, which *)
(* the code adds up apart from the detail, is what the SII adds up from it.*)
SummaryMatchesDetail ==
  /\ Answered("book") => BookAddsUp(input.lines, input.compra, output)
  /\ Answered("guides") => GuidesAddUp(input, output)
  /\ Answered("report") => ReportCoversFolios(input, output)
=============================================================================
