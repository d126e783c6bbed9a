-------------------------------- MODULE Books -------------------------------
(***************************************************************************)
(* The books a taxpayer declares: purchases and sales (book_service.py,    *)
(* book.py), dispatch guides (guide_book.py) and the daily consumption of  *)
(* folios (folio_report.py). A book has a detail with one entry per        *)
(* document and a summary the code computes apart from it; the SII adds up *)
(* the detail and compares. Names, dates and the cover are left out; what  *)
(* a book does not print is absent from its record. A group of a list is   *)
(* the list restricted to some of its places.                              *)
(***************************************************************************)
EXTENDS Amounts

MoneyFields == {"exempt_amount", "net_amount", "vat_amount", "total_amount",
                "common_use_vat", "retained_total_vat", "non_billable_amount",
                "commission_net", "commission_exempt", "commission_vat"}

(* Amounts and rate are in hundredths of the currency and of a peso.       *)
ToClp(amount, rate) == RoundHalfUp(amount * rate, 10000)

Closes(l) == l.total_amount = l.exempt_amount + l.net_amount + l.vat_amount

(* Seeded fault: every amount is rounded on its own, the total too.        *)
BookLine_RoundsApart(line) ==
  IF ~line.currency THEN line
  ELSE [f \in MoneyFields |-> ToClp(line[f], line.exchange_rate)] ++
       [non_recoverable_vat |-> [i \in DOMAIN line.non_recoverable_vat |->
          [line.non_recoverable_vat[i] EXCEPT !.amount = ToClp(@, line.exchange_rate)]]] ++ line
(* A line in another currency enters the book in pesos. One that closed    *)
(* still closes: its total is added up again after the rounding.           *)
BookLine(line) ==
  LET pesos == [f \in MoneyFields |-> ToClp(line[f], line.exchange_rate)]
      total == IF Closes(line)
               THEN pesos.exempt_amount + pesos.net_amount + pesos.vat_amount
               ELSE pesos.total_amount
      nonrec == [i \in DOMAIN line.non_recoverable_vat |->
                   [line.non_recoverable_vat[i] EXCEPT !.amount = ToClp(@, line.exchange_rate)]]
  IN  IF ~line.currency THEN line
      ELSE [total_amount |-> total, non_recoverable_vat |-> nonrec] ++ pesos ++ line

HasRecoverableVat(l) == l.vat_amount # 0 /\ l.common_use_vat = 0

Size(group) == Cardinality(DOMAIN group)
Total(group, f) == SumFunction([i \in DOMAIN group |-> group[i][f]])
Having(group, f, value) == Restrict(group, {i \in DOMAIN group : group[i][f] = value})
NonZero(group, f) == Restrict(group, {i \in DOMAIN group : group[i][f] # 0})
Count(group, test(_)) == Cardinality({i \in DOMAIN group : test(group[i])})

(* The entries of all the lists f of a group, by line and by place.        *)
Joined(group, f) ==
  [p \in UNION {{i} \X (DOMAIN group[i][f]) : i \in DOMAIN group} |-> group[p[1]][f][p[2]]]
CodesOf(entries) == {entries[p].code : p \in DOMAIN entries}
AmountOf(entries, code) == Total(Having(entries, "code", code), "amount")

-----------------------------------------------------------------------------
(* <TotalesPeriodo> of the documents of one type.                          *)
NonRecoverableTotals(group) ==
  LET entries == Joined(group, "non_recoverable_vat")
  IN  [c \in CodesOf(entries) |-> [count |-> Size(Having(entries, "code", c)),
                                   amount |-> AmountOf(entries, c)]]

(* The factor is in hundredths; without one only the total is declared.    *)
CommonUseTotals(group, factor) ==
  LET common == NonZero(group, "common_use_vat")
      amount == Total(common, "common_use_vat")
  IN  IF DOMAIN common = {} THEN <<>>
      ELSE [TotOpIVAUsoComun |-> Size(common), TotIVAUsoComun |-> amount] ++
           Field(factor # NULL, "TotCredIVAUsoComun", RoundHalfEven(amount * factor, 100))

(* In purchases a retention is one more tax; in sales it has its field.    *)
RetainedTotals(group, compra) ==
  LET retained == NonZero(group, "retained_total_vat")
      kept == [p \in (DOMAIN retained) \X {0} |-> [code |-> group[p[1]].retained_vat_code,
                                                amount |-> group[p[1]].retained_total_vat]]
      taxes == IF compra THEN Joined(group, "other_taxes") ++ kept ELSE Joined(group, "other_taxes")
      told == DOMAIN retained # {} /\ ~compra
  IN  [TotOtrosImp |-> [c \in CodesOf(taxes) |-> AmountOf(taxes, c)]]
      ++ Field(told, "TotOpIVARetTotal", Size(retained))
      ++ Field(told, "TotIVARetTotal", Total(retained, "retained_total_vat"))

CommissionTotals(group) ==
  LET net == Total(group, "commission_net")
      exempt == Total(group, "commission_exempt")
      vat == Total(group, "commission_vat")
  IN  Field(net # 0 \/ exempt # 0 \/ vat # 0, "TotLiquidaciones",
            [ValComNeto |-> net, ValComExe |-> exempt, ValComIVA |-> vat])

PeriodTotals(group, compra, factor) ==
  LET total == Total(group, "total_amount")
      nonBillable == Total(group, "non_billable_amount")
      voided == Size(Having(group, "voided", TRUE))
      recoverable == Count(group, HasRecoverableVat)
  IN  [TotDoc |-> Size(group), TotMntTotal |-> total,
       TotMntExe |-> Total(group, "exempt_amount"), TotMntNeto |-> Total(group, "net_amount"),
       TotMntIVA |-> Total(group, "vat_amount")]
      ++ Field(voided # 0, "TotAnulado", voided)
      ++ RetainedTotals(group, compra)
      ++ IF compra
         THEN Field(recoverable # 0, "TotOpIVARec", recoverable)
              ++ [TotIVANoRec |-> NonRecoverableTotals(group)] ++ CommonUseTotals(group, factor)
         ELSE CommissionTotals(group) ++ Field(nonBillable # 0, "TotMntNoFact", nonBillable)
              ++ [TotMntPeriodo |-> total + nonBillable]

(* One entry of the summary per type of document.                          *)
Summary(lines, compra, factor) ==
  [t \in {lines[i].doc_type : i \in DOMAIN lines} |->
     PeriodTotals(Having(lines, "doc_type", t), compra, factor)]

(* The lines enter the book in pesos.                                      *)
LinesInPesos(lines) == [i \in DOMAIN lines |-> BookLine(lines[i])]
BookSummary(lines, compra, factor) == Summary(LinesInPesos(lines), compra, factor)

-----------------------------------------------------------------------------
(* <Detalle> of a document.                                                *)
Detail(line, compra) ==
  LET kept == IF line.retained_total_vat = 0 THEN <<>>
              ELSE <<[code |-> line.retained_vat_code, amount |-> line.retained_total_vat]>>
      commissions == [ValComNeto |-> line.commission_net,
                      ValComExe |-> line.commission_exempt, ValComIVA |-> line.commission_vat]
  IN  [TpoDoc |-> line.doc_type, Anulado |-> line.voided, MntExe |-> line.exempt_amount,
       MntNeto |-> line.net_amount, MntIVA |-> line.vat_amount,
       MntTotal |-> line.total_amount]
      ++ IF compra
         THEN [IVANoRec |-> line.non_recoverable_vat, OtrosImp |-> line.other_taxes \o kept]
              ++ Field(line.common_use_vat # 0, "IVAUsoComun", line.common_use_vat)
         ELSE [OtrosImp |-> line.other_taxes,
               MntPeriodo |-> line.total_amount + line.non_billable_amount]
              ++ Field(line.retained_total_vat # 0, "IVARetTotal", line.retained_total_vat)
              ++ Field(\E f \in DOMAIN commissions : commissions[f] # 0,
                       "Liquidaciones", commissions)
              ++ Field(line.non_billable_amount # 0, "MntNoFact", line.non_billable_amount)

-----------------------------------------------------------------------------
(* Guides. A voided one is counted, and only its folio is in the detail.   *)
SALE == 1
BEFORE_SENDING == 1
AFTER_SENDING == 2
MAX_TRANSFER_GROUPS == 6

GuideSummary(lines) ==
  LET live == Having(lines, "voided", NULL)
      sales == Having(live, "transfer_type", SALE)
      types == {live[i].transfer_type : i \in DOMAIN live} \ {SALE, NULL}
      before == Size(Having(lines, "voided", BEFORE_SENDING))
      after == Size(Having(lines, "voided", AFTER_SENDING))
      modified == Total(Restrict(lines, {i \in DOMAIN lines : lines[i].modified_amount # NULL}),
                        "modified_amount")
  IN  [TotGuiaVenta |-> Size(sales), TotMntGuiaVta |-> Total(sales, "total_amount"),
       TotTraslado |-> [t \in types |->
          LET group == Having(live, "transfer_type", t)
          IN  [CantGuia |-> Size(group), MntGuia |-> Total(group, "total_amount")]]]
      ++ Field(before # 0, "TotFolAnulado", before)
      ++ Field(after # 0, "TotGuiaAnulada", after)
      ++ Field(modified # 0, "TotMntModificado", modified)

GuideBookAccepted(lines) ==
  Cardinality(DOMAIN GuideSummary(lines).TotTraslado) <= MAX_TRANSFER_GROUPS

GuideDetail(line) ==
  IF line.voided # NULL THEN [Folio |-> line.folio, Anulado |-> line.voided]
  ELSE [Folio |-> line.folio, MntTotal |-> line.total_amount]
       ++ Field(line.transfer_type # NULL, "TpoOper", line.transfer_type)
       ++ Field(line.modified_amount # NULL, "MntModificado", line.modified_amount)

-----------------------------------------------------------------------------
(* Folios consumed. Loose folios, from the lowest to the highest, are       *)
(* printed as runs of consecutive ones.                                    *)
RangesOf(folios) ==
  LET extend(f, runs) ==
        IF runs # <<>> /\ runs[Len(runs)][2] + 1 = f
        THEN [runs EXCEPT ![Len(runs)][2] = f]
        ELSE Append(runs, <<f, f>>)
  IN  MapThenFoldSet(extend, <<>>, LAMBDA f : f, Max, folios)

FolioSummary(group) ==
  LET used == Having(group, "voided", FALSE)
      voided == Having(group, "voided", TRUE)
      folios(lines) == {lines[i].folio : i \in DOMAIN lines}
  IN  [MntTotal |-> Total(used, "total_amount"),
       FoliosEmitidos |-> Size(used), FoliosAnulados |-> Size(voided),
       FoliosUtilizados |-> Size(group),
       RangoUtilizados |-> RangesOf(folios(used)), RangoAnulados |-> RangesOf(folios(voided))]
-----------------------------------------------------------------------------
(* The summary of a type is the sum of its details, as the SII adds them.  *)
Sums(group, f) == SumFunction([i \in DOMAIN group |-> Printed(group[i], f)])
SummaryIsSum(totals, mine) ==
  LET sum(f) == Sums(mine, f)
      many(f) == Count(mine, LAMBDA x : Printed(x, f) # 0)
      with(f) == Restrict(mine, {i \in DOMAIN mine : f \in DOMAIN mine[i]})
      entries(f) == Joined(with(f), f)
      commissions == with("Liquidaciones")
      com(f) == SumFunction([i \in DOMAIN commissions |-> commissions[i].Liquidaciones[f]])
      codes(f) == CodesOf(entries(f))
  IN  /\ totals.TotDoc = Size(mine)
      /\ Printed(totals, "TotAnulado") = Size(Having(mine, "Anulado", TRUE))
      /\ totals.TotMntExe = sum("MntExe") /\ totals.TotMntNeto = sum("MntNeto")
      /\ totals.TotMntIVA = sum("MntIVA") /\ totals.TotMntTotal = sum("MntTotal")
      /\ Printed(totals, "TotMntPeriodo") = sum("MntPeriodo")
      /\ Printed(totals, "TotMntNoFact") = sum("MntNoFact")
      /\ Printed(totals, "TotOpIVAUsoComun") = many("IVAUsoComun")
      /\ Printed(totals, "TotIVAUsoComun") = sum("IVAUsoComun")
      /\ Printed(totals, "TotOpIVARetTotal") = many("IVARetTotal")
      /\ Printed(totals, "TotIVARetTotal") = sum("IVARetTotal")
      /\ DOMAIN totals.TotOtrosImp = codes("OtrosImp")
      /\ \A c \in codes("OtrosImp") : totals.TotOtrosImp[c] = AmountOf(entries("OtrosImp"), c)
      /\ \A c \in codes("IVANoRec") :
           totals.TotIVANoRec[c] = [count |-> Size(Having(entries("IVANoRec"), "code", c)),
                                    amount |-> AmountOf(entries("IVANoRec"), c)]
      /\ \A f \in {"ValComNeto", "ValComExe", "ValComIVA"} :
           (IF "TotLiquidaciones" \in DOMAIN totals THEN totals.TotLiquidaciones[f] ELSE 0) = com(f)

(* A line that closed in its currency closes in pesos.                     *)
LinesClose(lines) == \A i \in DOMAIN lines : Closes(lines[i]) => Closes(BookLine(lines[i]))

BookAddsUp(lines, compra, summary) ==
  LET detail == [i \in DOMAIN lines |-> Detail(LinesInPesos(lines)[i], compra)]
  IN  /\ LinesClose(lines)
      /\ DOMAIN summary = {lines[i].doc_type : i \in DOMAIN lines}
      /\ \A t \in DOMAIN summary : SummaryIsSum(summary[t], Having(detail, "TpoDoc", t))

(* The same of the guides; the amounts modified, if no voided guide, whose *)
(* detail is only its folio, carries one.                                  *)
GuidesAddUp(lines, summary) ==
  LET detail == [i \in DOMAIN lines |-> GuideDetail(lines[i])]
      of(f, value) == Restrict(detail, {i \in DOMAIN detail : Printed(detail[i], f) = value})
      plain == \A i \in DOMAIN lines : lines[i].voided = NULL \/ lines[i].modified_amount = NULL
  IN  /\ summary.TotGuiaVenta = Size(of("TpoOper", SALE))
      /\ summary.TotMntGuiaVta = Sums(of("TpoOper", SALE), "MntTotal")
      /\ Printed(summary, "TotFolAnulado") = Size(of("Anulado", BEFORE_SENDING))
      /\ Printed(summary, "TotGuiaAnulada") = Size(of("Anulado", AFTER_SENDING))
      /\ plain => Printed(summary, "TotMntModificado") = Sums(detail, "MntModificado")
      /\ DOMAIN summary.TotTraslado =
           {Printed(detail[i], "TpoOper") : i \in DOMAIN detail} \ {0, SALE}
      /\ \A t \in DOMAIN summary.TotTraslado :
           summary.TotTraslado[t] = [CantGuia |-> Size(of("TpoOper", t)),
                                     MntGuia |-> Sums(of("TpoOper", t), "MntTotal")]

(* The ranges of a report are exactly its folios, as few and as long as    *)
(* they can be, and each counts once, if none is reported twice.           *)
ReportCoversFolios(lines, summary) ==
  LET exact(ranges, folios, n) ==
        /\ UNION {ranges[i][1]..ranges[i][2] : i \in DOMAIN ranges} = folios
        /\ \A i, j \in DOMAIN ranges : i < j => ranges[i][2] + 1 < ranges[j][1]
        /\ SumFunction([i \in DOMAIN ranges |-> ranges[i][2] - ranges[i][1] + 1]) = n
      with(voided) == {lines[i].folio : i \in {i \in DOMAIN lines : lines[i].voided = voided}}
      once == \A i, j \in DOMAIN lines : lines[i].folio = lines[j].folio => i = j
  IN  /\ once => /\ exact(summary.RangoUtilizados, with(FALSE), summary.FoliosEmitidos)
                 /\ exact(summary.RangoAnulados, with(TRUE), summary.FoliosAnulados)
      /\ summary.FoliosUtilizados = summary.FoliosEmitidos + summary.FoliosAnulados
=============================================================================
