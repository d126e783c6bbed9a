------------------------------ MODULE Documents -----------------------------
(***************************************************************************)
(* The amounts of a document: how the engine derives totals from the lines *)
(* (models.py, settlement.py, export_invoice.py), which documents it       *)
(* refuses for them, and what it prints in <Totales>. Texts, transport and *)
(* the blocks without amounts are left out, and with them the checks of    *)
(* the transfer of a guide. A document is a record of the request;         *)
(* quantities are given in halves. A sum over some of the entries of a     *)
(* list is taken over their places.                                        *)
(***************************************************************************)
EXTENDS Amounts

(* DTEType                                                                 *)
ExemptTypes == {34, 41}
ReceiptTypes == {39, 41}
NoteTypes == {56, 61, 111, 112}
RetentionAllowed == {46, 56, 61}
AdditionalTaxAllowed == {33, 56, 61}
ADDITIONAL_TAX_CODES == {23, 24, 25, 26, 27, 271}
MAX_LINE_TAX_CODES == 2
MAX_COMMISSIONS == 20

-----------------------------------------------------------------------------
(* Lines: quantity by price, less the discount by amount or percentage.    *)
GrossAmount(item) == RoundHalfEven(item.halves * item.unit_price, 2)

Discount(item) ==
  IF item.discount_amount # NULL THEN item.discount_amount
  ELSE RoundHalfEven(GrossAmount(item) * item.discount_pct, 100)

Amount(item) == GrossAmount(item) - Discount(item)

IsExempt(dte) == dte.type \in ExemptTypes

LineAmounts(items) == [i \in DOMAIN items |-> Amount(items[i])]
ExemptLines(dte) == {i \in DOMAIN dte.items : IsExempt(dte) \/ dte.items[i].exempt}

BaseExempt(dte) == SumFunctionOnSet(LineAmounts(dte.items), ExemptLines(dte))
BaseAffected(dte) ==
  SumFunctionOnSet(LineAmounts(dte.items), DOMAIN dte.items \ ExemptLines(dte))

(* Every global discount is taken over the original base, not in cascade.  *)
GlobalOver(dr, base) ==
  LET over == IF dr.value_type = "%" THEN RoundHalfEven(base * dr.value, 100) ELSE dr.value
  IN  IF dr.kind = "D" THEN 0 - over ELSE over

ApplyGlobal(dte, base, scopes) ==
  LET globals == dte.global_discounts
  IN  base + SumFunction([i \in {i \in DOMAIN globals : globals[i].scope \in scopes} |->
                            GlobalOver(globals[i], base)])

Affected(dte) == ApplyGlobal(dte, BaseAffected(dte), {"afecto"})

ExemptAmount(dte) ==
  ApplyGlobal(dte, BaseExempt(dte),
              {"exento", "no_afecto"} \cup IF IsExempt(dte) THEN {"afecto"} ELSE {})

NetAmount(dte) ==
  IF IsExempt(dte) THEN 0
  ELSE IF dte.prices_include_vat THEN RoundHalfEven(100 * Affected(dte), 100 + VAT_RATE)
  ELSE Affected(dte)

(* Seeded fault: the tax is taken before the global discounts.             *)
Vat_BeforeDiscounts(dte) ==
  IF dte.prices_include_vat THEN Affected(dte) - NetAmount(dte)
  ELSE RoundHalfEven(BaseAffected(dte) * VAT_RATE, 100)
Vat(dte) ==
  IF dte.prices_include_vat THEN Affected(dte) - NetAmount(dte)
  ELSE RoundHalfEven(NetAmount(dte) * VAT_RATE, 100)

(* A retention without an amount takes the whole tax.                      *)
RetentionOver(r, vat) == IF r.amount # NULL THEN r.amount ELSE vat
RetainedAmount(dte) ==
  SumFunction([i \in DOMAIN dte.retentions |-> RetentionOver(dte.retentions[i], Vat(dte))])

(* The additional tax of a code is taken over the lines that carry it.     *)
TaxBase(tax, items) ==
  SumFunctionOnSet(LineAmounts(items),
                   {i \in DOMAIN items : items[i].additional_tax_code = tax.code})
TaxOver(tax, items) ==
  IF tax.amount # NULL THEN tax.amount ELSE RoundHalfEven(tax.rate * TaxBase(tax, items), 100)
AdditionalTaxAmount(dte) ==
  SumFunction([i \in DOMAIN dte.additional_taxes |->
                 TaxOver(dte.additional_taxes[i], dte.items)])

TotalAmount(dte) ==
  NetAmount(dte) + Vat(dte) + ExemptAmount(dte) + AdditionalTaxAmount(dte)
    - RetainedAmount(dte)

-----------------------------------------------------------------------------
(* What the engine refuses before a folio is taken.                        *)
ValidRetentions(dte) ==
  /\ dte.retentions # <<>> => dte.type \in RetentionAllowed
  /\ RetainedAmount(dte) <= NetAmount(dte) + Vat(dte) + ExemptAmount(dte)

ValidAdditionalTaxes(dte) ==
  LET declared == {dte.additional_taxes[i].code : i \in DOMAIN dte.additional_taxes}
      taxed == {i \in DOMAIN dte.items : dte.items[i].additional_tax_code # NULL}
      used == {dte.items[i].additional_tax_code : i \in taxed}
  IN  declared # {} \/ used # {} =>
        /\ dte.type \in AdditionalTaxAllowed
        /\ declared \subseteq ADDITIONAL_TAX_CODES
        /\ Cardinality(declared) = Len(dte.additional_taxes)
        /\ used = declared
        /\ \A i \in taxed : ~dte.items[i].exempt
        /\ dte.global_discounts = <<>>

ValidContent(dte) ==
  /\ dte.items # <<>>
  /\ dte.type \in NoteTypes => dte.references
  /\ \A i \in DOMAIN dte.global_discounts :
       dte.global_discounts[i].scope # "afecto" => BaseExempt(dte) # 0
  /\ NetAmount(dte) >= 0 /\ ExemptAmount(dte) >= 0
  /\ ValidRetentions(dte)
  /\ ValidAdditionalTaxes(dte)

-----------------------------------------------------------------------------
(* <Totales> of a document: a zero that says nothing is not printed. The   *)
(* places of <ImptoReten> are those of the taxes, then of the retentions.  *)
ImptoReten(dte) ==
  LET vat == Vat(dte)
      told == {i \in DOMAIN dte.retentions : RetentionOver(dte.retentions[i], vat) # 0}
      taxes == [p \in (DOMAIN dte.additional_taxes) \X {1} |->
                  [code |-> dte.additional_taxes[p[1]].code, retained |-> FALSE,
                   amount |-> TaxOver(dte.additional_taxes[p[1]], dte.items)]]
      kept == [p \in told \X {2} |->
                 [code |-> dte.retentions[p[1]].code, retained |-> TRUE,
                  amount |-> RetentionOver(dte.retentions[p[1]], vat)]]
  IN  taxes ++ kept

Totales(dte) ==
  LET exe == ExemptAmount(dte)
      net == NetAmount(dte)
  IN  Field(~IsExempt(dte) /\ (net # 0 \/ exe = 0), "MntNeto", net)
      ++ Field(IsExempt(dte) \/ exe # 0, "MntExe", exe)
      ++ Field(net # 0, "IVA", Vat(dte))
      ++ [type |-> dte.type, folio |-> dte.folio,
          ImptoReten |-> ImptoReten(dte), MntTotal |-> TotalAmount(dte)]

(* The codes each line carries, so that the tax of the header adds up.     *)
LineCodes(dte, item) ==
  LET own == IF item.additional_tax_code # NULL THEN <<item.additional_tax_code>> ELSE <<>>
      kept == IF item.exempt \/ IsExempt(dte) THEN <<>>
              ELSE [i \in DOMAIN dte.retentions |-> dte.retentions[i].code]
      all == own \o kept
  IN  SubSeq(all, 1, IF Len(all) < MAX_LINE_TAX_CODES THEN Len(all) ELSE MAX_LINE_TAX_CODES)

ReceiptTotales(dte) ==
  Field(NetAmount(dte) # 0, "MntNeto", NetAmount(dte))
  ++ Field(ExemptAmount(dte) # 0, "MntExe", ExemptAmount(dte))
  ++ Field(Vat(dte) # 0, "IVA", Vat(dte))
  ++ [type |-> dte.type, folio |-> dte.folio,
      ImptoReten |-> <<>>, MntTotal |-> TotalAmount(dte)]

-----------------------------------------------------------------------------
(* Settlement invoice: what was sold for the principal, less commissions.  *)
SettledSum(s, exempt) ==
  SumFunction([i \in {i \in DOMAIN s.items : s.items[i].exempt = exempt} |-> s.items[i].amount])
SettledNet(s) == SettledSum(s, FALSE)
SettledExempt(s) == SettledSum(s, TRUE)
SettledVat(s) == RoundHalfEven(SettledNet(s) * VAT_RATE, 100)

CommissionNet(s) == SumFunction([i \in DOMAIN s.commissions |-> s.commissions[i].net_amount])
CommissionExempt(s) ==
  SumFunction([i \in DOMAIN s.commissions |-> s.commissions[i].exempt_amount])

(* The rate over the total, rounded once, unless one was fixed by hand.    *)
VatOfCommission(c) ==
  IF c.fixed THEN c.vat_amount ELSE RoundHalfEven(c.net_amount * VAT_RATE, 100)
CommissionVat(s) ==
  IF \E i \in DOMAIN s.commissions : s.commissions[i].fixed
  THEN SumFunction([i \in DOMAIN s.commissions |-> VatOfCommission(s.commissions[i])])
  ELSE RoundHalfEven(CommissionNet(s) * VAT_RATE, 100)

SettledTotal(s) ==
  SettledNet(s) + SettledExempt(s) + SettledVat(s)
    - CommissionNet(s) - CommissionExempt(s) - CommissionVat(s)

ValidSettlement(s) == s.items # <<>> /\ Len(s.commissions) <= MAX_COMMISSIONS

SettlementTotales(s) ==
  Field(SettledNet(s) # 0, "MntNeto", SettledNet(s))
  ++ Field(SettledExempt(s) # 0, "MntExe", SettledExempt(s))
  ++ Field(SettledNet(s) # 0, "IVA", SettledVat(s))
  ++ Field(s.commissions # <<>>, "Comisiones",
           [ValComNeto |-> CommissionNet(s), ValComExe |-> CommissionExempt(s),
            ValComIVA |-> CommissionVat(s)])
  ++ [type |-> 43, folio |-> s.folio, ImptoReten |-> <<>>, MntTotal |-> SettledTotal(s)]

-----------------------------------------------------------------------------
(* Export documents: amounts in ten-thousandths of the foreign currency,   *)
(* charges on the whole and the exchange rate in hundredths, quantities in *)
(* halves.                                                                 *)
UNIT == 10000
NO_PAYMENT == 21

ExportGross(item) ==
  IF item.halves = NULL \/ item.unit_price = NULL THEN item.amount
  ELSE RoundHalfUp(item.halves * item.unit_price, 2)

(* DescuentoMonto and RecargoMonto are whole units.                        *)
ExportLine(item) ==
  LET whole(pct) == UNIT * RoundHalfUp(ExportGross(item) * pct, 100 * UNIT)
  IN  ExportGross(item) - whole(item.discount_pct) + whole(item.surcharge_pct)

(* What a charge on the whole is worth, in hundredths of a ten-thousandth. *)
ExportCharge(dr, base) ==
  LET over == IF dr.value_type = "%" THEN base * dr.value ELSE UNIT * dr.value
  IN  IF dr.kind = "R" THEN over ELSE 0 - over

ExportBase(doc) == SumFunction([i \in DOMAIN doc.items |-> ExportLine(doc.items[i])])
ExportTotal(doc) ==
  LET base == ExportBase(doc)
      charges == SumFunction([i \in DOMAIN doc.global_discounts |->
                                ExportCharge(doc.global_discounts[i], base)])
  IN  RoundHalfUp(100 * base + charges, 100)

ValidExport(doc) ==
  /\ doc.items # <<>>
  /\ doc.exchange_rate # NULL
  /\ doc.type \in NoteTypes => doc.references
  /\ ExportTotal(doc) >= 0

(* Without payment the amounts in the other currency are printed as zero.  *)
ExportTotales(doc) ==
  LET converted == IF doc.payment_mode = NO_PAYMENT THEN 0
                   ELSE RoundHalfUp(ExportTotal(doc) * doc.exchange_rate, 100 * UNIT)
  IN  [type |-> doc.type, folio |-> doc.folio, ImptoReten |-> <<>>,
       MntExe |-> ExportTotal(doc), MntTotal |-> ExportTotal(doc),
       OtraMoneda |-> [TpoCambio |-> doc.exchange_rate,
                       MntExe |-> converted, MntTotal |-> converted]]
-----------------------------------------------------------------------------
(* What is printed adds up to the total.                                   *)
TotalsClose(t) ==
  LET com == IF "Comisiones" \in DOMAIN t THEN t.Comisiones
             ELSE [ValComNeto |-> 0, ValComExe |-> 0, ValComIVA |-> 0]
      taxes == SumFunction([p \in DOMAIN t.ImptoReten |->
                              IF t.ImptoReten[p].retained THEN 0 - t.ImptoReten[p].amount
                              ELSE t.ImptoReten[p].amount])
  IN  t.MntTotal = Printed(t, "MntNeto") + Printed(t, "MntExe") + Printed(t, "IVA") + taxes
                     - com.ValComNeto - com.ValComExe - com.ValComIVA

TaxedLinesPositive(dte) ==
  \A i \in DOMAIN dte.items :
    dte.items[i].additional_tax_code # NULL => Amount(dte.items[i]) >= 0

(* The tax is the rate over the net that is printed, to the peso; where    *)
(* prices include it, the customer pays exactly those prices.              *)
TaxOfNet(dte, t) ==
  LET off == 100 * Printed(t, "IVA") - VAT_RATE * Printed(t, "MntNeto")
  IN  IF dte.prices_include_vat
      THEN off \in -59..59 /\ t.MntTotal = Affected(dte) + ExemptAmount(dte)
      ELSE off \in -50..50

(* Every tax of the header is carried by a line, if one is affected and    *)
(* the codes fit into it: the SII adds up the lines.                       *)
HeaderTaxesOnLines(dte, t) ==
  LET codes == {t.ImptoReten[p].code : p \in DOMAIN t.ImptoReten}
      on(item) == {LineCodes(dte, item)[i] : i \in DOMAIN LineCodes(dte, item)}
      carried == UNION {on(dte.items[i]) : i \in DOMAIN dte.items}
  IN  (\E i \in DOMAIN dte.items : ~dte.items[i].exempt) /\ ~IsExempt(dte)
      /\ Len(dte.additional_taxes) + Len(dte.retentions) <= MAX_LINE_TAX_CODES
        => codes \subseteq carried
=============================================================================
