----------------------------- MODULE SalesLines -----------------------------
(***************************************************************************)
(* The lines of the generated sales book (certification_fill.py): the      *)
(* service reads back the totals of the documents in an envelope the SII   *)
(* accepted.                                                               *)
(***************************************************************************)
EXTENDS Documents, Books

(* What each field of a line is read from.                                 *)
Element == [exempt_amount |-> "MntExe", net_amount |-> "MntNeto",
            vat_amount |-> "IVA", total_amount |-> "MntTotal"]

BlankLine == [doc_type |-> 0, voided |-> FALSE, currency |-> FALSE, exchange_rate |-> NULL,
              non_recoverable_vat |-> <<>>, other_taxes |-> <<>>, retained_vat_code |-> 15]
             ++ [f \in MoneyFields |-> 0]

(* Seeded fault: the zeros of a document without payment enter the book.   *)
InPesos_CopiesZeros(t) ==
  [f \in DOMAIN Element |-> Printed(t.OtraMoneda, Element[f])]
(* The equivalent in pesos; without payment it is declared as zero, which  *)
(* says nothing, and the amount is converted at the rate of the document.  *)
InPesos(t) ==
  LET informed == [f \in DOMAIN Element |-> Printed(t.OtraMoneda, Element[f])]
  IN  IF \E f \in DOMAIN informed : informed[f] # 0 THEN informed
      ELSE [f \in DOMAIN Element |->
              RoundHalfUp(Printed(t, Element[f]) * t.OtraMoneda.TpoCambio, 100 * UNIT)]

SalesLine(t) ==
  LET amounts == IF "OtraMoneda" \in DOMAIN t THEN InPesos(t)
                 ELSE [f \in DOMAIN Element |-> Printed(t, Element[f])]
      commissions == IF "Comisiones" \in DOMAIN t
                     THEN [commission_net |-> t.Comisiones.ValComNeto,
                           commission_exempt |-> t.Comisiones.ValComExe,
                           commission_vat |-> t.Comisiones.ValComIVA]
                     ELSE <<>>
  IN  amounts ++ commissions ++ [doc_type |-> t.type] ++ BlankLine

-----------------------------------------------------------------------------
(* A document's line in the sales book is worth what the document is, in   *)
(* pesos, and closes unless the document carries taxes of its own.         *)
LineIsWorth(worth, t) ==
  LET line == BookLine(SalesLine(t))
      commission == line.commission_net + line.commission_exempt + line.commission_vat
  IN  /\ line.total_amount = worth
      /\ DOMAIN t.ImptoReten = {} =>
           line.total_amount =
             line.exempt_amount + line.net_amount + line.vat_amount - commission
=============================================================================
