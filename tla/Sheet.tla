-------------------------------- MODULE Sheet -------------------------------
(***************************************************************************)
(* How the text the SII hands out with the cases of a certification        *)
(* becomes the definitions of the sets (certification_sheet.py), and how   *)
(* these are loaded (import_sheet of the router). A line is taken as its   *)
(* first cell, what it says, the keywords in it and its numbers; spelling  *)
(* and layout are left out, and so are the texts outside the cases. Of     *)
(* reading, [ok, ...]: what is not understood refuses the whole text.      *)
(* Amounts of customs are in hundredths of the foreign currency.           *)
(***************************************************************************)
EXTENDS Template

(* A line; TEXT is a cell that is not a number.                            *)
TEXT == -1
L(key, says, numbers) ==
  [key |-> key, says |-> says, words |-> {}, numbers |-> numbers, columns |-> <<>>]
Row(name, words, numbers) == [L("ROW", name, numbers) EXCEPT !.words = words]
Table(key, columns) == [L(key, "", <<>>) EXCEPT !.columns = columns]

IsBlank(line) == line.key \in {"", "="}
Number(line) == IF line.numbers = <<>> THEN TEXT ELSE line.numbers[1]

-----------------------------------------------------------------------------
(* The vocabulary of the sheet.                                            *)
SetNames ==
  "BASICO DOCUMENTOS DE EXPORTACION (1)" :> "exportacion_1"
  @@ "BASICO DOCUMENTOS DE EXPORTACION (2)" :> "exportacion_2"
  @@ "BASICO LIQUIDACIONES" :> "liquidacion"
  @@ "BASICO CASO GENERAL DE EMISOR DE FACTURA DE COMPRA" :> "factura_compra"
  @@ "LIBRO DE VENTAS" :> "libro_ventas" @@ "LIBRO DE COMPRAS" :> "libro_compras"
  @@ "LIBRO DE GUIAS" :> "libro_guias" @@ "GUIA DE DESPACHO" :> "guias"
  @@ "FACTURA EXENTA" :> "exenta" @@ "BASICO" :> "basico"

Endpoints ==
  [k \in {"basico", "guias", "exenta", "factura_compra"} |-> "issue-batch"]
  @@ [k \in {"exportacion_1", "exportacion_2"} |-> "issue-export-batch"]
  @@ [k \in {"libro_ventas", "libro_compras"} |-> "books"]
  @@ [liquidacion |-> "issue-settlement-batch", libro_guias |-> "books/guides",
      boletas |-> "boletas"]

DocumentTypes ==
  "FACTURA ELECTRONICA" :> 33 @@ "FACTURA NO AFECTA O EXENTA ELECTRONICA" :> 34
  @@ "FACTURA DE COMPRA ELECTRONICA" :> 46
  @@ "GUIA DE DESPACHO" :> 52 @@ "GUIA DE DESPACHO ELECTRONICA" :> 52
  @@ "NOTA DE DEBITO ELECTRONICA" :> 56 @@ "NOTA DE CREDITO ELECTRONICA" :> 61
  @@ "FACTURA DE EXPORTACION ELECTRONICA" :> 110
  @@ "NOTA DE DEBITO DE EXPORTACION ELECTRONICA" :> 111
  @@ "NOTA DE CREDITO DE EXPORTACION ELECTRONICA" :> 112
  @@ "LIQUIDACION FACTURA ELECTRONICA" :> 43
ExportTypes == {110, 111, 112}

PurchaseTypes ==
  "FACTURA" :> 30 @@ "FACTURA ELECTRONICA" :> 33 @@ "FACTURA DE COMPRA" :> 45
  @@ "FACTURA DE COMPRA ELECTRONICA" :> 46
  @@ "NOTA DE DEBITO" :> 55 @@ "NOTA DE DEBITO ELECTRONICA" :> 56
  @@ "NOTA DE CREDITO" :> 60 @@ "NOTA DE CREDITO ELECTRONICA" :> 61

ExternalTypes == [DUS |-> 807, AWB |-> 809, MIC |-> 810] @@ "RESOLUCION SNA" :> 812
SNA == 812
GUEST_PASSPORT == 813
QUALIFIED_SERVICE == 3

(* Data the sheet does not bring: the provider of a purchase invoice, and  *)
(* the exchange rate, in hundredths.                                       *)
PROVIDER == "PROVIDER"
ExchangeRates == "DOLAR USA" :> 94091 @@ "LIBRA EST" :> 126500 @@ "EURO" :> 101500

Reasons == "ANULA" :> ANNULS @@ "CORRIGE" :> CORRECTS_TEXT
CodeOf(reason) == IF reason \in DOMAIN Reasons THEN Reasons[reason] ELSE CORRECTS_AMOUNT
Transfers == [VENTA |-> 1, TRASLADO |-> INTERNAL_TRANSFER]
Dispatches == [CLIENTE |-> 1] @@ "LOCAL DEL CLIENTE" :> 2 @@ "OTRAS INSTALACIONES" :> 3

-----------------------------------------------------------------------------
(* A row of a table: as many values as columns at most, and numbers except *)
(* for the unit. Some lines are one cell, whatever numbers they mention.   *)
OneCell == {"RECARGO EN LA LINEA", "OBSERVACION"}
FitsTable(line, columns) ==
  /\ line.key \notin OneCell
  /\ Len(line.numbers) \in 1..Len(columns)
  /\ \A i \in DOMAIN line.numbers : line.numbers[i] = TEXT => columns[i] = "UNIDAD MEDIDA"
Fila(line, columns) ==
  [name |-> line.says, words |-> line.words,
   cells |-> [c \in {columns[i] : i \in DOMAIN line.numbers} |->
                line.numbers[CHOOSE i \in DOMAIN line.numbers : columns[i] = c]]]
Cell(row, column) == IF column \in DOMAIN row.cells THEN row.cells[column] ELSE NULL

(* An item lacks what the sheet does not give. The value of a line is the  *)
(* price of one unit; a guide without price is not a sale.                 *)
ItemOfRow(kind, type, row) ==
  LET given == SelectSeq(<<"VALOR LINEA", "PRECIO UNITARIO", "VALOR UNITARIO", "PRECIO UNITARIO CON IVA">>,
                         LAMBDA c : c \in DOMAIN row.cells)
  IN  [name |-> row.name, words |-> row.words,
       quantity |-> IF "VALOR LINEA" \in DOMAIN row.cells THEN 1 ELSE Cell(row, "CANTIDAD"),
       unit_price |-> IF given # <<>> THEN row.cells[given[1]] ELSE IF type = 52 THEN 0 ELSE NULL,
       amount |-> Cell(row, "TOTAL LINEA"), unit |-> "UNIDAD MEDIDA" \in DOMAIN row.cells,
       discount_pct |-> Cell(row, "DESCUENTO ITEM"), surcharge_pct |-> NULL,
       exempt |-> type = 34 \/ kind = "exenta" \/ "EXENTO" \in row.words]

(* The reading of a case, line by line; the last of two that say the same  *)
(* counts.                                                                 *)
Unread ==
  [ok |-> TRUE, type |-> NULL, table |-> "none", columns |-> <<>>, items |-> <<>>,
   commissions |-> <<>>, reason |-> "", ref |-> 0, external |-> <<>>, customs |-> <<>>,
   charges |-> <<>>, surcharge |-> NULL, discounts |-> <<>>, clause |-> NULL,
   transfer_type |-> NULL, dispatch_type |-> NULL, global_discounts |-> <<>>,
   currency |-> "", payment_mode |-> NULL, nationality |-> NULL]
Refused(r) == [r EXCEPT !.ok = FALSE]
Looked(r, table, word, set(_)) == IF word \in DOMAIN table THEN set(table[word]) ELSE Refused(r)

CodeFields ==
  "MODALIDAD DE VENTA:" :> {"sale_mode"} @@ "CLAUSULA DE VENTA DE EXPORTACION:" :> {"sale_clause"}
  @@ "TOTAL CLAUSULA DE VENTA:" :> {"clause_total"} @@ "VIA DE TRANSPORTE:" :> {"transport_route"}
  @@ "PUERTO DE EMBARQUE:" :> {"loading_port"} @@ "PUERTO DE DESEMBARQUE:" :> {"unloading_port"}
  @@ "UNIDAD DE MEDIDA DE TARA:" :> {"tare_unit"} @@ "UNIDAD PESO BRUTO:" :> {"gross_weight_unit"}
  @@ "UNIDAD PESO NETO:" :> {"net_weight_unit"} @@ "TIPO DE BULTO:" :> {"package_kind"}
  @@ "TOTAL BULTOS:" :> {"total_packages"} @@ "FLETE (**):" :> {"freight"}
  @@ "SEGURO (**):" :> {"insurance"}
  @@ "PAIS RECEPTOR Y PAIS DESTINO:" :> {"receiver_country", "destination_country"}
Charged == {"FLETE (**):", "SEGURO (**):"}
CustomsKeys ==
  DOMAIN CodeFields \cup {"MONEDA DE LA OPERACION:", "FORMA DE PAGO EXPORTACION:", "NACIONALIDAD:"}

(* Freight and insurance are informed, and charged as well.                *)
Aduana(r, line) ==
  IF line.key = "MONEDA DE LA OPERACION:" THEN [r EXCEPT !.currency = line.says]
  ELSE IF line.key = "FORMA DE PAGO EXPORTACION:" /\ line.says = "SIN PAGO"
  THEN [r EXCEPT !.payment_mode = NO_PAYMENT]
  ELSE IF Number(line) = TEXT THEN Refused(r)
  ELSE IF line.key = "FORMA DE PAGO EXPORTACION:" THEN [r EXCEPT !.payment_mode = Number(line)]
  ELSE IF line.key = "NACIONALIDAD:" THEN [r EXCEPT !.nationality = Number(line)]
  ELSE [r EXCEPT !.customs = [f \in CodeFields[line.key] |-> Number(line)] @@ @,
                 !.charges = IF line.key \in Charged THEN Append(@, Number(line)) ELSE @]

(* While a table is open every line is a row of it, but for the references *)
(* and what ends in a colon.                                               *)
Colon == CustomsKeys \cup {"REFERENCIA:", "MOTIVO:", "TRASLADO POR:", "DESCUENTO LINEA:",
                           "COMISIONES EN EL EXTRANJERO:"}
ReadRow(r, line) ==
  IF ~FitsTable(line, r.columns) THEN Refused(r)
  ELSE IF r.table = "items" THEN [r EXCEPT !.items = Append(@, Fila(line, r.columns))]
  ELSE [r EXCEPT !.commissions = Append(@, Fila(line, r.columns))]

ReadKey(code, number, r, line) ==
  LET k == line.key
      n == Number(line)
  IN  CASE k = "DOCUMENTO" -> Looked(r, DocumentTypes, line.says, LAMBDA t : [r EXCEPT !.type = t])
        [] k = "ITEM" -> [r EXCEPT !.columns = line.columns, !.table = "items"]
        [] k = "COMISIONES Y OTROS CARGOS" ->
             [r EXCEPT !.columns = line.columns, !.table = "commissions"]
        [] k = "REFERENCIA" ->
             IF line.numbers[1] = code /\ line.numbers[2] \in 1..(number - 1)
             THEN [r EXCEPT !.ref = line.numbers[2]] ELSE Refused(r)
        [] k = "RAZON REFERENCIA" -> [r EXCEPT !.reason = line.says]
        [] k = "REFERENCIA:" ->
             Looked(r, ExternalTypes, line.says, LAMBDA t : [r EXCEPT !.external = Append(@, t)])
        [] k = "MOTIVO:" -> Looked(r, Transfers, line.says, LAMBDA t : [r EXCEPT !.transfer_type = t])
        [] k = "TRASLADO POR:" ->
             Looked(r, Dispatches, line.says, LAMBDA t : [r EXCEPT !.dispatch_type = t])
        [] k = "DESCUENTO GLOBAL" /\ n # TEXT -> [r EXCEPT !.global_discounts = Append(@, n)]
        [] k = "DESCUENTO LINEA:" /\ n # TEXT ->
             [r EXCEPT !.discounts = n :> line.numbers[2] @@ @]
        [] k = "RECARGO EN LA LINEA" -> [r EXCEPT !.surcharge = n]
        [] k = "COMISIONES EN EL EXTRANJERO:" /\ n # TEXT -> [r EXCEPT !.clause = n]
        [] k = "EL PRECIO UNITARIO" -> r
        [] k \in CustomsKeys -> Aduana(r, line)
        [] OTHER -> Refused(r)

ReadLine(code, number, r, line) ==
  IF ~r.ok THEN r
  ELSE IF IsBlank(line) THEN [r EXCEPT !.table = "none"]
  ELSE IF r.table # "none" /\ line.key \notin Colon \cup {"REFERENCIA", "RAZON REFERENCIA"}
  THEN ReadRow(r, line)
  ELSE ReadKey(code, number, r, line)

-----------------------------------------------------------------------------
(* What a note takes from the document it modifies: all the items if it    *)
(* annuls it, an empty line if it corrects a text, and else, for each of   *)
(* its items, what the sheet does not give, from the one of the same name. *)
Original(originals, item) == SelectInSeq(originals, LAMBDA o : o.name = item.name)
Inherits(items, originals, code) ==
  IF items = <<>> THEN code # CORRECTS_AMOUNT
  ELSE \A i \in DOMAIN items : Original(originals, items[i]) # 0

Or(value, inherited) == IF value = NULL THEN inherited ELSE value
EmptyLine(originals) ==
  [name |-> "REASON", words |-> {}, quantity |-> 0, unit_price |-> 0, amount |-> NULL,
   unit |-> FALSE, discount_pct |-> NULL, surcharge_pct |-> NULL,
   exempt |-> originals # <<>> /\ \A i \in DOMAIN originals : originals[i].exempt]

(* Seeded fault: the items are matched by position.                        *)
Heredar_ByPosition(items, originals, code) ==
  LET complete(item, o) ==
        [item EXCEPT !.quantity = Or(@, o.quantity), !.unit_price = Or(@, o.unit_price),
                     !.discount_pct = Or(@, o.discount_pct), !.exempt = @ \/ o.exempt]
  IN  IF items # <<>> THEN [i \in DOMAIN items |-> complete(items[i], originals[i])]
      ELSE IF code = ANNULS THEN originals ELSE <<EmptyLine(originals)>>
Heredar(items, originals, code) ==
  LET complete(item, o) ==
        [item EXCEPT !.quantity = Or(@, o.quantity), !.unit_price = Or(@, o.unit_price),
                     !.discount_pct = Or(@, o.discount_pct), !.exempt = @ \/ o.exempt,
                     !.unit = @ \/ (item.quantity # NULL /\ o.unit)]
  IN  IF items # <<>>
      THEN [i \in DOMAIN items |-> complete(items[i], originals[Original(originals, items[i])])]
      ELSE IF code = ANNULS THEN originals ELSE <<EmptyLine(originals)>>

(* A settled line says in its name which document it settles.              *)
LiquidatedTypes ==
  <<<<"ANTICIPO", 99, 99>>, <<"LIQUIDACION FACTURA", 43, 40>>, <<"NOTA DE CREDITO", 61, 60>>,
    <<"NOTA DE DEBITO", 56, 55>>, <<"BOLETA", 39, 35>>, <<"FACTURA", 33, 30>>>>
TipoLiquidado(words) ==
  LET i == SelectInSeq(LiquidatedTypes, LAMBDA t : t[1] \in words)
  IN  IF i = 0 THEN NULL
      ELSE IF "ELECTRONICA" \in words THEN LiquidatedTypes[i][2] ELSE LiquidatedTypes[i][3]

ValidSettled(item) ==
  item.amount # NULL /\ item.quantity # NULL /\ TipoLiquidado(item.words) # NULL
LineaLiquidacion(item) ==
  [liquidated_type |-> TipoLiquidado(item.words), amount |-> item.amount,
   quantity |-> item.quantity, exempt |-> "EXENTO" \in item.words,
   advance |-> "ANTICIPO" \in item.words]
ValidCommission(row) == "NETO" \in row.words /\ "TOTAL LINEA" \in DOMAIN row.cells
Comision(row) == [net_amount |-> row.cells["TOTAL LINEA"]]

-----------------------------------------------------------------------------
(* A case of a set: what was read, and the document it refers to.          *)
NoDocument ==
  [currency |-> "", customs |-> <<>>, charges |-> <<>>, discounts |-> <<>>, nationality |-> NULL]
  @@ Blank0
Referred(r, before) == IF r.ref = 0 THEN NoDocument ELSE before[r.ref]

Items(kind, r) ==
  [i \in DOMAIN r.items |->
     [ItemOfRow(kind, r.type, r.items[i]) EXCEPT
        !.surcharge_pct = r.surcharge,
        !.discount_pct = IF i \in DOMAIN r.discounts THEN r.discounts[i] ELSE @]]
Inherited(kind, r, referred) ==
  IF r.ref = 0 THEN Items(kind, r) ELSE Heredar(Items(kind, r), referred.items, CodeOf(r.reason))

(* A note repeats the currency of its document, and its countries if it    *)
(* brings no customs of its own.                                           *)
Currency(r, referred) == IF r.currency = "" THEN referred.currency ELSE r.currency
Customs(r, referred) ==
  IF DOMAIN r.customs # {} THEN r.customs
  ELSE Restrict(referred.customs,
                DOMAIN referred.customs \cap CodeFields["PAIS RECEPTOR Y PAIS DESTINO:"])

(* A guest of a hotel: a foreigner, and nothing goes through customs.      *)
IsGuest(r, referred) == r.nationality # NULL /\ DOMAIN Customs(r, referred) = {}

Understood(kind, r, referred) ==
  /\ r.ok /\ r.type # NULL
  /\ DOMAIN r.discounts \subseteq DOMAIN r.items
  /\ r.ref # 0 =>
       r.reason # "" /\ Inherits(Items(kind, r), referred.items, CodeOf(r.reason))
  /\ IF kind = "liquidacion"
     THEN LET items == Inherited(kind, r, referred)
          IN  /\ \A i \in DOMAIN items : ValidSettled(items[i])
              /\ \A i \in DOMAIN r.commissions : ValidCommission(r.commissions[i])
     ELSE IF r.type \in ExportTypes
     THEN /\ Currency(r, referred) \in DOMAIN ExchangeRates
          /\ r.clause # NULL => "clause_total" \in DOMAIN Customs(r, referred)
     ELSE r.external = <<>> /\ DOMAIN r.customs = {} /\ r.charges = <<>>

(* The foreign receiver, the charges on the whole and the references the   *)
(* SII asks for: the case's, those to other documents and the passport.    *)
Exportacion(doc, r, referred) ==
  LET customs == Customs(r, referred)
      commission == IF r.clause = NULL THEN <<>>
                    ELSE <<RoundHalfUp(customs["clause_total"] * r.clause, 100)>>
      others == r.external \o IF IsGuest(r, referred) THEN <<GUEST_PASSPORT>> ELSE <<>>
      currency == Currency(r, referred)
  IN  [doc EXCEPT
         !.receiver = IMPORTER, !.currency = currency, !.customs = customs,
         !.exchange_rate = ExchangeRates[currency], !.charges = r.charges \o commission,
         !.references = @ \o [i \in DOMAIN others |-> RefExterna(others[i])],
         !.service = IF IsGuest(r, referred) THEN HOTEL_SERVICE
                     ELSE IF SNA \in ToSet(r.external) THEN QUALIFIED_SERVICE ELSE NULL]

Caso(kind, r, referred) ==
  LET items == Inherited(kind, r, referred)
      doc == [NoDocument EXCEPT
                !.references = IF r.ref = 0 THEN <<>> ELSE <<Ref(r.ref, CodeOf(r.reason))>>,
                !.discounts = r.global_discounts, !.nationality = r.nationality,
                !.payment_mode = r.payment_mode, !.transfer_type = r.transfer_type,
                !.dispatch_type = r.dispatch_type, !.currency = r.currency]
      named == [doc EXCEPT !.type = r.type, !.items = items,
                  !.retentions = IF kind # "factura_compra" THEN <<>>
                                 ELSE <<[code |-> 15, amount |-> NULL]>>,
                  !.receiver = IF kind = "factura_compra" /\ r.type = 46 THEN PROVIDER ELSE @]
  IN  IF kind = "liquidacion"
      THEN [doc EXCEPT !.receiver = PRINCIPAL,
              !.lines = [i \in DOMAIN items |-> LineaLiquidacion(items[i])],
              !.commissions = [i \in DOMAIN r.commissions |-> Comision(r.commissions[i])]]
      ELSE IF r.type \in ExportTypes THEN Exportacion(named, r, referred) ELSE named
=============================================================================
