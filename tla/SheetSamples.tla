---------------------------- MODULE SheetSamples ----------------------------
(***************************************************************************)
(* Texts like those the SII hands out, with what varies from one taxpayer  *)
(* to another and with the mistakes the reader stops at.                   *)
(***************************************************************************)
EXTENDS SheetFile

EMPTY == <<L("", "", <<>>)>>
RULE == <<L("RULE", "", <<>>)>>
MARK == <<L("=", "", <<>>)>>
OTHER_TEXT == <<L("IMPORTANTE", "", <<>>)>>
Header(name, code) == <<L("SET", name, <<code>>)>> \o OTHER_TEXT
CaseOf(code, n, body) == <<L("CASO", "", <<code, n>>)>> \o MARK \o body
Is(name) == <<L("DOCUMENTO", name, <<>>)>>
On(code, n, reason) ==
  <<L("REFERENCIA", "", <<code, n>>), L("RAZON REFERENCIA", reason, <<>>)>>
Items2(columns, rows) == <<Table("ITEM", columns)>> \o rows
Said(key, says) == <<L(key, says, <<>>)>>
Amount1(key, n) == <<L(key, "", <<n>>)>>

QP == <<"CANTIDAD", "PRECIO UNITARIO">>
Sold(words) == Items2(QP, <<Row("A", {}, <<3, 101>>), Row("B", words, <<2, 50>>)>>)
Sales ==
  {Sold({}), Sold({"EXENTO"}), Sold({}) \o EMPTY \o Amount1("DESCUENTO GLOBAL", 20),
   Sold({}) \o Amount1("DESCUENTO GLOBAL", 20),
   Sold({}) \o EMPTY \o Amount1("OBSERVACION", 1), Sold({}) \o Amount1("OBSERVACION", 1),
   Items2(QP \o <<"DESCUENTO ITEM">>, <<Row("A", {}, <<3, 101, 9>>), Row("B", {}, <<2, 50>>)>>),
   Items2(QP, <<Row("A", {}, <<3, 101>>), Row("A", {}, <<1, 40>>)>>),
   Items2(<<"CANTIDAD", "UNIDAD MEDIDA", "VALOR UNITARIO">>, <<Row("A", {}, <<13, TEXT, 7>>)>>),
   Items2(QP, <<Row("A", {}, <<3, TEXT>>)>>), Items2(QP, <<Row("A", {}, <<3, 1, 1>>)>>),
   Sold({}) \o EMPTY
     \o <<Table("COMISIONES Y OTROS CARGOS", <<"TOTAL LINEA">>), Row("NETO", {"NETO"}, <<5>>)>>}
GivenRows ==
  {<<>>, Items2(<<"CANTIDAD">>, <<Row("A", {}, <<2>>)>>),
   Items2(<<"VALOR UNITARIO">>, <<Row("B", {}, <<20>>)>>),
   Items2(<<"CANTIDAD">>, <<Row("B", {}, <<2>>), Row("A", {}, <<3>>)>>),
   Items2(<<"CANTIDAD">>, <<Row("C", {}, <<1>>)>>)}
Reasons3 == {"ANULA", "CORRIGE", "DEVOLUCION"}

(* A sale, a note about it, and one about either of them.                  *)
NationalBody(code, invoice, sale, on, reason, given, on2) ==
  EMPTY \o CaseOf(code, 1, Is(invoice) \o EMPTY \o sale \o EMPTY)
  \o CaseOf(code, 2, Is("NOTA DE CREDITO ELECTRONICA") \o On(code, on, reason) \o EMPTY
                     \o given \o EMPTY)
  \o IF on2 = 0 THEN RULE \o OTHER_TEXT
     ELSE CaseOf(code, 3, Is("NOTA DE DEBITO ELECTRONICA") \o On(code, on2, "ANULA"))
National ==
  {Header("BASICO", 5) \o NationalBody(5, "FACTURA ELECTRONICA", s, 1, r, g, n) :
     s \in Sales, r \in Reasons3, g \in GivenRows, n \in {0, 1, 2}}
  \cup
  {Header(set[1], 5) \o NationalBody(code, set[2], s, on, r, g, 2) :
     set \in {<<"FACTURA EXENTA", "FACTURA NO AFECTA O EXENTA ELECTRONICA">>,
              <<"BASICO CASO GENERAL DE EMISOR DE FACTURA DE COMPRA", "FACTURA DE COMPRA ELECTRONICA">>,
              <<"BASICO", "FACTURA RARA">>, <<"RARO", "FACTURA ELECTRONICA">>},
     code \in {5, 6}, s \in {Sold({}), Sold({"EXENTO"})}, on \in {1, 2}, r \in Reasons3,
     g \in GivenRows}

(* An export, what its case says besides, and a note about it.             *)
CURRENCY == Said("MONEDA DE LA OPERACION:", "DOLAR USA")
COUNTRY == Amount1("PAIS RECEPTOR Y PAIS DESTINO:", 563)
FREIGHT == Amount1("TOTAL CLAUSULA DE VENTA:", 83117) \o Amount1("FLETE (**):", 11514)
           \o Amount1("SEGURO (**):", 1595)
Besides ==
  {CURRENCY, <<>>, Said("MONEDA DE LA OPERACION:", "YEN"),
   CURRENCY \o COUNTRY, CURRENCY \o Amount1("NACIONALIDAD:", 563),
   CURRENCY \o COUNTRY \o Amount1("NACIONALIDAD:", 563),
   Said("REFERENCIA:", "RESOLUCION SNA") \o CURRENCY \o COUNTRY \o EMPTY
     \o Amount1("RECARGO EN LA LINEA", 10),
   Said("REFERENCIA:", "DUS") \o Said("REFERENCIA:", "AWB") \o CURRENCY
     \o Said("FORMA DE PAGO EXPORTACION:", "SIN PAGO") \o FREIGHT \o COUNTRY \o EMPTY
     \o Amount1("COMISIONES EN EL EXTRANJERO:", 11) \o <<L("DESCUENTO LINEA:", "", <<1, 5>>)>>,
   CURRENCY \o COUNTRY \o Amount1("COMISIONES EN EL EXTRANJERO:", 11),
   CURRENCY \o <<L("DESCUENTO LINEA:", "", <<3, 5>>)>>,
   CURRENCY \o Said("FORMA DE PAGO EXPORTACION:", "TRUEQUE"),
   Said("REFERENCIA:", "GUIA") \o CURRENCY, CURRENCY \o Amount1("CASILLA:", 1)}
Exported2 ==
  {Items2(QP, <<Row("A", {}, <<40, 11>>), Row("B", {}, <<9, 6>>)>>),
   Items2(<<"VALOR LINEA">>, <<Row("A", {}, <<14>>)>>)}
ExportFile(table, besides, reason, given) ==
  Header("BASICO DOCUMENTOS DE EXPORTACION (1)", 6)
  \o CaseOf(6, 1, Is("FACTURA DE EXPORTACION ELECTRONICA") \o EMPTY \o table \o EMPTY \o besides)
  \o CaseOf(6, 2, Is("NOTA DE CREDITO DE EXPORTACION ELECTRONICA") \o On(6, 1, reason) \o EMPTY
                  \o given \o EMPTY \o Said("EL PRECIO UNITARIO", ""))
  \o CaseOf(6, 3, Is("NOTA DE DEBITO DE EXPORTACION ELECTRONICA") \o On(6, 2, "ANULA"))
Foreign ==
  {ExportFile(t, b, r, g) :
     t \in Exported2, b \in Besides, r \in Reasons3,
     g \in GivenRows \cup {Items2(<<"CANTIDAD">>, <<Row("B", {}, <<9>>), Row("A", {}, <<40>>)>>)}}

-----------------------------------------------------------------------------
(* Settlements, guides, and what refuses them.                             *)
Settled(columns, words, commission) ==
  Header("BASICO LIQUIDACIONES", 7)
  \o CaseOf(7, 1, Is("LIQUIDACION FACTURA ELECTRONICA") \o EMPTY
      \o Items2(columns, <<Row("A", words, <<4, 1000>>), Row("B", {"EXENTO", "FACTURA"}, <<1, 500>>)>>)
      \o EMPTY \o commission)
Settlements2 ==
  {Settled(c, w, x) :
     c \in {<<"CANTIDAD", "TOTAL LINEA">>, QP},
     w \in {{"ANTICIPO"}, {"FACTURA", "ELECTRONICA"}, {"BOLETA"}, {"EXENTO"},
            {"LIQUIDACION FACTURA", "FACTURA", "ELECTRONICA"}, {"NOTA DE CREDITO"}},
     x \in {<<>>} \cup {<<Table("COMISIONES Y OTROS CARGOS", <<"TOTAL LINEA">>), Row("C", v, <<9>>)>> :
                          v \in {{"NETO"}, {"EXENTO"}}}}

Guides ==
  {Header("GUIA DE DESPACHO", 8)
   \o CaseOf(8, 1, Is("GUIA DE DESPACHO") \o Said("MOTIVO:", m) \o Said("TRASLADO POR:", t) \o EMPTY
                   \o Items2(SubSeq(QP, 1, n), <<Row("A", {}, SubSeq(<<74, 5>>, 1, n))>>) \o x) :
     m \in {"VENTA", "TRASLADO", "REGALO"}, n \in {1, 2},
     t \in {"CLIENTE", "LOCAL DEL CLIENTE", "OTRAS INSTALACIONES", "NADIE"},
     x \in {<<>>, EMPTY \o COUNTRY, EMPTY \o Amount1("COMISIONES EN EL EXTRANJERO:", 11)}}

(* Books. The observation says what becomes of the tax.                    *)
Purchase(type, observation, amounts) ==
  <<L("DOCUMENT", type, <<1>>), L("NOTE", observation, <<>>), amounts>> \o EMPTY
Bought == {Purchase(t, o, a) :
             t \in {"FACTURA", "FACTURA DE COMPRA ELECTRONICA", "NOTA DE CREDITO", "BOLETA"},
             o \in Observations \cup {"RARA"},
             a \in {L("TAB", "", <<40670>>), L("", "X", <<9928, 9526>>) , L("X", "", <<103>>)}}
BookFile(lines, marks, factor) ==
  Header("LIBRO DE COMPRAS", 9) \o MARK \o EMPTY \o marks \o lines \o MARK \o factor
PurchaseBooks ==
  {BookFile(b \o c, MARK, f) :
     b \in Bought, c \in {<<>>, Purchase("FACTURA ELECTRONICA", "IVA USO COMUN", L("X", "", <<9, 995>>))},
     f \in {<<>>, Amount1("FACTOR", 60)}}
  \cup {BookFile(<<>>, <<>>, <<>>), BookFile(Amount1("SUELTA", 1), MARK, <<>>)}
OtherBooks ==
  Header("LIBRO DE VENTAS", 10) \o OTHER_TEXT \o Header("LIBRO DE GUIAS", 11)
  \o Amount1("VOIDED GUIDE", 3)

(* The set of receipts.                                                    *)
ReceiptFile(rows, observation, n) ==
  <<L("SET DE PRUEBA DE BOLETA", "", <<>>)>> \o EMPTY
  \o <<L("CASO-", "", <<1>>)>> \o MARK \o EMPTY
  \o Items2(<<"CANTIDAD", "PRECIO UNITARIO CON IVA">>, rows) \o observation
  \o <<L("CASO-", "", <<n>>)>> \o MARK
  \o Items2(<<"CANTIDAD", "PRECIO UNITARIO CON IVA">>, <<Row("C", {}, <<5, 700>>)>>)
  \o <<L("FIN", "", <<>>)>> \o OTHER_TEXT
ReceiptFiles ==
  {ReceiptFile(r, o, n) :
     r \in {<<>>, <<Row("A", {}, <<8, 1590>>)>>, <<Row("A", {}, <<8>>)>>,
            <<Row("A", {}, <<8, 1590>>), Row("B", {}, <<2, 1000>>)>>},
     o \in {<<>>, Amount1("OBSERVACION", 2), EMPTY \o Amount1("OBSERVACION", 2),
            EMPTY \o <<[L("OBSERVACION", "", <<>>) EXCEPT !.words = {"UNIDAD"}]>>,
            EMPTY \o Said("RARA", "")},
     n \in {2, 3}}

-----------------------------------------------------------------------------
(* A whole sheet, and what the taxpayer may have already.                  *)
BASICS == Header("BASICO", 5)
          \o NationalBody(5, "FACTURA ELECTRONICA", Sold({}), 1, "CORRIGE", <<>>, 2)
EXPORTS == ExportFile(Items2(QP, <<Row("A", {}, <<3, 2>>)>>), CURRENCY \o COUNTRY, "DEVOLUCION",
                      Items2(<<"CANTIDAD">>, <<Row("A", {}, <<2>>)>>))
HOTEL_FILE == Header("BASICO DOCUMENTOS DE EXPORTACION (2)", 12)
         \o CaseOf(12, 1, Is("FACTURA DE EXPORTACION ELECTRONICA") \o EMPTY
                          \o Items2(<<"VALOR LINEA">>, <<Row("A", {}, <<42>>)>>) \o EMPTY
                          \o CURRENCY \o Amount1("NACIONALIDAD:", 563))
SETTLEMENT == Settled(<<"CANTIDAD", "TOTAL LINEA">>, {"ANTICIPO"}, <<>>)
RECEIPTS == ReceiptFile(<<Row("A", {}, <<8, 1590>>)>>, <<>>, 2)

Old(kind) == [kind |-> kind, endpoint |-> "", documents |-> <<>>, receipts |-> <<>>,
              groups |-> <<>>, voided |-> {}, lines |-> <<>>, factor |-> NULL]
Nothing == [p \in {} |-> Old("")]
Held == {Nothing, <<5, "">> :> Old("") @@ <<0, "boletas">> :> Old("boletas"),
         <<3, "">> :> Old("basico") @@ <<5, "">> :> Old("exenta")}

WHOLE_SHEET == <<BASICS \o EXPORTS \o HOTEL_FILE \o SETTLEMENT, RECEIPTS>>

Files ==
  {<<f>> : f \in National \cup Foreign \cup Settlements2 \cup Guides \cup PurchaseBooks
                   \cup ReceiptFiles}
  \cup {<<BASICS \o OtherBooks, RECEIPTS>>, <<BASICS, BASICS>>, <<BASICS \o EXPORTS, BASICS>>,
        <<BASICS \o BASICS>>, <<BASICS \o Header("LIBRO DE VENTAS", 5)>>, WHOLE_SHEET,
        <<RECEIPTS, SETTLEMENT>>, <<BASICS, OTHER_TEXT>>, <<OTHER_TEXT>>}
=============================================================================
