------------------------------ MODULE Readiness -----------------------------
(***************************************************************************)
(* The review of a taxpayer's configuration before the test sets are       *)
(* emitted (certification_checks.py). A dossier d has                      *)
(*   production, profile, resolution      the customer's own data          *)
(*   certificates    newest first: [days, readable, selfSigned, rut,       *)
(*                   thumbprint, signs]                                    *)
(*   submissions     newest first: [state, thumbprint]                     *)
(*   cafs[t]         CAFs not exhausted, by first folio: [from, to, usable *)
(*                   ("yes" or why not)];  pointer[t] the last folio given *)
(*   sets, definitions[kind]              what each set emits: documents,  *)
(*                   receipts or, in a mixed one, groups of documents      *)
(*   receivers       the list of test receivers                            *)
(*   accepted        the sets with an envelope the SII accepted            *)
(* A check is <<key, state>>, with the type of a CAF; wording and what to   *)
(* do about it are left out.                                               *)
(***************************************************************************)
EXTENDS DossierContent

(* SET_TYPES, each with the types of document it emits.                    *)
SetTypes == [basico |-> {33, 56, 61}, exenta |-> {34, 56, 61}, guias |-> {52},
             exportacion_1 |-> {110, 111, 112}, exportacion_2 |-> {110},
             liquidacion |-> {43}, factura_compra |-> {46, 56, 61},
             libro_guias |-> {}, libro_compras |-> {}, libro_ventas |-> {},
             boletas |-> {39}, simulacion |-> {33, 52, 56, 61}]
Kinds == DOMAIN SetTypes
SetOrder == <<"basico", "exenta", "guias", "exportacion_1", "exportacion_2", "liquidacion",
              "factura_compra", "boletas", "simulacion">>
Books3 == {"libro_guias", "libro_compras", "libro_ventas"}
NotDeclarable == {"boletas", "simulacion"}
HOTEL == 4
PASSPORT == 813

State(error, warning) == IF error THEN "error" ELSE IF warning THEN "atencion" ELSE "ok"

Defined(d) == DOMAIN d.definitions \cap d.sets

-----------------------------------------------------------------------------
Issuer(d) ==
  {<<"ambiente", State(d.production, FALSE)>>,
   <<"emisor", State(~d.profile, FALSE)>>,
   <<"resolucion", State(d.resolution = "future", d.resolution = "default")>>}

(* The newest certificate that has not expired; {} when there is none.     *)
Resolved(d) ==
  LET valid == SelectSeq(d.certificates, LAMBDA c : c.days >= 0)
  IN  IF valid = <<>> \/ ~valid[1].readable THEN {} ELSE {valid[1]}

(* What the page of a set asks for: the certificate that lasts longest and *)
(* any CAF at all.                                                         *)
Requirements(d) ==
  LET days == {d.certificates[i].days : i \in DOMAIN d.certificates}
  IN  IF days = {} \/ (\A n \in days : n < 0) \/ (\A t \in DOMAIN d.cafs : d.cafs[t] = <<>>)
      THEN "error" ELSE State(FALSE, Max(days) < 30)

(* An envelope signed by a certificate that is not the newest in force is  *)
(* not sent; one whose certificate was not kept is.                        *)
Thumbprint(d) ==
  LET valid == SelectSeq(d.certificates, LAMBDA c : c.days >= 0)
  IN  IF valid = <<>> THEN NOBODY ELSE valid[1].thumbprint
StaleSignature(d, signed) == signed # NOBODY /\ Thumbprint(d) \notin {NOBODY, signed}

(* What earlier submissions say of the permission to send: a refusal only  *)
(* speaks of the certificate that signed it.                               *)
Permission(d, c) ==
  LET own == SelectSeq(d.submissions, LAMBDA s : s.thumbprint = c.thumbprint)
      states == {d.submissions[i].state : i \in DOMAIN d.submissions}
      refused == own # <<>> /\ own[1].state = "RFR"
      processed == states \cap {"EPR", "LOK"} # {}
  IN  <<"permiso", State(refused, ~processed)>>

CertificateChecks(d) ==
  IF Resolved(d) = {} THEN {<<"certificado", "error">>}
  ELSE LET c == CHOOSE r \in Resolved(d) : TRUE
       IN  IF c.selfSigned THEN {<<"certificado", "error">>}
           ELSE IF ~c.rut THEN {<<"certificado", "atencion">>}
           ELSE {<<"certificado", State(FALSE, c.days < 30)>>, Permission(d, c)}

-----------------------------------------------------------------------------
(* The folios it takes to emit every set once, by type.                    *)
DocumentType(doc) == IF doc.type = NULL THEN 43 ELSE doc.type
Needed(d, t) ==
  MapThenSumSet(LAMBDA k : Count(d.definitions[k].documents, LAMBDA doc : DocumentType(doc) = t),
                Defined(d) \ Books3)

Types(d) ==
  UNION {SetTypes[k] : k \in Kinds} \cup
  UNION {{DocumentType(d.definitions[k].documents[i]) :
            i \in DOMAIN d.definitions[k].documents} : k \in Defined(d) \ Books3}

(* Seeded fault: the folios behind the pointer are counted as left.        *)
Left_CountsUsed(rows, last) ==
  SumFunction([i \in DOMAIN rows |->
                 IF rows[i].to >= last THEN rows[i].to - rows[i].from + 1 ELSE 0])
(* The folios that are left in the CAFs of a type.                         *)
Left(rows, last) ==
  LET left(c) == c.to - (IF last > c.from - 1 THEN last ELSE c.from - 1)
  IN  SumFunction([i \in DOMAIN rows |-> IF left(rows[i]) > 0 THEN left(rows[i]) ELSE 0])

(* Only the first CAF of a type is opened.                                 *)
UsableTypes(d) ==
  {t \in Types(d) : d.cafs[t] # <<>> /\ d.cafs[t][1].usable = "yes"}

CafChecks(d) ==
  {<<"caf", IF t \notin UsableTypes(d) THEN "error"
            ELSE LET left == Left(d.cafs[t], d.pointer[t])
                     need == Needed(d, t)
                 IN  State(left < need, need # 0 /\ left < 2 * need), t>> : t \in Types(d)}

-----------------------------------------------------------------------------
(* Receivers: as many as sales the set that has most of them brings.       *)
ReceiversNeeded(d) ==
  Max({0} \cup {Count(d.definitions[k].documents, NeedsReceiver) : k \in Defined(d)})

ReceiverCheck(d) ==
  <<"receptores", State(FALSE, Len(d.receivers) < ReceiversNeeded(d))>>

(* A generated book takes its lines from the sets the SII accepted; the    *)
(* sales book from one set alone, the first of the two that exists.        *)
BookSources(d, kind) ==
  IF kind = "libro_guias" THEN {"guias"}
  ELSE IF "basico" \in d.sets THEN {"basico"} ELSE {"exenta"}

DefinitionCheck(d, kind) ==
  <<kind, IF kind \notin d.sets
          THEN State(kind \notin NotDeclarable, TRUE)
          ELSE IF kind \notin DOMAIN d.definitions THEN "error"
          ELSE IF kind \in {"libro_guias", "libro_ventas"}
          THEN State(FALSE, ~(BookSources(d, kind) \subseteq d.accepted))
          ELSE "ok">>

(* Content the SII refused once, when the folios were already spent.       *)
AdvanceAsDocument(line) == line.advance /\ line.liquidated_type # 99
Content(d) ==
  LET docs(kind) == IF kind \in Defined(d) THEN d.definitions[kind].documents ELSE <<>>
      receipts == IF "boletas" \in Defined(d) THEN d.definitions.boletas.receipts ELSE <<>>
      exported == docs("exportacion_1") \o docs("exportacion_2")
      found(docs0, wrong(_)) == \E i \in DOMAIN docs0 : wrong(docs0[i])
  IN  {key \in {"anticipo", "boleta", "cantidad", "pasaporte"} :
         CASE key = "anticipo" ->
                found(docs("liquidacion"),
                      LAMBDA doc : found(doc.lines, AdvanceAsDocument))
           [] key = "boleta" ->
                found(receipts,
                      LAMBDA doc : found(doc.references, LAMBDA r : r.kind = "SET"))
           [] key = "cantidad" ->
                found(exported, LAMBDA doc : found(doc.lines,
                        LAMBDA l : l.quantity = NULL \/ l.unit_price = NULL))
           [] key = "pasaporte" ->
                found(exported, LAMBDA doc : doc.service = HOTEL /\
                        ~found(doc.references, LAMBDA r : r.index = PASSPORT))}

-----------------------------------------------------------------------------
(* A stamp of every type that may be used, and an invoice, are signed as a *)
(* trial, without spending folios.                                         *)
StampTrial(d) == <<"timbre", State(UsableTypes(d) = {}, FALSE)>>
SigningTrial(d) ==
  {<<"firma", State(~c.signs, FALSE)>> : c \in IF 33 \in UsableTypes(d) THEN Resolved(d) ELSE {}}

(* run: every check; the dossier is ready when none is an error.           *)
Checks(d) ==
  Issuer(d) \cup CertificateChecks(d) \cup CafChecks(d) \cup {ReceiverCheck(d)}
    \cup {DefinitionCheck(d, k) : k \in Kinds} \cup {<<key, "error">> : key \in Content(d)}
    \cup {StampTrial(d)} \cup SigningTrial(d)

Ready(d) == \A c \in Checks(d) : c[2] # "error"

-----------------------------------------------------------------------------
(* What emission will do, by the rules of the allocator: the lowest CAF in *)
(* force with folios left, over the gaps. 0 when there is none.            *)
NextFolio(rows, last) ==
  LET left == SelectSeq(rows, LAMBDA c : c.to > last /\ c.usable \notin {"expired", "environment"})
  IN  IF left = <<>> THEN 0 ELSE IF last + 1 > left[1].from THEN last + 1 ELSE left[1].from

(* The type of each document a definition emits, in order.                 *)
TypesOf(definition) ==
  LET types(docs) == [i \in DOMAIN docs |-> DocumentType(docs[i])]
  IN  IF definition.groups = <<>> THEN types(definition.documents)
      ELSE FlattenSeq([g \in DOMAIN definition.groups |-> types(definition.groups[g])])

(* The documents take their folios one after the other, until none is left.*)
Emitted(d, types) ==
  LET take(r, t) ==
        LET folio == IF r.exhausted THEN 0 ELSE NextFolio(d.cafs[t], r.last[t])
        IN  IF folio = 0 THEN [r EXCEPT !.exhausted = TRUE]
            ELSE [r EXCEPT !.last[t] = folio, !.spent = Append(@, <<t, folio>>)]
  IN  FoldLeft(take, [last |-> d.pointer, spent |-> <<>>, exhausted |-> FALSE], types)

(* The simulation brings every type that is being certified, and enough.   *)
SIMULATION_MIN_DOCS == 20
SIMULATION_MAX_DOCS == 100
CertifiedTypes(d) == UNION {SetTypes[k] : k \in d.sets \ NotDeclarable}
SimulationRule(d) ==
  LET types == TypesOf(d.definitions.simulacion)
  IN  /\ Len(types) \in SIMULATION_MIN_DOCS..SIMULATION_MAX_DOCS
      /\ CertifiedTypes(d) \subseteq ToSet(types)

(* All groups are prepared before the first of them is emitted.            *)
EmitSimulation(d) ==
  IF SimulationRule(d) /\ d.profile
  THEN Emitted(d, TypesOf(d.definitions.simulacion))
  ELSE [last |-> d.pointer, spent |-> <<>>, exhausted |-> FALSE]
-----------------------------------------------------------------------------
(* A dossier reviewed without errors does not run out of folios half way:  *)
(* every document of its sets gets one of its own, inside a CAF. This is   *)
(* so where the review counts the documents, which it does not in a mixed  *)
(* definition, and where the CAFs of a type are as good as the first.      *)
FoliosSuffice(d) ==
  LET order == SelectSeq(SetOrder, LAMBDA k : k \in Defined(d) /\ d.definitions[k].groups = <<>>)
      types == FlattenSeq([i \in DOMAIN order |-> TypesOf(d.definitions[order[i]])])
      r == Emitted(d, types)
      alike == \A t \in ToSet(types) : \A i \in DOMAIN d.cafs[t] : d.cafs[t][i].usable = "yes"
  IN  alike =>
        /\ ~r.exhausted /\ Len(r.spent) = Len(types) /\ IsInjective(r.spent)
        /\ \A i \in DOMAIN r.spent :
             \E j \in DOMAIN d.cafs[r.spent[i][1]] :
               r.spent[i][2] \in d.cafs[r.spent[i][1]][j].from..d.cafs[r.spent[i][1]][j].to

(* A simulation that is refused spends no folio, and one that goes out has *)
(* every type that is being certified, in documents of their own folios.   *)
SimulationIsWhole(d) ==
  LET r == EmitSimulation(d)
      types == {r.spent[i][1] : i \in DOMAIN r.spent}
  IN  r.spent # <<>> /\ ~r.exhausted =>
        /\ Len(r.spent) \in SIMULATION_MIN_DOCS..SIMULATION_MAX_DOCS
        /\ CertifiedTypes(d) \subseteq types
        /\ IsInjective(r.spent)

(* Without a warning on receivers, the sales of a set go to different      *)
(* ones, and a note goes to whoever the document before it that it         *)
(* modifies went to.                                                       *)
ReceiversDiffer(d) ==
  ReceiverCheck(d)[2] = "ok" =>
    \A k \in Defined(d) :
      LET docs == d.definitions[k].documents
          filled == Fill(k, docs, d.receivers, 1)
      IN  /\ \A i, j \in DOMAIN docs :
               NeedsReceiver(docs[i]) /\ NeedsReceiver(docs[j]) /\ i # j
                 => filled[i].receiver # filled[j].receiver
          /\ \A i \in DOMAIN docs : NeedsReceiver(docs[i]) => filled[i].receiver \notin Blank
          /\ \A i \in DOMAIN docs : \A r \in DOMAIN docs[i].references :
               /\ docs[i].type \in NATIONAL_NOTES /\ docs[i].receiver \in Blank
               /\ docs[i].references[r].kind = "BATCH" /\ docs[i].references[r].index < i
               => filled[i].receiver = filled[docs[i].references[r].index].receiver

(* Before the transport of goods is required, what the system completes is *)
(* what the engine accepts of a transfer.                                  *)
TransfersAreValid(d) ==
  \A k \in Defined(d) :
    LET filled == Fill(k, d.definitions[k].documents, d.receivers, 1)
    IN  \A i \in DOMAIN filled : ValidTransfer(filled[i], FALSE)

(* The page of each set asks for no more than the review did, and what is  *)
(* signed after it may be sent.                                            *)
NothingIsMissing(d) ==
  /\ Requirements(d) # "error"
  /\ \A c \in Resolved(d) : ~StaleSignature(d, c.thumbprint)

ReadySetsGoOut(d) ==
  /\ Ready(d) => FoliosSuffice(d) /\ ReceiversDiffer(d) /\ TransfersAreValid(d) /\ NothingIsMissing(d)
  /\ SimulationIsWhole(d)
=============================================================================
