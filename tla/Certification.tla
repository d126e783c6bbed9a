--------------------------- MODULE Certification ----------------------------
(***************************************************************************)
(* The certification dossier of one customer (certification_service.py and *)
(* routers/certification.py): the sets of tests the SII asks for, and the  *)
(* envelopes emitted for them. To emit an envelope and to send it are two  *)
(* requests; the operator may ask the SII for the verdict, discard what    *)
(* was not sent, send again, and build the books and the report of folios  *)
(* (RCOF) from envelopes of other sets. Uploads of the rest of the service *)
(* are captured as they go out.                                            *)
(*                                                                         *)
(* Requests run in workers without any lock between them. A step here is   *)
(* what happens between two transactions, or one exchange with the SII.    *)
(***************************************************************************)
EXTENDS Naturals, Sequences, FiniteSets, SequencesExt

CONSTANTS
  Worker,      \* requests being served at once
  Kind,        \* the kind of each set of the dossier, all with a definition
  Headers,     \* sets that other emissions name in their header, 0 for none
  Manual,      \* sets the operator declares and assigns to (model bound)
  Forces,      \* whether the operator may insist on emitting again
  Answers,     \* what the SII may say in the end of an upload
  MaxRecords   \* rows of CertificationSubmission and uploads that reach the
               \*   SII, taken together (model bound)

-----------------------------------------------------------------------------
(* certification_catalog.py *)

Catalog ==
  {"basico", "exenta", "guias", "exportacion_1", "exportacion_2",
   "liquidacion", "factura_compra", "libro_guias", "libro_compras",
   "libro_ventas", "boletas", "simulacion"}

(* The sets whose documents fill a generated book, the preferred first.    *)
BookSources == [libro_ventas |-> <<"basico", "exenta">>, libro_guias |-> <<"guias">>]
IsBook(kind) == kind \in DOMAIN BookSources

(* A verdict: the state of the envelope and the count of its documents.    *)
Verdict(state, informed, accepted, rejected, flagged) ==
  [state |-> state, informed |-> informed, accepted |-> accepted,
   rejected |-> rejected, flagged |-> flagged]
NoVerdict == Verdict("", 0, 0, 0, 0)
Received == Verdict("REC", 0, 0, 0, 0)

EnProceso == {"REC", "SOK", "CRT", "FOK", "PDR", "LSO"}
Aceptados == {"EPR", "LOK"}
Rechazos == {"RFR", "RCT", "RCH", "LRH", "LRS", "LRC", "LRF", "LNC", "RSC"}

Undecided(v) == v = NoVerdict \/ v.state \in EnProceso

SetId == DOMAIN Kind

(* sii_stats counts documents; what the SII says in the end is no more in  *)
(* process.                                                                *)
ASSUME CertificationAssumption ==
  /\ IsFiniteSet(Worker)
  /\ Kind \in Seq(Catalog)
  /\ Headers \subseteq SetId \cup {0}
  /\ Manual \subseteq SetId
  /\ Forces \subseteq BOOLEAN
  /\ Answers \subseteq [state : STRING, informed : Nat, accepted : Nat,
                        rejected : Nat, flagged : Nat]
  /\ \A v \in Answers : ~Undecided(v)
  /\ MaxRecords \in Nat

VARIABLES
  declared,  \* the sets whose progress the operator declared
  subs,      \* CertificationSubmission: [set, what, track, verdict, forced,
             \*   source, gone], by id; set 0 and track 0 are NULL
  sii,       \* what the SII received: [of, verdict], by TrackID
  pc,        \* where the request of each worker is
  job        \* its local variables

vars == <<declared, subs, sii, pc, job>>

NoJob == [set |-> 0, sub |-> 0, what |-> "", force |-> FALSE, view |-> <<>>,
          todo |-> {}, single |-> FALSE, pending |-> FALSE, track |-> 0,
          answer |-> NoVerdict, source |-> 0]

(* The row of an id that is no longer there. *)
Deleted == [set |-> 0, what |-> "", track |-> 0, verdict |-> NoVerdict,
            forced |-> FALSE, source |-> 0, gone |-> TRUE]

SubId == 1..Len(subs)
Live == {i \in SubId : ~subs[i].gone}
SubsOf(s) == {i \in Live : subs[i].set = s}
Drafts(s) == {i \in SubsOf(s) : subs[i].track = 0}

Init ==
  /\ declared = {}
  /\ subs = <<>>
  /\ sii = <<>>
  /\ pc = [w \in Worker |-> "idle"]
  /\ job = [w \in Worker |-> NoJob]

(* Room for one more row or upload: the bound of the model.                *)
Room == Len(subs) + Len(sii) < MaxRecords

Goto(w, where, local) ==
  /\ pc' = [pc EXCEPT ![w] = where]
  /\ job' = [job EXCEPT ![w] = local]

(* The request is answered: its session and its variables are gone.        *)
Finish(w) == Goto(w, "idle", NoJob)

-----------------------------------------------------------------------------
(* What the dossier shows of the rows *)

(* entregado. An envelope processed with every document rejected was not delivered; a *)
(* document accepted with objections was.                                  *)
Entregado(v) ==
  /\ v.state \in Aceptados
  /\ v.informed > 0 => v.accepted + v.flagged > 0

(* The colour of the stage "estado" for the last envelope of a set. Seeded *)
(* fault: an envelope that was processed is believed to be accepted.       *)
EstadoColour_ByState(i) ==
  LET v == subs[i].verdict
  IN  IF subs[i].track = 0 \/ v = NoVerdict THEN "pendiente"
      ELSE CASE v.state \in Aceptados -> "ok"
             [] v.state \in Rechazos -> "error"
             [] OTHER -> "atencion"

EstadoColour(i) ==
  LET v == subs[i].verdict
  IN  IF subs[i].track = 0 \/ v = NoVerdict THEN "pendiente"
      ELSE CASE v.state \in Aceptados /\ ~Entregado(v) -> "error"
             [] v.state \in Aceptados /\ Entregado(v) ->
                  IF v.rejected + v.flagged > 0 THEN "atencion" ELSE "ok"
             [] v.state \in Rechazos -> "error"
             [] OTHER -> "atencion"

Stages(s) ==
  IF SubsOf(s) = {}
  THEN [envio |-> "pendiente", estado |-> "pendiente", declaracion |-> "pendiente"]
  ELSE LET ultimo == Max(SubsOf(s))
       IN  [envio |-> IF subs[ultimo].track = 0 THEN "atencion" ELSE "ok",
            estado |-> EstadoColour(ultimo),
            declaracion |->
              CASE s \in declared -> "ok"
                [] s \notin declared /\ \E i \in SubsOf(s) : Entregado(subs[i].verdict) -> "atencion"
                [] OTHER -> "pendiente"]

SetState(s) ==
  LET stage == Stages(s)
  IN  CASE stage.declaracion = "ok" -> "declarado"
        [] stage.declaracion # "ok" /\ stage.estado = "error" -> "rechazado"
        [] stage.declaracion # "ok" /\ stage.estado = "ok" -> "aceptado"
        [] stage.declaracion # "ok" /\ stage.estado = "atencion" -> "con_reparos"
        [] OTHER -> IF stage.envio = "ok" THEN "enviado" ELSE "pendiente"

(* expected_sets keys the rows by their kind: the last one read is shown.  *)
OfKind(kind) == {s \in SetId : Kind[s] = kind}
Shown(kind) == IF OfKind(kind) = {} THEN 0 ELSE Max(OfKind(kind))
StateOfKind(kind) == IF Shown(kind) = 0 THEN "sin_dar_de_alta" ELSE SetState(Shown(kind))

(* progress: how many of the sets of the procedure, those whose advance is *)
(* declared to the SII, are in some state.                                 *)
Declarable == Catalog \ {"boletas", "simulacion"}
Progress(states) == Cardinality({k \in Declarable : StateOfKind(k) \in states})
SetsDeclared == Progress({"declarado"})
SetsAccepted == Progress({"aceptado", "con_reparos", "declarado"})

(* steps: the first step of the procedure is deduced from the sets.        *)
SetsStep ==
  IF SetsDeclared = Cardinality(Declarable) THEN "ok"
  ELSE IF SetsAccepted > 0 THEN "atencion" ELSE "pendiente"

(* printable_envelopes: of each set the last one sent, or the last one     *)
(* processed if there is any. What has no set counts as one more.          *)
PrintableOf(s) ==
  LET sent == {i \in SubsOf(s) : subs[i].track # 0}
      processed == {i \in sent : subs[i].verdict.state \in Aceptados}
  IN  IF sent = {} THEN {} ELSE {Max(IF processed = {} THEN sent ELSE processed)}
Printable == UNION {PrintableOf(s) : s \in 0..Len(Kind)}

-----------------------------------------------------------------------------
(* POST /sets/{id}/emit: documents                                         *)

(* draft_for and the guard of emit. Seeded fault: no draft is looked for.  *)
MayEmit_IgnoresDraft(s, force) == s \in SetId
MayEmit(s, force) == Drafts(s) = {} \/ force

EnvelopeOf(kind) == IF kind = "boletas" THEN "boletas" ELSE "documents"

(* The folios are taken and the envelope built; nothing is stored yet.     *)
EmitDocuments(w, s, force) ==
  /\ pc[w] = "idle"
  /\ Room
  /\ ~IsBook(Kind[s])
  /\ MayEmit(s, force)
  /\ Goto(w, "emitted", [NoJob EXCEPT !.set = s, !.what = EnvelopeOf(Kind[s]),
                                      !.force = force])
  /\ UNCHANGED <<declared, subs, sii>>

-----------------------------------------------------------------------------
(* POST /sets/{id}/emit: a generated book                                  *)

(* The rows of the sets a book is made of that have a TrackID.             *)
FeedsBook(kind) ==
  {i \in Live : /\ subs[i].track # 0
                /\ subs[i].set # 0
                /\ Kind[subs[i].set] \in Range(BookSources[kind])}

(* refresh_book_sources reads them at once, and asks the SII about those   *)
(* without a final answer under the TrackID they had then.                 *)
EmitBook(w, s, force) ==
  /\ pc[w] = "idle"
  /\ Room
  /\ IsBook(Kind[s])
  /\ MayEmit(s, force)
  /\ LET view == [i \in FeedsBook(Kind[s]) |-> subs[i].verdict]
         todo == {i \in DOMAIN view : Undecided(view[i])}
     IN  Goto(w, "asking", [NoJob EXCEPT !.set = s, !.force = force, !.view = view,
                                         !.todo = {<<i, subs[i].track>> : i \in todo}])
  /\ UNCHANGED <<declared, subs, sii>>

(* The verdict of a row in the session of the request: a row it read keeps *)
(* the values it had, whatever other requests store (expire_on_commit).    *)
Seen(w, i) == IF i \in DOMAIN job[w].view THEN job[w].view[i] ELSE subs[i].verdict

(* The last accepted envelope of a set, 0 if there is none. Seeded fault:  *)
(* the last one that was sent.                                             *)
SourceOf_LastSent(w, s) ==
  LET sent == {i \in SubsOf(s) : subs[i].track # 0}
  IN  IF sent = {} THEN 0 ELSE Max(sent)

SourceOf(w, s) ==
  LET accepted == {i \in SubsOf(s) : Entregado(Seen(w, i))}
  IN  IF accepted = {} THEN 0 ELSE Max(accepted)

(* book_lines: the first kind that has a set gives the lines. A kind with  *)
(* two sets raises, as does a book without lines.                          *)
BookSource(w, kind) ==
  LET existing == SelectSeq(BookSources[kind], LAMBDA k : OfKind(k) # {})
  IN  IF existing = <<>> \/ \E k \in Range(BookSources[kind]) : Cardinality(OfKind(k)) > 1
      THEN 0
      ELSE SourceOf(w, Max(OfKind(Head(existing))))

(* Every source answered: the book is built, or refused if some answer is  *)
(* missing or no source was accepted.                                      *)
BuildBook(w) ==
  /\ pc[w] = "asking"
  /\ job[w].todo = {}
  /\ LET source == BookSource(w, Kind[job[w].set])
     IN  IF job[w].pending \/ source = 0
         THEN Finish(w)
         ELSE Goto(w, "emitted", [job[w] EXCEPT !.what = "book", !.source = source,
                                                !.view = <<>>])
  /\ UNCHANGED <<declared, subs, sii>>

(* POST /submissions/{id}/folio-report: the RCOF of receipts that were     *)
(* sent.                                                                   *)
FolioReport(w, i) ==
  /\ pc[w] = "idle"
  /\ Room
  /\ i \in Live
  /\ subs[i].what = "boletas"
  /\ subs[i].track # 0
  /\ Goto(w, "emitted", [NoJob EXCEPT !.set = subs[i].set, !.what = "rcof",
                                      !.force = TRUE, !.source = i])
  /\ UNCHANGED <<declared, subs, sii>>

(* The envelope is stored as a draft, in one commit.                       *)
Store(w) ==
  /\ pc[w] = "emitted"
  /\ Room
  /\ subs' = Append(subs, [set |-> job[w].set, what |-> job[w].what, track |-> 0,
                           verdict |-> NoVerdict, forced |-> job[w].force,
                           source |-> job[w].source, gone |-> FALSE])
  /\ Finish(w)
  /\ UNCHANGED <<declared, sii>>

-----------------------------------------------------------------------------
(* POST /submissions/{id}/send: any envelope, sent before or not. The      *)
(* upload arrives; its answer may be lost, and the request with it.        *)
Send(w, i) ==
  /\ pc[w] = "idle"
  /\ i \in Live
  /\ Room
  /\ sii' = Append(sii, [of |-> i, verdict |-> Received])
  /\ \/ Goto(w, "sent", [NoJob EXCEPT !.sub = i, !.track = Len(sii) + 1])
     \/ UNCHANGED <<pc, job>>
  /\ UNCHANGED <<declared, subs>>

(* The SII answers without a TrackID: it did not take the envelope.        *)
SendUntracked(w, i) ==
  /\ pc[w] = "idle"
  /\ i \in Live
  /\ Goto(w, "sent", [NoJob EXCEPT !.sub = i])
  /\ UNCHANGED <<declared, subs, sii>>

(* send_draft stores the TrackID, or its absence; a row discarded          *)
(* meanwhile matches no UPDATE and the request fails. Seeded fault: the    *)
(* TrackID is given to the last envelope.                                  *)
StoreTrack_OnLast(w) ==
  /\ pc[w] = "sent"
  /\ subs' = IF Live = {} THEN subs ELSE [subs EXCEPT ![Max(Live)].track = job[w].track]
  /\ Finish(w)
  /\ UNCHANGED <<declared, sii>>

StoreTrack(w) ==
  /\ pc[w] = "sent"
  /\ subs' = IF subs[job[w].sub].gone THEN subs
             ELSE [subs EXCEPT ![job[w].sub].track = job[w].track]
  /\ Finish(w)
  /\ UNCHANGED <<declared, sii>>

(* DELETE /submissions/{id}: the row is read, found without TrackID...     *)
Discard(w, i) ==
  /\ pc[w] = "idle"
  /\ i \in Live
  /\ subs[i].track = 0
  /\ Goto(w, "discarding", [NoJob EXCEPT !.sub = i])
  /\ UNCHANGED <<declared, subs, sii>>

(* ... and deleted by its key.                                             *)
Delete(w) ==
  /\ pc[w] = "discarding"
  /\ subs' = [subs EXCEPT ![job[w].sub] = Deleted]
  /\ Finish(w)
  /\ UNCHANGED <<declared, sii>>

-----------------------------------------------------------------------------
(* POST /submissions/{id}/refresh: the SII answers about the TrackID the   *)
(* row had when it was read.                                               *)
Refresh(w, i) ==
  /\ pc[w] = "idle"
  /\ i \in Live
  /\ subs[i].track # 0
  /\ Goto(w, "answered", [NoJob EXCEPT !.single = TRUE, !.sub = i,
                                       !.answer = sii[subs[i].track].verdict])
  /\ UNCHANGED <<declared, subs, sii>>

(* The first source still to be asked about, with its TrackID.             *)
Pending(w) == CHOOSE q \in job[w].todo : \A r \in job[w].todo : q[1] <= r[1]

AskSource(w) ==
  /\ pc[w] = "asking"
  /\ job[w].todo # {}
  /\ Goto(w, "answered", [job[w] EXCEPT !.sub = Pending(w)[1], !.todo = @ \ {Pending(w)},
                                        !.answer = sii[Pending(w)[2]].verdict])
  /\ UNCHANGED <<declared, subs, sii>>

(* The SII could not be asked: the book has to wait for that envelope.     *)
AskFails(w) ==
  /\ pc[w] = "asking"
  /\ job[w].todo # {}
  /\ Goto(w, "asking", [job[w] EXCEPT !.todo = @ \ {Pending(w)}, !.pending = TRUE])
  /\ UNCHANGED <<declared, subs, sii>>

(* refresh stores the answer whatever the row holds by then; without the   *)
(* row its UPDATE fails. A book needs a final answer from every source.    *)
StoreAnswer(w) ==
  /\ pc[w] = "answered"
  /\ LET i == job[w].sub
         failed == subs[i].gone \/ Undecided(job[w].answer)
     IN  /\ subs' = IF subs[i].gone THEN subs
                    ELSE [subs EXCEPT ![i].verdict = job[w].answer]
         /\ IF job[w].single
            THEN Finish(w)
            ELSE Goto(w, "asking", [job[w] EXCEPT !.sub = 0, !.answer = NoVerdict,
                                                  !.view[i] = job[w].answer,
                                                  !.pending = @ \/ failed])
  /\ UNCHANGED <<declared, sii>>

-----------------------------------------------------------------------------
(* Another emission of the service uploads on its own, perhaps with the    *)
(* header X-Certification-Set, and captures the envelope once it is sent.  *)
(* Seeded fault: it captures the TrackID of the upload that follows.       *)
Emission_NextTrack(w, s) ==
  /\ pc[w] = "idle"
  /\ Room
  /\ sii' = Append(sii, [of |-> 0, verdict |-> Received])
  /\ Goto(w, "uploaded", [NoJob EXCEPT !.set = s, !.track = Len(sii) + 2])
  /\ UNCHANGED <<declared, subs>>

Emission(w, s) ==
  /\ pc[w] = "idle"
  /\ Room
  /\ sii' = Append(sii, [of |-> 0, verdict |-> Received])
  /\ Goto(w, "uploaded", [NoJob EXCEPT !.set = s, !.track = Len(sii) + 1])
  /\ UNCHANGED <<declared, subs>>

(* capture, in a session of its own.                                       *)
Capture(w) ==
  /\ pc[w] = "uploaded"
  /\ Room
  /\ subs' = Append(subs, [set |-> job[w].set, what |-> "documents",
                           track |-> job[w].track, verdict |-> NoVerdict,
                           forced |-> FALSE, source |-> 0, gone |-> FALSE])
  /\ sii' = [sii EXCEPT ![job[w].track].of = Len(subs) + 1]
  /\ Finish(w)
  /\ UNCHANGED declared

(* POST /submissions/{id}/assign: a loose envelope is given to a set.      *)
Assign(i, s) ==
  /\ i \in Live
  /\ subs[i].set = 0
  /\ subs' = [subs EXCEPT ![i].set = s]
  /\ UNCHANGED <<declared, sii, pc, job>>

(* POST /sets/{id}/declare: the operator says so, nothing is verified.     *)
Declare(s) ==
  /\ s \notin declared
  /\ declared' = declared \cup {s}
  /\ UNCHANGED <<subs, sii, pc, job>>

-----------------------------------------------------------------------------
(* A request fails where it is: an exception, a lost connection, a worker  *)
(* that dies. What it did not commit is gone; folios it took stay taken.   *)
Crash(w) ==
  /\ pc[w] # "idle"
  /\ Finish(w)
  /\ UNCHANGED <<declared, subs, sii>>

(* The SII ends the examination of an upload.                              *)
Decide(t) ==
  /\ sii[t].verdict = Received
  /\ \E v \in Answers : sii' = [sii EXCEPT ![t].verdict = v]
  /\ UNCHANGED <<declared, subs, pc, job>>

Requests(w) ==
  \/ \E s \in SetId, force \in Forces :
       \/ EmitDocuments(w, s, force)
       \/ EmitBook(w, s, force)
  \/ \E i \in SubId :
       \/ FolioReport(w, i)
       \/ Send(w, i)
       \/ SendUntracked(w, i)
       \/ Discard(w, i)
       \/ Refresh(w, i)
  \/ \E s \in Headers : Emission(w, s)

Steps(w) ==
  \/ BuildBook(w) \/ Store(w) \/ StoreTrack(w) \/ Delete(w)
  \/ AskSource(w) \/ AskFails(w) \/ StoreAnswer(w)
  \/ Capture(w)
  \/ Crash(w)

Next ==
  \/ \E w \in Worker : Requests(w) \/ Steps(w)
  \/ \E s \in Manual : Declare(s)
  \/ \E i \in SubId, s \in Manual : Assign(i, s)
  \/ \E t \in 1..Len(sii) : Decide(t)

Spec == Init /\ [][Next]_vars

-----------------------------------------------------------------------------
(* Type invariant: rows refer to rows and TrackIDs that exist.             *)
Verdicts == Answers \cup {Received, NoVerdict}
TypeOK ==
  /\ declared \subseteq SetId
  /\ \A i \in SubId :
       /\ subs[i].set \in 0..Len(Kind)
       /\ subs[i].track \in 0..Len(sii)
       /\ subs[i].verdict \in Verdicts
       /\ subs[i].source \in 0..(i - 1)
  /\ \A t \in 1..Len(sii) : sii[t].of \in 0..Len(subs) /\ sii[t].verdict \in Verdicts
  /\ \A w \in Worker : job[w].set \in 0..Len(Kind) /\ job[w].sub \in 0..Len(subs)

UploadsOf(i) == {t \in 1..Len(sii) : sii[t].of = i}
DeliveredToSii(i) == \E t \in UploadsOf(i) : Entregado(sii[t].verdict)

(* The light of a set is green only if the SII accepted every document of  *)
(* its last envelope; with objections, only if that envelope reached the   *)
(* SII, which refused neither it nor all its documents. Whatever the order *)
(* in which uploads, their TrackIDs and the answers are stored. And the    *)
(* procedure does not look as not begun when a set of it is green.         *)
GreenIsDelivered ==
  /\ \A s \in SetId :
       Kind[s] \in Declarable /\ StateOfKind(Kind[s]) \in {"aceptado", "declarado"}
         => SetsStep # "pendiente"
  /\ \A k \in Range(Kind) : SubsOf(Shown(k)) # {} =>
       LET last == Max(SubsOf(Shown(k)))
       IN  /\ StateOfKind(k) = "aceptado" =>
                \E t \in UploadsOf(last) :
                   Entregado(sii[t].verdict) /\ sii[t].verdict.rejected = 0
           /\ StateOfKind(k) = "con_reparos" =>
                \E t \in UploadsOf(last) :
                   \/ subs[last].verdict.state \notin Aceptados \cup Rechazos
                   \/ Entregado(sii[t].verdict)

(* What is told to the SII about documents is about documents it has: a    *)
(* generated book comes from an envelope the SII accepted, and an RCOF     *)
(* from receipts that reached it, also when the source was sent again or   *)
(* deleted meanwhile; and so are the printed samples.                      *)
ReportsWhatSiiHas ==
  /\ \A i \in SubId : subs[i].source # 0 =>
       IF subs[i].what = "rcof" THEN UploadsOf(subs[i].source) # {}
                                ELSE DeliveredToSii(subs[i].source)
  /\ \A i \in Printable : UploadsOf(i) # {}

(* Folios are not spent by insistence nobody asked for: the unsent         *)
(* envelopes of a set that were emitted without force are at most as many  *)
(* as the requests that ran at once, however long the operator clicks.     *)
DraftsBounded ==
  \A s \in SetId :
    Cardinality({i \in Drafts(s) : ~subs[i].forced /\ UploadsOf(i) = {}}) <= Cardinality(Worker)

(* A TrackID is on the row of the envelope it was given for, and a verdict *)
(* on a row was given by the SII to an upload of that envelope.            *)
TracksAreOwn ==
  \A i \in Live :
    /\ subs[i].track # 0 => sii[subs[i].track].of = i
    /\ subs[i].verdict # NoVerdict =>
         \E t \in UploadsOf(i) : subs[i].verdict \in {Received, sii[t].verdict}
=============================================================================
