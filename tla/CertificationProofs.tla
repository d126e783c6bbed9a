------------------------ MODULE CertificationProofs -------------------------
(***************************************************************************)
(* The safety properties of Certification for any workers, sets and        *)
(* answers of the SII.                                                     *)
(*                                                                         *)
(* The argument: the SII's record only grows (Grows): an upload keeps its  *)
(* envelope once it has one, and its verdict once it has one. So whatever  *)
(* a request learned and carries in its variables, a TrackID, an answer, a *)
(* source it found accepted, is still true when it is stored (JobFits),    *)
(* and what rows say stays true (RowFits), however late that is. Captures  *)
(* cannot cross because no two of them hold the same TrackID               *)
(* (UploadedApart). Envelopes nobody insisted on and requests about to     *)
(* store one share the room there is for them (DraftsInv).                 *)
(***************************************************************************)
EXTENDS Certification, FiniteSetTheorems, WellFoundedInduction, TLAPS

Place == {"idle", "emitted", "asking", "answered", "sent", "discarding", "uploaded"}
What == {"", "documents", "boletas", "book", "rcof"}
Views == UNION {[I -> Verdicts] : I \in SUBSET Nat}

Row == [set : 0..Len(Kind), what : What, track : Nat, verdict : Verdicts,
        forced : BOOLEAN, source : Nat, gone : BOOLEAN]
Upload == [of : Nat, verdict : Answers \cup {Received}]
Job == [set : 0..Len(Kind), sub : Nat, what : What, force : BOOLEAN, view : Views,
        todo : SUBSET (Nat \X Nat), single : BOOLEAN, pending : BOOLEAN,
        track : Nat, answer : Verdicts, source : Nat]

TypeInv ==
  /\ declared \subseteq SetId
  /\ subs \in Seq(Row)
  /\ sii \in Seq(Upload)
  /\ \A t \in 1..Len(sii) : sii[t].of <= Len(subs)
  /\ pc \in [Worker -> Place]
  /\ job \in [Worker -> Job]

(* The SII answered v about an envelope, perhaps some time ago. *)
Told(i, v) == \E t \in UploadsOf(i) : v \in {Received, sii[t].verdict}

Reported(what, i) == IF what = "rcof" THEN UploadsOf(i) # {} ELSE DeliveredToSii(i)

RowFits(i) ==
  /\ subs[i].track # 0 => subs[i].track \in UploadsOf(i)
  /\ subs[i].verdict # NoVerdict => Told(i, subs[i].verdict)
  /\ subs[i].source < i
  /\ subs[i].source # 0 => Reported(subs[i].what, subs[i].source)
  /\ ~subs[i].gone /\ subs[i].set = 0 /\ ~subs[i].forced => UploadsOf(i) # {}

(* A request at where, with the variables j, is to store an envelope. *)
Building(where, j) ==
  where \in {"emitted", "asking"} \/ (where = "answered" /\ ~j.single)

JobFits(where, j) ==
  /\ j.sub <= Len(subs)
  /\ where \in {"sent", "discarding", "answered"} => j.sub # 0
  /\ where = "sent" /\ j.track # 0 => j.track \in UploadsOf(j.sub)
  /\ where = "uploaded" => j.track \in 1..Len(sii) /\ sii[j.track].of = 0
  /\ where = "answered" => Told(j.sub, j.answer)
  /\ \A q \in j.todo : q[1] \in SubId /\ q[2] \in UploadsOf(q[1])
  /\ \A i \in DOMAIN j.view :
       i \in SubId /\ (j.view[i] # NoVerdict => Told(i, j.view[i]))
  /\ j.source <= Len(subs)
  /\ j.source # 0 => Reported(j.what, j.source)
  /\ Building(where, j) /\ j.set = 0 => j.force

RowsFit == \A i \in SubId : RowFits(i)
JobsFit == \A w \in Worker : JobFits(pc[w], job[w])

UploadedApart ==
  \A v, w \in Worker :
    pc[v] = "uploaded" /\ pc[w] = "uploaded" /\ job[v].track = job[w].track => v = w

Unasked(s) == {i \in Drafts(s) : ~subs[i].forced /\ UploadsOf(i) = {}}
Emitting(s) ==
  {w \in Worker : Building(pc[w], job[w]) /\ job[w].set = s /\ ~job[w].force}

DraftsInv ==
  \A s \in SetId : Cardinality(Unasked(s)) + Cardinality(Emitting(s)) <= Cardinality(Worker)

IInv == TypeInv /\ RowsFit /\ JobsFit /\ UploadedApart /\ DraftsInv

-----------------------------------------------------------------------------
(* Operators *)

LEMMA MaxIsMember ==
  ASSUME NEW n \in Nat, NEW S, S \subseteq 0..n, S # {}
  PROVE  Max(S) \in S /\ \A y \in S : y <= Max(S)
<1> DEFINE below == {ss \in Nat \X Nat : ss[1] < ss[2]}
           bounds == {m \in Nat : \A y \in S : y <= m}
<1>1. IsWellFoundedOn(below, Nat)
  BY NatLessThanWellFounded, Zenon DEF OpToRel
<1>2. bounds \in SUBSET Nat /\ n \in bounds /\ S \subseteq Nat
  OBVIOUS
<1>3. PICK m \in bounds : \A e \in bounds : <<e, m>> \notin below
  <2> HIDE DEF below, bounds
  <2> QED
    BY <1>1, <1>2, WFMin, Zenon
<1>4. m \in Nat /\ \A y \in S : y \in Nat /\ y <= m
  BY <1>2, <1>3
<1>5. m \in S
  <2> SUFFICES ASSUME m \notin S PROVE FALSE
    OBVIOUS
  <2>1. PICK z \in S : z \in Nat /\ z <= m /\ z # m
    BY <1>4
  <2>2. m - 1 \in Nat /\ m - 1 < m
    BY <1>4, <2>1
  <2>3. ASSUME NEW y \in S PROVE y <= m - 1
    <3>1. y \in Nat /\ y <= m /\ y # m
      BY <1>4
    <3> QED
      BY <1>4, <3>1
  <2>4. m - 1 \in bounds /\ <<m - 1, m>> \in below
    BY <1>4, <2>2, <2>3
  <2> QED
    BY <1>3, <2>4
<1>6. \A y \in S : m >= y
  BY <1>4
<1>7. Max(S) \in S /\ \A y \in S : Max(S) >= y
  BY <1>5, <1>6, Zenon DEF Max
<1> QED
  BY <1>2, <1>7

LEMMA Constants ==
  /\ IsFiniteSet(Worker) /\ Cardinality(Worker) \in Nat
  /\ Len(Kind) \in Nat /\ SetId = 1..Len(Kind)
  /\ Headers \subseteq 0..Len(Kind) /\ Manual \subseteq 1..Len(Kind) /\ Forces \subseteq BOOLEAN
  /\ \A s \in SetId : Kind[s] \in Catalog
<1>1. Kind \in Seq(Catalog)
  BY CertificationAssumption, Zenon
<1>2. Len(Kind) \in Nat /\ SetId = 1..Len(Kind) /\ \A s \in SetId : Kind[s] \in Catalog
  BY <1>1 DEF SetId
<1>3. Headers \subseteq SetId \cup {0} /\ Manual \subseteq SetId /\ Forces \subseteq BOOLEAN
  BY CertificationAssumption, Zenon
<1>4. IsFiniteSet(Worker) /\ Cardinality(Worker) \in Nat
  BY CertificationAssumption, FS_CardinalityType
<1> QED
  BY <1>2, <1>3, <1>4

LEMMA VerdictFacts ==
  /\ NoVerdict \in Verdicts /\ Received \in Verdicts /\ NoVerdict # Received
  /\ NoVerdict \notin Answers /\ Received \notin Answers
  /\ ~Entregado(NoVerdict) /\ ~Entregado(Received)
  /\ Received.state \notin Aceptados \cup Rechazos
  /\ \A v \in Verdicts : v.rejected \in Nat /\ v.flagged \in Nat
<1>1. NoVerdict.state = "" /\ Received.state = "REC"
  BY DEF NoVerdict, Received, Verdict
<1>2. \A v \in Answers : v # NoVerdict /\ v.state \notin EnProceso
  BY CertificationAssumption DEF Undecided
<1>3. \A v \in Answers : v.rejected \in Nat /\ v.flagged \in Nat
  BY CertificationAssumption
<1>4. /\ NoVerdict.rejected = 0 /\ NoVerdict.flagged = 0
      /\ Received.rejected = 0 /\ Received.flagged = 0
  BY DEF NoVerdict, Received, Verdict
<1>5. /\ Received.state \notin Aceptados \cup Rechazos
      /\ ~Entregado(NoVerdict) /\ ~Entregado(Received)
  BY <1>1 DEF Entregado, Aceptados, Rechazos
<1>6. NoVerdict # Received /\ NoVerdict \notin Answers /\ Received \notin Answers
  BY <1>1, <1>2 DEF EnProceso
<1> QED
  BY <1>3, <1>4, <1>5, <1>6 DEF Verdicts

LEMMA EmptyView == <<>> \in Views
<1>1. <<>> \in [{} -> Verdicts]
  OBVIOUS
<1> QED
  BY <1>1 DEF Views

LEMMA ViewOf ==
  ASSUME NEW I, I \subseteq Nat, NEW v, v \in [I -> Verdicts]
  PROVE  v \in Views
BY DEF Views

LEMMA ViewUpdate ==
  ASSUME NEW v \in Views, NEW i, NEW a \in Verdicts
  PROVE  [v EXCEPT ![i] = a] \in Views
<1>1. PICK I \in SUBSET Nat : v \in [I -> Verdicts]
  BY DEF Views
<1>2. [v EXCEPT ![i] = a] \in [I -> Verdicts]
  BY <1>1
<1> QED
  BY <1>1, <1>2, ViewOf

LEMMA StateType ==
  ASSUME TypeInv
  PROVE  /\ Len(subs) \in Nat /\ DOMAIN subs = 1..Len(subs) /\ SubId = 1..Len(subs)
         /\ Len(sii) \in Nat /\ DOMAIN sii = 1..Len(sii)
         /\ \A i \in SubId : subs[i] \in Row
         /\ \A t \in 1..Len(sii) : sii[t] \in Upload /\ sii[t].of <= Len(subs)
         /\ \A w \in Worker : pc[w] \in Place /\ job[w] \in Job
<1>1. subs \in Seq(Row) /\ sii \in Seq(Upload)
  BY DEF TypeInv
<1>2. /\ Len(subs) \in Nat /\ DOMAIN subs = 1..Len(subs)
      /\ Len(sii) \in Nat /\ DOMAIN sii = 1..Len(sii)
      /\ \A i \in 1..Len(subs) : subs[i] \in Row
      /\ \A t \in 1..Len(sii) : sii[t] \in Upload
  BY <1>1
<1> QED
  BY <1>2 DEF SubId, TypeInv

LEMMA NoJobType == NoJob \in Job
<1>1. 0 \in 0..Len(Kind)
  BY Constants
<1>2. {} \in SUBSET (Nat \X Nat) /\ "" \in What
  BY DEF What
<1> QED
  BY <1>1, <1>2, EmptyView, VerdictFacts DEF NoJob, Job

LEMMA GotoWorks ==
  ASSUME TypeInv, NEW w \in Worker, NEW where \in Place, NEW j \in Job, Goto(w, where, j)
  PROVE  /\ pc'[w] = where /\ job'[w] = j
         /\ \A v \in Worker \ {w} : pc'[v] = pc[v] /\ job'[v] = job[v]
         /\ pc' \in [Worker -> Place] /\ job' \in [Worker -> Job]
<1>1. pc \in [Worker -> Place] /\ job \in [Worker -> Job]
  BY DEF TypeInv
<1>2. pc' = [pc EXCEPT ![w] = where] /\ job' = [job EXCEPT ![w] = j]
  BY DEF Goto
<1> HIDE DEF Job
<1> QED
  BY <1>1, <1>2

-----------------------------------------------------------------------------
(* What was learned stays true *)

Grows ==
  /\ Len(subs') >= Len(subs) /\ Len(sii') >= Len(sii)
  /\ \A t \in 1..Len(sii) :
       /\ sii[t].of # 0 => sii'[t].of = sii[t].of
       /\ sii[t].verdict # Received => sii'[t].verdict = sii[t].verdict

LEMMA Grown ==
  ASSUME TypeInv, TypeInv', Grows, NEW i \in Nat \ {0}
  PROVE  /\ UploadsOf(i) \subseteq UploadsOf(i)'
         /\ \A v : Told(i, v) => Told(i, v)'
         /\ \A what : Reported(what, i) => Reported(what, i)'
         /\ i \in SubId => i \in SubId'
<1>1. Len(sii) \in Nat /\ Len(sii') \in Nat /\ Len(subs) \in Nat /\ Len(subs') \in Nat
  BY StateType DEF TypeInv
<1>2. UploadsOf(i) \subseteq UploadsOf(i)'
  BY <1>1 DEF UploadsOf, Grows
<1>3. ASSUME NEW t \in UploadsOf(i), sii[t].verdict # Received
      PROVE  sii'[t].verdict = sii[t].verdict
  BY <1>3 DEF UploadsOf, Grows
<1>4. ASSUME NEW v, Told(i, v) PROVE Told(i, v)'
  <2>1. PICK t \in UploadsOf(i) : v \in {Received, sii[t].verdict}
    BY <1>4 DEF Told
  <2>2. v \in {Received, sii'[t].verdict}
    BY <1>3, <2>1
  <2> QED
    BY <1>2, <2>1, <2>2 DEF Told
<1>5. DeliveredToSii(i) => DeliveredToSii(i)'
  <2> SUFFICES ASSUME NEW t \in UploadsOf(i), Entregado(sii[t].verdict)
               PROVE  DeliveredToSii(i)'
    BY DEF DeliveredToSii
  <2>1. sii'[t].verdict = sii[t].verdict
    BY <1>3, VerdictFacts
  <2>2. Entregado(sii'[t].verdict)
    BY <2>1
  <2> QED
    BY <1>2, <2>2 DEF DeliveredToSii
<1>6. ASSUME NEW what, Reported(what, i) PROVE Reported(what, i)'
  BY <1>2, <1>5, <1>6 DEF Reported
<1> QED
  BY <1>1, <1>2, <1>4, <1>6 DEF Grows, SubId

LEMMA RowKept ==
  ASSUME TypeInv, TypeInv', Grows, NEW i \in SubId, RowFits(i), subs'[i] = subs[i]
  PROVE  RowFits(i)'
<1>1. i \in Nat \ {0} /\ subs[i] \in Row
  BY StateType
<1>2. /\ UploadsOf(i) \subseteq UploadsOf(i)'
      /\ \A v : Told(i, v) => Told(i, v)'
  BY <1>1, Grown
<1>3. subs[i].source # 0 => Reported(subs[i].what, subs[i].source)'
  <2> SUFFICES ASSUME subs[i].source # 0
               PROVE  Reported(subs[i].what, subs[i].source)'
    OBVIOUS
  <2>1. PICK k, what : k = subs[i].source /\ what = subs[i].what
    OBVIOUS
  <2>2. k \in Nat \ {0}
    BY <1>1, <2>1 DEF Row
  <2>3. Reported(what, k)
    BY <2>1 DEF RowFits
  <2>4. Reported(what, k)'
    BY <2>2, <2>3, Grown
  <2> QED
    BY <2>1, <2>4 DEF Reported, UploadsOf, DeliveredToSii
<1> QED
  BY <1>1, <1>2, <1>3 DEF RowFits

LEMMA JobKept ==
  ASSUME TypeInv, TypeInv', Grows, NEW where, NEW j \in Job, JobFits(where, j),
         where = "uploaded" => sii'[j.track].of = 0
  PROVE  JobFits(where, j)'
<1>1. /\ j.sub \in Nat /\ j.source \in Nat /\ j.todo \in SUBSET (Nat \X Nat)
  BY DEF Job
<1>2. /\ Len(subs) \in Nat /\ Len(subs') \in Nat /\ Len(sii) \in Nat /\ Len(sii') \in Nat
      /\ Len(subs) <= Len(subs') /\ Len(sii) <= Len(sii')
      /\ SubId = 1..Len(subs) /\ SubId \subseteq SubId'
  BY StateType DEF TypeInv, Grows, SubId
<1>3. j.sub <= Len(subs') /\ j.source <= Len(subs')
  BY <1>1, <1>2 DEF JobFits
<1>4. where \in {"sent", "discarding", "answered"} => j.sub \in Nat \ {0}
  BY <1>1 DEF JobFits
<1>5. where = "sent" /\ j.track # 0 => j.track \in UploadsOf(j.sub)'
  BY <1>4, Grown DEF JobFits
<1>6. where = "uploaded" => j.track \in 1..Len(sii') /\ sii'[j.track].of = 0
  BY <1>2 DEF JobFits
<1>7. where = "answered" => Told(j.sub, j.answer)'
  BY <1>4, Grown DEF JobFits
<1>8. \A q \in j.todo : q[1] \in SubId' /\ q[2] \in UploadsOf(q[1])'
  <2> TAKE q \in j.todo
  <2>1. q[1] \in SubId /\ q[2] \in UploadsOf(q[1])
    BY DEF JobFits
  <2>2. q[1] \in Nat \ {0}
    BY <1>2, <2>1
  <2> QED
    BY <1>2, <2>1, <2>2, Grown
<1>9. \A i \in DOMAIN j.view :
        i \in SubId' /\ (j.view[i] # NoVerdict => Told(i, j.view[i])')
  <2> TAKE i \in DOMAIN j.view
  <2>1. i \in SubId /\ (j.view[i] # NoVerdict => Told(i, j.view[i]))
    BY DEF JobFits
  <2>2. i \in Nat \ {0}
    BY <1>2, <2>1
  <2> QED
    BY <1>2, <2>1, <2>2, Grown
<1>10. j.source # 0 => Reported(j.what, j.source)'
  BY <1>1, Grown DEF JobFits
<1>11. Building(where, j) /\ j.set = 0 => j.force
  BY DEF JobFits
<1>12. where \in {"sent", "discarding", "answered"} => j.sub # 0
  BY <1>4
<1> QED
  BY <1>3, <1>5, <1>6, <1>7, <1>8, <1>9, <1>10, <1>11, <1>12 DEF JobFits, Building

LEMMA SetsAreFinite ==
  ASSUME TypeInv, NEW s
  PROVE  /\ IsFiniteSet(Unasked(s)) /\ Cardinality(Unasked(s)) \in Nat
         /\ IsFiniteSet(Emitting(s)) /\ Cardinality(Emitting(s)) \in Nat
         /\ Cardinality(Emitting(s)) <= Cardinality(Worker)
         /\ Unasked(s) \subseteq 1..Len(subs) /\ Len(subs) \in Nat
<1>1. Len(subs) \in Nat /\ Unasked(s) \subseteq 1..Len(subs) /\ Emitting(s) \subseteq Worker
  BY StateType DEF Unasked, Drafts, SubsOf, Live, Emitting
<1>2. IsFiniteSet(1..Len(subs))
  BY <1>1, FS_Interval
<1>3. IsFiniteSet(Unasked(s))
  BY <1>1, <1>2, FS_Subset
<1>4. IsFiniteSet(Emitting(s)) /\ Cardinality(Emitting(s)) <= Cardinality(Worker)
  BY <1>1, Constants, FS_Subset
<1> QED
  BY <1>1, <1>3, <1>4, FS_CardinalityType

LEMMA DraftsKept ==
  ASSUME IInv, TypeInv', NEW s \in SetId,
         Unasked(s)' \subseteq Unasked(s), Emitting(s)' \subseteq Emitting(s)
  PROVE  Cardinality(Unasked(s)') + Cardinality(Emitting(s)') <= Cardinality(Worker)
<1>1. /\ IsFiniteSet(Unasked(s)) /\ Cardinality(Unasked(s)) \in Nat
      /\ IsFiniteSet(Emitting(s)) /\ Cardinality(Emitting(s)) \in Nat
      /\ Cardinality(Unasked(s)) + Cardinality(Emitting(s)) <= Cardinality(Worker)
  BY SetsAreFinite DEF IInv, DraftsInv
<1>2. /\ IsFiniteSet(Unasked(s)') /\ Cardinality(Unasked(s)') <= Cardinality(Unasked(s))
      /\ IsFiniteSet(Emitting(s)') /\ Cardinality(Emitting(s)') <= Cardinality(Emitting(s))
  BY <1>1, FS_Subset
<1>3. Cardinality(Unasked(s)') \in Nat /\ Cardinality(Emitting(s)') \in Nat
  BY <1>2, FS_CardinalityType
<1> QED
  BY <1>1, <1>2, <1>3, Constants

(* A row that stays as it was or is no draft nobody asked for adds none.   *)
LEMMA UnaskedKept ==
  ASSUME IInv, TypeInv', Grows, NEW s \in SetId,
         \A i \in SubId' : (i \in SubId /\ subs'[i] = subs[i]) \/ i \notin Unasked(s)'
  PROVE  Unasked(s)' \subseteq Unasked(s)
<1> SUFFICES ASSUME NEW i \in Unasked(s)' PROVE i \in Unasked(s)
  OBVIOUS
<1>1. i \in SubId' /\ i \in SubId /\ subs'[i] = subs[i]
  BY DEF Unasked, Drafts, SubsOf, Live
<1>2. UploadsOf(i) \subseteq UploadsOf(i)'
  BY <1>1, Grown, StateType DEF IInv
<1> QED
  BY <1>1, <1>2 DEF Unasked, Drafts, SubsOf, Live

(* What every step has to show: of what it changes only.                   *)
LEMMA KeptIInv ==
  ASSUME IInv, TypeInv', Grows, UploadedApart', DraftsInv',
         \A i \in SubId' : (i \in SubId /\ subs'[i] = subs[i]) \/ RowFits(i)',
         \A w \in Worker :
           \/ /\ pc'[w] = pc[w] /\ job'[w] = job[w]
              /\ pc[w] = "uploaded" => sii'[job[w].track].of = 0
           \/ JobFits(pc[w], job[w])'
  PROVE  IInv'
<1> USE DEF IInv
<1>1. RowsFit'
  <2> SUFFICES ASSUME NEW i \in SubId' PROVE RowFits(i)'
    BY DEF RowsFit
  <2>1. CASE i \in SubId /\ subs'[i] = subs[i]
    BY <2>1, RowKept DEF RowsFit
  <2> QED
    BY <2>1
<1>2. JobsFit'
  <2> SUFFICES ASSUME NEW w \in Worker PROVE JobFits(pc[w], job[w])'
    BY DEF JobsFit
  <2>1. CASE /\ pc'[w] = pc[w] /\ job'[w] = job[w]
             /\ pc[w] = "uploaded" => sii'[job[w].track].of = 0
    <3>1. PICK where, j : where = pc[w] /\ j = job[w]
      OBVIOUS
    <3>2. j \in Job /\ JobFits(where, j)
      BY <3>1, StateType DEF JobsFit
    <3>3. JobFits(where, j)'
      BY <2>1, <3>1, <3>2, JobKept
    <3>4. where = pc'[w] /\ j = job'[w]
      BY <2>1, <3>1
    <3> QED
      BY <3>3, <3>4 DEF JobFits, Building, Told, Reported, UploadsOf, DeliveredToSii, SubId
  <2> QED
    BY <2>1
<1> QED
  BY <1>1, <1>2

-----------------------------------------------------------------------------
(* Steps of one request that store nothing *)

LEMMA LocalIInv ==
  ASSUME IInv, NEW w \in Worker, NEW where \in Place, NEW j \in Job, Goto(w, where, j),
         UNCHANGED <<declared, subs, sii>>, where # "uploaded", JobFits(where, j),
         Building(where, j) /\ ~j.force /\ j.set # 0 =>
           \/ Unasked(j.set) = {}
           \/ Building(pc[w], job[w]) /\ job[w].set = j.set /\ ~job[w].force
  PROVE  IInv'
<1> USE DEF IInv
<1>1. /\ pc'[w] = where /\ job'[w] = j
      /\ \A v \in Worker \ {w} : pc'[v] = pc[v] /\ job'[v] = job[v]
      /\ pc' \in [Worker -> Place] /\ job' \in [Worker -> Job]
  BY GotoWorks
<1>2. TypeInv'
  BY <1>1 DEF TypeInv
<1>3. Grows
  BY StateType DEF Grows
<1>4. UploadedApart'
  BY <1>1 DEF UploadedApart
<1>5. \A v \in Worker :
        \/ /\ pc'[v] = pc[v] /\ job'[v] = job[v]
           /\ pc[v] = "uploaded" => sii'[job[v].track].of = 0
        \/ JobFits(pc[v], job[v])'
  <2>1. JobFits(pc[w], job[w])'
    BY <1>1 DEF JobFits, Building, Told, Reported, UploadsOf, DeliveredToSii, SubId
  <2> QED
    BY <1>1, <2>1 DEF JobsFit, JobFits
<1>6. DraftsInv'
  <2> SUFFICES ASSUME NEW s \in SetId
               PROVE  Cardinality(Unasked(s)') + Cardinality(Emitting(s)') <= Cardinality(Worker)
    BY DEF DraftsInv, SetId
  <2>1. Unasked(s)' = Unasked(s)
    BY DEF Unasked, Drafts, SubsOf, Live, UploadsOf, SubId
  <2>2. CASE Emitting(s)' \subseteq Emitting(s)
    BY <1>2, <2>1, <2>2, DraftsKept
  <2>3. CASE ~(Emitting(s)' \subseteq Emitting(s))
    <3>1. Building(where, j) /\ j.set = s /\ ~j.force
      BY <1>1, <2>3 DEF Emitting, Building
    <3>2. ~(Building(pc[w], job[w]) /\ job[w].set = s /\ ~job[w].force)
      BY <1>1, <2>3 DEF Emitting, Building
    <3>3. Unasked(s) = {}
      BY <3>1, <3>2, Constants
    <3>4. Emitting(s)' \subseteq Worker
      BY DEF Emitting
    <3>5. /\ IsFiniteSet(Emitting(s)') /\ Cardinality(Emitting(s)') <= Cardinality(Worker)
          /\ Cardinality(Unasked(s)') = 0
      BY <2>1, <3>3, <3>4, Constants, FS_Subset, FS_EmptySet
    <3>6. Cardinality(Emitting(s)') \in Nat
      BY <3>5, FS_CardinalityType
    <3> QED
      BY <3>5, <3>6, Constants
  <2> QED
    BY <2>2, <2>3
<1> QED
  BY <1>2, <1>3, <1>4, <1>5, <1>6, KeptIInv DEF SubId

LEMMA FinishIInv ==
  ASSUME IInv, NEW w \in Worker, Finish(w), UNCHANGED <<declared, subs, sii>>
  PROVE  IInv'
<1>1. PICK j : j = NoJob
  OBVIOUS
<1>2. JobFits("idle", j) /\ ~Building("idle", j)
  <2>1. /\ j.sub = 0 /\ j.source = 0 /\ j.todo = {} /\ j.view = <<>>
    BY <1>1 DEF NoJob
  <2> QED
    BY <2>1, StateType DEF JobFits, Building, IInv
<1>3. j \in Job /\ Goto(w, "idle", j)
  BY <1>1, NoJobType DEF Finish
<1> QED
  BY <1>2, <1>3, LocalIInv DEF Place

LEMMA RowType ==
  ASSUME IInv, NEW i \in SubId
  PROVE  /\ i \in Nat \ {0} /\ i <= Len(subs) /\ Len(subs) \in Nat
         /\ subs[i].set \in 0..Len(Kind) /\ subs[i].what \in What /\ subs[i].track \in Nat
         /\ subs[i].verdict \in Verdicts /\ subs[i].forced \in BOOLEAN
         /\ subs[i].source \in Nat
         /\ subs[i].track # 0 =>
              /\ subs[i].track \in UploadsOf(i)
              /\ subs[i].track \in 1..Len(sii)
              /\ sii[subs[i].track].of = i
              /\ sii[subs[i].track].verdict \in Verdicts \ {NoVerdict}
              /\ Told(i, sii[subs[i].track].verdict)
<1>1. i \in Nat \ {0} /\ i <= Len(subs) /\ Len(subs) \in Nat /\ subs[i] \in Row
  BY StateType DEF IInv
<1>2. ASSUME subs[i].track # 0
      PROVE  /\ subs[i].track \in UploadsOf(i)
             /\ subs[i].track \in 1..Len(sii)
             /\ sii[subs[i].track].of = i
             /\ sii[subs[i].track].verdict \in Verdicts \ {NoVerdict}
             /\ Told(i, sii[subs[i].track].verdict)
  <2>1. subs[i].track \in UploadsOf(i)
    BY <1>2 DEF IInv, RowsFit, RowFits
  <2>2. subs[i].track \in 1..Len(sii) /\ sii[subs[i].track].of = i
    BY <2>1 DEF UploadsOf
  <2>3. sii[subs[i].track] \in Upload
    BY <2>2, StateType DEF IInv
  <2>4. sii[subs[i].track].verdict \in Verdicts \ {NoVerdict}
    BY <2>3, VerdictFacts DEF Upload, Verdicts
  <2> QED
    BY <2>1, <2>2, <2>4 DEF Told
<1> QED
  BY <1>1, <1>2 DEF Row

LEMMA JobType ==
  ASSUME IInv, NEW w \in Worker
  PROVE  /\ job[w] \in Job /\ JobFits(pc[w], job[w])
         /\ job[w].set \in 0..Len(Kind) /\ job[w].sub \in Nat /\ job[w].what \in What
         /\ job[w].force \in BOOLEAN /\ job[w].view \in Views
         /\ job[w].todo \in SUBSET (Nat \X Nat) /\ job[w].single \in BOOLEAN
         /\ job[w].pending \in BOOLEAN /\ job[w].track \in Nat
         /\ job[w].answer \in Verdicts /\ job[w].source \in Nat
<1>1. job[w] \in Job /\ JobFits(pc[w], job[w])
  BY StateType DEF IInv, JobsFit
<1> QED
  BY <1>1 DEF Job

(* The steps that begin with an empty job. *)
LEMMA StartsIInv ==
  ASSUME IInv, NEW w \in Worker, NEW i \in SubId,
         FolioReport(w, i) \/ SendUntracked(w, i) \/ Discard(w, i) \/ Refresh(w, i)
  PROVE  IInv'
<1>1. NoJob \in Job
  BY NoJobType
<1>2. Len(subs) \in Nat /\ i \in Nat \ {0} /\ i <= Len(subs)
  BY RowType
<1>3. CASE FolioReport(w, i)
  <2>1. PICK j : j = [NoJob EXCEPT !.set = subs[i].set, !.what = "rcof",
                                   !.force = TRUE, !.source = i]
    OBVIOUS
  <2>2. Goto(w, "emitted", j) /\ UNCHANGED <<declared, subs, sii>> /\ subs[i].track # 0
    BY <1>3, <2>1 DEF FolioReport
  <2>3. j \in Job
    BY <1>1, <1>2, <2>1, RowType DEF Job, What
  <2>4. j.source = i /\ j.what = "rcof" /\ j.force /\ j.sub = 0 /\ j.todo = {} /\ j.view = <<>>
    BY <1>1, <2>1 DEF Job, NoJob
  <2>5. Reported("rcof", i)
    BY <2>2, RowType DEF Reported
  <2>6. JobFits("emitted", j)
    BY <1>2, <2>4, <2>5 DEF JobFits
  <2> QED
    BY <2>2, <2>3, <2>4, <2>6, LocalIInv DEF Place
<1>4. CASE SendUntracked(w, i) \/ Discard(w, i)
  <2>1. PICK j : j = [NoJob EXCEPT !.sub = i]
    OBVIOUS
  <2>2. PICK where \in {"sent", "discarding"} :
          Goto(w, where, j) /\ UNCHANGED <<declared, subs, sii>>
    BY <1>4, <2>1 DEF SendUntracked, Discard
  <2>3. j \in Job
    BY <1>1, <1>2, <2>1 DEF Job
  <2>4. /\ j.sub = i /\ j.track = 0 /\ j.source = 0 /\ j.set = 0 /\ j.todo = {} /\ j.view = <<>>
    BY <1>1, <2>1 DEF Job, NoJob
  <2>5. JobFits(where, j) /\ ~Building(where, j)
    BY <1>2, <2>4 DEF JobFits, Building
  <2> QED
    BY <2>2, <2>3, <2>5, LocalIInv DEF Place
<1>5. CASE Refresh(w, i)
  <2>1. PICK j : j = [NoJob EXCEPT !.single = TRUE, !.sub = i,
                                   !.answer = sii[subs[i].track].verdict]
    OBVIOUS
  <2>2. Goto(w, "answered", j) /\ UNCHANGED <<declared, subs, sii>> /\ subs[i].track # 0
    BY <1>5, <2>1 DEF Refresh
  <2>3. j \in Job
    BY <1>1, <1>2, <2>1, <2>2, RowType DEF Job
  <2>4. /\ j.sub = i /\ j.single /\ j.answer = sii[subs[i].track].verdict /\ j.source = 0
        /\ j.todo = {} /\ j.view = <<>>
    BY <1>1, <2>1 DEF Job, NoJob
  <2>5. JobFits("answered", j) /\ ~Building("answered", j)
    BY <1>2, <2>2, <2>4, RowType DEF JobFits, Building
  <2> QED
    BY <2>2, <2>3, <2>5, LocalIInv DEF Place
<1> QED
  BY <1>3, <1>4, <1>5

LEMMA EmitDocumentsIInv ==
  ASSUME IInv, NEW w \in Worker, NEW s \in SetId, NEW force \in Forces,
         EmitDocuments(w, s, force)
  PROVE  IInv'
<1>1. PICK j : j = [NoJob EXCEPT !.set = s, !.what = EnvelopeOf(Kind[s]), !.force = force]
  OBVIOUS
<1>2. Goto(w, "emitted", j) /\ UNCHANGED <<declared, subs, sii>> /\ MayEmit(s, force)
  BY <1>1 DEF EmitDocuments
<1>3. s \in 0..Len(Kind) /\ s # 0 /\ force \in BOOLEAN /\ EnvelopeOf(Kind[s]) \in What
  BY Constants DEF EnvelopeOf, What
<1>4. j \in Job
  BY <1>1, <1>3, NoJobType DEF Job
<1>5. /\ j.set = s /\ j.force = force /\ j.sub = 0 /\ j.source = 0
      /\ j.todo = {} /\ j.view = <<>>
  BY <1>1, NoJobType DEF Job, NoJob
<1>6. JobFits("emitted", j)
  BY <1>3, <1>5, StateType DEF JobFits, IInv
<1>7. ~force => Unasked(s) = {}
  BY <1>2 DEF MayEmit, Unasked
<1> QED
  BY <1>2, <1>4, <1>5, <1>6, <1>7, LocalIInv DEF Place

LEMMA EmitBookIInv ==
  ASSUME IInv, NEW w \in Worker, NEW s \in SetId, NEW force \in Forces,
         EmitBook(w, s, force)
  PROVE  IInv'
<1> DEFINE feeds == FeedsBook(Kind[s])
           seen == [i \in feeds |-> subs[i].verdict]
           asks == {<<i, subs[i].track>> : i \in {i \in DOMAIN seen : Undecided(seen[i])}}
<1>1. PICK j : j = [NoJob EXCEPT !.set = s, !.force = force, !.view = seen, !.todo = asks]
  OBVIOUS
<1>2. Goto(w, "asking", j) /\ UNCHANGED <<declared, subs, sii>> /\ MayEmit(s, force)
  BY <1>1 DEF EmitBook
<1>3. s \in 0..Len(Kind) /\ s # 0 /\ force \in BOOLEAN
  BY Constants
<1>4. \A i \in feeds : i \in SubId /\ subs[i].track # 0
  BY DEF FeedsBook, Live
<1>5. seen \in Views
  <2>1. feeds \subseteq Nat /\ seen \in [feeds -> Verdicts]
    BY <1>4, RowType
  <2> QED
    BY <2>1, ViewOf
<1>6. \A q \in asks : \E i \in feeds : q = <<i, subs[i].track>>
  OBVIOUS
<1>7. asks \in SUBSET (Nat \X Nat)
  BY <1>4, <1>6, RowType
<1>8. \A q \in asks : q[1] \in SubId /\ q[2] \in UploadsOf(q[1])
  BY <1>4, <1>6, RowType
<1>9. \A i \in DOMAIN seen : i \in SubId /\ (seen[i] # NoVerdict => Told(i, seen[i]))
  BY <1>4 DEF IInv, RowsFit, RowFits
<1> HIDE DEF seen, asks
<1>10. j \in Job
  BY <1>1, <1>3, <1>5, <1>7, NoJobType DEF Job
<1>11. /\ j.set = s /\ j.force = force /\ j.sub = 0 /\ j.source = 0
       /\ j.todo = asks /\ j.view = seen
  BY <1>1, NoJobType DEF Job, NoJob
<1>12. JobFits("asking", j)
  BY <1>3, <1>8, <1>9, <1>11, StateType DEF JobFits, IInv
<1>13. ~force => Unasked(s) = {}
  BY <1>2 DEF MayEmit, Unasked
<1> QED
  BY <1>2, <1>10, <1>11, <1>12, <1>13, LocalIInv DEF Place

LEMMA ToldIsDelivered ==
  ASSUME NEW i, NEW v, Told(i, v), Entregado(v)
  PROVE  DeliveredToSii(i)
BY VerdictFacts DEF Told, DeliveredToSii

LEMMA SourceIsDelivered ==
  ASSUME IInv, NEW w \in Worker, NEW kind, BookSource(w, kind) # 0
  PROVE  /\ BookSource(w, kind) \in SubId
         /\ Reported("book", BookSource(w, kind))
<1>1. PICK s : BookSource(w, kind) = SourceOf(w, s)
  BY DEF BookSource
<1> DEFINE accepted == {i \in SubsOf(s) : Entregado(Seen(w, i))}
<1>2. accepted # {} /\ SourceOf(w, s) = Max(accepted)
  BY <1>1 DEF SourceOf
<1>3. accepted \subseteq 0..Len(subs) /\ Len(subs) \in Nat /\ accepted \subseteq SubId
  BY StateType DEF IInv, SubsOf, Live
<1>4. SourceOf(w, s) \in accepted
  <2> HIDE DEF accepted
  <2> QED
    BY <1>2, <1>3, MaxIsMember
<1>5. PICK i \in SubId : i = BookSource(w, kind) /\ Entregado(Seen(w, i))
  BY <1>1, <1>3, <1>4
<1>6. Told(i, Seen(w, i))
  <2>1. Seen(w, i) # NoVerdict
    BY <1>5, VerdictFacts
  <2>2. JobFits(pc[w], job[w]) /\ RowFits(i)
    BY JobType DEF IInv, RowsFit
  <2>3. CASE i \in DOMAIN job[w].view
    BY <2>1, <2>2, <2>3 DEF JobFits, Seen
  <2>4. CASE i \notin DOMAIN job[w].view
    BY <2>1, <2>2, <2>4 DEF RowFits, Seen
  <2> QED
    BY <2>3, <2>4
<1>7. DeliveredToSii(i)
  BY <1>5, <1>6, ToldIsDelivered
<1> QED
  BY <1>5, <1>7 DEF Reported

LEMMA BuildBookIInv ==
  ASSUME IInv, NEW w \in Worker, BuildBook(w)
  PROVE  IInv'
<1>1. CASE Finish(w)
  BY <1>1, FinishIInv DEF BuildBook
<1>2. CASE ~Finish(w)
  <2>1. PICK j : j = [job[w] EXCEPT !.what = "book",
                                    !.source = BookSource(w, Kind[job[w].set]), !.view = <<>>]
    OBVIOUS
  <2>2. /\ Goto(w, "emitted", j) /\ UNCHANGED <<declared, subs, sii>> /\ pc[w] = "asking"
        /\ BookSource(w, Kind[job[w].set]) # 0
    BY <1>2, <2>1 DEF BuildBook
  <2>3. PICK source \in SubId : source = BookSource(w, Kind[job[w].set])
    BY <2>2, SourceIsDelivered
  <2>4. Reported("book", source) /\ source \in Nat /\ source <= Len(subs)
    BY <2>2, <2>3, SourceIsDelivered, RowType
  <2>5. j \in Job
    BY <2>1, <2>3, <2>4, JobType, EmptyView DEF Job, What
  <2>6. /\ j.set = job[w].set /\ j.force = job[w].force /\ j.sub = job[w].sub
        /\ j.todo = job[w].todo /\ j.what = "book" /\ j.source = source /\ j.view = <<>>
    BY <2>1, <2>3, JobType DEF Job
  <2>7. Building("asking", job[w]) /\ JobFits("asking", job[w])
    BY <2>2, JobType DEF Building
  <2>8. JobFits("emitted", j)
    BY <2>4, <2>6, <2>7 DEF JobFits
  <2> QED
    BY <2>2, <2>5, <2>6, <2>7, <2>8, LocalIInv DEF Place
<1> QED
  BY <1>1, <1>2

LEMMA PendingIsAsked ==
  ASSUME IInv, NEW w \in Worker, job[w].todo # {}
  PROVE  /\ Pending(w) \in job[w].todo
         /\ Pending(w)[1] \in SubId /\ Pending(w)[2] \in UploadsOf(Pending(w)[1])
<1> DEFINE below == {ss \in Nat \X Nat : ss[1] < ss[2]}
           asked == {i \in Nat : \E q \in job[w].todo : q[1] = i}
<1>1. IsWellFoundedOn(below, Nat)
  BY NatLessThanWellFounded, Zenon DEF OpToRel
<1>2. asked \in SUBSET Nat /\ asked # {}
  BY JobType
<1>3. PICK i \in asked : \A k \in asked : <<k, i>> \notin below
  <2> HIDE DEF below, asked
  <2> QED
    BY <1>1, <1>2, WFMin, Zenon
<1>4. PICK q \in job[w].todo : q[1] = i
  OBVIOUS
<1>5. ASSUME NEW r \in job[w].todo PROVE q[1] <= r[1]
  <2>1. r[1] \in Nat /\ i \in Nat
    BY JobType
  <2>2. ~(r[1] < i)
    BY <1>3, <2>1
  <2> QED
    BY <1>4, <2>1, <2>2
<1>6. Pending(w) \in job[w].todo
  BY <1>4, <1>5, Zenon DEF Pending
<1> QED
  BY <1>6, JobType DEF JobFits

LEMMA AskIInv ==
  ASSUME IInv, NEW w \in Worker, AskSource(w) \/ AskFails(w)
  PROVE  IInv'
<1>1. pc[w] = "asking" /\ job[w].todo # {} /\ UNCHANGED <<declared, subs, sii>>
  BY DEF AskSource, AskFails
<1>2. PICK q : q = Pending(w)
  OBVIOUS
<1>3. q \in job[w].todo /\ q[1] \in SubId /\ q[2] \in UploadsOf(q[1])
  BY <1>1, <1>2, PendingIsAsked
<1>4. JobFits("asking", job[w]) /\ Building("asking", job[w])
  BY <1>1, JobType DEF Building
<1>5. CASE AskSource(w)
  <2>1. PICK j : j = [job[w] EXCEPT !.sub = q[1], !.todo = @ \ {q},
                                    !.answer = sii[q[2]].verdict]
    OBVIOUS
  <2>2. Goto(w, "answered", j)
    BY <1>2, <1>5, <2>1 DEF AskSource
  <2>3. q[1] \in Nat \ {0} /\ q[1] <= Len(subs) /\ Len(subs) \in Nat
    BY <1>3, RowType
  <2>4. sii[q[2]].verdict \in Verdicts
    BY <1>3, StateType DEF IInv, UploadsOf, Upload, Verdicts
  <2>5. j \in Job
    BY <2>1, <2>3, <2>4, JobType DEF Job
  <2>6. /\ j.set = job[w].set /\ j.force = job[w].force /\ j.sub = q[1]
        /\ j.todo \subseteq job[w].todo /\ j.what = job[w].what /\ j.source = job[w].source
        /\ j.view = job[w].view /\ j.answer = sii[q[2]].verdict
    BY <2>1, JobType DEF Job
  <2>7. Told(q[1], sii[q[2]].verdict)
    BY <1>3 DEF Told
  <2>8. JobFits("answered", j)
    BY <1>4, <2>3, <2>6, <2>7 DEF JobFits
  <2> QED
    BY <1>1, <1>4, <2>2, <2>5, <2>6, <2>8, LocalIInv DEF Place
<1>6. CASE AskFails(w)
  <2>1. PICK j : j = [job[w] EXCEPT !.todo = @ \ {q}, !.pending = TRUE]
    OBVIOUS
  <2>2. Goto(w, "asking", j)
    BY <1>2, <1>6, <2>1 DEF AskFails
  <2>3. j \in Job
    BY <2>1, JobType DEF Job
  <2>4. /\ j.set = job[w].set /\ j.force = job[w].force /\ j.sub = job[w].sub
        /\ j.todo \subseteq job[w].todo /\ j.what = job[w].what /\ j.source = job[w].source
        /\ j.view = job[w].view
    BY <2>1, JobType DEF Job
  <2>5. JobFits("asking", j)
    BY <1>4, <2>4 DEF JobFits
  <2> QED
    BY <1>1, <1>4, <2>2, <2>3, <2>4, <2>5, LocalIInv DEF Place
<1> QED
  BY <1>5, <1>6

-----------------------------------------------------------------------------
(* Steps that store *)

LEMMA FinishWorks ==
  ASSUME IInv, NEW w \in Worker, Finish(w)
  PROVE  /\ pc'[w] = "idle" /\ job'[w] = NoJob
         /\ \A v \in Worker \ {w} : pc'[v] = pc[v] /\ job'[v] = job[v]
         /\ pc' \in [Worker -> Place] /\ job' \in [Worker -> Job]
         /\ UploadedApart'
         /\ \A s : Emitting(s)' = Emitting(s) \ {w}
         /\ Len(subs') \in Nat => JobFits(pc[w], job[w])'
<1>1. /\ pc'[w] = "idle" /\ job'[w] = NoJob
      /\ \A v \in Worker \ {w} : pc'[v] = pc[v] /\ job'[v] = job[v]
      /\ pc' \in [Worker -> Place] /\ job' \in [Worker -> Job]
  BY NoJobType, GotoWorks DEF Finish, IInv, Place
<1>2. UploadedApart'
  BY <1>1 DEF IInv, UploadedApart
<1>3. \A s : Emitting(s)' = Emitting(s) \ {w}
  BY <1>1 DEF Emitting, Building
<1>4. ASSUME Len(subs') \in Nat PROVE JobFits(pc[w], job[w])'
  <2>1. /\ NoJob.sub = 0 /\ NoJob.source = 0 /\ NoJob.todo = {} /\ NoJob.view = <<>>
    BY DEF NoJob
  <2> QED
    BY <1>1, <1>4, <2>1 DEF JobFits, Building
<1> QED
  BY <1>1, <1>2, <1>3, <1>4

(* What a step leaves as it was, when no upload is taken by an envelope.   *)
LEMMA OthersKept ==
  ASSUME IInv, NEW v \in Worker, pc'[v] = pc[v], job'[v] = job[v],
         \A t \in 1..Len(sii) : sii'[t].of = sii[t].of
  PROVE  pc[v] = "uploaded" => sii'[job[v].track].of = 0
BY JobType DEF JobFits

LEMMA AppendedRow ==
  ASSUME TypeInv, NEW r \in Row, subs' = Append(subs, r)
  PROVE  /\ subs' \in Seq(Row) /\ Len(subs') = Len(subs) + 1 /\ SubId' = SubId \cup {Len(subs) + 1}
         /\ Len(subs) \in Nat /\ Len(subs) + 1 \notin SubId
         /\ \A i \in SubId : subs'[i] = subs[i]
         /\ subs'[Len(subs) + 1] = r
<1>1. subs \in Seq(Row) /\ Len(subs) \in Nat /\ SubId = 1..Len(subs)
  BY StateType DEF TypeInv
<1> HIDE DEF Row
<1>2. /\ subs' \in Seq(Row) /\ Len(subs') = Len(subs) + 1
      /\ \A i \in 1..Len(subs) : subs'[i] = subs[i]
      /\ subs'[Len(subs) + 1] = r
  BY <1>1
<1> QED
  BY <1>1, <1>2 DEF SubId

LEMMA StoreIInv ==
  ASSUME IInv, NEW w \in Worker, Store(w)
  PROVE  IInv'
<1> USE DEF IInv
<1>1. PICK r : r = [set |-> job[w].set, what |-> job[w].what, track |-> 0,
                    verdict |-> NoVerdict, forced |-> job[w].force,
                    source |-> job[w].source, gone |-> FALSE]
  OBVIOUS
<1>2. PICK n : n = Len(subs) + 1
  OBVIOUS
<1>3. /\ pc[w] = "emitted" /\ subs' = Append(subs, r) /\ Finish(w)
      /\ UNCHANGED <<declared, sii>>
  BY <1>1 DEF Store
<1>4. r \in Row
  BY <1>1, JobType, VerdictFacts DEF Row
<1>5. /\ subs' \in Seq(Row) /\ Len(subs') = n /\ SubId' = SubId \cup {n}
      /\ Len(subs) \in Nat /\ n \notin SubId /\ n \in Nat \ {0}
      /\ \A i \in SubId : subs'[i] = subs[i]
      /\ subs'[n] = r
  <2>1. TypeInv
    OBVIOUS
  <2>2. /\ subs' \in Seq(Row) /\ Len(subs') = Len(subs) + 1
        /\ SubId' = SubId \cup {Len(subs) + 1}
        /\ Len(subs) \in Nat /\ Len(subs) + 1 \notin SubId
        /\ \A i \in SubId : subs'[i] = subs[i]
        /\ subs'[Len(subs) + 1] = r
    BY <1>3, <1>4, <2>1, AppendedRow
  <2> QED
    BY <1>2, <2>2
<1>6. /\ \A v \in Worker \ {w} : pc'[v] = pc[v] /\ job'[v] = job[v]
      /\ UploadedApart' /\ \A s : Emitting(s)' = Emitting(s) \ {w}
  BY <1>3, FinishWorks
<1>7. TypeInv'
  <2>1. pc' \in [Worker -> Place] /\ job' \in [Worker -> Job]
    BY <1>3, FinishWorks
  <2>2. \A t \in 1..Len(sii) : sii[t].of \in Nat /\ sii[t].of <= Len(subs)
    BY StateType DEF Upload
  <2>3. \A t \in 1..Len(sii') : sii'[t].of <= Len(subs')
    BY <1>2, <1>3, <1>5, <2>2
  <2> QED
    BY <1>3, <1>5, <2>1, <2>3 DEF TypeInv
<1>8. JobFits(pc[w], job[w])'
  BY <1>2, <1>3, <1>5, FinishWorks
<1>9. Grows
  BY <1>2, <1>3, <1>5, StateType DEF Grows
<1>10. /\ job[w].source \in Nat /\ job[w].source < n
       /\ job[w].source # 0 => Reported(job[w].what, job[w].source)
       /\ job[w].set = 0 => job[w].force
       /\ Building(pc[w], job[w])
  BY <1>2, <1>3, <1>5, JobType DEF JobFits, Building
<1>11. RowFits(n)'
  <2>1. r.source # 0 => Reported(r.what, r.source)'
    <3> SUFFICES ASSUME r.source # 0 PROVE Reported(r.what, r.source)'
      OBVIOUS
    <3>1. r.source \in Nat \ {0} /\ Reported(r.what, r.source)
      BY <1>1, <1>10
    <3> QED
      BY <1>7, <1>9, <3>1, Grown
  <2>2. /\ r.source < n /\ r.track = 0 /\ r.verdict = NoVerdict
        /\ r.set = 0 => r.forced
    BY <1>1, <1>10
  <2> QED
    BY <1>5, <2>1, <2>2 DEF RowFits, Reported, UploadsOf, DeliveredToSii
<1>12. DraftsInv'
  <2> SUFFICES ASSUME NEW s \in SetId
               PROVE  Cardinality(Unasked(s)') + Cardinality(Emitting(s)') <= Cardinality(Worker)
    BY DEF DraftsInv, SetId
  <2>1. CASE n \notin Unasked(s)'
    <3>1. Unasked(s)' \subseteq Unasked(s)
      BY <1>5, <1>7, <1>9, <2>1, UnaskedKept
    <3> QED
      BY <1>6, <1>7, <3>1, DraftsKept
  <2>2. CASE n \in Unasked(s)'
    <3> DEFINE old == Unasked(s)
               new == Unasked(s)'
    <3>1. r.set = s /\ ~r.forced
      BY <1>5, <2>2 DEF Unasked, Drafts, SubsOf
    <3>2. w \in Emitting(s)
      BY <1>1, <1>10, <3>1 DEF Emitting
    <3>3. new \subseteq old \cup {n}
      <4> SUFFICES ASSUME NEW i \in Unasked(s)', i # n PROVE i \in Unasked(s)
        OBVIOUS
      <4>1. i \in SubId /\ subs'[i] = subs[i]
        BY <1>5 DEF Unasked, Drafts, SubsOf, Live
      <4> QED
        BY <1>3, <4>1 DEF Unasked, Drafts, SubsOf, Live, UploadsOf
    <3>4. n \notin old
      BY <1>5 DEF Unasked, Drafts, SubsOf, Live
    <3>5. /\ IsFiniteSet(old) /\ Cardinality(old) \in Nat
          /\ IsFiniteSet(Emitting(s)) /\ Cardinality(Emitting(s)) \in Nat
          /\ Cardinality(old) + Cardinality(Emitting(s)) <= Cardinality(Worker)
      BY SetsAreFinite DEF DraftsInv
    <3> HIDE DEF old, new
    <3>6. IsFiniteSet(old \cup {n}) /\ Cardinality(old \cup {n}) = Cardinality(old) + 1
      BY <3>4, <3>5, FS_AddElement
    <3>7. /\ IsFiniteSet(new) /\ Cardinality(new) <= Cardinality(old) + 1
      BY <3>3, <3>6, FS_Subset
    <3>8. Cardinality(Emitting(s) \ {w}) = Cardinality(Emitting(s)) - 1
      BY <3>2, <3>5, FS_RemoveElement
    <3>9. Cardinality(new) \in Nat /\ Cardinality(Worker) \in Nat
      BY <3>7, FS_CardinalityType, Constants
    <3>10. Cardinality(new) + (Cardinality(Emitting(s)) - 1) <= Cardinality(Worker)
      BY <3>5, <3>7, <3>9
    <3> QED
      BY <1>6, <3>8, <3>10 DEF new
  <2> QED
    BY <2>1, <2>2
<1>13. \A v \in Worker \ {w} : pc[v] = "uploaded" => sii'[job[v].track].of = 0
  BY <1>3, <1>6, OthersKept
<1> QED
  BY <1>5, <1>6, <1>7, <1>8, <1>9, <1>11, <1>12, <1>13, KeptIInv

(* A row is rewritten where it stands, and the request ends or goes on to  *)
(* store the same envelope as before.                                      *)
LEMMA RewriteIInv ==
  ASSUME IInv, NEW i \in SubId, NEW r \in Row,
         subs' = subs \/ subs' = [subs EXCEPT ![i] = r],
         declared' \subseteq SetId, UNCHANGED sii,
         pc' \in [Worker -> Place], job' \in [Worker -> Job],
         UploadedApart',
         \A w \in Worker : (pc'[w] = pc[w] /\ job'[w] = job[w]) \/ JobFits(pc[w], job[w])',
         \A s \in SetId : Emitting(s)' \subseteq Emitting(s),
         subs' # subs => RowFits(i)' /\ \A s \in SetId : i \notin Unasked(s)'
  PROVE  IInv'
<1> USE DEF IInv
<1>1. /\ subs \in Seq(Row) /\ Len(subs) \in Nat /\ SubId = 1..Len(subs)
  BY StateType DEF TypeInv
<1>2. subs' \in Seq(Row) /\ Len(subs') = Len(subs)
  <2> HIDE DEF Row
  <2> QED
    BY <1>1
<1>3. SubId' = SubId /\ \A k \in SubId : k # i => subs'[k] = subs[k]
  BY <1>1, <1>2 DEF SubId
<1>4. TypeInv'
  BY <1>2 DEF TypeInv
<1>5. Grows
  BY <1>1, <1>2, StateType DEF Grows
<1>6. DraftsInv'
  <2> SUFFICES ASSUME NEW s \in SetId
               PROVE  Cardinality(Unasked(s)') + Cardinality(Emitting(s)') <= Cardinality(Worker)
    BY DEF DraftsInv, SetId
  <2>1. Unasked(s)' \subseteq Unasked(s)
    BY <1>3, <1>4, <1>5, UnaskedKept
  <2> QED
    BY <1>4, <2>1, DraftsKept
<1>7. \A w \in Worker : pc'[w] = pc[w] /\ job'[w] = job[w] =>
        (pc[w] = "uploaded" => sii'[job[w].track].of = 0)
  BY OthersKept
<1> QED
  BY <1>3, <1>4, <1>5, <1>6, <1>7, KeptIInv

LEMMA RewrittenRow ==
  ASSUME IInv, NEW i \in SubId, NEW r \in Row, subs' = [subs EXCEPT ![i] = r]
  PROVE  subs'[i] = r
<1>1. subs \in Seq(Row) /\ SubId = 1..Len(subs)
  BY StateType DEF IInv, TypeInv
<1> HIDE DEF Row
<1> QED
  BY <1>1

LEMMA FinishTrackIInv ==
  ASSUME IInv, NEW w \in Worker, StoreTrack(w)
  PROVE  IInv'
<1> USE DEF IInv
<1>1. PICK i, r : i = job[w].sub /\ r = [subs[i] EXCEPT !.track = job[w].track]
  OBVIOUS
<1>2. /\ pc[w] = "sent" /\ Finish(w) /\ UNCHANGED <<declared, sii>>
      /\ subs' = subs \/ subs' = [subs EXCEPT ![i] = r]
  BY <1>1 DEF StoreTrack
<1>3. /\ i \in SubId /\ job[w].track \in Nat
      /\ job[w].track # 0 => job[w].track \in UploadsOf(i)
  BY <1>1, <1>2, JobType, StateType DEF JobFits
<1>4. /\ subs[i] \in Row /\ r \in Row /\ r.track = job[w].track
      /\ r.set = subs[i].set /\ r.what = subs[i].what /\ r.verdict = subs[i].verdict
      /\ r.forced = subs[i].forced /\ r.source = subs[i].source /\ r.gone = subs[i].gone
  BY <1>1, <1>3, StateType DEF Row
<1>5. ASSUME subs' # subs
      PROVE  RowFits(i)' /\ \A s \in SetId : i \notin Unasked(s)'
  <2>1. subs'[i] = r
    BY <1>2, <1>3, <1>4, <1>5, RewrittenRow
  <2>2. RowFits(i) /\ UploadsOf(i)' = UploadsOf(i)
    BY <1>2, <1>3 DEF RowsFit, UploadsOf
  <2>3. r.track # 0 \/ UploadsOf(i) # {}
    <3> SUFFICES ASSUME r.track = 0, UploadsOf(i) = {} PROVE FALSE
      OBVIOUS
    <3>1. subs[i].track = 0
      BY <2>2 DEF RowFits
    <3>2. r = subs[i]
      BY <1>1, <1>4, <3>1 DEF Row
    <3>3. [subs EXCEPT ![i] = r] = subs
      BY <1>3, <3>2, StateType DEF TypeInv
    <3> QED
      BY <1>2, <1>5, <3>3
  <2>4. \A s \in SetId : i \notin Unasked(s)'
    BY <2>1, <2>2, <2>3 DEF Unasked, Drafts, SubsOf
  <2>5. RowFits(i)'
    BY <1>2, <1>3, <1>4, <2>1, <2>2 DEF RowFits, Told, Reported, UploadsOf, DeliveredToSii
  <2> QED
    BY <2>4, <2>5
<1>6. Len(subs') \in Nat
  BY <1>2, <1>3, StateType DEF TypeInv
<1>7. /\ pc' \in [Worker -> Place] /\ job' \in [Worker -> Job] /\ UploadedApart'
      /\ \A v \in Worker : (pc'[v] = pc[v] /\ job'[v] = job[v]) \/ JobFits(pc[v], job[v])'
      /\ \A s \in SetId : Emitting(s)' \subseteq Emitting(s)
  BY <1>2, <1>6, FinishWorks
<1>8. declared' \subseteq SetId
  BY <1>2 DEF TypeInv
<1> QED
  BY <1>2, <1>3, <1>4, <1>5, <1>7, <1>8, RewriteIInv

LEMMA DeleteIInv ==
  ASSUME IInv, NEW w \in Worker, Delete(w)
  PROVE  IInv'
<1> USE DEF IInv
<1>1. PICK i, r : i = job[w].sub /\ r = Deleted
  OBVIOUS
<1>2. /\ pc[w] = "discarding" /\ Finish(w) /\ UNCHANGED <<declared, sii>>
      /\ subs' = [subs EXCEPT ![i] = r]
  BY <1>1 DEF Delete
<1>3. i \in SubId
  BY <1>1, <1>2, JobType, StateType DEF JobFits
<1>4. /\ r \in Row /\ r.gone /\ r.track = 0 /\ r.verdict = NoVerdict /\ r.source = 0
  <2>1. 0 \in 0..Len(Kind) /\ "" \in What
    BY Constants DEF What
  <2>2. Deleted \in Row
    BY <2>1, VerdictFacts DEF Row, Deleted
  <2>3. Deleted.gone /\ Deleted.track = 0 /\ Deleted.verdict = NoVerdict /\ Deleted.source = 0
    BY DEF Deleted
  <2> QED
    BY <1>1, <2>2, <2>3
<1>5. subs'[i] = r
  BY <1>2, <1>3, <1>4, RewrittenRow
<1>6. RowFits(i)' /\ \A s \in SetId : i \notin Unasked(s)'
  BY <1>3, <1>4, <1>5, StateType DEF RowFits, Unasked, Drafts, SubsOf, Live
<1>7. Len(subs') \in Nat
  BY <1>2, <1>3, StateType DEF TypeInv
<1>8. /\ pc' \in [Worker -> Place] /\ job' \in [Worker -> Job] /\ UploadedApart'
      /\ \A v \in Worker : (pc'[v] = pc[v] /\ job'[v] = job[v]) \/ JobFits(pc[v], job[v])'
      /\ \A s \in SetId : Emitting(s)' \subseteq Emitting(s)
  BY <1>2, <1>7, FinishWorks
<1>9. declared' \subseteq SetId
  BY <1>2 DEF TypeInv
<1> QED
  BY <1>2, <1>3, <1>4, <1>6, <1>8, <1>9, RewriteIInv

LEMMA StoreAnswerIInv ==
  ASSUME IInv, NEW w \in Worker, StoreAnswer(w)
  PROVE  IInv'
<1> USE DEF IInv
<1>1. PICK i, r, a : /\ i = job[w].sub /\ a = job[w].answer
                     /\ r = [subs[i] EXCEPT !.verdict = a]
  OBVIOUS
<1>2. /\ pc[w] = "answered" /\ UNCHANGED <<declared, sii>>
      /\ subs' = subs \/ subs' = [subs EXCEPT ![i] = r]
  BY <1>1 DEF StoreAnswer
<1>3. JobFits("answered", job[w]) /\ job[w] \in Job
  BY <1>2, JobType
<1>4. i \in SubId /\ a \in Verdicts /\ Told(i, a) /\ i \in Nat
  BY <1>1, <1>3, JobType, StateType DEF JobFits
<1>5. /\ subs[i] \in Row /\ r \in Row /\ r.verdict = a /\ r.track = subs[i].track
      /\ r.set = subs[i].set /\ r.what = subs[i].what
      /\ r.forced = subs[i].forced /\ r.source = subs[i].source /\ r.gone = subs[i].gone
  BY <1>1, <1>4, StateType DEF Row
<1>6. ASSUME subs' # subs
      PROVE  RowFits(i)' /\ \A s \in SetId : i \notin Unasked(s)'
  <2>1. subs'[i] = r
    BY <1>2, <1>4, <1>5, <1>6, RewrittenRow
  <2>2. RowFits(i) /\ UploadsOf(i)' = UploadsOf(i)
    BY <1>2, <1>4 DEF RowsFit, UploadsOf
  <2>3. UploadsOf(i) # {}
    BY <1>4 DEF Told
  <2>4. \A s \in SetId : i \notin Unasked(s)'
    BY <2>2, <2>3 DEF Unasked
  <2>5. RowFits(i)'
    BY <1>2, <1>4, <1>5, <2>1, <2>2 DEF RowFits, Told, Reported, UploadsOf, DeliveredToSii
  <2> QED
    BY <2>4, <2>5
<1>7. Len(subs') \in Nat /\ Len(subs') = Len(subs)
  BY <1>2, <1>4, StateType DEF TypeInv
<1>8. declared' \subseteq SetId
  BY <1>2 DEF TypeInv
<1>9. CASE Finish(w)
  <2>1. /\ pc' \in [Worker -> Place] /\ job' \in [Worker -> Job] /\ UploadedApart'
        /\ \A v \in Worker : (pc'[v] = pc[v] /\ job'[v] = job[v]) \/ JobFits(pc[v], job[v])'
        /\ \A s \in SetId : Emitting(s)' \subseteq Emitting(s)
    BY <1>7, <1>9, FinishWorks
  <2> QED
    BY <1>2, <1>4, <1>5, <1>6, <1>8, <2>1, RewriteIInv
<1>10. CASE ~Finish(w)
  <2>1. PICK view, j : /\ view = [job[w].view EXCEPT ![i] = a]
                       /\ j = [job[w] EXCEPT !.sub = 0, !.answer = NoVerdict, !.view = view,
                                             !.pending = @ \/ subs[i].gone \/ Undecided(a)]
    OBVIOUS
  <2>2. Goto(w, "asking", j) /\ job[w].single = FALSE
    BY <1>1, <1>10, <2>1, JobType DEF StoreAnswer
  <2>3. view \in Views /\ (DOMAIN view) = DOMAIN job[w].view
        /\ \A k \in DOMAIN view : view[k] = job[w].view[k] \/ (k = i /\ view[k] = a)
    BY <1>4, <2>1, JobType, ViewUpdate DEF Views
  <2>4. j \in Job
    BY <1>3, <2>1, <2>3, VerdictFacts DEF Job
  <2>5. /\ j.set = job[w].set /\ j.force = job[w].force /\ j.sub = 0
        /\ j.todo = job[w].todo /\ j.what = job[w].what /\ j.source = job[w].source
        /\ j.view = view
    BY <1>3, <2>1 DEF Job
  <2>6. /\ pc'[w] = "asking" /\ job'[w] = j
        /\ \A v \in Worker \ {w} : pc'[v] = pc[v] /\ job'[v] = job[v]
        /\ pc' \in [Worker -> Place] /\ job' \in [Worker -> Job]
    BY <2>2, <2>4, GotoWorks DEF Place
  <2>7. UploadedApart'
    BY <2>6 DEF UploadedApart
  <2>8. \A s \in SetId : Emitting(s)' \subseteq Emitting(s)
    BY <1>2, <2>2, <2>5, <2>6 DEF Emitting, Building
  <2>9. Building("answered", job[w])
    BY <2>2 DEF Building
  <2>10. JobFits("asking", j)
    BY <1>3, <1>4, <2>3, <2>5, <2>9, StateType DEF JobFits
  <2>11. SubId' = SubId
    BY <1>7 DEF SubId
  <2>12. JobFits(pc[w], job[w])'
    BY <1>2, <1>7, <2>6, <2>10, <2>11
       DEF JobFits, Building, Told, Reported, UploadsOf, DeliveredToSii
  <2> QED
    BY <1>2, <1>4, <1>5, <1>6, <1>8, <2>6, <2>7, <2>8, <2>12, RewriteIInv
<1> QED
  BY <1>9, <1>10

LEMMA AssignIInv ==
  ASSUME IInv, NEW i \in SubId, NEW s \in Manual, Assign(i, s)
  PROVE  IInv'
<1> USE DEF IInv
<1>1. PICK r : r = [subs[i] EXCEPT !.set = s]
  OBVIOUS
<1>2. /\ i \in Live /\ subs[i].set = 0 /\ subs' = [subs EXCEPT ![i] = r]
      /\ UNCHANGED <<declared, sii, pc, job>>
  BY <1>1 DEF Assign
<1>3. s \in 0..Len(Kind) /\ s # 0
  BY Constants
<1>4. /\ subs[i] \in Row /\ r \in Row /\ r.verdict = subs[i].verdict /\ r.track = subs[i].track
      /\ r.set = s /\ r.what = subs[i].what
      /\ r.forced = subs[i].forced /\ r.source = subs[i].source /\ r.gone = subs[i].gone
  BY <1>1, <1>3, StateType DEF Row
<1>5. subs'[i] = r
  BY <1>2, <1>4, RewrittenRow
<1>6. RowFits(i) /\ UploadsOf(i)' = UploadsOf(i) /\ ~subs[i].gone
  BY <1>2 DEF RowsFit, UploadsOf, Live
<1>7. \A z \in SetId : i \notin Unasked(z)'
  BY <1>2, <1>4, <1>5, <1>6 DEF RowFits, Unasked
<1>8. RowFits(i)'
  BY <1>2, <1>3, <1>4, <1>5, <1>6 DEF RowFits, Told, Reported, UploadsOf, DeliveredToSii
<1>9. /\ \A z \in SetId : Emitting(z)' = Emitting(z)
      /\ UploadedApart' /\ pc' \in [Worker -> Place] /\ job' \in [Worker -> Job]
      /\ declared' \subseteq SetId
  BY <1>2 DEF Emitting, Building, UploadedApart, TypeInv
<1> QED
  BY <1>2, <1>4, <1>7, <1>8, <1>9, RewriteIInv

-----------------------------------------------------------------------------
(* Steps in which the SII takes part *)

LEMMA AppendedUpload ==
  ASSUME TypeInv, NEW u \in Upload, sii' = Append(sii, u)
  PROVE  /\ sii' \in Seq(Upload) /\ Len(sii') = Len(sii) + 1 /\ Len(sii) \in Nat
         /\ \A t \in 1..Len(sii) : sii'[t] = sii[t]
         /\ sii'[Len(sii) + 1] = u
<1>1. sii \in Seq(Upload) /\ Len(sii) \in Nat
  BY StateType DEF TypeInv
<1> HIDE DEF Upload
<1> QED
  BY <1>1

(* An upload arrives, and its request goes on with what it knows of it.    *)
LEMMA UploadIInv ==
  ASSUME IInv, NEW w \in Worker, NEW where \in Place, NEW j \in Job, NEW u \in Upload,
         pc[w] = "idle", UNCHANGED <<declared, subs>>, sii' = Append(sii, u),
         u.of <= Len(subs),
         Goto(w, where, j) \/ UNCHANGED <<pc, job>>,
         where \in {"sent", "uploaded"}, j.track = Len(sii) + 1,
         j.todo = {}, j.view = <<>>, j.source = 0,
         where = "sent" => u.of = j.sub /\ j.sub # 0,
         where = "uploaded" => u.of = 0 /\ j.sub = 0
  PROVE  IInv'
<1> USE DEF IInv
<1>1. /\ sii' \in Seq(Upload) /\ Len(sii') = Len(sii) + 1 /\ Len(sii) \in Nat
      /\ \A t \in 1..Len(sii) : sii'[t] = sii[t]
      /\ sii'[Len(sii) + 1] = u
      /\ Len(subs) \in Nat
  BY AppendedUpload, StateType
<1>2. /\ pc' \in [Worker -> Place] /\ job' \in [Worker -> Job]
      /\ \A v \in Worker \ {w} : pc'[v] = pc[v] /\ job'[v] = job[v]
      /\ \/ pc'[w] = where /\ job'[w] = j
         \/ pc'[w] = "idle" /\ job'[w] = job[w]
  BY GotoWorks DEF TypeInv
<1>3. TypeInv'
  <2>1. \A t \in 1..Len(sii') : sii'[t].of <= Len(subs)
    <3> TAKE t \in 1..Len(sii')
    <3>1. t \in 1..Len(sii) \/ t = Len(sii) + 1
      BY <1>1
    <3> QED
      BY <1>1, <3>1, StateType
  <2> QED
    BY <1>1, <1>2, <2>1 DEF TypeInv
<1>4. Grows
  BY <1>1 DEF Grows
<1>5. UploadedApart'
  <2>1. \A v \in Worker : pc[v] = "uploaded" => job[v].track \in 1..Len(sii)
    BY JobType DEF JobFits
  <2>2. ASSUME NEW v \in Worker \ {w}, pc'[v] = "uploaded", pc'[w] = "uploaded"
        PROVE  job'[v].track # job'[w].track
    BY <1>1, <1>2, <2>1, <2>2
  <2> QED
    BY <1>2, <2>2 DEF UploadedApart
<1>6. \A s \in SetId : Emitting(s)' \subseteq Emitting(s)
  BY <1>2 DEF Emitting, Building
<1>7. DraftsInv'
  <2> SUFFICES ASSUME NEW s \in SetId
               PROVE  Cardinality(Unasked(s)') + Cardinality(Emitting(s)') <= Cardinality(Worker)
    BY DEF DraftsInv, SetId
  <2>1. Unasked(s)' \subseteq Unasked(s)
    BY <1>3, <1>4, UnaskedKept DEF SubId
  <2> QED
    BY <1>3, <1>6, <2>1, DraftsKept
<1>8. JobFits(where, j)'
  <2>1. j.sub <= Len(subs')
    BY <1>1
  <2>2. where = "sent" => j.track \in UploadsOf(j.sub)'
    BY <1>1 DEF UploadsOf
  <2>3. where = "uploaded" => j.track \in 1..Len(sii') /\ sii'[j.track].of = 0
    BY <1>1
  <2> QED
    BY <1>1, <2>1, <2>2, <2>3 DEF JobFits, Building
<1>9. JobFits(pc[w], job[w])'
  <2>1. CASE pc'[w] = where /\ job'[w] = j
    BY <1>8, <2>1 DEF JobFits, Building, Told, Reported, UploadsOf, DeliveredToSii, SubId
  <2>2. CASE pc'[w] = "idle" /\ job'[w] = job[w]
    <3>1. PICK k \in Job : k = job[w]
      BY JobType
    <3>2. JobFits("idle", k)
      BY <3>1, JobType
    <3>3. JobFits("idle", k)'
      BY <1>3, <1>4, <3>2, JobKept
    <3> QED
      BY <2>2, <3>1, <3>3
         DEF JobFits, Building, Told, Reported, UploadsOf, DeliveredToSii, SubId
  <2> QED
    BY <1>2, <2>1, <2>2
<1>10. \A v \in Worker \ {w} : pc[v] = "uploaded" => sii'[job[v].track].of = 0
  <2> TAKE v \in Worker \ {w}
  <2>1. \A t \in 1..Len(sii) : sii'[t].of = sii[t].of
    BY <1>1
  <2> QED
    BY <1>2, <2>1, OthersKept
<1> QED
  BY <1>2, <1>3, <1>4, <1>5, <1>7, <1>9, <1>10, KeptIInv DEF SubId

LEMMA SendIInv ==
  ASSUME IInv, NEW w \in Worker, NEW i \in SubId, Send(w, i)
  PROVE  IInv'
<1>1. PICK u, j : /\ u = [of |-> i, verdict |-> Received]
                  /\ j = [NoJob EXCEPT !.sub = i, !.track = Len(sii) + 1]
  OBVIOUS
<1>2. /\ pc[w] = "idle" /\ UNCHANGED <<declared, subs>> /\ sii' = Append(sii, u)
      /\ Goto(w, "sent", j) \/ UNCHANGED <<pc, job>>
  BY <1>1 DEF Send
<1>3. i \in Nat \ {0} /\ i <= Len(subs) /\ Len(sii) + 1 \in Nat
  BY RowType, StateType DEF IInv
<1>4. u \in Upload /\ u.of = i
  BY <1>1, <1>3, VerdictFacts DEF Upload
<1>5. j \in Job
  BY <1>1, <1>3, NoJobType DEF Job
<1>6. /\ j.sub = i /\ j.track = Len(sii) + 1 /\ j.source = 0 /\ j.todo = {} /\ j.view = <<>>
  BY <1>1, NoJobType DEF Job, NoJob
<1> QED
  BY <1>2, <1>3, <1>4, <1>5, <1>6, UploadIInv DEF Place

LEMMA EmissionIInv ==
  ASSUME IInv, NEW w \in Worker, NEW s \in Headers, Emission(w, s)
  PROVE  IInv'
<1>1. PICK u, j : /\ u = [of |-> 0, verdict |-> Received]
                  /\ j = [NoJob EXCEPT !.set = s, !.track = Len(sii) + 1]
  OBVIOUS
<1>2. /\ pc[w] = "idle" /\ UNCHANGED <<declared, subs>> /\ sii' = Append(sii, u)
      /\ Goto(w, "uploaded", j)
  BY <1>1 DEF Emission
<1>3. s \in 0..Len(Kind) /\ Len(sii) + 1 \in Nat /\ Len(subs) \in Nat
  BY Constants, StateType DEF IInv
<1>4. u \in Upload /\ u.of = 0
  BY <1>1, VerdictFacts DEF Upload
<1>5. j \in Job
  BY <1>1, <1>3, NoJobType DEF Job
<1>6. /\ j.sub = 0 /\ j.track = Len(sii) + 1 /\ j.source = 0 /\ j.todo = {} /\ j.view = <<>>
  BY <1>1, NoJobType DEF Job, NoJob
<1> QED
  BY <1>2, <1>3, <1>4, <1>5, <1>6, UploadIInv DEF Place

LEMMA DecideIInv ==
  ASSUME IInv, NEW t \in 1..Len(sii), Decide(t)
  PROVE  IInv'
<1> USE DEF IInv
<1>1. PICK v \in Answers : sii' = [sii EXCEPT ![t].verdict = v]
  BY DEF Decide
<1>2. sii[t].verdict = Received /\ UNCHANGED <<declared, subs, pc, job>>
  BY DEF Decide
<1>3. PICK u : u = [sii[t] EXCEPT !.verdict = v]
  OBVIOUS
<1>4. u \in Upload /\ u.of = sii[t].of
  BY <1>3, StateType DEF Upload
<1>5. /\ sii' = [sii EXCEPT ![t] = u] /\ sii \in Seq(Upload) /\ Len(sii) \in Nat
  BY <1>1, <1>3, StateType DEF TypeInv
<1>6. /\ sii' \in Seq(Upload) /\ Len(sii') = Len(sii) /\ sii'[t] = u
      /\ \A k \in 1..Len(sii) : k # t => sii'[k] = sii[k]
  <2> HIDE DEF Upload
  <2> QED
    BY <1>4, <1>5
<1>7. \A k \in 1..Len(sii) : sii'[k].of = sii[k].of
  BY <1>4, <1>6
<1>8. TypeInv'
  BY <1>2, <1>6, <1>7 DEF TypeInv
<1>9. Grows
  BY <1>2, <1>6, <1>7, StateType DEF Grows
<1>10. UploadedApart'
  BY <1>2 DEF UploadedApart
<1>11. DraftsInv'
  <2> SUFFICES ASSUME NEW s \in SetId
               PROVE  Cardinality(Unasked(s)') + Cardinality(Emitting(s)') <= Cardinality(Worker)
    BY DEF DraftsInv, SetId
  <2>1. Unasked(s)' \subseteq Unasked(s)
    BY <1>2, <1>8, <1>9, UnaskedKept DEF SubId
  <2>2. Emitting(s)' = Emitting(s)
    BY <1>2 DEF Emitting, Building
  <2> QED
    BY <1>8, <2>1, <2>2, DraftsKept
<1>12. \A w \in Worker : pc[w] = "uploaded" => sii'[job[w].track].of = 0
  BY <1>2, <1>7, OthersKept
<1> QED
  BY <1>2, <1>8, <1>9, <1>10, <1>11, <1>12, KeptIInv DEF SubId

LEMMA CaptureIInv ==
  ASSUME IInv, NEW w \in Worker, Capture(w)
  PROVE  IInv'
<1> USE DEF IInv
<1>1. PICK n, t, r, u :
        /\ n = Len(subs) + 1 /\ t = job[w].track
        /\ r = [set |-> job[w].set, what |-> "documents", track |-> t,
                verdict |-> NoVerdict, forced |-> FALSE, source |-> 0, gone |-> FALSE]
        /\ u = [sii[t] EXCEPT !.of = n]
  OBVIOUS
<1>2. /\ pc[w] = "uploaded" /\ subs' = Append(subs, r) /\ sii' = [sii EXCEPT ![t] = u]
      /\ Finish(w) /\ UNCHANGED declared
  BY <1>1 DEF Capture
<1>3. /\ t \in 1..Len(sii) /\ sii[t].of = 0 /\ t \in Nat \ {0}
      /\ sii \in Seq(Upload) /\ Len(sii) \in Nat /\ sii[t] \in Upload
  BY <1>1, <1>2, JobType, StateType DEF JobFits, TypeInv
<1>4. r \in Row
  BY <1>1, <1>3, JobType, VerdictFacts DEF Row, What
<1>5. /\ subs' \in Seq(Row) /\ Len(subs') = n /\ SubId' = SubId \cup {n}
      /\ Len(subs) \in Nat /\ n \notin SubId /\ n \in Nat \ {0}
      /\ \A i \in SubId : subs'[i] = subs[i] /\ i # n
      /\ subs'[n] = r
  <2>1. TypeInv
    OBVIOUS
  <2>2. /\ subs' \in Seq(Row) /\ Len(subs') = Len(subs) + 1
        /\ SubId' = SubId \cup {Len(subs) + 1}
        /\ Len(subs) \in Nat /\ Len(subs) + 1 \notin SubId
        /\ \A i \in SubId : subs'[i] = subs[i]
        /\ subs'[Len(subs) + 1] = r
    BY <1>2, <1>4, <2>1, AppendedRow
  <2> QED
    BY <1>1, <2>2
<1>6. u \in Upload /\ u.of = n /\ u.verdict = sii[t].verdict
  BY <1>1, <1>3, <1>5 DEF Upload
<1>7. /\ sii' \in Seq(Upload) /\ Len(sii') = Len(sii) /\ sii'[t] = u
      /\ \A k \in 1..Len(sii) : k # t => sii'[k] = sii[k]
  <2> HIDE DEF Upload
  <2> QED
    BY <1>2, <1>3, <1>6
<1>8. /\ \A v \in Worker \ {w} : pc'[v] = pc[v] /\ job'[v] = job[v]
      /\ pc' \in [Worker -> Place] /\ job' \in [Worker -> Job]
      /\ UploadedApart' /\ JobFits(pc[w], job[w])'
      /\ \A s \in SetId : Emitting(s)' \subseteq Emitting(s)
  BY <1>2, <1>5, FinishWorks
<1>9. TypeInv'
  <2>1. \A k \in 1..Len(sii) : sii[k].of \in Nat /\ sii[k].of <= Len(subs)
    BY StateType DEF Upload
  <2>2. n = Len(subs) + 1 /\ Len(subs') = n /\ Len(subs) \in Nat /\ n \in Nat
    BY <1>1, <1>5
  <2>3. ASSUME NEW k \in 1..Len(sii) PROVE sii'[k].of <= Len(subs')
    <3>1. CASE k = t
      BY <1>6, <1>7, <2>2, <3>1
    <3>2. CASE k # t
      BY <1>7, <2>1, <2>2, <3>2
    <3> QED
      BY <3>1, <3>2
  <2> QED
    BY <1>2, <1>5, <1>7, <1>8, <2>3 DEF TypeInv
<1>10. Grows
  <2>1. Len(subs') >= Len(subs) /\ Len(sii') >= Len(sii)
    BY <1>1, <1>3, <1>5, <1>7
  <2>2. ASSUME NEW k \in 1..Len(sii)
        PROVE  /\ sii[k].of # 0 => sii'[k].of = sii[k].of
               /\ sii[k].verdict # Received => sii'[k].verdict = sii[k].verdict
    <3>1. CASE k = t
      BY <1>3, <1>6, <1>7, <3>1
    <3>2. CASE k # t
      BY <1>7, <3>2
    <3> QED
      BY <3>1, <3>2
  <2> QED
    BY <2>1, <2>2 DEF Grows
<1>11. RowFits(n)' /\ \A s \in SetId : n \notin Unasked(s)'
  <2>1. t \in UploadsOf(n)'
    BY <1>3, <1>6, <1>7 DEF UploadsOf
  <2>2. r.track = t /\ r.verdict = NoVerdict /\ r.source = 0
    BY <1>1
  <2> QED
    BY <1>5, <2>1, <2>2 DEF RowFits, Unasked
<1>12. DraftsInv'
  <2> SUFFICES ASSUME NEW s \in SetId
               PROVE  Cardinality(Unasked(s)') + Cardinality(Emitting(s)') <= Cardinality(Worker)
    BY DEF DraftsInv, SetId
  <2>1. Unasked(s)' \subseteq Unasked(s)
    BY <1>5, <1>9, <1>10, <1>11, UnaskedKept
  <2> QED
    BY <1>8, <1>9, <2>1, DraftsKept
<1>13. \A v \in Worker \ {w} : pc[v] = "uploaded" => sii'[job[v].track].of = 0
  <2> SUFFICES ASSUME NEW v \in Worker \ {w}, pc[v] = "uploaded"
               PROVE  sii'[job[v].track].of = 0
    OBVIOUS
  <2>1. job[v].track \in 1..Len(sii) /\ sii[job[v].track].of = 0
    BY JobType DEF JobFits
  <2>2. job[v].track # t
    BY <1>1, <1>2 DEF UploadedApart
  <2> QED
    BY <1>7, <2>1, <2>2
<1> QED
  BY <1>5, <1>8, <1>9, <1>10, <1>11, <1>12, <1>13, KeptIInv

LEMMA IdleIInv ==
  ASSUME IInv, UNCHANGED <<subs, sii, pc, job>>, declared' \subseteq SetId
  PROVE  IInv'
<1>1. TypeInv' /\ UploadedApart'
  BY DEF IInv, TypeInv, UploadedApart
<1>2. RowsFit'
  BY DEF IInv, RowsFit, RowFits, Told, Reported, UploadsOf, DeliveredToSii, SubId
<1>3. JobsFit'
  BY DEF IInv, JobsFit, JobFits, Building, Told, Reported, UploadsOf, DeliveredToSii, SubId
<1>4. \A s : Unasked(s)' = Unasked(s) /\ Emitting(s)' = Emitting(s)
  BY DEF Unasked, Drafts, SubsOf, Live, UploadsOf, SubId, Emitting, Building
<1>5. DraftsInv'
  BY <1>4 DEF IInv, DraftsInv
<1> QED
  BY <1>1, <1>2, <1>3, <1>5 DEF IInv

-----------------------------------------------------------------------------
(* The invariant of the specification *)

LEMMA InitIInv == Init => IInv
<1> SUFFICES ASSUME Init PROVE IInv
  OBVIOUS
<1>1. /\ declared = {} /\ subs = <<>> /\ sii = <<>>
      /\ \A w \in Worker : pc[w] = "idle" /\ job[w] = NoJob
  BY DEF Init
<1>2. Len(subs) = 0 /\ Len(sii) = 0 /\ SubId = {}
  BY <1>1 DEF SubId
<1>3. TypeInv
  <2>1. subs \in Seq(Row) /\ sii \in Seq(Upload)
    <3> HIDE DEF Row, Upload
    <3> QED
      BY <1>1
  <2>2. pc \in [Worker -> Place] /\ job \in [Worker -> Job]
    BY NoJobType DEF Init, Place
  <2> QED
    BY <1>1, <1>2, <2>1, <2>2 DEF TypeInv
<1>4. JobsFit
  <2>1. NoJob.sub = 0 /\ NoJob.source = 0 /\ NoJob.todo = {} /\ NoJob.view = <<>>
    BY DEF NoJob
  <2> QED
    BY <1>1, <1>2, <2>1 DEF JobsFit, JobFits, Building
<1>5. DraftsInv
  <2> SUFFICES ASSUME NEW s \in SetId
               PROVE  Cardinality(Unasked(s)) + Cardinality(Emitting(s)) <= Cardinality(Worker)
    BY DEF DraftsInv
  <2>1. Unasked(s) = {} /\ Emitting(s) = {}
    BY <1>1, <1>2 DEF Unasked, Drafts, SubsOf, Live, Emitting, Building
  <2> QED
    BY <2>1, FS_EmptySet, Constants
<1>6. UploadedApart
  BY <1>1 DEF UploadedApart
<1> QED
  BY <1>2, <1>3, <1>4, <1>5, <1>6 DEF IInv, RowsFit

LEMMA StepIInv == IInv /\ [Next]_vars => IInv'
<1> SUFFICES ASSUME IInv, [Next]_vars PROVE IInv'
  OBVIOUS
<1>1. CASE UNCHANGED vars
  BY <1>1, IdleIInv DEF vars, IInv, TypeInv
<1>2. ASSUME NEW w \in Worker, Requests(w)
      PROVE  IInv'
  BY <1>2, EmitDocumentsIInv, EmitBookIInv, StartsIInv, SendIInv, EmissionIInv DEF Requests
<1>3. ASSUME NEW w \in Worker, Steps(w)
      PROVE  IInv'
  <2>1. CASE Crash(w)
    BY <2>1, FinishIInv DEF Crash
  <2> QED
    BY <1>3, <2>1, BuildBookIInv, StoreIInv, FinishTrackIInv, DeleteIInv, AskIInv,
       StoreAnswerIInv, CaptureIInv DEF Steps
<1>4. ASSUME NEW s \in Manual, Declare(s)
      PROVE  IInv'
  <2>1. declared' \subseteq SetId
    BY <1>4, Constants DEF Declare, IInv, TypeInv
  <2> QED
    BY <1>4, <2>1, IdleIInv DEF Declare
<1> QED
  BY <1>1, <1>2, <1>3, <1>4, AssignIInv, DecideIInv DEF Next

THEOREM Invariance == Spec => []IInv
BY InitIInv, StepIInv, PTL DEF Spec

(* Rows refer to rows, sets and TrackIDs that exist. *)
THEOREM TypeCorrect == Spec => []TypeOK
<1>1. IInv => TypeOK
  <2> SUFFICES ASSUME IInv PROVE TypeOK
    OBVIOUS
  <2>1. ASSUME NEW i \in SubId
        PROVE  /\ subs[i].set \in 0..Len(Kind)
               /\ subs[i].track \in 0..Len(sii)
               /\ subs[i].verdict \in Verdicts
               /\ subs[i].source \in 0..(i - 1)
    <3>1. subs[i].source < i
      BY DEF IInv, RowsFit, RowFits
    <3>2. Len(sii) \in Nat
      BY StateType DEF IInv
    <3> QED
      BY <3>1, <3>2, RowType
  <2>2. ASSUME NEW t \in 1..Len(sii)
        PROVE  sii[t].of \in 0..Len(subs) /\ sii[t].verdict \in Verdicts
    BY StateType DEF IInv, Upload, Verdicts
  <2>3. ASSUME NEW w \in Worker
        PROVE  job[w].set \in 0..Len(Kind) /\ job[w].sub \in 0..Len(subs)
    BY JobType, StateType DEF IInv, JobFits
  <2> QED
    BY <2>1, <2>2, <2>3 DEF TypeOK, IInv, TypeInv
<1> QED
  BY <1>1, Invariance, PTL

(* TrackIDs and verdicts stay with their envelope: send_draft stores under *)
(* the id it sent, capture under the row it makes, and refresh the answer  *)
(* to the TrackID the row had, which never is another envelope's.          *)
THEOREM TracksStayOwn == Spec => []TracksAreOwn
<1>1. IInv => TracksAreOwn
  <2> SUFFICES ASSUME IInv, NEW i \in Live
               PROVE  /\ subs[i].track # 0 => sii[subs[i].track].of = i
                      /\ subs[i].verdict # NoVerdict =>
                           \E t \in UploadsOf(i) : subs[i].verdict \in {Received, sii[t].verdict}
    BY DEF TracksAreOwn
  <2>1. i \in SubId
    BY DEF Live
  <2> QED
    BY <2>1, RowType DEF IInv, RowsFit, RowFits, Told
<1> QED
  BY <1>1, Invariance, PTL

(* Without force no more envelopes wait unsent than requests run at once:  *)
(* the guard of emit finds none when it is passed, so each comes from a    *)
(* request that was running beside the others.                             *)
THEOREM DraftsStayBounded == Spec => []DraftsBounded
<1>1. IInv => DraftsBounded
  <2> SUFFICES ASSUME IInv, NEW s \in SetId
               PROVE  Cardinality(Unasked(s)) <= Cardinality(Worker)
    BY DEF DraftsBounded, Unasked
  <2>1. /\ Cardinality(Unasked(s)) \in Nat /\ Cardinality(Emitting(s)) \in Nat
        /\ Cardinality(Unasked(s)) + Cardinality(Emitting(s)) <= Cardinality(Worker)
    BY SetsAreFinite DEF IInv, DraftsInv
  <2> QED
    BY <2>1, Constants
<1> QED
  BY <1>1, Invariance, PTL

(* Books, folio reports and samples are about what the SII has: their      *)
(* source was found accepted, or with a TrackID, and neither can be undone *)
(* while the request that found it goes on.                                *)
THEOREM ReportsAreTrue == Spec => []ReportsWhatSiiHas
<1>1. IInv => ReportsWhatSiiHas
  <2> SUFFICES ASSUME IInv PROVE ReportsWhatSiiHas
    OBVIOUS
  <2>1. ASSUME NEW i \in SubId, subs[i].source # 0
        PROVE  IF subs[i].what = "rcof" THEN UploadsOf(subs[i].source) # {}
                                        ELSE DeliveredToSii(subs[i].source)
    BY <2>1 DEF IInv, RowsFit, RowFits, Reported
  <2>2. ASSUME NEW s \in 0..Len(Kind), NEW i \in PrintableOf(s)
        PROVE  UploadsOf(i) # {}
    <3> DEFINE sent == {k \in SubsOf(s) : subs[k].track # 0}
               processed == {k \in sent : subs[k].verdict.state \in Aceptados}
               chosen == IF processed = {} THEN sent ELSE processed
    <3>1. sent # {} /\ i = Max(chosen)
      BY <2>2 DEF PrintableOf
    <3>2. chosen # {} /\ chosen \subseteq sent
      BY <3>1
    <3>3. sent \subseteq 0..Len(subs) /\ sent \subseteq SubId /\ Len(subs) \in Nat
      BY StateType DEF IInv, SubsOf, Live
    <3>4. i \in chosen
      <4> HIDE DEF sent, chosen
      <4> QED
        BY <3>1, <3>2, <3>3, MaxIsMember
    <3>5. i \in SubId /\ subs[i].track # 0
      BY <3>2, <3>3, <3>4
    <3> QED
      BY <3>5, RowType
  <2>3. \A i \in Printable : UploadsOf(i) # {}
    BY <2>2 DEF Printable
  <2> QED
    BY <2>1, <2>3 DEF ReportsWhatSiiHas
<1> QED
  BY <1>1, Invariance, PTL

(* The light of a set is what the SII said of its last envelope. *)
LEMMA ShownVerdict ==
  ASSUME IInv, NEW k \in Range(Kind), SubsOf(Shown(k)) # {},
         NEW last, last = Max(SubsOf(Shown(k)))
  PROVE  /\ last \in SubId
         /\ StateOfKind(k) = "aceptado" => EstadoColour(last) = "ok"
         /\ StateOfKind(k) = "con_reparos" => EstadoColour(last) = "atencion"
<1>1. PICK s : s = Shown(k)
  OBVIOUS
<1>2. /\ SubsOf(s) # {} /\ last = Max(SubsOf(s))
      /\ SubsOf(s) \subseteq 0..Len(subs) /\ SubsOf(s) \subseteq SubId /\ Len(subs) \in Nat
  BY <1>1, StateType DEF IInv, SubsOf, Live
<1>3. last \in SubId
  BY <1>2, MaxIsMember
<1>4. StateOfKind(k) \in {SetState(s), "sin_dar_de_alta"}
  BY <1>1 DEF StateOfKind
<1>5. Stages(s).estado = EstadoColour(last)
  BY <1>2 DEF Stages
<1>6. /\ SetState(s) = "aceptado" => Stages(s).estado = "ok"
      /\ SetState(s) = "con_reparos" => Stages(s).estado = "atencion"
  BY DEF SetState
<1> QED
  BY <1>3, <1>4, <1>5, <1>6

LEMMA AcceptedIsGreen ==
  ASSUME NEW s \in SetId, Kind[s] \in Declarable,
         StateOfKind(Kind[s]) \in {"aceptado", "declarado"}
  PROVE  SetsStep # "pendiente"
<1> DEFINE begun == {k \in Declarable : StateOfKind(k) \in {"aceptado", "con_reparos", "declarado"}}
<1>1. IsFiniteSet(Declarable)
  <2>1. ASSUME NEW a, NEW b, NEW c, NEW d
        PROVE  IsFiniteSet({a, b, c, d})
    <3>1. IsFiniteSet({a}) /\ IsFiniteSet({b}) /\ IsFiniteSet({c}) /\ IsFiniteSet({d})
      BY FS_Singleton
    <3>2. IsFiniteSet({a} \cup {b}) /\ IsFiniteSet({c} \cup {d})
      BY <3>1, FS_Union
    <3>3. IsFiniteSet(({a} \cup {b}) \cup ({c} \cup {d}))
      BY <3>2, FS_Union
    <3>4. {a, b, c, d} = ({a} \cup {b}) \cup ({c} \cup {d})
      OBVIOUS
    <3> QED
      BY <3>3, <3>4
  <2> DEFINE first == {"basico", "exenta", "guias", "exportacion_1"}
             second == {"exportacion_2", "liquidacion", "factura_compra", "libro_guias"}
             third == {"libro_compras", "libro_ventas", "boletas", "simulacion"}
  <2>2. Catalog = (first \cup second) \cup third
    BY DEF Catalog
  <2>3. IsFiniteSet(first) /\ IsFiniteSet(second) /\ IsFiniteSet(third)
    BY <2>1
  <2> HIDE DEF first, second, third
  <2>4. IsFiniteSet(first \cup second)
    BY <2>3, FS_Union
  <2>5. IsFiniteSet(Catalog)
    BY <2>2, <2>3, <2>4, FS_Union
  <2> QED
    BY <2>5, FS_Subset DEF Declarable
<1>2. IsFiniteSet(begun) /\ Kind[s] \in begun
  BY <1>1, FS_Subset
<1>3. Cardinality(begun) \in Nat /\ Cardinality(begun) # 0
  <2> HIDE DEF begun
  <2> QED
    BY <1>2, FS_CardinalityType, FS_EmptySet
<1>4. SetsAccepted = Cardinality(begun)
  BY DEF SetsAccepted, Progress
<1> QED
  BY <1>3, <1>4 DEF SetsStep

(* A green light is the verdict of an upload of the last envelope, stored  *)
(* perhaps late but never undone by the SII: accepted with no document     *)
(* rejected; and a light with objections is no verdict of refusal.         *)
THEOREM GreenStaysDelivered == Spec => []GreenIsDelivered
<1>1. IInv => GreenIsDelivered
  <2> SUFFICES ASSUME IInv PROVE GreenIsDelivered
    OBVIOUS
  <2>1. ASSUME NEW k \in Range(Kind), SubsOf(Shown(k)) # {},
               NEW last, last = Max(SubsOf(Shown(k)))
        PROVE  /\ StateOfKind(k) = "aceptado" =>
                    \E t \in UploadsOf(last) :
                       Entregado(sii[t].verdict) /\ sii[t].verdict.rejected = 0
               /\ StateOfKind(k) = "con_reparos" =>
                    \E t \in UploadsOf(last) :
                       \/ subs[last].verdict.state \notin Aceptados \cup Rechazos
                       \/ Entregado(sii[t].verdict)
    <3>1. last \in SubId
      BY <2>1, ShownVerdict
    <3>2. PICK v : v = subs[last].verdict
      OBVIOUS
    <3>3. v \in Verdicts /\ v.rejected \in Nat /\ v.flagged \in Nat
      BY <3>1, <3>2, RowType, VerdictFacts
    <3>4. v # NoVerdict => Told(last, v)
      BY <3>1, <3>2 DEF IInv, RowsFit, RowFits
    <3>5. ASSUME Entregado(v)
          PROVE  \E t \in UploadsOf(last) : sii[t].verdict = v
      <4>1. v # NoVerdict /\ v # Received
        BY <3>5, VerdictFacts
      <4> QED
        BY <3>4, <4>1 DEF Told
    <3>6. ASSUME StateOfKind(k) = "aceptado"
          PROVE  \E t \in UploadsOf(last) :
                    Entregado(sii[t].verdict) /\ sii[t].verdict.rejected = 0
      <4>1. EstadoColour(last) = "ok"
        BY <2>1, <3>6, ShownVerdict
      <4>2. Entregado(v) /\ ~(v.rejected + v.flagged > 0)
        BY <3>2, <4>1 DEF EstadoColour
      <4>3. v.rejected = 0
        BY <3>3, <4>2
      <4> QED
        BY <3>5, <4>2, <4>3
    <3>7. ASSUME StateOfKind(k) = "con_reparos"
          PROVE  \E t \in UploadsOf(last) :
                    \/ subs[last].verdict.state \notin Aceptados \cup Rechazos
                    \/ Entregado(sii[t].verdict)
      <4>1. EstadoColour(last) = "atencion"
        BY <2>1, <3>7, ShownVerdict
      <4>2. subs[last].track # 0 /\ (Entregado(v) \/ v.state \notin Aceptados \cup Rechazos)
        BY <3>2, <4>1 DEF EstadoColour
      <4>3. CASE Entregado(v)
        BY <3>5, <4>3
      <4>4. CASE v.state \notin Aceptados \cup Rechazos
        BY <3>1, <3>2, <4>2, <4>4, RowType
      <4> QED
        BY <4>2, <4>3, <4>4
    <3> QED
      BY <3>6, <3>7
  <2> QED
    BY <2>1, AcceptedIsGreen DEF GreenIsDelivered
<1> QED
  BY <1>1, Invariance, PTL
=============================================================================
