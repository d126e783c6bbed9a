----------------------------- MODULE LotsProofs ------------------------------
(***************************************************************************)
(* The safety properties of Lots for any lots, reservations and folios,    *)
(* and its refinement of FolioDispenser for every document type.           *)
(*                                                                         *)
(* The argument: a folio lies behind the pointer of its type from the      *)
(* moment it is given (Behind), so nothing but a request for a receipt     *)
(* that names it can come to share it (OwnAlone). What a lot has recorded  *)
(* is no longer assigned, which is what caf_for_reserved asks for, and is  *)
(* the outcome of the lot unless another one has the folio (Recorded).     *)
(* A lot of receipts reaches the loop that records "issued" only through   *)
(* Store (IssuedAreStored), and ends in a conflict only when some folio of *)
(* it was named twice (ConflictIsContested).                               *)
(***************************************************************************)
EXTENDS Lots, FiniteSetTheorems, TLAPS

Fates == {"issued", "failed", "unknown"}
BeforeStore == {"idle", "numbering", "numbered", "posting", "sent", "conflict"}

TypeInv ==
  /\ TypeOK
  /\ taken \in [Lot -> Seq(Folio)]
  /\ marked \in [Lot -> Nat]
  /\ stored \subseteq [type : Type, folio : Folio, lot : Receipts, tracked : BOOLEAN]

ProgressOf(l) ==
  /\ pc[l] = "idle" => taken[l] = <<>>
  /\ pc[l] = "numbering" => Len(taken[l]) < Len(Docs[l])
  /\ pc[l] \in {"numbered", "posting", "sent", "conflict"} => Len(taken[l]) = Len(Docs[l])
  /\ pc[l] \in BeforeStore => marked[l] = 0
  /\ pc[l] = "recording" \/ marked[l] > 0 => outcome[l] \in Fates
  /\ pc[l] \in {"ok", "rejected", "error"} => marked[l] = Len(taken[l])
  /\ pc[l] = "sent" => l \in Receipts /\ outcome[l] = "issued"
Progress == \A l \in Lot : ProgressOf(l)

(* The folios of the positions that name one. *)
NamedAreReserved ==
  \A l \in Lot :
    /\ pc[l] = "numbering" => \A i \in DOMAIN Docs[l] :
         Docs[l][i].named # NoReservation => reservation[Docs[l][i].named] # 0
    /\ \A i \in DOMAIN taken[l] :
         Docs[l][i].named # NoReservation => taken[l][i] = reservation[Docs[l][i].named]

Behind ==
  /\ \A l \in Lot : \A i \in DOMAIN taken[l] : taken[l][i] <= last[Docs[l][i].type]
  /\ \A r \in Reservation : reservation[r] <= last[TypeOf[r]]

(* What a position without a named folio took, nobody else has. *)
OwnAlone ==
  \A l \in Lot : \A i \in OwnFolios(l) :
    /\ \A m \in Lot : \A j \in DOMAIN taken[m] :
         Docs[m][j].type = Docs[l][i].type /\ taken[m][j] = taken[l][i] => m = l /\ j = i
    /\ \A r \in Reservation :
         TypeOf[r] = Docs[l][i].type => reservation[r] # taken[l][i]

StatusOf(l, i) == status[Docs[l][i].type][taken[l][i]]

Recorded ==
  \A l \in Lot : \A i \in 1..marked[l] :
    /\ StatusOf(l, i) # "assigned"
    /\ (\A m \in Lot \ {l} : <<Docs[l][i].type, taken[l][i]>> \notin Held(m))
         => StatusOf(l, i) = outcome[l]

StoredAreHeld ==
  \A row \in stored :
    /\ pc[row.lot] \notin BeforeStore
    /\ \E i \in DOMAIN taken[row.lot] :
         row.type = Docs[row.lot][i].type /\ row.folio = taken[row.lot][i]

IsStored(t, f) == \E row \in stored : row.type = t /\ row.folio = f

IssuedAreStored ==
  \A l \in Receipts : pc[l] = "recording" /\ outcome[l] = "issued" =>
    \A i \in DOMAIN taken[l] : IsStored(Docs[l][i].type, taken[l][i])

ConflictIsContested == \A l \in Lot : pc[l] = "conflict" => ~Uncontested(l)

SubmissionsAreStored == \A l \in submission : pc[l] \notin BeforeStore

IInv ==
  /\ TypeInv
  /\ Progress
  /\ NamedAreReserved
  /\ Behind
  /\ OwnAlone
  /\ Recorded
  /\ StoredAreHeld
  /\ IssuedAreStored
  /\ IssuedReceiptIsStored
  /\ ConflictIsContested
  /\ SubmissionsAreStored
  /\ SubmissionCounts

-----------------------------------------------------------------------------
(* Documents and counting *)

LEMMA DocType ==
  ASSUME NEW l \in Lot
  PROVE  /\ Len(Docs[l]) \in Nat \ {0} /\ DOMAIN Docs[l] = 1..Len(Docs[l])
         /\ \A i \in DOMAIN Docs[l] :
              /\ Docs[l][i].type \in Type
              /\ Docs[l][i].named # NoReservation =>
                   /\ l \in Receipts
                   /\ Docs[l][i].named \in Reservation
                   /\ TypeOf[Docs[l][i].named] = Docs[l][i].type
<1>1. ASSUME NEW i \in DOMAIN Docs[l] PROVE Docs[l][i].type \in Type
  <2>1. <<l, i>> \in Slot
    BY DEF Slot
  <2> QED
    BY <2>1 DEF Type
<1>2. Len(Docs[l]) \in Nat \ {0} /\ DOMAIN Docs[l] = 1..Len(Docs[l])
  BY LotsAssumption, Zenon
<1>3. ASSUME NEW i \in DOMAIN Docs[l]
      PROVE  Docs[l][i].named # NoReservation =>
               /\ l \in Receipts
               /\ Docs[l][i].named \in Reservation
               /\ TypeOf[Docs[l][i].named] = Docs[l][i].type
  BY LotsAssumption, Zenon
<1> QED
  BY <1>1, <1>2, <1>3

LEMMA ReservationType ==
  ASSUME NEW r \in Reservation
  PROVE  TypeOf[r] \in Type
BY DEF Type

LEMMA TakenType ==
  ASSUME TypeInv, NEW l \in Lot
  PROVE  /\ taken[l] \in Seq(Folio) /\ Len(taken[l]) \in Nat
         /\ Len(taken[l]) <= Len(Docs[l])
         /\ DOMAIN taken[l] = 1..Len(taken[l])
         /\ \A i \in DOMAIN taken[l] : /\ taken[l][i] \in Folio /\ taken[l][i] \in Nat \ {0}
                                       /\ i \in DOMAIN Docs[l] /\ Docs[l][i].type \in Type
         /\ marked[l] \in Nat /\ marked[l] <= Len(taken[l])
         /\ 1..marked[l] \subseteq DOMAIN taken[l]
<1>1. taken[l] \in Seq(Folio)
  BY DEF TypeInv
<1>2. Len(taken[l]) \in Nat /\ DOMAIN taken[l] = 1..Len(taken[l])
  BY <1>1
<1>3. Len(taken[l]) <= Len(Docs[l]) /\ marked[l] \in 0..Len(taken[l])
  BY DEF TypeInv, TypeOK
<1>4. ASSUME NEW i \in DOMAIN taken[l]
      PROVE  /\ taken[l][i] \in Folio /\ taken[l][i] \in Nat \ {0}
             /\ i \in DOMAIN Docs[l] /\ Docs[l][i].type \in Type
  <2>1. taken[l][i] \in Folio
    BY <1>1
  <2>2. i \in DOMAIN Docs[l]
    BY <1>2, <1>3, DocType
  <2> QED
    BY <2>1, <2>2, DocType, LotsAssumption DEF Folio
<1> QED
  BY <1>1, <1>2, <1>3, <1>4

LEMMA StoredType ==
  ASSUME TypeInv, NEW row \in stored
  PROVE  /\ row.type \in Type /\ row.folio \in Folio
         /\ row.lot \in Receipts /\ row.lot \in Lot /\ row.tracked \in BOOLEAN
         /\ row = [type |-> row.type, folio |-> row.folio, lot |-> row.lot,
                   tracked |-> row.tracked]
BY LotsAssumption DEF TypeInv

(* The n images of a function are n only if they are different.            *)
LEMMA ImageCount ==
  ASSUME NEW n \in Nat, NEW g, DOMAIN g = 1..n, g = [i \in 1..n |-> g[i]],
         NEW T, T = {g[i] : i \in 1..n}
  PROVE  /\ IsFiniteSet(T) /\ Cardinality(T) \in Nat
         /\ Cardinality(T) <= n
         /\ Cardinality(T) = n <=> \A i, j \in 1..n : g[i] = g[j] => i = j
<1>1. IsFiniteSet(1..n) /\ Cardinality(1..n) = n
  BY FS_Interval
<1>2. g \in [1..n -> T] /\ \A y \in T : \E i \in 1..n : g[i] = y
  BY Zenon
<1>3. g \in Surjection(1..n, T)
  BY <1>2 DEF Surjection
<1>4. /\ IsFiniteSet(T)
      /\ Cardinality(T) <= Cardinality(1..n)
      /\ Cardinality(T) = Cardinality(1..n) <=> g \in Injection(1..n, T)
  BY <1>1, <1>3, FS_Surjection, Zenon
<1>5. g \in Injection(1..n, T) <=> \A i, j \in 1..n : g[i] = g[j] => i = j
  BY <1>2 DEF Injection, IsInjective
<1> QED
  BY <1>1, <1>4, <1>5, FS_CardinalityType

LEMMA HeldCount ==
  ASSUME TypeInv, NEW l \in Lot
  PROVE  /\ Cardinality(Held(l)) \in Nat
         /\ Cardinality(Held(l)) <= Len(taken[l])
         /\ Cardinality(Held(l)) = Len(taken[l]) <=>
              \A i, j \in DOMAIN taken[l] :
                Docs[l][i].type = Docs[l][j].type /\ taken[l][i] = taken[l][j] => i = j
<1> DEFINE n == Len(taken[l])
           g == [i \in 1..n |-> <<Docs[l][i].type, taken[l][i]>>]
<1>1. n \in Nat /\ DOMAIN taken[l] = 1..n
  BY TakenType
<1>2. Held(l) = {g[i] : i \in 1..n}
  BY <1>1 DEF Held
<1>3. \A i, j \in 1..n :
        g[i] = g[j] <=> Docs[l][i].type = Docs[l][j].type /\ taken[l][i] = taken[l][j]
  OBVIOUS
<1>4. g = [i \in 1..n |-> g[i]] /\ DOMAIN g = 1..n
  OBVIOUS
<1> HIDE DEF n, g
<1>5. /\ Cardinality(Held(l)) \in Nat
      /\ Cardinality(Held(l)) <= n
      /\ Cardinality(Held(l)) = n <=> \A i, j \in 1..n : g[i] = g[j] => i = j
  BY <1>1, <1>2, <1>4, ImageCount
<1> QED
  BY <1>1, <1>3, <1>5 DEF n

LEMMA RowsCount ==
  ASSUME TypeInv, NEW l \in Lot
  PROVE  /\ Cardinality(Rows(l)) \in Nat
         /\ Cardinality(Rows(l)) <= Len(taken[l])
         /\ Cardinality(Rows(l)) = Len(taken[l]) <=>
              Cardinality(Held(l)) = Len(taken[l])
<1> DEFINE n == Len(taken[l])
           g == [i \in 1..n |-> [type |-> Docs[l][i].type, folio |-> taken[l][i],
                                 lot |-> l, tracked |-> received[l]]]
<1>1. n \in Nat /\ DOMAIN taken[l] = 1..n
  BY TakenType
<1>2. Rows(l) = {g[i] : i \in 1..n}
  BY <1>1 DEF Rows
<1>3. \A i, j \in 1..n :
        g[i] = g[j] <=> Docs[l][i].type = Docs[l][j].type /\ taken[l][i] = taken[l][j]
  OBVIOUS
<1>4. g = [i \in 1..n |-> g[i]] /\ DOMAIN g = 1..n
  OBVIOUS
<1> HIDE DEF n, g
<1>5. /\ Cardinality(Rows(l)) \in Nat
      /\ Cardinality(Rows(l)) <= n
      /\ Cardinality(Rows(l)) = n <=> \A i, j \in 1..n : g[i] = g[j] => i = j
  BY <1>1, <1>2, <1>4, ImageCount
<1> QED
  BY <1>1, <1>3, <1>5, HeldCount DEF n

-----------------------------------------------------------------------------
(* Steps that take no folio and record nothing *)

LEMMA MoveIInv ==
  ASSUME IInv, NEW l \in Lot,
         UNCHANGED <<last, status, reservation, taken, marked, stored, submission>>,
         \A m \in Lot \ {l} : pc'[m] = pc[m] /\ outcome'[m] = outcome[m],
         pc' \in [Lot -> {"idle"} \cup InService \cup Ended],
         outcome' \in [Lot -> {"assigned", "issued", "failed", "unknown"}],
         answer' \in [Lot -> {"ok", "rejected", "error"}],
         received' \in [Lot -> BOOLEAN],
         outcome'[l] = outcome[l] \/ marked[l] = 0,
         ProgressOf(l)',
         pc'[l] = "numbering" => \A i \in DOMAIN Docs[l] :
           Docs[l][i].named # NoReservation => reservation[Docs[l][i].named] # 0,
         pc'[l] \in BeforeStore => pc[l] \in BeforeStore,
         pc'[l] # "conflict",
         l \in Receipts /\ pc'[l] = "recording" => outcome'[l] # "issued"
  PROVE  IInv'
<1> USE DEF IInv
<1>1. TypeInv'
  BY DEF TypeInv, TypeOK
<1>2. Progress'
  BY DEF Progress, ProgressOf
<1>3. \A m \in Lot : Held(m)' = Held(m) /\ OwnFolios(m)' = OwnFolios(m)
  BY DEF Held, OwnFolios
<1>4. NamedAreReserved'
  BY DEF NamedAreReserved
<1>5. Behind' /\ OwnAlone'
  BY <1>3 DEF Behind, OwnAlone
<1>6. Recorded'
  <2> SUFFICES ASSUME NEW m \in Lot, NEW i \in 1..marked[m]
               PROVE  /\ StatusOf(m, i) # "assigned"
                      /\ (\A o \in Lot \ {m} : <<Docs[m][i].type, taken[m][i]>> \notin Held(o))
                           => StatusOf(m, i) = outcome'[m]
    BY <1>3 DEF Recorded, StatusOf
  <2>1. outcome'[m] = outcome[m]
    BY TakenType
  <2> QED
    BY <2>1 DEF Recorded
<1>7. StoredAreHeld' /\ SubmissionsAreStored'
  <2>1. \A m \in Lot : pc[m] \notin BeforeStore => pc'[m] \notin BeforeStore
    OBVIOUS
  <2>2. submission \subseteq Lot
    BY LotsAssumption DEF TypeInv, TypeOK
  <2> QED
    BY <2>1, <2>2, StoredType DEF StoredAreHeld, SubmissionsAreStored
<1>8. IssuedAreStored'
  BY LotsAssumption DEF IssuedAreStored, IsStored
<1>9. IssuedReceiptIsStored' /\ SubmissionCounts'
  BY <1>3, LotsAssumption DEF IssuedReceiptIsStored, SubmissionCounts
<1>10. ConflictIsContested'
  BY <1>3 DEF ConflictIsContested, Uncontested
<1> QED
  BY <1>1, <1>2, <1>4, <1>5, <1>6, <1>7, <1>8, <1>9, <1>10

LEMMA MovesIInv ==
  ASSUME IInv, NEW l \in Lot,
         \/ StartLot(l) \/ NumberingFails(l) \/ Build(l) \/ BuildFails(l)
         \/ UploadAnswered(l) \/ UploadFails(l) \/ Reply(l) \/ Crash(l)
  PROVE  IInv'
<1> USE DEF IInv
<1>1. /\ pc \in [Lot -> {"idle"} \cup InService \cup Ended]
      /\ outcome \in [Lot -> {"assigned", "issued", "failed", "unknown"}]
      /\ answer \in [Lot -> {"ok", "rejected", "error"}]
      /\ received \in [Lot -> BOOLEAN]
  BY DEF TypeInv, TypeOK
<1>2. ProgressOf(l)
  BY DEF Progress
<1>3. Len(taken[l]) \in Nat /\ marked[l] \in Nat /\ marked[l] <= Len(taken[l])
  BY TakenType
<1> USE DEF Goto, Resolve, folioVars, storeVars, resultVars
<1>4. CASE StartLot(l)
  <2>1. /\ UNCHANGED <<last, status, reservation, taken, marked, stored, submission,
                       outcome, answer, received>>
        /\ pc[l] = "idle" /\ pc'[l] \in {"numbering", "rejected"}
        /\ pc' = [pc EXCEPT ![l] = pc'[l]]
        /\ \A i \in DOMAIN Docs[l] :
             Docs[l][i].named # NoReservation => reservation[Docs[l][i].named] # 0
    BY <1>1, <1>4 DEF StartLot
  <2>2. taken[l] = <<>> /\ Len(taken[l]) = 0 /\ marked[l] = 0
    BY <1>2, <2>1 DEF ProgressOf, BeforeStore
  <2>3. ProgressOf(l)'
    BY <2>1, <2>2, DocType DEF ProgressOf, BeforeStore
  <2> QED
    BY <1>1, <2>1, <2>3, MoveIInv DEF BeforeStore, InService, Ended
<1>5. CASE Reply(l) \/ Crash(l)
  <2>1. /\ UNCHANGED <<last, status, reservation, taken, marked, stored, submission,
                       outcome, answer, received>>
        /\ pc' = [pc EXCEPT ![l] = pc'[l]]
        /\ \/ pc[l] = "recording" /\ marked[l] = Len(taken[l])
              /\ pc'[l] \in {"ok", "rejected", "error"}
           \/ pc[l] \in InService /\ pc'[l] = "crashed"
    BY <1>1, <1>5 DEF Reply, Crash
  <2>2. ProgressOf(l)'
    BY <1>2, <2>1 DEF ProgressOf, BeforeStore
  <2> QED
    BY <1>1, <2>1, <2>2, MoveIInv DEF BeforeStore, InService, Ended
<1>6. CASE \/ NumberingFails(l) \/ Build(l) \/ BuildFails(l)
           \/ UploadAnswered(l) \/ UploadFails(l)
  <2>1. /\ UNCHANGED <<last, status, reservation, taken, marked, stored, submission>>
        /\ pc' = [pc EXCEPT ![l] = pc'[l]]
        /\ outcome' = [outcome EXCEPT ![l] = outcome'[l]]
        /\ answer' = [answer EXCEPT ![l] = answer'[l]]
        /\ received' = [received EXCEPT ![l] = received'[l]]
        /\ outcome'[l] \in {"assigned", "issued", "failed", "unknown"}
        /\ answer'[l] \in {"ok", "rejected", "error"} /\ received'[l] \in BOOLEAN
    BY <1>1, <1>6 DEF NumberingFails, Build, BuildFails, UploadAnswered, UploadFails
  <2>2. /\ pc[l] \in {"numbering", "numbered", "posting"}
        /\ pc'[l] \in {"recording", "posting", "sent"}
        /\ pc'[l] = "recording" =>
             \/ outcome'[l] \in {"failed", "unknown"}
             \/ outcome'[l] = "issued" /\ l \notin Receipts
        /\ pc'[l] = "sent" => outcome'[l] = "issued" /\ l \in Receipts
        /\ pc'[l] \in {"posting", "sent"} => pc[l] # "numbering"
    <3>1. CASE NumberingFails(l) \/ BuildFails(l) \/ UploadFails(l)
      <4>1. /\ pc[l] \in {"numbering", "numbered", "posting"} /\ pc'[l] = "recording"
            /\ outcome'[l] \in {"failed", "unknown"}
        BY <1>1, <3>1 DEF NumberingFails, BuildFails, UploadFails
      <4> QED
        BY <4>1
    <3>2. CASE Build(l)
      BY <1>1, <3>2 DEF Build
    <3>3. CASE UploadAnswered(l)
      BY <1>1, <3>3 DEF UploadAnswered
    <3> QED
      BY <1>6, <3>1, <3>2, <3>3
  <2>3. marked[l] = 0
    BY <1>2, <2>2 DEF ProgressOf, BeforeStore
  <2>4. ProgressOf(l)'
    BY <1>2, <2>1, <2>2, <2>3 DEF ProgressOf, BeforeStore, Fates
  <2> HIDE DEF Goto, Resolve
  <2>5. /\ pc' \in [Lot -> {"idle"} \cup InService \cup Ended]
        /\ outcome' \in [Lot -> {"assigned", "issued", "failed", "unknown"}]
        /\ answer' \in [Lot -> {"ok", "rejected", "error"}]
        /\ received' \in [Lot -> BOOLEAN]
        /\ \A m \in Lot \ {l} : pc'[m] = pc[m] /\ outcome'[m] = outcome[m]
    BY <1>1, <2>1, <2>2 DEF InService
  <2> QED
    BY <2>1, <2>2, <2>3, <2>4, <2>5, MoveIInv DEF BeforeStore
<1> QED
  BY <1>4, <1>5, <1>6

-----------------------------------------------------------------------------
(* Folios are taken *)

(* A folio the dispenser gives lies ahead of all that were ever given, so  *)
(* its new row disturbs nothing that was recorded.                         *)
LEMMA GiveFresh ==
  ASSUME IInv, NEW t \in Type, NEW f \in Folio, Give(t, f)
  PROVE  /\ last[t] \in Nat /\ f > last[t]
         /\ last' = [last EXCEPT ![t] = f]
         /\ last' \in [Type -> 0..MaxFolio]
         /\ status' \in [Type -> [Folio -> {"free", "assigned", "issued", "failed", "unknown"}]]
         /\ status'[t][f] = "assigned"
         /\ \A l \in Lot : \A i \in DOMAIN taken[l] :
              /\ <<Docs[l][i].type, taken[l][i]>> # <<t, f>>
              /\ taken[l][i] <= last'[Docs[l][i].type]
              /\ status'[Docs[l][i].type][taken[l][i]] = StatusOf(l, i)
         /\ \A r \in Reservation : /\ TypeOf[r] = t => reservation[r] # f
                                   /\ reservation[r] <= last'[TypeOf[r]]
<1> USE DEF IInv
<1>1. /\ last \in [Type -> 0..MaxFolio] /\ MaxFolio \in Nat /\ f \in 1..MaxFolio
      /\ status \in [Type -> [Folio -> {"free", "assigned", "issued", "failed", "unknown"}]]
      /\ reservation \in [Reservation -> 0..MaxFolio]
  BY LotsAssumption DEF TypeInv, TypeOK, Folio
<1>2. /\ f > last[t] /\ last' = [last EXCEPT ![t] = f]
      /\ status' = [status EXCEPT ![t][f] = "assigned"]
  BY DEF Give, Mark
<1>3. /\ last' \in [Type -> 0..MaxFolio]
      /\ status' \in [Type -> [Folio -> {"free", "assigned", "issued", "failed", "unknown"}]]
      /\ status'[t][f] = "assigned"
  BY <1>1, <1>2
<1>4. ASSUME NEW l \in Lot, NEW i \in DOMAIN taken[l]
      PROVE  /\ <<Docs[l][i].type, taken[l][i]>> # <<t, f>>
             /\ taken[l][i] <= last'[Docs[l][i].type]
             /\ status'[Docs[l][i].type][taken[l][i]] = StatusOf(l, i)
  <2>1. /\ taken[l][i] <= last[Docs[l][i].type]
        /\ taken[l][i] \in Folio /\ taken[l][i] \in Nat /\ Docs[l][i].type \in Type
    BY TakenType DEF Behind
  <2>2. <<Docs[l][i].type, taken[l][i]>> # <<t, f>>
    BY <1>1, <1>2, <2>1
  <2> QED
    BY <1>1, <1>2, <2>1, <2>2 DEF StatusOf
<1>5. ASSUME NEW r \in Reservation
      PROVE  /\ TypeOf[r] = t => reservation[r] # f
             /\ reservation[r] <= last'[TypeOf[r]]
  BY <1>1, <1>2, ReservationType DEF Behind
<1> QED
  BY <1>1, <1>2, <1>3, <1>4, <1>5

LEMMA ReserveIInv ==
  ASSUME IInv, NEW r \in Reservation, Reserve(r)
  PROVE  IInv'
<1> USE DEF IInv
<1>1. PICK f \in Folio : Give(TypeOf[r], f) /\ reservation' = [reservation EXCEPT ![r] = f]
  BY DEF Reserve
<1>2. /\ reservation[r] = 0
      /\ UNCHANGED <<pc, taken, outcome, marked, answer, received, stored, submission>>
  BY DEF Reserve, resultVars, storeVars
<1> DEFINE t == TypeOf[r]
<1>3. t \in Type /\ f \in 1..MaxFolio /\ MaxFolio \in Nat
  BY ReservationType, LotsAssumption DEF Folio
<1>4. /\ last' \in [Type -> 0..MaxFolio] /\ last' = [last EXCEPT ![t] = f]
      /\ status' \in [Type -> [Folio -> {"free", "assigned", "issued", "failed", "unknown"}]]
      /\ status'[t][f] = "assigned"
      /\ \A l \in Lot : \A i \in DOMAIN taken[l] :
           /\ <<Docs[l][i].type, taken[l][i]>> # <<t, f>>
           /\ taken[l][i] <= last'[Docs[l][i].type]
           /\ status'[Docs[l][i].type][taken[l][i]] = StatusOf(l, i)
      /\ \A q \in Reservation : reservation[q] <= last'[TypeOf[q]]
  BY <1>1, <1>3, GiveFresh
<1> HIDE DEF t
<1>5. /\ reservation \in [Reservation -> 0..MaxFolio]
      /\ reservation' \in [Reservation -> 0..MaxFolio]
      /\ reservation'[r] = f
      /\ \A q \in Reservation \ {r} : reservation'[q] = reservation[q]
  BY <1>1, <1>3 DEF TypeInv, TypeOK
<1>6. \A l \in Lot : Held(l)' = Held(l) /\ OwnFolios(l)' = OwnFolios(l)
  BY <1>2 DEF Held, OwnFolios
<1>7. TypeInv'
  BY <1>2, <1>4, <1>5 DEF TypeInv, TypeOK
<1>8. Progress'
  BY <1>2 DEF Progress, ProgressOf
<1>9. NamedAreReserved'
  <2> SUFFICES ASSUME NEW l \in Lot
               PROVE  /\ pc[l] = "numbering" => \A i \in DOMAIN Docs[l] :
                           Docs[l][i].named # NoReservation => reservation'[Docs[l][i].named] # 0
                      /\ \A i \in DOMAIN taken[l] : Docs[l][i].named # NoReservation =>
                           taken[l][i] = reservation'[Docs[l][i].named]
    BY <1>2 DEF NamedAreReserved
  <2>1. f # 0
    BY <1>3
  <2>2. \A i \in DOMAIN taken[l] : taken[l][i] # 0 /\ i \in DOMAIN Docs[l]
    BY TakenType
  <2> QED
    BY <1>2, <1>5, <2>1, <2>2, DocType DEF NamedAreReserved
<1>10. Behind'
  <2>1. f <= last'[t]
    BY <1>3, <1>4
  <2> QED
    BY <1>2, <1>4, <1>5, <2>1 DEF Behind, t
<1>11. OwnAlone'
  <2> SUFFICES ASSUME NEW l \in Lot, NEW i \in OwnFolios(l), NEW q \in Reservation,
                      TypeOf[q] = Docs[l][i].type
               PROVE  reservation'[q] # taken[l][i]
    BY <1>2, <1>6 DEF OwnAlone
  <2>1. i \in DOMAIN taken[l]
    BY DEF OwnFolios
  <2> QED
    BY <1>4, <1>5, <2>1 DEF OwnAlone, t
<1>12. Recorded'
  <2> SUFFICES ASSUME NEW l \in Lot, NEW i \in 1..marked[l]
               PROVE  StatusOf(l, i)' = StatusOf(l, i)
    BY <1>2, <1>6 DEF Recorded
  <2>1. i \in DOMAIN taken[l]
    BY TakenType
  <2> QED
    BY <1>2, <1>4, <2>1 DEF StatusOf
<1>13. StoredAreHeld' /\ SubmissionsAreStored' /\ IssuedAreStored' /\ SubmissionCounts'
  BY <1>2 DEF StoredAreHeld, SubmissionsAreStored, IssuedAreStored, IsStored, SubmissionCounts
<1>14. ConflictIsContested'
  BY <1>2, <1>6 DEF ConflictIsContested, Uncontested
<1>15. IssuedReceiptIsStored'
  <2> SUFFICES ASSUME NEW l \in Receipts, NEW h \in Held(l)
               PROVE  status'[h[1]][h[2]] = status[h[1]][h[2]]
    BY <1>2, <1>6, LotsAssumption DEF IssuedReceiptIsStored
  <2>1. PICK i \in DOMAIN taken[l] : h = <<Docs[l][i].type, taken[l][i]>>
    BY DEF Held
  <2> QED
    BY <1>4, <2>1, LotsAssumption DEF StatusOf
<1> QED
  BY <1>7, <1>8, <1>9, <1>10, <1>11, <1>12, <1>13, <1>14, <1>15

LEMMA AppendHeld ==
  ASSUME TypeInv, NEW l \in Lot, NEW f \in Folio, Len(taken[l]) < Len(Docs[l]),
         taken' = [taken EXCEPT ![l] = Append(@, f)]
  PROVE  /\ taken'[l] \in Seq(Folio) /\ Len(taken'[l]) = Len(taken[l]) + 1
         /\ DOMAIN taken'[l] = DOMAIN taken[l] \cup {Len(taken[l]) + 1}
         /\ \A i \in DOMAIN taken[l] : taken'[l][i] = taken[l][i]
         /\ taken'[l][Len(taken[l]) + 1] = f
         /\ \A m \in Lot \ {l} : taken'[m] = taken[m] /\ Held(m)' = Held(m)
         /\ Held(l)' = Held(l) \cup {<<Doc(l).type, f>>}
         /\ Doc(l).type \in Type /\ Len(taken[l]) + 1 \in DOMAIN Docs[l]
<1> DEFINE n == Len(taken[l])
<1>1. /\ taken \in [Lot -> Seq(Folio)] /\ taken[l] \in Seq(Folio)
      /\ n \in Nat /\ DOMAIN taken[l] = 1..n
  BY TakenType DEF TypeInv
<1>2. taken'[l] = Append(taken[l], f)
  BY <1>1
<1>3. /\ taken'[l] \in Seq(Folio) /\ Len(taken'[l]) = n + 1
      /\ DOMAIN taken'[l] = 1..(n + 1)
      /\ \A i \in 1..n : taken'[l][i] = taken[l][i]
      /\ taken'[l][n + 1] = f
  BY <1>1, <1>2
<1>4. DOMAIN taken'[l] = DOMAIN taken[l] \cup {n + 1}
  BY <1>1, <1>3
<1>5. \A m \in Lot \ {l} : taken'[m] = taken[m] /\ Held(m)' = Held(m)
  BY <1>1 DEF Held
<1>6. Held(l)' = Held(l) \cup {<<Docs[l][n + 1].type, f>>}
  BY <1>1, <1>3, <1>4 DEF Held
<1>7. n + 1 \in DOMAIN Docs[l]
  BY <1>1, DocType
<1> QED
  BY <1>1, <1>3, <1>4, <1>5, <1>6, <1>7, DocType DEF Doc

(* What a turn of the numbering loop does, wherever the folio comes from.  *)
LEMMA TakeIInv ==
  ASSUME IInv, NEW l \in Lot, NEW f \in Folio, NEW t \in Type, t = Doc(l).type,
         pc[l] = "numbering", Take(l, f),
         UNCHANGED <<reservation, outcome, marked, answer, received, stored, submission>>,
         last' \in [Type -> 0..MaxFolio], f <= last'[t],
         status' \in [Type -> [Folio -> {"free", "assigned", "issued", "failed", "unknown"}]],
         status'[t][f] = "assigned",
         \A m \in Lot : \A i \in DOMAIN taken[m] :
           /\ taken[m][i] <= last'[Docs[m][i].type]
           /\ status'[Docs[m][i].type][taken[m][i]] = StatusOf(m, i),
         \A r \in Reservation : reservation[r] <= last'[TypeOf[r]],
         Doc(l).named # NoReservation => f = reservation[Doc(l).named],
         Doc(l).named = NoReservation =>
           /\ \A m \in Lot : \A i \in DOMAIN taken[m] :
                <<Docs[m][i].type, taken[m][i]>> # <<t, f>>
           /\ \A r \in Reservation : TypeOf[r] = t => reservation[r] # f
  PROVE  IInv'
<1> DEFINE n == Len(taken[l])
<1> USE DEF IInv
<1>1. /\ pc \in [Lot -> {"idle"} \cup InService \cup Ended]
      /\ n \in Nat /\ DOMAIN taken[l] = 1..n
      /\ taken[l] \in Seq(Folio)
  BY TakenType DEF TypeInv, TypeOK
<1>2. n < Len(Docs[l]) /\ Len(Docs[l]) \in Nat /\ marked[l] = 0
  BY DocType DEF Progress, ProgressOf, BeforeStore
<1>3. /\ taken' = [taken EXCEPT ![l] = Append(@, f)]
      /\ pc' = [pc EXCEPT ![l] = IF n + 1 = Len(Docs[l]) THEN "numbered" ELSE "numbering"]
  BY DEF Take, Goto
<1>4. /\ taken'[l] \in Seq(Folio) /\ Len(taken'[l]) = n + 1
      /\ DOMAIN taken'[l] = DOMAIN taken[l] \cup {n + 1}
      /\ \A i \in DOMAIN taken[l] : taken'[l][i] = taken[l][i]
      /\ taken'[l][n + 1] = f
      /\ \A m \in Lot \ {l} : taken'[m] = taken[m] /\ Held(m)' = Held(m)
      /\ Held(l)' = Held(l) \cup {<<t, f>>}
      /\ n + 1 \in DOMAIN Docs[l] /\ Docs[l][n + 1].type = t
      /\ Docs[l][n + 1].named = Doc(l).named
  BY <1>2, <1>3, AppendHeld DEF Doc
<1> HIDE DEF n
<1>5. /\ \A m \in Lot \ {l} : pc'[m] = pc[m]
      /\ pc'[l] \in {"numbered", "numbering"}
      /\ pc'[l] = "numbered" <=> n + 1 = Len(Docs[l])
      /\ pc' \in [Lot -> {"idle"} \cup InService \cup Ended]
  BY <1>1, <1>3 DEF InService
(* The positions after the step: the old ones and the new one.             *)
<1>6. \A m \in Lot : \A i \in DOMAIN taken'[m] :
        \/ i \in DOMAIN taken[m] /\ taken'[m][i] = taken[m][i]
        \/ m = l /\ i = n + 1 /\ i \notin DOMAIN taken[l] /\ taken'[m][i] = f
  BY <1>1, <1>4
<1>7. TypeInv'
  <2>1. taken' \in [Lot -> Seq(Folio)]
    BY <1>3, <1>4 DEF TypeInv
  <2>2. \A m \in Lot : /\ taken'[m] \in Seq(Folio)
                       /\ Len(taken'[m]) <= Len(Docs[m])
                       /\ marked[m] \in 0..Len(taken'[m])
    BY <1>1, <1>2, <1>4, TakenType
  <2> QED
    BY <1>5, <2>1, <2>2 DEF TypeInv, TypeOK
<1>8. Progress'
  <2>1. ProgressOf(l)'
    BY <1>1, <1>2, <1>4, <1>5 DEF ProgressOf, BeforeStore
  <2>2. ASSUME NEW m \in Lot \ {l} PROVE ProgressOf(m)'
    BY <1>4, <1>5 DEF Progress, ProgressOf
  <2> QED
    BY <2>1, <2>2 DEF Progress
<1>9. NamedAreReserved'
  BY <1>4, <1>5, <1>6 DEF NamedAreReserved
<1>10. Behind'
  BY <1>4, <1>6 DEF Behind
<1>11. OwnAlone'
  <2>1. ASSUME NEW m \in Lot, NEW i \in OwnFolios(m)', NEW o \in Lot, NEW j \in DOMAIN taken'[o],
               Docs[o][j].type = Docs[m][i].type, taken'[o][j] = taken'[m][i]
        PROVE  o = m /\ j = i
    <3>1. i \in DOMAIN taken'[m] /\ Docs[m][i].named = NoReservation
      BY DEF OwnFolios
    <3>2. CASE i \in DOMAIN taken[m] /\ taken'[m][i] = taken[m][i]
      <4>1. i \in OwnFolios(m)
        BY <3>1, <3>2 DEF OwnFolios
      <4>2. CASE j \in DOMAIN taken[o] /\ taken'[o][j] = taken[o][j]
        BY <2>1, <3>2, <4>1, <4>2 DEF OwnAlone
      <4>3. CASE o = l /\ j = n + 1 /\ taken'[o][j] = f
        <5>1. Docs[m][i].type = t /\ taken[m][i] = f
          BY <1>4, <2>1, <3>2, <4>3
        <5>2. Doc(l).named # NoReservation
          BY <3>2, <5>1
        <5>3. Doc(l).named \in Reservation /\ TypeOf[Doc(l).named] = t
          BY <1>4, <5>2, DocType
        <5> QED
          BY <4>1, <5>1, <5>2, <5>3 DEF OwnAlone
      <4> QED
        BY <1>6, <4>2, <4>3
    <3>3. CASE m = l /\ i = n + 1 /\ taken'[m][i] = f
      <4>1. Doc(l).named = NoReservation /\ Docs[m][i].type = t
        BY <1>4, <3>1, <3>3
      <4>2. ~(j \in DOMAIN taken[o] /\ taken'[o][j] = taken[o][j])
        BY <2>1, <3>3, <4>1
      <4> QED
        BY <1>6, <3>3, <4>2
    <3> QED
      BY <1>6, <3>1, <3>2, <3>3
  <2>2. ASSUME NEW m \in Lot, NEW i \in OwnFolios(m)', NEW r \in Reservation,
               TypeOf[r] = Docs[m][i].type
        PROVE  reservation[r] # taken'[m][i]
    <3>1. i \in DOMAIN taken'[m] /\ Docs[m][i].named = NoReservation
      BY DEF OwnFolios
    <3>2. CASE i \in DOMAIN taken[m] /\ taken'[m][i] = taken[m][i]
      <4>1. i \in OwnFolios(m)
        BY <3>1, <3>2 DEF OwnFolios
      <4> QED
        BY <2>2, <3>2, <4>1 DEF OwnAlone
    <3>3. CASE m = l /\ i = n + 1 /\ taken'[m][i] = f
      BY <1>4, <2>2, <3>1, <3>3
    <3> QED
      BY <1>6, <3>1, <3>2, <3>3
  <2> QED
    BY <2>1, <2>2 DEF OwnAlone
<1>12. \A m \in Lot : Held(m) \subseteq Held(m)'
  BY <1>4
<1>13. Recorded'
  <2> SUFFICES ASSUME NEW m \in Lot, NEW i \in 1..marked[m]
               PROVE  /\ StatusOf(m, i)' # "assigned"
                      /\ (\A o \in Lot \ {m} : <<Docs[m][i].type, taken'[m][i]>> \notin Held(o)')
                           => StatusOf(m, i)' = outcome[m]
    BY DEF Recorded
  <2>1. m # l
    BY <1>2
  <2>2. i \in DOMAIN taken[m] /\ taken'[m] = taken[m]
    BY <1>4, <2>1, TakenType
  <2>3. StatusOf(m, i)' = StatusOf(m, i)
    BY <2>2 DEF StatusOf
  <2> QED
    BY <1>12, <2>2, <2>3 DEF Recorded
<1>14. StoredAreHeld'
  <2> SUFFICES ASSUME NEW row \in stored
               PROVE  /\ pc'[row.lot] \notin BeforeStore
                      /\ \E i \in DOMAIN taken'[row.lot] :
                           row.type = Docs[row.lot][i].type /\ row.folio = taken'[row.lot][i]
    BY DEF StoredAreHeld
  <2>1. row.lot # l /\ row.lot \in Lot
    BY StoredType DEF StoredAreHeld, BeforeStore
  <2> QED
    BY <1>4, <1>5, <2>1 DEF StoredAreHeld
<1>15. IssuedAreStored'
  <2> SUFFICES ASSUME NEW m \in Receipts, pc'[m] = "recording", outcome[m] = "issued",
                      NEW i \in DOMAIN taken'[m]
               PROVE  IsStored(Docs[m][i].type, taken'[m][i])
    BY DEF IssuedAreStored, IsStored
  <2>1. m \in Lot \ {l}
    BY <1>5, LotsAssumption
  <2> QED
    BY <1>4, <1>5, <2>1 DEF IssuedAreStored
<1>16. IssuedReceiptIsStored'
  <2> SUFFICES ASSUME NEW m \in Receipts, NEW h \in Held(m)', status'[h[1]][h[2]] = "issued"
               PROVE  \E row \in stored : row.type = h[1] /\ row.folio = h[2]
    BY DEF IssuedReceiptIsStored
  <2>1. m \in Lot /\ h # <<t, f>>
    BY LotsAssumption
  <2>2. h \in Held(m)
    BY <1>4, <2>1
  <2>3. PICK i \in DOMAIN taken[m] : h = <<Docs[m][i].type, taken[m][i]>>
    BY <2>2 DEF Held
  <2>4. status[h[1]][h[2]] = "issued"
    BY <2>1, <2>3 DEF StatusOf
  <2> QED
    BY <2>2, <2>4 DEF IssuedReceiptIsStored
<1>17. ConflictIsContested'
  <2> SUFFICES ASSUME NEW m \in Lot, pc'[m] = "conflict"
               PROVE  ~Uncontested(m)'
    BY DEF ConflictIsContested
  <2>1. m # l /\ pc[m] = "conflict"
    BY <1>5
  <2>2. ~Uncontested(m)
    BY <2>1 DEF ConflictIsContested
  <2>3. Held(m)' = Held(m) /\ taken'[m] = taken[m]
    BY <1>4, <2>1
  <2> QED
    BY <1>12, <2>2, <2>3 DEF Uncontested
<1>18. SubmissionsAreStored' /\ SubmissionCounts'
  <2>1. \A m \in submission : m \in Lot \ {l}
    BY LotsAssumption DEF SubmissionsAreStored, BeforeStore, TypeInv, TypeOK
  <2> QED
    BY <1>5, <2>1 DEF SubmissionsAreStored, SubmissionCounts
<1> QED
  BY <1>7, <1>8, <1>9, <1>10, <1>11, <1>13, <1>14, <1>15, <1>16, <1>17, <1>18

LEMMA TakeNextIInv ==
  ASSUME IInv, NEW l \in Lot, TakeNext(l)
  PROVE  IInv'
<1>1. PICK f \in Folio : Give(Doc(l).type, f) /\ Take(l, f)
  BY DEF TakeNext
<1>2. /\ pc[l] = "numbering" /\ Doc(l).named = NoReservation
      /\ UNCHANGED <<reservation, outcome, marked, answer, received, stored, submission>>
  BY DEF TakeNext, resultVars, storeVars
<1>3. Doc(l).type \in Type
  <2>1. Len(taken[l]) + 1 \in DOMAIN Docs[l]
    BY <1>2, TakenType, DocType DEF IInv, Progress, ProgressOf
  <2> QED
    BY <2>1, DocType DEF Doc
<1>4. f <= last'[Doc(l).type]
  BY <1>1, <1>3, LotsAssumption DEF Give, IInv, TypeInv, TypeOK, Folio
<1> QED
  BY <1>1, <1>2, <1>3, <1>4, GiveFresh, TakeIInv

LEMMA TakeReservedIInv ==
  ASSUME IInv, NEW l \in Lot, TakeReserved(l)
  PROVE  IInv'
<1> USE DEF IInv
<1> DEFINE r == Doc(l).named
           t == Doc(l).type
<1>1. /\ pc[l] = "numbering" /\ r # NoReservation
      /\ status[t][reservation[r]] = "assigned" /\ Take(l, reservation[r])
      /\ UNCHANGED <<last, status, reservation, outcome, marked, answer, received,
                     stored, submission>>
  BY DEF TakeReserved, folioVars, resultVars, storeVars
<1>2. Len(taken[l]) + 1 \in DOMAIN Docs[l]
  BY <1>1, TakenType, DocType DEF Progress, ProgressOf
<1>3. t \in Type /\ r \in Reservation /\ TypeOf[r] = t /\ reservation[r] # 0
  BY <1>1, <1>2, DocType DEF Doc, NamedAreReserved
<1>4. reservation[r] \in Folio /\ reservation[r] <= last[t]
  BY <1>3, LotsAssumption DEF TypeInv, TypeOK, Folio, Behind
<1>5. /\ last \in [Type -> 0..MaxFolio]
      /\ status \in [Type -> [Folio -> {"free", "assigned", "issued", "failed", "unknown"}]]
      /\ \A m \in Lot : \A i \in DOMAIN taken[m] :
           /\ taken[m][i] <= last[Docs[m][i].type]
           /\ status[Docs[m][i].type][taken[m][i]] = StatusOf(m, i)
      /\ \A q \in Reservation : reservation[q] <= last[TypeOf[q]]
  BY DEF TypeInv, TypeOK, Behind, StatusOf
<1> QED
  BY <1>1, <1>3, <1>4, <1>5, TakeIInv

-----------------------------------------------------------------------------
(* Storing and recording *)

LEMMA ClashContests ==
  ASSUME IInv, NEW l \in Lot, pc[l] = "sent", Clashes(l)
  PROVE  ~Uncontested(l)
<1> USE DEF IInv
<1>1. CASE Cardinality(Rows(l)) < Len(taken[l])
  <2>1. Cardinality(Rows(l)) # Len(taken[l])
    BY <1>1, RowsCount, TakenType
  <2> QED
    BY <2>1, RowsCount DEF Uncontested
<1>2. CASE \E row \in Rows(l), old \in stored : row.type = old.type /\ row.folio = old.folio
  <2>1. PICK row \in Rows(l), old \in stored : row.type = old.type /\ row.folio = old.folio
    BY <1>2
  <2>2. PICK i \in DOMAIN taken[l] : row.type = Docs[l][i].type /\ row.folio = taken[l][i]
    BY DEF Rows
  <2>3. old.lot \in Lot /\ old.lot # l
    BY StoredType DEF StoredAreHeld, BeforeStore
  <2>4. PICK j \in DOMAIN taken[old.lot] :
          old.type = Docs[old.lot][j].type /\ old.folio = taken[old.lot][j]
    BY DEF StoredAreHeld
  <2>5. <<row.type, row.folio>> \in Held(l) \cap Held(old.lot)
    BY <2>1, <2>2, <2>4 DEF Held
  <2> QED
    BY <2>3, <2>5 DEF Uncontested
<1> QED
  BY <1>1, <1>2 DEF Clashes

LEMMA StoreIInv ==
  ASSUME IInv, NEW l \in Lot, Store(l)
  PROVE  IInv'
<1> USE DEF IInv
<1>1. /\ pc[l] = "sent" /\ l \in Receipts /\ outcome[l] = "issued"
      /\ Len(taken[l]) = Len(Docs[l]) /\ marked[l] = 0
      /\ pc \in [Lot -> {"idle"} \cup InService \cup Ended]
      /\ UNCHANGED <<last, status, reservation, taken, outcome, marked, answer, received>>
  BY DEF Store, Progress, ProgressOf, BeforeStore, TypeInv, TypeOK, folioVars, resultVars
<1>2. /\ pc' = [pc EXCEPT ![l] = pc'[l]] /\ pc'[l] \in {"conflict", "recording"}
      /\ pc'[l] = "conflict" => Clashes(l) /\ UNCHANGED <<stored, submission>>
      /\ pc'[l] = "recording" =>
           /\ ~Clashes(l)
           /\ stored' = stored \cup Rows(l)
           /\ submission' = IF received[l] THEN submission \cup {l} ELSE submission
  BY <1>1 DEF Store, Goto, storeVars
<1>3. /\ \A m \in Lot \ {l} : pc'[m] = pc[m]
      /\ pc' \in [Lot -> {"idle"} \cup InService \cup Ended]
  BY <1>1, <1>2 DEF InService, Ended
<1>4. stored \subseteq stored' /\ stored' \subseteq stored \cup Rows(l)
  BY <1>2
<1>5. /\ submission \subseteq submission' /\ submission' \subseteq submission \cup {l}
      /\ l \in submission' \/ received[l] = FALSE \/ pc'[l] = "conflict"
  BY <1>2
<1>6. \A row \in Rows(l) :
        /\ row \in [type : Type, folio : Folio, lot : Receipts, tracked : BOOLEAN]
        /\ row.lot = l /\ row.tracked = received[l]
        /\ \E i \in DOMAIN taken[l] : row.type = Docs[l][i].type /\ row.folio = taken[l][i]
  <2> TAKE row \in Rows(l)
  <2>1. PICK i \in DOMAIN taken[l] :
          row = [type |-> Docs[l][i].type, folio |-> taken[l][i], lot |-> l,
                 tracked |-> received[l]]
    BY DEF Rows
  <2>2. received[l] \in BOOLEAN /\ Docs[l][i].type \in Type /\ taken[l][i] \in Folio
    BY TakenType DEF TypeInv, TypeOK
  <2> QED
    BY <1>1, <2>1, <2>2
<1>7. \A row \in stored : row.lot \in Lot /\ row.lot # l
  BY <1>1, StoredType DEF StoredAreHeld, BeforeStore
<1>8. \A m \in Lot : Held(m)' = Held(m) /\ OwnFolios(m)' = OwnFolios(m)
  BY <1>1 DEF Held, OwnFolios
<1>9. submission \subseteq Lot \ {l}
  BY <1>1, LotsAssumption DEF SubmissionsAreStored, BeforeStore, TypeInv, TypeOK
<1>10. TypeInv'
  <2>1. stored' \subseteq [type : Type, folio : Folio, lot : Receipts, tracked : BOOLEAN]
    BY <1>4, <1>6 DEF TypeInv
  <2>2. submission' \subseteq Receipts
    BY <1>1, <1>5 DEF TypeInv, TypeOK
  <2> QED
    BY <1>1, <1>3, <2>1, <2>2 DEF TypeInv, TypeOK
<1>11. Progress'
  BY <1>1, <1>2, <1>3 DEF Progress, ProgressOf, BeforeStore, Fates
<1>12. NamedAreReserved'
  BY <1>1, <1>2, <1>3 DEF NamedAreReserved
<1>13. Behind' /\ OwnAlone'
  BY <1>1, <1>8 DEF Behind, OwnAlone
<1>14. Recorded'
  BY <1>1, <1>8 DEF Recorded, StatusOf
<1>15. StoredAreHeld'
  <2> SUFFICES ASSUME NEW row \in stored'
               PROVE  /\ pc'[row.lot] \notin BeforeStore
                      /\ \E i \in DOMAIN taken[row.lot] :
                           row.type = Docs[row.lot][i].type /\ row.folio = taken[row.lot][i]
    BY <1>1 DEF StoredAreHeld
  <2>1. CASE row \in stored
    BY <1>3, <1>7, <2>1 DEF StoredAreHeld
  <2>2. CASE row \notin stored
    BY <1>2, <1>6, <2>2 DEF BeforeStore
  <2> QED
    BY <2>1, <2>2
<1>16. IssuedAreStored'
  <2> SUFFICES ASSUME NEW m \in Receipts, pc'[m] = "recording", outcome[m] = "issued",
                      NEW i \in DOMAIN taken[m]
               PROVE  IsStored(Docs[m][i].type, taken[m][i])'
    BY <1>1 DEF IssuedAreStored, IsStored
  <2>1. CASE m = l
    <3>1. [type |-> Docs[l][i].type, folio |-> taken[l][i], lot |-> l,
           tracked |-> received[l]] \in stored'
      BY <1>2, <2>1 DEF Rows
    <3> QED
      BY <1>1, <2>1, <3>1 DEF IsStored
  <2>2. CASE m # l
    BY <1>1, <1>3, <1>4, <2>2, LotsAssumption DEF IssuedAreStored, IsStored
  <2> QED
    BY <2>1, <2>2
<1>17. IssuedReceiptIsStored'
  BY <1>1, <1>4, <1>8, LotsAssumption DEF IssuedReceiptIsStored
<1>18. ConflictIsContested'
  BY <1>1, <1>2, <1>3, <1>8, ClashContests DEF ConflictIsContested, Uncontested
<1>19. SubmissionsAreStored'
  BY <1>2, <1>3, <1>5, <1>9 DEF SubmissionsAreStored, BeforeStore
<1>20. SubmissionCounts'
  <2>1. ASSUME NEW m \in submission'
        PROVE  Cardinality({row \in stored' : row.lot = m}) = Len(Docs[m])
    <3>1. CASE m = l
      <4>1. stored' = stored \cup Rows(l) /\ ~Clashes(l)
        BY <1>2, <1>9, <3>1
      <4>2. {row \in stored' : row.lot = m} = Rows(l)
        BY <1>6, <1>7, <3>1, <4>1
      <4>3. Cardinality(Rows(l)) = Len(taken[l])
        BY <4>1, RowsCount, TakenType DEF Clashes
      <4> QED
        BY <1>1, <3>1, <4>2, <4>3
    <3>2. CASE m # l
      <4>1. m \in submission
        BY <1>5, <3>2
      <4>2. {row \in stored' : row.lot = m} = {row \in stored : row.lot = m}
        BY <1>4, <1>6, <3>2
      <4> QED
        BY <4>1, <4>2 DEF SubmissionCounts
    <3> QED
      BY <3>1, <3>2
  <2>2. ASSUME NEW row \in stored', row.tracked
        PROVE  row.lot \in submission'
    <3>1. CASE row \in stored
      BY <1>5, <2>2, <3>1 DEF SubmissionCounts
    <3>2. CASE row \notin stored
      <4>1. row.lot = l /\ received[l] /\ pc'[l] = "recording"
        BY <1>2, <1>4, <1>6, <2>2, <3>2
      <4> QED
        BY <1>2, <4>1
    <3> QED
      BY <3>1, <3>2
  <2> QED
    BY <2>1, <2>2 DEF SubmissionCounts
<1> QED
  BY <1>10, <1>11, <1>12, <1>13, <1>14, <1>15, <1>16, <1>17, <1>18, <1>19, <1>20

LEMMA RecordOutcomeIInv ==
  ASSUME IInv, NEW l \in Lot, RecordOutcome(l)
  PROVE  IInv'
<1> USE DEF IInv
<1> DEFINE i == marked[l] + 1
           t == Docs[l][i].type
           f == taken[l][i]
           u == outcome[l]
<1>1. /\ pc[l] = "recording" /\ i <= Len(taken[l]) /\ Mark(t, f, u)
      /\ marked' = [marked EXCEPT ![l] = i]
      /\ UNCHANGED <<last, reservation, pc, taken, outcome, answer, received, stored,
                     submission>>
  BY DEF RecordOutcome, storeVars
<1>2. /\ marked \in [Lot -> Nat] /\ marked[l] \in Nat /\ Len(taken[l]) \in Nat
      /\ i \in DOMAIN taken[l] /\ t \in Type /\ f \in Folio /\ u \in Fates
      /\ status \in [Type -> [Folio -> {"free", "assigned", "issued", "failed", "unknown"}]]
  BY <1>1, TakenType DEF TypeInv, TypeOK, Progress, ProgressOf
<1>3. /\ marked'[l] = i /\ \A m \in Lot \ {l} : marked'[m] = marked[m]
      /\ marked' \in [Lot -> Nat]
      /\ 1..i = 1..marked[l] \cup {i}
  BY <1>1, <1>2
<1>4. <<t, f>> \in Held(l)
  BY <1>2 DEF Held
<1> HIDE DEF i, t, f, u
<1>5. /\ status' \in [Type -> [Folio -> {"free", "assigned", "issued", "failed", "unknown"}]]
      /\ status'[t][f] = u
      /\ \A x \in Type, y \in Folio : <<x, y>> # <<t, f>> => status'[x][y] = status[x][y]
  BY <1>1, <1>2 DEF Mark, Fates
<1>6. \A m \in Lot : Held(m)' = Held(m) /\ OwnFolios(m)' = OwnFolios(m)
  BY <1>1 DEF Held, OwnFolios
<1>7. TypeInv'
  <2>1. \A m \in Lot : marked'[m] \in 0..Len(taken[m])
    BY <1>1, <1>2, <1>3, TakenType
  <2> QED
    BY <1>1, <1>3, <1>5, <2>1 DEF TypeInv, TypeOK
<1>8. Progress'
  <2>1. ProgressOf(l)'
    BY <1>1, <1>2, <1>3 DEF ProgressOf, BeforeStore, u
  <2>2. ASSUME NEW m \in Lot \ {l} PROVE ProgressOf(m)'
    BY <1>1, <1>3 DEF Progress, ProgressOf
  <2> QED
    BY <2>1, <2>2 DEF Progress
<1>9. NamedAreReserved' /\ Behind' /\ OwnAlone'
  BY <1>1, <1>6 DEF NamedAreReserved, Behind, OwnAlone
<1>10. Recorded'
  <2> SUFFICES ASSUME NEW m \in Lot, NEW j \in 1..marked'[m]
               PROVE  /\ StatusOf(m, j)' # "assigned"
                      /\ (\A o \in Lot \ {m} : <<Docs[m][j].type, taken[m][j]>> \notin Held(o))
                           => StatusOf(m, j)' = outcome[m]
    BY <1>1, <1>6 DEF Recorded
  <2>1. j \in 1..marked[m] \/ (m = l /\ j = i)
    BY <1>3
  <2>2. j \in DOMAIN taken[m] /\ taken[m][j] \in Folio /\ Docs[m][j].type \in Type
    BY <1>2, <2>1, TakenType
  <2>3. StatusOf(m, j)' = status'[Docs[m][j].type][taken[m][j]]
    BY <1>1 DEF StatusOf
  <2>4. CASE <<Docs[m][j].type, taken[m][j]>> = <<t, f>>
    <3>1. StatusOf(m, j)' = u
      BY <1>5, <2>3, <2>4
    <3> QED
      BY <1>2, <1>4, <2>4, <3>1 DEF Fates, u
  <2>5. CASE <<Docs[m][j].type, taken[m][j]>> # <<t, f>>
    <3>1. j \in 1..marked[m]
      BY <2>1, <2>5 DEF t, f
    <3>2. StatusOf(m, j)' = StatusOf(m, j)
      BY <1>5, <2>2, <2>3, <2>5 DEF StatusOf
    <3> QED
      BY <3>1, <3>2 DEF Recorded
  <2> QED
    BY <2>4, <2>5
<1>11. StoredAreHeld' /\ SubmissionsAreStored' /\ IssuedAreStored' /\ SubmissionCounts'
  BY <1>1 DEF StoredAreHeld, SubmissionsAreStored, IssuedAreStored, IsStored, SubmissionCounts
<1>12. ConflictIsContested'
  BY <1>1, <1>6 DEF ConflictIsContested, Uncontested
<1>13. IssuedReceiptIsStored'
  <2> SUFFICES ASSUME NEW m \in Receipts, NEW h \in Held(m), status'[h[1]][h[2]] = "issued"
               PROVE  \E row \in stored : row.type = h[1] /\ row.folio = h[2]
    BY <1>1, <1>6, LotsAssumption DEF IssuedReceiptIsStored
  <2>1. m \in Lot
    BY LotsAssumption
  <2>2. PICK j \in DOMAIN taken[m] : h = <<Docs[m][j].type, taken[m][j]>>
    BY DEF Held
  <2>3. h[1] \in Type /\ h[2] \in Folio /\ h[1] = Docs[m][j].type /\ h[2] = taken[m][j]
    BY <2>1, <2>2, TakenType
  <2>4. CASE h # <<t, f>>
    <3>1. status[h[1]][h[2]] = "issued"
      BY <1>5, <2>2, <2>3, <2>4
    <3> QED
      BY <3>1 DEF IssuedReceiptIsStored
  <2>5. CASE h = <<t, f>>
    <3>1. u = "issued" /\ h[1] = t /\ h[2] = f
      BY <1>5, <2>5
    <3>2. CASE l \in Receipts
      <4>1. IsStored(t, f)
        BY <1>1, <1>2, <3>1, <3>2 DEF IssuedAreStored, t, f, u
      <4> QED
        BY <3>1, <4>1 DEF IsStored
    <3>3. CASE l \notin Receipts
      <4>1. i \in OwnFolios(l)
        BY <1>2, <3>3, DocType, TakenType DEF OwnFolios
      <4>2. m = l
        BY <2>1, <2>3, <3>1, <4>1 DEF OwnAlone, t, f
      <4> QED
        BY <3>3, <4>2
    <3> QED
      BY <3>2, <3>3
  <2> QED
    BY <2>4, <2>5
<1> QED
  BY <1>7, <1>8, <1>9, <1>10, <1>11, <1>12, <1>13

-----------------------------------------------------------------------------
(* The invariant of the specification *)

LEMMA InitIInv == Init => IInv
<1> SUFFICES ASSUME Init PROVE IInv
  OBVIOUS
<1>1. \A l \in Lot : /\ pc[l] = "idle" /\ taken[l] = <<>> /\ marked[l] = 0
                     /\ DOMAIN taken[l] = {} /\ Len(taken[l]) = 0
  BY DEF Init
<1>2. stored = {} /\ submission = {} /\ \A r \in Reservation : reservation[r] = 0
  BY DEF Init
<1>3. \A l \in Lot : Held(l) = {} /\ OwnFolios(l) = {}
  BY <1>1 DEF Held, OwnFolios
<1>4. TypeInv
  <2>1. \A l \in Lot : /\ taken[l] \in Seq(Folio)
                       /\ Len(taken[l]) <= Len(Docs[l])
                       /\ marked[l] \in 0..Len(taken[l])
    <3> TAKE l \in Lot
    <3>1. taken[l] = <<>> /\ Len(taken[l]) = 0 /\ marked[l] = 0
      BY <1>1, Zenon
    <3>2. Len(Docs[l]) \in Nat
      BY DocType
    <3>3. <<>> \in Seq(Folio)
      OBVIOUS
    <3> QED
      BY <3>1, <3>2, <3>3
  <2>2. /\ taken \in [Lot -> Seq(Folio)] /\ marked \in [Lot -> Nat]
        /\ pc \in [Lot -> {"idle"} \cup InService \cup Ended]
        /\ last \in [Type -> 0..MaxFolio] /\ reservation \in [Reservation -> 0..MaxFolio]
    BY LotsAssumption DEF Init
  <2>3. /\ status \in [Type -> [Folio -> {"free", "assigned", "issued", "failed", "unknown"}]]
        /\ outcome \in [Lot -> {"assigned", "issued", "failed", "unknown"}]
        /\ answer \in [Lot -> {"ok", "rejected", "error"}] /\ received \in [Lot -> BOOLEAN]
    BY DEF Init
  <2> QED
    BY <1>2, <2>1, <2>2, <2>3 DEF TypeInv, TypeOK
<1>5. Progress
  BY <1>1, DocType DEF Progress, ProgressOf, BeforeStore
<1>6. Behind
  <2>1. \A r \in Reservation : reservation[r] = 0 /\ last[TypeOf[r]] = 0
    BY <1>2, ReservationType DEF Init
  <2> QED
    BY <1>1, <2>1 DEF Behind
<1>7. NamedAreReserved /\ OwnAlone /\ Recorded /\ IssuedAreStored /\ ConflictIsContested
  BY <1>1, <1>3, LotsAssumption
     DEF NamedAreReserved, OwnAlone, Recorded, IssuedAreStored, ConflictIsContested
<1>8. StoredAreHeld /\ IssuedReceiptIsStored /\ SubmissionsAreStored /\ SubmissionCounts
  BY <1>2, <1>3, LotsAssumption
     DEF StoredAreHeld, IssuedReceiptIsStored, SubmissionsAreStored, SubmissionCounts
<1> QED
  BY <1>4, <1>5, <1>6, <1>7, <1>8 DEF IInv

LEMMA StepIInv == IInv /\ [Next]_vars => IInv'
<1> SUFFICES ASSUME IInv, [Next]_vars PROVE IInv'
  OBVIOUS
<1>1. CASE UNCHANGED vars
  <2>1. UNCHANGED <<last, status, reservation, pc, taken, outcome, marked, answer, received,
                    stored, submission>>
    BY <1>1 DEF vars
  <2>2. \A l \in Lot : Held(l)' = Held(l) /\ OwnFolios(l)' = OwnFolios(l)
    BY <2>1 DEF Held, OwnFolios
  <2> USE DEF IInv
  <2>3. TypeInv' /\ Progress' /\ NamedAreReserved' /\ Behind'
    BY <2>1 DEF TypeInv, TypeOK, Progress, ProgressOf, NamedAreReserved, Behind
  <2>4. OwnAlone' /\ Recorded' /\ ConflictIsContested'
    BY <2>1, <2>2 DEF OwnAlone, Recorded, StatusOf, ConflictIsContested, Uncontested
  <2>5. StoredAreHeld' /\ IssuedAreStored' /\ SubmissionsAreStored' /\ SubmissionCounts'
    BY <2>1 DEF StoredAreHeld, IssuedAreStored, IsStored, SubmissionsAreStored, SubmissionCounts
  <2>6. IssuedReceiptIsStored'
    BY <2>1, <2>2, LotsAssumption DEF IssuedReceiptIsStored
  <2> QED
    BY <2>3, <2>4, <2>5, <2>6
<1>2. ASSUME NEW l \in Lot, StartLot(l) \/ Serve(l) \/ Crash(l)
      PROVE  IInv'
  BY <1>2, MovesIInv, TakeNextIInv, TakeReservedIInv, StoreIInv, RecordOutcomeIInv DEF Serve
<1> QED
  BY <1>1, <1>2, ReserveIInv DEF Next

THEOREM Invariance == Spec => []IInv
BY InitIInv, StepIInv, PTL DEF Spec

(* Every variable keeps its type. *)
THEOREM TypeCorrect == Spec => []TypeOK
<1>1. IInv => TypeOK
  BY DEF IInv, TypeInv
<1> QED
  BY <1>1, Invariance, PTL

(* The folios of an answered lot share one fate, unless a reservation was  *)
(* named twice: _mark_batch goes over every document before the response   *)
(* or the exception leaves, and nothing changes what it wrote.             *)
THEOREM FatesAreShared == Spec => []FateIsShared
<1>1. IInv => FateIsShared
  <2> SUFFICES ASSUME IInv, NEW l \in Lot, pc[l] \in Ended \ {"crashed"}, Uncontested(l)
               PROVE  \E fate \in {"issued", "failed", "unknown"} :
                        \A h \in Held(l) : status[h[1]][h[2]] = fate
    BY DEF FateIsShared
  <2> USE DEF IInv
  <2>1. pc[l] # "conflict"
    BY DEF ConflictIsContested
  <2>2. marked[l] = Len(taken[l]) /\ Len(taken[l]) \in Nat /\ DOMAIN taken[l] = 1..marked[l]
    BY <2>1, TakenType DEF Progress, ProgressOf, Ended
  <2>3. CASE Len(taken[l]) = 0
    <3>1. Held(l) = {}
      BY <2>2, <2>3 DEF Held
    <3> QED
      BY <3>1
  <2>4. CASE Len(taken[l]) # 0
    <3>1. outcome[l] \in Fates
      BY <2>2, <2>4 DEF Progress, ProgressOf
    <3>2. ASSUME NEW h \in Held(l) PROVE status[h[1]][h[2]] = outcome[l]
      <4>1. PICK i \in DOMAIN taken[l] : h = <<Docs[l][i].type, taken[l][i]>>
        BY DEF Held
      <4>2. \A m \in Lot \ {l} : <<Docs[l][i].type, taken[l][i]>> \notin Held(m)
        BY <4>1 DEF Uncontested
      <4> QED
        BY <2>2, <4>1, <4>2 DEF Recorded, StatusOf
    <3> QED
      BY <3>1, <3>2 DEF Fates
  <2> QED
    BY <2>3, <2>4
<1> QED
  BY <1>1, Invariance, PTL

(* A receipt whose folio counts as issued is stored: _store commits the    *)
(* documents before _mark writes "issued", and a folio of a receipt is     *)
(* never one a lot of DTE has.                                             *)
THEOREM IssuedReceiptsAreStored == Spec => []IssuedReceiptIsStored
<1>1. IInv => IssuedReceiptIsStored
  BY DEF IInv
<1> QED
  BY <1>1, Invariance, PTL

(* A submission has one receipt for each document of its lot: the unique   *)
(* constraint lets no two of them fall together.                           *)
THEOREM SubmissionsCount == Spec => []SubmissionCounts
<1>1. IInv => SubmissionCounts
  BY DEF IInv
<1> QED
  BY <1>1, Invariance, PTL

-----------------------------------------------------------------------------
(* A reserved folio is not emitted again *)

LEMMA TakesOfAStep ==
  ASSUME IInv, [Next]_vars, NEW l \in Lot, NEW h \in Held(l)' \ Held(l)
  PROVE  \/ TakeNext(l) /\ \E f \in Folio : /\ Give(Doc(l).type, f)
                                            /\ Doc(l).type \in Type
                                            /\ h = <<Doc(l).type, f>>
         \/ /\ TakeReserved(l)
            /\ status[h[1]][h[2]] = "assigned"
<1> USE DEF IInv
<1>1. taken' # taken
  BY DEF Held
<1>2. PICK m \in Lot : TakeNext(m) \/ TakeReserved(m)
  <2>1. CASE UNCHANGED vars
    BY <1>1, <2>1 DEF vars
  <2>2. ASSUME NEW r \in Reservation, Reserve(r) PROVE FALSE
    BY <1>1, <2>2 DEF Reserve
  <2>3. ASSUME NEW m \in Lot, StartLot(m) \/ Serve(m) \/ Crash(m)
        PROVE  TakeNext(m) \/ TakeReserved(m)
    BY <1>1, <2>3 DEF StartLot, Serve, Crash, NumberingFails, Build, BuildFails, UploadAnswered,
       UploadFails, Store, RecordOutcome, Reply
  <2> QED
    BY <2>1, <2>2, <2>3 DEF Next
<1>3. /\ Len(taken[m]) < Len(Docs[m])
      /\ Doc(m).type \in Type
      /\ Doc(m).named # NoReservation =>
            /\ Doc(m).named \in Reservation
            /\ TypeOf[Doc(m).named] = Doc(m).type
            /\ reservation[Doc(m).named] \in Folio
  <2>1. pc[m] = "numbering"
    BY <1>2 DEF TakeNext, TakeReserved
  <2>2. Len(taken[m]) < Len(Docs[m]) /\ Len(taken[m]) + 1 \in DOMAIN Docs[m]
    BY <2>1, TakenType, DocType DEF Progress, ProgressOf
  <2>3. Doc(m).named # NoReservation => reservation[Doc(m).named] # 0
    BY <2>1, <2>2 DEF NamedAreReserved, Doc
  <2> QED
    BY <2>2, <2>3, DocType, LotsAssumption DEF Doc, TypeInv, TypeOK, Folio
<1>4. PICK f \in Folio :
        /\ taken' = [taken EXCEPT ![m] = Append(@, f)]
        /\ \/ TakeNext(m) /\ Give(Doc(m).type, f)
           \/ TakeReserved(m) /\ status[Doc(m).type][f] = "assigned"
  BY <1>2, <1>3 DEF TakeNext, TakeReserved, Take
<1>5. /\ Held(m)' = Held(m) \cup {<<Doc(m).type, f>>}
      /\ \A o \in Lot \ {m} : Held(o)' = Held(o)
  BY <1>3, <1>4, AppendHeld
<1>6. l = m /\ h = <<Doc(m).type, f>>
  BY <1>5
<1> QED
  BY <1>3, <1>4, <1>6

(* Whoever takes a folio of a lot that was answered would need it          *)
(* assigned, and _mark_batch left none so before the answer: a retry that  *)
(* names the reservation again is refused.                                 *)
THEOREM ReservedIsNotReused == Spec => ReservedNotReused
<1>1. IInv /\ [Next]_vars =>
        [\A l, m \in Lot : l # m /\ pc[m] \in {"ok", "rejected", "error"}
           => (Held(l)' \ Held(l)) \cap Held(m) = {}]_vars
  <2> SUFFICES ASSUME IInv, [Next]_vars, NEW l \in Lot, NEW m \in Lot,
                      pc[m] \in {"ok", "rejected", "error"},
                      NEW h \in (Held(l)' \ Held(l)) \cap Held(m)
               PROVE  FALSE
    OBVIOUS
  <2> USE DEF IInv
  <2>1. PICK i \in DOMAIN taken[m] : h = <<Docs[m][i].type, taken[m][i]>>
    BY DEF Held
  <2>2. i \in 1..marked[m]
    BY TakenType DEF Progress, ProgressOf
  <2>3. status[h[1]][h[2]] # "assigned"
    BY <2>1, <2>2 DEF Recorded, StatusOf
  <2>4. ASSUME NEW f \in Folio, Doc(l).type \in Type, Give(Doc(l).type, f),
               h = <<Doc(l).type, f>>
        PROVE  FALSE
    BY <2>1, <2>4, GiveFresh
  <2> QED
    BY <2>3, <2>4, TakesOfAStep
<1> QED
  BY <1>1, Invariance, PTL DEF Spec, ReservedNotReused

-----------------------------------------------------------------------------
(* Every type draws on its dispenser *)

Given(t) ==
  [x \in Slot \cup Reservation |->
     IF x \in Reservation
     THEN IF TypeOf[x] = t THEN reservation[x] ELSE 0
     ELSE IF x[2] \in OwnFolios(x[1]) /\ Docs[x[1]][x[2]].type = t
          THEN taken[x[1]][x[2]] ELSE 0]

LEMMA SlotType ==
  ASSUME NEW x \in Slot
  PROVE  /\ x \notin Reservation /\ x = <<x[1], x[2]>>
         /\ x[1] \in Lot /\ x[2] \in DOMAIN Docs[x[1]]
BY LotsAssumption DEF Slot

LEMMA ReserveGives ==
  ASSUME IInv, NEW r \in Reservation, Reserve(r), NEW t \in Type
  PROVE  Dispenser(t)!DispenserNext \/ UNCHANGED <<last[t], Given(t)>>
<1> USE DEF IInv
<1>1. PICK f \in Folio : /\ Give(TypeOf[r], f)
                         /\ reservation' = [reservation EXCEPT ![r] = f]
  BY DEF Reserve
<1>2. /\ reservation[r] = 0 /\ UNCHANGED taken
      /\ reservation \in [Reservation -> 0..MaxFolio]
      /\ reservation'[r] = f
      /\ \A q \in Reservation \ {r} : reservation'[q] = reservation[q]
  BY <1>1 DEF Reserve, TypeInv, TypeOK
<1>3. /\ TypeOf[r] \in Type /\ last \in [Type -> 0..MaxFolio]
      /\ last[TypeOf[r]] \in Nat /\ f > last[TypeOf[r]] /\ f \in Nat
      /\ last' = [last EXCEPT ![TypeOf[r]] = f]
      /\ 1 <= f /\ f <= MaxFolio
  BY <1>1, ReservationType, GiveFresh, LotsAssumption DEF Folio, TypeInv, TypeOK
<1>4. \A l \in Lot : OwnFolios(l)' = OwnFolios(l)
  BY <1>2 DEF OwnFolios
<1>5. \A x \in Slot : Given(t)'[x] = Given(t)[x]
  BY <1>2, <1>4, SlotType DEF Given
<1>6. CASE t = TypeOf[r]
  <2>1. last'[t] = f /\ Given(t)[r] = 0
    BY <1>2, <1>3, <1>6 DEF Given
  <2>2. \A x \in Slot \cup Reservation :
          Given(t)'[x] = IF x = r THEN f ELSE Given(t)[x]
    <3>1. ASSUME NEW x \in Slot PROVE x # r
      BY SlotType
    <3>2. \A q \in Reservation : Given(t)'[q] = IF q = r THEN f ELSE Given(t)[q]
      BY <1>2, <1>6 DEF Given
    <3> QED
      BY <1>5, <3>1, <3>2
  <2>3. Given(t)' = [Given(t) EXCEPT ![r] = f]
    BY <2>2 DEF Given
  <2>4. Dispenser(t)!Authorised(f)
    BY <1>3 DEF Dispenser!Authorised
  <2>5. Dispenser(t)!Give(r)
    BY <1>3, <1>6, <2>1, <2>3, <2>4 DEF Dispenser!Give, Given
  <2> QED
    BY <2>5 DEF Dispenser!DispenserNext
<1>7. CASE t # TypeOf[r]
  <2>1. last'[t] = last[t]
    BY <1>3, <1>7
  <2>2. \A q \in Reservation : Given(t)'[q] = Given(t)[q]
    BY <1>2, <1>7 DEF Given
  <2>3. Given(t)' = Given(t)
    BY <1>5, <2>2 DEF Given
  <2> QED
    BY <2>1, <2>3
<1> QED
  BY <1>6, <1>7

LEMMA TakeNextGives ==
  ASSUME IInv, NEW l \in Lot, TakeNext(l), NEW t \in Type
  PROVE  Dispenser(t)!DispenserNext \/ UNCHANGED <<last[t], Given(t)>>
<1> USE DEF IInv
<1>n. PICK n \in Nat : n = Len(taken[l]) + 1
  BY TakenType
<1>1. PICK f \in Folio : /\ Give(Doc(l).type, f)
                         /\ taken' = [taken EXCEPT ![l] = Append(@, f)]
  BY DEF TakeNext, Take
<1>2. /\ pc[l] = "numbering" /\ Doc(l).named = NoReservation /\ UNCHANGED reservation
      /\ Len(taken[l]) < Len(Docs[l])
      /\ n \notin DOMAIN taken[l]
  BY <1>n, TakenType DEF TakeNext, Progress, ProgressOf
<1>3. /\ DOMAIN taken'[l] = DOMAIN taken[l] \cup {n}
      /\ \A i \in DOMAIN taken[l] : taken'[l][i] = taken[l][i]
      /\ taken'[l][n] = f
      /\ \A m \in Lot \ {l} : taken'[m] = taken[m]
      /\ Doc(l).type \in Type /\ n \in DOMAIN Docs[l]
  BY <1>n, <1>1, <1>2, AppendHeld
<1>4. /\ last \in [Type -> 0..MaxFolio]
      /\ last[Doc(l).type] \in Nat /\ f > last[Doc(l).type] /\ f \in Nat
      /\ last' = [last EXCEPT ![Doc(l).type] = f]
      /\ 1 <= f /\ f <= MaxFolio
  <2>1. /\ last \in [Type -> 0..MaxFolio] /\ MaxFolio \in Nat
        /\ f \in Nat /\ 1 <= f /\ f <= MaxFolio
    BY LotsAssumption DEF Folio, TypeInv, TypeOK
  <2>2. /\ last[Doc(l).type] \in Nat /\ f > last[Doc(l).type]
        /\ last' = [last EXCEPT ![Doc(l).type] = f]
    BY <1>1, <1>3, GiveFresh
  <2> QED
    BY <2>1, <2>2
<1>5. Docs[l][n].type = Doc(l).type /\ Docs[l][n].named = NoReservation
  BY <1>n, <1>2 DEF Doc
<1>c. PICK c : c = <<l, n>>
  OBVIOUS
<1>6. /\ OwnFolios(l)' = OwnFolios(l) \cup {n}
      /\ n \notin OwnFolios(l)
      /\ \A m \in Lot \ {l} : OwnFolios(m)' = OwnFolios(m)
      /\ \A m \in Lot : OwnFolios(m) \subseteq DOMAIN taken[m]
  BY <1>2, <1>3, <1>5 DEF OwnFolios
<1>7. \A q \in Reservation : Given(t)'[q] = Given(t)[q]
  BY <1>2 DEF Given
<1>8. /\ c \in Slot /\ c \notin Reservation
      /\ Given(t)[c] = 0
      /\ Given(t)'[c] = IF Doc(l).type = t THEN f ELSE 0
  <2>1. c \in Slot
    BY <1>c, <1>3 DEF Slot
  <2> QED
    BY <1>c, <1>3, <1>5, <1>6, <2>1, SlotType DEF Given
<1>9. \A x \in Slot : x # c => Given(t)'[x] = Given(t)[x]
  <2> SUFFICES ASSUME NEW x \in Slot, x # c PROVE Given(t)'[x] = Given(t)[x]
    OBVIOUS
  <2>1. /\ x \notin Reservation /\ x[1] \in Lot
        /\ x[1] = l => x[2] # n
    BY <1>c, SlotType
  <2>2. /\ x[2] \in OwnFolios(x[1])' <=> x[2] \in OwnFolios(x[1])
        /\ x[2] \in OwnFolios(x[1]) => taken'[x[1]][x[2]] = taken[x[1]][x[2]]
    BY <1>3, <1>6, <2>1
  <2> QED
    BY <2>1, <2>2 DEF Given
<1>10. CASE t = Doc(l).type
  <2>1. last'[t] = f
    BY <1>3, <1>4, <1>10
  <2>2. \A x \in Slot \cup Reservation :
          Given(t)'[x] = IF x = c THEN f ELSE Given(t)[x]
    BY <1>7, <1>8, <1>9, <1>10
  <2>3. Given(t)' = [Given(t) EXCEPT ![c] = f]
    BY <2>2 DEF Given
  <2>4. Dispenser(t)!Authorised(f)
    BY <1>4 DEF Dispenser!Authorised
  <2>5. Dispenser(t)!Give(c)
    BY <1>4, <1>8, <1>10, <2>1, <2>3, <2>4 DEF Dispenser!Give, Given
  <2> QED
    BY <1>8, <2>5 DEF Dispenser!DispenserNext
<1>11. CASE t # Doc(l).type
  <2>1. last'[t] = last[t]
    BY <1>4, <1>11
  <2>2. \A x \in Slot \cup Reservation : Given(t)'[x] = Given(t)[x]
    BY <1>7, <1>8, <1>9, <1>11
  <2>3. Given(t)' = Given(t)
    BY <2>2 DEF Given
  <2> QED
    BY <2>1, <2>3
<1> QED
  BY <1>10, <1>11

LEMMA TakeReservedGivesNone ==
  ASSUME IInv, NEW l \in Lot, TakeReserved(l), NEW t \in Type
  PROVE  UNCHANGED <<last[t], Given(t)>>
<1> USE DEF IInv
<1> DEFINE n == Len(taken[l]) + 1
<1>1. /\ pc[l] = "numbering" /\ Doc(l).named # NoReservation
      /\ UNCHANGED <<last, reservation>>
      /\ Len(taken[l]) < Len(Docs[l])
      /\ taken' = [taken EXCEPT ![l] = Append(@, reservation[Doc(l).named])]
  BY DEF TakeReserved, Take, folioVars, Progress, ProgressOf
<1>2. reservation[Doc(l).named] \in Folio
  <2>1. n \in DOMAIN Docs[l]
    BY <1>1, TakenType, DocType
  <2> QED
    BY <1>1, <2>1, DocType, LotsAssumption DEF NamedAreReserved, Doc, TypeInv, TypeOK, Folio
<1>3. /\ DOMAIN taken'[l] = DOMAIN taken[l] \cup {n}
      /\ \A i \in DOMAIN taken[l] : taken'[l][i] = taken[l][i]
      /\ \A m \in Lot \ {l} : taken'[m] = taken[m]
      /\ Docs[l][n].named # NoReservation
  BY <1>1, <1>2, AppendHeld DEF Doc
<1> HIDE DEF n
<1>4. \A m \in Lot : /\ OwnFolios(m)' = OwnFolios(m)
                     /\ \A i \in OwnFolios(m) : taken'[m][i] = taken[m][i]
  BY <1>3 DEF OwnFolios
<1>5. \A x \in Slot : Given(t)'[x] = Given(t)[x]
  BY <1>4, SlotType DEF Given
<1>6. \A r \in Reservation : Given(t)'[r] = Given(t)[r]
  BY <1>1 DEF Given
<1>7. Given(t)' = Given(t)
  BY <1>5, <1>6 DEF Given
<1> QED
  BY <1>1, <1>7

(* For each document type, reserving and numbering give as the dispenser   *)
(* does: next_folio is the only way to a folio nobody had.                 *)
THEOREM Refinement == Spec => DrawsFromDispenser
<1>1. Init => \A t \in Type : Dispenser(t)!DispenserInit
  <2> SUFFICES ASSUME Init, NEW t \in Type PROVE Dispenser(t)!DispenserInit
    OBVIOUS
  <2>1. \A x \in Slot : Given(t)[x] = 0
    BY SlotType DEF Init, Given, OwnFolios
  <2>2. \A r \in Reservation : Given(t)[r] = 0
    BY DEF Init, Given
  <2>3. Given(t) = [x \in Slot \cup Reservation |-> 0]
    BY <2>1, <2>2 DEF Given
  <2> QED
    BY <2>3 DEF Init, Given, Dispenser!DispenserInit
<1>2. IInv /\ [Next]_vars =>
        [\A t \in Type : [Dispenser(t)!DispenserNext]_(Dispenser(t)!dispenserVars)]_vars
  <2> SUFFICES ASSUME IInv, [Next]_vars, NEW t \in Type
               PROVE  Dispenser(t)!DispenserNext \/ UNCHANGED <<last[t], Given(t)>>
    BY DEF Dispenser!dispenserVars, Given
  <2>1. ASSUME UNCHANGED <<last, reservation, taken>> PROVE UNCHANGED <<last[t], Given(t)>>
    <3>1. \A x \in Slot \cup Reservation : Given(t)'[x] = Given(t)[x]
      BY <2>1 DEF Given, OwnFolios
    <3> QED
      BY <2>1, <3>1 DEF Given
  <2>2. CASE UNCHANGED vars
    BY <2>1, <2>2 DEF vars
  <2>3. ASSUME NEW l \in Lot, StartLot(l) \/ Serve(l) \/ Crash(l)
        PROVE  TakeNext(l) \/ TakeReserved(l) \/ UNCHANGED <<last, reservation, taken>>
    BY <2>3 DEF StartLot, Serve, Crash, NumberingFails, Build, BuildFails, UploadAnswered,
       UploadFails, Store, RecordOutcome, Reply, folioVars
  <2> QED
    BY <2>1, <2>2, <2>3, ReserveGives, TakeNextGives, TakeReservedGivesNone DEF Next
<1> QED
  BY <1>1, <1>2, Invariance, PTL DEF Spec, DrawsFromDispenser
=============================================================================
