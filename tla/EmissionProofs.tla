--------------------------- MODULE EmissionProofs ---------------------------
(***************************************************************************)
(* The safety properties of Emission for any number of attempts, sales,    *)
(* folios and retries, and its refinements of FolioDispenser and of        *)
(* OncePerKey.                                                             *)
(*                                                                         *)
(* The argument: the unique constraint on the mark of a key lets one       *)
(* attempt at a time hold the key (OneHolder), and the mark is deleted     *)
(* only by a holder that has sent nothing (Unsent), so that what was sent  *)
(* keeps the key for its attempt (SentKeepsKey). A folio comes from ahead  *)
(* of the pointer or from the reservation of the sale (FoliosBehind,       *)
(* ReservedForSale); it is settled before its attempt ends (Settled).      *)
(***************************************************************************)
EXTENDS Emission, TLAPS

Places == {"idle"} \cup InService \cup Ended
Holding == InService \ {"replaying"}
UnsentPlaces == {"idle", "replaying", "claimed", "numbered", "built", "raising_data"}
EarlyPlaces == {"idle", "replaying", "claimed"}
NumberedPlaces == {"numbered", "built", "posting", "never_left", "cut", "sent", "issued",
                   "archiving", "archived"}
SettledPlaces == {"issued", "archiving", "archived", "raising_data", "raising_engine"}
                   \cup (Ended \ {"crashed"})

-----------------------------------------------------------------------------
(* Keys. *)
Holds(a) == a \in Keyed /\ pc[a] \in Holding

HolderRuns == \A a \in Attempt : Holds(a) => mark[SaleOf[a]] = "running"

OneHolder ==
  \A a, b \in Attempt : Holds(a) /\ Holds(b) /\ SaleOf[a] = SaleOf[b] => a = b

Unsent == \A a \in Attempt : pc[a] \in UnsentPlaces => received[a] = FALSE

SentKeepsKey ==
  \A a \in Keyed : received[a] = TRUE =>
    /\ mark[SaleOf[a]] # "none"
    /\ \A b \in Attempt : Holds(b) /\ SaleOf[b] = SaleOf[a] => b = a

KeyInv == HolderRuns /\ OneHolder /\ Unsent /\ SentKeepsKey /\ KeyEmitsOnce

(* Folios. *)
FoliosBehind ==
  /\ \A a \in Attempt : folio[a] <= last
  /\ \A s \in Sale : reservation[s] <= last

Numbered ==
  \A a \in Attempt : /\ pc[a] \in EarlyPlaces => folio[a] = 0
                     /\ pc[a] \in NumberedPlaces => folio[a] # 0

ReservedForSale ==
  \A s \in Sale : reservation[s] # 0 =>
    /\ \A a \in Attempt : folio[a] = reservation[s] => SaleOf[a] = s
    /\ \A t \in Sale : reservation[t] = reservation[s] => t = s

Settled ==
  \A a \in Attempt : pc[a] \in SettledPlaces /\ folio[a] # 0 => status[folio[a]] # "assigned"

FolioInv ==
  FoliosBehind /\ Numbered /\ ReservedForSale /\ FolioIsOfOneSale /\ Settled
    /\ OrphansComeFromCrashes

(* The archive. *)
ArchiveOfSale ==
  \A f \in Folio : archive[f] # None =>
    \E b \in Attempt : folio[b] = f /\ SaleOf[b] = archive[f]

ArchivedHere == \A a \in Attempt : pc[a] = "archived" => archive[folio[a]] = SaleOf[a]

DoneIsArchived ==
  \A s \in Sale : mark[s] = "done" => response[s] \in Folio

ArchiveInv == ArchiveOfSale /\ ArchivedHere /\ DoneIsArchived /\ ReplayNamesDocument

IInv == TypeOK /\ KeyInv /\ FolioInv /\ ArchiveInv

-----------------------------------------------------------------------------
LEMMA FolioType == Folio \subseteq Nat \ {0} /\ Folio = 1..MaxFolio /\ MaxFolio \in Nat
BY EmissionAssumption DEF Folio

LEMMA SaleOfType ==
  ASSUME NEW a \in Attempt PROVE SaleOf[a] \in Sale /\ SaleOf[a] # None
BY EmissionAssumption

LEMMA InitInv == Init => IInv
<1> SUFFICES ASSUME Init PROVE IInv
  OBVIOUS
<1>1. TypeOK
  BY EmissionAssumption DEF Init, TypeOK
<1>2. KeyInv
  BY EmissionAssumption DEF Init, KeyInv, HolderRuns, OneHolder, Unsent, SentKeepsKey,
     KeyEmitsOnce, Holds, Holding, InService
<1>3. FolioInv
  BY FolioType DEF Init, FolioInv, FoliosBehind, Numbered, ReservedForSale, FolioIsOfOneSale,
     Settled, OrphansComeFromCrashes, NumberedPlaces
<1>4. ArchiveInv
  BY DEF Init, ArchiveInv, ArchiveOfSale, ArchivedHere, DoneIsArchived, ReplayNamesDocument
<1> QED
  BY <1>1, <1>2, <1>3, <1>4 DEF IInv

(* An attempt moves on, and nothing else changes.                          *)
LEMMA MoveInv ==
  ASSUME IInv, NEW a \in Attempt, NEW to \in Places, pc' = [pc EXCEPT ![a] = to],
         UNCHANGED <<folioVars, keyVars, archive, folio, received>>,
         tries' \in [Attempt -> 0..(MaxTries - 1)],
         a \in Keyed /\ to \in Holding => pc[a] \in Holding,
         to \in UnsentPlaces => pc[a] \in UnsentPlaces,
         to \in EarlyPlaces => pc[a] \in EarlyPlaces,
         to \in NumberedPlaces => pc[a] \in NumberedPlaces,
         to \in SettledPlaces => pc[a] \in SettledPlaces \cup EarlyPlaces,
         to # "idle",
         to = "archived" => archive[folio[a]] = SaleOf[a]
  PROVE  IInv'
<1>1. TypeOK'
  BY DEF IInv, TypeOK, Places, folioVars, keyVars
<1>2. /\ pc'[a] = to /\ \A b \in Attempt : b # a => pc'[b] = pc[b]
      /\ UNCHANGED <<last, status, reservation, mark, response, archive, folio, received>>
  BY DEF IInv, TypeOK, folioVars, keyVars
<1>3. \A b \in Attempt : Holds(b)' => Holds(b)
  BY <1>2 DEF Holds
<1>4. KeyInv'
  <2>1. HolderRuns' /\ OneHolder'
    BY <1>2, <1>3 DEF IInv, KeyInv, HolderRuns, OneHolder
  <2>2. Unsent'
    BY <1>2 DEF IInv, KeyInv, Unsent
  <2>3. SentKeepsKey' /\ KeyEmitsOnce'
    BY <1>2, <1>3 DEF IInv, KeyInv, SentKeepsKey, KeyEmitsOnce
  <2> QED
    BY <2>1, <2>2, <2>3 DEF KeyInv
<1>5. FolioInv'
  <2>1. FoliosBehind' /\ ReservedForSale' /\ FolioIsOfOneSale'
    BY <1>2 DEF IInv, FolioInv, FoliosBehind, ReservedForSale, FolioIsOfOneSale
  <2>2. Numbered'
    BY <1>2 DEF IInv, FolioInv, Numbered
  <2>3. Settled'
    BY <1>2 DEF IInv, FolioInv, Settled, Numbered
  <2>4. OrphansComeFromCrashes'
    <3> SUFFICES ASSUME NEW f \in Folio, status[f] = "assigned"
                 PROVE  \/ \E b \in Attempt : folio[b] = f /\ pc'[b] \in InService \cup {"crashed"}
                        \/ /\ \E s \in Sale : reservation[s] = f
                           /\ \A b \in Attempt : folio[b] # f
      BY <1>2 DEF OrphansComeFromCrashes
    <3>1. CASE folio[a] = f
      <4>1. pc[a] \notin SettledPlaces \cup EarlyPlaces
        BY <3>1, FolioType DEF IInv, FolioInv, Settled, Numbered
      <4>2. to \in InService \cup {"crashed"}
        BY <4>1 DEF Places, SettledPlaces
      <4> QED
        BY <1>2, <3>1, <4>2
    <3>2. CASE folio[a] # f
      BY <1>2, <3>2 DEF IInv, FolioInv, OrphansComeFromCrashes
    <3> QED
      BY <3>1, <3>2
  <2> QED
    BY <2>1, <2>2, <2>3, <2>4 DEF FolioInv
<1>6. ArchiveInv'
  BY <1>2 DEF IInv, ArchiveInv, ArchiveOfSale, ArchivedHere, DoneIsArchived, ReplayNamesDocument
<1> QED
  BY <1>1, <1>4, <1>5, <1>6 DEF IInv

(* An attempt records what became of its folio, and moves on.              *)
LEMMA MarkInv ==
  ASSUME IInv, NEW a \in Attempt, NEW to \in Places, pc' = [pc EXCEPT ![a] = to],
         NEW what \in {"issued", "failed", "unknown"},
         status' = [status EXCEPT ![folio[a]] = what], folio[a] # 0,
         UNCHANGED <<last, reservation, keyVars, archive, folio, tries, received>>,
         pc[a] \in Holding, to \in Holding,
         to \in UnsentPlaces => pc[a] \in UnsentPlaces,
         to \notin EarlyPlaces, to # "archived"
  PROVE  IInv'
<1>0. folio[a] \in Folio
  BY FolioType DEF IInv, TypeOK
<1>1. TypeOK'
  BY DEF IInv, TypeOK, Places, keyVars
<1>2. /\ pc'[a] = to /\ \A b \in Attempt : b # a => pc'[b] = pc[b]
      /\ UNCHANGED <<last, reservation, mark, response, archive, folio, received>>
  BY DEF IInv, TypeOK, keyVars
<1>3. /\ status'[folio[a]] = what
      /\ \A f \in Folio : f # folio[a] => status'[f] = status[f]
  BY <1>0 DEF IInv, TypeOK
<1>4. \A b \in Attempt : Holds(b)' => Holds(b)
  BY <1>2 DEF Holds
<1>5. KeyInv'
  <2>1. HolderRuns' /\ OneHolder'
    BY <1>2, <1>4 DEF IInv, KeyInv, HolderRuns, OneHolder
  <2>2. Unsent'
    BY <1>2 DEF IInv, KeyInv, Unsent
  <2>3. SentKeepsKey' /\ KeyEmitsOnce'
    BY <1>2, <1>4 DEF IInv, KeyInv, SentKeepsKey, KeyEmitsOnce
  <2> QED
    BY <2>1, <2>2, <2>3 DEF KeyInv
<1>6. FolioInv'
  <2>1. FoliosBehind' /\ ReservedForSale' /\ FolioIsOfOneSale'
    BY <1>2 DEF IInv, FolioInv, FoliosBehind, ReservedForSale, FolioIsOfOneSale
  <2>2. Numbered'
    BY <1>2 DEF IInv, FolioInv, Numbered
  <2>3. Settled'
    <3> SUFFICES ASSUME NEW b \in Attempt, pc'[b] \in SettledPlaces, folio[b] # 0
                 PROVE  status'[folio[b]] # "assigned"
      BY <1>2 DEF Settled
    <3>1. folio[b] \in Folio
      BY FolioType DEF IInv, TypeOK
    <3>2. CASE folio[b] = folio[a]
      BY <1>3, <3>2
    <3>3. CASE folio[b] # folio[a]
      BY <1>2, <1>3, <3>1, <3>3 DEF IInv, FolioInv, Settled
    <3> QED
      BY <3>2, <3>3
  <2>4. OrphansComeFromCrashes'
    <3> SUFFICES ASSUME NEW f \in Folio, status'[f] = "assigned"
                 PROVE  \/ \E b \in Attempt : folio[b] = f /\ pc'[b] \in InService \cup {"crashed"}
                        \/ /\ \E s \in Sale : reservation[s] = f
                           /\ \A b \in Attempt : folio[b] # f
      BY <1>2 DEF OrphansComeFromCrashes
    <3>1. f # folio[a] /\ status[f] = "assigned"
      BY <1>3
    <3> QED
      BY <1>2, <3>1 DEF IInv, FolioInv, OrphansComeFromCrashes
  <2> QED
    BY <2>1, <2>2, <2>3, <2>4 DEF FolioInv
<1>7. ArchiveInv'
  BY <1>2 DEF IInv, ArchiveInv, ArchiveOfSale, ArchivedHere, DoneIsArchived, ReplayNamesDocument
<1> QED
  BY <1>1, <1>5, <1>6, <1>7 DEF IInv

(* The SII may receive the document of an attempt that is posting: the     *)
(* attempt holds its key, so that nobody else can have sent under it.      *)
LEMMA PostInv ==
  ASSUME IInv, NEW a \in Attempt, pc[a] = "posting",
         NEW to \in {"posting", "sent", "cut", "never_left"}, pc' = [pc EXCEPT ![a] = to],
         NEW got \in BOOLEAN, received' = [received EXCEPT ![a] = got],
         tries' \in [Attempt -> 0..(MaxTries - 1)],
         UNCHANGED <<folioVars, keyVars, archive, folio>>
  PROVE  IInv'
<1>1. TypeOK'
  BY DEF IInv, TypeOK, folioVars, keyVars, InService
<1>2. /\ pc'[a] = to /\ \A b \in Attempt : b # a => pc'[b] = pc[b]
      /\ \A b \in Attempt : b # a => received'[b] = received[b]
      /\ UNCHANGED <<last, status, reservation, mark, response, archive, folio>>
  BY DEF IInv, TypeOK, folioVars, keyVars
<1>3. \A b \in Attempt : Holds(b)' => Holds(b)
  BY <1>2 DEF Holds, Holding, InService
<1>4. a \in Keyed => Holds(a)
  BY DEF Holds, Holding, InService
<1>5. KeyInv'
  <2>1. HolderRuns' /\ OneHolder'
    BY <1>2, <1>3 DEF IInv, KeyInv, HolderRuns, OneHolder
  <2>2. Unsent'
    BY <1>2 DEF IInv, KeyInv, Unsent, UnsentPlaces
  <2>3. SentKeepsKey'
    <3> SUFFICES ASSUME NEW b \in Keyed, received'[b] = TRUE
                 PROVE  /\ mark[SaleOf[b]] # "none"
                        /\ \A c \in Attempt : Holds(c)' /\ SaleOf[c] = SaleOf[b] => c = b
      BY <1>2 DEF SentKeepsKey
    <3>1. b \in Attempt
      BY EmissionAssumption
    <3>2. CASE b = a
      BY <1>3, <1>4, <3>1, <3>2 DEF IInv, KeyInv, HolderRuns, OneHolder
    <3>3. CASE b # a
      BY <1>2, <1>3, <3>1, <3>3 DEF IInv, KeyInv, SentKeepsKey
    <3> QED
      BY <3>2, <3>3
  <2>4. KeyEmitsOnce'
    <3> SUFFICES ASSUME NEW b \in Keyed, NEW c \in Keyed, received'[b] = TRUE,
                        received'[c] = TRUE, SaleOf[b] = SaleOf[c], b # c
                 PROVE  FALSE
      BY DEF KeyEmitsOnce
    <3>1. b \in Attempt /\ c \in Attempt
      BY EmissionAssumption
    <3>2. \A x, y \in Keyed : received[x] = TRUE /\ received[y] = TRUE /\ SaleOf[x] = SaleOf[y]
             => x = y
      BY DEF IInv, KeyInv, KeyEmitsOnce
    <3>3. CASE b # a /\ c # a
      BY <1>2, <3>1, <3>2, <3>3
    <3>4. CASE b = a \/ c = a
      BY <1>2, <1>4, <3>1, <3>4 DEF IInv, KeyInv, SentKeepsKey
    <3> QED
      BY <3>3, <3>4
  <2> QED
    BY <2>1, <2>2, <2>3, <2>4 DEF KeyInv
<1>6. FolioInv'
  <2>1. FoliosBehind' /\ ReservedForSale' /\ FolioIsOfOneSale'
    BY <1>2 DEF IInv, FolioInv, FoliosBehind, ReservedForSale, FolioIsOfOneSale
  <2>2. Numbered' /\ Settled'
    BY <1>2 DEF IInv, FolioInv, Numbered, Settled, SettledPlaces, NumberedPlaces, EarlyPlaces,
       Ended
  <2>3. OrphansComeFromCrashes'
    BY <1>2 DEF IInv, FolioInv, OrphansComeFromCrashes, InService
  <2> QED
    BY <2>1, <2>2, <2>3 DEF FolioInv
<1>7. ArchiveInv'
  <2>1. ArchiveOfSale' /\ ArchivedHere' /\ DoneIsArchived'
    BY <1>2 DEF IInv, ArchiveInv, ArchiveOfSale, ArchivedHere, DoneIsArchived
  <2>2. ReplayNamesDocument'
    <3> SUFFICES ASSUME NEW s \in Sale, mark[s] = "done"
                 PROVE  /\ archive[response[s]] = s
                        /\ \A b \in Keyed : SaleOf[b] = s /\ received'[b]
                             => folio[b] = response[s]
      BY <1>2 DEF ReplayNamesDocument
    <3>1. /\ archive[response[s]] = s
          /\ \A b \in Keyed : SaleOf[b] = s /\ received[b] => folio[b] = response[s]
      BY DEF IInv, ArchiveInv, ReplayNamesDocument
    <3>2. \A b \in Keyed : SaleOf[b] = s => b # a /\ b \in Attempt
      BY <1>4, EmissionAssumption DEF IInv, KeyInv, HolderRuns
    <3> QED
      BY <1>2, <3>1, <3>2
  <2> QED
    BY <2>1, <2>2 DEF ArchiveInv
<1> QED
  BY <1>1, <1>5, <1>6, <1>7 DEF IInv

(* The mark of a key changes in the hands of its only holder.              *)
LEMMA KeyStepInv ==
  ASSUME IInv, NEW a \in Keyed, NEW to \in Places, pc' = [pc EXCEPT ![a] = to],
         NEW m \in {"none", "running", "done", "failed"}, NEW r \in 0..MaxFolio,
         mark' = [mark EXCEPT ![SaleOf[a]] = m],
         response' = [response EXCEPT ![SaleOf[a]] = r],
         UNCHANGED <<folioVars, archive, folio, tries, received>>,
         \A b \in Attempt : b # a => ~(Holds(b) /\ SaleOf[b] = SaleOf[a]),
         to \in Holding =>
           /\ m = "running"
           /\ \A b \in Keyed : b # a /\ SaleOf[b] = SaleOf[a] => received[b] = FALSE,
         m = "none" => \A b \in Keyed : SaleOf[b] = SaleOf[a] => received[b] = FALSE,
         m = "done" =>
           /\ r \in Folio /\ archive[r] = SaleOf[a]
           /\ \A b \in Keyed : SaleOf[b] = SaleOf[a] /\ received[b] = TRUE => folio[b] = r,
         to \in UnsentPlaces => pc[a] \in UnsentPlaces,
         to \in EarlyPlaces => pc[a] \in EarlyPlaces,
         to \notin NumberedPlaces,
         to \in SettledPlaces => pc[a] \in SettledPlaces,
         pc[a] \in SettledPlaces \cup EarlyPlaces
  PROVE  IInv'
<1>0. a \in Attempt /\ SaleOf[a] \in Sale
  BY EmissionAssumption
<1>1. TypeOK'
  BY <1>0 DEF IInv, TypeOK, Places, folioVars
<1>2. /\ pc'[a] = to /\ \A b \in Attempt : b # a => pc'[b] = pc[b]
      /\ mark'[SaleOf[a]] = m /\ \A s \in Sale : s # SaleOf[a] => mark'[s] = mark[s]
      /\ response'[SaleOf[a]] = r
      /\ \A s \in Sale : s # SaleOf[a] => response'[s] = response[s]
      /\ UNCHANGED <<last, status, reservation, archive, folio, received>>
  BY <1>0 DEF IInv, TypeOK, folioVars
<1>3. /\ \A b \in Attempt : b # a => (Holds(b)' <=> Holds(b))
      /\ Holds(a)' => to \in Holding
  BY <1>2 DEF Holds
<1>4. KeyInv'
  <2>1. HolderRuns'
    <3> SUFFICES ASSUME NEW b \in Attempt, Holds(b)' PROVE mark'[SaleOf[b]] = "running"
      BY DEF HolderRuns
    <3>1. SaleOf[b] \in Sale
      BY EmissionAssumption
    <3>2. CASE b = a
      BY <1>2, <1>3, <3>2
    <3>3. CASE b # a
      BY <1>2, <1>3, <3>1, <3>3 DEF IInv, KeyInv, HolderRuns
    <3> QED
      BY <3>2, <3>3
  <2>2. OneHolder'
    BY <1>3 DEF IInv, KeyInv, OneHolder
  <2>3. Unsent'
    BY <1>0, <1>2 DEF IInv, KeyInv, Unsent
  <2>4. SentKeepsKey'
    <3> SUFFICES ASSUME NEW b \in Keyed, received[b] = TRUE
                 PROVE  /\ mark'[SaleOf[b]] # "none"
                        /\ \A c \in Attempt : Holds(c)' /\ SaleOf[c] = SaleOf[b] => c = b
      BY <1>2 DEF SentKeepsKey
    <3>1. /\ b \in Attempt /\ SaleOf[b] \in Sale
          /\ mark[SaleOf[b]] # "none"
          /\ \A c \in Attempt : Holds(c) /\ SaleOf[c] = SaleOf[b] => c = b
      BY EmissionAssumption DEF IInv, KeyInv, SentKeepsKey
    <3>2. CASE SaleOf[b] = SaleOf[a]
      BY <1>2, <1>3, <3>1, <3>2
    <3>3. CASE SaleOf[b] # SaleOf[a]
      BY <1>2, <1>3, <3>1, <3>3
    <3> QED
      BY <3>2, <3>3
  <2>5. KeyEmitsOnce'
    BY <1>2 DEF IInv, KeyInv, KeyEmitsOnce
  <2> QED
    BY <2>1, <2>2, <2>3, <2>4, <2>5 DEF KeyInv
<1>5. FolioInv'
  <2>1. FoliosBehind' /\ ReservedForSale' /\ FolioIsOfOneSale'
    BY <1>2 DEF IInv, FolioInv, FoliosBehind, ReservedForSale, FolioIsOfOneSale
  <2>2. Numbered' /\ Settled'
    BY <1>0, <1>2 DEF IInv, FolioInv, Numbered, Settled
  <2>3. OrphansComeFromCrashes'
    <3> SUFFICES ASSUME NEW f \in Folio, status[f] = "assigned"
                 PROVE  \/ \E b \in Attempt : folio[b] = f /\ pc'[b] \in InService \cup {"crashed"}
                        \/ /\ \E s \in Sale : reservation[s] = f
                           /\ \A b \in Attempt : folio[b] # f
      BY <1>2 DEF OrphansComeFromCrashes
    <3>1. folio[a] # f
      BY <1>0, FolioType DEF IInv, FolioInv, Settled, Numbered
    <3> QED
      BY <1>2, <3>1 DEF IInv, FolioInv, OrphansComeFromCrashes
  <2> QED
    BY <2>1, <2>2, <2>3 DEF FolioInv
<1>6. ArchiveInv'
  <2>1. ArchiveOfSale' /\ ArchivedHere'
    BY <1>2 DEF IInv, ArchiveInv, ArchiveOfSale, ArchivedHere, NumberedPlaces
  <2>2. DoneIsArchived'
    BY <1>2 DEF IInv, ArchiveInv, DoneIsArchived
  <2>3. ReplayNamesDocument'
    <3> SUFFICES ASSUME NEW s \in Sale, mark'[s] = "done"
                 PROVE  /\ archive[response'[s]] = s
                        /\ \A b \in Keyed : SaleOf[b] = s /\ received[b] => folio[b] = response'[s]
      BY <1>2 DEF ReplayNamesDocument
    <3>1. CASE s = SaleOf[a]
      BY <1>2, <3>1
    <3>2. CASE s # SaleOf[a]
      BY <1>2, <3>2 DEF IInv, ArchiveInv, ReplayNamesDocument
    <3> QED
      BY <3>1, <3>2
  <2> QED
    BY <2>1, <2>2, <2>3 DEF ArchiveInv
<1> QED
  BY <1>1, <1>4, <1>5, <1>6 DEF IInv

LEMMA ClaimInv ==
  ASSUME IInv, NEW a \in Attempt, Claim(a) PROVE IInv'
<1>0. SaleOf[a] \in Sale
  BY EmissionAssumption
<1>1. \A b \in Attempt : b # a => ~(Holds(b) /\ SaleOf[b] = SaleOf[a])
  BY DEF Claim, IInv, KeyInv, HolderRuns
<1>2. \A b \in Keyed : SaleOf[b] = SaleOf[a] => received[b] = FALSE
  BY EmissionAssumption DEF Claim, IInv, KeyInv, SentKeepsKey, TypeOK
<1>3. /\ response' = [response EXCEPT ![SaleOf[a]] = response[SaleOf[a]]]
      /\ response[SaleOf[a]] \in 0..MaxFolio
  BY <1>0 DEF Claim, IInv, TypeOK
<1>4. /\ "claimed" \in Places /\ "running" \in {"none", "running", "done", "failed"}
      /\ "claimed" \in UnsentPlaces /\ "claimed" \in EarlyPlaces
      /\ "claimed" \notin NumberedPlaces /\ "claimed" \notin SettledPlaces
      /\ "idle" \in UnsentPlaces /\ "idle" \in EarlyPlaces
  BY DEF Places, InService, UnsentPlaces, EarlyPlaces, NumberedPlaces, SettledPlaces, Ended
<1>5. /\ a \in Keyed /\ pc[a] = "idle" /\ pc' = [pc EXCEPT ![a] = "claimed"]
      /\ mark' = [mark EXCEPT ![SaleOf[a]] = "running"]
      /\ UNCHANGED <<folioVars, archive, folio, tries, received>>
  BY DEF Claim, Goto
<1> QED
  BY <1>1, <1>2, <1>3, <1>4, <1>5, KeyStepInv

(* The holder whose document has not left deletes the mark; any other      *)
(* failure keeps it.                                                       *)
LEMMA CloseFailedInv ==
  ASSUME IInv, NEW a \in Attempt, CloseFailed(a) PROVE IInv'
<1> DEFINE closed == IF pc[a] = "raising_data" THEN "none" ELSE "failed"
<1>1. /\ pc[a] \in {"raising_data", "raising_engine"} /\ pc' = [pc EXCEPT ![a] = "refused"]
      /\ mark' = IF a \in Keyed THEN [mark EXCEPT ![SaleOf[a]] = closed] ELSE mark
      /\ UNCHANGED <<folioVars, response, archive, folio, tries, received>>
  BY DEF CloseFailed, Goto
<1>2. /\ "refused" \in Places /\ "refused" \notin Holding /\ "refused" \notin UnsentPlaces
      /\ "refused" \notin EarlyPlaces /\ "refused" \notin NumberedPlaces
      /\ "refused" \in SettledPlaces /\ pc[a] \in SettledPlaces
  BY <1>1 DEF Places, InService, Holding, UnsentPlaces, EarlyPlaces, NumberedPlaces,
     SettledPlaces, Ended
<1>3. CASE a \in Keyed
  <2>1. SaleOf[a] \in Sale /\ Holds(a)
    BY <1>1, <1>3, EmissionAssumption DEF Holds, Holding, InService
  <2>2. \A b \in Attempt : b # a => ~(Holds(b) /\ SaleOf[b] = SaleOf[a])
    BY <2>1 DEF IInv, KeyInv, OneHolder
  <2>3. ASSUME closed = "none", NEW b \in Keyed, SaleOf[b] = SaleOf[a]
        PROVE  received[b] = FALSE
    <3>1. received[a] = FALSE
      BY <1>1, <2>3 DEF IInv, KeyInv, Unsent, UnsentPlaces
    <3>2. received[b] = TRUE => a = b
      BY <2>1, <2>3 DEF IInv, KeyInv, SentKeepsKey
    <3>3. received[b] \in BOOLEAN
      BY EmissionAssumption DEF IInv, TypeOK
    <3> QED
      BY <3>1, <3>2, <3>3
  <2>4. /\ response' = [response EXCEPT ![SaleOf[a]] = response[SaleOf[a]]]
        /\ response[SaleOf[a]] \in 0..MaxFolio
    BY <1>1, <2>1 DEF IInv, TypeOK
  <2>5. closed \in {"none", "running", "done", "failed"} /\ closed # "done"
    OBVIOUS
  <2>6. mark' = [mark EXCEPT ![SaleOf[a]] = closed]
    BY <1>1, <1>3
  <2> HIDE DEF closed
  <2> QED
    BY <1>1, <1>2, <1>3, <2>2, <2>3, <2>4, <2>5, <2>6, KeyStepInv
<1>4. CASE a \notin Keyed
  <2>1. UNCHANGED <<folioVars, keyVars, archive, folio, received>>
    BY <1>1, <1>4 DEF keyVars
  <2>2. tries' \in [Attempt -> 0..(MaxTries - 1)]
    BY <1>1 DEF IInv, TypeOK
  <2> QED
    BY <1>1, <1>2, <1>4, <2>1, <2>2, MoveInv
<1> QED
  BY <1>3, <1>4

LEMMA FinishInv ==
  ASSUME IInv, NEW a \in Attempt, Finish(a) PROVE IInv'
<1>1. /\ pc[a] = "archived" /\ pc' = [pc EXCEPT ![a] = "answered"]
      /\ mark' = IF a \in Keyed THEN [mark EXCEPT ![SaleOf[a]] = "done"] ELSE mark
      /\ response' = IF a \in Keyed
                     THEN [response EXCEPT ![SaleOf[a]] = folio[a]] ELSE response
      /\ UNCHANGED <<folioVars, archive, folio, tries, received>>
  BY DEF Finish, Goto
<1>2. /\ "answered" \in Places /\ "answered" \notin Holding /\ "answered" \notin UnsentPlaces
      /\ "answered" \notin EarlyPlaces /\ "answered" \notin NumberedPlaces
      /\ "answered" \in SettledPlaces /\ pc[a] \in SettledPlaces
  BY <1>1 DEF Places, InService, Holding, UnsentPlaces, EarlyPlaces, NumberedPlaces,
     SettledPlaces, Ended
<1>3. CASE a \in Keyed
  <2>1. SaleOf[a] \in Sale /\ Holds(a)
    BY <1>1, <1>3, EmissionAssumption DEF Holds, Holding, InService
  <2>2. \A b \in Attempt : b # a => ~(Holds(b) /\ SaleOf[b] = SaleOf[a])
    BY <2>1 DEF IInv, KeyInv, OneHolder
  <2>3. folio[a] \in Folio /\ folio[a] \in 0..MaxFolio
    BY <1>1, FolioType DEF IInv, TypeOK, FolioInv, Numbered, NumberedPlaces
  <2>4. archive[folio[a]] = SaleOf[a]
    BY <1>1 DEF IInv, ArchiveInv, ArchivedHere
  <2>5. \A b \in Keyed : SaleOf[b] = SaleOf[a] /\ received[b] = TRUE => folio[b] = folio[a]
    BY <2>1 DEF IInv, KeyInv, SentKeepsKey
  <2>6. /\ mark' = [mark EXCEPT ![SaleOf[a]] = "done"]
        /\ response' = [response EXCEPT ![SaleOf[a]] = folio[a]]
        /\ "done" \in {"none", "running", "done", "failed"}
    BY <1>1, <1>3
  <2> QED
    BY <1>1, <1>2, <1>3, <2>2, <2>3, <2>4, <2>5, <2>6, KeyStepInv
<1>4. CASE a \notin Keyed
  <2>1. UNCHANGED <<folioVars, keyVars, archive, folio, received>>
    BY <1>1, <1>4 DEF keyVars
  <2>2. tries' \in [Attempt -> 0..(MaxTries - 1)]
    BY <1>1 DEF IInv, TypeOK
  <2> QED
    BY <1>1, <1>2, <1>4, <2>1, <2>2, MoveInv
<1> QED
  BY <1>3, <1>4

(* The document enters the archive under a folio that only its sale has.   *)
LEMMA ArchiveCommitInv ==
  ASSUME IInv, NEW a \in Attempt, ArchiveCommit(a) PROVE IInv'
<1>0. /\ pc[a] = "archiving"
      /\ UNCHANGED <<folioVars, keyVars, folio, tries, received>>
  BY DEF ArchiveCommit
<1>1. folio[a] \in Folio /\ SaleOf[a] \in Sale /\ SaleOf[a] # None
  BY <1>0, FolioType, SaleOfType DEF IInv, TypeOK, FolioInv, Numbered, NumberedPlaces
<1>2. CASE archive[folio[a]] # None
  <2>1. /\ pc' = [pc EXCEPT ![a] = "error"]
        /\ UNCHANGED <<folioVars, keyVars, archive, folio, received>>
    BY <1>0, <1>2 DEF ArchiveCommit, Goto
  <2>2. tries' \in [Attempt -> 0..(MaxTries - 1)]
    BY <1>0 DEF IInv, TypeOK
  <2>3. /\ "error" \in Places /\ "error" \notin Holding /\ "error" \notin UnsentPlaces
        /\ "error" \notin EarlyPlaces /\ "error" \notin NumberedPlaces
        /\ pc[a] \in SettledPlaces
    BY <1>0 DEF Places, InService, Holding, UnsentPlaces, EarlyPlaces, NumberedPlaces,
       SettledPlaces, Ended
  <2> QED
    BY <2>1, <2>2, <2>3, MoveInv
<1>3. CASE archive[folio[a]] = None
  <2>1. /\ pc' = [pc EXCEPT ![a] = "archived"]
        /\ archive' = [archive EXCEPT ![folio[a]] = SaleOf[a]]
    BY <1>3 DEF ArchiveCommit, Goto
  <2>2. /\ pc'[a] = "archived" /\ \A b \in Attempt : b # a => pc'[b] = pc[b]
        /\ archive'[folio[a]] = SaleOf[a]
        /\ \A f \in Folio : f # folio[a] => archive'[f] = archive[f]
        /\ UNCHANGED <<last, status, reservation, mark, response, folio, received>>
    BY <1>0, <1>1, <2>1 DEF IInv, TypeOK, folioVars, keyVars
  <2>3. TypeOK'
    BY <1>0, <1>1, <2>1 DEF IInv, TypeOK, folioVars, keyVars, InService
  <2>4. \A b \in Attempt : Holds(b)' <=> Holds(b)
    BY <1>0, <2>2 DEF Holds, Holding, InService
  <2>5. KeyInv'
    <3>1. HolderRuns' /\ OneHolder'
      BY <2>2, <2>4 DEF IInv, KeyInv, HolderRuns, OneHolder
    <3>2. Unsent'
      BY <2>2 DEF IInv, KeyInv, Unsent, UnsentPlaces
    <3>3. SentKeepsKey' /\ KeyEmitsOnce'
      BY <2>2, <2>4 DEF IInv, KeyInv, SentKeepsKey, KeyEmitsOnce
    <3> QED
      BY <3>1, <3>2, <3>3 DEF KeyInv
  <2>6. FolioInv'
    <3>1. FoliosBehind' /\ ReservedForSale' /\ FolioIsOfOneSale'
      BY <2>2 DEF IInv, FolioInv, FoliosBehind, ReservedForSale, FolioIsOfOneSale
    <3>2. Numbered' /\ Settled'
      BY <1>0, <2>2 DEF IInv, FolioInv, Numbered, Settled, SettledPlaces, NumberedPlaces,
         EarlyPlaces
    <3>3. OrphansComeFromCrashes'
      BY <1>0, <2>2 DEF IInv, FolioInv, OrphansComeFromCrashes, InService
    <3> QED
      BY <3>1, <3>2, <3>3 DEF FolioInv
  <2>7. ArchiveInv'
    <3>1. ArchiveOfSale'
      BY <2>2 DEF IInv, ArchiveInv, ArchiveOfSale
    <3>2. ArchivedHere'
      <4> SUFFICES ASSUME NEW b \in Attempt, pc'[b] = "archived"
                   PROVE  archive'[folio[b]] = SaleOf[b]
        BY <2>2 DEF ArchivedHere
      <4>1. CASE folio[b] = folio[a]
        BY <1>1, <2>2, <4>1, FolioType DEF IInv, FolioInv, FolioIsOfOneSale
      <4>2. CASE folio[b] # folio[a]
        <5>1. b # a /\ pc[b] = "archived"
          BY <2>2, <4>2
        <5>2. folio[b] \in Folio
          BY <5>1, FolioType DEF IInv, TypeOK, FolioInv, Numbered, NumberedPlaces
        <5> QED
          BY <2>2, <4>2, <5>1, <5>2 DEF IInv, ArchiveInv, ArchivedHere
      <4> QED
        BY <4>1, <4>2
    <3>3. DoneIsArchived'
      BY <2>2 DEF IInv, ArchiveInv, DoneIsArchived
    <3>4. ReplayNamesDocument'
      <4> SUFFICES ASSUME NEW s \in Sale, mark[s] = "done"
                   PROVE  /\ archive'[response[s]] = s
                          /\ \A b \in Keyed : SaleOf[b] = s /\ received[b]
                               => folio[b] = response[s]
        BY <2>2 DEF ReplayNamesDocument
      <4>1. /\ archive[response[s]] = s /\ response[s] \in Folio /\ s # None
            /\ \A b \in Keyed : SaleOf[b] = s /\ received[b] => folio[b] = response[s]
        BY EmissionAssumption DEF IInv, ArchiveInv, ReplayNamesDocument, DoneIsArchived
      <4> QED
        BY <1>3, <2>2, <4>1
    <3> QED
      BY <3>1, <3>2, <3>3, <3>4 DEF ArchiveInv
  <2> QED
    BY <2>3, <2>5, <2>6, <2>7 DEF IInv
<1> QED
  BY <1>2, <1>3

-----------------------------------------------------------------------------
(* An attempt gets its number: the document has not left yet.              *)
LEMMA NumberInv ==
  ASSUME IInv, NEW a \in Attempt, pc[a] = "claimed", NEW f \in Folio,
         pc' = [pc EXCEPT ![a] = "numbered"], folio' = [folio EXCEPT ![a] = f],
         UNCHANGED <<reservation, keyVars, archive, tries, received>>,
         last' \in 0..MaxFolio, last <= last', f <= last', status'[f] = "assigned",
         status' \in [Folio -> {"free", "assigned", "issued", "failed", "unknown"}],
         \A g \in Folio : g # f => status'[g] = status[g],
         \A b \in Attempt : folio[b] = f => SaleOf[b] = SaleOf[a],
         \A s \in Sale : reservation[s] = f => s = SaleOf[a],
         \A b \in Attempt : folio[b] = f /\ pc[b] \in SettledPlaces => FALSE
  PROVE  IInv'
<1>1. TypeOK'
  BY FolioType DEF IInv, TypeOK, keyVars, InService
<1>2. /\ pc'[a] = "numbered" /\ \A b \in Attempt : b # a => pc'[b] = pc[b]
      /\ folio'[a] = f /\ \A b \in Attempt : b # a => folio'[b] = folio[b]
      /\ UNCHANGED <<reservation, mark, response, archive, received>>
  BY DEF IInv, TypeOK, keyVars
<1>3. /\ \A b \in Attempt : Holds(b)' <=> Holds(b)
      /\ folio[a] = 0 /\ received[a] = FALSE
  BY <1>2 DEF Holds, Holding, InService, IInv, FolioInv, Numbered, EarlyPlaces, KeyInv, Unsent,
     UnsentPlaces
<1>4. f \in Nat \ {0} /\ last \in Nat /\ last' \in Nat
  BY FolioType DEF IInv, TypeOK
<1>5. KeyInv'
  <2>1. HolderRuns' /\ OneHolder'
    BY <1>2, <1>3 DEF IInv, KeyInv, HolderRuns, OneHolder
  <2>2. Unsent'
    BY <1>2, <1>3 DEF IInv, KeyInv, Unsent
  <2>3. SentKeepsKey' /\ KeyEmitsOnce'
    BY <1>2, <1>3 DEF IInv, KeyInv, SentKeepsKey, KeyEmitsOnce
  <2> QED
    BY <2>1, <2>2, <2>3 DEF KeyInv
<1>6. FolioInv'
  <2>1. FoliosBehind'
    BY <1>2, <1>4 DEF IInv, TypeOK, FolioInv, FoliosBehind
  <2>2. Numbered'
    BY <1>2, <1>4 DEF IInv, FolioInv, Numbered, EarlyPlaces
  <2>3. ReservedForSale'
    BY <1>2 DEF IInv, FolioInv, ReservedForSale
  <2>4. FolioIsOfOneSale'
    BY <1>2 DEF IInv, FolioInv, FolioIsOfOneSale
  <2>5. Settled'
    <3> SUFFICES ASSUME NEW b \in Attempt, pc'[b] \in SettledPlaces, folio'[b] # 0
                 PROVE  status'[folio'[b]] # "assigned"
      BY DEF Settled
    <3>1. b # a
      BY <1>2 DEF SettledPlaces, Ended
    <3>2. pc[b] \in SettledPlaces /\ folio'[b] = folio[b] /\ folio[b] # f
      BY <1>2, <3>1
    <3>3. folio[b] \in Folio
      BY <3>2, FolioType DEF IInv, TypeOK
    <3> QED
      BY <3>2, <3>3 DEF IInv, FolioInv, Settled
  <2>6. OrphansComeFromCrashes'
    <3> SUFFICES ASSUME NEW g \in Folio, status'[g] = "assigned"
                 PROVE  \/ \E b \in Attempt : folio'[b] = g /\ pc'[b] \in InService \cup {"crashed"}
                        \/ /\ \E s \in Sale : reservation[s] = g
                           /\ \A b \in Attempt : folio'[b] # g
      BY <1>2 DEF OrphansComeFromCrashes
    <3>1. CASE g = f
      BY <1>2, <3>1 DEF InService
    <3>2. CASE g # f
      <4>1. g # 0
        BY FolioType
      <4>2. CASE \E b \in Attempt : folio[b] = g /\ pc[b] \in InService \cup {"crashed"}
        BY <1>2, <1>3, <4>1, <4>2
      <4>3. CASE (\E s \in Sale : reservation[s] = g) /\ \A b \in Attempt : folio[b] # g
        BY <1>2, <3>2, <4>3
      <4> QED
        BY <3>2, <4>2, <4>3 DEF IInv, FolioInv, OrphansComeFromCrashes
    <3> QED
      BY <3>1, <3>2
  <2> QED
    BY <2>1, <2>2, <2>3, <2>4, <2>5, <2>6 DEF FolioInv
<1>7. ArchiveInv'
  <2>1. ArchiveOfSale'
    <3> SUFFICES ASSUME NEW g \in Folio, archive[g] # None
                 PROVE  \E b \in Attempt : folio'[b] = g /\ SaleOf[b] = archive[g]
      BY <1>2 DEF ArchiveOfSale
    <3>1. PICK b \in Attempt : folio[b] = g /\ SaleOf[b] = archive[g]
      BY DEF IInv, ArchiveInv, ArchiveOfSale
    <3>2. b # a
      BY <1>3, <3>1, FolioType
    <3> QED
      BY <1>2, <3>1, <3>2
  <2>2. ArchivedHere'
    BY <1>2 DEF IInv, ArchiveInv, ArchivedHere
  <2>3. DoneIsArchived'
    BY <1>2 DEF IInv, ArchiveInv, DoneIsArchived
  <2>4. ReplayNamesDocument'
    <3> SUFFICES ASSUME NEW s \in Sale, mark[s] = "done"
                 PROVE  /\ archive[response[s]] = s
                        /\ \A b \in Keyed : SaleOf[b] = s /\ received[b]
                             => folio'[b] = response[s]
      BY <1>2 DEF ReplayNamesDocument
    <3>1. /\ archive[response[s]] = s
          /\ \A b \in Keyed : SaleOf[b] = s /\ received[b] => folio[b] = response[s]
      BY DEF IInv, ArchiveInv, ReplayNamesDocument
    <3>2. \A b \in Keyed : b \in Attempt /\ (received[b] => b # a)
      BY <1>3, EmissionAssumption
    <3> QED
      BY <1>2, <3>1, <3>2
  <2> QED
    BY <2>1, <2>2, <2>3, <2>4 DEF ArchiveInv
<1> QED
  BY <1>1, <1>5, <1>6, <1>7 DEF IInv

LEMMA NextFolioInv ==
  ASSUME IInv, NEW a \in Attempt, NextFolio(a) PROVE IInv'
<1>1. PICK f \in Folio : /\ f > last /\ last' = f
                         /\ status' = [status EXCEPT ![f] = "assigned"]
                         /\ folio' = [folio EXCEPT ![a] = f]
  BY DEF NextFolio, Mark
<1>2. /\ pc[a] = "claimed" /\ pc' = [pc EXCEPT ![a] = "numbered"]
      /\ UNCHANGED <<reservation, keyVars, archive, tries, received>>
  BY DEF NextFolio, Goto
<1>3. f \in Nat /\ last \in Nat /\ f \in 0..MaxFolio
  BY FolioType DEF IInv, TypeOK
<1>4. last' \in 0..MaxFolio /\ last <= last' /\ f <= last'
  BY <1>1, <1>3
<1>5. /\ status' \in [Folio -> {"free", "assigned", "issued", "failed", "unknown"}]
      /\ status'[f] = "assigned" /\ \A g \in Folio : g # f => status'[g] = status[g]
  BY <1>1 DEF IInv, TypeOK
<1>6. /\ \A b \in Attempt : folio[b] # f
      /\ \A s \in Sale : reservation[s] # f
  BY <1>1, <1>3 DEF IInv, TypeOK, FolioInv, FoliosBehind
<1>7. /\ \A b \in Attempt : folio[b] = f => SaleOf[b] = SaleOf[a]
      /\ \A s \in Sale : reservation[s] = f => s = SaleOf[a]
      /\ \A b \in Attempt : folio[b] = f /\ pc[b] \in SettledPlaces => FALSE
  BY <1>6
<1>8. folio' = [folio EXCEPT ![a] = f]
  BY <1>1
<1> QED
  BY <1>2, <1>4, <1>5, <1>7, <1>8, NumberInv

LEMMA UseReservedInv ==
  ASSUME IInv, NEW a \in Attempt, UseReserved(a) PROVE IInv'
<1> DEFINE f == reservation[SaleOf[a]]
<1>1. /\ pc[a] = "claimed" /\ f # 0 /\ status[f] = "assigned"
      /\ folio' = [folio EXCEPT ![a] = f] /\ pc' = [pc EXCEPT ![a] = "numbered"]
      /\ UNCHANGED <<folioVars, keyVars, archive, tries, received>>
  BY DEF UseReserved, Goto
<1>2. SaleOf[a] \in Sale /\ f \in Folio
  BY <1>1, SaleOfType, FolioType DEF IInv, TypeOK
<1>3. /\ last' \in 0..MaxFolio /\ last <= last' /\ f <= last'
      /\ UNCHANGED <<reservation, keyVars, archive, tries, received>>
  BY <1>1, <1>2, FolioType DEF IInv, TypeOK, FolioInv, FoliosBehind, folioVars
<1>4. /\ status' \in [Folio -> {"free", "assigned", "issued", "failed", "unknown"}]
      /\ status'[f] = "assigned" /\ \A g \in Folio : g # f => status'[g] = status[g]
  BY <1>1 DEF IInv, TypeOK, folioVars
<1>5. /\ \A b \in Attempt : folio[b] = f => SaleOf[b] = SaleOf[a]
      /\ \A s \in Sale : reservation[s] = f => s = SaleOf[a]
  BY <1>1, <1>2 DEF IInv, FolioInv, ReservedForSale
<1>6. \A b \in Attempt : folio[b] = f /\ pc[b] \in SettledPlaces => FALSE
  BY <1>1 DEF IInv, FolioInv, Settled
<1> HIDE DEF f
<1> QED
  BY <1>1, <1>2, <1>3, <1>4, <1>5, <1>6, NumberInv

LEMMA ReserveInv ==
  ASSUME IInv, NEW s \in Sale, Reserve(s) PROVE IInv'
<1>1. PICK f \in Folio : /\ f > last /\ last' = f
                         /\ status' = [status EXCEPT ![f] = "assigned"]
                         /\ reservation' = [reservation EXCEPT ![s] = f]
  BY DEF Reserve, Mark
<1>2. /\ reservation[s] = 0
      /\ UNCHANGED <<mark, response, archive, pc, folio, tries, received>>
  BY DEF Reserve, keyVars
<1>3. f \in Nat \ {0} /\ last \in Nat /\ f \in 0..MaxFolio
  BY FolioType DEF IInv, TypeOK
<1>4. TypeOK'
  BY <1>1, <1>2, <1>3 DEF IInv, TypeOK
<1>5. /\ reservation'[s] = f /\ \A t \in Sale : t # s => reservation'[t] = reservation[t]
      /\ status'[f] = "assigned" /\ \A g \in Folio : g # f => status'[g] = status[g]
  BY <1>1 DEF IInv, TypeOK
<1>6. /\ \A b \in Attempt : folio[b] # f
      /\ \A t \in Sale : reservation[t] # f
  BY <1>1, <1>3 DEF IInv, TypeOK, FolioInv, FoliosBehind
<1>7. KeyInv'
  BY <1>2 DEF IInv, KeyInv, HolderRuns, OneHolder, Unsent, SentKeepsKey, KeyEmitsOnce, Holds
<1>8. FolioInv'
  <2>1. FoliosBehind'
    BY <1>1, <1>2, <1>3, <1>5 DEF IInv, TypeOK, FolioInv, FoliosBehind
  <2>2. Numbered' /\ FolioIsOfOneSale'
    BY <1>2 DEF IInv, FolioInv, Numbered, FolioIsOfOneSale
  <2>3. ReservedForSale'
    BY <1>2, <1>5, <1>6 DEF IInv, FolioInv, ReservedForSale
  <2>4. Settled'
    <3> SUFFICES ASSUME NEW b \in Attempt, pc[b] \in SettledPlaces, folio[b] # 0
                 PROVE  status'[folio[b]] # "assigned"
      BY <1>2 DEF Settled
    <3>1. folio[b] \in Folio
      BY FolioType DEF IInv, TypeOK
    <3> QED
      BY <1>5, <1>6, <3>1 DEF IInv, FolioInv, Settled
  <2>5. OrphansComeFromCrashes'
    <3> SUFFICES ASSUME NEW g \in Folio, status'[g] = "assigned"
                 PROVE  \/ \E b \in Attempt : folio[b] = g /\ pc[b] \in InService \cup {"crashed"}
                        \/ /\ \E t \in Sale : reservation'[t] = g
                           /\ \A b \in Attempt : folio[b] # g
      BY <1>2 DEF OrphansComeFromCrashes
    <3>1. CASE g = f
      BY <1>5, <1>6, <3>1
    <3>2. CASE g # f
      <4>1. g # 0
        BY FolioType
      <4> QED
        BY <1>2, <1>5, <3>2, <4>1 DEF IInv, FolioInv, OrphansComeFromCrashes
    <3> QED
      BY <3>1, <3>2
  <2> QED
    BY <2>1, <2>2, <2>3, <2>4, <2>5 DEF FolioInv
<1>9. ArchiveInv'
  BY <1>2 DEF IInv, ArchiveInv, ArchiveOfSale, ArchivedHere, DoneIsArchived, ReplayNamesDocument
<1> QED
  BY <1>4, <1>7, <1>8, <1>9 DEF IInv

-----------------------------------------------------------------------------
(* The steps that only move the attempt on.                                *)
Moves(a) ==
  \/ StartUnkeyed(a) \/ KeyTaken(a) \/ Replay(a) \/ ArchiveCheck(a) \/ RejectData(a)
  \/ NoFolio(a) \/ ReservedSpent(a) \/ Build(a) \/ Authenticate(a) \/ Crash(a)

(* An unkeyed start, a rejection, a crash: where each of them may lead.    *)
LEMMA MovesInv ==
  ASSUME IInv, NEW a \in Attempt, Moves(a) PROVE IInv'
<1> USE DEF Places, InService, Holding, UnsentPlaces, EarlyPlaces, NumberedPlaces,
            SettledPlaces, Ended
<1>0. tries \in [Attempt -> 0..(MaxTries - 1)]
  BY DEF IInv, TypeOK
<1>1. CASE StartUnkeyed(a)
  <2>1. /\ pc[a] = "idle" /\ a \notin Keyed /\ pc' = [pc EXCEPT ![a] = "claimed"]
        /\ UNCHANGED <<folioVars, keyVars, archive, folio, received>> /\ tries' = tries
    BY <1>1 DEF StartUnkeyed, Goto
  <2> QED
    BY <1>0, <2>1, MoveInv
<1>2. CASE KeyTaken(a)
  <2>1. /\ pc[a] = "idle" /\ pc' = [pc EXCEPT ![a] = "replaying"]
        /\ UNCHANGED <<folioVars, keyVars, archive, folio, received>> /\ tries' = tries
    BY <1>2 DEF KeyTaken, Goto
  <2> QED
    BY <1>0, <2>1, MoveInv
<1>3. CASE Replay(a)
  <2>1. /\ pc[a] = "replaying"
        /\ \E to \in {"replayed", "conflict", "error"} : pc' = [pc EXCEPT ![a] = to]
        /\ UNCHANGED <<folioVars, keyVars, archive, folio, received>> /\ tries' = tries
    BY <1>3 DEF Replay, Goto
  <2> QED
    BY <1>0, <2>1, MoveInv
<1>4. CASE ArchiveCheck(a)
  <2>1. /\ pc[a] = "issued"
        /\ pc' = [pc EXCEPT ![a] = IF archive[folio[a]] = None THEN "archiving" ELSE "archived"]
        /\ UNCHANGED <<folioVars, keyVars, archive, folio, received>> /\ tries' = tries
    BY <1>4 DEF ArchiveCheck, Goto
  <2>2. folio[a] \in Folio
    BY <2>1, FolioType DEF IInv, TypeOK, FolioInv, Numbered
  <2>3. archive[folio[a]] # None => archive[folio[a]] = SaleOf[a]
    BY <2>2, FolioType DEF IInv, ArchiveInv, ArchiveOfSale, FolioInv, FolioIsOfOneSale
  <2>4. CASE archive[folio[a]] = None
    BY <1>0, <2>1, <2>4, MoveInv
  <2>5. CASE archive[folio[a]] # None
    BY <1>0, <2>1, <2>3, <2>5, MoveInv
  <2> QED
    BY <2>4, <2>5
<1>5. CASE RejectData(a)
  <2>1. /\ pc[a] = "claimed" /\ pc' = [pc EXCEPT ![a] = "raising_data"]
        /\ UNCHANGED <<folioVars, keyVars, archive, folio, received>> /\ tries' = tries
    BY <1>5 DEF RejectData, Goto
  <2> QED
    BY <1>0, <2>1, MoveInv
<1>6. CASE NoFolio(a) \/ ReservedSpent(a)
  <2>1. /\ pc[a] = "claimed" /\ pc' = [pc EXCEPT ![a] = "raising_engine"]
        /\ UNCHANGED <<folioVars, keyVars, archive, folio, received>> /\ tries' = tries
    BY <1>6 DEF NoFolio, ReservedSpent, Goto
  <2> QED
    BY <1>0, <2>1, MoveInv
<1>7. CASE Build(a)
  <2>1. /\ pc[a] = "numbered"
        /\ \E to \in {"built", "sent"} : pc' = [pc EXCEPT ![a] = to]
        /\ UNCHANGED <<folioVars, keyVars, archive, folio, received>> /\ tries' = tries
    BY <1>7 DEF Build, Goto
  <2> QED
    BY <1>0, <2>1, MoveInv
<1>8. CASE Authenticate(a)
  <2>1. /\ pc[a] = "built"
        /\ \E to \in {"posting", "never_left", "cut"} : pc' = [pc EXCEPT ![a] = to]
        /\ UNCHANGED <<folioVars, keyVars, archive, folio, received>> /\ tries' = tries
    BY <1>8 DEF Authenticate, Goto
  <2> QED
    BY <1>0, <2>1, MoveInv
<1>9. CASE Crash(a)
  <2>1. /\ pc[a] \in InService /\ pc' = [pc EXCEPT ![a] = "crashed"]
        /\ UNCHANGED <<folioVars, keyVars, archive, folio, received>>
        /\ tries' = [tries EXCEPT ![a] = 0]
    BY <1>9 DEF Crash, Goto
  <2>2. tries' \in [Attempt -> 0..(MaxTries - 1)]
    BY <1>0, <2>1, EmissionAssumption
  <2> QED
    BY <2>1, <2>2, MoveInv
<1> QED
  BY <1>1, <1>2, <1>3, <1>4, <1>5, <1>6, <1>7, <1>8, <1>9 DEF Moves

(* The three ends of a try of the upload.                                  *)
LEMMA PostStepInv ==
  ASSUME IInv, NEW a \in Attempt, Post(a) PROVE IInv'
<1>0. /\ pc[a] = "posting" /\ UNCHANGED <<folioVars, keyVars, archive, folio>>
      /\ received[a] \in BOOLEAN /\ received \in [Attempt -> BOOLEAN]
  BY DEF Post, PostAnswered, PostLost, PostUnconnected, IInv, TypeOK
<1>1. ASSUME NEW last_resort, Retry(a, last_resort)
      PROVE  /\ tries' \in [Attempt -> 0..(MaxTries - 1)]
             /\ \/ pc' = [pc EXCEPT ![a] = "posting"]
                \/ pc' = [pc EXCEPT ![a] = last_resort]
  <2>1. tries \in [Attempt -> 0..(MaxTries - 1)] /\ MaxTries \in Nat \ {0}
    BY EmissionAssumption DEF IInv, TypeOK
  <2>2. tries' = [tries EXCEPT ![a] = IF tries[a] + 1 = MaxTries THEN 0 ELSE tries[a] + 1]
    BY <1>1 DEF Retry
  <2>3. tries' \in [Attempt -> 0..(MaxTries - 1)]
    BY <2>1, <2>2
  <2>4. \/ pc' = [pc EXCEPT ![a] = "posting"]
        \/ pc' = [pc EXCEPT ![a] = last_resort]
    BY <1>1 DEF Retry, Goto
  <2> QED
    BY <2>3, <2>4
<1>2. CASE PostAnswered(a)
  <2>1. /\ \E got \in BOOLEAN : received' = [received EXCEPT ![a] = got]
        /\ pc' = [pc EXCEPT ![a] = "sent"]
        /\ tries' = [tries EXCEPT ![a] = 0]
    BY <1>0, <1>2 DEF PostAnswered, Goto
  <2>2. tries' \in [Attempt -> 0..(MaxTries - 1)]
    BY <2>1, EmissionAssumption DEF IInv, TypeOK
  <2> QED
    BY <1>0, <2>1, <2>2, PostInv
<1>3. CASE PostLost(a)
  <2>1. /\ \E got \in BOOLEAN : received' = [received EXCEPT ![a] = got]
        /\ Retry(a, "cut")
    BY <1>0, <1>3 DEF PostLost
  <2> QED
    BY <1>0, <1>1, <2>1, PostInv
<1>4. CASE PostUnconnected(a)
  <2>1. /\ received' = [received EXCEPT ![a] = received[a]]
        /\ Retry(a, "never_left")
    BY <1>0, <1>4 DEF PostUnconnected
  <2> QED
    BY <1>0, <1>1, <2>1, PostInv
<1> QED
  BY <1>2, <1>3, <1>4 DEF Post

(* The three ways in which a folio is settled.                             *)
LEMMA MarksInv ==
  ASSUME IInv, NEW a \in Attempt, BuildFails(a) \/ SendFails(a) \/ MarkIssued(a) PROVE IInv'
<1> USE DEF Places, InService, Holding, UnsentPlaces, EarlyPlaces, NumberedPlaces
<1>1. CASE BuildFails(a)
  <2>1. /\ pc[a] = "numbered" /\ status' = [status EXCEPT ![folio[a]] = "failed"]
        /\ \E to \in {"raising_data", "raising_engine"} : pc' = [pc EXCEPT ![a] = to]
        /\ UNCHANGED <<last, reservation, keyVars, archive, folio, tries, received>>
    BY <1>1 DEF BuildFails, Mark, Goto
  <2>2. folio[a] # 0
    BY <2>1 DEF IInv, FolioInv, Numbered
  <2>3. PICK to \in {"raising_data", "raising_engine"} : pc' = [pc EXCEPT ![a] = to]
    BY <2>1
  <2>4. to \in Places /\ to \in Holding /\ pc[a] \in Holding
        /\ (to \in UnsentPlaces => pc[a] \in UnsentPlaces) /\ to \notin EarlyPlaces
        /\ to # "archived" /\ "failed" \in {"issued", "failed", "unknown"}
    BY <2>1, <2>3
  <2> QED
    BY <2>1, <2>2, <2>3, <2>4, MarkInv
<1>2. CASE SendFails(a)
  <2>1. /\ pc[a] \in {"never_left", "cut"}
        /\ \E what \in {"failed", "unknown"} : status' = [status EXCEPT ![folio[a]] = what]
        /\ pc' = [pc EXCEPT ![a] = "raising_engine"]
        /\ UNCHANGED <<last, reservation, keyVars, archive, folio, tries, received>>
    BY <1>2 DEF SendFails, SendingOutcome, Mark, Goto
  <2>2. folio[a] # 0
    BY <2>1 DEF IInv, FolioInv, Numbered
  <2>3. PICK what \in {"failed", "unknown"} : status' = [status EXCEPT ![folio[a]] = what]
    BY <2>1
  <2>4. "raising_engine" \in Places /\ "raising_engine" \in Holding /\ pc[a] \in Holding
        /\ "raising_engine" \notin UnsentPlaces /\ "raising_engine" \notin EarlyPlaces
        /\ "raising_engine" # "archived" /\ what \in {"issued", "failed", "unknown"}
    BY <2>1, <2>3
  <2> QED
    BY <2>1, <2>2, <2>3, <2>4, MarkInv
<1>3. CASE MarkIssued(a)
  <2>1. /\ pc[a] = "sent" /\ status' = [status EXCEPT ![folio[a]] = "issued"]
        /\ pc' = [pc EXCEPT ![a] = "issued"]
        /\ UNCHANGED <<last, reservation, keyVars, archive, folio, tries, received>>
    BY <1>3 DEF MarkIssued, Mark, Goto
  <2>2. folio[a] # 0
    BY <2>1 DEF IInv, FolioInv, Numbered
  <2>3. /\ "issued" \in Places /\ "issued" \in Holding /\ pc[a] \in Holding
        /\ "issued" \notin UnsentPlaces /\ "issued" \notin EarlyPlaces
        /\ "issued" # "archived" /\ "issued" \in {"issued", "failed", "unknown"}
    BY <2>1
  <2> QED
    BY <2>1, <2>2, <2>3, MarkInv
<1> QED
  BY <1>1, <1>2, <1>3

LEMMA StepInv == IInv /\ [Next]_vars => IInv'
<1> SUFFICES ASSUME IInv, [Next]_vars PROVE IInv'
  OBVIOUS
<1>1. ASSUME NEW s \in Sale, Reserve(s) PROVE IInv'
  BY <1>1, ReserveInv
<1>2. ASSUME NEW a \in Attempt, Start(a) \/ Serve(a) \/ Crash(a) PROVE IInv'
  BY <1>2, ClaimInv, CloseFailedInv, ArchiveCommitInv, FinishInv, NextFolioInv, UseReservedInv,
     MovesInv, PostStepInv, MarksInv DEF Start, Serve, Moves
<1>3. CASE UNCHANGED vars
  BY <1>3 DEF vars, folioVars, keyVars, IInv, TypeOK, KeyInv, HolderRuns, OneHolder, Unsent,
     SentKeepsKey, KeyEmitsOnce, Holds, FolioInv, FoliosBehind, Numbered, ReservedForSale,
     FolioIsOfOneSale, Settled, OrphansComeFromCrashes, ArchiveInv, ArchiveOfSale, ArchivedHere,
     DoneIsArchived, ReplayNamesDocument
<1> QED
  BY <1>1, <1>2, <1>3 DEF Next

-----------------------------------------------------------------------------
(* The theorems *)

(* The invariant holds in every reachable state, for any attempts, sales,  *)
(* keys, folios and number of retries.                                     *)
THEOREM Invariance == Spec => []IInv
  BY InitInv, StepInv, PTL DEF Spec

(* Every variable keeps its type; in particular no upload is tried more    *)
(* often than build_session allows.                                        *)
THEOREM TypeCorrect == Spec => []TypeOK
<1>1. IInv => TypeOK
  BY DEF IInv
<1> QED
  BY <1>1, Invariance, PTL

(* The Idempotency-Key keeps its promise: of the attempts that carry the   *)
(* key of a sale the documents of at most one reach the SII, however they  *)
(* overlap, crash, fail or are repeated (run, _claim and _close_failed).   *)
THEOREM KeysEmitOnce == Spec => []KeyEmitsOnce
<1>1. IInv => KeyEmitsOnce
  BY DEF IInv, KeyInv
<1> QED
  BY <1>1, Invariance, PTL

(* What _replay answers is true: the stored folio is that of the document  *)
(* the key emitted, and its XML is in the archive.                         *)
THEOREM ReplayIsFaithful == Spec => []ReplayNamesDocument
<1>1. IInv => ReplayNamesDocument
  BY DEF IInv, ArchiveInv
<1> QED
  BY <1>1, Invariance, PTL

(* Two sales never share a folio, whether next_folio gave it to the        *)
(* request or to a reservation.                                            *)
THEOREM FoliosOfOneSale == Spec => []FolioIsOfOneSale
<1>1. IInv => FolioIsOfOneSale
  BY DEF IInv, FolioInv
<1> QED
  BY <1>1, Invariance, PTL

(* A folio is left assigned only by an attempt in service, by a crash or   *)
(* by a reservation not yet used: mark_assignment is reached on every      *)
(* other path.                                                             *)
THEOREM OrphansExplained == Spec => []OrphansComeFromCrashes
<1>1. IInv => OrphansComeFromCrashes
  BY DEF IInv, FolioInv
<1> QED
  BY <1>1, Invariance, PTL

(* Emission and reservation implement FolioDispenser: reserving gives the  *)
(* folio to the sale, taking the next one gives it to the attempt, and no  *)
(* other step gives or changes a folio.                                    *)
THEOREM Refinement == Spec => DrawsFromDispenser
<1> DEFINE given == [x \in Attempt \cup Sale |->
                       IF x \in Sale THEN reservation[x]
                       ELSE IF folio[x] = reservation[SaleOf[x]] THEN 0 ELSE folio[x]]
<1>1. Init => Dispenser!DispenserInit
  BY EmissionAssumption DEF Init, Dispenser!DispenserInit
<1>2. IInv /\ [Next]_vars => [Dispenser!DispenserNext]_(Dispenser!dispenserVars)
  <2> SUFFICES ASSUME IInv, [Next]_vars
               PROVE  Dispenser!DispenserNext \/ UNCHANGED <<last, given>>
    BY DEF Dispenser!dispenserVars
  <2>1. \A f \in Folio : Dispenser!Authorised(f)
    BY FolioType DEF Dispenser!Authorised
  <2>2. ASSUME NEW s \in Sale, Reserve(s) PROVE Dispenser!Give(s)
    <3>1. PICK f \in Folio : /\ f > last /\ last' = f
                             /\ reservation' = [reservation EXCEPT ![s] = f]
      BY <2>2 DEF Reserve
    <3>2. reservation[s] = 0 /\ folio' = folio
      BY <2>2 DEF Reserve
    <3>3. f \in Nat \ {0} /\ last \in Nat /\ \A a \in Attempt : folio[a] # f
      BY <3>1, FolioType DEF IInv, TypeOK, FolioInv, FoliosBehind
    <3>4. given' = [given EXCEPT ![s] = f]
      <4>1. /\ reservation'[s] = f
            /\ \A t \in Sale : t # s => reservation'[t] = reservation[t]
        BY <3>1 DEF IInv, TypeOK
      <4>2. \A x \in Attempt : x \notin Sale /\ SaleOf[x] \in Sale
        BY EmissionAssumption
      <4>3. \A x \in Attempt \cup Sale : given'[x] = IF x = s THEN f ELSE given[x]
        BY <3>2, <3>3, <4>1, <4>2
      <4> QED
        BY <4>3
    <3>5. given[s] = 0
      BY <3>2
    <3> QED
      BY <2>1, <3>1, <3>3, <3>4, <3>5 DEF Dispenser!Give
  <2>3. ASSUME NEW a \in Attempt, NextFolio(a) PROVE Dispenser!Give(a)
    <3>1. PICK f \in Folio : /\ f > last /\ last' = f
                             /\ folio' = [folio EXCEPT ![a] = f]
      BY <2>3 DEF NextFolio
    <3>2. folio[a] = 0 /\ reservation' = reservation
      BY <2>3 DEF NextFolio, IInv, FolioInv, Numbered, EarlyPlaces
    <3>3. f \in Nat \ {0} /\ last \in Nat /\ a \notin Sale /\ SaleOf[a] \in Sale
      BY FolioType, EmissionAssumption DEF IInv, TypeOK
    <3>4. \A s \in Sale : reservation[s] # f
      BY <3>1, <3>3 DEF IInv, TypeOK, FolioInv, FoliosBehind
    <3>5. given' = [given EXCEPT ![a] = f]
      <4>1. folio'[a] = f /\ \A b \in Attempt : b # a => folio'[b] = folio[b]
        BY <3>1 DEF IInv, TypeOK
      <4>2. \A x \in Attempt \cup Sale : given'[x] = IF x = a THEN f ELSE given[x]
        BY <3>2, <3>3, <3>4, <4>1
      <4> QED
        BY <4>2
    <3>6. given[a] = 0
      BY <3>2, <3>3
    <3> QED
      BY <2>1, <3>1, <3>3, <3>5, <3>6 DEF Dispenser!Give
  <2>4. ASSUME NEW a \in Attempt, UseReserved(a) PROVE UNCHANGED <<last, given>>
    <3>1. /\ folio[a] = 0 /\ reservation' = reservation /\ last' = last
          /\ folio' = [folio EXCEPT ![a] = reservation[SaleOf[a]]]
      BY <2>4 DEF UseReserved, folioVars, IInv, FolioInv, Numbered, EarlyPlaces
    <3>2. /\ folio'[a] = reservation[SaleOf[a]]
          /\ \A b \in Attempt : b # a => folio'[b] = folio[b]
      BY <3>1 DEF IInv, TypeOK
    <3>3. \A x \in Attempt \cup Sale : given'[x] = given[x]
      BY <3>1, <3>2, EmissionAssumption
    <3> QED
      BY <3>1, <3>3
  <2>5. ASSUME NEW a \in Attempt, Serve(a) \/ Start(a) \/ Crash(a)
        PROVE  NextFolio(a) \/ UseReserved(a) \/ UNCHANGED <<last, reservation, folio>>
    BY <2>5 DEF Serve, Start, Crash, Replay, CloseFailed, ArchiveCheck, ArchiveCommit, Finish,
       RejectData, NoFolio, ReservedSpent, Build, BuildFails, Authenticate, Post, PostAnswered,
       PostLost, PostUnconnected, SendFails, MarkIssued, StartUnkeyed, Claim, KeyTaken, folioVars
  <2>6. UNCHANGED <<last, reservation, folio>> => UNCHANGED <<last, given>>
    OBVIOUS
  <2>7. UNCHANGED vars => UNCHANGED <<last, reservation, folio>>
    BY DEF vars
  <2> HIDE DEF given
  <2> QED
    BY <2>2, <2>3, <2>4, <2>5, <2>6, <2>7 DEF Next, Dispenser!DispenserNext
<1> QED
  BY <1>1, <1>2, Invariance, PTL DEF Spec, DrawsFromDispenser, Dispenser!DispenserSpec
-----------------------------------------------------------------------------
(* The keys as OncePerKey sees them.                                       *)
KeyStates == [s \in Sale |-> CASE mark[s] = "none" -> "open"
                               [] mark[s] = "done" -> "done"
                               [] OTHER -> "taken"]
AtWork == [s \in Sale |-> {b \in Keyed : SaleOf[b] = s /\ pc[b] \in InService \ {"replaying"}}]
Numbers == [b \in Keyed |-> folio[b]]
Left == [s \in Sale |-> {b \in Keyed : SaleOf[b] = s /\ received[b]}]
Told == [b \in Keyed |->
           IF pc[b] \in {"answered", "replayed"} THEN response[SaleOf[b]] ELSE 0]

(* Whoever was answered under a key was told a stored response.            *)
AnsweredOnceDone == \A b \in Keyed : pc[b] \in {"answered", "replayed"} => mark[SaleOf[b]] = "done"

promise == <<KeyStates, AtWork, Numbers, Left, response, Told>>

(* An attempt without a key changes nothing of what keys promise; nor does *)
(* one with a key that neither starts nor stops working, nor is answered.  *)
LEMMA KeysStay ==
  ASSUME IInv, AnsweredOnceDone, NEW a \in Attempt, NEW to \in Places,
         pc' = [pc EXCEPT ![a] = to], UNCHANGED keyVars,
         \A b \in Keyed : folio'[b] = folio[b] /\ received'[b] = received[b],
         a \in Keyed => /\ to \in Holding <=> pc[a] \in Holding
                       /\ to \notin {"answered", "replayed"}
                       /\ pc[a] \notin {"answered", "replayed"}
  PROVE  AnsweredOnceDone' /\ UNCHANGED promise
<1>1. /\ pc'[a] = to /\ \A b \in Attempt : b # a => pc'[b] = pc[b]
      /\ UNCHANGED <<mark, response>> /\ Keyed \subseteq Attempt
  BY EmissionAssumption DEF IInv, TypeOK, keyVars
<1>2. AnsweredOnceDone'
  BY <1>1 DEF AnsweredOnceDone
<1>3. UNCHANGED <<KeyStates, response>>
  BY <1>1 DEF KeyStates
<1>4. /\ \A s \in Sale : AtWork'[s] = AtWork[s] /\ Left'[s] = Left[s]
      /\ \A b \in Keyed : Numbers'[b] = Numbers[b] /\ Told'[b] = Told[b]
  <2>1. ASSUME NEW s \in Sale PROVE AtWork'[s] = AtWork[s]
    BY <1>1 DEF AtWork, Holding
  <2>2. ASSUME NEW s \in Sale PROVE Left'[s] = Left[s]
    BY DEF Left
  <2>3. ASSUME NEW b \in Keyed PROVE Numbers'[b] = Numbers[b] /\ Told'[b] = Told[b]
    BY <1>1 DEF Told, Numbers
  <2> QED
    BY <2>1, <2>2, <2>3
<1>5. AtWork' = AtWork /\ Left' = Left /\ Told' = Told /\ Numbers' = Numbers
  BY <1>4 DEF AtWork, Left, Told, Numbers
<1> QED
  BY <1>2, <1>3, <1>5 DEF promise

(* The one that holds the key of its sale is alone at work under it.       *)
LEMMA AloneAtWork ==
  ASSUME IInv, NEW a \in Keyed, Holds(a)
  PROVE  /\ a \in Attempt /\ SaleOf[a] \in Sale /\ AtWork[SaleOf[a]] = {a}
         /\ KeyStates[SaleOf[a]] = "taken" /\ mark[SaleOf[a]] = "running"
         /\ Left[SaleOf[a]] = IF received[a] THEN {a} ELSE {}
<1>1. a \in Attempt /\ SaleOf[a] \in Sale /\ Keyed \subseteq Attempt
  BY EmissionAssumption
<1>2. mark[SaleOf[a]] = "running"
  BY <1>1 DEF IInv, KeyInv, HolderRuns
<1>3. \A b \in Keyed : SaleOf[b] = SaleOf[a] /\ pc[b] \in Holding => b = a
  BY <1>1 DEF IInv, KeyInv, OneHolder, Holds
<1>4. \A b \in Keyed : SaleOf[b] = SaleOf[a] /\ received[b] = TRUE => b = a
  BY <1>1 DEF IInv, KeyInv, SentKeepsKey
<1>5. AtWork[SaleOf[a]] = {a}
  BY <1>1, <1>3 DEF AtWork, Holds, Holding
<1>6. \A b \in Keyed : received[b] \in BOOLEAN
  BY <1>1 DEF IInv, TypeOK
<1>7. Left[SaleOf[a]] = IF received[a] THEN {a} ELSE {}
  <2>1. Left[SaleOf[a]] = {b \in Keyed : SaleOf[b] = SaleOf[a] /\ received[b]}
    BY <1>1 DEF Left
  <2>2. CASE received[a] = TRUE
    BY <1>4, <1>6, <2>1, <2>2
  <2>3. CASE received[a] = FALSE
    BY <1>4, <1>6, <2>1, <2>3
  <2> QED
    BY <1>6, <2>2, <2>3
<1> QED
  BY <1>1, <1>2, <1>5, <1>7 DEF KeyStates

(* It stops working, and the mark of its key becomes this.                 *)
LEMMA HolderStops ==
  ASSUME IInv, AnsweredOnceDone, NEW a \in Keyed, Holds(a), NEW to \in Places \ Holding,
         NEW m \in {"none", "running", "done", "failed"},
         to # "replayed", to = "answered" => m = "done",
         pc' = [pc EXCEPT ![a] = to],
         mark' = [mark EXCEPT ![SaleOf[a]] = m]
  PROVE  /\ AtWork' = [AtWork EXCEPT ![SaleOf[a]] = {}]
         /\ KeyStates' = [KeyStates EXCEPT ![SaleOf[a]] =
              IF m = "none" THEN "open" ELSE IF m = "done" THEN "done" ELSE "taken"]
         /\ AnsweredOnceDone'
         /\ \A b \in Keyed : b # a /\ pc[b] \in {"answered", "replayed"} => SaleOf[b] # SaleOf[a]
<1>1. /\ a \in Attempt /\ SaleOf[a] \in Sale /\ AtWork[SaleOf[a]] = {a}
      /\ mark[SaleOf[a]] = "running" /\ Keyed \subseteq Attempt
  BY AloneAtWork, EmissionAssumption
<1>2. /\ pc'[a] = to /\ \A b \in Attempt : b # a => pc'[b] = pc[b]
      /\ mark'[SaleOf[a]] = m /\ \A s \in Sale : s # SaleOf[a] => mark'[s] = mark[s]
  BY <1>1 DEF IInv, TypeOK
<1>3. \A b \in Keyed : b # a /\ pc[b] \in {"answered", "replayed"} => SaleOf[b] # SaleOf[a]
  BY <1>1 DEF AnsweredOnceDone
<1>4. AnsweredOnceDone'
  <2> SUFFICES ASSUME NEW b \in Keyed, pc'[b] \in {"answered", "replayed"}
               PROVE  mark'[SaleOf[b]] = "done"
    BY DEF AnsweredOnceDone
  <2>1. b \in Attempt /\ SaleOf[b] \in Sale
    BY EmissionAssumption
  <2> QED
    BY <1>2, <1>3, <2>1 DEF AnsweredOnceDone
<1>5. ASSUME NEW s \in Sale
      PROVE  AtWork'[s] = IF s = SaleOf[a] THEN {} ELSE AtWork[s]
  <2>1. AtWork'[s] = {b \in Keyed : SaleOf[b] = s /\ pc'[b] \in Holding}
    BY DEF AtWork, Holding
  <2>2. AtWork[s] = {b \in Keyed : SaleOf[b] = s /\ pc[b] \in Holding}
    BY DEF AtWork, Holding
  <2>3. CASE s = SaleOf[a]
    BY <1>1, <1>2, <2>1, <2>2, <2>3
  <2>4. CASE s # SaleOf[a]
    BY <1>1, <1>2, <2>1, <2>2, <2>4
  <2> QED
    BY <2>3, <2>4
<1>6. ASSUME NEW s \in Sale
      PROVE  KeyStates'[s] = IF s = SaleOf[a]
                             THEN IF m = "none" THEN "open" ELSE IF m = "done" THEN "done" ELSE "taken"
                             ELSE KeyStates[s]
  BY <1>1, <1>2 DEF KeyStates
<1>7. AtWork' = [AtWork EXCEPT ![SaleOf[a]] = {}]
  BY <1>1, <1>5 DEF AtWork
<1>8. KeyStates' = [KeyStates EXCEPT ![SaleOf[a]] =
        IF m = "none" THEN "open" ELSE IF m = "done" THEN "done" ELSE "taken"]
  BY <1>1, <1>6 DEF KeyStates
<1> QED
  BY <1>3, <1>4, <1>7, <1>8

(* What stays when neither the answers, the numbers nor the uploads of the *)
(* attempts with keys change.                                              *)
LEMMA StayApart ==
  ASSUME IInv, UNCHANGED <<response, folio, received>>
  PROVE  UNCHANGED <<Numbers, Left, response>>
BY DEF Numbers, Left

LEMMA ClaimBegins ==
  ASSUME IInv, AnsweredOnceDone, NEW a \in Attempt, Claim(a)
  PROVE  AnsweredOnceDone' /\ Promise!Begin(a)
<1>1. /\ a \in Keyed /\ pc[a] = "idle" /\ pc' = [pc EXCEPT ![a] = "claimed"]
      /\ mark[SaleOf[a]] = "none" /\ mark' = [mark EXCEPT ![SaleOf[a]] = "running"]
      /\ UNCHANGED <<response, folio, received>>
  BY DEF Claim, Goto
<1>2. /\ SaleOf[a] \in Sale /\ Keyed \subseteq Attempt
      /\ pc'[a] = "claimed" /\ \A b \in Attempt : b # a => pc'[b] = pc[b]
      /\ mark'[SaleOf[a]] = "running" /\ \A s \in Sale : s # SaleOf[a] => mark'[s] = mark[s]
  BY <1>1, EmissionAssumption DEF IInv, TypeOK
<1>3. \A b \in Keyed : SaleOf[b] = SaleOf[a] =>
        pc[b] \notin Holding /\ pc[b] \notin {"answered", "replayed"}
  BY <1>1, <1>2 DEF IInv, KeyInv, HolderRuns, Holds, AnsweredOnceDone
<1>4. AnsweredOnceDone'
  <2> SUFFICES ASSUME NEW b \in Keyed, pc'[b] \in {"answered", "replayed"}
               PROVE  mark'[SaleOf[b]] = "done"
    BY DEF AnsweredOnceDone
  <2>1. b \in Attempt /\ SaleOf[b] \in Sale
    BY EmissionAssumption
  <2> QED
    BY <1>2, <1>3, <2>1 DEF AnsweredOnceDone
<1>5. AtWork' = [AtWork EXCEPT ![SaleOf[a]] = {a}]
  <2>1. ASSUME NEW s \in Sale PROVE AtWork'[s] = IF s = SaleOf[a] THEN {a} ELSE AtWork[s]
    <3>1. AtWork'[s] = {b \in Keyed : SaleOf[b] = s /\ pc'[b] \in Holding}
      BY DEF AtWork, Holding
    <3>2. AtWork[s] = {b \in Keyed : SaleOf[b] = s /\ pc[b] \in Holding}
      BY DEF AtWork, Holding
    <3>3. "claimed" \in Holding
      BY DEF Holding, InService
    <3>4. CASE s = SaleOf[a]
      BY <1>1, <1>2, <1>3, <3>1, <3>3, <3>4
    <3>5. CASE s # SaleOf[a]
      BY <1>1, <1>2, <3>1, <3>2, <3>5
    <3> QED
      BY <3>4, <3>5
  <2>2. AtWork' = [s \in Sale |-> AtWork'[s]] /\ AtWork = [s \in Sale |-> AtWork[s]]
    BY DEF AtWork
  <2> QED
    BY <1>2, <2>1, <2>2
<1>6. KeyStates' = [KeyStates EXCEPT ![SaleOf[a]] = "taken"] /\ KeyStates[SaleOf[a]] = "open"
  <2>1. ASSUME NEW s \in Sale
        PROVE  KeyStates'[s] = IF s = SaleOf[a] THEN "taken" ELSE KeyStates[s]
    BY <1>2 DEF KeyStates
  <2> QED
    BY <1>1, <1>2, <2>1 DEF KeyStates
<1>7. Told' = Told
  <2>1. \A b \in Keyed : Told'[b] = Told[b]
    BY <1>1, <1>2 DEF Told
  <2> QED
    BY <2>1 DEF Told
<1>8. Numbers[a] = 0
  BY <1>1 DEF IInv, FolioInv, Numbered, EarlyPlaces, Numbers
<1> QED
  BY <1>1, <1>4, <1>5, <1>6, <1>7, <1>8, StayApart
     DEF Promise!Begin, KeyStates, AtWork, Numbers, Left, Told

(* The folio, reserved or not, is the number of the document.              *)
LEMMA FolioNumbers ==
  ASSUME IInv, AnsweredOnceDone, NEW a \in Attempt, NextFolio(a) \/ UseReserved(a)
  PROVE  AnsweredOnceDone' /\ ((a \in Keyed /\ Promise!Number(a)) \/ UNCHANGED promise)
<1>1. PICK f \in Folio : folio' = [folio EXCEPT ![a] = f]
  <2>1. CASE NextFolio(a)
    BY <2>1 DEF NextFolio
  <2>2. CASE UseReserved(a)
    <3>1. reservation[SaleOf[a]] \in 0..MaxFolio
      BY EmissionAssumption DEF IInv, TypeOK
    <3>2. /\ reservation[SaleOf[a]] # 0
          /\ folio' = [folio EXCEPT ![a] = reservation[SaleOf[a]]]
      BY <2>2 DEF UseReserved
    <3>3. reservation[SaleOf[a]] \in Folio
      BY <3>1, <3>2, FolioType
    <3> QED
      BY <3>2, <3>3
  <2> QED
    BY <2>1, <2>2
<1>2. /\ pc[a] = "claimed" /\ pc' = [pc EXCEPT ![a] = "numbered"]
      /\ UNCHANGED <<keyVars, received>>
  BY DEF NextFolio, UseReserved, Goto
<1>3. /\ "numbered" \in Places /\ "numbered" \in Holding /\ "claimed" \in Holding
      /\ folio[a] = 0 /\ Keyed \subseteq Attempt
      /\ folio'[a] = f /\ \A b \in Attempt : b # a => folio'[b] = folio[b]
      /\ pc'[a] = "numbered" /\ \A b \in Attempt : b # a => pc'[b] = pc[b]
  BY <1>1, <1>2, EmissionAssumption
     DEF Places, Holding, InService, IInv, TypeOK, FolioInv, Numbered, EarlyPlaces
<1>4. CASE a \notin Keyed
  BY <1>2, <1>3, <1>4, KeysStay
<1>5. CASE a \in Keyed
  <2>1. AnsweredOnceDone' /\ UNCHANGED <<KeyStates, Left, response>>
    BY <1>2, <1>3 DEF AnsweredOnceDone, KeyStates, Left, keyVars
  <2>2. AtWork' = AtWork /\ Told' = Told
    <3>1. ASSUME NEW s \in Sale PROVE AtWork'[s] = AtWork[s]
      BY <1>2, <1>3 DEF AtWork, Holding
    <3>2. ASSUME NEW b \in Keyed PROVE Told'[b] = Told[b]
      BY <1>2, <1>3 DEF Told, keyVars
    <3> QED
      BY <3>1, <3>2 DEF AtWork, Told
  <2>3. /\ Numbers' = [Numbers EXCEPT ![a] = Numbers'[a]]
        /\ Numbers[a] = 0 /\ Numbers'[a] \in Nat \ {0}
    BY <1>3, <1>5, FolioType DEF Numbers
  <2>4. a \in AtWork[SaleOf[a]]
    BY <1>2, <1>3, <1>5, AloneAtWork DEF Holds
  <2> QED
    BY <1>5, <2>1, <2>2, <2>3, <2>4
       DEF Promise!Number, Promise!Works, KeyStates, AtWork, Numbers, Left, Told
<1> QED
  BY <1>4, <1>5

(* A try of the upload that arrives delivers the document, the first time. *)
LEMMA PostDelivers ==
  ASSUME IInv, AnsweredOnceDone, NEW a \in Attempt, Post(a)
  PROVE  AnsweredOnceDone' /\ ((a \in Keyed /\ Promise!Deliver(a)) \/ UNCHANGED promise)
<1>1. /\ pc[a] = "posting" /\ UNCHANGED <<folioVars, keyVars, archive, folio>>
      /\ \E to \in {"posting", "sent", "cut", "never_left"} : pc' = [pc EXCEPT ![a] = to]
      /\ \E got \in {TRUE, received[a]} : received' = [received EXCEPT ![a] = got]
  <2>1. received = [received EXCEPT ![a] = received[a]]
    BY DEF IInv, TypeOK
  <2> QED
    BY <2>1 DEF Post, PostAnswered, PostLost, PostUnconnected, Retry, Goto
<1>2. PICK to \in {"posting", "sent", "cut", "never_left"}, got \in {TRUE, received[a]} :
        pc' = [pc EXCEPT ![a] = to] /\ received' = [received EXCEPT ![a] = got]
  BY <1>1
<1>3. /\ to \in Places /\ to \in Holding /\ "posting" \in Holding
      /\ to \notin {"answered", "replayed"} /\ Keyed \subseteq Attempt /\ received[a] \in BOOLEAN
      /\ received'[a] = got /\ \A b \in Attempt : b # a => received'[b] = received[b]
  BY <1>2, EmissionAssumption DEF Places, Holding, InService, IInv, TypeOK
<1>4. CASE a \notin Keyed \/ got = received[a]
  <2>1. \A b \in Keyed : folio'[b] = folio[b] /\ received'[b] = received[b]
    BY <1>1, <1>3, <1>4
  <2>2. a \in Keyed => /\ to \in Holding <=> pc[a] \in Holding
                      /\ to \notin {"answered", "replayed"}
                      /\ pc[a] \notin {"answered", "replayed"}
    BY <1>1, <1>3
  <2> QED
    BY <1>1, <1>2, <1>3, <2>1, <2>2, KeysStay
<1>5. CASE a \in Keyed /\ got # received[a]
  <2>1. received[a] = FALSE /\ received'[a] = TRUE
    BY <1>3, <1>5
  <2>2. /\ pc'[a] = to /\ \A b \in Attempt : b # a => pc'[b] = pc[b]
        /\ UNCHANGED <<mark, response, folio>>
    BY <1>1, <1>2 DEF IInv, TypeOK, keyVars
  <2>3. AnsweredOnceDone' /\ UNCHANGED <<KeyStates, Numbers, response>>
    BY <1>3, <2>2 DEF AnsweredOnceDone, KeyStates, Numbers
  <2>4. AtWork' = AtWork /\ Told' = Told
    <3>1. ASSUME NEW s \in Sale PROVE AtWork'[s] = AtWork[s]
      BY <1>1, <1>3, <2>2 DEF AtWork, Holding
    <3>2. ASSUME NEW b \in Keyed PROVE Told'[b] = Told[b]
      BY <1>1, <1>3, <2>2 DEF Told
    <3> QED
      BY <3>1, <3>2 DEF AtWork, Told
  <2>5. /\ a \in AtWork[SaleOf[a]] /\ Left[SaleOf[a]] = {} /\ SaleOf[a] \in Sale
    BY <1>1, <1>3, <1>5, <2>1, AloneAtWork DEF Holds
  <2>6. Left' = [Left EXCEPT ![SaleOf[a]] = {a}]
    <3>1. \A b \in Keyed : b # a => received'[b] = received[b]
      BY <1>3
    <3>2. ASSUME NEW s \in Sale PROVE Left'[s] = IF s = SaleOf[a] THEN {a} ELSE Left[s]
      <4>1. Left'[s] = {b \in Keyed : SaleOf[b] = s /\ received'[b]}
        BY DEF Left
      <4>2. Left[s] = {b \in Keyed : SaleOf[b] = s /\ received[b]}
        BY DEF Left
      <4>3. CASE s = SaleOf[a]
        BY <1>5, <2>1, <2>5, <3>1, <4>1, <4>2, <4>3
      <4>4. CASE s # SaleOf[a]
        BY <3>1, <4>1, <4>2, <4>4
      <4> QED
        BY <4>3, <4>4
    <3> QED
      BY <2>5, <3>2 DEF Left
  <2>7. Numbers[a] # 0
    BY <1>1, <1>3, <1>5 DEF IInv, FolioInv, Numbered, NumberedPlaces, Numbers
  <2> QED
    BY <1>5, <2>3, <2>4, <2>5, <2>6, <2>7
       DEF Promise!Deliver, Promise!Works, KeyStates, AtWork, Numbers, Left, Told
<1> QED
  BY <1>3, <1>4, <1>5

(* A failure gives the key back if nothing left, and gives up if not.      *)
LEMMA FailureStops ==
  ASSUME IInv, AnsweredOnceDone, NEW a \in Keyed, Holds(a), NEW to \in Places \ Holding,
         to \notin {"answered", "replayed"}, pc' = [pc EXCEPT ![a] = to],
         NEW m \in {"none", "running", "failed"}, mark' = [mark EXCEPT ![SaleOf[a]] = m],
         m = "none" => pc[a] \in UnsentPlaces,
         UNCHANGED <<response, folio, received>>
  PROVE  AnsweredOnceDone' /\ (Promise!GiveBack(a) \/ Promise!GiveUp(a))
<1>1. /\ AtWork' = [AtWork EXCEPT ![SaleOf[a]] = {}]
      /\ KeyStates' = [KeyStates EXCEPT ![SaleOf[a]] = IF m = "none" THEN "open" ELSE "taken"]
      /\ AnsweredOnceDone'
  BY HolderStops
<1>2. a \in Attempt /\ SaleOf[a] \in Sale /\ Keyed \subseteq Attempt
  BY EmissionAssumption
<1>3. Told' = Told
  <2>1. pc'[a] = to /\ \A b \in Attempt : b # a => pc'[b] = pc[b]
    BY <1>2 DEF IInv, TypeOK
  <2>2. pc[a] \notin {"answered", "replayed"}
    BY DEF Holds, Holding, InService
  <2>3. \A b \in Keyed : Told'[b] = Told[b]
    BY <1>2, <2>1, <2>2 DEF Told
  <2> QED
    BY <2>3 DEF Told
<1>4. a \in AtWork[SaleOf[a]]
  BY AloneAtWork
<1>5. CASE m = "none"
  <2>1. Left[SaleOf[a]] = {}
    BY <1>2, <1>5, AloneAtWork DEF IInv, KeyInv, Unsent
  <2>2. KeyStates' = [KeyStates EXCEPT ![SaleOf[a]] = "open"]
    BY <1>1, <1>5
  <2>3. Promise!GiveBack(a)
    BY <1>1, <1>3, <1>4, <2>1, <2>2, StayApart
       DEF Promise!GiveBack, Promise!Works, Promise!Stop, KeyStates, AtWork, Numbers, Left, Told
  <2> QED
    BY <1>1, <2>3
<1>6. CASE m # "none"
  <2>1. KeyStates' = [KeyStates EXCEPT ![SaleOf[a]] = "taken"]
    BY <1>1, <1>6
  <2>2. Promise!GiveUp(a)
    BY <1>1, <1>3, <1>4, <2>1, StayApart
       DEF Promise!GiveUp, Promise!Works, Promise!Stop, KeyStates, AtWork, Numbers, Left, Told
  <2> QED
    BY <1>1, <2>2
<1> QED
  BY <1>5, <1>6

(* The mark becomes done: the answer is the number of what left.           *)
LEMMA FinishAnswers ==
  ASSUME IInv, AnsweredOnceDone, NEW a \in Keyed, Finish(a)
  PROVE  AnsweredOnceDone' /\ Promise!Answer(a)
<1>1. /\ pc[a] = "archived" /\ pc' = [pc EXCEPT ![a] = "answered"]
      /\ mark' = [mark EXCEPT ![SaleOf[a]] = "done"]
      /\ response' = [response EXCEPT ![SaleOf[a]] = folio[a]]
      /\ UNCHANGED <<folio, received>>
  BY DEF Finish, Goto
<1>2. /\ a \in Attempt /\ SaleOf[a] \in Sale /\ Keyed \subseteq Attempt /\ Holds(a)
      /\ "answered" \in Places \ Holding
  BY <1>1, EmissionAssumption DEF Holds, Holding, InService, Places, Ended
<1>3. /\ AtWork' = [AtWork EXCEPT ![SaleOf[a]] = {}]
      /\ KeyStates' = [KeyStates EXCEPT ![SaleOf[a]] = "done"]
      /\ AnsweredOnceDone'
      /\ \A b \in Keyed : b # a /\ pc[b] \in {"answered", "replayed"} => SaleOf[b] # SaleOf[a]
  <2>1. PICK m \in {"none", "running", "done", "failed"} : m = "done"
    OBVIOUS
  <2>2. mark' = [mark EXCEPT ![SaleOf[a]] = m]
    BY <1>1, <2>1
  <2> QED
    BY <1>1, <1>2, <2>1, <2>2, HolderStops
<1>4. UNCHANGED <<Numbers, Left>>
  BY <1>1 DEF Numbers, Left
<1>5. Told' = [Told EXCEPT ![a] = Numbers[a]]
  <2>1. /\ pc'[a] = "answered" /\ \A b \in Attempt : b # a => pc'[b] = pc[b]
        /\ response'[SaleOf[a]] = folio[a]
        /\ \A s \in Sale : s # SaleOf[a] => response'[s] = response[s]
        /\ \A b \in Keyed : SaleOf[b] \in Sale
    BY <1>1, <1>2, EmissionAssumption DEF IInv, TypeOK
  <2>2. ASSUME NEW b \in Keyed PROVE Told'[b] = IF b = a THEN Numbers[a] ELSE Told[b]
    BY <1>2, <1>3, <2>1 DEF Told, Numbers
  <2> QED
    BY <2>2 DEF Told
<1>6. a \in AtWork[SaleOf[a]] /\ Left[SaleOf[a]] \subseteq {a}
  <2>1. AtWork[SaleOf[a]] = {a} /\ Left[SaleOf[a]] = IF received[a] THEN {a} ELSE {}
    BY <1>2, AloneAtWork
  <2> QED
    BY <2>1
<1>7. Numbers[a] = folio[a] /\ folio[a] # 0
  BY <1>1, <1>2 DEF IInv, FolioInv, Numbered, NumberedPlaces, Numbers
<1> QED
  BY <1>1, <1>3, <1>4, <1>5, <1>6, <1>7
     DEF Promise!Answer, Promise!Works, Promise!Stop, KeyStates, AtWork, Numbers, Left, Told

(* _replay of a done mark repeats its response; any other tells nothing.   *)
LEMMA ReplayRepeats ==
  ASSUME IInv, AnsweredOnceDone, NEW a \in Attempt, Replay(a)
  PROVE  AnsweredOnceDone' /\ ((a \in Keyed /\ Promise!Repeat(a)) \/ UNCHANGED promise)
<1>1. /\ pc[a] = "replaying" /\ UNCHANGED <<keyVars, folio, received>>
      /\ \/ mark[SaleOf[a]] = "done" /\ pc' = [pc EXCEPT ![a] = "replayed"]
         \/ \E to \in {"conflict", "error"} : pc' = [pc EXCEPT ![a] = to]
  BY DEF Replay, Goto
<1>2. /\ {"conflict", "error", "replayed"} \subseteq Places \ Holding
      /\ "replaying" \notin Holding /\ Keyed \subseteq Attempt
  BY EmissionAssumption DEF Places, Holding, InService, Ended
<1>3. CASE a \notin Keyed \/ \E to \in {"conflict", "error"} : pc' = [pc EXCEPT ![a] = to]
  <2>1. PICK to \in {"conflict", "error", "replayed"} :
          /\ pc' = [pc EXCEPT ![a] = to]
          /\ a \in Keyed => to # "replayed"
    BY <1>1, <1>3
  <2> QED
    BY <1>1, <1>2, <2>1, KeysStay
<1>4. CASE a \in Keyed /\ mark[SaleOf[a]] = "done" /\ pc' = [pc EXCEPT ![a] = "replayed"]
  <2>1. /\ SaleOf[a] \in Sale /\ pc'[a] = "replayed"
        /\ \A b \in Attempt : b # a => pc'[b] = pc[b]
        /\ UNCHANGED <<mark, response>>
    BY <1>1, <1>4, EmissionAssumption DEF IInv, TypeOK, keyVars
  <2>2. AnsweredOnceDone'
    BY <1>2, <1>4, <2>1 DEF AnsweredOnceDone
  <2>3. UNCHANGED <<KeyStates, Numbers, Left>> /\ KeyStates[SaleOf[a]] = "done"
    BY <1>1, <1>4, <2>1 DEF KeyStates, Numbers, Left
  <2>4. AtWork' = AtWork
    <3>1. ASSUME NEW s \in Sale PROVE AtWork'[s] = AtWork[s]
      BY <1>1, <1>2, <2>1 DEF AtWork, Holding
    <3> QED
      BY <3>1 DEF AtWork
  <2>5. Told' = [Told EXCEPT ![a] = response[SaleOf[a]]] /\ Told[a] = 0
    <3>1. ASSUME NEW b \in Keyed
          PROVE  Told'[b] = IF b = a THEN response[SaleOf[a]] ELSE Told[b]
      BY <1>2, <2>1 DEF Told
    <3> QED
      BY <1>1, <1>4, <3>1 DEF Told
  <2> QED
    BY <1>4, <2>1, <2>2, <2>3, <2>4, <2>5
       DEF Promise!Repeat, KeyStates, AtWork, Numbers, Left, Told
<1> QED
  BY <1>1, <1>3, <1>4

Silent(a) ==
  \/ StartUnkeyed(a) \/ KeyTaken(a) \/ ArchiveCheck(a) \/ RejectData(a) \/ NoFolio(a)
  \/ ReservedSpent(a) \/ Build(a) \/ BuildFails(a) \/ Authenticate(a) \/ SendFails(a)
  \/ MarkIssued(a)

(* Between the steps that a client can tell apart there are those it       *)
(* cannot.                                                                 *)
LEMMA SilentStays ==
  ASSUME IInv, AnsweredOnceDone, NEW a \in Attempt, Silent(a)
  PROVE  AnsweredOnceDone' /\ UNCHANGED promise
<1>1. /\ UNCHANGED <<keyVars, folio, received>>
      /\ \/ a \notin Keyed /\ pc' = [pc EXCEPT ![a] = "claimed"]
         \/ pc[a] = "idle" /\ pc' = [pc EXCEPT ![a] = "replaying"]
         \/ /\ pc[a] \in Holding
            /\ \E to \in Holding : pc' = [pc EXCEPT ![a] = to]
  <2>1. CASE StartUnkeyed(a) \/ KeyTaken(a)
    BY <2>1 DEF StartUnkeyed, KeyTaken, Goto
  <2>2. CASE ArchiveCheck(a) \/ RejectData(a) \/ NoFolio(a) \/ ReservedSpent(a)
    BY <2>2 DEF ArchiveCheck, RejectData, NoFolio, ReservedSpent, Goto, Holding, InService
  <2>3. CASE Build(a) \/ BuildFails(a) \/ Authenticate(a)
    BY <2>3 DEF Build, BuildFails, Authenticate, Goto, Holding, InService
  <2>4. CASE SendFails(a) \/ MarkIssued(a)
    BY <2>4 DEF SendFails, MarkIssued, Goto, Holding, InService
  <2> QED
    BY <2>1, <2>2, <2>3, <2>4 DEF Silent
<1>2. PICK to \in {"claimed", "replaying"} \cup Holding :
        /\ pc' = [pc EXCEPT ![a] = to]
        /\ a \in Keyed => /\ to \in Holding <=> pc[a] \in Holding
                         /\ pc[a] \in {"idle"} \cup Holding
  BY <1>1 DEF Holding, InService
<1>3. /\ to \in Places /\ to \notin {"answered", "replayed"}
      /\ a \in Keyed => pc[a] \notin {"answered", "replayed"}
  BY <1>2 DEF Holding, InService, Places
<1> QED
  BY <1>1, <1>2, <1>3, KeysStay

Ends(a) == CloseFailed(a) \/ ArchiveCommit(a) \/ Finish(a) \/ Crash(a)

(* An attempt ends: with an answer, a failure or a crash; without a key,   *)
(* or only repeating, it ends unseen.                                      *)
LEMMA EndsStop ==
  ASSUME IInv, AnsweredOnceDone, NEW a \in Attempt, Ends(a)
  PROVE  /\ AnsweredOnceDone'
         /\ \/ UNCHANGED promise
            \/ a \in Keyed /\ (Promise!GiveBack(a) \/ Promise!GiveUp(a) \/ Promise!Answer(a))
<1>1. pc[a] \in InService /\ (pc[a] \in Holding \/ Crash(a)) /\ UNCHANGED <<folio, received>>
  BY DEF Ends, CloseFailed, ArchiveCommit, Finish, Crash, Holding, InService
<1>2. CASE a \notin Keyed \/ pc[a] \notin Holding
  <2>1. UNCHANGED keyVars
    BY <1>1, <1>2 DEF Ends, CloseFailed, ArchiveCommit, Finish, Crash, keyVars
  <2>2. PICK to \in {"refused", "archived", "error", "answered", "crashed"} :
          /\ pc' = [pc EXCEPT ![a] = to]
          /\ a \in Keyed => to = "crashed"
    BY <1>1, <1>2 DEF Ends, CloseFailed, ArchiveCommit, Finish, Crash, Goto
  <2>3. to \in Places /\ "crashed" \notin Holding
    BY <2>2 DEF Places, InService, Ended, Holding
  <2>4. pc[a] \notin {"answered", "replayed"}
    BY <1>1 DEF InService
  <2> QED
    BY <1>1, <1>2, <2>1, <2>2, <2>3, <2>4, KeysStay
<1>3. CASE a \in Keyed /\ Finish(a)
  BY <1>3, FinishAnswers
<1>4. CASE a \in Keyed /\ pc[a] \in Holding /\ pc' = [pc EXCEPT ![a] = "archived"]
           /\ UNCHANGED keyVars
  <2>1. "archived" \in Places /\ "archived" \in Holding
    BY DEF Places, InService, Holding
  <2>2. pc[a] \notin {"answered", "replayed"}
    BY <1>4 DEF Holding, InService
  <2> QED
    BY <1>1, <1>4, <2>1, <2>2, KeysStay
<1>5. CASE a \in Keyed /\ pc[a] \in Holding /\ UNCHANGED keyVars
           /\ \E to \in {"error", "crashed"} : pc' = [pc EXCEPT ![a] = to]
  <2>1. PICK to \in {"error", "crashed"} : pc' = [pc EXCEPT ![a] = to]
    BY <1>5
  <2>2. Holds(a) /\ to \in Places \ Holding /\ to \notin {"answered", "replayed"}
    BY <1>5, <2>1 DEF Holds, Places, Ended, Holding, InService
  <2>3. PICK m \in {"none", "running", "failed"} : m = "running"
    OBVIOUS
  <2>4. mark' = [mark EXCEPT ![SaleOf[a]] = m] /\ UNCHANGED response
    <3>1. mark[SaleOf[a]] = m
      BY <1>5, <2>2, <2>3, AloneAtWork
    <3>2. mark' = mark /\ response' = response /\ mark = [mark EXCEPT ![SaleOf[a]] = mark[SaleOf[a]]]
      BY <1>5 DEF keyVars, IInv, TypeOK
    <3> QED
      BY <3>1, <3>2
  <2> QED
    BY <1>1, <1>5, <2>1, <2>2, <2>3, <2>4, FailureStops
<1>6. CASE a \in Keyed /\ CloseFailed(a)
  <2>1. PICK m \in {"none", "running", "failed"} :
          /\ mark' = [mark EXCEPT ![SaleOf[a]] = m]
          /\ m = "none" => pc[a] = "raising_data"
    BY <1>6 DEF CloseFailed
  <2>2. /\ Holds(a) /\ pc' = [pc EXCEPT ![a] = "refused"]
        /\ "refused" \in Places \ Holding
        /\ UNCHANGED response
    BY <1>6 DEF CloseFailed, Goto, Holds, Places, Ended, Holding, InService
  <2>3. m = "none" => pc[a] \in UnsentPlaces
    BY <2>1 DEF UnsentPlaces
  <2> QED
    BY <1>1, <1>6, <2>1, <2>2, <2>3, FailureStops
<1> QED
  BY <1>1, <1>2, <1>3, <1>4, <1>5, <1>6 DEF Ends, ArchiveCommit, Crash, Goto

(* Every step of Emission is a step of OncePerKey, or none.                *)
LEMMA OnceStep ==
  ASSUME IInv, AnsweredOnceDone, [Next]_vars
  PROVE  AnsweredOnceDone' /\ [Promise!OnceNext]_(Promise!onceVars)
<1>1. UNCHANGED promise => [Promise!OnceNext]_(Promise!onceVars)
  BY DEF promise, Promise!onceVars, KeyStates, AtWork, Numbers, Left, Told
<1>2. ASSUME UNCHANGED <<mark, response, pc, folio, received>>
      PROVE  AnsweredOnceDone' /\ UNCHANGED promise
  BY <1>2 DEF AnsweredOnceDone, promise, KeyStates, AtWork, Numbers, Left, Told
<1>3. CASE UNCHANGED vars
  BY <1>1, <1>2, <1>3 DEF vars
<1>4. ASSUME NEW s \in Sale, Reserve(s)
      PROVE  AnsweredOnceDone' /\ UNCHANGED promise
  BY <1>2, <1>4 DEF Reserve, keyVars
<1>5. ASSUME NEW a \in Attempt, Claim(a)
      PROVE  AnsweredOnceDone' /\ [Promise!OnceNext]_(Promise!onceVars)
  BY <1>5, ClaimBegins DEF Claim, Promise!OnceNext
<1>6. ASSUME NEW a \in Attempt, NextFolio(a) \/ UseReserved(a) \/ Post(a) \/ Replay(a)
      PROVE  AnsweredOnceDone' /\ [Promise!OnceNext]_(Promise!onceVars)
  BY <1>1, <1>6, FolioNumbers, PostDelivers, ReplayRepeats DEF Promise!OnceNext
<1>7. ASSUME NEW a \in Attempt, Silent(a)
      PROVE  AnsweredOnceDone' /\ UNCHANGED promise
  BY <1>7, SilentStays
<1>8. ASSUME NEW a \in Attempt, Ends(a)
      PROVE  AnsweredOnceDone' /\ [Promise!OnceNext]_(Promise!onceVars)
  BY <1>1, <1>8, EndsStop DEF Promise!OnceNext
<1> QED
  BY <1>1, <1>3, <1>4, <1>5, <1>6, <1>7, <1>8 DEF Next, Start, Serve, Silent, Ends

(* Emission implements OncePerKey: whatever the attempts of a key do, one  *)
(* works at a time, one document leaves, and all who are answered are told *)
(* its folio (run, _claim, _replay, _close_failed).                        *)
THEOREM PromiseKept == Spec => KeepsPromise
<1>1. Init => AnsweredOnceDone /\ Promise!OnceInit
  BY EmissionAssumption DEF Init, AnsweredOnceDone, Promise!OnceInit, InService
<1>2. IInv /\ AnsweredOnceDone /\ [Next]_vars =>
        AnsweredOnceDone' /\ [Promise!OnceNext]_(Promise!onceVars)
  BY OnceStep
<1> QED
  BY <1>1, <1>2, Invariance, PTL DEF Spec, KeepsPromise, Promise!OnceSpec
=============================================================================
