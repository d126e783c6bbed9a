--------------------------- MODULE FolioDispenser ---------------------------
(***************************************************************************)
(* What the folio service promises its callers, for one customer and one   *)
(* document type: every call that is answered receives a number inside a   *)
(* range the tax authority (SII) authorised, greater than every number     *)
(* handed out before it. Calls may also go unanswered; a number, once      *)
(* handed out, never changes hands.                                        *)
(*                                                                         *)
(* FolioAllocator, the detailed model of app/services/folio_service.py,    *)
(* implements this specification; Emission numbers documents with Give.    *)
(***************************************************************************)
EXTENDS Naturals

CONSTANTS
  Call,     \* the calls of next_folio
  Ranges     \* the authorised ranges: a set of records [from, to]

VARIABLES
  last,     \* the highest folio handed out, 0 before the first
  given     \* the folio each call received, 0 while it has none

dispenserVars == <<last, given>>

Authorised(f) == \E g \in Ranges : g.from <= f /\ f <= g.to

DispenserInit ==
  /\ last = 0
  /\ given = [r \in Call |-> 0]

Give(r) ==
  /\ given[r] = 0
  /\ last' \in Nat
  /\ last' > last
  /\ Authorised(last')
  /\ given' = [given EXCEPT ![r] = last']

DispenserNext == \E r \in Call : Give(r)

DispenserSpec == DispenserInit /\ [][DispenserNext]_dispenserVars
=============================================================================
