------------------------------- MODULE MCLots -------------------------------
(* A lot of DTE whose second document refers to another position, a lot of *)
(* two receipts the first of which names a reserved folio, and the ERP's   *)
(* second request for that receipt.                                        *)
EXTENDS Lots, TLC

CONSTANTS dtes, boletas, retry, sale

Invoice(ref) == [type |-> 33, named |-> NoReservation, ref |-> ref]
Receipt(named) == [type |-> 39, named |-> named, ref |-> 0]

MCReceipts == (boletas :> <<Receipt(sale), Receipt(NoReservation)>>)
                @@ (retry :> <<Receipt(sale)>>)

(* The second document refers to the first. *)
MCDocs == (dtes :> <<Invoice(0), Invoice(1)>>) @@ MCReceipts

(* It refers to a third, which the lot does not have. *)
MCDangling == (dtes :> <<Invoice(0), Invoice(3)>>) @@ MCReceipts

MCTypeOf == [r \in Reservation |-> 39]
=============================================================================
