CONSTANTS
  NoReservation = NoReservation
  dtes = dtes
  boletas = boletas
  retry = retry
  sale = sale
  Lot = {dtes}
  Receipts = {}
  Docs <- MCDangling
  Reservation = {}
  TypeOf <- MCTypeOf
  MaxFolio = 2
SPECIFICATION Spec
INVARIANT RefusedLotSpendsNothing
CHECK_DEADLOCK FALSE
