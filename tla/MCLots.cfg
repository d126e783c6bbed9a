CONSTANTS
  NoReservation = NoReservation
  dtes = dtes
  boletas = boletas
  retry = retry
  sale = sale
  Lot = {dtes, boletas, retry}
  Receipts = {boletas, retry}
  Docs <- MCDocs
  Reservation = {sale}
  TypeOf <- MCTypeOf
  MaxFolio = 2
SPECIFICATION FairSpec
INVARIANTS
  TypeOK
  FateIsShared
  IssuedReceiptIsStored
  SubmissionCounts
PROPERTIES
  ReservedNotReused
  DrawsFromDispenser
  LotsEnd
CHECK_DEADLOCK FALSE
