------------------------------- MODULE CafDates -----------------------------
(***************************************************************************)
(* Until when a CAF may be used (caf.py), by the three clocks that ask:    *)
(* next_folio looks at the date of the host, the inventory of folios at    *)
(* the date in UTC, and a document is stamped with the time of Chile. A    *)
(* date is <<year, month, day>> and an instant [date, hour] in UTC.        *)
(***************************************************************************)
EXTENDS Integers

EXPIRING_TYPES == {33, 43, 46, 56, 61}
VALIDITY_MONTHS == 6
NEVER == <<0, 0, 0>>

Leap(year) == (year % 4 = 0 /\ year % 100 # 0) \/ year % 400 = 0
MonthLength(year, month) ==
  IF month = 2 THEN (IF Leap(year) THEN 29 ELSE 28)
  ELSE IF month \in {4, 6, 9, 11} THEN 30 ELSE 31

Before(d, e) ==
  \/ d[1] < e[1]
  \/ d[1] = e[1] /\ (d[2] < e[2] \/ (d[2] = e[2] /\ d[3] < e[3]))

Yesterday(d) ==
  IF d[3] > 1 THEN <<d[1], d[2], d[3] - 1>>
  ELSE IF d[2] > 1 THEN <<d[1], d[2] - 1, MonthLength(d[1], d[2] - 1)>>
  ELSE <<d[1] - 1, 12, 31>>

Tomorrow(d) ==
  IF d[3] < MonthLength(d[1], d[2]) THEN <<d[1], d[2], d[3] + 1>>
  ELSE IF d[2] < 12 THEN <<d[1], d[2] + 1, 1>>
  ELSE <<d[1] + 1, 1, 1>>

(* The same day some months later, or the last one of a shorter month.     *)
AddMonths(d, months) ==
  LET index == d[2] - 1 + months
      year == d[1] + (index \div 12)
      month == (index % 12) + 1
      length == MonthLength(year, month)
  IN  <<year, month, IF d[3] < length THEN d[3] ELSE length>>

(* Seeded fault: the same day six months later is still good.              *)
ExpiresOn_SameDay(docType, authorized) ==
  IF docType \notin EXPIRING_TYPES \/ authorized = NEVER THEN NEVER
  ELSE AddMonths(authorized, VALIDITY_MONTHS)
(* The last day it may be used.                                            *)
ExpiresOn(docType, authorized) ==
  IF docType \notin EXPIRING_TYPES \/ authorized = NEVER THEN NEVER
  ELSE Yesterday(AddMonths(authorized, VALIDITY_MONTHS))

IsExpired(docType, authorized, today) ==
  LET expires == ExpiresOn(docType, authorized)
  IN  expires # NEVER /\ Before(expires, today)

(* The date a clock that is so many hours behind UTC shows.                *)
DateAt(instant, behind) ==
  IF instant.hour >= behind THEN instant.date ELSE Yesterday(instant.date)

(* next_folio takes the date of the host, folio_report that of UTC.        *)
AllocatorRefuses(docType, authorized, instant, hostBehind) ==
  IsExpired(docType, authorized, DateAt(instant, hostBehind))
InventoryExpired(docType, authorized, instant) ==
  IsExpired(docType, authorized, DateAt(instant, 0))

(* The stamp of a document says when in Chile it was made.                 *)
StampDate(instant, chileBehind) == DateAt(instant, chileBehind)
-----------------------------------------------------------------------------
(* The same day of the sixth month after, which that month may not have.   *)
SameDayLater(d) ==
  IF d[2] <= 12 - VALIDITY_MONTHS THEN <<d[1], d[2] + VALIDITY_MONTHS, d[3]>>
  ELSE <<d[1] + 1, d[2] + VALIDITY_MONTHS - 12, d[3]>>

(* A document the allocator gives a folio for is stamped, in Chile, before *)
(* six months have passed since the CAF was authorised; it is refused only *)
(* when no more than two days are left of them; and what it refuses the    *)
(* inventory already shows as expired.                                     *)
UsedInTime(docType, authorized, instant, hostBehind, chileBehind, refused) ==
  LET host == DateAt(instant, hostBehind)
  IN  docType \in EXPIRING_TYPES =>
        /\ ~refused => Before(StampDate(instant, chileBehind), SameDayLater(authorized))
        /\ refused => ~Before(Tomorrow(Tomorrow(Tomorrow(host))), SameDayLater(authorized))
        /\ refused => InventoryExpired(docType, authorized, instant)
=============================================================================
