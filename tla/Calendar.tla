------------------------------- MODULE Calendar -------------------------------
(***************************************************************************)
(* Dates and times of day (cTimeUnits, cTimeInt, cTimeDouble, cTimeFile):   *)
(* the arithmetic of the Gregorian calendar.  A cTimeUnits is a record; an  *)
(* instant (cTimeInt, cTimeDouble, cTimeFile) is a pair of a day number and *)
(* a second of that day, because it does not fit 32 bits; the fractions of  *)
(* a second, which cTimeInt drops, are left out.                            *)
(***************************************************************************)
EXTENDS Integers

k_nSecondsPerDay == 86400
k_nDaysDiffTimeInt == 25569                \* from 1899/12/30 to 1970/1/1
k_nDaysDiffFile == 369 * 365 + 89          \* from 1601/1/1 to 1970/1/1
k_aMonthDays == << <<31, 28, 31, 30, 31, 30, 31, 31, 30, 31, 30, 31>>,
                   <<31, 29, 31, 30, 31, 30, 31, 31, 30, 31, 30, 31>> >>
k_aMonthDaySums ==
  << <<0, 31, 59, 90, 120, 151, 181, 212, 243, 273, 304, 334, 365>>,
     <<0, 31, 60, 91, 121, 152, 182, 213, 244, 274, 305, 335, 366>> >>

Units(y, mo, d, h, mi, s, tz) ==
  [Year |-> y, Month |-> mo, Day |-> d, Hour |-> h, Minute |-> mi,
   Second |-> s, TZ |-> tz]
SetZeros == Units(1, 1, 1, 0, 0, 0, 0)
NoUnits == Units(0, 0, 0, 0, 0, 0, 0)     \* no date: the call answers false

(* The / and % of C, which truncate toward zero.                            *)
Quot(a, b) == IF a >= 0 THEN a \div b ELSE -((-a) \div b)
Rem(a, b) == a - b * Quot(a, b)

IsLeapYear(y) == IF y % 4 # 0 THEN 0
                 ELSE IF y % 100 # 0 THEN 1
                 ELSE IF y % 400 # 0 THEN 0 ELSE 1

(* The leap days from the first day of 2000 to the first day of y.          *)
LeapYearsNoFirst(y) ==           \* (a mutant: 2000 itself is forgotten)
  Quot(y - 2000, 4) + Quot(y - 2000, 400) - Quot(y - 2000, 100)
GetLeapYearsSince2K(y) ==
  LET one == IF y > 2000 THEN 1 ELSE 0
      n == y - 2000 - one
  IN one + Quot(n, 4) + Quot(n, 400) - Quot(n, 100)

(* What EncodeDate counts instead: the leap days from year 1 to year y.     *)
LeapDaysTo(y) == Quot(y - 1, 4) + Quot(y - 1, 400) - Quot(y - 1, 100)

MonthDays(y, mo) == k_aMonthDays[IsLeapYear(y) + 1][mo]
DaysBefore(y, mo) == k_aMonthDaySums[IsLeapYear(y) + 1][mo]
IsValidMonth(t) == t.Month \in 1..12
DaysInMonth(t) == IF IsValidMonth(t) THEN MonthDays(t.Year, t.Month) ELSE 0
DayOfYear(t) ==
  IF IsValidMonth(t) THEN DaysBefore(t.Year, t.Month) + t.Day - 1 ELSE 0
DaysInYear(t) == IF IsLeapYear(t.Year) = 1 THEN 366 ELSE 365
SecondOfDay(t) == t.Second + t.Minute * 60 + t.Hour * 3600

IsValidTimeUnits(t) ==
  /\ IsValidMonth(t)
  /\ t.Day >= 1 /\ t.Day <= DaysInMonth(t)
  /\ t.Hour <= 23 /\ t.Minute <= 59 /\ t.Second <= 59
IsReasonableTimeUnits(t) ==
  t.Year >= 1900 /\ t.Year <= 2500 /\ IsValidTimeUnits(t)

GetDOW(y, mo, d) ==
  LET days == Rem((y - 2000) + GetLeapYearsSince2K(y) + DaysBefore(y, mo)
                    + (d - 1) + 6, 7)
  IN IF days < 0 THEN days + 7 ELSE days

Fields == <<"Year", "Month", "Day", "Hour", "Minute", "Second">>
Compare(a, b) ==
  LET differ == {i \in DOMAIN Fields : a[Fields[i]] # b[Fields[i]]}
      first == CHOOSE i \in differ : \A j \in differ : i <= j
  IN IF differ = {} THEN 0
     ELSE IF a[Fields[first]] > b[Fields[first]] THEN 1 ELSE -1

-----------------------------------------------------------------------------
(* isInDST1: the rules of the United States.  FirstSunday is the first      *)
(* Sunday from a day of the month on.                                       *)
FirstSunday(y, mo, day) == day + ((7 - GetDOW(y, mo, day)) % 7)
IsInDST1(t) ==
  LET lo == IF t.Year >= 2007 THEN 3 ELSE 4
      hi == IF t.Year >= 2007 THEN 11 ELSE 10
      low == t.Month < 6
      hour == IF low \/ t.Year >= 2007 THEN 2 ELSE 1
      last == MonthDays(t.Year, t.Month) - 6
      from == IF t.Year < 1987 THEN last
              ELSE IF t.Year < 2007 THEN IF low THEN 1 ELSE last
              ELSE IF low THEN 8 ELSE 1
      sunday == FirstSunday(t.Year, t.Month, from)
  IN IF t.Month < lo \/ t.Month > hi THEN FALSE
     ELSE IF t.Month > lo /\ t.Month < hi THEN TRUE
     ELSE IF low THEN t.Day > sunday \/ (t.Day = sunday /\ t.Hour >= hour)
     ELSE t.Day < sunday \/ (t.Day = sunday /\ t.Hour < hour)

(* The packed date of FAT and ZIP: the fields overlap when one is too wide. *)
GetDosDate(t) ==
  LET year == IF t.Year > 1980 THEN t.Year - 1980
              ELSE IF t.Year > 80 THEN t.Year - 80 ELSE t.Year
  IN [date |-> (t.Day + 32 * t.Month + 512 * year) % 65536,
      time |-> t.Second \div 2 + 32 * t.Minute + 2048 * t.Hour]
PutDosDate(p) ==
  Units(1980 + p.date \div 512, (p.date \div 32) % 16, p.date % 32,
        p.time \div 2048, (p.time \div 32) % 64, 2 * (p.time % 32), 0)

-----------------------------------------------------------------------------
(* Instants: [day, sec], and the conversions between their three origins.   *)
At(day, sec) == [day |-> day + sec \div k_nSecondsPerDay,
                 sec |-> sec % k_nSecondsPerDay]
k_nZero == At(0, 0)
Invalid == [day |-> -1, sec |-> 0]        \* no time: the calls answer false
IsTimeValid(time) == time.day >= 0 /\ time # k_nZero
GetAsFileTime(time) == At(time.day + k_nDaysDiffFile, time.sec)
TimeIntOfFile(file) == At(file.day - k_nDaysDiffFile, file.sec)
GetTimeFromSec(time) == At(time.day + k_nDaysDiffTimeInt, time.sec)
GetTimeFromDays(double) == At(double.day - k_nDaysDiffTimeInt, double.sec)
DoubleAsFileTime(double) == At(double.day + 109205, double.sec)
GetTimeFromFile(file) == At(file.day - 109205, file.sec)

(* The offset of a zone in minutes west, without daylight saving.           *)
TZ_UTC == 0
TZ_MAX == 24 * 60
TZ_LOCAL == 32767
MinutesWest(t, local) ==
  (IF t.TZ = TZ_LOCAL THEN local ELSE t.TZ) - (IF IsInDST1(t) THEN 60 ELSE 0)
ZoneSeconds(t, local) == IF t.TZ = TZ_UTC THEN 0 ELSE 60 * MinutesWest(t, local)

(* cTimeInt::InitTimeUnits: what is left of the instant old.                *)
InitTimeUnits(old, t, local) ==
  LET days == (t.Year - 1970) * 365 + GetLeapYearsSince2K(t.Year) + 7
                + DaysBefore(t.Year, t.Month) + t.Day - 1
  IN IF ~IsValidTimeUnits(t) THEN k_nZero
     ELSE IF t.Year < 1970 THEN old
     ELSE At(days, SecondOfDay(t) + ZoneSeconds(t, local))

(* cTimeInt::GetTimeUnits up to AddTZ.  No second up to the first of 1970   *)
(* is "a legal time".  The product of the years and the seconds of a year   *)
(* is an int that overflows from the 69th year on: this is the answer for   *)
(* the times before.                                                        *)
UtcUnits(time) ==
  LET guess == 1970 + time.day \div 365
      rest == (time.day % 365) - (GetLeapYearsSince2K(guess) + 7)
      year == IF rest < 0 THEN guess - 1 ELSE guess
      day == IF rest < 0 THEN rest + 365 + IsLeapYear(year) ELSE rest
      sums == k_aMonthDaySums[IsLeapYear(year) + 1]
      month == CHOOSE m \in 1..12 : sums[m] <= day /\ day < sums[m + 1]
  IN IF ~IsTimeValid(time) THEN NoUnits
     ELSE Units(year, month, 1 + day - sums[month], time.sec \div 3600,
                (time.sec % 3600) \div 60, time.sec % 60, 0)

-----------------------------------------------------------------------------
(* cTimeDouble: an OLE date, and its own way from a date to a day and back. *)
EncodeDate(y, mo, d) ==
  IF \/ y <= 0 \/ y > 9999 \/ mo < 1 \/ mo > 12
     \/ d < 1 \/ d > MonthDays(y, mo)
  THEN 0
  ELSE (y - 1) * 365 + LeapDaysTo(y) - 693594 + DaysBefore(y, mo) + d

DoubleOfUnits(old, t, local) ==
  LET day == EncodeDate(t.Year, t.Month, t.Day)
      west == (IF t.TZ > TZ_MAX THEN local ELSE t.TZ)
                 - (IF IsInDST1(t) THEN 60 ELSE 0)
      zone == IF t.TZ = TZ_UTC THEN 0 ELSE 60 * west
  IN IF ~IsValidTimeUnits(t) THEN old
     ELSE At(day, (IF day > 0 THEN SecondOfDay(t) ELSE 0) + zone)

(* DecodeDate: 400 years, their century, its four years, their year; then   *)
(* the month, in the table of a year without a leap day.                    *)
DecodeYear(day) ==
  LET absolute == day + 693959
      in400 == absolute % 146097
      century == Quot(in400 - 1, 36524)
      inCentury == Rem(in400 - 1, 36524)
      leap4 == century = 0 \/ (inCentury + 1) \div 1461 # 0
      n4Years == IF century = 0 THEN in400 \div 1461
                 ELSE (inCentury + 1) \div 1461
      n4Day == IF century = 0 THEN in400 % 1461
               ELSE IF leap4 THEN (inCentury + 1) % 1461 ELSE inCentury
      n4Yr == IF leap4 THEN Quot(n4Day - 1, 365) ELSE n4Day \div 365
      dayOfYear == IF ~leap4 THEN n4Day % 365
                   ELSE IF n4Yr # 0 THEN (n4Day - 1) % 365 ELSE n4Day
  IN [year |-> (absolute \div 146097) * 400 + century * 100 + n4Years * 4 + n4Yr,
      isLeap |-> n4Yr = 0 /\ leap4, day |-> dayOfYear]

MonthAfter(base1) ==
  CHOOSE m \in 1..12 : /\ m > base1 \div 32 /\ base1 <= k_aMonthDaySums[1][m + 1]
                       /\ \A k \in (base1 \div 32 + 1)..(m - 1) :
                            base1 > k_aMonthDaySums[1][k + 1]

DecodeDate(day) ==
  LET of == DecodeYear(day)
      base1 == IF of.isLeap /\ of.day >= 60 THEN of.day ELSE of.day + 1
      month == MonthAfter(base1)
  IN IF of.isLeap /\ of.day = 59 THEN <<of.year, 2, 29>>
     ELSE <<of.year, month, base1 - k_aMonthDaySums[1][month]>>

UnitsOfDouble(double) ==
  LET date == DecodeDate(double.day) IN
  Units(date[1], date[2], date[3], double.sec \div 3600,
        (double.sec % 3600) \div 60, double.sec % 60, 0)
DayOfWeek(double) == (double.day - 1) % 7
=============================================================================
