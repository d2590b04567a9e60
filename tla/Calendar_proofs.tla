---------------------------- MODULE Calendar_proofs ----------------------------
(***************************************************************************)
(* What the calendar of Calendar computes for every date: the three ways to *)
(* count days (cTimeInt, cTimeDouble, cTimeUnits::GetDOW) agree, and each   *)
(* date is read back from its number.  Big numbers stay out of Zenon, which *)
(* counts up to them; SMTT keeps to the SMT solver.                         *)
(***************************************************************************)
EXTENDS Calendar, TLAPS

(* A cTimeUnits: a year of any sign, and fields that may be out of range.   *)
Stamps == [Year : Int, Month : Int, Day : Int, Hour : Nat, Minute : Nat, Second : Nat, TZ : Int]
(* The dates IsValidTimeUnits accepts, in UTC.                              *)
Dates == {t \in Stamps : IsValidTimeUnits(t) /\ t.TZ = TZ_UTC}
(* The days since the first of 1970, as InitTimeUnits adds them up.         *)
DayNumber(y, mo, d) == (y - 1970) * 365 + GetLeapYearsSince2K(y) + 7 + DaysBefore(y, mo) + d - 1
DayOf(t) == DayNumber(t.Year, t.Month, t.Day)

-----------------------------------------------------------------------------
(* cTimeUnits::GetLeapYearsSince2K and IsLeapYear agree on every year, of   *)
(* either sign and on both sides of 2000: the count of leap days grows by   *)
(* one over a leap year and by none over another.                           *)
THEOREM LeapYearsAreCounted ==
  ASSUME NEW y \in Int
  PROVE  GetLeapYearsSince2K(y + 1) = GetLeapYearsSince2K(y) + IsLeapYear(y)
<1>1. CASE y > 2000
  BY <1>1, SMTT(60) DEF GetLeapYearsSince2K, Quot, IsLeapYear
<1>2. CASE y = 2000
  BY <1>2 DEF GetLeapYearsSince2K, Quot, IsLeapYear
<1>3. CASE y < 2000
  BY <1>3, SMTT(60) DEF GetLeapYearsSince2K, Quot, IsLeapYear
<1> QED BY <1>1, <1>2, <1>3

(* Lemmas on the tables of the months and on the fields of a date.          *)
LEMMA MonthsAre ==
  ASSUME NEW y \in Int, NEW mo \in 1..12
  PROVE  /\ MonthDays(y, mo) \in 28..31 /\ DaysBefore(y, mo) \in Nat
         /\ mo < 12 => DaysBefore(y, mo + 1) = DaysBefore(y, mo) + MonthDays(y, mo)
<1>1. IsLeapYear(y) \in {0, 1}
  BY DEF IsLeapYear
<1>2. CASE IsLeapYear(y) = 0
  BY <1>2, SMTT(60) DEF MonthDays, DaysBefore, k_aMonthDays, k_aMonthDaySums
<1>3. CASE IsLeapYear(y) = 1
  BY <1>3, SMTT(60) DEF MonthDays, DaysBefore, k_aMonthDays, k_aMonthDaySums
<1> QED BY <1>1, <1>2, <1>3

LEMMA YearsAre ==
  ASSUME NEW y \in Int
  PROVE  /\ IsLeapYear(y) \in {0, 1} /\ GetLeapYearsSince2K(y) \in Int
         /\ DaysBefore(y, 1) = 0 /\ DaysBefore(y, 12) + MonthDays(y, 12) = 365 + IsLeapYear(y)
<1>1. IsLeapYear(y) \in {0, 1}
  BY DEF IsLeapYear
<1>2. GetLeapYearsSince2K(y) \in Int
  BY DEF GetLeapYearsSince2K, Quot
<1>3. CASE IsLeapYear(y) = 0
  BY <1>2, <1>3, SMTT(60) DEF MonthDays, DaysBefore, k_aMonthDays, k_aMonthDaySums
<1>4. CASE IsLeapYear(y) = 1
  BY <1>2, <1>4, SMTT(60) DEF MonthDays, DaysBefore, k_aMonthDays, k_aMonthDaySums
<1> QED BY <1>1, <1>3, <1>4

LEMMA DatesAre ==
  ASSUME NEW t \in Dates
  PROVE  /\ t.Year \in Int /\ t.Month \in 1..12 /\ t.Day \in 1..MonthDays(t.Year, t.Month)
         /\ t.Hour \in Nat /\ t.Hour <= 23 /\ t.Minute \in Nat /\ t.Minute <= 59
         /\ t.Second \in Nat /\ t.Second <= 59 /\ t.TZ = 0
         /\ t = Units(t.Year, t.Month, t.Day, t.Hour, t.Minute, t.Second, 0)
         /\ IsValidTimeUnits(t) /\ t \in Stamps
<1>1. t \in Stamps /\ IsValidTimeUnits(t) /\ t.TZ = 0
  BY DEF Dates, TZ_UTC
<1>2. t.Year \in Int /\ t.Month \in 1..12 /\ t.Day \in Int
  BY <1>1 DEF Stamps, IsValidTimeUnits, IsValidMonth
<1>3. t.Day \in 1..MonthDays(t.Year, t.Month)
  <2>1. MonthDays(t.Year, t.Month) \in 28..31
    BY <1>2, MonthsAre, Zenon
  <2> QED BY <1>1, <1>2, <2>1 DEF IsValidTimeUnits, DaysInMonth
<1>4. /\ t.Hour \in Nat /\ t.Hour <= 23 /\ t.Minute \in Nat /\ t.Minute <= 59
      /\ t.Second \in Nat /\ t.Second <= 59
  BY <1>1 DEF Stamps, IsValidTimeUnits
<1>5. t = Units(t.Year, t.Month, t.Day, t.Hour, t.Minute, t.Second, 0)
  BY <1>1 DEF Stamps, Units
<1> QED BY <1>1, <1>2, <1>3, <1>4, <1>5

LEMMA MonthIs ==
  ASSUME NEW t \in Dates
  PROVE  /\ MonthDays(t.Year, t.Month) \in 28..31 /\ DaysBefore(t.Year, t.Month) \in Nat
         /\ GetLeapYearsSince2K(t.Year) \in Int
<1>1. t.Year \in Int /\ t.Month \in 1..12
  BY DatesAre
<1> QED BY <1>1, MonthsAre, YearsAre, ZenonT(60)

LEMMA DayInYear ==
  ASSUME NEW y \in Int, NEW mo \in 1..12, NEW d \in 1..MonthDays(y, mo)
  PROVE  DaysBefore(y, mo) + d - 1 \in Nat /\ DaysBefore(y, mo) + d - 1 <= 364 + IsLeapYear(y)
<1>1. /\ MonthDays(y, mo) \in 28..31 /\ DaysBefore(y, mo) \in Nat /\ IsLeapYear(y) \in {0, 1}
  BY MonthsAre, YearsAre
<1>2. DaysBefore(y, mo) + MonthDays(y, mo) <= 365 + IsLeapYear(y)
  <2>1. CASE IsLeapYear(y) = 0
    BY <2>1, SMTT(60) DEF MonthDays, DaysBefore, k_aMonthDays, k_aMonthDaySums
  <2>2. CASE IsLeapYear(y) = 1
    BY <2>2, SMTT(60) DEF MonthDays, DaysBefore, k_aMonthDays, k_aMonthDaySums
  <2> QED BY <1>1, <2>1, <2>2
<1> QED BY <1>1, <1>2

LEMMA SecondsAre ==
  ASSUME NEW t \in Dates
  PROVE  SecondOfDay(t) \in Nat /\ SecondOfDay(t) < 86400
<1> DEFINE h == t.Hour
           m == t.Minute
           s == t.Second
<1>1. h \in Nat /\ h <= 23 /\ m \in Nat /\ m <= 59 /\ s \in Nat /\ s <= 59
  BY DatesAre
<1>2. SecondOfDay(t) = s + m * 60 + h * 3600
  BY DEF SecondOfDay
<1> HIDE DEF h, m, s
<1> QED BY <1>1, <1>2

(* The time of day is read back from its seconds.                           *)
LEMMA ClockIs ==
  ASSUME NEW t \in Dates
  PROVE  /\ SecondOfDay(t) \div 3600 = t.Hour /\ (SecondOfDay(t) % 3600) \div 60 = t.Minute
         /\ SecondOfDay(t) % 60 = t.Second
<1> DEFINE h == t.Hour
           m == t.Minute
           s == t.Second
           sec == SecondOfDay(t)
<1>1. sec = s + m * 60 + h * 3600
  BY DEF SecondOfDay
<1>2. h \in Nat /\ m \in Nat /\ m <= 59 /\ s \in Nat /\ s <= 59
  BY DatesAre
<1> HIDE DEF h, m, s, sec
<1>3. sec \div 3600 = h /\ sec % 3600 = s + m * 60
  BY <1>1, <1>2, SMTT(30)
<1>4. (s + m * 60) \div 60 = m /\ sec % 60 = s
  BY <1>1, <1>2, SMTT(30)
<1> QED BY <1>3, <1>4 DEF h, m, s, sec

LEMMA DayOfIs ==
  ASSUME NEW t \in Dates
  PROVE  DayOf(t) \in Int
<1>1. t.Year \in Int /\ t.Day \in Int
  BY DatesAre DEF Dates, Stamps
<1>2. GetLeapYearsSince2K(t.Year) \in Int /\ DaysBefore(t.Year, t.Month) \in Nat
  BY MonthIs
<1> QED BY <1>1, <1>2 DEF DayOf, DayNumber

LEMMA DateIs ==
  ASSUME NEW y \in Int, NEW mo \in 1..12, NEW d \in 1..MonthDays(y, mo),
         NEW h \in Nat, NEW mi \in Nat, NEW s \in Nat, h <= 23, mi <= 59, s <= 59
  PROVE  Units(y, mo, d, h, mi, s, 0) \in Dates
<1> DEFINE u == Units(y, mo, d, h, mi, s, 0)
<1>1. MonthDays(y, mo) \in 28..31
  BY MonthsAre, Zenon
<1>2. /\ u \in Stamps /\ u.Year = y /\ u.Month = mo /\ u.Day = d
      /\ u.Hour = h /\ u.Minute = mi /\ u.Second = s
      /\ u.TZ = 0
  BY <1>1 DEF Stamps, Units
<1> HIDE DEF u
<1>3. IsValidTimeUnits(u)
  BY <1>1, <1>2 DEF IsValidTimeUnits, IsValidMonth, DaysInMonth
<1>4. u \in Dates
  BY <1>2, <1>3 DEF Dates, TZ_UTC
<1> QED BY <1>4 DEF u

-----------------------------------------------------------------------------
(* Lemmas on the instant of a date.                                         *)
LEMMA InstantIs ==
  ASSUME NEW day \in Int, NEW sec \in Nat, sec < 86400
  PROVE  At(day, sec) = [day |-> day, sec |-> sec]
<1>1. sec \div 86400 = 0 /\ sec % 86400 = sec
  OBVIOUS
<1>2. At(day, sec) = [day |-> day + 0, sec |-> sec]
  BY <1>1 DEF At, k_nSecondsPerDay
<1> QED BY <1>2

LEMMA InitTimeUnitsIs ==
  ASSUME NEW t \in Dates, t.Year >= 1970, NEW old, NEW local
  PROVE  InitTimeUnits(old, t, local) = [day |-> DayOf(t), sec |-> SecondOfDay(t)]
<1>1. IsValidTimeUnits(t) /\ t.Year \in Int /\ t.TZ = TZ_UTC
  BY DatesAre DEF TZ_UTC
<1>2. ZoneSeconds(t, local) = 0
  BY <1>1 DEF ZoneSeconds
<1>3. SecondOfDay(t) + 0 = SecondOfDay(t)
  BY SecondsAre
<1>4. InitTimeUnits(old, t, local) = At(DayOf(t), SecondOfDay(t))
  <2>1. IsValidTimeUnits(t) /\ ~(t.Year < 1970)
    BY <1>1
  <2>2. InitTimeUnits(old, t, local) = At(DayOf(t), SecondOfDay(t) + ZoneSeconds(t, local))
    BY <2>1 DEF InitTimeUnits, DayOf, DayNumber
  <2> QED BY <2>2, <1>2, <1>3
<1>5. DayOf(t) \in Int /\ SecondOfDay(t) \in Nat /\ SecondOfDay(t) < 86400
  BY SecondsAre, DayOfIs
<1> QED BY <1>4, <1>5, InstantIs

(* The date one calendar day later, at the same time of day.                *)
Tomorrow(t) ==
  LET Same(y, mo, d) == Units(y, mo, d, t.Hour, t.Minute, t.Second, t.TZ)
  IN IF t.Day < MonthDays(t.Year, t.Month) THEN Same(t.Year, t.Month, t.Day + 1)
     ELSE IF t.Month < 12 THEN Same(t.Year, t.Month + 1, 1) ELSE Same(t.Year + 1, 1, 1)

(* cTimeInt::InitTimeUnits numbers the days without a gap: the day after any*)
(* valid date is a valid date with the next number, over the ends of months *)
(* and years, leap or not.                                                  *)
THEOREM DaysAreWalked ==
  ASSUME NEW t \in Dates
  PROVE  /\ Tomorrow(t) \in Dates /\ DayOf(Tomorrow(t)) = DayOf(t) + 1
         /\ SecondOfDay(Tomorrow(t)) = SecondOfDay(t)
<1> DEFINE y == t.Year
           mo == t.Month
           d == t.Day
           leaps == GetLeapYearsSince2K(y)
           Same(a, b, c) == Units(a, b, c, t.Hour, t.Minute, t.Second, 0)
<1>1. /\ y \in Int /\ mo \in 1..12 /\ d \in 1..MonthDays(y, mo) /\ t.TZ = 0
      /\ t.Hour \in Nat /\ t.Hour <= 23 /\ t.Minute \in Nat /\ t.Minute <= 59
      /\ t.Second \in Nat /\ t.Second <= 59
  BY DatesAre
<1>2. MonthDays(y, mo) \in 28..31 /\ DaysBefore(y, mo) \in Nat
  BY <1>1, MonthsAre, ZenonT(60)
<1>3. leaps \in Int
  BY <1>1, YearsAre, ZenonT(60)
<1>4. DayOf(t) = (y - 1970) * 365 + leaps + 7 + DaysBefore(y, mo) + d - 1
  BY DEF DayOf, DayNumber
<1>5. ASSUME NEW a \in Int, NEW b \in 1..12, NEW c \in Int
      PROVE  /\ DayOf(Same(a, b, c)) = DayNumber(a, b, c)
             /\ SecondOfDay(Same(a, b, c)) = SecondOfDay(t)
             /\ c \in 1..MonthDays(a, b) => Same(a, b, c) \in Dates
  <2>1. /\ Same(a, b, c).Year = a /\ Same(a, b, c).Month = b /\ Same(a, b, c).Day = c
        /\ Same(a, b, c).Hour = t.Hour /\ Same(a, b, c).Minute = t.Minute
        /\ Same(a, b, c).Second = t.Second
    BY DEF Units
  <2>2. c \in 1..MonthDays(a, b) => Same(a, b, c) \in Dates
    BY <1>1, DateIs, ZenonT(60)
  <2> HIDE DEF Same
  <2> QED BY <2>1, <2>2 DEF DayOf, SecondOfDay
<1>6. CASE d < MonthDays(y, mo)
  <2>1. Tomorrow(t) = Same(y, mo, d + 1)
    BY <1>1, <1>6 DEF Tomorrow
  <2>2. d + 1 \in Int /\ d + 1 \in 1..MonthDays(y, mo)
    BY <1>1, <1>2, <1>6
  <2> HIDE DEF Same, y, mo, d, leaps
  <2>3. DayOf(Same(y, mo, d + 1)) = DayNumber(y, mo, d + 1)
    BY <1>1, <1>5, <2>2, ZenonT(60)
  <2>4. DayOf(Same(y, mo, d + 1)) = DayOf(t) + 1
    BY <1>1, <1>2, <1>3, <1>4, <2>3 DEF leaps, DayNumber
  <2>5. Same(y, mo, d + 1) \in Dates /\ SecondOfDay(Same(y, mo, d + 1)) = SecondOfDay(t)
    BY <1>1, <1>5, <2>2, ZenonT(60)
  <2> QED BY <2>1, <2>4, <2>5
<1>7. CASE d = MonthDays(y, mo) /\ mo < 12
  <2>1. Tomorrow(t) = Same(y, mo + 1, 1)
    BY <1>1, <1>7 DEF Tomorrow
  <2>2. mo + 1 \in 1..12 /\ 1 \in Int
    BY <1>1, <1>7
  <2>3. MonthDays(y, mo + 1) \in 28..31
    BY <1>1, <2>2, MonthsAre, ZenonT(60)
  <2>4. 1 \in 1..MonthDays(y, mo + 1)
    BY <2>3
  <2>5. DaysBefore(y, mo + 1) = DaysBefore(y, mo) + MonthDays(y, mo)
    BY <1>1, <1>7, MonthsAre, ZenonT(60)
  <2> HIDE DEF Same, y, mo, d, leaps
  <2>6. DayOf(Same(y, mo + 1, 1)) = DayNumber(y, mo + 1, 1)
    BY <1>1, <1>5, <2>2, ZenonT(60)
  <2>7. DayOf(Same(y, mo + 1, 1)) = DayOf(t) + 1
    BY <1>1, <1>2, <1>3, <1>4, <1>7, <2>5, <2>6 DEF leaps, DayNumber
  <2>8. Same(y, mo + 1, 1) \in Dates /\ SecondOfDay(Same(y, mo + 1, 1)) = SecondOfDay(t)
    BY <1>1, <1>5, <2>2, <2>4, ZenonT(60)
  <2> QED BY <2>1, <2>7, <2>8
<1>8. CASE d = MonthDays(y, mo) /\ mo = 12
  <2>1. Tomorrow(t) = Same(y + 1, 1, 1)
    BY <1>1, <1>8 DEF Tomorrow
  <2>2. y + 1 \in Int /\ 1 \in 1..12 /\ 1 \in Int
    BY <1>1
  <2>3. MonthDays(y + 1, 1) \in 28..31
    BY <2>2, MonthsAre, ZenonT(60)
  <2>4. 1 \in 1..MonthDays(y + 1, 1)
    BY <2>3
  <2>5. DaysBefore(y + 1, 1) = 0
    BY <2>2, YearsAre, ZenonT(60)
  <2>6. DaysBefore(y, 12) + MonthDays(y, 12) = 365 + IsLeapYear(y) /\ IsLeapYear(y) \in {0, 1}
    BY <1>1, YearsAre, ZenonT(60)
  <2>7. GetLeapYearsSince2K(y + 1) = leaps + IsLeapYear(y)
    BY <1>1, LeapYearsAreCounted, ZenonT(60)
  <2> HIDE DEF Same, y, mo, d, leaps
  <2>8. DayOf(Same(y + 1, 1, 1)) = DayNumber(y + 1, 1, 1)
    BY <1>5, <2>2, ZenonT(60)
  <2>9. DayOf(Same(y + 1, 1, 1)) = DayOf(t) + 1
    BY <1>1, <1>2, <1>3, <1>4, <1>8, <2>5, <2>6, <2>7, <2>8 DEF DayNumber
  <2>10. Same(y + 1, 1, 1) \in Dates /\ SecondOfDay(Same(y + 1, 1, 1)) = SecondOfDay(t)
    BY <1>5, <2>2, <2>4, ZenonT(60)
  <2> QED BY <2>1, <2>9, <2>10
<1>9. d < MonthDays(y, mo) \/ d = MonthDays(y, mo)
  BY <1>1, <1>2
<1>10. mo < 12 \/ mo = 12
  BY <1>1
<1> QED BY <1>6, <1>7, <1>8, <1>9, <1>10

(* There are none before 1970, and not many up to 2037.                     *)
LEMMA LeapDaysSince70 ==
  ASSUME NEW y \in Int, 1970 <= y, y <= 2037
  PROVE  /\ GetLeapYearsSince2K(y) + 7 \in Nat /\ GetLeapYearsSince2K(y) + 7 <= 17
         /\ GetLeapYearsSince2K(1970) + 7 = 0
<1> DEFINE leaps == GetLeapYearsSince2K(y) + 7
           n == y - 2000 - IF y > 2000 THEN 1 ELSE 0
<1>1. leaps = (IF y > 2000 THEN 1 ELSE 0) + Quot(n, 4) + Quot(n, 400) - Quot(n, 100) + 7
  BY DEF GetLeapYearsSince2K
<1>2. n \in Int /\ -30 <= n /\ n <= 36
  OBVIOUS
<1> HIDE DEF n, leaps
<1>3. Quot(n, 400) = 0 /\ Quot(n, 100) = 0
  BY <1>2, SMTT(60) DEF Quot
<1>4. Quot(n, 4) \in Int /\ -7 <= Quot(n, 4) /\ Quot(n, 4) <= 9
  BY <1>2, SMTT(60) DEF Quot
<1>5. leaps \in Nat /\ leaps <= 17
  BY <1>1, <1>3, <1>4, SMTT(60)
<1>6. GetLeapYearsSince2K(1970) + 7 = 0
  BY SMTT(60) DEF GetLeapYearsSince2K, Quot
<1> QED BY <1>5, <1>6 DEF leaps

(* GetTimeUnits first divides the days by 365: that is the year, or one     *)
(* more, and then what is left of the day of the year is below zero.        *)
LEMMA YearGuessed ==
  ASSUME NEW y \in Int, 1970 <= y, y <= 2037, NEW doy \in Nat, doy <= 364 + IsLeapYear(y),
         NEW day, day = (y - 1970) * 365 + GetLeapYearsSince2K(y) + 7 + doy,
         NEW guess, guess = 1970 + day \div 365,
         NEW rest, rest = (day % 365) - (GetLeapYearsSince2K(guess) + 7)
  PROVE  \/ guess = y /\ rest = doy
         \/ guess = y + 1 /\ rest < 0 /\ rest + 365 + IsLeapYear(y) = doy
<1> DEFINE leaps == GetLeapYearsSince2K(y) + 7
<1>1. leaps \in Nat /\ leaps <= 17
  BY LeapDaysSince70
<1>2. IsLeapYear(y) \in {0, 1} /\ GetLeapYearsSince2K(y) \in Int
  BY YearsAre
<1>3. GetLeapYearsSince2K(y + 1) + 7 = leaps + IsLeapYear(y)
  <2>1. GetLeapYearsSince2K(y + 1) = GetLeapYearsSince2K(y) + IsLeapYear(y)
    BY LeapYearsAreCounted
  <2> QED BY <1>2, <2>1
<1>4. day = 365 * (y - 1970) + (leaps + doy) /\ day \in Int
  BY <1>2
<1> HIDE DEF leaps
<1>5. CASE leaps + doy < 365
  <2>1. day \div 365 = y - 1970 /\ day % 365 = leaps + doy
    BY <1>1, <1>4, <1>5
  <2>2. guess = y
    BY <2>1
  <2>3. rest = doy
    BY <1>1, <2>1, <2>2 DEF leaps
  <2> QED BY <2>2, <2>3
<1>6. CASE leaps + doy >= 365
  <2>1. leaps + doy - 365 < 365 /\ leaps + doy - 365 \in Nat
    BY <1>1, <1>2, <1>6
  <2>2. day \div 365 = y + 1 - 1970 /\ day % 365 = leaps + doy - 365
    BY <1>1, <1>4, <2>1
  <2>3. guess = y + 1
    BY <2>2
  <2>4. GetLeapYearsSince2K(guess) + 7 = leaps + IsLeapYear(y)
    BY <1>3, <2>3
  <2>5. rest + 365 + IsLeapYear(y) = doy
    <3>1. GetLeapYearsSince2K(guess) \in Int
      BY <2>3, YearsAre
    <3> QED BY <1>1, <1>2, <2>2, <2>4, <3>1
  <2> QED BY <1>2, <2>3, <2>5
<1> QED BY <1>1, <1>5, <1>6

(* How GetTimeUnits finds a month in the table of the sums.                 *)
MonthOf(table, n) == CHOOSE m \in 1..12 : table[m] <= n /\ n < table[m + 1]

(* It finds the month the day of the year lies in.                          *)
LEMMA MonthFound ==
  ASSUME NEW y \in Int, NEW mo \in 1..12, NEW d \in 1..MonthDays(y, mo),
         NEW day, day = DaysBefore(y, mo) + d - 1,
         NEW sums, sums = k_aMonthDaySums[IsLeapYear(y) + 1]
  PROVE  MonthOf(sums, day) = mo
<1> DEFINE P(m) == sums[m] <= day /\ day < sums[m + 1]
<1>1. IsLeapYear(y) \in {0, 1}
  BY YearsAre
<1>2. sums[mo] = DaysBefore(y, mo) /\ sums[mo + 1] = sums[mo] + MonthDays(y, mo)
  <2>1. CASE IsLeapYear(y) = 0
    BY <2>1, SMTT(60) DEF MonthDays, DaysBefore, k_aMonthDays, k_aMonthDaySums
  <2>2. CASE IsLeapYear(y) = 1
    BY <2>2, SMTT(60) DEF MonthDays, DaysBefore, k_aMonthDays, k_aMonthDaySums
  <2> QED BY <1>1, <2>1, <2>2
<1>3. sums \in [1..13 -> Int] /\ \A j, k \in 1..13 : j < k => sums[j] < sums[k]
  <2>1. CASE IsLeapYear(y) = 0
    BY <2>1, SMTT(60) DEF k_aMonthDaySums
  <2>2. CASE IsLeapYear(y) = 1
    BY <2>2, SMTT(60) DEF k_aMonthDaySums
  <2> QED BY <1>1, <2>1, <2>2
<1>4. MonthDays(y, mo) \in 28..31 /\ DaysBefore(y, mo) \in Nat
  BY MonthsAre, Zenon
<1>5. P(mo)
  BY <1>2, <1>4
<1>6. ASSUME NEW m \in 1..12, P(m) PROVE m = mo
  <2>1. CASE m < mo
    <3>1. m + 1 = mo \/ m + 1 < mo
      BY <2>1
    <3>2. m + 1 \in 1..13 /\ mo \in 1..13
      OBVIOUS
    <3>3. sums[m + 1] <= sums[mo]
      BY <1>3, <3>1, <3>2
    <3> QED BY <1>5, <1>6, <3>3, <1>3, <3>2, <1>2, <1>4
  <2>2. CASE m > mo
    <3>1. mo + 1 = m \/ mo + 1 < m
      BY <2>2
    <3>2. mo + 1 \in 1..13 /\ m \in 1..13
      OBVIOUS
    <3>3. sums[mo + 1] <= sums[m]
      BY <1>3, <3>1, <3>2
    <3> QED BY <1>5, <1>6, <3>3, <1>3, <3>2, <1>2, <1>4
  <2> QED BY <2>1, <2>2
<1>7. (CHOOSE m \in 1..12 : P(m)) = mo
  BY <1>5, <1>6, Zenon
<1> QED BY <1>7 DEF MonthOf

(* The dates before the product in GetTimeUnits overflows.                  *)
UnixDates == {t \in Dates : 1970 <= t.Year /\ t.Year <= 2037}

(* The second that is no legal time to cTimeInt::GetTimeUnits.              *)
Epoch == Units(1970, 1, 1, 0, 0, 0, 0)

LEMMA EpochIs ==
  ASSUME NEW t \in UnixDates
  PROVE  /\ DayOf(t) \in Nat /\ SecondOfDay(t) \in Nat
         /\ DayOf(t) = 0 /\ SecondOfDay(t) = 0 <=> t = Epoch
<1> DEFINE y == t.Year
           mo == t.Month
           d == t.Day
           leaps == GetLeapYearsSince2K(y) + 7
           before == DaysBefore(y, mo)
           day == DayOf(t)
           sec == SecondOfDay(t)
<1>1. t \in Dates /\ y \in Int /\ 1970 <= y /\ y <= 2037
  BY DatesAre DEF UnixDates
<1>2. /\ mo \in 1..12 /\ d \in 1..MonthDays(y, mo) /\ MonthDays(y, mo) \in 28..31
      /\ t.Hour \in Nat /\ t.Minute \in Nat /\ t.Second \in Nat
      /\ t = Units(y, mo, d, t.Hour, t.Minute, t.Second, 0)
  BY <1>1, DatesAre, MonthIs
<1>3. before \in Nat /\ leaps \in Nat
  BY <1>1, <1>2, MonthIs, LeapDaysSince70
<1>4. day = (y - 1970) * 365 + leaps + before + d - 1
  <2>1. day = (y - 1970) * 365 + GetLeapYearsSince2K(y) + 7 + DaysBefore(y, mo) + d - 1
    BY DEF DayOf, DayNumber
  <2>2. GetLeapYearsSince2K(y) \in Int
    BY <1>1, YearsAre
  <2> HIDE DEF day, y, mo, d
  <2> QED BY <1>1, <1>2, <1>3, <2>1, <2>2
<1>5. sec = t.Second + t.Minute * 60 + t.Hour * 3600
  BY DEF SecondOfDay
<1>6. before = 0 <=> mo = 1
  BY <1>1, <1>2, YearsAre DEF DaysBefore, k_aMonthDaySums
<1>7. y = 1970 => leaps = 0
  BY LeapDaysSince70
<1> HIDE DEF y, mo, d, leaps, before, day, sec
<1>8. d \in Int /\ d >= 1
  BY <1>2
<1>9. day \in Nat /\ (day = 0 <=> y = 1970 /\ mo = 1 /\ d = 1)
  BY <1>1, <1>3, <1>4, <1>6, <1>7, <1>8
<1>10. sec \in Nat /\ (sec = 0 <=> t.Hour = 0 /\ t.Minute = 0 /\ t.Second = 0)
  <2> DEFINE h == t.Hour
             m == t.Minute
             s == t.Second
  <2>1. sec = s + m * 60 + h * 3600 /\ h \in Nat /\ m \in Nat /\ s \in Nat
    BY <1>2, <1>5
  <2> HIDE DEF h, m, s
  <2>2. sec \in Nat /\ (sec = 0 <=> h = 0 /\ m = 0 /\ s = 0)
    BY <2>1
  <2> QED BY <2>2 DEF h, m, s
<1>11. t = Epoch <=> /\ y = 1970 /\ mo = 1 /\ d = 1
                     /\ t.Hour = 0 /\ t.Minute = 0 /\ t.Second = 0
  <2>1. t = Epoch => /\ y = 1970 /\ mo = 1 /\ d = 1
                     /\ t.Hour = 0 /\ t.Minute = 0 /\ t.Second = 0
    BY DEF Epoch, Units, y, mo, d
  <2>2. t = Units(y, mo, d, t.Hour, t.Minute, t.Second, 0)
    BY <1>2
  <2>3. ASSUME y = 1970, mo = 1, d = 1, t.Hour = 0, t.Minute = 0, t.Second = 0
        PROVE  t = Epoch
    <3>1. Units(y, mo, d, t.Hour, t.Minute, t.Second, 0) = Epoch
      BY <2>3 DEF Epoch
    <3> QED BY <2>2, <3>1
  <2> QED BY <2>1, <2>3
<1> QED BY <1>9, <1>10, <1>11 DEF day, sec

(* cTimeInt::GetTimeUnits answers the date that cTimeInt::InitTimeUnits was *)
(* given, for every second from 1970 to 2037 but the very first.            *)
THEOREM UnitsReadBack ==
  ASSUME NEW t \in UnixDates, NEW old, NEW local
  PROVE  UtcUnits(InitTimeUnits(old, t, local)) = IF t = Epoch THEN NoUnits ELSE t
<1> DEFINE y == t.Year
           mo == t.Month
           d == t.Day
           doy == DaysBefore(y, mo) + d - 1
           sums == k_aMonthDaySums[IsLeapYear(y) + 1]
           day == DayOf(t)
           guess == 1970 + day \div 365
           rest == (day % 365) - (GetLeapYearsSince2K(guess) + 7)
           sec == SecondOfDay(t)
<1>1. t \in Dates
  BY DEF UnixDates
<1>2. /\ y \in Int /\ mo \in 1..12 /\ d \in 1..MonthDays(y, mo)
      /\ t.Hour \in Nat /\ t.Hour <= 23 /\ t.Minute \in Nat /\ t.Minute <= 59
      /\ t.Second \in Nat /\ t.Second <= 59
      /\ t = Units(y, mo, d, t.Hour, t.Minute, t.Second, 0)
  BY <1>1, DatesAre
<1>3. /\ MonthDays(y, mo) \in 28..31 /\ DaysBefore(y, mo) \in Nat
      /\ GetLeapYearsSince2K(y) \in Int /\ IsLeapYear(y) \in {0, 1}
  BY <1>2, <1>1, MonthIs, YearsAre
<1>4. doy \in Nat /\ doy <= 364 + IsLeapYear(y)
  BY <1>2, DayInYear
<1>5. day = (y - 1970) * 365 + GetLeapYearsSince2K(y) + 7 + doy
  <2>1. day = (y - 1970) * 365 + GetLeapYearsSince2K(y) + 7 + DaysBefore(y, mo) + d - 1
    BY DEF DayOf, DayNumber
  <2> HIDE DEF y, mo, d, day
  <2> QED BY <1>2, <1>3, <2>1
<1>6. InitTimeUnits(old, t, local) = [day |-> day, sec |-> sec]
  <2>1. t.Year >= 1970
    BY <1>2, <1>1 DEF UnixDates
  <2> QED BY <1>1, <2>1, InitTimeUnitsIs
<1>7. \/ guess = y /\ rest = doy
      \/ guess = y + 1 /\ rest < 0 /\ rest + 365 + IsLeapYear(y) = doy
  <2>1. 1970 <= y /\ y <= 2037
    BY DEF UnixDates
  <2>2. /\ guess = 1970 + day \div 365
        /\ rest = (day % 365) - (GetLeapYearsSince2K(guess) + 7)
    OBVIOUS
  <2> HIDE DEF y, doy, day, guess, rest
  <2> QED BY <1>2, <1>4, <1>5, <2>1, <2>2, YearGuessed
<1>8. (IF rest < 0 THEN guess - 1 ELSE guess) = y
  BY <1>2, <1>4, <1>7
<1>9. (IF rest < 0 THEN rest + 365 + IsLeapYear(y) ELSE rest) = doy
  BY <1>2, <1>4, <1>7
<1>10. MonthOf(sums, doy) = mo
  <2>1. sums = k_aMonthDaySums[IsLeapYear(y) + 1] /\ doy = DaysBefore(y, mo) + d - 1
    OBVIOUS
  <2>2. y \in Int /\ mo \in 1..12 /\ d \in 1..MonthDays(y, mo)
    BY <1>2
  <2> HIDE DEF y, mo, d, doy, sums
  <2> QED BY <2>1, <2>2, MonthFound, Zenon
<1>11. 1 + doy - sums[mo] = d
  <2>1. sums[mo] = DaysBefore(y, mo)
    BY DEF DaysBefore
  <2> HIDE DEF sums, y, mo, d
  <2> QED BY <1>2, <1>3, <2>1
<1>12. sec \div 3600 = t.Hour /\ (sec % 3600) \div 60 = t.Minute /\ sec % 60 = t.Second
  BY <1>1, ClockIs
<1>13. IsTimeValid([day |-> day, sec |-> sec]) <=> t # Epoch
  <2>1. k_nZero = [day |-> 0, sec |-> 0]
    BY DEF k_nZero, At, k_nSecondsPerDay
  <2>2. day \in Nat /\ (day = 0 /\ sec = 0 <=> t = Epoch)
    BY EpochIs
  <2> HIDE DEF day, sec
  <2> QED BY <2>1, <2>2 DEF IsTimeValid
<1>14. ASSUME t # Epoch
       PROVE  UtcUnits([day |-> day, sec |-> sec]) =
         Units(y, mo, 1 + doy - sums[mo], sec \div 3600, (sec % 3600) \div 60, sec % 60, 0)
  <2> DEFINE hour == sec \div 3600
             minute == (sec % 3600) \div 60
             second == sec % 60
             year == IF rest < 0 THEN guess - 1 ELSE guess
             inYear == IF rest < 0 THEN rest + 365 + IsLeapYear(year) ELSE rest
             table == k_aMonthDaySums[IsLeapYear(year) + 1]
  <2> HIDE DEF y, mo, doy, day, sec
  <2>1. UtcUnits([day |-> day, sec |-> sec]) =
          Units(year, MonthOf(table, inYear), 1 + inYear - table[MonthOf(table, inYear)],
                hour, minute, second, 0)
    BY <1>13, <1>14 DEF UtcUnits, MonthOf
  <2> HIDE DEF guess, rest
  <2>2. year = y
    BY <1>8
  <2>3. inYear = doy
    <3> HIDE DEF year
    <3> QED BY <1>9, <2>2 DEF inYear
  <2>4. table = sums
    BY <2>2
  <2> HIDE DEF year, inYear, table, sums, hour, minute, second
  <2>5. UtcUnits([day |-> day, sec |-> sec]) =
          Units(y, mo, 1 + doy - sums[mo], hour, minute, second, 0)
    BY <1>10, <2>1, <2>2, <2>3, <2>4, Zenon
  <2> QED BY <2>5 DEF hour, minute, second
<1>15. t = Epoch => UtcUnits([day |-> day, sec |-> sec]) = NoUnits
  <2> HIDE DEF day, sec
  <2> QED BY <1>13 DEF UtcUnits
<1> QED BY <1>2, <1>6, <1>11, <1>12, <1>14, <1>15

-----------------------------------------------------------------------------
(* The dates cTimeDouble::EncodeDate has a number for.                      *)
OleDates == {t \in Dates : 1 <= t.Year /\ t.Year <= 9999}

(* The dates after 1899/12/30, with a number above zero.                    *)
DoubleDates == {t \in OleDates : EncodeDate(t.Year, t.Month, t.Day) > 0}

(* The two ways to count leap days differ by those before 2000.             *)
LEMMA LeapDaysAgree ==
  ASSUME NEW y \in Int, y >= 1
  PROVE  LeapDaysTo(y) = GetLeapYearsSince2K(y) + 484
<1>1. CASE y > 2000
  BY <1>1 DEF GetLeapYearsSince2K, LeapDaysTo, Quot
<1>2. CASE y <= 2000
  BY <1>2 DEF GetLeapYearsSince2K, LeapDaysTo, Quot
<1> QED BY <1>1, <1>2

(* An OLE date and the day number of a cTimeInt differ by a constant.       *)
LEMMA OleDayIs ==
  ASSUME NEW t \in OleDates
  PROVE  /\ t \in Dates /\ EncodeDate(t.Year, t.Month, t.Day) = DayOf(t) + 25569
         /\ t.Year >= 1970 => DayOf(t) >= 0
<1> DEFINE y == t.Year
           mo == t.Month
           d == t.Day
<1>1. t \in Dates /\ y \in Int /\ y >= 1 /\ mo \in 1..12 /\ d \in 1..MonthDays(y, mo)
      /\ ~(y <= 0 \/ y > 9999)
  BY DatesAre, SMTT(30) DEF OleDates
<1>2. /\ MonthDays(y, mo) \in 28..31 /\ DaysBefore(y, mo) \in Nat
      /\ GetLeapYearsSince2K(y) \in Int /\ LeapDaysTo(y) = GetLeapYearsSince2K(y) + 484
  BY <1>1, MonthIs, LeapDaysAgree, SMTT(30)
<1>3. EncodeDate(y, mo, d) = (y - 1) * 365 + LeapDaysTo(y) - 693594 + DaysBefore(y, mo) + d
  <2> HIDE DEF y, mo, d
  <2> QED BY <1>1, <1>2, SMTT(30) DEF EncodeDate
<1>4. DayOf(t) = (y - 1970) * 365 + GetLeapYearsSince2K(y) + 7 + DaysBefore(y, mo) + d - 1
  BY DEF DayOf, DayNumber
<1>5. y >= 1970 => GetLeapYearsSince2K(y) + 7 >= 0
  BY <1>1, SMTT(30) DEF GetLeapYearsSince2K, Quot
<1> HIDE DEF y, mo, d
<1>6. EncodeDate(y, mo, d) = DayOf(t) + 25569 /\ (y >= 1970 => DayOf(t) >= 0)
  BY <1>1, <1>2, <1>3, <1>4, <1>5, SMTT(30)
<1> QED BY <1>1, <1>6 DEF y, mo, d

(* The instant of a date after 1899/12/30.                                  *)
LEMMA DoubleIs ==
  ASSUME NEW t \in DoubleDates, NEW old, NEW local
  PROVE  /\ t \in Dates /\ t \in OleDates
         /\ DoubleOfUnits(old, t, local) =
              [day |-> EncodeDate(t.Year, t.Month, t.Day), sec |-> SecondOfDay(t)]
<1> DEFINE day == EncodeDate(t.Year, t.Month, t.Day)
           sec == SecondOfDay(t)
<1>1. t \in Dates /\ t \in OleDates /\ day > 0
  BY DEF DoubleDates, OleDates
<1>2. IsValidTimeUnits(t) /\ t.TZ = TZ_UTC
  BY <1>1 DEF Dates
<1>3. DoubleOfUnits(old, t, local) = At(day, sec + 0)
  BY <1>1, <1>2 DEF DoubleOfUnits
<1>4. day \in Int /\ sec \in Nat /\ sec < 86400
  BY <1>1, OleDayIs, DayOfIs, SecondsAre, SMTT(30)
<1> HIDE DEF day, sec
<1>5. sec + 0 = sec
  BY <1>4, SMTT(30)
<1>6. DoubleOfUnits(old, t, local) = [day |-> day, sec |-> sec]
  BY <1>3, <1>4, <1>5, InstantIs, SMTT(30)
<1> QED BY <1>1, <1>6 DEF day, sec

(* cTimeInt::InitTimeUnits and cTimeDouble::InitTimeUnits reach the same    *)
(* instant by two different computations, for every date from 1970 to 9999: *)
(* GetTimeFromSec of the one is the other.                                  *)
THEOREM InstantsAgree ==
  ASSUME NEW t \in OleDates, t.Year >= 1970, NEW old, NEW local
  PROVE  GetTimeFromSec(InitTimeUnits(old, t, local)) = DoubleOfUnits(old, t, local)
<1> DEFINE sec == SecondOfDay(t)
<1>1. /\ t \in Dates /\ EncodeDate(t.Year, t.Month, t.Day) = DayOf(t) + 25569
      /\ DayOf(t) \in Int /\ DayOf(t) >= 0 /\ sec \in Nat /\ sec < 86400
  BY OleDayIs, DayOfIs, SecondsAre, SMTT(30)
<1>2. t \in DoubleDates
  BY <1>1, SMTT(30) DEF DoubleDates
<1>3. InitTimeUnits(old, t, local) = [day |-> DayOf(t), sec |-> sec]
  BY <1>1, InitTimeUnitsIs, SMTT(30)
<1>4. DoubleOfUnits(old, t, local) = [day |-> DayOf(t) + 25569, sec |-> sec]
  BY <1>1, <1>2, DoubleIs, SMTT(30)
<1>5. GetTimeFromSec([day |-> DayOf(t), sec |-> sec]) = At(DayOf(t) + 25569, sec)
  BY SMTT(30) DEF GetTimeFromSec, k_nDaysDiffTimeInt
<1> HIDE DEF sec
<1>6. At(DayOf(t) + 25569, sec) = [day |-> DayOf(t) + 25569, sec |-> sec]
  BY <1>1, InstantIs, SMTT(30)
<1> QED BY <1>3, <1>4, <1>5, <1>6, SMTT(30)

(* A year in its 400 years, its century and its four years, as DecodeDate   *)
(* takes a day apart.                                                       *)
SplitYear(y, a, c, q, r) == y = 400 * a + 100 * c + 4 * q + r

(* The days before the years it is split in, and before a year.             *)
SplitDays(a, c, q, r) == 146097 * a + 36524 * c + 1461 * q + 365 * r
DaysTo(y) == 365 * y + LeapDaysTo(y) + IsLeapYear(y)

LEMMA YearsAreSplit ==
  ASSUME NEW y \in Nat, y >= 1
  PROVE  \E a \in Nat, c \in 0..3, q \in 0..24, r \in 0..3 : SplitYear(y, a, c, q, r)
<1> DEFINE a == y \div 400
           n == y % 400
           c == n \div 100
           k == n % 100
           q == k \div 4
           r == k % 4
<1>1. a \in Nat /\ n \in Nat /\ n < 400 /\ y = 400 * a + n
  OBVIOUS
<1> HIDE DEF a, n
<1>2. c \in 0..3 /\ k \in Nat /\ k < 100 /\ n = 100 * c + k
  BY <1>1
<1> HIDE DEF c, k
<1>3. q \in 0..24 /\ r \in 0..3 /\ k = 4 * q + r
  BY <1>2
<1> HIDE DEF q, r
<1>4. SplitYear(y, a, c, q, r)
  BY <1>1, <1>2, <1>3 DEF SplitYear
<1>5. a \in Nat /\ c \in 0..3 /\ q \in 0..24 /\ r \in 0..3
  BY <1>1, <1>2, <1>3, SMTT(30)
<1> QED BY <1>4, <1>5, Zenon

LEMMA SplitYearIs ==
  ASSUME NEW a \in Nat, NEW c \in 0..3, NEW q \in 0..24, NEW r \in 0..3,
         NEW y, SplitYear(y, a, c, q, r), y >= 1
  PROVE  /\ IsLeapYear(y) = IF r = 0 /\ (q > 0 \/ c = 0) THEN 1 ELSE 0
         /\ DaysTo(y) = SplitDays(a, c, q, r)
<1>1. y = 400 * a + 100 * c + 4 * q + r
  BY DEF SplitYear
<1>2. y % 4 = r /\ y % 100 = 4 * q + r /\ y % 400 = 100 * c + 4 * q + r /\ y \in Int
  <2>1. y = 4 * (100 * a + 25 * c + q) + r /\ y = 100 * (4 * a + c) + (4 * q + r)
        /\ y = 400 * a + (100 * c + 4 * q + r)
    BY <1>1, SMTT(60)
  <2> QED BY <2>1, SMTT(60)
<1>3. IsLeapYear(y) = IF r = 0 /\ (q > 0 \/ c = 0) THEN 1 ELSE 0
  BY <1>2 DEF IsLeapYear
<1>4. LeapDaysTo(y) = ((y - 1) \div 4) + ((y - 1) \div 400) - ((y - 1) \div 100)
  BY <1>2 DEF LeapDaysTo, Quot
<1>5. (y - 1) \div 4 = 100 * a + 25 * c + q - IF r = 0 THEN 1 ELSE 0
  BY <1>1, SMTT(60)
<1>6. (y - 1) \div 100 = 4 * a + c - IF q = 0 /\ r = 0 THEN 1 ELSE 0
  BY <1>1, SMTT(60)
<1>7. (y - 1) \div 400 = a - IF c = 0 /\ q = 0 /\ r = 0 THEN 1 ELSE 0
  BY <1>1, SMTT(60)
<1> QED BY <1>1, <1>3, <1>4, <1>5, <1>6, <1>7, SMTT(60) DEF DaysTo, SplitDays

(* The first half of DecodeDate finds the year and the day of it.           *)
LEMMA YearDecodes ==
  ASSUME NEW t \in OleDates
  PROVE  DecodeYear(EncodeDate(t.Year, t.Month, t.Day)) =
           [year |-> t.Year, isLeap |-> IsLeapYear(t.Year) = 1,
            day |-> DaysBefore(t.Year, t.Month) + t.Day - 1]
<1> DEFINE y == t.Year
           mo == t.Month
           d == t.Day
           doy == DaysBefore(y, mo) + d - 1
           day == EncodeDate(y, mo, d)
           absolute == day + 693959
           in400 == absolute % 146097
           century == Quot(in400 - 1, 36524)
           inCentury == Rem(in400 - 1, 36524)
           leap4 == century = 0 \/ (inCentury + 1) \div 1461 # 0
           n4Years == IF century = 0 THEN in400 \div 1461 ELSE (inCentury + 1) \div 1461
           n4Day == IF century = 0 THEN in400 % 1461
                    ELSE IF leap4 THEN (inCentury + 1) % 1461 ELSE inCentury
           n4Yr == IF leap4 THEN Quot(n4Day - 1, 365) ELSE n4Day \div 365
           dayOfYear == IF ~leap4 THEN n4Day % 365
                        ELSE IF n4Yr # 0 THEN (n4Day - 1) % 365 ELSE n4Day
           year == (absolute \div 146097) * 400 + century * 100 + n4Years * 4 + n4Yr
           of == DecodeYear(day)
<1>1. /\ t \in Dates /\ y \in Nat /\ y >= 1 /\ ~(y <= 0 \/ y > 9999)
      /\ mo \in 1..12 /\ d \in 1..MonthDays(y, mo) /\ d \in Nat /\ d >= 1
  BY DatesAre, MonthIs, SMTT(30) DEF OleDates
<1>2. /\ MonthDays(y, mo) \in 28..31 /\ DaysBefore(y, mo) \in Nat
      /\ IsLeapYear(y) \in {0, 1} /\ doy \in Nat /\ doy <= 364 + IsLeapYear(y)
  <2>1. MonthDays(y, mo) \in 28..31 /\ DaysBefore(y, mo) \in Nat
    BY <1>1, MonthIs, SMTT(60)
  <2>2. y \in Int /\ mo \in 1..12 /\ d \in 1..MonthDays(y, mo)
    BY <1>1, SMTT(60)
  <2>3. IsLeapYear(y) \in {0, 1} /\ doy \in Nat /\ doy <= 364 + IsLeapYear(y)
    <3> HIDE DEF y, mo, d
    <3> QED BY <2>2, YearsAre, DayInYear, SMTT(60)
  <2> QED BY <2>1, <2>3
<1>3. of = [year |-> year, isLeap |-> n4Yr = 0 /\ leap4, day |-> dayOfYear]
  <2> HIDE DEF day
  <2> QED BY SMTT(60) DEF DecodeYear
<1>4. PICK a \in Nat, c \in 0..3, q \in 0..24, r \in 0..3 : SplitYear(y, a, c, q, r)
  <2> HIDE DEF y
  <2>1. y \in Nat /\ y >= 1
    BY <1>1
  <2> QED BY <2>1, YearsAreSplit, Zenon
<1> DEFINE leap == IsLeapYear(y)
           year4 == 1461 * q + 365 * r + (1 - leap) + doy
<1>5. /\ DaysTo(y) = SplitDays(a, c, q, r)
      /\ leap = IF r = 0 /\ (q > 0 \/ c = 0) THEN 1 ELSE 0
  <2> HIDE DEF y
  <2>1. y \in Nat /\ y >= 1
    BY <1>1
  <2> QED BY <1>4, <2>1, SplitYearIs, SMTT(60)
<1>6. leap = IF r = 0 /\ (q > 0 \/ c = 0) THEN 1 ELSE 0
  BY <1>5
<1>7. absolute = 146097 * a + (36524 * c + year4)
  <2>1. day = (y - 1) * 365 + LeapDaysTo(y) - 693594 + DaysBefore(y, mo) + d
    <3> HIDE DEF y, mo, d
    <3> QED BY <1>1, <1>2, SMTT(30) DEF EncodeDate
  <2>2. LeapDaysTo(y) \in Int
    <3> HIDE DEF y
    <3> QED BY <1>1, SMTT(30) DEF LeapDaysTo, Quot
  <2>3. 365 * y + LeapDaysTo(y) + leap = 146097 * a + 36524 * c + 1461 * q + 365 * r
    BY <1>5 DEF DaysTo, SplitDays
  <2> HIDE DEF y, mo, d, leap, day
  <2> QED BY <1>1, <1>2, <2>1, <2>2, <2>3, SMTT(30) DEF leap
<1>8. year4 \in Nat /\ year4 <= 36524 /\ (c > 0 => year4 >= 1)
  <2> HIDE DEF doy, leap
  <2> QED BY <1>2, <1>6, SMTT(30) DEF leap
<1>9. absolute \div 146097 = a /\ in400 = 36524 * c + year4
  <2> HIDE DEF absolute, year4
  <2> QED BY <1>7, <1>8, SMTT(30)
<1>10. century = c /\ inCentury = year4 - 1
  <2>1. century = Quot(in400 - 1, 36524) /\ inCentury = Rem(in400 - 1, 36524)
    OBVIOUS
  <2> HIDE DEF year4, absolute, in400, century, inCentury
  <2>2. CASE c = 0 /\ year4 = 0
    BY <1>9, <2>1, <2>2, SMTT(30) DEF Quot, Rem
  <2>3. CASE ~(c = 0 /\ year4 = 0)
    <3>1. in400 - 1 = 36524 * c + (year4 - 1) /\ in400 - 1 \in Nat
      BY <1>8, <1>9, <2>3, SMTT(30)
    <3>2. century = (in400 - 1) \div 36524 /\ inCentury = (in400 - 1) % 36524
      BY <2>1, <3>1, SMTT(30) DEF Quot, Rem
    <3> QED BY <1>8, <2>3, <3>1, <3>2, SMTT(30)
  <2> QED BY <2>2, <2>3
<1>11. inCentury + 1 = year4 /\ (c = 0 => in400 = year4)
  <2> HIDE DEF year4, in400, century, inCentury
  <2> QED BY <1>8, <1>9, <1>10, SMTT(30)
<1> HIDE DEF inCentury, century, in400
<1>12. leap4 <=> (c = 0 \/ year4 \div 1461 # 0)
  <2> HIDE DEF year4
  <2> QED BY <1>10, <1>11, SMTT(30)
<1>13. n4Years = year4 \div 1461
  <2> HIDE DEF year4
  <2> QED BY <1>10, <1>11, SMTT(30)
<1>14. n4Day = IF leap4 THEN year4 % 1461 ELSE year4 - 1
  <2>1. CASE c = 0
    <3>1. n4Day = in400 % 1461 /\ leap4
      BY <1>10, <1>12, <2>1, SMTT(30)
    <3> HIDE DEF year4, leap4, n4Day
    <3> QED BY <1>11, <2>1, <3>1, SMTT(30)
  <2>2. CASE c # 0
    <3>1. n4Day = IF leap4 THEN (inCentury + 1) % 1461 ELSE inCentury
      <4> HIDE DEF leap4
      <4> QED BY <1>10, <2>2, SMTT(30)
    <3> HIDE DEF year4, leap4, n4Day
    <3> QED BY <1>10, <1>11, <2>2, <3>1, SMTT(30)
  <2> QED BY <2>1, <2>2, SMTT(30)
<1> DEFINE day4 == 365 * r + (1 - leap) + doy
<1>15. /\ year4 \div 1461 = q /\ year4 % 1461 = day4 /\ year4 = 1461 * q + day4
       /\ doy <= 364 + leap /\ doy \in Nat /\ leap \in {0, 1}
  <2>1. doy \in Nat /\ doy <= 364 + leap /\ leap \in {0, 1}
    BY <1>2, SMTT(30)
  <2> HIDE DEF doy, leap
  <2>2. day4 \in Nat /\ day4 <= 1460 /\ year4 = 1461 * q + day4
    BY <1>6, <2>1, SMTT(30)
  <2> HIDE DEF day4, year4
  <2> QED BY <2>1, <2>2, SMTT(30)
<1>16. /\ n4Yr = IF leap4 THEN Quot(n4Day - 1, 365) ELSE n4Day \div 365
       /\ dayOfYear = IF ~leap4 THEN n4Day % 365
                      ELSE IF n4Yr # 0 THEN (n4Day - 1) % 365 ELSE n4Day
  <2> HIDE DEF leap4, n4Day
  <2> QED OBVIOUS
<1>17. leap4 \in BOOLEAN
  BY SMTT(30)
<1> HIDE DEF leap4, n4Years, n4Day, n4Yr, dayOfYear, doy, leap, year4
<1>18. n4Yr = r /\ dayOfYear = doy /\ ((n4Yr = 0 /\ leap4) <=> leap = 1)
  <2>1. CASE leap4
    <3>1. n4Day = day4 /\ (leap = 1 <=> r = 0)
      BY <1>6, <1>12, <1>14, <1>15, <2>1, SMTT(30)
    <3>2. CASE r = 0
      <4>1. n4Day \in Nat /\ n4Day <= 365 /\ n4Day = doy
        BY <1>15, <3>1, <3>2, SMTT(30)
      <4>2. Quot(n4Day - 1, 365) = 0
        BY <4>1, SMTT(30) DEF Quot
      <4> QED BY <1>16, <2>1, <3>1, <3>2, <4>1, <4>2, SMTT(30)
    <3>3. CASE r > 0
      <4>1. n4Day - 1 = 365 * r + doy /\ doy <= 364 /\ n4Day - 1 \in Nat /\ n4Day \in Nat
        BY <1>15, <3>1, <3>3, SMTT(30)
      <4>2. Quot(n4Day - 1, 365) = (n4Day - 1) \div 365
        BY <4>1, SMTT(30) DEF Quot
      <4>3. (n4Day - 1) \div 365 = r /\ (n4Day - 1) % 365 = doy
        BY <1>15, <4>1, SMTT(30)
      <4> QED BY <1>16, <2>1, <3>1, <3>3, <4>2, <4>3, SMTT(30)
    <3> QED BY <3>2, <3>3, SMTT(30)
  <2>2. CASE ~leap4
    <3>1. c # 0 /\ q = 0 /\ leap = 0
      BY <1>6, <1>12, <1>15, <2>2, SMTT(30)
    <3>2. n4Day = 365 * r + doy /\ doy <= 364
      BY <1>14, <1>15, <2>2, <3>1, SMTT(30)
    <3>3. n4Day \div 365 = r /\ n4Day % 365 = doy
      BY <1>15, <3>2, SMTT(30)
    <3> QED BY <1>16, <2>2, <3>1, <3>3, SMTT(30)
  <2> QED BY <2>1, <2>2
<1>19. year = y
  <2>1. y = 400 * a + 100 * c + 4 * q + r
    BY <1>4 DEF SplitYear
  <2>2. n4Years = q /\ n4Yr = r /\ century = c /\ absolute \div 146097 = a
    BY <1>9, <1>10, <1>13, <1>15, <1>18
  <2>3. year = a * 400 + c * 100 + q * 4 + r
    <3> HIDE DEF absolute
    <3> QED BY <2>2
  <2> HIDE DEF y, year
  <2> QED BY <2>1, <2>3, SMTT(30)
<1>20. n4Yr = 0 /\ leap4 <=> IsLeapYear(y) = 1
  BY <1>18 DEF leap
<1>21. dayOfYear = DaysBefore(y, mo) + d - 1
  BY <1>18 DEF doy
<1> HIDE DEF year, of, y, mo, d
<1>22. of = [year |-> y, isLeap |-> IsLeapYear(y) = 1, day |-> DaysBefore(y, mo) + d - 1]
  BY <1>3, <1>19, <1>20, <1>21
<1> QED BY <1>22 DEF of, day, y, mo, d

(* Past the 29th of February DecodeDate looks a day of a leap year up in    *)
(* the table of other years, and finds its month there.                     *)
LEMMA DayInTable ==
  ASSUME NEW y \in Int, NEW mo \in 1..12, NEW d \in 1..MonthDays(y, mo),
         NEW doy, doy = DaysBefore(y, mo) + d - 1,
         NEW isLeap \in BOOLEAN, isLeap <=> IsLeapYear(y) = 1,
         NEW base1, base1 = (IF isLeap /\ doy >= 60 THEN doy ELSE doy + 1)
  PROVE  IF isLeap /\ doy = 59 THEN mo = 2 /\ d = 29
         ELSE base1 = k_aMonthDaySums[1][mo] + d /\ base1 <= k_aMonthDaySums[1][mo + 1]
<1>1. MonthDays(y, mo) \in 28..31 /\ IsLeapYear(y) \in {0, 1}
  BY MonthsAre, YearsAre
<1>2. CASE IsLeapYear(y) = 0
  <2>1. k_aMonthDaySums[1][mo] = DaysBefore(y, mo) /\ DaysBefore(y, mo) \in Nat
        /\ k_aMonthDaySums[1][mo + 1] = DaysBefore(y, mo) + MonthDays(y, mo)
    BY <1>2, SMTT(60) DEF MonthDays, DaysBefore, k_aMonthDays, k_aMonthDaySums
  <2> QED BY <1>1, <1>2, <2>1, SMTT(60)
<1>3. CASE IsLeapYear(y) = 1
  <2>1. DaysBefore(y, mo) \in Nat
        /\ DaysBefore(y, mo) = k_aMonthDaySums[1][mo] + IF mo > 2 THEN 1 ELSE 0
    BY <1>3, SMTT(60) DEF DaysBefore, k_aMonthDaySums
  <2>2. /\ k_aMonthDaySums[1][mo] \in Nat
        /\ k_aMonthDaySums[1][mo + 1] =
             k_aMonthDaySums[1][mo] + MonthDays(y, mo) - IF mo = 2 THEN 1 ELSE 0
        /\ mo = 1 => k_aMonthDaySums[1][mo] = 0
        /\ mo = 2 => k_aMonthDaySums[1][mo] = 31 /\ MonthDays(y, mo) = 29
        /\ mo > 2 => k_aMonthDaySums[1][mo] >= 59
    BY <1>3, SMTT(60) DEF MonthDays, k_aMonthDays, k_aMonthDaySums
  <2> HIDE DEF k_aMonthDaySums
  <2>3. CASE mo = 1
    BY <1>1, <1>3, <2>1, <2>2, <2>3, SMTT(60)
  <2>4. CASE mo = 2
    BY <1>1, <1>3, <2>1, <2>2, <2>4, SMTT(60)
  <2>5. CASE mo > 2
    BY <1>1, <1>3, <2>1, <2>2, <2>5, SMTT(60)
  <2> QED BY <2>3, <2>4, <2>5, SMTT(60)
<1> QED BY <1>1, <1>2, <1>3

LEMMA MonthDecoded ==
  ASSUME NEW mo \in 1..12, NEW d \in Nat, d >= 1,
         NEW base1, base1 = k_aMonthDaySums[1][mo] + d, base1 <= k_aMonthDaySums[1][mo + 1]
  PROVE  MonthAfter(base1) = mo
<1> DEFINE sums == k_aMonthDaySums[1]
           Q(m) == /\ m > base1 \div 32 /\ base1 <= sums[m + 1]
                   /\ \A k \in (base1 \div 32 + 1)..(m - 1) : base1 > sums[k + 1]
<1>1. /\ sums \in [1..13 -> Nat] /\ sums[mo + 1] <= 31 * mo
      /\ \A j, k \in 1..13 : j < k => sums[j] < sums[k]
  BY SMTT(60) DEF k_aMonthDaySums
<1>2. base1 = sums[mo] + d /\ base1 <= sums[mo + 1]
  OBVIOUS
<1> HIDE DEF sums
<1>3. base1 \in Nat /\ base1 > sums[mo] /\ base1 \div 32 < mo /\ base1 \div 32 \in Nat
  BY <1>1, <1>2, SMTT(60)
<1>4. ASSUME NEW k \in 1..13, k <= mo PROVE base1 > sums[k]
  <2>1. sums[k] <= sums[mo] /\ sums[k] \in Nat /\ sums[mo] \in Nat
    BY <1>1, <1>4, SMTT(60)
  <2> QED BY <1>3, <2>1, SMTT(60)
<1>5. Q(mo)
  <2>1. ASSUME NEW k \in (base1 \div 32 + 1)..(mo - 1) PROVE base1 > sums[k + 1]
    <3>1. k + 1 \in 1..13 /\ k + 1 <= mo
      BY <1>3, <2>1, SMTT(60)
    <3> QED BY <1>4, <3>1
  <2> QED BY <1>2, <1>3, <2>1
<1>6. ASSUME NEW m \in 1..12, Q(m) PROVE m = mo
  <2>1. CASE m < mo
    <3>1. m + 1 \in 1..13 /\ m + 1 <= mo
      BY <2>1, SMTT(60)
    <3>2. base1 > sums[m + 1] /\ sums[m + 1] \in Nat
      BY <1>1, <1>4, <3>1
    <3> QED BY <1>3, <1>6, <3>2, SMTT(60)
  <2>2. CASE m > mo
    <3>1. mo \in (base1 \div 32 + 1)..(m - 1)
      BY <1>3, <2>2, SMTT(60)
    <3>2. base1 > sums[mo + 1]
      BY <1>6, <3>1
    <3>3. sums[mo + 1] \in Nat
      BY <1>1
    <3> QED BY <1>2, <1>3, <3>2, <3>3, SMTT(60)
  <2> QED BY <2>1, <2>2
<1>7. (CHOOSE m \in 1..12 : Q(m)) = mo
  BY <1>5, <1>6, Zenon
<1> QED BY <1>7 DEF MonthAfter, sums

(* cTimeDouble::DecodeDate takes apart what EncodeDate put together, for    *)
(* every date of the years 1 to 9999.                                       *)
THEOREM DatesReadBack ==
  ASSUME NEW t \in OleDates
  PROVE  DecodeDate(EncodeDate(t.Year, t.Month, t.Day)) = <<t.Year, t.Month, t.Day>>
<1> DEFINE y == t.Year
           mo == t.Month
           d == t.Day
           day == EncodeDate(y, mo, d)
           doy == DaysBefore(y, mo) + d - 1
           isLeap == IsLeapYear(y) = 1
           base1 == IF isLeap /\ doy >= 60 THEN doy ELSE doy + 1
           sums == k_aMonthDaySums[1]
<1>1. y \in Int /\ mo \in 1..12 /\ d \in 1..MonthDays(y, mo) /\ d \in Nat /\ d >= 1
  <2>1. t \in Dates
    BY DEF OleDates
  <2>2. y \in Int /\ mo \in 1..12 /\ d \in 1..MonthDays(y, mo) /\ MonthDays(y, mo) \in 28..31
    BY <2>1, DatesAre, MonthIs
  <2> QED BY <2>2
<1>2. DecodeYear(day) = [year |-> y, isLeap |-> isLeap, day |-> doy]
  BY YearDecodes
<1> HIDE DEF y, mo, d, day
<1>3. IF isLeap /\ doy = 59 THEN mo = 2 /\ d = 29
      ELSE base1 = sums[mo] + d /\ base1 <= sums[mo + 1]
  <2>1. isLeap \in BOOLEAN /\ (isLeap <=> IsLeapYear(y) = 1)
    OBVIOUS
  <2>2. doy = DaysBefore(y, mo) + d - 1 /\ base1 = IF isLeap /\ doy >= 60 THEN doy ELSE doy + 1
    OBVIOUS
  <2> HIDE DEF isLeap, doy, base1
  <2> QED BY <1>1, <2>1, <2>2, DayInTable, SMTT(60)
<1>4. DecodeDate(day) = IF isLeap /\ doy = 59 THEN <<y, 2, 29>>
                        ELSE <<y, MonthAfter(base1), base1 - sums[MonthAfter(base1)]>>
  <2> HIDE DEF isLeap, doy
  <2>1. /\ DecodeYear(day).year = y /\ DecodeYear(day).isLeap = isLeap
        /\ DecodeYear(day).day = doy
    BY <1>2
  <2> QED BY <2>1 DEF DecodeDate
<1> HIDE DEF isLeap, doy, base1
<1>5. CASE isLeap /\ doy = 59
  BY <1>3, <1>4, <1>5 DEF day, y, mo, d
<1>6. CASE ~(isLeap /\ doy = 59)
  <2>1. base1 = sums[mo] + d /\ base1 <= sums[mo + 1]
    BY <1>3, <1>6
  <2>2. MonthAfter(base1) = mo
    BY <1>1, <2>1, MonthDecoded, Zenon
  <2>3. base1 - sums[mo] = d
    <3>1. sums[mo] \in Nat
      BY <1>1, SMTT(60) DEF k_aMonthDaySums
    <3> HIDE DEF sums
    <3> QED BY <1>1, <2>1, <3>1
  <2>4. DecodeDate(day) = <<y, mo, d>>
    BY <1>4, <1>6, <2>2, <2>3
  <2> QED BY <2>4 DEF day, y, mo, d
<1> QED BY <1>5, <1>6

(* cTimeDouble::GetTimeUnits answers the date cTimeDouble::InitTimeUnits was*)
(* given, down to the second, for every date from 1899/12/31 to 9999.       *)
THEOREM DoublesReadBack ==
  ASSUME NEW t \in DoubleDates, NEW old, NEW local
  PROVE  UnitsOfDouble(DoubleOfUnits(old, t, local)) = t
<1> DEFINE day == EncodeDate(t.Year, t.Month, t.Day)
           sec == SecondOfDay(t)
<1>1. t \in Dates /\ t \in OleDates /\ DoubleOfUnits(old, t, local) = [day |-> day, sec |-> sec]
  BY DoubleIs
<1>2. DecodeDate(day) = <<t.Year, t.Month, t.Day>>
  BY <1>1, DatesReadBack
<1> HIDE DEF day, sec
<1>3. UnitsOfDouble([day |-> day, sec |-> sec]) =
        Units(t.Year, t.Month, t.Day, sec \div 3600, (sec % 3600) \div 60, sec % 60, 0)
  BY <1>2, SMTT(30) DEF UnitsOfDouble
<1>4. t = Units(t.Year, t.Month, t.Day, sec \div 3600, (sec % 3600) \div 60, sec % 60, 0)
  <2>1. t = Units(t.Year, t.Month, t.Day, t.Hour, t.Minute, t.Second, 0)
    BY <1>1, DatesAre
  <2> QED BY <1>1, <2>1, ClockIs, SMTT(30) DEF sec
<1> QED BY <1>1, <1>3, <1>4, SMTT(30)

-----------------------------------------------------------------------------
(* GetDOW is a remainder of a sum in which the day of the month counts once.*)
WeekBase(y, mo) == (y - 2000) + GetLeapYearsSince2K(y) + DaysBefore(y, mo) + 5

LEMMA WeekdayIs ==
  ASSUME NEW y \in Int, NEW mo \in 1..12, NEW d \in Int
  PROVE  WeekBase(y, mo) \in Int /\ GetDOW(y, mo, d) = (WeekBase(y, mo) + d) % 7
<1> DEFINE n == (y - 2000) + GetLeapYearsSince2K(y) + DaysBefore(y, mo) + (d - 1) + 6
<1>1. DaysBefore(y, mo) \in Nat /\ GetLeapYearsSince2K(y) \in Int
  BY MonthsAre, YearsAre, Zenon
<1>2. WeekBase(y, mo) \in Int /\ n = WeekBase(y, mo) + d /\ n \in Int
  BY <1>1 DEF WeekBase
<1>3. GetDOW(y, mo, d) = IF Rem(n, 7) < 0 THEN Rem(n, 7) + 7 ELSE Rem(n, 7)
  BY DEF GetDOW
<1> HIDE DEF n
<1>4. GetDOW(y, mo, d) = n % 7
  BY <1>2, <1>3 DEF Rem, Quot
<1> QED BY <1>2, <1>4

(* cTimeUnits::GetDOW, which never counts days, follows the day number of   *)
(* every valid date, before 1970 too: the first of 1970 was a Thursday.     *)
THEOREM WeekdaysAgree ==
  ASSUME NEW t \in Dates
  PROVE  GetDOW(t.Year, t.Month, t.Day) = (DayOf(t) + 4) % 7
<1> DEFINE y == t.Year
           n == WeekBase(y, t.Month) + t.Day
<1>1. y \in Int /\ t.Month \in 1..12 /\ t.Day \in Int
  BY DatesAre DEF Dates, Stamps
<1>2. DaysBefore(y, t.Month) \in Nat /\ GetLeapYearsSince2K(y) \in Int
  BY MonthIs
<1>3. n \in Int /\ GetDOW(y, t.Month, t.Day) = n % 7
  <2>1. WeekBase(y, t.Month) \in Int
        /\ GetDOW(y, t.Month, t.Day) = (WeekBase(y, t.Month) + t.Day) % 7
    BY <1>1, WeekdayIs, Zenon
  <2> QED BY <1>1, <2>1
<1>4. DayOf(t) + 4 = n + 7 * (52 * (y - 1970) + 5)
  BY <1>1, <1>2 DEF DayOf, DayNumber, WeekBase
<1> HIDE DEF n, y
<1>5. (n + 7 * (52 * (y - 1970) + 5)) % 7 = n % 7
  BY <1>1, <1>3
<1> QED BY <1>3, <1>4, <1>5 DEF y

(* cTimeDouble::get_DayOfWeek and cTimeUnits::GetDOW agree on the day of the*)
(* week of every date a cTimeDouble holds above zero.                       *)
THEOREM DaysOfWeekAgree ==
  ASSUME NEW t \in DoubleDates, NEW old, NEW local
  PROVE  DayOfWeek(DoubleOfUnits(old, t, local)) = GetDOW(t.Year, t.Month, t.Day)
<1> DEFINE day == EncodeDate(t.Year, t.Month, t.Day)
<1>1. t \in Dates /\ t \in OleDates
      /\ DoubleOfUnits(old, t, local) = [day |-> day, sec |-> SecondOfDay(t)]
  BY DoubleIs
<1>2. day = DayOf(t) + 25569 /\ DayOf(t) \in Int
  BY <1>1, OleDayIs, DayOfIs, SMTT(30)
<1>3. DayOfWeek([day |-> day, sec |-> SecondOfDay(t)]) = (day - 1) % 7
  BY SMTT(30) DEF DayOfWeek
<1> HIDE DEF day
<1>4. (day - 1) % 7 = (DayOf(t) + 4) % 7
  <2>1. day - 1 = (DayOf(t) + 4) + 7 * 3652
    BY <1>2, SMTT(30)
  <2> QED BY <1>2, <2>1, SMTT(30)
<1> QED BY <1>1, <1>3, <1>4, WeekdaysAgree, SMTT(30)

(* The day at which cTimeUnits::isInDST1 lets daylight saving start or end  *)
(* is the first Sunday from the day its rule names, in every month and year.*)
THEOREM SundaysAreFound ==
  ASSUME NEW y \in Int, NEW mo \in 1..12, NEW from \in Int
  PROVE  /\ FirstSunday(y, mo, from) \in from..(from + 6)
         /\ GetDOW(y, mo, FirstSunday(y, mo, from)) = 0
         /\ \A d \in from..(FirstSunday(y, mo, from) - 1) : GetDOW(y, mo, d) # 0
<1> DEFINE base == WeekBase(y, mo)
           dow == GetDOW(y, mo, from)
           sunday == FirstSunday(y, mo, from)
<1>1. base \in Int /\ \A d \in Int : GetDOW(y, mo, d) = (base + d) % 7
  BY WeekdayIs, Zenon
<1>2. dow = (base + from) % 7
  BY <1>1
<1>3. sunday = from + ((7 - dow) % 7)
  BY DEF FirstSunday
<1> HIDE DEF base, dow, sunday
<1>4. sunday \in Int /\ sunday \in from..(from + 6) /\ (base + sunday) % 7 = 0
  BY <1>1, <1>2, <1>3
<1>5. ASSUME NEW d \in from..(sunday - 1) PROVE GetDOW(y, mo, d) # 0
  <2>1. d \in Int /\ (base + d) % 7 # 0
    BY <1>1, <1>2, <1>3, <1>4
  <2> QED BY <1>1, <2>1
<1> QED BY <1>1, <1>4, <1>5 DEF sunday

(* cTimeUnits::GetDosDate packs a date of FAT so that InitTimeDos reads the *)
(* same date back, with an odd second rounded down, while the year fits     *)
(* its seven bits.                                                          *)
THEOREM DosDateReadsBack ==
  ASSUME NEW t \in Dates, 1981 <= t.Year, t.Year <= 2107
  PROVE  PutDosDate(GetDosDate(t)) = [t EXCEPT !.Second = 2 * (t.Second \div 2)]
<1> DEFINE y == t.Year - 1980
           mo == t.Month
           d == t.Day
           h == t.Hour
           mi == t.Minute
           s == t.Second \div 2
           p == GetDosDate(t)
<1>1. /\ t.Year \in Int /\ mo \in 1..12 /\ d \in 1..MonthDays(t.Year, mo)
      /\ h \in Nat /\ h <= 23 /\ mi \in Nat /\ mi <= 59 /\ t.Second \in Nat /\ t.Second <= 59
      /\ t = Units(t.Year, mo, d, h, mi, t.Second, 0)
  BY DatesAre
<1>2. MonthDays(t.Year, mo) \in 28..31
  BY MonthIs
<1>3. d \in 1..31 /\ s \in 0..29 /\ y \in Int /\ 1 <= y /\ y <= 127
  BY <1>1, <1>2
<1>4. p.date = (d + 32 * mo + 512 * y) % 65536 /\ p.time = s + 32 * mi + 2048 * h
  BY <1>1 DEF GetDosDate
<1>5. d + 32 * mo + 512 * y < 65536 /\ d + 32 * mo + 512 * y \in Nat
  BY <1>1, <1>3
<1> HIDE DEF p, y, d, s, mo, h, mi
<1>6. p.date = d + 32 * mo + 512 * y
  BY <1>1, <1>3, <1>4, <1>5, SMTT(60)
<1>7. p.date \div 512 = y /\ (p.date \div 32) % 16 = mo /\ p.date % 32 = d
  BY <1>1, <1>3, <1>6, SMTT(60)
<1>8. p.time \div 2048 = h /\ (p.time \div 32) % 64 = mi /\ p.time % 32 = s
  BY <1>1, <1>3, <1>4, SMTT(60)
<1>9. PutDosDate(p) = Units(t.Year, mo, d, h, mi, 2 * s, 0)
  BY <1>1, <1>7, <1>8 DEF PutDosDate, y
<1>10. [t EXCEPT !.Second = 2 * s] = Units(t.Year, mo, d, h, mi, 2 * s, 0)
  BY <1>1 DEF Units
<1> QED BY <1>9, <1>10 DEF p, s
================================================================================
