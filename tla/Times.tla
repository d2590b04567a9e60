-------------------------------- MODULE Times --------------------------------
(***************************************************************************)
(* What cTimeUnits does with a date: it adds months, days, seconds and time *)
(* zones, prints it and reads it back (cTimeParser, cTimeZoneMgr).  A text  *)
(* is a sequence of tokens: numbers, names and separators; how a number is  *)
(* padded is left out.                                                      *)
(***************************************************************************)
EXTENDS Calendar, Sequences, SequencesExt, FiniteSets

CONSTANT Local      \* GetLocalMinutesWest(): what tzset found

-----------------------------------------------------------------------------
(* AddMonths divides with the C operators, whatever the sign.               *)
AddMonths(t, months) ==
  LET m == months + t.Month - 1
  IN [t EXCEPT !.Month = 1 + Rem(m, 12), !.Year = @ + Quot(m, 12)]

(* AddDays first crosses years, then months.  A step back sets the last day *)
(* of the year or month before, but pays for one day too few.  A month that *)
(* falls below January has no days, and the second loop does not end: Lost. *)
Lost == [SetZeros EXCEPT !.Month = 0]

RECURSIVE CrossYears(_, _)
CrossYears(t, days) ==
  LET to == DayOfYear(t) + days IN
  IF to >= DaysInYear(t)
  THEN CrossYears([t EXCEPT !.Year = @ + 1, !.Month = 1, !.Day = 1],
                  days - (DaysInYear(t) - DayOfYear(t)))
  ELSE IF to < 0
  THEN CrossYears([t EXCEPT !.Year = @ - 1, !.Month = 12, !.Day = 31],
                  days + DaysInYear(t))
  ELSE <<t, days>>

RECURSIVE CrossMonths(_, _)
CrossMonths(t, days) ==
  LET dayOfMonth == t.Day - 1
      before == [t EXCEPT !.Month = @ - 1]
  IN IF t.Month < 1 THEN Lost
     ELSE IF dayOfMonth + days >= DaysInMonth(t)
     THEN CrossMonths([t EXCEPT !.Month = @ + 1, !.Day = 1],
                      days - (DaysInMonth(t) - dayOfMonth))
     ELSE IF dayOfMonth + days < 0
     THEN CrossMonths([before EXCEPT !.Day = DaysInMonth(before)],
                      days + dayOfMonth)
     ELSE [t EXCEPT !.Day = @ + days]

AddDays(t, days) ==
  LET crossed == CrossYears(t, days) IN CrossMonths(crossed[1], crossed[2])

AddSeconds(t, seconds) ==
  LET to == seconds + SecondOfDay(t)
      days == IF to >= k_nSecondsPerDay THEN to \div k_nSecondsPerDay
              ELSE IF to < 0 THEN Quot(to, k_nSecondsPerDay) - 1 ELSE 0
      moved == IF days = 0 THEN t ELSE AddDays(t, days)
      left == to - days * k_nSecondsPerDay
  IN [moved EXCEPT !.Hour = left \div 3600, !.Minute = (left % 3600) \div 60,
                   !.Second = left % 60]

AddTZ(t, zone) ==
  LET offset == IF zone = TZ_LOCAL THEN Local ELSE zone
      zoned == [t EXCEPT !.TZ = offset]
      west == IF IsInDST1(t) THEN offset - 60 ELSE offset
  IN IF zone = TZ_UTC THEN zoned ELSE AddSeconds(zoned, -(west * 60))

(* cTimeInt::GetTimeUnits and cTimeDouble::GetTimeUnits.                    *)
GetTimeUnits(time, zone) ==
  IF IsTimeValid(time) THEN AddTZ(UtcUnits(time), zone) ELSE NoUnits
GetDoubleUnits(double, zone) == AddTZ(UnitsOfDouble(double), zone)

-----------------------------------------------------------------------------
Num(n) == [kind |-> "num", unit |-> "Numeric", n |-> n]
Name(unit, n) == [kind |-> "name", unit |-> unit, n |-> n]
Sep(c) == [kind |-> "sep", unit |-> "none", n |-> c]
Space == [kind |-> "space", unit |-> "none", n |-> " "]

(* k_TimeZones: each offset has one name in a text; others have none.       *)
k_TimeZones == {0, 300, 360, 420, 480}
SepChars == {"/", ":", "T", ".", ",", "-"}

k_aStrFormats == <<
  <<"Y", "/", "m", "/", "d", " ", "H", ":", "M", ":", "S">>,
  <<"Y", "-", "m", "-", "d", " ", "H", ":", "M", ":", "S">>,
  <<"Y", "-", "m", "-", "d", " ", "H", ":", "M", ":", "S", " ", "Z">>,
  <<"m", "/", "d", "/", "Y", " ", "H", ":", "M", ":", "S">>,
  <<"a", ",", " ", "d", " ", "b", " ", "Y", " ", "H", ":", "M", ":", "S", " ", "z">>,
  <<"d", " ", "b", " ", "Y", " ", "H", ":", "M", ":", "S", " ", "z">>,
  <<"Y", "/", "m", "/", "d", "T", "H", ":", "M", ":", "S">>,
  <<"Y", "/", "m", "/", "d", "T", "H", ":", "M", ":", "S", "z">>,
  <<"Y", "m", "d", "H", "M", "S", "z">> >>

(* The tokens of one element of a format.  %j prints the day of the week.   *)
FormCode(t, code) ==
  LET dow == GetDOW(t.Year, t.Month, t.Day) IN
  CASE code = "y" -> <<Num(t.Year % 100)>>
    [] code = "Y" -> <<Num(t.Year)>>
    [] code \in {"b", "h", "B"} -> <<Name("Month", t.Month)>>
    [] code = "m" -> <<Num(t.Month)>>
    [] code = "d" -> <<Num(t.Day)>>
    [] code \in {"a", "A"} -> <<Name("DOW", dow)>>
    [] code \in {"w", "j"} -> <<Num(dow)>>
    [] code \in {"H", "k"} -> <<Num(t.Hour)>>
    [] code = "I" -> <<Num(IF t.Hour % 12 = 0 THEN 12 ELSE t.Hour % 12)>>
    [] code = "p" -> <<Name("Hour", IF t.Hour < 12 THEN 0 ELSE 12)>>
    [] code = "M" -> <<Num(t.Minute)>>
    [] code = "S" -> <<Num(t.Second)>>
    [] code \in {"Z", "z"} ->
         IF t.TZ \in k_TimeZones THEN <<Name("TZ", t.TZ)>> ELSE <<>>
    [] code = " " -> <<Space>>
    [] code \in SepChars -> <<Sep(code)>>

GetFormStr(t, format) ==
  FlattenSeq([i \in DOMAIN format |-> FormCode(t, format[i])])

-----------------------------------------------------------------------------
(* cTimeParser: a unit is a type, a value and the separator behind it.      *)
MaxUnits == 12
Unit(tok, sep) == [type |-> tok.unit, n |-> tok.n, sep |-> sep]
(* Every T is a separator, the one of "Tue" and of "Thu" too.               *)
IsSep(tok) == tok.kind = "sep" \/ (tok.kind = "name" /\ tok.unit = "DOW" /\ tok.n \in {2, 4})

RECURSIVE SkipSpace(_, _)
SkipSpace(text, i) ==
  IF i <= Len(text) /\ text[i].kind = "space" THEN SkipSpace(text, i + 1) ELSE i

(* ScanUnits: units are complete; last is the token that still needs a      *)
(* separator (<<>>: none does).  What is not a unit ends the scan.          *)
RECURSIVE ScanUnits(_, _, _, _)
ScanUnits(text, i, units, last) ==
  LET j == SkipSpace(text, i)
      ends == j > Len(text)
      Done(sep) == Append(units, Unit(last[1], sep))
      Take(us) == IF Len(us) >= MaxUnits \/ text[j].kind \notin {"num", "name"}
                  THEN us ELSE ScanUnits(text, j + 1, us, <<text[j]>>)
  IN IF ends \/ IsSep(text[j])
     THEN IF last = <<>> THEN units
          ELSE IF ends THEN Done("")
          ELSE IF text[j].kind = "name" THEN Done("T")
          ELSE IF Len(units) + 1 >= MaxUnits THEN Done(text[j].n)
          ELSE ScanUnits(text, j + 1, Done(text[j].n), <<>>)
     ELSE IF last = <<>> THEN Take(units)
     ELSE IF j = i
     THEN IF text[j].unit = "TZ" THEN Take(Done(" ")) ELSE units
     ELSE Take(Done(" "))

(* The first number over 366 is the year; the first number before a colon   *)
(* is the hour, with minute and second behind it; AM and PM are added to it.*)
IsNumber(units, i) == i <= Len(units) /\ units[i].type = "Numeric"
YearAt(units) == SelectInSeq(units, LAMBDA u : u.type = "Numeric" /\ u.n > 366)
HourAt(units) ==
  LET at == {i \in DOMAIN units : /\ units[i].type = "Numeric"
                                  /\ units[i].sep = ":" /\ i # YearAt(units)}
  IN IF at = {} THEN 0 ELSE Min(at)

TypeOf(units, i) ==
  LET h == HourAt(units)
      second == IsNumber(units, h + 2) /\ units[h + 1].sep = ":"
  IN CASE h > 0 /\ i = h -> "Hour"
       [] h > 0 /\ i = h + 1 -> "Minute"
       [] h > 0 /\ i = h + 2 /\ second -> "Second"
       [] i = YearAt(units) -> "Year"
       [] h > 0 /\ i > h /\ units[i].type = "Hour" -> "Ignore"
       [] OTHER -> units[i].type

HourWithPM(units) ==
  LET h == HourAt(units)
      pm == {i \in DOMAIN units : i > h + 1 /\ units[i].type = "Hour" /\ units[i].n = 12}
  IN IF units[h].n < 12 /\ pm # {} THEN units[h].n + 12 ELSE units[h].n

ParseString(text) ==
  LET units == ScanUnits(text, 1, <<>>, <<>>)
  IN [i \in DOMAIN units |->
        [units[i] EXCEPT !.type = TypeOf(units, i),
                         !.n = IF i = HourAt(units) THEN HourWithPM(units) ELSE @]]

-----------------------------------------------------------------------------
GetTypeFromFormatCode(code) ==
  CASE code \in {"y", "Y"} -> "Year"
    [] code \in {"b", "h", "B", "m"} -> "Month"
    [] code = "d" -> "Day"
    [] code \in {"H", "I"} -> "Hour"
    [] code = "M" -> "Minute"
    [] code = "S" -> "Second"
    [] code \in {"Z", "z"} -> "TZ"
    [] code \in {"a", "A", "w"} -> "DOW"
    [] code \in {"j", "p"} -> "Ignore"

(* SetUnitFormats stops at two codes with nothing between them.             *)
RECURSIVE SetUnitFormats(_)
SetUnitFormats(format) ==
  IF format = <<>> \/ format[1] \in SepChars \cup {" "} THEN <<>>
  ELSE LET rest == Tail(format)
           types == <<GetTypeFromFormatCode(format[1])>>
       IN IF rest = <<>> \/ rest[1] \notin SepChars \cup {" "} THEN types
          ELSE IF Len(rest) > 1 /\ rest[2] = " "
          THEN types \o SetUnitFormats(SubSeq(rest, 3, Len(rest)))
          ELSE types \o SetUnitFormats(Tail(rest))

UnitRange(type) ==
  CASE type = "Year" -> 1..3000
    [] type = "Month" -> 1..12
    [] type = "Day" -> 1..31
    [] type = "Hour" -> 0..23
    [] type \in {"Minute", "Second"} -> 0..59
    [] type = "TZ" -> (-TZ_MAX)..TZ_MAX
    [] type = "DOW" -> 0..7

TestMatchUnit(u, type) == u.n \in UnitRange(type) /\ u.type \in {type, "Numeric"}
FindType(units, type) == SelectInSeq(units, LAMBDA u : u.type = type)

TestMatchFormat(units, types) ==
  LET n == IF Len(units) < Len(types) THEN Len(units) ELSE Len(types)
      Extra(i) == /\ units[i].type # "Numeric"
                  /\ ~Contains(types, units[i].type)
                  /\ FindType(units, units[i].type) >= i
  IN /\ Len(units) > 1
     /\ \A i \in 1..n : TestMatchUnit(units[i], types[i])
     /\ \A i \in (Len(types) + 1)..Len(units) : Extra(i)
     /\ Len(units) < Len(types) => Len(types) > 3 /\ Len(units) >= 3

Resolve(units, types) ==
  [i \in DOMAIN units |-> IF i <= Len(types) /\ units[i].type = "Numeric"
                          THEN [units[i] EXCEPT !.type = types[i]] ELSE units[i]]

(* TestMatches and GetTimeUnits: the first format that fits gives the types.*)
SetUnit(t, u) ==
  IF u.type \in {"DOW", "Ignore"} THEN t ELSE [t EXCEPT ![u.type] = u.n]
NoTime == [ok |-> FALSE, t |-> SetZeros]
SetTimeStr(text, zone) ==
  LET units == ParseString(text)
      match == SelectInSeq(k_aStrFormats,
                           LAMBDA f : TestMatchFormat(units, SetUnitFormats(f)))
      typed == Resolve(units, SetUnitFormats(k_aStrFormats[match]))
      got == FoldLeft(SetUnit, [SetZeros EXCEPT !.TZ = zone], typed)
  IN IF match = 0 THEN NoTime
     ELSE [ok |-> TRUE, t |-> [got EXCEPT !.TZ = IF @ = TZ_LOCAL THEN Local ELSE @]]

-----------------------------------------------------------------------------
(* GetTimeSpanStr for cTimeInt: a span is a date that many seconds after    *)
(* the first of the first year, so that a month over is thirty days.        *)
SpanUnits == <<"Year", "Month", "Day", "Hour", "Minute", "Second">>
SubRatio == [Year |-> 12, Month |-> 30, Day |-> 24, Hour |-> 60, Minute |-> 60]
Unit0(t, u) == t[u] - (IF u \in {"Year", "Month", "Day"} THEN 1 ELSE 0)

RECURSIVE CarriedUnits(_, _)
CarriedUnits(t, i) ==
  IF i = 1 THEN 0
  ELSE (CarriedUnits(t, i - 1) + Unit0(t, SpanUnits[i - 1])) * SubRatio[SpanUnits[i - 1]]

GetTimeSpanStr(seconds, high, desired) ==
  LET t == AddSeconds(SetZeros, seconds)
      from == SelectInSeq(SpanUnits, LAMBDA u : u = high)
      all == [k \in 1..(Len(SpanUnits) - from + 1) |->
                LET i == from + k - 1 IN
                [unit |-> SpanUnits[i],
                 n |-> Unit0(t, SpanUnits[i]) + (IF k = 1 THEN CarriedUnits(t, i) ELSE 0)]]
      some == SelectSeq(all, LAMBDA p : p.n # 0)
      count == IF Len(some) < desired THEN Len(some) ELSE desired
  IN IF seconds <= 0 THEN <<>> ELSE SubSeq(some, 1, count)
-----------------------------------------------------------------------------
(***************************************************************************)
(* The tick of the system (cTimeSys, cTimeSpec), timers on it (cTimerSys),  *)
(* the times of files, which a FAT keeps to two seconds (cFileStatus),      *)
(* and ranges of integers (cRangeT).  A tick is an unsigned word of w bits, *)
(* the difference of two of them a signed one: 32 in the code, where 0 and  *)
(* the largest word stand for never and always.                             *)
(***************************************************************************)

Signed(word, w) == IF word >= 2^(w - 1) THEN word - 2^w ELSE word
k_CLEAR == 0
k_INF(w) == 2^w - 1
k_DMAX(w) == 2^(w - 1) - 1

isTimeFuture(t, now) == t > now
get_TimeTilSys(t, now, w) ==
  IF t = k_CLEAR THEN -k_DMAX(w) ELSE IF t = k_INF(w) THEN k_DMAX(w) ELSE Signed((t - now) % 2^w, w)
get_AgeSys(t, now, w) ==
  IF t = k_CLEAR THEN k_DMAX(w) ELSE IF t = k_INF(w) THEN -k_DMAX(w) ELSE Signed((now - t) % 2^w, w)
InitTimeNowPlusSys(now, offset, w) == (now + offset) % 2^w

(* A timer: the time of its next event, and how often there is one.         *)
NewTimer(t, freq) == [time |-> t, freq |-> freq]
ClearTimer(w) == NewTimer(k_INF(w), 0)
(* It waits once its time is past, and fires while that is still to come.   *)
OnTickCheck(timer, now, w) ==
  LET diff == Signed((timer.time - now) % 2^w, w)
  IN IF diff < 0 \/ timer.time \in {k_CLEAR, k_INF(w)} THEN [fires |-> FALSE, timer |-> timer]
     ELSE [fires |-> TRUE,
           timer |-> [timer EXCEPT !.time = IF timer.freq = 0 THEN k_INF(w)
                                            ELSE IF diff <= timer.freq THEN (@ + timer.freq) % 2^w
                                            ELSE (now + 1) % 2^w]]

(* Seconds and nanoseconds; milliseconds go there, and come back.           *)
put_mSec(n) == [sec |-> n \div 1000, nsec |-> (n % 1000) * 1000000]
get_mSec(spec) == spec.sec * 1000 + spec.nsec \div 1000000
get_nSec(spec) == spec.sec * 1000000000 + spec.nsec

-----------------------------------------------------------------------------
(* What stat() says of a file, or of something else; its own name tells     *)
(* whether it is hidden.                                                    *)
InitFileStatus(stat) ==
  [create |-> stat.ctime, change |-> stat.mtime, access |-> stat.atime, size |-> stat.size,
   attrs |-> {CASE stat.mode = "REG" -> "Normal" [] stat.mode = "DIR" -> "Directory"
                [] stat.mode = "LNK" -> "Link" [] OTHER -> "Volume"}]
IsLinuxHidden(name) == name # <<>> /\ name[1] = 46
UpdateLinuxHidden(status, name) ==
  IF IsLinuxHidden(name) THEN [status EXCEPT !.attrs = @ \cup {"Hidden"}] ELSE status
ReadFileStatus(stat, name) == UpdateLinuxHidden(InitFileStatus(stat), name)
MakeFatTime(t) == t - (t % 2)
CompareChangeTime(t1, t2) ==
  LET a == MakeFatTime(t1)
      b == MakeFatTime(t2)
  IN IF a = b THEN 0 ELSE IF a < b THEN -1 ELSE 1
IsFileEqualTo(x, y) ==
  x.create = y.create /\ CompareChangeTime(x.change, y.change) = 0 /\ x.size = y.size

-----------------------------------------------------------------------------
(* Ranges, both ends of which belong to them.                               *)
Between(lo, hi) == [lo |-> lo, hi |-> hi]
isNormal(r) == r.lo <= r.hi
NormalizeRange(r) == IF isNormal(r) THEN r ELSE Between(r.hi, r.lo)
IsInsideI(r, val) == val >= r.lo /\ val <= r.hi
IsInsideX(r, val) == val >= r.lo /\ val < r.hi
GetClampValue(r, val) == IF val < r.lo THEN r.lo ELSE IF val > r.hi THEN r.hi ELSE val
get_RangeI(r) == r.hi - r.lo + 1
get_Avg(r) == LET sum == r.lo + r.hi IN IF sum < 0 THEN -((-sum) \div 2) ELSE sum \div 2
(* The remainder has the sign of what is divided.                           *)
GetSpinValueI(r, val) ==
  LET off == val - r.lo
      rest == IF off < 0 THEN -((-off) % get_RangeI(r)) ELSE off % get_RangeI(r)
  IN rest + IF rest < 0 THEN r.hi + 1 ELSE r.lo
UnionValue(r, val) == Between(IF val < r.lo THEN val ELSE r.lo, IF val > r.hi THEN val ELSE r.hi)
SetUnionRange(r, x) == Between(IF x.lo < r.lo THEN x.lo ELSE r.lo, IF x.hi > r.hi THEN x.hi ELSE r.hi)
IsRangeOverlapI(r, x) == ~(x.lo > r.hi \/ x.hi < r.lo)
=============================================================================
