------------------------------- MODULE MCValues -------------------------------
(***************************************************************************)
(* The pure parts of the library against reference definitions.  A step     *)
(* puts one input on trial, and the invariants compare what the code        *)
(* computes from it with what it should be, wherever two pieces of code     *)
(* must agree or one must undo the other.                                   *)
(***************************************************************************)
EXTENDS Integers, Sequences, FiniteSets, FiniteSetsExt, SequencesExt

VARIABLE item

Local == 300                     \* the local zone: five hours west
T == INSTANCE Times
X == INSTANCE TextBlocks
F == INSTANCE Formats
W == INSTANCE Words
P == INSTANCE Paths
G == INSTANCE LogFilters WITH WARN <- 4, QTY <- 8, Prefix <- [level \in 4..7 |-> <<87, 58>>],
       NoNewLine <- "NOCRLF", Colon <- 58, NewLine <- 10, Returns <- 13

None == [kind |-> "none"]
Init == item = None
Try(kind, input) == item = None /\ item' = [kind |-> kind, in |-> input]
On(kind, Holds(_)) == item.kind = kind => Holds(item.in)

-----------------------------------------------------------------------------
(* Dates: every month of a cycle of leap years at both ends of what a 32 bit*)
(* time reaches, of centuries that are leap years and that are not, and of  *)
(* the years in which the rule of daylight saving changed.                  *)
Years == {1900, 1970, 1971, 1972, 1973, 1981, 1987, 1999, 2000, 2001, 2004,
          2006, 2007, 2036, 2037, 2099, 2100, 2101}
Dates == {d \in Years \X (1..12) \X {1, 7, 8, 14, 28, 29, 30, 31} :
            d[3] <= T!MonthDays(d[1], d[2])}
TryDate == \E d \in Dates : Try("date", d)

Leap(y) == (y % 4 = 0 /\ y % 100 # 0) \/ y % 400 = 0
DaysOf(y, mo) == IF mo = 2 THEN IF Leap(y) THEN 29 ELSE 28
                 ELSE IF mo \in {4, 6, 9, 11} THEN 30 ELSE 31
DayNumber(d) ==                  \* days since the first of 1970
  LET Days(y) == IF Leap(y) THEN 366 ELSE 365
  IN MapThenSumSet(Days, 1970..(d[1] - 1)) - MapThenSumSet(Days, (d[1])..1969)
       + MapThenSumSet(LAMBDA mo : DaysOf(d[1], mo), 1..(d[2] - 1)) + d[3] - 1
Noon(d) == T!Units(d[1], d[2], d[3], 12, 2, 4, 0)
Today(t) == DayNumber(<<t.Year, t.Month, t.Day>>)
Sundays(d) == Cardinality({k \in 1..(d[3]) : (DayNumber(<<d[1], d[2], k>>) + 4) % 7 = 0})

(* One day number however it is reached: seconds since 1970 and OLE dates,  *)
(* both ways, agree on it, and so do the days of the week, the packed date  *)
(* of FAT and a walk of that many days.                                     *)
DateAgrees(d) ==
  LET n == DayNumber(d)
      t == Noon(d)
      instant == T!At(n, 43324)
      week == (n + 4) % 7
  IN /\ d[1] >= 1970 => T!InitTimeUnits(T!Invalid, t, Local) = instant
     /\ d[1] <= 2037 => T!UtcUnits(instant) = IF d[1] >= 1970 THEN t ELSE T!NoUnits
     /\ T!DoubleOfUnits(T!Invalid, t, Local) = T!GetTimeFromSec(instant)
     /\ T!UnitsOfDouble(T!GetTimeFromSec(instant)) = t
     /\ T!GetTimeFromFile(T!GetAsFileTime(instant)) = T!GetTimeFromSec(instant)
     /\ T!DoubleAsFileTime(T!GetTimeFromSec(instant)) = T!GetAsFileTime(instant)
     /\ T!TimeIntOfFile(T!GetAsFileTime(instant)) = instant
     /\ T!GetTimeFromDays(T!GetTimeFromSec(instant)) = instant
     /\ T!GetDoubleUnits(T!GetTimeFromSec(instant), T!TZ_UTC) = t
     /\ T!IsTimeValid(instant) <=> d[1] >= 1970
     /\ T!GetDOW(d[1], d[2], d[3]) = week
     /\ T!DayOfWeek(T!GetTimeFromSec(instant)) = week
     /\ d[1] > 1980 => T!PutDosDate(T!GetDosDate(t)) = t
     /\ \A k \in {1, 31, 365, 1461} :
          LET u == T!AddDays(t, k)
          IN T!IsReasonableTimeUnits(u) /\ Today(u) = n + k /\ T!Compare(t, u) = -1
     /\ LET u == T!AddSeconds(t, 43076)         \* to midnight, and past it
        IN Today(u) = n + 1 /\ T!SecondOfDay(u) = 0
     /\ LET u == T!AddMonths(t, 25)
        IN u.Year * 12 + u.Month = t.Year * 12 + t.Month + 25
     /\ d[1] <= 2037 =>
          T!GetTimeUnits(instant, T!TZ_UTC) = IF d[1] >= 1970 THEN t ELSE T!NoUnits
     /\ (d[1] \in 2007..2100 /\ d[2] \in {3, 11}) =>
          (T!IsInDST1(t) <=> IF d[2] = 3 THEN Sundays(d) >= 2 ELSE Sundays(d) = 0)

(* Every format but the last is read back as the date it was printed from;  *)
(* the parser stops at the T of a Tuesday or a Thursday, so the format that *)
(* names the day of the week is left out on these.                          *)
ReadsBack(d) ==
  \A f \in 1..8 :
    LET t == Noon(d)
        text == T!GetFormStr(t, T!k_aStrFormats[f])
        zone == IF f \in {3, 5, 6, 8} THEN 0 ELSE Local
    IN \/ f = 5 /\ T!GetDOW(d[1], d[2], d[3]) \in {2, 4}
       \/ T!SetTimeStr(text, Local) = [ok |-> TRUE, t |-> [t EXCEPT !.TZ = zone]]

(* A span of up to a month is printed as units that add up to it again.     *)
Spans == {1, 59, 60, 3599, 3600, 86399, 86400, 90061, 30 * 86400 + 7}
TrySpan == \E n \in Spans : Try("span", n)
UnitSeconds == [Day |-> 86400, Hour |-> 3600, Minute |-> 60, Second |-> 1]
SpanAddsUp(n) ==
  \A high \in {"Year", "Month", "Day", "Hour", "Minute"} :
    LET units == T!GetTimeSpanStr(n, high, 6)
    IN n = MapThenSumSet(LAMBDA i : units[i].n * UnitSeconds[units[i].unit], DOMAIN units)

(* Ticks of 5 bits, all of them, so that every wrap is met: a time ahead is *)
(* as far ahead as it will be behind, a timer fires once or goes on, and a  *)
(* file is the same as long as a FAT would keep its time the same.          *)
Ticks == 0..31
TryTick == \E t \in Ticks, freq \in {0, 1, 5} : Try("tick", T!NewTimer(t, freq))
TicksAgree(timer) ==
  \A now \in Ticks :
    LET t == timer.time
        til == T!get_TimeTilSys(t, now, 5)
        check == T!OnTickCheck(timer, now, 5)
        ms == 70 * t + now
        File(mtime, name) ==
          T!ReadFileStatus([ctime |-> 1, mtime |-> mtime, atime |-> now, size |-> timer.freq, mode |-> "REG"], name)
    IN /\ T!get_AgeSys(t, now, 5) = IF til = -16 THEN til ELSE -til
       /\ t \notin {0, 31} => T!InitTimeNowPlusSys(now, til, 5) = t
       /\ t \notin {0, 31} /\ t - now \in -15..15 => (til > 0 <=> T!isTimeFuture(t, now))
       /\ check.fires <=> t \notin {0, 31} /\ (t - now) % 32 < 16
       /\ IF ~check.fires THEN check.timer = timer
          ELSE IF timer.freq = 0 THEN check.timer = T!ClearTimer(5)
          ELSE (check.timer.time - now) % 32 \in 1..(2 * timer.freq)
       /\ T!get_mSec(T!put_mSec(ms)) = ms
       /\ ms <= 2000 => T!get_nSec(T!put_mSec(ms)) = ms * 1000000
       /\ T!IsFileEqualTo(File(t, <<97>>), File(now, <<46>>)) <=> t \div 2 = now \div 2

(* Days, seconds, file times, OLE dates and FAT dates are converted into    *)
(* each other without loss, by closed formulas (leap years counted from 2000,*)
(* months by table) that must agree with a walk through the calendar.  What *)
(* GetFormStr prints in any of its formats, ParseString reads back as the    *)
(* same time in the same zone, though it has to guess which number is the    *)
(* year, the month and the day.                                              *)
TimesAgree == /\ On("date", DateAgrees) /\ On("date", ReadsBack)
              /\ On("span", SpanAddsUp)
              /\ On("tick", TicksAgree)
-----------------------------------------------------------------------------
(* Texts: a search against the first place where the words are equal, a     *)
(* pattern against the texts it stands for.                                  *)
aA == 97
bB == 98
SubTexts == BoundedSeq({aA, bB}, 3) \ {<<>>}
Patterns == BoundedSeq({aA, bB, X!Star, X!Question}, 3) \ {<<>>}
TryWord == \E text \in BoundedSeq({aA, bB}, 4) : Try("word", text)

Has(text, sub, i) == i \in 0..(Len(text) - Len(sub)) /\ SubSeq(text, i + 1, i + Len(sub)) = sub
FirstAt(text, sub) ==
  LET at == {i \in 0..(Len(text) - Len(sub)) : Has(text, sub, i)}
  IN IF at = {} THEN -1 ELSE Min(at)
(* A star at the end stands for at least one character, any other for none  *)
(* or more.                                                                 *)
RECURSIVE Fits(_, _)
Fits(text, pattern) ==
  IF pattern = <<>> THEN text = <<>>
  ELSE IF pattern = <<X!Star>> THEN text # <<>>
  ELSE IF pattern[1] = X!Star
  THEN \E i \in 0..Len(text) : Fits(SubSeq(text, i + 1, Len(text)), Tail(pattern))
  ELSE /\ text # <<>>
       /\ pattern[1] \in {X!Question, text[1]}
       /\ Fits(Tail(text), Tail(pattern))

WordIsFound(text) ==
  /\ \A sub \in SubTexts :
       /\ X!FindStrN(text, sub) = FirstAt(text, sub)
       /\ X!FindStrNI(X!MakeUpperCase(text), sub) = FirstAt(text, sub)
       /\ X!StartsWithI(text, sub) <=> Has(text, sub, 0)
       /\ X!EndsWithI(text, sub) <=> Has(text, sub, Len(text) - Len(sub))
       /\ X!Cmp(text, sub) < 0 <=> X!Cmp(sub, text) > 0
       /\ X!Cmp(text, sub) = 0 <=> text = sub
       /\ X!CmpN(text, sub, Len(sub)) = 0 <=> Has(text, sub, 0)
       /\ ~X!HasRegEx(sub)
       /\ LET here == {i \in 0..(Len(text) - 1) : text[i + 1] \in {sub[k] : k \in DOMAIN sub}}
          IN X!FindTokens(text, sub) = IF here = {} THEN -1 ELSE Min(here)
       /\ \A at \in {X!FindWord(text \o <<32>> \o sub, sub)} :    \* a longer word of that start hangs it
            at = IF text = sub THEN 0 ELSE IF Has(text, sub, 0) THEN X!Hangs ELSE Len(text) + 1
       /\ \A i \in 0..(Len(text) - 1) :
            X!ReplaceX(text, Len(text) + 3, i, 1, sub) = SubSeq(text, 1, i) \o sub \o SubSeq(text, i + 2, Len(text))
  /\ \A last \in {X!FindCharRev(<<bB>> \o text, aA)} :
       IF last < 0 THEN FirstAt(text, <<aA>>) = -1
       ELSE text[last] = aA /\ FirstAt(SubSeq(text, last + 1, Len(text)), <<aA>>) = -1
  /\ \A pattern \in Patterns :
       text # <<>> => (X!MatchRegEx(text, pattern, -1) # 0 <=> Fits(text, pattern))

(* Names in a table that is sorted: halving it finds what a search from its *)
(* start finds.                                                             *)
Names == BoundedSeq({aA, bB}, 2) \ {<<>>}
TryTable == \E names \in SUBSET Names : Try("table", names)
Sorted(names) == SetToSortSeq(names, LAMBDA a, b : X!Cmp(a, b) < 0)
TableIsSearched(names) ==
  LET table == Sorted(names)
  IN /\ X!IsTableSorted(table)
     /\ \A name \in Names : /\ X!TableFindSorted(name, table) = X!TableFind(name, table)
                             /\ name \in names <=> X!TableFind(name, table) >= 0
                             /\ X!TableFindHead(name \o <<32, aA>>, table) = X!TableFind(name, table)
                             /\ X!TableFindHeadSorted(name \o <<32, aA>>, table) = X!TableFind(name, table)

(* Texts with whatever a quote, a separator or a block gives a meaning.     *)
TryQuoted == \E text \in BoundedSeq({aA, 34, 92, 10, 44, 40, 32}, 3) : Try("quoted", text)
QuotedIsRead(text) ==
  \A plain \in {X!EscSeqAdd(text)}, quoted \in {X!EscSeqAddQ(text)} :
    /\ \A after \in {quoted \o <<aA, 34>>} : X!EscSeqDecodeQ(after) = [n |-> Len(quoted), text |-> text]
    /\ X!StripBlock(quoted) = plain
    /\ X!EscSeqTest(text) <=> plain # text
    /\ X!IsPrintable(plain) /\ ~X!EscSeqTest(SelectSeq(text, X!IsAlpha))
    /\ \A block \in {<<40>> \o quoted \o <<41>>} : X!StripBlock(block) = quoted
    /\ \A list \in {quoted \o <<44, 32, aA, 44>> \o quoted}, max \in {2, 9} :
         X!ParseArray(list, max, <<44>>, X!STRP_DEF)
           = <<quoted>> \o IF max = 9 THEN <<<<aA>>, quoted>> ELSE <<<<32, aA, 44>> \o quoted>>
    /\ X!TrimWhitespace(<<32>> \o text) = X!TrimWhitespace(text \o <<32>>)

(* Templates: a name is replaced at any depth, what is unknown stays.       *)
Block(t) == <<60, 63>> \o t \o <<63, 62>>
values == [name \in {<<aA>>, <<bB, bB>>} |-> IF name = <<aA>> THEN <<bB, bB>> ELSE <<>>]
Said(name) == IF name \in DOMAIN values THEN values[name] ELSE Block(name)
TryTemplate == \E parts \in [1..3 -> Names \cup {<<>>}] : Try("template", parts)
TemplateIsFilled(parts) ==
  LET a == parts[1]
      b == parts[2]
      c == parts[3]
      Filled(t) == X!Template(values, t, 0, <<>>, -1, FALSE).out
  IN /\ Filled(a \o Block(b) \o c) = a \o Said(b) \o c
     /\ Filled(Block(a \o Block(b)) \o Block(c)) = Said(a \o Said(b)) \o Said(c)

(* Arguments: switches of either kind, in both cases, values behind a sign, *)
(* and a group that keeps its separator; the app's own name is not split.   *)
ArgWords == {<<aA>>, <<45, aA>>, <<47, 65>>, <<45, 45, bB, 61, aA>>, <<40, aA, 32, 61, 41>>, <<45>>}
TryArgs == \E words \in BoundedSeq(ArgWords, 3) : Try("args", words)
HalvesOf(word) ==
  LET eq == {i \in DOMAIN word : word[i] = 61}
  IN IF eq = {} THEN <<word>> ELSE <<SubSeq(word, 1, Min(eq) - 1), SubSeq(word, Min(eq) + 1, Len(word))>>
Bare(arg) == LET at == {i \in DOMAIN arg : arg[i] \notin {45, 47}}
             IN IF at = {} THEN <<>> ELSE SubSeq(arg, Min(at), Len(arg))
Places(args, word) == {i \in 0..(Len(args) - 1) : Bare(args[i + 1]) = word}
Least(places) == IF places = {} THEN -1 ELSE Min(places)
Commands == {[abbrev |-> a, name |-> n, takes |-> <<>>, help |-> h] :
               a \in {<<>>, <<aA>>}, n \in {<<65, bB>>, <<bB>>}, h \in {<<>>, <<99>>}}
(* Whichever way an app is started it has the same arguments, each in its   *)
(* place, and a command line that is quoted in a message names those left.  *)
ArgsAreRead(words) ==
  LET texts == <<<<99>>>> \o words
  IN \A all \in {<<<<99>>>> \o FlattenSeq([i \in DOMAIN words |-> HalvesOf(words[i])])},
        posix \in {P!InitArgsPosix(texts)} :
       /\ posix.args = all
       /\ \A seps \in {<<>>, <<32>>} :
            P!InitArgsLine(posix.line, seps).args = (IF seps = <<>> THEN <<<<>>>> ELSE <<>>) \o Tail(all)
       /\ \A regex, anyCase \in BOOLEAN :
            (regex => anyCase) => P!FindCommandArg(all, <<aA>>, regex, anyCase)
                = Least(UNION {Places(all, name) : name \in {<<aA>>} \cup IF anyCase THEN {<<65>>} ELSE {}})
       /\ \A i \in DOMAIN all : P!IsArgMod(all[i]) => Bare(all[i]) = all[i]
       /\ P!FindCommandArgs(all, <<<<bB>>, <<65>>, <<>>, <<99>>>>, FALSE)
            = Least(Places(all, <<bB>>) \cup Places(all, <<65>>))
       /\ \A valid \in SUBSET (1..(Len(all) - 1)) :
            P!get_InvalidArgs(all, valid) = FlattenSeq([i \in 1..(Len(all) - 1) |->
              IF i \in valid THEN <<>>
              ELSE (IF \E j \in 1..(i - 1) : j \notin valid THEN <<44>> ELSE <<>>) \o all[i + 1]])

(* A table keeps the first command of a name, and the first that fits runs. *)
TryCommands == \E first, second \in Commands : Try("commands", <<first, second>>)
CommandIsFound(cmds) ==
  \A table \in {P!RegisterCommand(<<cmds[1]>>, cmds[2])}, arg \in ArgWords :
    LET found == P!CommandOf(table, arg)
        fits == {k \in DOMAIN table : P!IsMatch(table[k], Bare(arg))}
    IN /\ found = IF fits = {} THEN 0 ELSE Min(fits)
       /\ Len(table) = 2 <=> cmds[1].name # cmds[2].name
       /\ P!get_HelpText(table) = <<>> <=> \A k \in DOMAIN table : table[k].help = <<>>

(* Events of a nexus (1) with another (2) between its sinks: they go to all *)
(* sinks whose nexuses let them pass, and are answered for by those that    *)
(* handled them; of each there is one line.                                 *)
Filters == [mask : {{"NET"}, {"NET", "NOCRLF"}}, level : {0, 4}]
LogEvents == [mask : {{}, {"NET"}, {"NOCRLF"}}, level : {3, 5}, subject : {<<bB>>},
              msg : {<<>>, <<aA>>, <<aA, 10>>}]
TryLog == \E inner, outer \in Filters, says \in [3..5 -> {-1, 0, 1}], e \in LogEvents :
  Try("log", [e |-> e, p |->
    LET Sink(id) == [id |-> id, type |-> id % 2, says |-> says[id]]
    IN [id |-> 1, type |-> 8, filter |-> outer, sinks |->
        <<Sink(3), [id |-> 2, type |-> 9, filter |-> inner, sinks |-> <<Sink(4)>>], Sink(5)>>]])
LogIsRouted(log) ==
  LET Passes(n) == /\ log.e.level >= n.filter.level
                   /\ log.e.mask = {} \/ \E a \in log.e.mask : a \in n.filter.mask
      sub == log.p.sinks[2]
      reached == IF ~Passes(log.p) \/ log.e.msg = <<>> THEN <<>> ELSE IF Passes(sub) THEN <<3, 4, 5>> ELSE <<3, 5>>
      Says(id) == IF id = 4 THEN sub.sinks[1].says ELSE log.p.sinks[id - 2].says
  IN /\ \A added \in {G!AddEvent(TRUE, log.p, log.e)} :
          /\ added.got = reached
          /\ added.res > 0 <=> \E k \in DOMAIN reached : Says(reached[k]) > 0
          /\ G!AddEventS(TRUE, log.p, log.e) = added
          /\ G!AddEventOfSubject(log.p, <<aA>>, log.e) = added
     /\ G!AddEventS(FALSE, log.p, log.e).got = <<>>
     /\ \A type \in {0, 1, 8, 9}, descend \in BOOLEAN :
          \A found \in {G!FindSinkType(log.p.sinks, type, descend)},
             left \in {G!RemoveSinkType(log.p.sinks, type, descend)} :
            /\ found = CASE type = 0 -> IF descend THEN 4 ELSE 0 [] type = 1 -> 3
                         [] type = 9 -> 2 [] OTHER -> 0
            /\ found # 0 => G!FindSinkType(left, type, descend) = IF type = 1 THEN 5 ELSE 0
     /\ log.e.msg # <<>> => \A text \in {G!GetFormattedDefault(log.e)} :
          /\ Cardinality({i \in DOMAIN text : text[i] = 10}) <= 1
          /\ (text[Len(text)] = 10) = (log.e.msg[Len(log.e.msg)] = 10 \/ "NOCRLF" \notin log.e.mask)

(* StrT finds what a search from the start finds, matches a pattern with     *)
(* the texts it stands for, and takes quotes, escapes, separators and blocks *)
(* apart again after it has put them together.  An app reads the same        *)
(* arguments out of main()'s array and out of the line they make (cAppArgs). *)
(* A logged text reaches all sinks that want it (cLogMgr.cpp).               *)
TextAgrees == /\ On("word", WordIsFound)
              /\ On("table", TableIsSearched)
              /\ On("quoted", QuotedIsRead)
              /\ On("template", TemplateIsFilled)
              /\ On("args", ArgsAreRead) /\ On("commands", CommandIsFound)
              /\ On("log", LogIsRouted)
-----------------------------------------------------------------------------
(* Bytes, whose bits, their order and their number must not be lost, and    *)
(* pairs of bytes for the 64 bit arithmetic: two halves of 4 bits.          *)
Bytes == 0..255
TryByte == \E n \in Bytes : Try("byte", n)
CharIsKept(ch) ==
  /\ ch < 16 => X!Hex2U(X!U2Hex(ch)) = ch
  /\ X!IsUpper(ch) => X!ToUpperW(X!ToLowerW(ch)) = ch
  /\ X!IsLower(ch) /\ ch # 255 => X!ToLowerW(X!ToUpperW(ch)) = ch
  /\ X!IsVowel(ch) => X!IsAlpha(ch) /\ X!IsVowel(X!ToUpperW(ch))
  /\ (\A val \in {F!ULtoA(ch, 9, 10)} : \A i \in DOMAIN val : F!IsDigitF(val[i]))
BitsAreKept(n) ==
  LET ones == W!Ones(n, 8)
  IN /\ W!ReverseBits(W!ReverseBits(n, 8), 8) = n
     /\ W!Ones(W!ReverseBits(n, 8), 8) = {7 - b : b \in ones}
     /\ W!ReverseSwap(n, 8) = W!ReverseBits(n, 8)
     /\ W!Count1Bits(n) = Cardinality(ones)
     /\ n # 0 => W!Mask1(W!Highest1Bit(n, 8)) > n /\ n % W!Mask1(W!Lowest1Bit(n, 8) - 1) = 0
     /\ n # 0 => W!Lowest1BitBuiltin(n, 8) = W!Lowest1Bit(n, 8) - 1
     /\ \A mask \in {0, 15, 85, 170} : /\ W!SetMask(n, mask) = n + mask - W!WordOf(ones \cap W!Ones(mask, 8))
                                       /\ W!SetMask(W!ClearMask(n, mask), mask) = W!SetMask(n, mask)
     /\ W!IsMask1(n) <=> Cardinality(ones) = 1
     /\ \A b \in 0..7 :
          /\ W!Rotr(W!Rotl(n, b, 8), b, 8) = n
          /\ W!Ones(W!Rotl(n, b, 8), 8) = {(i + b) % 8 : i \in ones}
          /\ W!Ones(W!SetBit(n, b), 8) = ones \cup {b}
          /\ W!Ones(W!ClearBit(n, b), 8) = ones \ {b}
     /\ W!ReverseBytes(n * 256 + 7, 16) = 7 * 256 + n
     /\ W!SetHtoN(n * 256 + 7, 2) = <<n, 7>> /\ W!GetNtoH(<<n, 7>>) = n * 256 + 7
     /\ W!GetNtoH3(W!SetHtoN3(n * 65536 + 258)) = n * 65536 + 258

PairOf(n) == W!Pair(n, 4)
PairsCount(n) ==
  LET x == PairOf(n)
      Is(pair, val) == W!ValOf(pair, 4) = val % 256
  IN /\ Is(W!Increment(x, 4), n + 1) /\ Is(W!Decrement(x, 4), n - 1)
     /\ W!PairHighest1Bit(x, 4) = W!Highest1Bit(n, 8)
     /\ W!IsZero(x) <=> n = 0
     /\ W!IsOdd(x) <=> n % 2 = 1
     /\ \A m \in {0, 15, 85, 170} : \A y \in {PairOf(m)} :
          /\ Is(W!BitOr(x, y), W!SetMask(n, m)) /\ Is(W!BitAnd(x, y), n + m - W!SetMask(n, m))
          /\ W!BitXor(W!BitXor(x, y), y) = x
     /\ \A b \in 0..7 : /\ Is(W!ShiftLeft(x, b, 4), n * 2^b)
                        /\ Is(W!ShiftRight(x, b, 4), n \div 2^b)
                        /\ Is(W!PairSetBit(x, b, 4), W!SetBit(n, b))
                        /\ W!PairIsSet(x, b, 4) <=> W!IsSet(n, b)
     /\ \A m \in Bytes :
          LET y == PairOf(m)
          IN /\ Is(W!Add(x, y, 4), n + m)
             /\ W!Less(x, y) <=> n < m
             /\ W!LessEqual(x, y) <=> n <= m
             /\ W!Greater(x, y) <=> n > m

(* Division, the greatest common divisor and the primes below 16, whose     *)
(* squares still fit.                                                       *)
DividesWell(n) ==
  \A m \in Bytes \ {0} :
    LET d == W!Divide(n, m, 8)
        e == W!EuclideanAlgorithm(n, m, 8)
    IN /\ d.quotient = n \div m /\ d.remainder = n % m
       /\ n \in 1..40 /\ m <= 40 =>
            /\ n % e.g = 0 /\ m % e.g = 0 /\ e.a * n - e.b * m = e.g
            /\ e.a \in 1..m /\ e.b \in 0..(n - 1)
IsPrime(n) == n > 1 /\ \A k \in 2..(n - 1) : n % k # 0
PrimesPass(n) ==
  n \in 1..15 => /\ IsPrime(n) => W!MustBePrime(n, 8) /\ W!MayBePrime(n, 8)
                 /\ \A x \in 0..14 : W!SetPowerMod(x, 3, n, 8) % n = (x * x * x) % n

(* Characters of one to four bytes, and texts of them.                      *)
Chars == {1, 65, 127, 128, 233, 2047, 2048, 8364, 65535, 65536, 128512}
TryUtf == \E text \in BoundedSeq(Chars, 2) : Try("utf", text)
Utf8IsRead(text) ==
  \A bytes \in {W!StrArgBytes(text)} :
     /\ W!StrArgWide(bytes) = text
     /\ Len(bytes) = W!UNICODEtoUTF8Size(text)
     /\ W!UTF8toUNICODELen(bytes) = Len(text)
     /\ \A n \in 1..Len(bytes) : IsPrefix(W!UTF8toUNICODE(SubSeq(bytes, 1, n), 9), text)
     /\ \A i \in DOMAIN bytes : bytes[i] \in Bytes
     /\ W!IsUTFLead(W!StrArgBytes(<<65279>> \o text))
     /\ text # <<>> => (W!IsUTFLead(bytes) <=> text[1] = 65535)
     /\ \A shown \in {F!AddBytesFiltered(F!OnHeap, bytes).text} : Len(shown) = Len(bytes) /\ X!IsPrintable(shown)

-----------------------------------------------------------------------------
(* Numbers in a radix, in a list, in a format and in what room there is.    *)
Numbers == {-70000, -255, -10, -1, 0, 1, 7, 8, 9, 10, 15, 16, 99, 100, 255, 256,
            4095, 65535, 1000000}
TryNumber == \E n \in Numbers : Try("number", n)
Hexed == <<37, 35, 120>>                 \* %#x
NumberIsRead(n) ==
  LET three == <<n, 5, n>>
  IN \A text \in {F!ILtoA(n, 65, 10)}, shown \in {[spec \in {<<37, 100>>, Hexed} |-> F!V(F!OnHeap, spec, <<n>>)]} :
       /\ F!toIL(text, 10) = [val |-> n, end |-> Len(text)]
       /\ F!GetNumberString(text, 10) = text
       /\ F!AddInt(F!OnHeap, n).text = text
       /\ shown[<<37, 100>>] = text
       /\ F!AddCrLf(F!AddSpanQ(F!OnHeap, text, 40, 41)).text = <<40>> \o text \o <<41, 13, 10>>
       /\ n >= 0 =>
            /\ F!StrArgInt(n) = text
            /\ \A radix \in {2, 8, 10} : F!AddUInt(F!OnHeap, n, radix).text = F!ULtoA(n, 65, radix)
            /\ \A read \in {<<F!ULtoA(n, 65, radix), radix>> : radix \in {2, 8, 10, 16, 36}}
                             \cup {<<F!StrArgUInt(n, 16), 0>>, <<shown[Hexed], 0>>} :
                 F!toUL(read[1], read[2]).val = n
       /\ \A csv \in (IF n >= 0 THEN {F!AddCSV(F!OnHeap, three).text} ELSE {})
                      \cup (IF n \in Bytes THEN {F!ConvertToCSV(three, 99, <<>>)} ELSE {}) :
            /\ F!ToValArray(csv, 9) = three
            /\ n \in Bytes =>
                 /\ F!ReadFromCSV(csv, 9) = three /\ F!ReadFromCSV(csv, 2) = <<n, 5>>
                 /\ \A size \in 1..12 : IsPrefix(F!ConvertToCSV(three, size, <<>>), csv)

(* Blocks of bytes and their digests, which are in the same order.          *)
TryBlock == \E a, b \in BoundedSeq({0, 9, 171, 255}, 2) : Try("block", <<a, b>>)
Sign(n) == IF n > 0 THEN 1 ELSE IF n < 0 THEN -1 ELSE 0
BlocksAgree(in) ==
  \A a \in {in[1]}, b \in {in[2]}, digits \in {[k \in 1..2 |-> F!GetHexDigest(in[k])]} :
     /\ Sign(F!Compare(a, b)) = Sign(F!Compare(digits[1], digits[2]))
     /\ F!Compare(a, b) = 0 <=> a = b
     /\ Len(a) = Len(b) =>
          \A i \in {F!CompareIndex(a, b)} :
             /\ SubSeq(a, 1, i) = SubSeq(b, 1, i) /\ (i = Len(a) <=> a = b)
             /\ F!CompareIndex(digits[1], digits[2]) \in {2 * i, 2 * i + 1}
     /\ F!ReverseSpan(F!ReverseSpan(a \o b, 1), 1) = a \o b
     /\ Len(a) = Len(b) /\ a # <<>> => F!ReverseSpan(a \o b, Len(a)) = b \o a
     /\ Len(a) = 2 => F!ReverseSpan(a, 1) = W!SetHtoN(W!GetLE(a), 2)
     /\ \A read \in {F!ReadHexDigest(digits[1], Len(b), TRUE)} :
          /\ read.res \in {"OK", "FALSE"} <=> Len(a) = Len(b)
          /\ IsPrefix(read.bytes, a)
          /\ Len(a) = Len(b) => read.bytes = a /\ (read.res = "OK" <=> \E k \in DOMAIN a : a[k] # 0)
          /\ Len(a) < Len(b) => read.res = "BYTE_COUNT_TOO_SMALL"
     /\ F!ReadHexDigest(digits[1] \o digits[2], Len(a), FALSE).bytes = a
     /\ F!ReadHexDigest(Append(digits[1], 71), Len(a) + 1, TRUE).res = "INVALID_HEXIDECIMAL"

(* Formats: a text and a number in a field, as printf prints them where the *)
(* two agree: no precision for a number, and no zeros in a field that has a *)
(* sign or is too narrow.                                                   *)
Params == [left : BOOLEAN, zero : BOOLEAN, star : BOOLEAN, width : {0, 3, 12}, dot : {-1, 0, 2}]
TryFormat == \E p \in Params, n \in {-12, 0, 7, 4095} : Try("format", [p |-> p, n |-> n])
Flag(is, ch) == IF is THEN <<ch>> ELSE <<>>
FormatOf(p, spec) ==
  <<37>> \o Flag(p.left, 45) \o Flag(p.zero, 48)
    \o (IF p.star THEN <<X!Star>> ELSE IF p.width = 0 THEN <<>> ELSE F!ULtoA(p.width, 9, 10))
    \o (IF p.dot < 0 THEN <<>> ELSE <<46>> \o F!ULtoA(p.dot, 9, 10)) \o <<spec>>
Field(text, width, left, fill) ==
  LET pad == [i \in 1..(width - Len(text)) |-> fill] IN IF left THEN text \o pad ELSE pad \o text
FormatIsPrinted(in) ==
  LET p == in.p
      args(x) == IF p.star THEN <<p.width, x>> ELSE <<x>>
      digits == F!ILtoA(in.n, 65, 10)
      word == <<aA, bB, 99>>
      shown == SubSeq(word, 1, IF p.dot \in 0..3 THEN p.dot ELSE 3)
      mixed == <<aA, 37, 37>> \o FormatOf(p, 115) \o <<bB, 37>>
      Whole == F!V(F!OnHeap, mixed, args(word))
      wide == in.n >= 0 /\ p.width > Len(digits) /\ ~p.left
  IN /\ F!V(F!OnHeap, FormatOf(p, 115), args(word)) = Field(shown, p.width, p.left, 32)
     /\ Whole = <<aA, 37>> \o Field(shown, p.width, p.left, 32) \o <<bB, 37>>
     /\ (p.dot < 0 /\ ~(p.zero /\ ~wide)) =>
          F!V(F!OnHeap, FormatOf(p, 100), args(in.n))
            = Field(digits, p.width, p.left, IF p.zero THEN 48 ELSE 32)
     /\ \A size \in 1..16 : F!V(F!Within(size), mixed, args(word)) = SubSeq(Whole, 1, Min({size - 1, Len(Whole)}))

(* A builder on the heap grows in chunks and loses nothing below its limit. *)
Sizes == {0, 1, 300, 1022, 1023, 1024, 1025, 5000}
TryBuild == \E sizes \in [1..2 -> Sizes] : Try("build", sizes)
NothingIsCut(sizes) ==
  LET Text(n) == [i \in 1..n |-> aA]
      built == F!AddSpan(F!AddSpan(F!OnHeap, Text(sizes[1])), Text(sizes[2]))
  IN /\ Len(built.text) = sizes[1] + sizes[2]
     /\ F!WriteSpaceQty(built) >= 0 /\ built.alloc <= F!k_LEN_MAX + 1
     /\ F!Join(F!OnHeap, <<Text(sizes[1]), Text(sizes[2]), Text(1)>>).text
          = Text(IF sizes[1] = 0 THEN 0 ELSE sizes[1] + sizes[2] + (IF sizes[2] = 0 THEN 0 ELSE 1))

(* Ranges of numbers below and above 0: what is done to their ends is what  *)
(* is done to the numbers in them.                                          *)
Ends == {-3, -1, 0, 2}
TryRange == \E lo, hi \in Ends : Try("range", T!Between(lo, hi))
RangeHolds(given) ==
  \A r \in {T!NormalizeRange(given)} :
    LET In(x) == {val \in -9..9 : T!IsInsideI(x, val)}
    IN /\ Cardinality(In(r)) = T!get_RangeI(r) /\ In(r) = (r.lo)..(r.hi)
       /\ T!get_Avg(r) \in In(r) /\ {val \in In(r) : T!IsInsideX(r, val)} = In(r) \ {r.hi}
       /\ \A val \in -9..9 :
            /\ T!GetClampValue(r, val) \in In(r) /\ (val \in In(r) => T!GetClampValue(r, val) = val)
            /\ T!GetSpinValueI(r, val) \in In(r) /\ (T!GetSpinValueI(r, val) - val) % T!get_RangeI(r) = 0
            /\ In(T!UnionValue(r, val)) = Min({val, r.lo})..Max({val, r.hi})
       /\ \A lo, hi \in Ends : lo <= hi =>
            LET x == T!Between(lo, hi)
            IN /\ T!IsRangeOverlapI(r, x) <=> In(r) \cap In(x) # {}
               /\ In(T!SetUnionRange(r, x)) = Min({lo, r.lo})..Max({hi, r.hi})

(* Noise: no two seeds give the same word (20077 * -5275 is 1 in 16 bits), *)
(* and it does not matter in which portions it is taken.                    *)
TryNoise == \E seed \in {0, 1, 255, 256, 18506, 32768, 65535} : Try("noise", seed)
NoiseIsSpread(seed) ==
  \A bytes \in {W!GetNoise(seed, 6)} :
    /\ (-5275 * ((W!ReverseBytes(W!get_RandUns(seed), 16) - 12345) % 65536)) % 65536 = seed
    /\ W!InitSeed(W!SetLE(seed, 2)) = seed
    /\ \A n \in 0..5 : W!GetNoise(seed, n) = SubSeq(bytes, 1, n)
    /\ \A start, n \in 0..6 :
         LET first == W!CopyRepeat(bytes, start, n)
             second == W!CopyRepeat(bytes, first.next, 5)
         IN first.out \o second.out = W!CopyRepeat(bytes, start, n + 5).out
    /\ \A lo \in {0, 5, 65530} : \A hi \in {lo, lo + 1, lo + 5} :
         W!GetRandRange(W!GetLE(SubSeq(bytes, 1, 2)), lo, hi, 16) \in lo..hi

(* Words keep their bits and count as numbers do: whichever of two ways there*)
(* is to compute something, both agree, and what is turned round, packed or  *)
(* encoded comes back.  What is printed is read back as the same number, and *)
(* a text that is built in a buffer of any size is the head of the one built *)
(* without limit.                                                            *)
NumbersAgree == /\ On("byte", BitsAreKept) /\ On("byte", PairsCount) /\ On("byte", CharIsKept)
                /\ On("byte", DividesWell) /\ On("byte", PrimesPass)
                /\ On("utf", Utf8IsRead)
                /\ On("number", NumberIsRead) /\ On("block", BlocksAgree)
                /\ On("format", FormatIsPrinted)
                /\ On("build", NothingIsCut)
                /\ On("range", RangeHolds) /\ On("noise", NoiseIsSpread)
-----------------------------------------------------------------------------
(* Paths: raw ones of whatever a path gives a meaning, and trees of names,  *)
(* dots and double dots, from the root or not.                              *)
TryPath == \E path \in BoundedSeq({aA, 49, 46, 47, 92, 58}, 4) : Try("path", path)
Swapped(path) == [i \in DOMAIN path |-> IF path[i] = 47 THEN 92 ELSE IF path[i] = 92 THEN 47 ELSE path[i]]
PathIsTaken(path) ==
  LET title == P!GetFileNameI(path)
      ext == P!GetFileNameExt(path, FALSE)
      sym == P!MakeSymName(path, 95, {"Dirs"})
  IN /\ title # 1 => P!GetFileDir(path, TRUE) \o P!GetFileName(path) = path
     /\ ext >= 0 => P!ReplaceFileExt(path, SubSeq(path, ext + 1, Len(path))) = path
     /\ ext >= 0 => P!StripFileExt(P!ReplaceFileExt(path, <<46, aA>>), FALSE) = P!StripFileExt(path, FALSE)
     /\ P!ComparePath(path, Swapped(path), P!k_MaxLen) = 0
     /\ P!IsRelativePath(path, P!GetFileName(path))
     /\ \A i \in DOMAIN sym : X!IsCSym(sym[i])
     /\ sym # <<>> => ~X!IsDigitA(sym[1])
     /\ P!MakeSymName(sym, 95, {"Dirs"}) = sym
     /\ P!IsFilePathTitle(P!GetFileName(path)) /\ (P!IsFilePathTitle(path) <=> P!GetFileName(path) = path)
     /\ \A sys \in P!Systems :
          P!IsFileNameValid(path, P!FILECHR_All \ {"Device", "Dirs"}, sys) =>
            P!IsFilePathTitle(path) \/ (sys = "NFS" /\ 92 \in {path[i] : i \in DOMAIN path})
     /\ P!IsFilePathRoot(path) => P!IsFilePathRooted(path) /\ P!GetFileName(path) = <<>>
     /\ P!HasFilePathRelatives(path, FALSE) => P!HasFilePathRelatives(path, TRUE)
     /\ P!IsFilePathTitle(path) => (P!HasFilePathRelatives(path, FALSE) <=> X!FindStrN(path, <<46, 46>>) >= 0)
     /\ ~P!HasTitleWildcards(path) /\ P!HasTitleWildcards(P!GetNameExtStar(path))
     /\ P!IsFileDeviceRemote(<<aA>> \o path) => P!IsFilePathRooted(SubSeq(<<aA>> \o path, 1, P!GetFilePathDeviceLen(<<aA>> \o path)))
     /\ \A e \in {P!GetFileNameExt(path, TRUE)} :
          e >= 0 => /\ P!GetFileNameNE(path, TRUE) \o SubSeq(path, e + 1, Len(path)) = P!GetFileName(path)
                    /\ P!IsFileNameExt(path, SubSeq(path, e + 1, Len(path)))
     /\ path # <<>> => P!IsFilePathRooted(P!MakeFullPath(<<47, aA>>, path, 47))

Steps == {<<aA>>, <<bB>>, <<46>>, <<46, 46>>}
TryTree == \E rooted \in BOOLEAN, steps \in BoundedSeq(Steps, 4) :
             Try("tree", [rooted |-> rooted, steps |-> steps])
RECURSIVE Resolved(_, _)
Resolved(steps, done) ==         \* none when it leaves the tree
  IF steps = <<>> THEN <<done>>
  ELSE IF steps[1] = <<46>> THEN Resolved(Tail(steps), done)
  ELSE IF steps[1] # <<46, 46>> THEN Resolved(Tail(steps), Append(done, steps[1]))
  ELSE IF done = <<>> THEN <<>> ELSE Resolved(Tail(steps), Front(done))
PathOf(rooted, steps, sep) ==
  (IF rooted THEN <<sep>> ELSE <<>>) \o FlattenSeq([i \in DOMAIN steps |->
     steps[i] \o (IF i < Len(steps) THEN <<sep>> ELSE <<>>)])
TreeIsWalked(in) ==
  LET steps == Append(in.steps, <<bB>>)
      raw == PathOf(in.rooted, steps, 92)
      done == Resolved(steps, <<>>)
      clean == PathOf(in.rooted, done[1], 47)
      names == \A i \in DOMAIN steps : Len(steps[i]) = 1 /\ steps[i] # <<46>>
  IN /\ done # <<>> => /\ P!MakeProperPath(raw, raw, 47) = clean
                      /\ P!MakeProperPath(raw, <<>>, 47) = clean
                      /\ P!MakeProperPath(clean, <<>>, 47) = clean
     /\ names => \A n \in 1..(Len(steps) - 1) :
          LET dir == PathOf(in.rooted, SubSeq(steps, 1, n), 47)
              rest == PathOf(FALSE, SubSeq(steps, n + 1, Len(steps)), 47)
              up == P!GetFilePathUpDir2(clean, -1, Len(steps) - n)
          IN /\ P!CombineFilePath(dir, rest, 47) = clean
             /\ P!CombineFilePath(Append(dir, 47), rest, 47) = clean
             /\ P!CombineFilePathF(47, dir, <<<<46, 47>> \o rest>>) = clean
             /\ P!MakeRelativePath(clean, dir, <<47, 99>>) = rest
             /\ P!MakeRelativePath(clean, Append(dir, 99), <<47, 99>>) = clean
             /\ SubSeq(clean, up + 1, Len(clean)) = rest
             /\ P!GetFilePathUpDir2(clean, -1, (IF in.rooted THEN -1 ELSE 0) - n) = up
             /\ P!GetFilePathUpDir1(clean, -1, Len(steps) - n) = dir
             /\ n = Len(steps) - 1 =>
                  P!MakeFilePathUpDir(clean) = <<PathOf(in.rooted, Append(SubSeq(steps, 1, n - 1), <<bB>>), 47)>>

(* The directories of an app: the first variable that is set says where.    *)
Homes == {<<>>, <<aA>>, <<47, aA, 47>>}
TryHome == \E homes \in [{"TMP", "TEMP", "USERPROFILE"} -> Homes] : Try("home", homes)
HomeIsFound(env) ==
  LET dir == P!get_TempDir(env)
      set == {name \in DOMAIN env : env[name] # <<>>}
      first == IF "TMP" \in set THEN "TMP" ELSE IF "TEMP" \in set THEN "TEMP" ELSE "USERPROFILE"
  IN /\ dir = IF set = {} THEN <<47, 116, 109, 112, 47>> ELSE P!RemoveFileDirSep(env[first]) \o <<47>>
     /\ P!GetFileDir(P!GetTempFile(env, <<bB, 46, aA>>), TRUE) = dir
     /\ \A sub \in {<<>>, <<bB>>} : P!GetFileName(P!GetCurrentUserDir(<<aA>>, sub)) = IF sub = <<>> THEN <<aA>> ELSE sub

(* cFilePath puts together again what it has taken apart, and resolves dots  *)
(* as a walk through the directories does, in place or into a buffer.        *)
PathsAgree == On("path", PathIsTaken) /\ On("tree", TreeIsWalked) /\ On("home", HomeIsFound)
-----------------------------------------------------------------------------
Next == \/ TryDate \/ TrySpan \/ TryTick
        \/ TryWord \/ TryTable \/ TryQuoted \/ TryTemplate \/ TryArgs \/ TryCommands \/ TryLog
        \/ TryByte \/ TryUtf \/ TryNumber \/ TryBlock \/ TryFormat \/ TryBuild \/ TryRange \/ TryNoise
        \/ TryPath \/ TryTree \/ TryHome
Spec == Init /\ [][Next]_item
=============================================================================
