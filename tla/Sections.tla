------------------------------- MODULE Sections -------------------------------
(***************************************************************************)
(* Settings: the lines of a section in one buffer (cIniSectionData), the    *)
(* parsing of a line (cIniReader), sections of a file (cIniFile), values by *)
(* name (cIniMap), and the properties of an object that are yet to be       *)
(* written (cIniObject).  A section is a record:                            *)
(*   buf   the bytes of _Buffer                                             *)
(*   used  _nBufferUsed                                                     *)
(*   at    where each line starts in buf, for _apLines and _nLinesUsed      *)
(* What a new part of the buffer holds is Junk.                             *)
(***************************************************************************)
EXTENDS TextBlocks

CONSTANTS LineMax, SectionMax      \* k_LINE_LEN_MAX, k_SECTION_SIZE_MAX

Equal == 61
Colon == 58
Space == 32
None == -1
NLCR == <<CR, NL>>                 \* INI_CR

-----------------------------------------------------------------------------
(* One line.                                                                *)
IsSectionHeader(line) == Ch(line, 0) = 91
IsLineComment(line) ==
  LET text == From(line, GetNonWhitespaceN(line))
  IN \/ Ch(text, 0) \in {0, 35, 59}
     \/ Ch(text, 0) \in {47, Colon} /\ Ch(text, 1) = Ch(text, 0)

(* Where the value starts: behind the first = or :, at the first (, or, if  *)
(* a space may separate, at what follows the first spaces.                  *)
FindLineArg(line, allowSpace) ==
  LET Spaced(i) == allowSpace /\ Ch(line, i) # Space /\ \E j \in 0..(i - 1) : Ch(line, j) = Space
      i == Min({k \in 0..Len(line) : Ch(line, k) \in {0, Equal, Colon, 40} \/ Spaced(k)})
  IN IF IsLineComment(line) \/ Ch(line, i) = 0 THEN None
     ELSE IF Ch(line, i) \in {Equal, Colon} THEN i + 1 ELSE i

(* A comment starts at // outside quotes, unless a letter or digit follows. *)
RECURSIVE CommentFrom(_, _, _)
CommentFrom(line, i, quoted) ==
  LET ch == Ch(line, i)
      next == Ch(line, i + 1)
  IN IF i >= Len(line) THEN Len(line)
     ELSE IF ch = Quote THEN CommentFrom(line, i + 1, ~quoted)
     ELSE IF quoted /\ ch = Backslash /\ next > Space THEN CommentFrom(line, i + 2, quoted)
     ELSE IF ~quoted /\ ch = 47 /\ next = 47 /\ ~IsAlNum(Ch(line, i + 2)) THEN i
     ELSE CommentFrom(line, i + 1, quoted)
FindScriptLineEnd(line) ==
  IF Ch(line, 0) \in {0, 35, 59} THEN 0 ELSE GetWhitespaceEnd(Slice(line, 0, CommentFrom(line, 0, FALSE)))

(* The key keeps the sign that ends it; without a value it is the line.     *)
GetLineParse2(line) ==
  LET arg == FindLineArg(line, TRUE)
  IN IF arg = None THEN [key |-> IF IsLineComment(line) THEN <<>> ELSE line, arg |-> <<>>]
     ELSE [key |-> TrimWhitespaceEnd(Slice(line, 0, arg)), arg |-> From(line, arg)]
GetLineParse3(line) ==
  LET pair == GetLineParse2(line)
  IN [pair EXCEPT !.arg = Slice(@, 0, FindScriptLineEnd(@))]
IsLineTrigger(line) == Ch(line, 0) = 64 /\ ~IsSpaceX(Ch(line, 1))
MakeLine(key, arg) == key \o <<Equal>> \o arg

-----------------------------------------------------------------------------
(* The buffer.                                                              *)
Junk == 255
NewSection == [buf |-> <<>>, used |-> 0, at |-> <<>>]
CString(buf, p) == Slice(buf, p, First({i \in p..(Len(buf) - 1) : Ch(buf, i) = 0}, Len(buf)))
GetLineEnum(s, i) == CString(s.buf, s.at[i + 1])
LinesOf(s) == [i \in DOMAIN s.at |-> CString(s.buf, s.at[i])]
Put(buf, p, bytes) ==
  [i \in DOMAIN buf |-> IF i - p \in DOMAIN bytes THEN bytes[i - p] ELSE buf[i]]

(* A buffer beyond the limit is refused; it moves with what it holds.       *)
AllocBuffer(s, size) ==
  IF size > SectionMax THEN s
  ELSE [s EXCEPT !.buf = [i \in 1..size |-> IF i <= Len(@) THEN @[i] ELSE Junk]]
AllocBeginMin(s, size) == IF size > Len(s.buf) THEN AllocBuffer(s, size) ELSE s
AllocComplete(s) == AllocBuffer(s, s.used + 1)
ClearLineQty(s) == [s EXCEPT !.used = 0, !.at = <<>>, !.buf = Put(@, 0, <<0>>)]

(* AddLine copies the line behind the others and then cuts its end off.     *)
AddLine(s, line) ==
  LET t == IF s.used + LineMax > Len(s.buf) THEN AllocBuffer(s, s.used + 2 * LineMax) ELSE s
      text == Slice(line, 0, Min({Len(line), Len(t.buf) - t.used - 1}))
      n == GetWhitespaceEnd(text)
  IN [buf |-> Put(Put(t.buf, t.used, Append(text, 0)), t.used + n, <<0>>),
      used |-> t.used + n + 1, at |-> Append(t.at, t.used)]

(* A line is replaced in place: what follows it in the buffer moves, and    *)
(* with it the places of the lines behind.  Without text the line is gone,  *)
(* but for the 0 that ended it.                                             *)
MoveLineOffsetsPast(at, start, diff) == [i \in DOMAIN at |-> IF i > start THEN at[i] + diff ELSE at[i]]
MoveLineOffsets(at, start, diff) == [i \in DOMAIN at |-> IF i >= start THEN at[i] + diff ELSE at[i]]
ReplaceLine(s, i, line) ==
  LET dst == s.at[i + 1]
      old == Len(GetLineEnum(s, i))
      used == s.used + Len(line) - old
      t == IF used + 1 >= Len(s.buf) THEN AllocBuffer(s, used + LineMax) ELSE s
      tail == Slice(t.buf, dst + old, Min({s.used + 1, Len(t.buf)}))
      at == MoveLineOffsets(s.at, i + 2, Len(line) - old)
  IN [buf |-> Put(Put(t.buf, dst + Len(line), tail), dst, line), used |-> used,
      at |-> IF line = <<>> THEN RemoveAt(at, i + 1) ELSE at]
IsLine(s, i) == i \in 0..(Len(s.at) - 1)
SetLine(s, i, line) == IF IsLine(s, i) THEN ReplaceLine(s, i, line) ELSE AddLine(s, line)
RemoveLine(s, i) == IF IsLine(s, i) THEN ReplaceLine(s, i, <<>>) ELSE s
SetLinesCopy(s) == [s EXCEPT !.buf = IF s.at = <<>> THEN <<>> ELSE @, !.used = IF s.at = <<>> THEN 0 ELSE @]

(* The first line that starts with the key, with nothing of a name behind   *)
(* it unless a prefix will do.                                              *)
IsKeyLine(line, key, prefixOnly) ==
  LET text == From(line, GetNonWhitespaceN(line))
  IN CmpIN(text, key, Len(key)) = 0 /\ (prefixOnly \/ ~IsCSym(Ch(text, Len(key))))
FindKeyLine(s, key, prefixOnly) ==
  First({i \in 0..(Len(s.at) - 1) : IsKeyLine(GetLineEnum(s, i), key, prefixOnly)}, None)
FindTriggerName(s, name) ==
  First({i \in 0..(Len(s.at) - 1) : LET line == GetLineEnum(s, i)
                                    IN IsLineTrigger(line) /\ CmpI(From(line, 1), name) = 0}, None)
FindArgForKey(s, key, default) ==
  LET i == FindKeyLine(s, key, FALSE)
      arg == FindLineArg(GetLineEnum(s, i), FALSE)
  IN IF i = None THEN default ELSE IF arg = None THEN default ELSE From(GetLineEnum(s, i), arg)
PropGet(s, key) ==
  LET arg == FindArgForKey(s, key, <<>>) IN Slice(arg, 0, FindScriptLineEnd(arg))
AddKeyArg(s, key, arg) == AddLine(s, MakeLine(key, arg))
SetKeyArg(s, key, arg) == SetLine(s, FindKeyLine(s, key, TRUE), MakeLine(key, arg))

(* The lines stay where they are in the text, with a 0 behind each of them. *)
SetLinesParse(data, seps, flags) ==
  LET Add(t, line) ==
        LET at == Min({p \in t.used..(Len(data) - Len(line)) : Slice(data, p, p + Len(line)) = line})
        IN [buf |-> Put(t.buf, at + Len(line), <<0>>), used |-> at + Len(line) + 1, at |-> Append(t.at, at)]
      all == FoldLeft(Add, [NewSection EXCEPT !.buf = data \o <<0, 0>>],
                      ParseArray(data, Len(data) + 2, seps, flags))
  IN AllocComplete([all EXCEPT !.used = IF "EMPTY_STOP" \notin flags THEN Len(data) + 1
                                        ELSE IF all.at = <<>> THEN 1 ELSE @])
GetStringAll(s, sep) ==
  FlattenSeq([i \in DOMAIN s.at |-> IF i = 1 THEN LinesOf(s)[1] ELSE sep \o LinesOf(s)[i]])

(* Up to the next header.  Each line is read into the buffer, at a place i  *)
(* that is never before what is used, and copied from there.                *)
TitleOf(line) ==
  LET start == 1 + GetNonWhitespaceN(From(line, 1))
      end == FindBlockEnd(2, line, start)
  IN IF Ch(line, end) = 93 THEN Slice(line, start, end) ELSE <<>>
RECURSIVE ReadLines(_, _, _, _)
ReadLines(s, i, lines, strip) ==
  LET raw == Head(lines)
      read == [s EXCEPT !.buf = Put(@, i, Append(raw, 0))]
      start == IF strip THEN GetNonWhitespaceN(raw) ELSE 0
      line == From(raw, start)
      n == IF strip THEN FindScriptLineEnd(line) ELSE Len(line)
      cut == [read EXCEPT !.buf = Put(@, i + start + n, <<0>>)]
      copied == AddLine(cut, CString(cut.buf, i + start))
  IN IF lines = <<>> THEN [s |-> s, next |-> <<>>, rest |-> <<>>]
     ELSE IF IsSectionHeader(raw) THEN [s |-> read, next |-> TitleOf(raw), rest |-> Tail(lines)]
     ELSE ReadLines(copied, i + start + n + 1, Tail(lines), strip)
ReadSectionData(s, lines, strip) ==
  LET r == ReadLines(AllocBeginMin(ClearLineQty(s), SectionMax), 0, lines, strip)
  IN [r EXCEPT !.s = AllocComplete(@)]
WriteSectionData(s) == FlattenSeq([i \in DOMAIN s.at |-> LinesOf(s)[i] \o NLCR])

-----------------------------------------------------------------------------
(* Sections in a file: a sequence of records of a title and a section.      *)
WriteSectionHead0(title, started) == (IF started THEN NLCR ELSE <<>>) \o <<91>> \o title \o <<93>> \o NLCR
WriteKeyUnk(key, value) ==
  IF key = <<>> THEN <<>> ELSE (IF value = <<>> THEN key ELSE MakeLine(key, value)) \o NLCR
WriteKeyStrQ(key, value) == WriteKeyUnk(key, EscSeqAddQ(value))
(* Each section is written by a writer of its own.                          *)
WriteSection(e) ==
  (IF e.title = <<>> THEN <<>> ELSE WriteSectionHead0(e.title, FALSE)) \o WriteSectionData(e.data)
WriteIniFile(f) == FlattenSeq([i \in DOMAIN f |-> WriteSection(f[i])])

IsTitle(title, find, prefixOnly) ==
  CmpIN(title, find, Len(find)) = 0 /\ (prefixOnly \/ ~IsCSym(Ch(title, Len(find))))
FindSection(f, title, prefixOnly) ==
  First({i \in DOMAIN f : IsTitle(f[i].title, title, prefixOnly)}, 0)
AddSection(f, title) == Append(f, [title |-> title, data |-> NewSection])
IsSectionTypeMatch(a, b) == IF a = <<>> \/ b = <<>> THEN a = b ELSE CmpHeadI(a, b) = 0
GetSectionTitleParse(title) ==
  LET i == FindCharN(title, Space, Len(title) + 1)
  IN IF i < 0 THEN [tag |-> title, value |-> <<>>]
     ELSE [tag |-> Slice(title, 0, i), value |-> From(title, i + 1)]

(* Nothing (None) in place of a line deletes it.                            *)
SetKeyLine(f, title, key, line) ==
  LET found == FindSection(f, title, FALSE)
      g == IF found = 0 THEN AddSection(f, title) ELSE f
      n == IF found = 0 THEN Len(g) ELSE found
      i == IF found = 0 THEN None ELSE FindKeyLine(g[n].data, key, FALSE)
      set == IF i >= 0 THEN IF line = <<>> THEN RemoveLine(g[n].data, i) ELSE SetLine(g[n].data, i, line)
             ELSE IF line = <<>> THEN g[n].data ELSE AddLine(g[n].data, line)
  IN [g EXCEPT ![n].data = set]
SetFileKeyArg(f, title, key, arg) == SetKeyLine(f, title, key, MakeLine(key, arg))

(* Reading ends at a header without its bracket.                            *)
RECURSIVE ReadIniStream(_, _, _)
ReadIniStream(f, lines, strip) ==
  LET line == Head(lines)
      end == FindBlockEnd(2, line, 1)
      g == IF f = <<>> THEN AddSection(f, <<>>) ELSE f
      bare == From(line, GetNonWhitespaceN(line))
      text == IF strip THEN Slice(bare, 0, FindScriptLineEnd(bare)) ELSE line
      completed == IF f = <<>> THEN f ELSE [f EXCEPT ![Len(f)].data = AllocComplete(@)]
  IN IF lines = <<>> THEN [ok |-> TRUE, f |-> f]
     ELSE IF ~IsSectionHeader(line)
     THEN ReadIniStream([g EXCEPT ![Len(g)].data = AddLine(@, text)], Tail(lines), strip)
     ELSE IF Ch(line, end) # 93 THEN [ok |-> FALSE, f |-> completed]
     ELSE ReadIniStream(AddSection(completed, Slice(line, 1, end)), Tail(lines), strip)

-----------------------------------------------------------------------------
(* cIniMap: a function from the atoms of the keys that are there.           *)
AtomOf(key) == MakeLowerCase(key)
SetVal(map, key, value) ==
  [k \in DOMAIN map \cup {AtomOf(key)} |-> IF k = AtomOf(key) THEN value ELSE map[k]]
GetVal(map, key) == IF AtomOf(key) \in DOMAIN map THEN map[AtomOf(key)] ELSE <<>>
SetMapCopy(map, other) == [k \in DOMAIN map \cup DOMAIN other |-> IF k \in DOMAIN other THEN other[k] ELSE map[k]]

(* cIniObject: the dirty mask is cleared before the property is written,    *)
(* and stays so when the writing fails (after oks of them).                 *)
FileWriteN(o, i, ok) ==
  IF i \notin o.dirty THEN o
  ELSE [o EXCEPT !.dirty = @ \ {i}, !.out = IF ok THEN [@ EXCEPT ![i] = o.value[i]] ELSE @]
RECURSIVE FileWriteAll(_, _, _, _)
FileWriteAll(o, qty, i, oks) ==
  IF i = qty THEN [o EXCEPT !.dirty = {}]
  ELSE IF i \notin o.dirty THEN FileWriteAll(o, qty, i + 1, oks)
  ELSE IF oks = 0 THEN FileWriteN(o, i, FALSE)
  ELSE FileWriteAll(FileWriteN(o, i, TRUE), qty, i + 1, oks - 1)
=============================================================================
