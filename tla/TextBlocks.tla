----------------------------- MODULE TextBlocks ------------------------------
(***************************************************************************)
(* StrT: comparing, searching, trimming, quoting and splitting C strings, and*)
(* what it does with structured text: escape sequences, quotes and nested  *)
(* blocks, arguments between separators, wild cards, and the replacement of*)
(* blocks in a template (StrTemplate).  Places count from 0, as in the code;*)
(* the buffers are long enough for what is written into them, and a null   *)
(* pointer is left out.                                                    *)
(***************************************************************************)
EXTENDS Numerals

k_StrLen_UNK == -1
First(places, otherwise) == IF places = {} THEN otherwise ELSE Min(places)

-----------------------------------------------------------------------------
(* Compares go to the first difference or to the end of the first text.     *)
CmpBy(Diff(_, _), a, b) ==
  LET i == Min({k \in 0..Len(a) : k = Len(a) \/ Diff(Ch(a, k), Ch(b, k)) # 0})
  IN Diff(Ch(a, i), Ch(b, i))
Minus(a, b) == a - b
Cmp(a, b) == CmpBy(Minus, a, b)
CmpI(a, b) == CmpBy(CmpICh, a, b)
CmpN(a, b, n) == IF n < 0 THEN -1 ELSE Cmp(Slice(a, 0, Min({n, Len(a)})), Slice(b, 0, Min({n, Len(b)})))
CmpIN(a, b, n) == IF n < 0 THEN -1 ELSE CmpI(Slice(a, 0, Min({n, Len(a)})), Slice(b, 0, Min({n, Len(b)})))
StartsWithI(text, prefix) == \A i \in 0..(Len(prefix) - 1) : CmpICh(Ch(prefix, i), Ch(text, i)) = 0
EndsWithI(text, post) == Len(post) <= Len(text) /\ CmpI(From(text, Len(text) - Len(post)), post) = 0
(* Only the symbols at the head of both are compared.                       *)
Head32(text) == Slice(text, 0, HeadLen(text, IsCSym))
CmpHeadI(find, elem) == CmpI(Head32(find), Head32(elem))

-----------------------------------------------------------------------------
FindCharN(text, ch, max) ==
  First({i \in 0..(Min({max, Len(text) + 1}) - 1) : Ch(text, i) = ch}, k_StrLen_UNK)
HasChar(text, ch) == FindCharN(text, ch, Len(text) + 1) >= 0
(* The search from the end stops before the first character.                *)
FindCharRev(text, ch) ==
  LET at == {i \in 1..(Len(text) - 1) : Ch(text, i) = ch}
  IN IF at = {} THEN k_StrLen_UNK ELSE Max(at)
FindTokens(text, tokens) ==
  First({i \in 0..(Len(text) - 1) : HasChar(tokens, Ch(text, i))}, k_StrLen_UNK)

(* After a mismatch the search goes back to the second character of what    *)
(* had matched so far.                                                      *)
RECURSIVE FindFrom(_, _, _, _, _)
FindFrom(Same(_, _), text, sub, i, match) ==
  IF i >= Len(text) THEN k_StrLen_UNK
  ELSE IF Same(Ch(text, i), Ch(sub, match))
  THEN IF match + 1 = Len(sub) THEN i - match
       ELSE FindFrom(Same, text, sub, i + 1, match + 1)
  ELSE FindFrom(Same, text, sub, i - match + 1, 0)
FindStrN(text, sub) == FindFrom(LAMBDA a, b : a = b, text, sub, 0, 0)
FindStrNI(text, sub) == FindFrom(LAMBDA a, b : CmpICh(a, b) = 0, text, sub, 0, 0)

(* FindWord does not come to an end (Hangs) where the word is the head of a *)
(* longer one: it goes back to where it was.                                *)
Hangs == -2
RECURSIVE FindWordAt(_, _, _)
FindWordAt(text, word, i) ==
  IF i >= Len(text) THEN k_StrLen_UNK
  ELSE IF i > 0 /\ IsAlpha(Ch(text, i - 1)) THEN FindWordAt(text, word, i + 1)
  ELSE IF ~StartsWithI(From(text, i), word) THEN FindWordAt(text, word, i + 1)
  ELSE IF IsAlNum(Ch(text, i + Len(word))) THEN Hangs ELSE i
FindWord(text, word) == FindWordAt(text, word, 0)

-----------------------------------------------------------------------------
IsWhitespace(text) == \A i \in DOMAIN text : IsSpaceX(text[i])
IsPrintable(text) == \A i \in DOMAIN text : IsSpaceX(text[i]) \/ IsPrintA(text[i])
GetWhitespaceEnd(text) ==
  Min({i \in 0..Len(text) : IsWhitespace(From(text, i))})
TrimWhitespaceEnd(text) == Slice(text, 0, GetWhitespaceEnd(text))
TrimWhitespace(text) == TrimWhitespaceEnd(From(text, GetNonWhitespaceN(text)))
MakeUpperCase(text) == [i \in DOMAIN text |-> ToUpperA(text[i])]
MakeLowerCase(text) == [i \in DOMAIN text |-> ToLowerA(text[i])]

(* ReplaceX changes nothing when the result would not fit.                  *)
ReplaceX(dst, size, at, segLen, src) ==
  IF Len(dst) - segLen + Len(src) >= size THEN dst
  ELSE Slice(dst, 0, at) \o src \o From(dst, at + segLen)

(* Tables of names.  TableFindSorted halves the table.                      *)
IsTableSorted(table) == \A i \in 1..(Len(table) - 1) : CmpI(table[i], table[i + 1]) < 0
TableFind(name, table) ==
  IF name = <<>> THEN -1
  ELSE First({i \in 0..(Len(table) - 1) : CmpI(name, table[i + 1]) = 0}, -1)
TableFindHead(name, table) ==
  IF name = <<>> THEN -1
  ELSE First({i \in 0..(Len(table) - 1) : CmpHeadI(name, table[i + 1]) = 0}, -1)

RECURSIVE HalveBy(_, _, _, _, _)
HalveBy(Compare(_, _), name, table, low, high) ==
  LET i == (high + low) \div 2
      res == Compare(name, table[i + 1])
  IN IF low > high THEN -1
     ELSE IF res = 0 THEN i
     ELSE IF res > 0 THEN HalveBy(Compare, name, table, i + 1, high)
     ELSE HalveBy(Compare, name, table, low, i - 1)
TableFindSorted(name, table) == HalveBy(CmpI, name, table, 0, Len(table) - 1)
TableFindHeadSorted(name, table) ==
  IF name = <<>> THEN -1 ELSE HalveBy(CmpHeadI, name, table, 0, Len(table) - 1)
-----------------------------------------------------------------------------

Quote == 34
Backslash == 92
Comma == 44
k_szBlockStart == <<34, 123, 91, 40>>
k_szBlockEnd == <<34, 125, 93, 41>>
BlockOf(ch) == FindCharN(k_szBlockStart, ch, 4)         \* -1: starts none
GetBlockEnd(block) == k_szBlockEnd[block + 1]
k_szEscEncode == <<39, 34, 63, 92, 97, 98, 116, 110, 118, 102, 114>>
k_szEscDecode == <<39, 34, 63, 92, 7, 8, 9, 10, 11, 12, 13>>

(* One sequence behind a backslash: its character and how long it is.  What *)
(* is no sequence leaves the backslash and takes nothing.                   *)
EscSeqDecode1(text) ==
  LET esc == FindCharN(k_szEscEncode, Ch(text, 0), 12)
      hex == toUL(Tail(text), 16)
      octal == toUL(text, 8)
  IN IF esc >= 0 THEN [ch |-> Ch(k_szEscDecode, esc), n |-> 1]
     ELSE IF Ch(text, 0) = 120 THEN [ch |-> hex.val % 256, n |-> hex.end + 1]
     ELSE IF Ch(text, 0) \in 48..55 THEN [ch |-> octal.val % 256, n |-> octal.end]
     ELSE [ch |-> Backslash, n |-> 0]

RECURSIVE EscSeqDecode(_)
EscSeqDecode(text) ==
  IF text = <<>> THEN <<>>
  ELSE IF text[1] # Backslash THEN <<text[1]>> \o EscSeqDecode(Tail(text))
  ELSE LET seq == EscSeqDecode1(Tail(text))
       IN <<seq.ch>> \o EscSeqDecode(From(text, 1 + seq.n))

EscSeqTest(text) ==
  \E i \in DOMAIN text : HasChar(k_szEscDecode, text[i]) \/ ~IsPrintA(text[i])
(* With no escapes of their own, quotes and back slashes end the text early.*)
EscOfRaw(ch) == IF IsPrintA(ch) THEN <<ch>> ELSE <<Backslash, 120>> \o ULtoA(ch, 10, 16)
EscOf(ch) ==
  LET esc == FindCharN(k_szEscDecode, ch, 12)
  IN IF esc >= 0 THEN <<Backslash, Ch(k_szEscEncode, esc)>>
     ELSE IF IsPrintA(ch) THEN <<ch>> ELSE <<Backslash, 120>> \o ULtoA(ch, 10, 16)
EscSeqAdd(text) == FlattenSeq([i \in DOMAIN text |-> EscOf(text[i])])
EscSeqAddQ(text) == <<Quote>> \o EscSeqAdd(text) \o <<Quote>>

-----------------------------------------------------------------------------
(* FindBlockEnd, from a place on: the place of the end of the block, or the *)
(* first place when there is none.  Inside quotes there are no blocks, only *)
(* escape sequences; a block that does not end is taken for text.           *)
RECURSIVE BlockEndFrom(_, _, _, _)
BlockEndFrom(block, text, start, i) ==
  LET ch == Ch(text, i)
      inner == BlockOf(ch)
      innerEnd == BlockEndFrom(inner, text, i + 1, i + 1)
      Next(k) == BlockEndFrom(block, text, start, k)
  IN IF ch = 0 THEN start
     ELSE IF ch = GetBlockEnd(block) THEN i
     ELSE IF block = 0
     THEN Next(i + 1 + (IF ch = Backslash THEN EscSeqDecode1(From(text, i + 1)).n ELSE 0))
     ELSE IF HasChar(Tail(k_szBlockEnd), ch) THEN start
     ELSE IF inner >= 0 /\ Ch(text, innerEnd) = GetBlockEnd(inner) THEN Next(innerEnd + 1)
     ELSE Next(i + 1)
FindBlockEnd(block, text, start) == BlockEndFrom(block, text, start, start)

StripBlock(text) ==
  LET block == BlockOf(Ch(text, 0))
      end == FindBlockEnd(block, text, 1)
  IN IF block < 0 \/ text = <<>> THEN text
     ELSE IF Ch(text, end) # GetBlockEnd(block) THEN text ELSE Slice(text, 1, end)

(* How much of the text is taken, and what it says without its quotes.      *)
EscSeqDecodeQ(text) ==
  LET end == FindBlockEnd(0, text, 1)
  IN IF Ch(text, 0) # Quote THEN [n |-> Len(text), text |-> text]
     ELSE IF Ch(text, end) # Quote THEN [n |-> k_StrLen_UNK, text |-> <<>>]
     ELSE [n |-> end + 1, text |-> EscSeqDecode(Slice(text, 1, end))]

-----------------------------------------------------------------------------
(* ParseArray with room for max tokens.  flags is a set of the options.     *)
STRP_DEF == {"START_WHITE", "SPACE_SEP", "END_WHITE", "CHECK_BLOCKS"}
Cut(text, start, i, flags) ==
  IF "END_WHITE" \in flags THEN TrimWhitespaceEnd(Slice(text, start, i)) ELSE Slice(text, start, i)

RECURSIVE ParseFrom(_, _, _, _, _, _, _, _)
ParseFrom(text, max, seps, flags, i, start, tokens, hadSep) ==
  LET ch == Ch(text, i)
      isSep == HasChar(seps, ch)
      quiet == isSep /\ IsSpaceX(ch) /\ "SPACE_SEP" \in flags /\ hadSep
      skipped == IsSpaceX(ch) /\ ~IsNL(ch) /\ "START_WHITE" \in flags /\ start = i
      merged == ch = CR /\ Ch(text, i + 1) = NL /\ "MERGE_CRNL" \in flags
      nowSep == isSep /\ ~IsSpaceX(ch) /\ "SPACE_SEP" \in flags
      flagsNow == IF nowSep THEN flags \ {"EMPTY_SKIP"} ELSE flags
      token == Cut(text, start, i, flags)
      stops == token = <<>> /\ "EMPTY_SKIP" \notin flagsNow /\ "EMPTY_STOP" \in flags
      soFar == IF token = <<>> /\ "EMPTY_SKIP" \in flagsNow THEN tokens ELSE Append(tokens, token)
      block == IF "CHECK_BLOCKS" \in flags /\ IsAscii(ch) THEN BlockOf(ch) ELSE -1
      end == FindBlockEnd(block, text, i + 1)
      Ends(k) == LET rest == Cut(text, start, k, flags)
                 IN IF rest = <<>> THEN tokens ELSE Append(tokens, rest)
      Go(k) == ParseFrom(text, max, seps, flags, k, start, tokens, hadSep)
      rest == Cut(text, i + 1, Len(text), flags)
  IN IF ch = 0 \/ (isSep /\ max = 1) THEN Ends(i)
     ELSE IF skipped THEN ParseFrom(text, max, seps, flags, i + 1, i + 1, tokens, hadSep)
     ELSE IF merged \/ quiet THEN Go(i + 1)
     ELSE IF stops THEN soFar
     ELSE IF isSep /\ Len(soFar) + 1 >= max THEN soFar \o (IF rest = <<>> THEN <<>> ELSE <<rest>>)
     ELSE IF isSep THEN ParseFrom(text, max, seps, flagsNow, i + 1, i + 1, soFar, hadSep \/ nowSep)
     ELSE IF "CHECK_BLOCKS" \in flags /\ HasChar(Tail(k_szBlockEnd), ch) THEN Ends(i)
     ELSE IF block < 0 THEN Go(i + 1)
     ELSE IF Ch(text, end) = GetBlockEnd(block) THEN Go(end + 1) ELSE Ends(i)
ParseArray(text, max, seps, flags) == ParseFrom(text, max, seps, flags, 0, 0, <<>>, FALSE)

-----------------------------------------------------------------------------
(* MatchRegEx: how many characters fit, 0 when the pattern does not fit, and*)
(* less when the max characters that may be read end within the pattern.    *)
RECURSIVE MatchFrom(_, _, _, _, _)
MatchFrom(text, pattern, max, i, k) ==
  LET chP == Ch(pattern, k)
      chT == Ch(text, i)
      Rest(j) == MatchFrom(From(text, j), From(pattern, k + 1),
                           IF max > 0 THEN max - j ELSE max, 0, 0)
      tries == {j \in i..(Len(text) - 1) : Rest(j) # 0}
      j == Min(tries)
  IN IF chP = 0 THEN IF chT = 0 \/ max > 0 THEN i ELSE 0
     ELSE IF max > 0 /\ i >= max THEN -i
     ELSE IF chT = 0 THEN 0
     ELSE IF chP = Star /\ k + 1 = Len(pattern) THEN IF max > 0 THEN max ELSE Len(text)
     ELSE IF chP = Star THEN IF tries = {} THEN 0
                             ELSE IF Rest(j) < 0 THEN Rest(j) - j ELSE Rest(j) + j
     ELSE IF chP # Question /\ CmpICh(chT, chP) # 0 THEN 0
     ELSE MatchFrom(text, pattern, max, i + 1, k + 1)
MatchRegEx(text, pattern, max) == MatchFrom(text, pattern, max, 0, 0)
HasRegEx(pattern) == \E i \in DOMAIN pattern : IsRegEx(pattern[i])

-----------------------------------------------------------------------------
(* ReplaceTemplateBlock: what stands in <?..?> is looked up in values, a    *)
(* function of the known names; inner blocks come first.                    *)
Less == 60
More == 62
RECURSIVE Template(_, _, _, _, _, _)
Template(values, text, i, out, begin, recursing) ==
  LET ch == Ch(text, i)
      added == Append(out, ch)
      Go(k, o, b) == Template(values, text, k, o, b, recursing)
      inner == Template(values, From(text, i), 0, out, -1, TRUE)
      name == Slice(added, begin + 2, Len(added) - 2)
      replaced == IF name \in DOMAIN values THEN Slice(added, 0, begin) \o values[name] ELSE added
  IN IF ch = 0 THEN [out |-> out, n |-> i]
     ELSE IF begin < 0
     THEN Go(i + 1, added, IF ch = Question /\ i > 0 /\ Ch(text, i - 1) = Less
                           THEN Len(added) - 2 ELSE -1)
     ELSE IF ch = Less /\ Ch(text, i + 1) = Question THEN Go(i + inner.n + 1, inner.out, begin)
     ELSE IF ch = More /\ Ch(text, i - 1) = Question
     THEN IF recursing THEN [out |-> replaced, n |-> i] ELSE Go(i + 1, replaced, -1)
     ELSE Go(i + 1, added, begin)
=============================================================================
