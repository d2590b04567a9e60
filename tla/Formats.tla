------------------------------- MODULE Formats --------------------------------
(***************************************************************************)
(* StrBuilder, a text that is built in a fixed or a growing buffer and cut  *)
(* where there is no more room, and StrFormat, which prints arguments into  *)
(* it; and blocks of bytes (cMemSpan) compared, reversed, and read from     *)
(* texts.  Floating point numbers are left out.                             *)
(***************************************************************************)
EXTENDS Numerals

k_nGrowSizeChunk == 1024
k_LEN_MAX == 15000
k_ExtraNul == 1

(* A builder: its text, the room of its buffer, and whether it may grow.    *)
OnHeap == [text |-> <<>>, alloc |-> k_nGrowSizeChunk, heap |-> TRUE]
Within(size) == [text |-> <<>>, alloc |-> size, heap |-> FALSE]
WriteSpaceQty(out) == out.alloc - Len(out.text) - k_ExtraNul
IsOverflow(out) == WriteSpaceQty(out) <= 0

(* The buffer grows by what is missing and then by its own rest of a chunk. *)
GetWritePrep(out, need) ==
  LET least == out.alloc + need - WriteSpaceQty(out)
      rest == least % k_nGrowSizeChunk
      grown == least + (IF rest = 0 THEN k_nGrowSizeChunk ELSE rest)
  IN IF ~out.heap \/ need <= WriteSpaceQty(out) \/ out.alloc >= k_LEN_MAX THEN out
     ELSE [out EXCEPT !.alloc = Min({grown, k_LEN_MAX}) + 1]

AddSpan(out, text) ==
  LET ready == GetWritePrep(out, Len(text))
  IN [ready EXCEPT !.text = @ \o Slice(text, 0, Min({WriteSpaceQty(ready), Len(text)}))]
AddChar(out, ch) == AddSpan(out, <<ch>>)
AddSep(out, ch) == IF out.text # <<>> THEN AddChar(out, ch) ELSE out
AddCharRepeat(out, ch, repeat) == AddSpan(out, [i \in 1..repeat |-> ch])
AddSpanQ(out, text, start, end) == AddChar(AddSpan(AddChar(out, start), text), end)
AddCrLf(out) == AddSpan(out, <<CR, NL>>)
AddBytesFiltered(out, bytes) ==
  AddSpan(out, [i \in DOMAIN bytes |-> IF IsPrintA(bytes[i]) THEN bytes[i] ELSE Question])
k_ARG_ARRAY_MAX == 256
(* The texts up to the first one that is empty.                             *)
Join(out, texts) ==
  LET empty == SelectInSeq(texts, LAMBDA t : t = <<>>)
      count == Min({k_ARG_ARRAY_MAX, IF empty = 0 THEN Len(texts) ELSE empty - 1})
  IN FoldLeft(AddSpan, out, SubSeq(texts, 1, count))
(* Numbers with commas between them.  The length that ILtoA answers, and    *)
(* with it the end of the text, leaves out the sign.                        *)
k_CSVSpace == k_LEN_MAX_DIGITS_INT
AddNumber(out, val) ==
  LET sep == GetWritePrep(AddSep(out, 44), k_CSVSpace)
      text == ILtoA(val, WriteSpaceQty(sep), 10)
  IN [sep EXCEPT !.text = @ \o Slice(text, 0, ILtoALen(val, WriteSpaceQty(sep), 10))]
AddCSV(out, vals) == FoldLeft(AddNumber, out, vals)

-----------------------------------------------------------------------------
(* One parameter of a format, %[flags][width][.precision][length]specifier. *)
k_Specs == {69, 70, 71, 88, 99, 100, 101, 102, 103, 105, 111, 112, 115, 117, 120}
ClearParams == [spec |-> 0, width |-> 0, precision |-> -1, long |-> 0, left |-> FALSE,
                plus |-> FALSE, widthArg |-> FALSE, prefix |-> FALSE, zero |-> FALSE]

(* The width or the precision is a byte.  What is no format takes nothing,  *)
(* and its % is copied like any other text.                                 *)
RECURSIVE ParseFrom(_, _, _, _, _)
ParseFrom(format, i, p, val, dot) ==
  LET ch == Ch(format, i)
      Go(q) == ParseFrom(format, i + 1, q, val, dot)
      sized == IF dot THEN [p EXCEPT !.spec = ch, !.precision = val]
               ELSE [p EXCEPT !.spec = ch, !.width = val,
                              !.precision = IF @ < 0 /\ ToLowerA(ch) \in 101..103 THEN 6 ELSE @]
  IN IF ch <= k_Space \/ ch >= 128 THEN [n |-> 0, p |-> p]
     ELSE IF ch \in k_Specs THEN [n |-> i + 1, p |-> sized]
     ELSE IF ch = 37 /\ i = 0 THEN [n |-> 1, p |-> p]
     ELSE CASE ch = 46 -> ParseFrom(format, i + 1, [p EXCEPT !.width = val], 0, TRUE)
            [] ch = 108 -> Go([p EXCEPT !.long = @ + 1])
            [] ch = 122 -> Go([p EXCEPT !.long = 2])
            [] ch = 45 -> Go([p EXCEPT !.left = TRUE])
            [] ch = 43 -> Go([p EXCEPT !.plus = TRUE])
            [] ch = Star -> Go([p EXCEPT !.widthArg = TRUE])
            [] ch = 35 -> Go([p EXCEPT !.prefix = TRUE])
            [] ch = 48 /\ val = 0 -> Go([p EXCEPT !.zero = TRUE])
            [] IsDigitA(ch) /\ ~(ch = 48 /\ val = 0) ->
                 ParseFrom(format, i + 1, p, (val * 10 + Radix2U(ch)) % 256, dot)
            [] OTHER -> [n |-> 0, p |-> p]
ParseParam(format) == ParseFrom(format, 0, ClearParams, 0, FALSE)

(* The first characters of a text, as many as the precision says, in a field*)
(* of the width.                                                            *)
RenderString(out, p, text, precision) ==
  LET shown == IF precision < 0 \/ precision > Len(text) THEN Len(text) ELSE precision
      pad == Max({p.width - shown, 0})
      before == IF p.left THEN out ELSE AddCharRepeat(out, k_Space, pad)
      after == AddSpan(before, Slice(text, 0, shown))
  IN IF p.left THEN AddCharRepeat(after, k_Space, pad) ELSE after

(* Zeros fill the width before the sign is put in front of them; a number   *)
(* that is wider than its width gets one all the same.                      *)
Lower(digits) == [i \in DOMAIN digits |-> ToLowerA(digits[i])]
k_LenTmp == k_LEN_MAX_DIGITS_INT + 3
RenderUInt(out, p, prefix, radix, val) ==
  LET upper == ULtoARev(val, k_LenTmp, radix)
      digits == IF p.spec \in {120, 112} THEN Lower(upper) ELSE upper
      n == Len(digits)
      want == IF p.width >= n THEN p.width - n ELSE IF val # 0 THEN 1 ELSE 0
      pad == IF p.zero THEN Min({want, k_LenTmp - n}) ELSE 0
      text == prefix \o [i \in 1..pad |-> 48] \o digits
  IN RenderString(out, p, text, IF p.precision < 0 THEN -1
                                ELSE Min({p.precision, n}) + pad + Len(prefix))

Radix(spec) == IF spec \in {88, 120, 112} THEN 16 ELSE IF spec = 111 THEN 8 ELSE 10
Prefix(p, val) ==
  IF p.spec \in {100, 105} THEN IF val < 0 THEN <<45>> ELSE IF p.plus THEN <<43>> ELSE <<>>
  ELSE IF ~p.prefix THEN <<>>
  ELSE CASE p.spec = 88 -> <<48, 88>> [] p.spec = 120 -> <<48, 120>>
         [] p.spec = 111 -> <<48>> [] OTHER -> <<>>
(* An argument is a number or a text.                                       *)
RenderParam(out, p, arg) ==
  CASE p.spec = 99 -> RenderString(out, p, <<arg>>, p.precision)
    [] p.spec = 115 -> RenderString(out, p, arg, p.precision)
    [] p.spec \in {100, 105, 117, 88, 112, 120, 111} ->
         RenderUInt(out, p, Prefix(p, arg), Radix(p.spec), IF arg < 0 THEN -arg ELSE arg)

AddInt(out, val) ==
  RenderUInt(out, ClearParams, IF val < 0 THEN <<45>> ELSE <<>>, 10, IF val < 0 THEN -val ELSE val)
AddUInt(out, val, radix) ==
  RenderUInt(out, [ClearParams EXCEPT !.zero = radix >= 16], <<>>, radix, val)

-----------------------------------------------------------------------------
(* V: the format up to its end, or until there is no more room.  A width may*)
(* be an argument, whose sign says on which side the padding goes.          *)
RECURSIVE FormatFrom(_, _, _)
FormatFrom(out, format, args) ==
  LET parsed == ParseParam(Tail(format))
      star == parsed.p.widthArg
      p == IF ~star THEN parsed.p
           ELSE [parsed.p EXCEPT !.left = @ \/ args[1] < 0,
                                 !.width = (IF args[1] < 0 THEN -args[1] ELSE args[1]) % 256]
      taken == IF star THEN Tail(args) ELSE args
      Plain(n) == FormatFrom(AddChar(out, format[1]), From(format, n), args)
  IN IF IsOverflow(out) \/ format = <<>> THEN out
     ELSE IF format[1] # 37 THEN Plain(1)
     ELSE IF parsed.p.spec = 0 THEN Plain(1 + parsed.n)
     ELSE FormatFrom(RenderParam(out, p, taken[1]), From(format, 1 + parsed.n), Tail(taken))
V(out, format, args) == FormatFrom(out, format, args).text

-----------------------------------------------------------------------------
(* Blocks of bytes; of Compare only the sign counts.  CompareIndex is for   *)
(* blocks of less than two words: it takes the number of a byte for that of *)
(* a word, and compares what lies behind a longer block.                    *)
Differ(a, b) == {i \in DOMAIN a \cap DOMAIN b : a[i] # b[i]}
Compare(a, b) ==
  IF Differ(a, b) = {} THEN Len(a) - Len(b)
  ELSE a[Min(Differ(a, b))] - b[Min(Differ(a, b))]
CompareIndex(a, b) == IF Differ(a, b) = {} THEN Len(a) ELSE Min(Differ(a, b)) - 1

(* Elements of a stride of bytes change places; those keep their order.     *)
ReverseSpan(bytes, stride) ==
  LET Element(k) == SubSeq(bytes, k * stride + 1, (k + 1) * stride)
      count == Len(bytes) \div stride
  IN FlattenSeq([k \in 1..count |-> Element(count - k)])

(* The text has room for all of the digits.  What is read fails at the first*)
(* character that is none, and behind the last one if that is asked for; a  *)
(* block of zeros is no failure, but it is told apart.                      *)
GetHexDigest(bytes) ==
  FlattenSeq([k \in DOMAIN bytes |-> <<U2Hex(bytes[k] \div 16), U2Hex(bytes[k] % 16)>>])
ReadHexDigest(text, size, testEnd) ==
  LET wrong == {i \in 0..(2 * size - 1) : Hex2U(Ch(text, i)) = 16}
      read == IF wrong = {} THEN size ELSE Min(wrong) \div 2
      bytes == [k \in 1..read |-> Hex2U(Ch(text, 2 * k - 2)) * 16 + Hex2U(Ch(text, 2 * k - 1))]
      res == IF wrong # {} THEN IF Len(text) = 2 * read THEN "BYTE_COUNT_TOO_SMALL" ELSE "INVALID_HEXIDECIMAL"
             ELSE IF testEnd /\ IsDigitRadix(Ch(text, 2 * size), 16) THEN "BUFFER_OVERFLOW"
             ELSE IF \A k \in 1..size : bytes[k] = 0 THEN "FALSE" ELSE "OK"
  IN [res |-> res, bytes |-> bytes]

(* The opposite of ConvertToCSV; a field without a digit is a 0, the last.  *)
RECURSIVE ReadFromCSV(_, _)
ReadFromCSV(text, size) ==
  LET here == From(text, GetNonWhitespaceN(text))
      read == toUL(here, 10)
      rest == From(here, read.end)
      behind == From(rest, GetNonWhitespaceN(rest))
  IN IF size = 0 \/ here = <<>> THEN <<>>
     ELSE <<read.val % 256>> \o (IF read.end = 0 \/ Ch(behind, 0) # 44 THEN <<>>
                                 ELSE ReadFromCSV(Tail(behind), size - 1))
=============================================================================
