------------------------------ MODULE Numerals -------------------------------
(***************************************************************************)
(* StrChar and StrNum: the classes of characters, their case and their value*)
(* as digits; numbers printed in a radix and read back.  A character is its*)
(* code; a text is the sequence of its codes, without the 0 that ends it.  *)
(* The values stay far below 2^64, where the multiplication of toUL wraps. *)
(***************************************************************************)
EXTENDS Integers, Sequences, SequencesExt, FiniteSetsExt

k_ASCII == 127
k_Space == 32
k_uRadixMin == 2
k_uRadixMax == 36
BS == 8
HT == 9
NL == 10
CR == 13
Star == 42
Question == 63

IsAscii(ch) == ch <= k_ASCII
IsPrintA(ch) == ch >= k_Space /\ ch < k_ASCII
IsNL(ch) == ch \in {NL, CR}
IsSpace(ch) == ch \in {HT, k_Space}
IsSpaceX(ch) == ch = k_Space \/ ch \in BS..CR
IsDigitA(ch) == ch \in 48..57
IsUpperA(ch) == ch \in 65..90
IsLowerA(ch) == ch \in 97..122
IsAlphaA(ch) == IsUpperA(ch) \/ IsLowerA(ch)
IsAlNum(ch) == IsAlphaA(ch) \/ IsDigitA(ch)
IsCSym(ch) == IsAlphaA(ch) \/ ch = 95 \/ IsDigitA(ch)
IsRegEx(ch) == ch \in {Question, Star}

IsUpperAXSet(ch) == ch \in 192..223
IsLowerAXSet(ch) == ch \in 224..255
IsAlphaUSet(ch) == ch \in 256..511
IsUpperUSet(ch) == IsAlphaUSet(ch) /\ ch % 2 = 0
IsLowerUSet(ch) == IsAlphaUSet(ch) /\ ch % 2 = 1
IsUpper(ch) == IF IsAscii(ch) THEN IsUpperA(ch) ELSE IsUpperAXSet(ch) \/ IsUpperUSet(ch)
IsLower(ch) == IF IsAscii(ch) THEN IsLowerA(ch) ELSE IsLowerAXSet(ch) \/ IsLowerUSet(ch)
IsAlpha(ch) == IsUpper(ch) \/ IsLower(ch) \/ IsAlphaUSet(ch)

(* In the range of the U set, even is upper: ToUpperW goes up, ToLowerW     *)
(* down, so that neither leads from one case to the other.                  *)
ToUpperA(ch) == IF IsLowerA(ch) THEN ch - 32 ELSE ch
ToLowerA(ch) == IF IsUpperA(ch) THEN ch + 32 ELSE ch
ToUpperW(ch) == IF IsLowerA(ch) \/ IsLowerAXSet(ch) THEN ch - 32
                ELSE IF IsLowerUSet(ch) THEN ch + 1 ELSE ch
ToLowerW(ch) == IF IsUpperA(ch) \/ IsUpperAXSet(ch) THEN ch + 32
                ELSE IF IsUpperUSet(ch) THEN ch - 1 ELSE ch
CmpICh(a, b) == ToLowerA(a) - ToLowerA(b)
IsVowel(ch) == ToLowerW(ch) \in {97, 101, 105, 111, 117}

(* Digits.                                                                  *)
Radix2U(ch) == IF IsDigitA(ch) THEN ch - 48
               ELSE IF IsUpperA(ch) THEN ch - 55
               ELSE IF IsLowerA(ch) THEN ch - 87 ELSE k_uRadixMax + 1
IsDigitRadix(ch, radix) == Radix2U(ch) < radix
U2Radix(val, radix) == IF val >= radix THEN Question
                       ELSE IF val < 10 THEN 48 + val ELSE 55 + val
U2Hex(val) == IF val <= 9 THEN 48 + val ELSE IF val <= 15 THEN 55 + val ELSE Question
Hex2U(ch) == IF IsDigitA(ch) THEN ch - 48
             ELSE IF ch \in 65..70 THEN ch - 55
             ELSE IF ch \in 97..102 THEN ch - 87 ELSE 16
IsDigitF(ch) == IsDigitA(ch) \/ ch \in {46, 101, 69, 45, 43}

(* The character at a place of a C string, counted from 0.                  *)
Ch(text, i) == IF i < Len(text) THEN text[i + 1] ELSE 0
From(text, i) == SubSeq(text, i + 1, Len(text))
Slice(text, i, j) == SubSeq(text, i + 1, j)       \* from i up to before j
-----------------------------------------------------------------------------

(* The length of the head of a text whose characters all pass a test.       *)
HeadLen(text, Passes(_)) ==
  Min({i \in 0..Len(text) : i = Len(text) \/ ~Passes(Ch(text, i))})
GetNonWhitespaceN(text) == HeadLen(text, IsSpace)

ValueOf(digits, radix) ==
  FoldLeft(LAMBDA val, ch : val * radix + Radix2U(ch), 0, digits)

(* toUL: the value and how many characters it took.  A radix below 2 lets   *)
(* the text choose: a leading 0 means hexadecimal, with or without an x.    *)
DigitsAt(text, start, base) ==
  LET n == HeadLen(From(text, start), LAMBDA ch : Radix2U(ch) < base)
  IN [val |-> ValueOf(Slice(text, start, start + n), base), end |-> start + n]
toUL(text, radix) ==
  LET flexible == radix < k_uRadixMin
      start == GetNonWhitespaceN(text)
  IN IF Ch(text, start) # 48 THEN DigitsAt(text, start, IF flexible THEN 10 ELSE radix)
     ELSE IF Ch(text, start + 1) \in {88, 120} THEN DigitsAt(text, start + 2, 16)
     ELSE IF flexible THEN DigitsAt(text, start + 1, 16) ELSE DigitsAt(text, start, radix)

toIL(text, radix) ==
  LET start == GetNonWhitespaceN(text)
      read == toUL(From(text, start + 1), radix)
  IN IF Ch(text, start) = 45
     THEN [val |-> -read.val, end |-> start + 1 + read.end]
     ELSE toUL(text, radix)

(* The digits of a number, as many as there is room for: the high ones are  *)
(* the ones that are lost.                                                  *)
RECURSIVE ULtoARev(_, _, _)
ULtoARev(val, room, radix) ==
  IF room = 0 THEN <<>>
  ELSE (IF val < radix THEN <<>> ELSE ULtoARev(val \div radix, room - 1, radix))
         \o <<U2Radix(val % radix, radix)>>

(* CopyLen: a copy into size characters, one of them for the end.           *)
CopyLen(text, size) == IF size <= 0 THEN <<>> ELSE Slice(text, 0, Min({size - 1, Len(text)}))

(* The 0 that leads hexadecimal digits is put before digits that fill all   *)
(* but the last place, which the end needs: the last digit is lost.         *)
k_LEN_MAX_DIGITS_INT == 64
ULtoA(val, size, radix) ==
  LET digits == ULtoARev(val, k_LEN_MAX_DIGITS_INT + 1, radix)
      max == Min({size, k_LEN_MAX_DIGITS_INT + 1})
      zero == IF radix = 16 /\ val # 0 /\ Len(digits) < max THEN <<48>> ELSE <<>>
  IN CopyLen(zero \o digits, max)
(* What is written, and the length that is returned: it leaves out the sign.*)
ILtoA(val, size, radix) ==
  LET digits == ULtoARev(IF val < 0 THEN -val ELSE val, k_LEN_MAX_DIGITS_INT + 1, radix)
  IN IF size <= 0 THEN <<>>
     ELSE IF val < 0 THEN <<45>> \o CopyLen(digits, size - 1) ELSE CopyLen(digits, size)
ILtoALen(val, size, radix) == Len(ILtoA(val, size, radix)) - (IF val < 0 THEN 1 ELSE 0)
(* StrArg: a number as a text of its own, of the length that was returned.  *)
StrArgInt(val) ==
  LET text == ILtoA(val, k_LEN_MAX_DIGITS_INT + 1, 10)
  IN Slice(text, 0, ILtoALen(val, k_LEN_MAX_DIGITS_INT + 1, 10))
StrArgUInt(val, radix) == ULtoA(val, k_LEN_MAX_DIGITS_INT + 1, radix)

(* GetNumberString: the head of a wide text that may be a number; an x      *)
(* behind a 0 turns the rest hexadecimal.                                   *)
GetNumberString(text, radix) ==
  LET hexAt == {i \in 1..Len(text) : Ch(text, i) = 120 /\ Ch(text, i - 1) = 48}
      Base(i) == IF \E k \in hexAt : k < i THEN 16 ELSE radix
      Fits(i) == IF radix = 0 THEN Ch(text, i) > k_Space /\ Ch(text, i) < k_ASCII
                 ELSE \/ i \in hexAt
                      \/ i = 0 /\ Ch(text, i) = 45 /\ radix = 10
                      \/ IsDigitRadix(Ch(text, i), Base(i))
  IN Slice(text, 0, Min({i \in 0..Len(text) : i = Len(text) \/ ~Fits(i)}))

(* ToValArray: numbers with commas between them, up to max of them.         *)
RECURSIVE ToValArray(_, _)
ToValArray(text, max) ==
  LET start == GetNonWhitespaceN(text)
      here == From(text, start)
      read == toIL(here, 10)
      rest == From(here, read.end)
      behind == From(rest, GetNonWhitespaceN(rest))
  IN IF max = 0 \/ here = <<>> THEN <<>>
     ELSE <<read.val>> \o (IF read.end = 0 \/ Ch(behind, 0) # 44 THEN <<>>
                           ELSE ToValArray(Tail(behind), max - 1))

(* ConvertToCSV writes while there is room for one more byte and a comma.   *)
RECURSIVE ConvertToCSV(_, _, _)
ConvertToCSV(bytes, size, text) ==
  LET comma == IF text = <<>> THEN text ELSE Append(text, 44)
      digits == ULtoA(bytes[1], size - 1 - Len(comma), 10)
  IN IF bytes = <<>> \/ size - 1 - Len(text) < 6 THEN text
     ELSE ConvertToCSV(Tail(bytes), size, comma \o digits)
=============================================================================
