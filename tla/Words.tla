-------------------------------- MODULE Words ---------------------------------
(***************************************************************************)
(* Words of W bits: cBits, the order of their bytes (cValT), cUInt64 both as*)
(* a native word and as the pair of halves of systems that have none, random*)
(* numbers in a range, and characters as UTF-8.                             *)
(* The algorithms do not depend on W; bit numbers count from 0.             *)
(***************************************************************************)
EXTENDS Integers, Sequences, FiniteSets, Bitwise, Folds, FiniteSetsExt, SequencesExt

(* The places of the bits of a word that are set.                           *)
Ones(val, w) == {b \in 0..(w - 1) : (val \div 2^b) % 2 = 1}
WordOf(bits) == MapThenSumSet(LAMBDA b : 2^b, bits)

Mask1(bit) == 2^bit
MaskLT(bit) == Mask1(bit) - 1
IsMask1(val) == val # 0 /\ (val & (val - 1)) = 0
HasAny(val, mask) == (val & mask) # 0
IsSet(val, bit) == HasAny(val, Mask1(bit))
SetBit(val, bit) == val | Mask1(bit)
ClearBit(val, bit) == val & (val - (val & Mask1(bit)))
SetMask(val, mask) == val | mask
ClearMask(val, mask) == val - (val & mask)

Highest1Bit(val, w) == IF val = 0 THEN 0 ELSE Max(Ones(val, w)) + 1
(* The loop counts the bits from 1 and does not end for 0; the instruction  *)
(* that stands in for it at 32 and 64 bits counts them from 0.              *)
Lowest1Bit(val, w) == Min(Ones(val, w)) + 1
Lowest1BitBuiltin(val, w) == IF val = 0 THEN 0 ELSE Min(Ones(val, w))
RECURSIVE Count1Bits(_)
Count1Bits(val) == IF val = 0 THEN 0 ELSE 1 + Count1Bits(val & (val - 1))

Rotl(val, n, w) == ((val * 2^n) % 2^w) | (val \div 2^(w - n))
Rotr(val, n, w) == (val \div 2^n) | ((val * 2^(w - n)) % 2^w)
(* Reverse starts from the value itself, all of which but the lowest bit is *)
(* shifted out on the way.                                                  *)
RECURSIVE ReverseFrom(_, _, _, _)
ReverseFrom(temp, val, i, w) ==
  IF i = 0 THEN temp | (val % 2)
  ELSE ReverseFrom(((temp | (val % 2)) * 2) % 2^w, val \div 2, i - 1, w)
ReverseBits(val, w) == ReverseFrom(val, val, w - 1, w)
(* At 32 bits: neighbours change places, then pairs, ... then halves.       *)
Swap(val, n, w) ==
  WordOf({IF (b \div n) % 2 = 0 THEN b + n ELSE b - n : b \in Ones(val, w)})
RECURSIVE SwapUpTo(_, _, _)
SwapUpTo(val, n, w) == IF n = w THEN val ELSE SwapUpTo(Swap(val, n, w), 2 * n, w)
ReverseSwap(val, w) == SwapUpTo(val, 1, w)
ReverseBytes(val, w) == SwapUpTo(val, 8, w)

-----------------------------------------------------------------------------
(* Bytes of a value in the order of the network, and back.                  *)
SetHtoN3(val) == <<(val \div 65536) % 256, (val \div 256) % 256, val % 256>>
GetNtoH3(bytes) == bytes[1] * 65536 + bytes[2] * 256 + bytes[3]
GetLE(bytes) == FoldRight(LAMBDA byte, val : val * 256 + byte, bytes, 0)
SetLE(val, n) == [i \in 1..n |-> (val \div 256^(i - 1)) % 256]
GetNtoH(bytes) == ReverseBytes(GetLE(bytes), 8 * Len(bytes))
SetHtoN(val, n) == SetLE(ReverseBytes(val, 8 * n), n)

-----------------------------------------------------------------------------
(* cUInt64 as a pair of halves of w bits each.                              *)
Pair(val, w) == [lo |-> val % 2^w, hi |-> val \div 2^w]
ValOf(x, w) == x.hi * 2^w + x.lo
IsZero(x) == x.lo = 0 /\ x.hi = 0
IsOdd(x) == x.lo % 2 = 1
PairIsSet(x, bit, w) == IF bit < w THEN IsSet(x.lo, bit) ELSE IsSet(x.hi, bit - w)
PairSetBit(x, bit, w) ==
  IF bit < w THEN [x EXCEPT !.lo = SetBit(@, bit)] ELSE [x EXCEPT !.hi = SetBit(@, bit - w)]
Less(x, y) == IF x.hi = y.hi THEN x.lo < y.lo ELSE x.hi < y.hi
Greater(x, y) == Less(y, x)
LessEqual(x, y) == IF x.hi = y.hi THEN x.lo <= y.lo ELSE x.hi < y.hi
Increment(x, w) ==
  LET lo == (x.lo + 1) % 2^w
  IN [lo |-> lo, hi |-> IF lo < x.lo THEN (x.hi + 1) % 2^w ELSE x.hi]
Decrement(x, w) ==
  LET lo == (x.lo - 1) % 2^w
  IN [lo |-> lo, hi |-> IF lo > x.lo THEN (x.hi - 1) % 2^w ELSE x.hi]
AddNoCarry(x, y, w) == [lo |-> (x.lo + y.lo) % 2^w, hi |-> (x.hi + y.hi) % 2^w]
Add(x, y, w) ==
  LET lo == (x.lo + y.lo) % 2^w
      carry == IF lo < y.lo THEN 1 ELSE 0
  IN [lo |-> lo, hi |-> (x.hi + carry + y.hi) % 2^w]
BitOr(x, y) == [lo |-> x.lo | y.lo, hi |-> x.hi | y.hi]
BitAnd(x, y) == [lo |-> x.lo & y.lo, hi |-> x.hi & y.hi]
BitXor(x, y) == [lo |-> x.lo ^^ y.lo, hi |-> x.hi ^^ y.hi]
ShiftLeft(x, n, w) ==
  IF n < w THEN [hi |-> ((x.hi * 2^n) % 2^w) | (x.lo \div 2^(w - n)), lo |-> (x.lo * 2^n) % 2^w]
  ELSE [hi |-> (x.lo * 2^(n - w)) % 2^w, lo |-> 0]
ShiftRight(x, n, w) ==
  IF n < w THEN [lo |-> (x.lo \div 2^n) | ((x.hi * 2^(w - n)) % 2^w), hi |-> x.hi \div 2^n]
  ELSE [lo |-> x.hi \div 2^(n - w), hi |-> 0]
PairHighest1Bit(x, w) ==
  IF x.hi # 0 THEN Highest1Bit(x.hi, w) + w ELSE Highest1Bit(x.lo, w)

(* cUInt64 as a native word of w bits.  Divide goes through the dividend bit*)
(* by bit.                                                                  *)
RECURSIVE DivideFrom(_, _, _, _, _, _)
DivideFrom(dividend, divisor, bit, quotient, remainder, w) ==
  LET r == ((remainder * 2) % 2^w) | ((dividend \div 2^bit) % 2)
      q == (quotient * 2) % 2^w
  IN IF bit < 0 THEN [quotient |-> quotient, remainder |-> remainder]
     ELSE IF divisor <= r THEN DivideFrom(dividend, divisor, bit - 1, q | 1, r - divisor, w)
     ELSE DivideFrom(dividend, divisor, bit - 1, q, r, w)
Divide(dividend, divisor, w) ==
  IF dividend < divisor THEN [quotient |-> 0, remainder |-> dividend]
  ELSE DivideFrom(dividend, divisor, w - 1, 0, 0, w)

(* a x - b y = g, the greatest common divisor.                              *)
RECURSIVE EuclideanAlgorithm(_, _, _)
EuclideanAlgorithm(x, y, w) ==
  LET d == Divide(y, x, w)
      inner == EuclideanAlgorithm(x, d.remainder, w)
      turned == EuclideanAlgorithm(y, x, w)
  IN IF x > y THEN [a |-> (y - turned.b) % 2^w, b |-> (x - turned.a) % 2^w, g |-> turned.g]
     ELSE IF d.remainder = 0 THEN [a |-> 1, b |-> 0, g |-> x]
     ELSE [a |-> (inner.b * d.quotient + inner.a) % 2^w, b |-> inner.b, g |-> inner.g]

(* Squares and products are taken before the modulus, and wrap.             *)
RECURSIVE PowerFrom(_, _, _, _, _, _, _)
PowerFrom(val, base, exponent, modulus, bit, one, w) ==
  LET square == IF one THEN val ELSE ((val * val) % 2^w) % modulus
      isSet == IsSet(exponent, bit)
      next == IF isSet THEN ((square * base) % 2^w) % modulus ELSE square
  IN IF bit < 0 THEN val
     ELSE PowerFrom(next, base, exponent, modulus, bit - 1, one /\ ~isSet, w)
SetPowerMod(base, exponent, modulus, w) ==
  PowerFrom(1, base, exponent, modulus, w - 1, TRUE, w)

(* A random number of one bit less than the candidate shows that it is not  *)
(* prime, or does not.                                                      *)
IsWitness(n, x, w) == x # 0 /\ SetPowerMod(x, n - 1, n, w) # 1
Noise(n, w) == 0..MaskLT(Highest1Bit(n, w) - 1)
MayBePrime(n, w) ==
  IF n % 2 = 0 THEN n = 2 ELSE n # 1 /\ \E x \in Noise(n, w) : ~IsWitness(n, x, w)
MustBePrime(n, w) ==
  IF n % 2 = 0 THEN n = 2 ELSE n # 1 /\ \A x \in Noise(n, w) : ~IsWitness(n, x, w)

-----------------------------------------------------------------------------
(* Random numbers, from a word of noise.                                    *)
GetRandUX(noise, scale) == IF scale <= 1 THEN 0 ELSE noise % scale
GetRandRange(noise, lo, hi, w) ==
  IF hi <= lo THEN lo ELSE (lo + GetRandUX(noise, (hi - lo + 1) % 2^w)) % 2^w
(* The generator, on words of 16 bits (the constants of 32 are cut off): the*)
(* low bits of a step are the poor ones, so the bytes change places.        *)
k_Seed1 == 18506
Multiplier == 20077
get_RandUns(seed) == ReverseBytes((seed * Multiplier + 12345) % 2^16, 16)
InitSeed(bytes) ==
  GetLE([i \in 1..2 |-> IF i \in DOMAIN bytes THEN bytes[i] ELSE SetLE(k_Seed1, 2)[i]])
RECURSIVE NoiseFrom(_, _)
NoiseFrom(word, size) ==
  IF size <= 0 THEN <<>>
  ELSE SubSeq(SetLE(word, 2), 1, Min({size, 2})) \o NoiseFrom(get_RandUns(word), size - 2)
GetNoise(seed, size) == NoiseFrom(get_RandUns(seed), size)
(* A block of noise is started again once it has been read, and the byte    *)
(* behind it.                                                               *)
Behind == -1
CopyRepeat(block, start, size) ==
  LET read == Append(block, Behind)
      At(i) == (start + i) % Len(read)
  IN [out |-> [i \in 1..size |-> read[At(i - 1) + 1]], next |-> At(size)]

-----------------------------------------------------------------------------
(* UTF-8.  The byte order mark has three forms.                             *)
IsUTFLead(bytes) == bytes[1] = 239 /\ SubSeq(bytes, 2, 3) \in {<<187, 191>>, <<191, 190>>, <<191, 191>>}
UTF8SizeChar(ch) ==
  IF ch < 128 THEN 1 ELSE IF ch < Mask1(11) THEN 2 ELSE IF ch < Mask1(16) THEN 3 ELSE 4
UTF8StartBits(size) == IF size <= 1 THEN 0 ELSE 7 - size
k_StrLen_UNK == -1
UTF8SizeChar1(byte) ==
  IF byte < 128 THEN 1 ELSE IF byte \div 32 = 6 THEN 2
  ELSE IF byte \div 16 = 14 THEN 3 ELSE IF byte \div 8 = 30 THEN 4 ELSE k_StrLen_UNK

(* One character and how many bytes it takes: 0 when they are not all there.*)
UTF8toUNICODEChar(bytes) ==
  LET size == UTF8SizeChar1(bytes[1])
      start == bytes[1] & MaskLT(UTF8StartBits(size))
  IN IF size = 1 THEN [n |-> 1, ch |-> bytes[1]]
     ELSE IF size <= 0 \/ size > Len(bytes) THEN [n |-> 0, ch |-> 0]
     ELSE [n |-> size, ch |-> FoldLeft(LAMBDA ch, byte : ch * 64 + (byte % 64),
                                       start, SubSeq(bytes, 2, size))]
UNICODEtoUTF8Char(ch, room) ==
  LET size == UTF8SizeChar(ch)
      Rest(i) == 128 | ((ch \div 64^(size - i)) % 64)
  IN IF size = 1 THEN <<ch>>
     ELSE IF size > room THEN <<>>
     ELSE [i \in 1..size |->
             IF i > 1 THEN Rest(i)
             ELSE ((254 * 2^UTF8StartBits(size)) % 256) | (ch \div 64^(size - 1))]

RECURSIVE UTF8toUNICODELen(_)
UTF8toUNICODELen(bytes) ==
  LET size == UTF8SizeChar1(bytes[1])
      rest == UTF8toUNICODELen(SubSeq(bytes, size + 1, Len(bytes)))
  IN IF bytes = <<>> THEN 0
     ELSE IF size <= 0 \/ size > Len(bytes) \/ rest < 0 THEN -1 ELSE 1 + rest
UNICODEtoUTF8Size(text) == FoldLeft(LAMBDA n, ch : n + UTF8SizeChar(ch), 0, text)

(* Up to size - 1 characters; a broken one ends the text.  The other way, a *)
(* character that does not fit is left out, and a shorter one behind it is  *)
(* still written.                                                           *)
RECURSIVE UTF8toUNICODE(_, _)
UTF8toUNICODE(bytes, size) ==
  LET one == UTF8toUNICODEChar(bytes)
  IN IF bytes = <<>> \/ size <= 1 THEN <<>>
     ELSE IF one.n = 0 THEN <<>>
     ELSE <<one.ch>> \o UTF8toUNICODE(SubSeq(bytes, one.n + 1, Len(bytes)), size - 1)
UNICODEtoUTF8(text, size) ==
  FoldLeft(LAMBDA bytes, ch : IF Len(bytes) >= size - 1 THEN bytes
                              ELSE bytes \o UNICODEtoUTF8Char(ch, size - 1 - Len(bytes)),
           <<>>, text)
(* StrArg2: a text in the other encoding, of the size that was counted.     *)
StrArgWide(bytes) == UTF8toUNICODE(bytes, UTF8toUNICODELen(bytes) + 1)
StrArgBytes(text) == UNICODEtoUTF8(text, UNICODEtoUTF8Size(text) + 1)
=============================================================================
