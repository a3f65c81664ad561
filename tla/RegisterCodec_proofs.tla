------------------------- MODULE RegisterCodec_proofs -------------------------
(***************************************************************************)
(* For every set of goals and every speed of the arm: what the two registers *)
(* hold of a goal; that a coordinate read in two halves is a position of the *)
(* arm unless a multiple of 65.536 was crossed; and that the correction of   *)
(* the low word never changes it.                                            *)
(***************************************************************************)
EXTENDS RegisterCodec, TLAPS

-----------------------------------------------------------------------------
(* Words *)

\* Conversion to uint16_t gives a word.
LEMMA Uint16Type == ASSUME NEW a \in Int PROVE uint16(a) \in Word
  BY DEF uint16, WORD, Word

\* Conversion to uint16_t forgets multiples of 65536.
LEMMA Uint16Shift == ASSUME NEW a \in Int PROVE uint16(a - WORD) = uint16(a)
  BY DEF uint16, WORD

\* A 32-bit integer is read back from its two words.
LEMMA DecodeSplit ==
  ASSUME NEW p \in Int, p \div WORD \in SignedWord
  PROVE  Decode(uint16(p), uint16(p \div WORD)) = p
  <1> DEFINE q == p \div WORD
  <1>0. q \in Int /\ -32768 <= q /\ q <= 32767
    BY DEF SignedWord
  <1>1. q \in Int /\ p = WORD * q + uint16(p) /\ uint16(p) \in Int
    BY DEF uint16, WORD
  <1>2. uint16(q) = IF q < 0 THEN q + WORD ELSE q
    BY <1>0, <1>1 DEF uint16, WORD
  <1>3. (IF uint16(q) > 32767 THEN uint16(q) - WORD ELSE uint16(q)) = q
    BY <1>0, <1>1, <1>2 DEF WORD
  <1> QED
    BY <1>1, <1>3 DEF Decode

\* The arithmetic of C stays in the integers.
LEMMA QuotType == ASSUME NEW a \in Int, NEW b \in Nat \ {0} PROVE Quot(a, b) \in Int
  BY DEF Quot

\* A remainder is an integer.
LEMMA RemType == ASSUME NEW a \in Int, NEW b \in Nat \ {0} PROVE Rem(a, b) \in Int
  <1>1. Quot(a, b) \in Int
    BY QuotType
  <1> QED
    BY <1>1 DEF Rem

\* A value is left alone, or one that is a hair off a thousandth is put onto it.
LEMMA RoundedIs ==
  ASSUME NEW x \in Int, NEW how \in Roundings
  PROVE  /\ Rounded(x, how) \in Int
         /\ \/ Rounded(x, how) = x
            \/ how = "lands" /\ x % FINE = 1 /\ Rounded(x, how) = x - 1
            \/ how = "lands" /\ x % FINE = FINE - 1 /\ Rounded(x, how) = x + 1
  BY DEF Rounded, FINE

\* Whole thousandths do not change what is rounded.
LEMMA RoundedShift ==
  ASSUME NEW x \in Int, NEW d \in Int, NEW how \in Roundings
  PROVE  Rounded(x + d * FINE, how) = Rounded(x, how) + d * FINE
  <1>1. (x + d * FINE) % FINE = x % FINE
    BY DEF FINE
  <1>2. (x + d * FINE + 1) \div FINE = ((x + 1) \div FINE) + d
    BY DEF FINE
  <1> QED
    BY <1>1, <1>2 DEF Rounded, FINE

\* The sum of a low word is a word.
LEMMA AddNumType ==
  ASSUME NEW low \in Int, NEW g \in Int, NEW how \in Roundings
  PROVE  AddNum(low, g, how) \in Word
  <1>1. Whole(g) \in Int
    BY QuotType DEF Whole, FINE
  <1>2. low * FINE + Num(g) \in Int
    BY <1>1 DEF Num, FINE
  <1>3. Quot(Rounded(low * FINE + Num(g), how), FINE) \in Int
    BY <1>2, RoundedIs, QuotType DEF FINE
  <1> QED
    BY <1>3, Uint16Type DEF AddNum

-----------------------------------------------------------------------------
(* The correction *)

\* Whatever the goal, the correction of a low word above 32767 changes nothing.
LEMMA Correction ==
  ASSUME NEW g \in Int, NEW how \in Roundings
  PROVE  LowPositive(g, how) = AddNum(uint16(Rem(Whole(g), WORD)), g, how)
  <1>1. Rem(Whole(g), WORD) \in Int
    BY QuotType, RemType DEF Whole, FINE, WORD
  <1>2. uint16(Rem(Whole(g), WORD) - WORD) = uint16(Rem(Whole(g), WORD))
    BY <1>1, Uint16Shift
  <1> QED
    BY <1>2 DEF LowPositive

-----------------------------------------------------------------------------
(* What the two words hold *)

\* From zero up both words are those of the thousandth below the rounded goal.
LEMMA PositiveWords ==
  ASSUME NEW g \in Nat, NEW how \in Roundings
  PROVE  LET t == Rounded(g, how) \div FINE IN
         /\ t \in Nat
         /\ Low(g, how) = uint16(t)
         /\ High(g, how) = uint16(t \div WORD)
  <1> DEFINE v == Rounded(g, how)
             t == v \div FINE
             w == Whole(g)
             n == Num(g)
  <1>1. v \in Nat /\ t \in Nat
    <2>1. g % FINE = 1 => g >= 1
      BY DEF FINE
    <2>2. v \in Int /\ v >= 0
      BY <2>1, RoundedIs
    <2> QED
      BY <2>2 DEF FINE
  <1>2. w \in Nat /\ n \in Nat /\ g = w * FINE + n
    BY DEF Whole, Num, Quot, FINE
  <1>3. High(g, how) = uint16(t \div WORD)
    <2>1. v \div (FINE * WORD) = t \div WORD
      BY <1>1 DEF FINE, WORD
    <2>2. High(g, how) = uint16(Quot(v, FINE * WORD))
      BY DEF High, HighPositive
    <2> QED
      BY <1>1, <2>1, <2>2 DEF Quot
  <1>4. Low(g, how) = AddNum(uint16(Rem(w, WORD)), g, how)
    BY Correction DEF Low
  <1>5. AddNum(uint16(Rem(w, WORD)), g, how) =
          uint16(Quot(Rounded(uint16(Rem(w, WORD)) * FINE + n, how), FINE))
    BY DEF AddNum
  <1> HIDE DEF v, w, n
  <1>6. PICK j \in Nat, r \in Word : w = WORD * j + r /\ Rem(w, WORD) = r /\ uint16(r) = r
    <2>1. w \div WORD \in Nat /\ w - WORD * (w \div WORD) \in Word
      BY <1>2 DEF WORD, Word
    <2>2. \A x \in Word : uint16(x) = x
      BY DEF uint16, WORD, Word
    <2> QED
      BY <1>2, <2>1, <2>2 DEF Rem, Quot, WORD
  <1>7. Rounded(r * FINE + n, how) = v + (-(WORD * j)) * FINE
    <2>1. r * FINE + n = g + (-(WORD * j)) * FINE /\ -(WORD * j) \in Int
      BY <1>2, <1>6 DEF FINE, WORD, Word
    <2> QED
      BY <2>1, RoundedShift DEF v
  <1>8. v + (-(WORD * j)) * FINE >= 0
    <2>1. r * FINE + n \in Nat
      BY <1>2, <1>6 DEF FINE, WORD, Word
    <2>2. (r * FINE + n) % FINE = 1 => r * FINE + n >= 1
      BY <2>1 DEF FINE
    <2>3. Rounded(r * FINE + n, how) >= 0
      BY <2>1, <2>2, RoundedIs
    <2> QED
      BY <1>7, <2>3
  <1>9. Quot(v + (-(WORD * j)) * FINE, FINE) = t - WORD * j
    <2>1. (v + (-(WORD * j)) * FINE) \div FINE = t - WORD * j
      BY <1>1, <1>6 DEF FINE, WORD
    <2>2. v + (-(WORD * j)) * FINE \in Int
      BY <1>1, <1>6 DEF FINE, WORD
    <2> QED
      BY <1>8, <2>1, <2>2 DEF Quot
  <1>10. uint16(t - WORD * j) = uint16(t)
    BY <1>1, <1>6 DEF uint16, WORD
  <1>11. Low(g, how) = uint16(t)
    BY <1>4, <1>5, <1>6, <1>7, <1>9, <1>10
  <1> QED
    BY <1>1, <1>3, <1>11 DEF v

\* What may be written of a goal g as p thousandths.
AsCommanded(g, p) ==
  \/ (Lapse(g) => LapseEnds(g)) /\ Abs(p * FINE - g) < FINE
  \/ Lapse(g) /\ p = -Base(g) - WORD
  \/ Hair(g) /\ g > 0 /\ p = Base(g) + 2 * WORD - 1
  \/ Hair(g) /\ g < 0 /\ p = -Base(g) - 2 * WORD

\* A coordinate from zero up is written as the thousandth it is rounded to, or a
\* word above it when the high word alone is rounded up.
LEMMA PositiveAsCommanded ==
  ASSUME NEW g \in Nat, (g + 1) \div (FINE * WORD) <= 32767,
         NEW sum \in Roundings, NEW product \in Roundings, sum = "lands" => product = "lands"
  PROVE  AsCommanded(g, Decode(Low(g, sum), High(g, product)))
  <1> DEFINE t == g \div FINE
             x == Rounded(g, sum) \div FINE
             y == Rounded(g, product) \div FINE
             p == Decode(Low(g, sum), High(g, product))
  <1>1. p = Decode(uint16(x), uint16(y \div WORD))
    BY PositiveWords
  <1>2. /\ t \in Nat
        /\ \/ x = t /\ y = t
           \/ x = t + 1 /\ y = t + 1 /\ g % FINE = FINE - 1
           \/ x = t /\ y = t + 1 /\ g % FINE = FINE - 1
    <2>1. ASSUME NEW how \in Roundings
          PROVE  \/ Rounded(g, how) \div FINE = t
                 \/ how = "lands" /\ g % FINE = FINE - 1 /\ Rounded(g, how) \div FINE = t + 1
      <3>1. g % FINE = 1 => (g - 1) \div FINE = t
        BY DEF FINE
      <3>2. g % FINE = FINE - 1 => (g + 1) \div FINE = t + 1
        BY DEF FINE
      <3> QED
        BY <3>1, <3>2, RoundedIs
    <2>2. \/ x = t
          \/ sum = "lands" /\ g % FINE = FINE - 1 /\ x = t + 1
      BY <2>1
    <2>3. \/ y = t
          \/ product = "lands" /\ g % FINE = FINE - 1 /\ y = t + 1
      BY <2>1
    <2>4. sum = "lands" /\ g % FINE = FINE - 1 => y = t + 1
      BY DEF Rounded, FINE
    <2>5. t \in Nat
      BY DEF FINE
    <2> QED
      BY <2>2, <2>3, <2>4, <2>5
  <1>3. /\ t \div WORD <= 32767
        /\ g % FINE = FINE - 1 => (t + 1) \div WORD <= 32767
    BY DEF FINE, WORD
  <1>4. ~Lapse(g)
    BY DEF Lapse
  <1> HIDE DEF x, y, p
  <1>5. CASE x = t /\ y = t
    <2>1. t \div WORD \in SignedWord
      BY <1>2, <1>3 DEF WORD, SignedWord
    <2>2. p = t
      BY <1>1, <1>2, <1>5, <2>1, DecodeSplit
    <2>3. Abs(t * FINE - g) < FINE
      BY DEF Abs, FINE
    <2> QED
      BY <1>4, <2>2, <2>3 DEF AsCommanded, p
  <1>6. CASE x = t + 1 /\ y = t + 1 /\ g % FINE = FINE - 1
    <2>1. (t + 1) \div WORD \in SignedWord
      BY <1>2, <1>3, <1>6 DEF WORD, SignedWord
    <2>2. p = t + 1
      BY <1>1, <1>2, <1>6, <2>1, DecodeSplit
    <2>3. Abs((t + 1) * FINE - g) < FINE
      BY <1>6 DEF Abs, FINE
    <2> QED
      BY <1>4, <2>2, <2>3 DEF AsCommanded, p
  <1>7. CASE x = t /\ y = t + 1 /\ g % FINE = FINE - 1
    <2>1. CASE (t + 1) % WORD # 0
      <3>1. (t + 1) \div WORD = t \div WORD
        BY <1>2, <2>1 DEF WORD
      <3>2. t \div WORD \in SignedWord
        BY <1>2, <1>3 DEF WORD, SignedWord
      <3>3. p = t
        BY <1>1, <1>2, <1>7, <3>1, <3>2, DecodeSplit
      <3>4. Abs(t * FINE - g) < FINE
        BY DEF Abs, FINE
      <3> QED
        BY <1>4, <3>3, <3>4 DEF AsCommanded, p
    <2>2. CASE (t + 1) % WORD = 0
      <3>1. /\ (t + WORD) \div WORD = (t + 1) \div WORD
            /\ uint16(t + WORD) = uint16(t)
        BY <1>2, <2>2 DEF WORD, uint16
      <3>2. (t + WORD) \div WORD \in SignedWord
        BY <1>2, <1>3, <1>7, <3>1 DEF WORD, SignedWord
      <3>3. p = t + WORD
        BY <1>1, <1>2, <1>7, <3>1, <3>2, DecodeSplit DEF WORD
      <3>4. g % (FINE * WORD) = FINE * WORD - 1 /\ g > 0
        BY <1>7, <2>2 DEF FINE, WORD
      <3>5. t = (g \div (FINE * WORD)) * WORD + WORD - 1
        BY <1>7, <2>2 DEF FINE, WORD
      <3>6. Hair(g) /\ p = Base(g) + 2 * WORD - 1
        BY <3>3, <3>4, <3>5 DEF Hair, Base, Abs, WORD, FINE
      <3> QED
        BY <3>4, <3>6 DEF AsCommanded, p
    <2> QED
      BY <2>1, <2>2
  <1> QED
    BY <1>2, <1>5, <1>6, <1>7

\* A coordinate below zero stays below it or is rounded to it.
LEMMA RoundedBelowZero ==
  ASSUME NEW a \in Nat, a > 0, NEW how \in Roundings
  PROVE  \E b \in Nat :
           /\ Rounded(-a, how) = -b
           /\ \/ b = a
              \/ how = "lands" /\ a % FINE = 1 /\ b = a - 1
              \/ how = "lands" /\ a % FINE = FINE - 1 /\ b = a + 1
  <1>1. (-a) % FINE = 1 <=> a % FINE = FINE - 1
    BY DEF FINE
  <1>2. (-a) % FINE = FINE - 1 <=> a % FINE = 1
    BY DEF FINE
  <1>3. -a \in Int
    OBVIOUS
  <1>4. \/ Rounded(-a, how) = -a
        \/ how = "lands" /\ a % FINE = FINE - 1 /\ Rounded(-a, how) = (-a) - 1
        \/ how = "lands" /\ a % FINE = 1 /\ Rounded(-a, how) = (-a) + 1
    BY <1>1, <1>2, <1>3, RoundedIs
  <1>5. (-a) - 1 = -(a + 1) /\ (-a) + 1 = -(a - 1) /\ a + 1 \in Nat /\ a - 1 \in Nat
    OBVIOUS
  <1> QED
    BY <1>4, <1>5

\* The quotient of a division by the thousandth.
LEMMA QuotientOf ==
  ASSUME NEW z \in Int, NEW y \in Nat, y < FINE PROVE (z * FINE + y) \div FINE = z
  BY DEF FINE

\* The low word of a coordinate rounded to -b is that of its thousandth t towards
\* zero or that of the one below.
LEMMA NegativeLow ==
  ASSUME NEW a \in Nat, a > 0, NEW how \in Roundings,
         NEW b \in Nat, Rounded(-a, how) = -b, b <= a + 1
  PROVE  LET t == b \div FINE IN
         \/ /\ Low(-a, how) = uint16(-t)
            /\ t % WORD = WORD - 1 => b % FINE = 0
         \/ Low(-a, how) = uint16(-t - 1) /\ b % FINE # 0 /\ t % WORD # 0
  <1> DEFINE t == b \div FINE
             w == (a \div (1000 * FINE)) * 1000
             o == a - w * FINE
             n == b - w * FINE
             s == uint16(WORD + Rem(-w, WORD))
  <1>0. b >= a - 1
    BY RoundedIs
  <1>1. w \in Nat /\ o \in Nat /\ o < 1000 * FINE
    BY DEF FINE
  <1>2. Whole(-a) = -w /\ Num(-a) = -o
    BY DEF Whole, Num, Quot, FINE
  <1>3. n \in Nat
    <2>1. CASE b >= a
      BY <1>1, <2>1 DEF FINE
    <2>2. CASE b = a - 1
      <3>1. Rounded(-a, how) = (-a) + 1
        BY <2>2
      <3>2. a % FINE = 1
        <4>1. (-a) % FINE = FINE - 1
          BY <3>1, RoundedIs
        <4> QED
          BY <4>1 DEF FINE
      <3>3. o > 0
        BY <3>2 DEF FINE
      <3> QED
        BY <1>1, <2>2, <3>3 DEF FINE
    <2> QED
      BY <1>0, <2>1, <2>2
  <1>4. n <= 1000 * FINE /\ t \in Nat /\ t = w + (n \div FINE) /\ n % FINE = b % FINE
    <2>1. n <= o + 1
      BY <1>1 DEF FINE
    <2>2. t \in Nat /\ t = w + (n \div FINE) /\ n % FINE = b % FINE
      BY <1>1, <1>3 DEF FINE
    <2> QED
      BY <1>1, <1>3, <2>1, <2>2 DEF FINE
  <1>5. n = b - w * FINE /\ o = a - w * FINE
    OBVIOUS
  <1> HIDE DEF t, w, o, n
  <1>6. PICK j \in Nat, r \in Word : w = WORD * j + r /\ Rem(-w, WORD) = -r
    <2>1. w \div WORD \in Nat /\ w - WORD * (w \div WORD) \in Word
      BY <1>1 DEF WORD, Word
    <2>2. Quot(-w, WORD) = -(w \div WORD)
      BY <1>1 DEF Quot, WORD
    <2> QED
      BY <1>1, <2>1, <2>2 DEF Rem, WORD
  <1>7. PICK m \in Int : s = WORD * m - w /\ s \in Word
    <2>1. CASE r = 0
      BY <1>1, <1>6, <2>1 DEF uint16, WORD, Word
    <2>2. CASE r # 0
      <3>1. uint16(WORD - r) = WORD - r /\ WORD - r \in Word
        BY <2>2 DEF uint16, WORD, Word
      <3>2. WORD + (-r) = WORD - r /\ WORD - r = WORD * (j + 1) - w
        BY <1>1, <1>6 DEF WORD, Word
      <3>3. s = WORD * (j + 1) - w /\ s \in Word
        BY <1>6, <3>1, <3>2
      <3> QED
        BY <3>3
    <2> QED
      BY <2>1, <2>2
  <1>int. s \in Int
    BY <1>7 DEF Word
  <1>8. Low(-a, how) = uint16(Quot(s * FINE - n, FINE))
    <2>1. Low(-a, how) = AddNum(s, -a, how)
      BY <1>1, <1>2, <1>6 DEF Low, LowNegative, WORD, Word
    <2>2. /\ s * FINE + (-o) = (-a) + (s + w) * FINE
          /\ (-b) + (s + w) * FINE = s * FINE - n
      BY <1>1, <1>3, <1>5, <1>int DEF FINE
    <2>3. -a \in Int /\ s + w \in Int
      BY <1>1, <1>int
    <2>4. Rounded((-a) + (s + w) * FINE, how) = Rounded(-a, how) + (s + w) * FINE
      BY <2>3, RoundedShift
    <2>5. Rounded(s * FINE + (-o), how) = s * FINE - n
      BY <2>2, <2>4
    <2> QED
      BY <1>2, <2>1, <2>5 DEF AddNum
  <1> HIDE DEF s
  <1>9. PICK f \in Nat, e \in Nat :
          n = f * FINE + e /\ e < FINE /\ f = n \div FINE /\ e = n % FINE
    BY <1>3 DEF FINE
  <1>10. uint16(s - f) = uint16(-t) /\ uint16(s - f - 1) = uint16(-t - 1)
    BY <1>1, <1>4, <1>7, <1>9 DEF uint16, WORD, Word
  <1>11. f <= 1000 /\ t = w + f
    BY <1>4, <1>9 DEF FINE
  <1>12. CASE s * FINE < n
    <2>1. Quot(s * FINE - n, FINE) = s - f
      <3>1. -(s * FINE - n) = (f - s) * FINE + e /\ f - s \in Int
        BY <1>9, <1>int DEF FINE
      <3>2. ((f - s) * FINE + e) \div FINE = f - s
        BY <1>9, QuotientOf, <3>1
      <3>3. s * FINE - n < 0
        BY <1>7, <1>9, <1>12 DEF FINE, Word
      <3>4. Quot(s * FINE - n, FINE) = -(f - s)
        BY <3>1, <3>2, <3>3 DEF Quot
      <3> QED
        BY <1>7, <1>9, <3>4 DEF Word
    <2>2. s <= f
      BY <1>7, <1>9, <1>12 DEF FINE, Word
    <2>3. t % WORD # WORD - 1
      <3>1. ASSUME t % WORD = WORD - 1 PROVE FALSE
        <4>1. PICK q \in Int : t = WORD * q + WORD - 1
          BY <1>4, <3>1 DEF WORD
        <4>2. s - f = WORD * (m - q - 1) + 1
          BY <1>1, <1>7, <1>9, <1>11, <4>1 DEF WORD, Word
        <4>3. -1000 <= s - f /\ s - f <= 0
          BY <1>7, <1>9, <1>11, <2>2 DEF Word
        <4> QED
          BY <1>7, <1>9, <4>2, <4>3 DEF WORD, Word
      <3> QED
        BY <3>1
    <2> QED
      BY <1>8, <1>10, <2>1, <2>3 DEF t
  <1>13. CASE s * FINE >= n /\ e = 0
    <2>1. Quot(s * FINE - n, FINE) = s - f
      BY <1>7, <1>9, <1>13 DEF Quot, FINE, Word
    <2>2. b % FINE = 0
      BY <1>4, <1>9, <1>13
    <2> QED
      BY <1>8, <1>10, <2>1, <2>2 DEF t
  <1>14. CASE s * FINE >= n /\ e # 0
    <2>1. Quot(s * FINE - n, FINE) = s - f - 1
      <3>1. s * FINE - n = (s - f - 1) * FINE + (FINE - e) /\ s - f - 1 \in Int
        BY <1>9, <1>int DEF FINE
      <3>2. ((s - f - 1) * FINE + (FINE - e)) \div FINE = s - f - 1
        <4>1. FINE - e \in Nat /\ FINE - e < FINE
          BY <1>9, <1>14 DEF FINE
        <4> QED
          BY QuotientOf, <3>1, <4>1
      <3>3. s * FINE - n >= 0 /\ s * FINE - n \in Int
        BY <1>7, <1>9, <1>14 DEF FINE, Word
      <3> QED
        BY <3>1, <3>2, <3>3 DEF Quot
    <2>2. s # f /\ f < 1000
      BY <1>4, <1>7, <1>9, <1>14 DEF FINE, Word
    <2>3. t % WORD # 0
      <3>1. ASSUME t % WORD = 0 PROVE FALSE
        <4>1. PICK q \in Int : t = WORD * q
          BY <1>4, <3>1 DEF WORD
        <4>2. s - f = WORD * (m - q)
          BY <1>1, <1>7, <1>9, <1>11, <4>1 DEF WORD, Word
        <4>3. -WORD < s - f /\ s - f < WORD
          BY <1>7, <1>9, <2>2 DEF WORD, Word
        <4> QED
          BY <1>7, <1>9, <2>2, <4>2, <4>3 DEF WORD, Word
      <3> QED
        BY <3>1
    <2>4. b % FINE # 0
      BY <1>4, <1>9, <1>14
    <2> QED
      BY <1>8, <1>10, <2>1, <2>3, <2>4 DEF t
  <1>15. s * FINE < n \/ s * FINE >= n
    BY <1>3, <1>int DEF FINE
  <1> QED
    BY <1>12, <1>13, <1>14, <1>15

\* What the low word of -x and a high word lowered by one are read as: -x, unless
\* it is a multiple of 65536.
LEMMA NegativeRead ==
  ASSUME NEW t \in Nat, t \div WORD <= 32767,
         NEW x \in {t, t + 1}, x # t => t % WORD # 0
  PROVE  Decode(uint16(-x), uint16(-1 - (t \div WORD))) =
           IF t % WORD = 0 THEN -(t \div WORD) * WORD - WORD ELSE -x
  <1> DEFINE k == t \div WORD
             r == t % WORD
  <1>1. k \in Nat /\ r \in Word /\ t = WORD * k + r /\ k <= 32767
    BY DEF WORD, Word
  <1> HIDE DEF k, r
  <1>2. -1 - k \in SignedWord
    BY <1>1 DEF SignedWord
  <1>3. CASE r = 0
    <2>1. x = t /\ t = WORD * k
      BY <1>1, <1>3 DEF r, WORD
    <2> DEFINE p == WORD * (-1 - k)
    <2>2. p \in Int /\ p \div WORD = -1 - k /\ uint16(-x) = uint16(p)
      BY <1>1, <2>1 DEF uint16, WORD
    <2>3. Decode(uint16(p), uint16(p \div WORD)) = p
      BY <1>2, <2>2, DecodeSplit
    <2>4. p = -k * WORD - WORD
      BY <1>1 DEF WORD
    <2> QED
      BY <1>3, <2>2, <2>3, <2>4 DEF k, r
  <1>4. CASE r # 0
    <2>1. -x \in Int /\ (-x) \div WORD = -1 - k
      BY <1>1, <1>4 DEF WORD, Word
    <2>2. Decode(uint16(-x), uint16((-x) \div WORD)) = -x
      BY <1>2, <2>1, DecodeSplit
    <2> QED
      BY <1>4, <2>1, <2>2 DEF k, r
  <1> QED
    BY <1>3, <1>4

\* A coordinate below zero whose halves are rounded alike, to -b.
LEMMA RoundedAlike ==
  ASSUME NEW a \in Nat, a > 0, (a + 1) \div (FINE * WORD) <= 32767,
         NEW b \in Nat, NEW x \in Nat,
         b = a \/ (a % FINE = 1 /\ b = a - 1) \/ (a % FINE = FINE - 1 /\ b = a + 1),
         x = b \div FINE \/ (x = (b \div FINE) + 1 /\ b % FINE # 0)
  PROVE  LET t == b \div FINE IN
         AsCommanded(-a, IF t % WORD = 0 THEN -(t \div WORD) * WORD - WORD ELSE -x)
  <1> DEFINE t == b \div FINE
             p == IF t % WORD = 0 THEN -(t \div WORD) * WORD - WORD ELSE -x
  <1>0. /\ t \in Nat /\ t = b \div FINE
        /\ p = IF t % WORD = 0 THEN -(t \div WORD) * WORD - WORD ELSE -x
        /\ x = t \/ (x = t + 1 /\ b % FINE # 0)
    BY DEF FINE
  <1> SUFFICES AsCommanded(-a, p)
    OBVIOUS
  <1> HIDE DEF t, p
  <1> DEFINE k == a \div (FINE * WORD)
             d == a % (FINE * WORD)
  <1>1. /\ k \in Nat /\ d \in Nat /\ a = FINE * WORD * k + d /\ d < FINE * WORD
        /\ a % FINE = d % FINE
    BY DEF FINE, WORD
  <1>2. Abs(-a) = a /\ Base(-a) = k * WORD
    BY DEF Abs, Base
  <1>3. /\ Lapse(-a) <=> d < FINE
        /\ LapseEnds(-a) <=> d = FINE - 1
        /\ Hair(-a) <=> d = FINE * WORD - 1
    BY <1>2 DEF Lapse, LapseEnds, Hair
  <1>4. -a < 0 /\ \A y \in Int : Abs(y * FINE - (-a)) < FINE <=> -FINE < y * FINE + a /\ y * FINE + a < FINE
    BY DEF Abs, FINE
  <1> HIDE DEF k, d
  <1>5. CASE b = FINE * WORD * (k + 1)
    <2>1. d = FINE * WORD - 1
      BY <1>0, <1>1, <1>5 DEF FINE, WORD
    <2>2. t = WORD * (k + 1)
      BY <1>0, <1>1, <1>5 DEF FINE, WORD
    <2>3. t % WORD = 0 /\ t \div WORD = k + 1
      BY <1>0, <1>1, <2>2 DEF WORD
    <2>4. p = -Base(-a) - 2 * WORD
      BY <1>0, <1>1, <1>2, <2>3 DEF WORD
    <2> QED
      BY <1>3, <1>4, <2>1, <2>4 DEF AsCommanded
  <1>6. CASE b # FINE * WORD * (k + 1)
    <2>1. b < FINE * WORD * (k + 1) /\ b >= FINE * WORD * k
      BY <1>1, <1>6 DEF FINE, WORD
    <2>2. t \div WORD = k
      BY <1>0, <1>1, <2>1 DEF FINE, WORD
    <2>3. t % WORD = 0 <=> b < FINE * WORD * k + FINE
      BY <1>0, <1>1, <2>1 DEF FINE, WORD
    <2>4. CASE t % WORD = 0
      <3>1. d < FINE
        BY <1>1, <2>1, <2>3, <2>4 DEF FINE, WORD
      <3>2. p = -Base(-a) - WORD
        BY <1>0, <1>1, <1>2, <2>2, <2>4 DEF WORD
      <3> QED
        BY <1>3, <3>1, <3>2 DEF AsCommanded
    <2>5. CASE t % WORD # 0
      <3>1. p = -x /\ x \in Int
        BY <1>0, <2>5
      <3>2. d < FINE => d = FINE - 1
        BY <1>1, <2>1, <2>3, <2>5 DEF FINE, WORD
      <3>3. -FINE < p * FINE + a /\ p * FINE + a < FINE
        <4>1. b = t * FINE + (b % FINE) /\ 0 <= b % FINE /\ b % FINE < FINE /\ b % FINE \in Int
          BY <1>0 DEF FINE
        <4>2. CASE x = t
          <5>1. p * FINE + a = a - b + (b % FINE)
            BY <1>0, <3>1, <4>1, <4>2 DEF FINE
          <5>2. b = a - 1 => b % FINE = 0
            BY DEF FINE
          <5> QED
            BY <4>1, <5>1, <5>2 DEF FINE
        <4>3. CASE x = t + 1 /\ b % FINE # 0
          <5>1. p * FINE + a = a - b + (b % FINE) - FINE
            <6>1. p = -t - 1
              BY <1>0, <3>1, <4>3
            <6> QED
              BY <1>0, <4>1, <6>1 DEF FINE
          <5>2. b = a + 1 => b % FINE = 0
            BY DEF FINE
          <5>3. b = a - 1 => b % FINE = 0
            BY DEF FINE
          <5> QED
            BY <4>1, <4>3, <5>1, <5>2, <5>3 DEF FINE
        <4> QED
          BY <1>0, <4>2, <4>3
      <3>4. Abs(p * FINE - (-a)) < FINE
        BY <1>4, <3>1, <3>3
      <3>5. Lapse(-a) => LapseEnds(-a)
        BY <1>3, <3>2
      <3> QED
        BY <3>4, <3>5 DEF AsCommanded
    <2> QED
      BY <2>4, <2>5
  <1> QED
    BY <1>5, <1>6

\* A coordinate below zero, the sum rounded to -b and the product to -c, is written
\* as the thousandth it is rounded to or the one below, or a word below that.
LEMMA NegativeHalves ==
  ASSUME NEW a \in Nat, a > 0, (a + 1) \div (FINE * WORD) <= 32767,
         NEW sum \in Roundings, NEW product \in Roundings, NEW b \in Nat, NEW c \in Nat,
         Rounded(-a, sum) = -b, Rounded(-a, product) = -c,
         b = a \/ (a % FINE = 1 /\ b = a - 1) \/ (a % FINE = FINE - 1 /\ b = a + 1),
         c = a \/ (a % FINE = 1 /\ c = a - 1) \/ (a % FINE = FINE - 1 /\ c = a + 1),
         b = a \/ b = c
  PROVE  AsCommanded(-a, Decode(Low(-a, sum), High(-a, product)))
  <1> DEFINE p == Decode(Low(-a, sum), High(-a, product))
  <1>4. High(-a, product) = uint16(-1 - (c \div (FINE * WORD)))
    <2>1. Quot(-c - FINE * WORD, FINE * WORD) = -1 - (c \div (FINE * WORD))
      BY DEF Quot, FINE, WORD
    <2> QED
      BY <2>1 DEF High, HighNegative
  <1> DEFINE t == b \div FINE
  <1>5. t \in Nat /\ b % FINE \in Nat /\ t \div WORD = b \div (FINE * WORD) /\ t \div WORD <= 32767
    BY DEF FINE, WORD
  <1>6. /\ \/ /\ Low(-a, sum) = uint16(-t)
              /\ t % WORD = WORD - 1 => b % FINE = 0
           \/ Low(-a, sum) = uint16(-t - 1) /\ b % FINE # 0 /\ t % WORD # 0
    BY NegativeLow
  <1>7. PICK x \in {t, t + 1} :
          /\ Low(-a, sum) = uint16(-x)
          /\ x # t => b % FINE # 0 /\ t % WORD # 0
          /\ x = t /\ t % WORD = WORD - 1 => b % FINE = 0
    <2>1. -(t + 1) = -t - 1
      BY <1>5
    <2> QED
      BY <1>5, <1>6, <2>1
  <1>t. t = b \div FINE
    OBVIOUS
  <1> HIDE DEF t
  <1>8. CASE c \div (FINE * WORD) = b \div (FINE * WORD)
    <2>1. p = Decode(uint16(-x), uint16(-1 - (t \div WORD)))
      BY <1>4, <1>5, <1>7, <1>8
    <2>2. p = IF t % WORD = 0 THEN -(t \div WORD) * WORD - WORD ELSE -x
      BY <1>5, <1>7, <2>1, NegativeRead
    <2>3. p \in Int /\ x \in Nat
      BY <1>5, <1>7, <2>2 DEF WORD
    <2>4. x = t \/ (x = t + 1 /\ b % FINE # 0)
      BY <1>7
    <2> HIDE DEF p
    <2>5. AsCommanded(-a, p)
      BY <1>t, <2>2, <2>3, <2>4, RoundedAlike
    <2> QED
      BY <2>5 DEF p
  <1>9. CASE c \div (FINE * WORD) # b \div (FINE * WORD)
    <2> DEFINE k == a \div (FINE * WORD)
    <2>1. b = a
      BY <1>9
    <2>2. a % FINE = FINE - 1 /\ c = a + 1
      <3>1. a % FINE = 1 => (a - 1) \div (FINE * WORD) = a \div (FINE * WORD)
        BY DEF FINE, WORD
      <3> QED
        BY <1>9, <2>1, <3>1
    <2>3. a % (FINE * WORD) = FINE * WORD - 1 /\ c \div (FINE * WORD) = k + 1
      BY <1>9, <2>1, <2>2 DEF FINE, WORD
    <2>4. t = k * WORD + WORD - 1 /\ t % WORD = WORD - 1 /\ k \in Nat /\ k + 1 <= 32767
      BY <2>1, <2>2, <2>3 DEF FINE, WORD, t
    <2>5. x = t + 1
      BY <1>7, <2>1, <2>2, <2>4 DEF FINE
    <2> HIDE DEF k
    <2> DEFINE q == WORD * (-2 - k)
    <2>6. q \in Int /\ q \div WORD = -2 - k /\ uint16(-x) = uint16(q)
      BY <2>4, <2>5 DEF uint16, WORD
    <2>7. -2 - k \in SignedWord /\ -1 - (k + 1) = -2 - k
      BY <2>4 DEF SignedWord
    <2>8. Decode(uint16(q), uint16(q \div WORD)) = q
      BY <2>6, <2>7, DecodeSplit
    <2>9. p = q
      BY <1>4, <1>7, <2>3, <2>6, <2>7, <2>8
    <2>10. Base(-a) = k * WORD /\ Hair(-a) /\ -a < 0
      BY <2>3 DEF Base, Hair, Abs, k
    <2>11. q = -(k * WORD) - 2 * WORD
      BY <2>4 DEF WORD
    <2> QED
      BY <2>9, <2>10, <2>11 DEF AsCommanded
  <1> QED
    BY <1>8, <1>9

\* The same of what the encoding computes.
LEMMA NegativeAsCommanded ==
  ASSUME NEW a \in Nat, a > 0, (a + 1) \div (FINE * WORD) <= 32767,
         NEW sum \in Roundings, NEW product \in Roundings, sum = "lands" => product = "lands"
  PROVE  AsCommanded(-a, Decode(Low(-a, sum), High(-a, product)))
  <1> DEFINE Near(d) == d = a \/ (a % FINE = 1 /\ d = a - 1) \/ (a % FINE = FINE - 1 /\ d = a + 1)
  <1>1. ASSUME NEW how \in Roundings
        PROVE  \E d \in Nat : Rounded(-a, how) = -d /\ Near(d)
    BY RoundedBelowZero
  <1>2. ASSUME NEW s \in Roundings, NEW q \in Roundings, NEW b \in Nat, NEW c \in Nat,
               Rounded(-a, s) = -b, Rounded(-a, q) = -c, Near(b), Near(c), b = a \/ b = c
        PROVE  AsCommanded(-a, Decode(Low(-a, s), High(-a, q)))
    BY <1>2, NegativeHalves
  <1> HIDE DEF Near
  <1>3. CASE sum = product
    <2>1. PICK c \in Nat : Rounded(-a, product) = -c /\ Near(c)
      BY <1>1
    <2>2. AsCommanded(-a, Decode(Low(-a, product), High(-a, product)))
      BY <1>2, <2>1
    <2> QED
      BY <1>3, <2>2
  <1>4. CASE sum = "misses"
    <2>1. PICK c \in Nat : Rounded(-a, product) = -c /\ Near(c)
      BY <1>1
    <2>2. Rounded(-a, "misses") = -a /\ Near(a) /\ "misses" \in Roundings
      BY DEF Rounded, Near, Roundings
    <2>3. AsCommanded(-a, Decode(Low(-a, "misses"), High(-a, product)))
      BY <1>2, <2>1, <2>2
    <2> QED
      BY <1>4, <2>3
  <1>5. sum = product \/ sum = "misses"
    BY DEF Roundings
  <1> QED
    BY <1>3, <1>4, <1>5

-----------------------------------------------------------------------------
(* Invariants *)

\* The low register holds a word.
LEMMA LowType == ASSUME NEW g \in Int, NEW how \in Roundings PROVE Low(g, how) \in Word
  <1>1. Whole(g) \in Int /\ Rem(Whole(g), WORD) \in Int
    BY QuotType, RemType DEF Whole, FINE, WORD
  <1>2. uint16(Rem(Whole(g), WORD)) \in Int /\ uint16(Rem(Whole(g), WORD) + WORD) \in Int
    BY <1>1 DEF uint16, WORD
  <1>3. LowNegative(g, how) \in Word
    BY <1>2, AddNumType DEF LowNegative
  <1>4. LowPositive(g, how) \in Word
    BY <1>2, Correction, AddNumType
  <1> QED
    BY <1>3, <1>4 DEF Low

\* The high register holds a word.
LEMMA HighType == ASSUME NEW g \in Int, NEW how \in Roundings PROVE High(g, how) \in Word
  <1>1. Rounded(g, how) \in Int /\ Rounded(g, how) - FINE * WORD \in Int
    BY RoundedIs DEF FINE, WORD
  <1>2. /\ Quot(Rounded(g, how), FINE * WORD) \in Int
        /\ Quot(Rounded(g, how) - FINE * WORD, FINE * WORD) \in Int
    BY <1>1, QuotType DEF FINE, WORD
  <1> QED
    BY <1>2, Uint16Type DEF High, HighPositive, HighNegative

\* What getArmPose has read so far are words of positions of the arm.
ReadInv ==
  /\ goal \in Int
  /\ pc \in {"moving", "low", "high"} => position \div WORD \in SignedWord
  /\ pc \in {"low", "high"} => X_Low = uint16(start)
  /\ pc = "high" => X_High = uint16(position \div WORD)

IInv == TypeOK /\ ReadInv

\* Once encoded, the registers hold the two words of the goal, each rounded in its way.
HoldsGoal ==
  pc # "ready" =>
    \E sum, product \in Roundings :
      (sum = "lands" => product = "lands") /\ A_L = Low(goal, sum) /\ A_H = High(goal, product)

\* Two words make an integer of 32 bits.
LEMMA DecodeRange ==
  ASSUME NEW low \in Word, NEW high \in Word
  PROVE  Decode(low, high) \in Int /\ Decode(low, high) \div WORD \in SignedWord
  <1>1. ASSUME NEW h \in Int
        PROVE  WORD * h + low \in Int /\ (WORD * h + low) \div WORD = h
    BY DEF WORD, Word
  <1>2. CASE high > 32767
    <2>1. Decode(low, high) = WORD * (high - WORD) + low
      BY <1>2 DEF Decode
    <2>2. high - WORD \in Int /\ high - WORD \in SignedWord
      BY <1>2 DEF WORD, Word, SignedWord
    <2> QED
      BY <1>1, <2>1, <2>2
  <1>3. CASE ~(high > 32767)
    <2>1. Decode(low, high) = WORD * high + low
      BY <1>3 DEF Decode
    <2>2. high \in Int /\ high \in SignedWord
      BY <1>3 DEF WORD, Word, SignedWord
    <2> QED
      BY <1>1, <2>1, <2>2
  <1> QED
    BY <1>2, <1>3

\* The strengthened invariant holds in every state.
LEMMA Invariance == Spec => []IInv
  <1>1. Init => IInv
    BY ConstantsOK DEF Init, IInv, TypeOK, ReadInv, WORD, Word
  <1>2. IInv /\ [Next]_vars => IInv'
    <2> SUFFICES ASSUME IInv, [Next]_vars PROVE IInv'
      OBVIOUS
    <2> USE DEF IInv
    <2>1. CASE Encode
      <3>1. A_L' \in Word /\ A_H' \in Word
        BY <2>1, LowType, HighType DEF Encode, ReadInv
      <3> QED
        BY <2>1, <3>1 DEF Encode, TypeOK, ReadInv
    <2>2. CASE Approach
      <3>1. Decode(A_L, A_H) \in Int
        BY DecodeRange DEF TypeOK
      <3>2. position' \in Int /\ position' \div WORD \in SignedWord
        BY <2>2, <3>1, ConstantsOK DEF Approach
      <3> QED
        BY <2>2, <3>2 DEF Approach, TypeOK, ReadInv
    <2>3. CASE ReadLow
      BY <2>3, Uint16Type DEF ReadLow, TypeOK, ReadInv
    <2>4. CASE Arrive
      BY <2>4, DecodeRange DEF Arrive, TypeOK, ReadInv
    <2>5. CASE ReadHigh
      <3>1. position \div WORD \in Int
        BY DEF TypeOK, WORD
      <3> QED
        BY <2>5, <3>1, Uint16Type DEF ReadHigh, TypeOK, ReadInv
    <2>6. CASE UNCHANGED vars
      BY <2>6 DEF vars, TypeOK, ReadInv
    <2> QED
      BY <2>1, <2>2, <2>3, <2>4, <2>5, <2>6 DEF Next
  <1> QED
    BY <1>1, <1>2, PTL DEF Spec

\* The registers of the command and the words read are words, whatever the goal.
THEOREM Typing == Spec => []TypeOK
  BY Invariance, PTL DEF IInv

\* A coordinate getArmPose reads while the arm moves is where the arm was at the
\* first of the two reads, unless it passed a multiple of 65.536 in between.
THEOREM ReadsAPosition == Spec => []ReadUnlessCrossed
  <1>1. IInv => ReadUnlessCrossed
    <2> SUFFICES ASSUME IInv, pc = "high", start \div WORD = position \div WORD
                 PROVE  Decode(X_Low, X_High) = start
      BY DEF ReadUnlessCrossed
    <2>1. X_Low = uint16(start) /\ X_High = uint16(position \div WORD)
      BY DEF IInv, ReadInv, TypeOK
    <2>2. position \div WORD \in SignedWord
      BY DEF IInv, ReadInv, TypeOK
    <2>3. start \in Int
      BY DEF IInv, TypeOK
    <2> QED
      BY <2>1, <2>2, <2>3, DecodeSplit
  <1> QED
    BY <1>1, Invariance, PTL

\* The branch of the encoders for sums above 32767 never changes what is written.
THEOREM CorrectionNeverNeeded == Spec => []CorrectionIdle
  <1>1. IInv => CorrectionIdle
    <2>1. IInv => goal \in Int
      BY DEF IInv, ReadInv, TypeOK
    <2> QED
      BY <2>1, Correction DEF CorrectionIdle
  <1> QED
    BY <1>1, Invariance, PTL

\* Two words hold the goals, so a commanded coordinate is written to within a
\* thousandth, except the ones below zero in Lapse, written 65.536 too low, and the
\* ones in Hair, which may be written a word too far from zero.
THEOREM WritesTheGoal == Spec => []WrittenAsCommanded
  <1>1. Init => HoldsGoal
    BY DEF Init, HoldsGoal
  <1>2. HoldsGoal /\ [Next]_vars => HoldsGoal'
    <2> SUFFICES ASSUME HoldsGoal, [Next]_vars PROVE HoldsGoal'
      OBVIOUS
    <2>1. CASE Encode
      BY <2>1 DEF Encode, HoldsGoal
    <2>2. CASE Approach \/ ReadLow \/ Arrive \/ ReadHigh \/ UNCHANGED vars
      <3>1. UNCHANGED <<goal, A_L, A_H>> /\ (pc' # "ready" => pc # "ready")
        BY <2>2 DEF vars, Approach, ReadLow, Arrive, ReadHigh
      <3> QED
        BY <3>1 DEF HoldsGoal
    <2> QED
      BY <2>1, <2>2 DEF Next
  <1>3. IInv /\ HoldsGoal => WrittenAsCommanded
    <2> SUFFICES ASSUME IInv, HoldsGoal, pc # "ready" PROVE AsCommanded(goal, Written)
      BY DEF WrittenAsCommanded, AsCommanded
    <2>1. goal \in Int /\ (Abs(goal) + 1) \div (FINE * WORD) <= 32767
      BY ConstantsOK DEF IInv, TypeOK
    <2>2. PICK sum \in Roundings, product \in Roundings :
            (sum = "lands" => product = "lands") /\ Written = Decode(Low(goal, sum), High(goal, product))
      BY DEF HoldsGoal, Written
    <2>3. CASE goal >= 0
      <3>1. goal \in Nat /\ Abs(goal) = goal
        BY <2>1, <2>3 DEF Abs
      <3> QED
        BY <2>1, <2>2, <3>1, PositiveAsCommanded
    <2>4. CASE goal < 0
      <3>1. PICK a \in Nat : a > 0 /\ goal = -a /\ Abs(goal) = a
        BY <2>1, <2>4 DEF Abs
      <3> QED
        BY <2>1, <2>2, <3>1, NegativeAsCommanded
    <2> QED
      BY <2>1, <2>3, <2>4
  <1> QED
    BY <1>1, <1>2, <1>3, Invariance, PTL DEF Spec
=============================================================================
