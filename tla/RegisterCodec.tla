---------------------------- MODULE RegisterCodec ----------------------------
(***************************************************************************)
(* How hiwin_libmodbus.cpp puts a coordinate into two 16-bit registers and   *)
(* takes it out of two: the encoding that PTP, LIN, CIRC, SET_BASE and       *)
(* SET_TOOL share, the decoding that getArmPose and getArmJoints share, and  *)
(* the arm that moves between the two reads.                                 *)
(*                                                                         *)
(* A goal, a double in mm or degrees, is an integer number of half millionths *)
(* ("fine"); the controller counts thousandths.  An odd number stands for a  *)
(* double a hair below or above a decimal of six places, as the nearest      *)
(* double of one nearly always is: no sum or product of the encoding tells   *)
(* it from the decimal for certain.                                          *)
(* Converting a negative double, or one above 65535, to uint16_t is undefined *)
(* in C++; the builds for x86-64 and AArch64 truncate to an int and keep its *)
(* low 16 bits.  The overflow of 65536*X_High wraps likewise.                *)
(***************************************************************************)
EXTENDS Integers

CONSTANTS
  Goals,    \* fine coordinates that may be commanded
  MaxStep   \* bound: thousandths the arm moves between two reads

FINE == 2000
WORD == 65536
Abs(a) == IF a < 0 THEN -a ELSE a

\* Two words hold the goals: they are less than 2147484 mm or degrees from zero.
ASSUME ConstantsOK ==
  /\ Goals \subseteq {g \in Int : (Abs(g) + 1) \div (FINE * WORD) <= 32767}
  /\ MaxStep \in Nat

Word == {w \in Nat : w < WORD}
SignedWord == {w \in Int : -32768 <= w /\ w <= 32767}

VARIABLES
  goal,          \* GOAL[i]
  A_L, A_H,      \* the registers of the command
  position,      \* where the arm is, in thousandths
  X_Low, X_High, \* what getArmPose has read
  start,         \* history: position when the low word was read
  pc             \* "ready", "encoded", "moving", "low", "high"

vars == <<goal, A_L, A_H, position, X_Low, X_High, start, pc>>

-----------------------------------------------------------------------------
(* C arithmetic *)

Quot(a, b) == IF a < 0 THEN -((-a) \div b) ELSE a \div b
Rem(a, b) == a - b * Quot(a, b)

uint16(a) == a % WORD

Roundings == {"lands", "misses"}

\* What a sum or a product near x is: a hair off a thousandth, itself a double, it
\* may be rounded onto it; elsewhere the rounding does not show.
Rounded(x, how) ==
  IF how = "lands" /\ x % FINE \in {1, FINE - 1} THEN ((x + 1) \div FINE) * FINE ELSE x

\* (int)GOAL[i] * 1000, and num * 1000 in fine thousandths.
Whole(g) == Quot(g, 1000 * FINE) * 1000
Num(g) == g - Whole(g) * FINE

\* "A_L[i] = A_L[i] + (num*1000)": the sum is truncated towards zero.
\*
\* Mutant: the sum is kept in an int.
AddNumWide(low, g, how) == Quot(Rounded(low * FINE + Num(g), how), FINE)

AddNum(low, g, how) == uint16(Quot(Rounded(low * FINE + Num(g), how), FINE))

-----------------------------------------------------------------------------
(* The encoding *)

\* Mutant: the sum of the upper half is not corrected but cleared.
LowPositiveCleared(g, how) ==
  LET low == AddNum(uint16(Rem(Whole(g), WORD)), g, how)
  IN  IF low > 32767 THEN AddNum(0, g, how) ELSE low

LowPositive(g, how) ==
  LET low == AddNum(uint16(Rem(Whole(g), WORD)), g, how)
  IN  IF low > 32767 THEN AddNum(uint16(Rem(Whole(g), WORD) - WORD), g, how) ELSE low

LowNegative(g, how) == AddNum(uint16(Rem(Whole(g), WORD) + WORD), g, how)

HighPositive(g, how) == uint16(Quot(Rounded(g, how), FINE * WORD))

\* Mutant: the high word of a negative coordinate is not lowered.
HighNegativeNotLowered(g, how) == uint16(Quot(Rounded(g, how), FINE * WORD))

HighNegative(g, how) == uint16(Quot(Rounded(g, how) - FINE * WORD, FINE * WORD))

Low(g, how)  == IF g >= 0 THEN LowPositive(g, how) ELSE LowNegative(g, how)
High(g, how) == IF g >= 0 THEN HighPositive(g, how) ELSE HighNegative(g, how)

-----------------------------------------------------------------------------
(* The decoding *)

\* The 32-bit int 65536*X_High + X_Low; X_Low is never negative.
Decode(low, high) == WORD * (IF high > 32767 THEN high - WORD ELSE high) + low

-----------------------------------------------------------------------------
(* The controller and the driver *)

Init ==
  /\ goal \in Goals
  /\ A_L = 0 /\ A_H = 0
  /\ position = 0
  /\ X_Low = 0 /\ X_High = 0
  /\ start = 0
  /\ pc = "ready"

\* The low word comes of a sum, the high word of a product.  The product is the
\* larger number and its rounding the coarser: where the sum lands it lands too.
Encode ==
  /\ pc = "ready"
  /\ \E sum, product \in Roundings :
       /\ sum = "lands" => product = "lands"
       /\ A_L' = Low(goal, sum)
       /\ A_H' = High(goal, product)
  /\ pc' = "encoded"
  /\ UNCHANGED <<goal, position, X_Low, X_High, start>>

\* The controller's own reading of the registers is the one getArmPose makes;
\* the arm is then near its end.
Approach ==
  /\ pc = "encoded"
  /\ position' \in {p \in Decode(A_L, A_H) - MaxStep .. Decode(A_L, A_H) + MaxStep :
                      p \div WORD \in SignedWord}
  /\ pc' = "moving"
  /\ UNCHANGED <<goal, A_L, A_H, X_Low, X_High, start>>

ReadLow ==
  /\ pc = "moving"
  /\ X_Low' = uint16(position)
  /\ start' = position
  /\ pc' = "low"
  /\ UNCHANGED <<goal, A_L, A_H, position, X_High>>

\* The arm moves on to the commanded position, or stands still.
Arrive ==
  /\ pc = "low"
  /\ position' = Decode(A_L, A_H)
  /\ UNCHANGED <<goal, A_L, A_H, X_Low, X_High, start, pc>>

\* Mutant: the high word is taken from the register of the low one.
ReadHighAgainLow ==
  /\ pc = "low"
  /\ X_High' = uint16(position)
  /\ pc' = "high"
  /\ UNCHANGED <<goal, A_L, A_H, position, X_Low, start>>

ReadHigh ==
  /\ pc = "low"
  /\ X_High' = uint16(position \div WORD)
  /\ pc' = "high"
  /\ UNCHANGED <<goal, A_L, A_H, position, X_Low, start>>

Next == Encode \/ Approach \/ ReadLow \/ Arrive \/ ReadHigh

Spec == Init /\ [][Next]_vars

-----------------------------------------------------------------------------
(* Properties *)

TypeOK ==
  /\ goal \in Goals
  /\ A_L \in Word /\ A_H \in Word
  /\ position \in Int /\ start \in Int
  /\ X_Low \in Word /\ X_High \in Word
  /\ pc \in {"ready", "encoded", "moving", "low", "high"}

Written == Decode(A_L, A_H)

\* The multiple of 65.536, in thousandths, next to a goal on the side of zero.
Base(g) == (Abs(g) \div (FINE * WORD)) * WORD

\* Below zero the two halves disagree from a multiple of 65.536, zero included,
\* up to a thousandth below it.
Lapse(g) == g < 0 /\ Abs(g) % (FINE * WORD) < FINE

\* A hair nearer to zero than a multiple of 65.536.
Hair(g) == Abs(g) % (FINE * WORD) = FINE * WORD - 1

\* A hair nearer to zero than the end of a lapse.
LapseEnds(g) == g < 0 /\ Abs(g) % (FINE * WORD) = FINE - 1

\* A commanded coordinate is written to within a thousandth; one in Lapse is
\* written 65.536 too low, unless it is rounded onto the end of the lapse.  One in
\* Hair may be written a word off as well, further from zero: the high word already
\* counts the multiple, the low word does not yet.
WrittenAsCommanded ==
  pc # "ready" =>
    \/ (Lapse(goal) => LapseEnds(goal)) /\ Abs(Written * FINE - goal) < FINE
    \/ Lapse(goal) /\ Written = -Base(goal) - WORD
    \/ Hair(goal) /\ goal > 0 /\ Written = Base(goal) + 2 * WORD - 1
    \/ Hair(goal) /\ goal < 0 /\ Written = -Base(goal) - 2 * WORD

\* The sum above 32767 that PTP, LIN and CIRC correct needs no correction: the
\* low word is the same with and without it.
CorrectionIdle ==
  goal >= 0 =>
    \A how \in Roundings :
      LowPositive(goal, how) = AddNum(uint16(Rem(Whole(goal), WORD)), goal, how)

\* A coordinate read while the arm moves is where the arm was at the first of the
\* two reads, unless it passed a multiple of 65.536 in between.
ReadUnlessCrossed ==
  pc = "high" /\ start \div WORD = position \div WORD => Decode(X_Low, X_High) = start

\* Every angle below zero is written as itself, as the comment of the branch says.
NegativeWritten ==
  pc # "ready" /\ goal < 0 => Abs(Written * FINE - goal) < FINE
=============================================================================
