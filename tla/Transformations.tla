--------------------------- MODULE Transformations ---------------------------
(***************************************************************************)
(* The two rotations of hiwin_example/transformations.py that the            *)
(* calibrations use, at multiples of a quarter turn, where sines, cosines and *)
(* arc tangents are exact.  Angles are counted in quarter turns.  A matrix is *)
(* a sequence of rows.                                                       *)
(***************************************************************************)
EXTENDS Integers, Sequences

\* An axis sequence, as _AXES2TUPLE encodes its 24 names.
AXES == [first : 1 .. 3, parity : {0, 1}, repetition : {0, 1}, frame : {0, 1}]
sxyz == [first |-> 1, parity |-> 0, repetition |-> 0, frame |-> 0]

NEXT_AXIS == <<2, 3, 1, 2>>

Second(axes) == NEXT_AXIS[axes.first + axes.parity]
Third(axes)  == NEXT_AXIS[axes.first - axes.parity + 1]

Swap(a)   == <<a[3], a[2], a[1]>>
Negate(a) == <<-a[1], -a[2], -a[3]>>

-----------------------------------------------------------------------------
(* quaternion_from_euler *)

\* The cosine of half of n quarter turns is a multiple of the root of 2.  Times that
\* root it is a + b * sqrt(2), the pair <<a, b>>.
HalfCos(n) ==
  <<<<0, 1>>, <<1, 0>>, <<0, 0>>, <<-1, 0>>, <<0, -1>>, <<-1, 0>>, <<0, 0>>, <<1, 0>>>>
    [(n % 8) + 1]
HalfSin(n) == HalfCos(n - 2)

a ++ b == <<a[1] + b[1], a[2] + b[2]>>
a -- b == <<a[1] - b[1], a[2] - b[2]>>
a ** b == <<a[1] * b[1] + 2 * a[2] * b[2], a[1] * b[2] + a[2] * b[1]>>

\* Mutant: an odd sequence negates every angle, as it does in euler_from_matrix.
EnteredNegated(a, parity) == IF parity = 1 THEN Negate(a) ELSE a

Entered(a, parity) == IF parity = 1 THEN <<a[1], -a[2], a[3]>> ELSE a

\* The components are 2 * sqrt(2) times those of the unit quaternion.
quaternion_from_euler(angles, axes) ==
  LET n  == Entered(IF axes.frame = 1 THEN Swap(angles) ELSE angles, axes.parity)
      cc == HalfCos(n[1]) ** HalfCos(n[3])
      cs == HalfCos(n[1]) ** HalfSin(n[3])
      sc == HalfSin(n[1]) ** HalfCos(n[3])
      ss == HalfSin(n[1]) ** HalfSin(n[3])
      cj == HalfCos(n[2])
      sj == HalfSin(n[2])
      q  == IF axes.repetition = 1
              THEN <<cj ** (cs ++ sc), sj ** (cc ++ ss), sj ** (cs -- sc), cj ** (cc -- ss)>>
              ELSE <<(cj ** sc) -- (sj ** cs), (cj ** ss) ++ (sj ** cc),
                     (cj ** cs) -- (sj ** sc), (cj ** cc) ++ (sj ** ss)>>
      y  == IF axes.parity = 1 THEN <<0, 0>> -- q[2] ELSE q[2]
  IN [c \in 1 .. 4 |-> CASE c = axes.first -> q[1] [] c = Second(axes) -> y
                         [] c = Third(axes) -> q[3] [] c = 4 -> q[4]]

\* numpy-quaternion's matrix of a unit quaternion, here of one of length 2 * sqrt(2).
as_rotation_matrix(q) ==
  LET P(i, j) == (q[i] ** q[j])[1]
      Diagonal(i, j) == 1 - (P(i, i) + P(j, j)) \div 4
      Sum(i, j, k)   == (P(i, j) + P(k, 4)) \div 4
      Minus(i, j, k) == (P(i, j) - P(k, 4)) \div 4
  IN <<<<Diagonal(2, 3), Minus(1, 2, 3), Sum(1, 3, 2)>>,
       <<Sum(1, 2, 3), Diagonal(1, 3), Minus(2, 3, 1)>>,
       <<Minus(1, 3, 2), Sum(2, 3, 1), Diagonal(1, 2)>>>>

-----------------------------------------------------------------------------
(* euler_from_matrix *)

atan2(y, x) ==
  IF x # 0 THEN (IF x > 0 THEN 0 ELSE 2)
           ELSE (IF y > 0 THEN 1 ELSE IF y < 0 THEN -1 ELSE 0)

\* Mutant: the lock of the gimbal is not seen.
AnglesUnlocked(M, i, j, k, repetition) ==
  IF repetition = 1
    THEN <<atan2(M[i][j], M[i][k]), atan2(M[i][j] * M[i][j] + M[i][k] * M[i][k], M[i][i]),
           atan2(M[j][i], -M[k][i])>>
    ELSE <<atan2(M[k][j], M[k][k]), atan2(-M[k][i], 0), atan2(M[j][i], M[i][i])>>

\* A root of 0 or 1 is the number itself.
Angles(M, i, j, k, repetition) ==
  LET sy == M[i][j] * M[i][j] + M[i][k] * M[i][k]
      cy == M[i][i] * M[i][i] + M[j][i] * M[j][i]
      locked == atan2(-M[j][k], M[j][j])
  IN IF repetition = 1
       THEN IF sy > 0
              THEN <<atan2(M[i][j], M[i][k]), atan2(sy, M[i][i]), atan2(M[j][i], -M[k][i])>>
              ELSE <<locked, atan2(sy, M[i][i]), 0>>
       ELSE IF cy > 0
              THEN <<atan2(M[k][j], M[k][k]), atan2(-M[k][i], cy), atan2(M[j][i], M[i][i])>>
              ELSE <<locked, atan2(-M[k][i], cy), 0>>

euler_from_matrix(M, axes) ==
  LET a == Angles(M, axes.first, Second(axes), Third(axes), axes.repetition)
      n == IF axes.parity = 1 THEN Negate(a) ELSE a
  IN IF axes.frame = 1 THEN Swap(n) ELSE n
=============================================================================
