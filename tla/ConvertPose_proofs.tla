-------------------------- MODULE ConvertPose_proofs --------------------------
(* The two rotations of transformations.py turn alike, for any angles in any of *)
(* the 24 axis sequences, and convert_arm_pose carries any picture over as a    *)
(* whole, for any poses of the arm and any mounting of the camera.              *)
EXTENDS ConvertPose, TLAPS

-----------------------------------------------------------------------------
(* Half angles *)

\* A number a + b * sqrt(2).
Surds == Int \X Int

\* The rational part of a product, which is bilinear.
Re(a, b) == (a ** b)[1]

Cos(n) == <<1, 0, -1, 0>>[(n % 4) + 1]
Sin(n) == <<0, 1, 0, -1>>[(n % 4) + 1]

\* What sums and products of surds are.
LEMMA SurdsClosed ==
  ASSUME NEW a \in Surds, NEW b \in Surds
  PROVE  /\ a ++ b \in Surds /\ a -- b \in Surds /\ a ** b \in Surds
         /\ Re(a, b) \in Int /\ a ** b = b ** a /\ Re(a, b) = Re(b, a)
<1>1. PICK a1 \in Int, a2 \in Int : a = <<a1, a2>>
  BY DEF Surds
<1>2. PICK b1 \in Int, b2 \in Int : b = <<b1, b2>>
  BY DEF Surds
<1> QED
  BY <1>1, <1>2 DEF ++, --, **, Re, Surds

\* Products associate.
LEMMA SurdsAssociate ==
  ASSUME NEW a \in Surds, NEW b \in Surds, NEW c \in Surds
  PROVE  (a ** b) ** c = a ** (b ** c)
<1>1. PICK a1 \in Int, a2 \in Int : a = <<a1, a2>>
  BY DEF Surds
<1>2. PICK b1 \in Int, b2 \in Int : b = <<b1, b2>>
  BY DEF Surds
<1>3. PICK c1 \in Int, c2 \in Int : c = <<c1, c2>>
  BY DEF Surds
<1> QED
  BY <1>1, <1>2, <1>3 DEF **

\* The rational part of a product is linear in each factor.
LEMMA SurdsDistribute ==
  ASSUME NEW a \in Surds, NEW b \in Surds, NEW c \in Surds
  PROVE  /\ Re(a ++ b, c) = Re(a, c) + Re(b, c) /\ Re(c, a ++ b) = Re(c, a) + Re(c, b)
         /\ Re(a -- b, c) = Re(a, c) - Re(b, c) /\ Re(c, a -- b) = Re(c, a) - Re(c, b)
<1>1. PICK a1 \in Int, a2 \in Int : a = <<a1, a2>>
  BY DEF Surds
<1>2. PICK b1 \in Int, b2 \in Int : b = <<b1, b2>>
  BY DEF Surds
<1>3. PICK c1 \in Int, c2 \in Int : c = <<c1, c2>>
  BY DEF Surds
<1> QED
  BY <1>1, <1>2, <1>3 DEF ++, --, **, Re

\* A product spreads over a sum.
LEMMA SurdsSpread ==
  ASSUME NEW a \in Surds, NEW b \in Surds, NEW c \in Surds
  PROVE  a ** (b ++ c) = (a ** b) ++ (a ** c) /\ a ** (b -- c) = (a ** b) -- (a ** c)
<1>1. PICK a1 \in Int, a2 \in Int : a = <<a1, a2>>
  BY DEF Surds
<1>2. PICK b1 \in Int, b2 \in Int : b = <<b1, b2>>
  BY DEF Surds
<1>3. PICK c1 \in Int, c2 \in Int : c = <<c1, c2>>
  BY DEF Surds
<1> QED
  BY <1>1, <1>2, <1>3 DEF ++, --, **

\* Two products multiply factor by factor.
LEMMA SurdsRegroup ==
  ASSUME NEW a \in Surds, NEW b \in Surds, NEW c \in Surds, NEW d \in Surds
  PROVE  (a ** b) ** (c ** d) = (a ** c) ** (b ** d)
<1>1. b ** d \in Surds /\ c ** d \in Surds
  BY SurdsClosed
<1>2. (a ** b) ** (c ** d) = a ** (b ** (c ** d))
  BY <1>1, SurdsAssociate
<1>3. b ** (c ** d) = (c ** d) ** b /\ (c ** d) ** b = c ** (d ** b) /\ d ** b = b ** d
  BY <1>1, SurdsClosed, SurdsAssociate
<1>4. (a ** c) ** (b ** d) = a ** (c ** (b ** d))
  BY <1>1, SurdsAssociate
<1> QED
  BY <1>2, <1>3, <1>4

\* The sine and the cosine of a half angle multiply to those of the angle.
LEMMA HalfAngles ==
  ASSUME NEW n \in Int
  PROVE  /\ Cos(n) \in Int /\ Sin(n) \in Int
         /\ HalfCos(n) \in Surds /\ HalfSin(n) \in Surds
         /\ HalfCos(n) ** HalfCos(n) = <<1 + Cos(n), 0>>
         /\ HalfSin(n) ** HalfSin(n) = <<1 - Cos(n), 0>>
         /\ HalfCos(n) ** HalfSin(n) = <<Sin(n), 0>>
         /\ HalfSin(n) ** HalfCos(n) = <<Sin(n), 0>>
<1>1. n % 8 \in 0 .. 7 /\ (n - 2) % 8 = ((n % 8) + 6) % 8 /\ n % 4 = (n % 8) % 4
  OBVIOUS
<1> DEFINE m == n % 8
<1>2. HalfSin(n) = HalfCos(m + 6) /\ HalfCos(n) = HalfCos(m) /\ Cos(n) = Cos(m) /\ Sin(n) = Sin(m)
  BY <1>1 DEF HalfSin, HalfCos, Cos, Sin
<1>3. m \in {0, 1, 2, 3, 4, 5, 6, 7}
  BY <1>1
<1> HIDE DEF m
<1>4. CASE m = 0
  BY <1>2, <1>4 DEF HalfCos, Cos, Sin, **, Surds
<1>5. CASE m = 1
  BY <1>2, <1>5 DEF HalfCos, Cos, Sin, **, Surds
<1>6. CASE m = 2
  BY <1>2, <1>6 DEF HalfCos, Cos, Sin, **, Surds
<1>7. CASE m = 3
  BY <1>2, <1>7 DEF HalfCos, Cos, Sin, **, Surds
<1>8. CASE m = 4
  BY <1>2, <1>8 DEF HalfCos, Cos, Sin, **, Surds
<1>9. CASE m = 5
  BY <1>2, <1>9 DEF HalfCos, Cos, Sin, **, Surds
<1>10. CASE m = 6
  BY <1>2, <1>10 DEF HalfCos, Cos, Sin, **, Surds
<1>11. CASE m = 7
  BY <1>2, <1>11 DEF HalfCos, Cos, Sin, **, Surds
<1> QED
  BY <1>3, <1>4, <1>5, <1>6, <1>7, <1>8, <1>9, <1>10, <1>11

\* A quarter turn points along an axis; turned back, its sine changes sign.
LEMMA Quarters ==
  ASSUME NEW n \in Int
  PROVE  /\ Cos(-n) = Cos(n) /\ Sin(-n) = -Sin(n)
         /\ <<Cos(n), Sin(n)>> \in {<<1, 0>>, <<0, 1>>, <<-1, 0>>, <<0, -1>>}
<1>1. n % 4 \in 0 .. 3 /\ (-n) % 4 = (4 - (n % 4)) % 4
  OBVIOUS
<1> DEFINE m == n % 4
           k == (-n) % 4
<1>2. m \in {0, 1, 2, 3} /\ k = (4 - m) % 4
  BY <1>1
<1>3. Cos(n) = <<1, 0, -1, 0>>[m + 1] /\ Sin(n) = <<0, 1, 0, -1>>[m + 1]
      /\ Cos(-n) = <<1, 0, -1, 0>>[k + 1] /\ Sin(-n) = <<0, 1, 0, -1>>[k + 1]
  BY DEF Cos, Sin
<1> HIDE DEF m, k
<1>4. CASE m = 0
  BY <1>2, <1>3, <1>4
<1>5. CASE m = 1
  BY <1>2, <1>3, <1>5
<1>6. CASE m = 2
  BY <1>2, <1>3, <1>6
<1>7. CASE m = 3
  BY <1>2, <1>3, <1>7
<1> QED
  BY <1>2, <1>4, <1>5, <1>6, <1>7

\* The half angle's cosine is 0, its sine 1; what two of them multiply to.
Half(n, b) == IF b = 0 THEN HalfCos(n) ELSE HalfSin(n)
Whole(n, b, d) ==
  IF b = 0 /\ d = 0 THEN 1 + Cos(n) ELSE IF b = 1 /\ d = 1 THEN 1 - Cos(n) ELSE Sin(n)

\* A component of a quaternion is a sum of two such terms.
Term(n, a, b, c) == Half(n[2], b) ** (Half(n[1], a) ** Half(n[3], c))

\* What the terms multiply to.
LEMMA Terms ==
  ASSUME NEW n \in [1 .. 3 -> Int]
  PROVE  /\ \A a, b, c \in {0, 1} : Term(n, a, b, c) \in Surds
         /\ \A a, b, c, d, e, f \in {0, 1} :
              Re(Term(n, a, b, c), Term(n, d, e, f))
                = Whole(n[2], b, e) * Whole(n[1], a, d) * Whole(n[3], c, f)
<1>1. ASSUME NEW k \in Int, NEW b \in {0, 1}, NEW d \in {0, 1}
      PROVE  /\ Half(k, b) \in Surds /\ Whole(k, b, d) \in Int
             /\ Half(k, b) ** Half(k, d) = <<Whole(k, b, d), 0>>
  <2>1. /\ Half(k, 0) = HalfCos(k) /\ Half(k, 1) = HalfSin(k)
        /\ Whole(k, 0, 0) = 1 + Cos(k) /\ Whole(k, 1, 1) = 1 - Cos(k)
        /\ Whole(k, 0, 1) = Sin(k) /\ Whole(k, 1, 0) = Sin(k)
    BY DEF Half, Whole
  <2>2. /\ Half(k, 0) \in Surds /\ Half(k, 1) \in Surds
        /\ Half(k, 0) ** Half(k, 0) = <<Whole(k, 0, 0), 0>>
        /\ Half(k, 1) ** Half(k, 1) = <<Whole(k, 1, 1), 0>>
        /\ Half(k, 0) ** Half(k, 1) = <<Whole(k, 0, 1), 0>>
        /\ Half(k, 1) ** Half(k, 0) = <<Whole(k, 1, 0), 0>>
    BY <2>1, HalfAngles, Zenon
  <2>3. Cos(k) \in Int /\ Sin(k) \in Int
    BY HalfAngles
  <2>4. Whole(k, b, d) \in Int
    BY <2>1, <2>3
  <2>5. (b = 0 \/ b = 1) /\ (d = 0 \/ d = 1)
    OBVIOUS
  <2> QED
    BY <2>2, <2>4, <2>5, Zenon
<1>2. n[1] \in Int /\ n[2] \in Int /\ n[3] \in Int
  OBVIOUS
<1>3. ASSUME NEW a \in {0, 1}, NEW b \in {0, 1}, NEW c \in {0, 1}
      PROVE  Term(n, a, b, c) \in Surds
  <2>1. Half(n[2], b) \in Surds /\ Half(n[1], a) \in Surds /\ Half(n[3], c) \in Surds
    BY <1>1, <1>2
  <2> QED
    BY <2>1, SurdsClosed DEF Term
<1>4. ASSUME NEW a \in {0, 1}, NEW b \in {0, 1}, NEW c \in {0, 1},
             NEW d \in {0, 1}, NEW e \in {0, 1}, NEW f \in {0, 1}
      PROVE  Re(Term(n, a, b, c), Term(n, d, e, f))
               = Whole(n[2], b, e) * Whole(n[1], a, d) * Whole(n[3], c, f)
  <2>1. /\ Half(n[2], b) \in Surds /\ Half(n[1], a) \in Surds /\ Half(n[3], c) \in Surds
        /\ Half(n[2], e) \in Surds /\ Half(n[1], d) \in Surds /\ Half(n[3], f) \in Surds
    BY <1>1, <1>2
  <2>2. /\ Whole(n[2], b, e) \in Int /\ Half(n[2], b) ** Half(n[2], e) = <<Whole(n[2], b, e), 0>>
        /\ Whole(n[1], a, d) \in Int /\ Half(n[1], a) ** Half(n[1], d) = <<Whole(n[1], a, d), 0>>
        /\ Whole(n[3], c, f) \in Int /\ Half(n[3], c) ** Half(n[3], f) = <<Whole(n[3], c, f), 0>>
    BY <1>1, <1>2
  <2> DEFINE h2 == Half(n[2], b)
             h1 == Half(n[1], a)
             h3 == Half(n[3], c)
             k2 == Half(n[2], e)
             k1 == Half(n[1], d)
             k3 == Half(n[3], f)
             x == Whole(n[2], b, e)
             y == Whole(n[1], a, d)
             z == Whole(n[3], c, f)
  <2>3. Term(n, a, b, c) = h2 ** (h1 ** h3) /\ Term(n, d, e, f) = k2 ** (k1 ** k3)
    BY DEF Term
  <2> HIDE DEF h1, h2, h3, k1, k2, k3, x, y, z
  <2>4. /\ h2 \in Surds /\ h1 \in Surds /\ h3 \in Surds
        /\ k2 \in Surds /\ k1 \in Surds /\ k3 \in Surds
        /\ x \in Int /\ y \in Int /\ z \in Int
        /\ h2 ** k2 = <<x, 0>> /\ h1 ** k1 = <<y, 0>> /\ h3 ** k3 = <<z, 0>>
    BY <2>1, <2>2, Zenon DEF h1, h2, h3, k1, k2, k3, x, y, z
  <2>5. Re(h2 ** (h1 ** h3), k2 ** (k1 ** k3)) = x * y * z
    <3>1. (h1 ** h3) ** (k1 ** k3) = <<y, 0>> ** <<z, 0>>
      BY <2>4, SurdsRegroup
    <3>2. h1 ** h3 \in Surds /\ k1 ** k3 \in Surds
      BY <2>4, SurdsClosed
    <3>3. (h2 ** (h1 ** h3)) ** (k2 ** (k1 ** k3)) = <<x, 0>> ** (<<y, 0>> ** <<z, 0>>)
      BY <2>4, <3>1, <3>2, SurdsRegroup
    <3>4. <<x, 0>> ** (<<y, 0>> ** <<z, 0>>) = <<x * y * z, 0>>
      BY <2>4 DEF **
    <3> QED
      BY <3>3, <3>4 DEF Re
  <2> QED
    BY <2>3, <2>5 DEF x, y, z
<1> QED
  BY <1>3, <1>4

\* The rational part of a product of two sums or differences.
LEMMA TwoByTwo ==
  ASSUME NEW u \in Surds, NEW v \in Surds, NEW w \in Surds, NEW t \in Surds
  PROVE  /\ Re(u ++ v, w ++ t) = Re(u, w) + Re(u, t) + Re(v, w) + Re(v, t)
         /\ Re(u ++ v, w -- t) = Re(u, w) - Re(u, t) + Re(v, w) - Re(v, t)
         /\ Re(u -- v, w ++ t) = Re(u, w) + Re(u, t) - Re(v, w) - Re(v, t)
         /\ Re(u -- v, w -- t) = Re(u, w) - Re(u, t) - Re(v, w) + Re(v, t)
<1>1. w ++ t \in Surds /\ w -- t \in Surds
  BY SurdsClosed
<1>2. /\ Re(u, w) \in Int /\ Re(u, t) \in Int /\ Re(v, w) \in Int /\ Re(v, t) \in Int
  BY SurdsClosed
<1>3. /\ Re(u ++ v, w ++ t) = Re(u, w ++ t) + Re(v, w ++ t)
      /\ Re(u ++ v, w -- t) = Re(u, w -- t) + Re(v, w -- t)
      /\ Re(u -- v, w ++ t) = Re(u, w ++ t) - Re(v, w ++ t)
      /\ Re(u -- v, w -- t) = Re(u, w -- t) - Re(v, w -- t)
  BY <1>1, SurdsDistribute
<1>4. /\ Re(u, w ++ t) = Re(u, w) + Re(u, t) /\ Re(v, w ++ t) = Re(v, w) + Re(v, t)
      /\ Re(u, w -- t) = Re(u, w) - Re(u, t) /\ Re(v, w -- t) = Re(v, w) - Re(v, t)
  BY SurdsDistribute
<1> QED
  BY <1>2, <1>3, <1>4

\* The components of the quaternion of rotations about three different axes, pairwise
\* multiplied, as the entries of a rotation matrix take them.
LEMMA ThreeAxes ==
  ASSUME NEW n \in [1 .. 3 -> Int]
  PROVE  LET q1 == Term(n, 1, 0, 0) -- Term(n, 0, 1, 1)
             q2 == Term(n, 1, 0, 1) ++ Term(n, 0, 1, 0)
             q3 == Term(n, 0, 0, 1) -- Term(n, 1, 1, 0)
             q4 == Term(n, 0, 0, 0) ++ Term(n, 1, 1, 1)
             C(k) == Cos(n[k])
             S(k) == Sin(n[k])
         IN /\ q1 \in Surds /\ q2 \in Surds /\ q3 \in Surds /\ q4 \in Surds
            /\ Re(q2, q2) + Re(q3, q3) = 4 * (1 - C(2) * C(3))
            /\ Re(q1, q1) + Re(q3, q3) = 4 * (1 - (C(1) * C(3) + S(1) * S(2) * S(3)))
            /\ Re(q1, q1) + Re(q2, q2) = 4 * (1 - C(1) * C(2))
            /\ Re(q1, q2) + Re(q3, q4) = 4 * (C(2) * S(3))
            /\ Re(q1, q2) - Re(q3, q4) = 4 * (S(1) * S(2) * C(3) - C(1) * S(3))
            /\ Re(q1, q3) + Re(q2, q4) = 4 * (C(1) * S(2) * C(3) + S(1) * S(3))
            /\ Re(q1, q3) - Re(q2, q4) = 4 * (-S(2))
            /\ Re(q2, q3) + Re(q1, q4) = 4 * (S(1) * C(2))
            /\ Re(q2, q3) - Re(q1, q4) = 4 * (C(1) * S(2) * S(3) - S(1) * C(3))
<1> DEFINE T(a, b, c) == Term(n, a, b, c)
           q1 == T(1, 0, 0) -- T(0, 1, 1)
           q2 == T(1, 0, 1) ++ T(0, 1, 0)
           q3 == T(0, 0, 1) -- T(1, 1, 0)
           q4 == T(0, 0, 0) ++ T(1, 1, 1)
           C1 == Cos(n[1])
           S1 == Sin(n[1])
           C2 == Cos(n[2])
           S2 == Sin(n[2])
           C3 == Cos(n[3])
           S3 == Sin(n[3])
<1>1. n[1] \in Int /\ n[2] \in Int /\ n[3] \in Int
  OBVIOUS
<1>2. C1 \in Int /\ C2 \in Int /\ C3 \in Int /\ S1 \in Int /\ S2 \in Int /\ S3 \in Int
  BY <1>1, HalfAngles
<1>3. \A a, b, c \in {0, 1} : T(a, b, c) \in Surds
  BY Terms
<1> DEFINE W1(a, d) == Whole(n[1], a, d)
           W2(b, e) == Whole(n[2], b, e)
           W3(c, f) == Whole(n[3], c, f)
<1>4. \A a, b, c, d, e, f \in {0, 1} : Re(T(a, b, c), T(d, e, f)) = W2(b, e) * W1(a, d) * W3(c, f)
  BY Terms
<1>5. W1(0, 0) = 1 + C1 /\ W1(1, 1) = 1 - C1 /\ W1(0, 1) = S1 /\ W1(1, 0) = S1
  BY DEF Whole
<1>6. W2(0, 0) = 1 + C2 /\ W2(1, 1) = 1 - C2 /\ W2(0, 1) = S2 /\ W2(1, 0) = S2
  BY DEF Whole
<1>7. W3(0, 0) = 1 + C3 /\ W3(1, 1) = 1 - C3 /\ W3(0, 1) = S3 /\ W3(1, 0) = S3
  BY DEF Whole
<1> HIDE DEF T, C1, C2, C3, S1, S2, S3, W1, W2, W3
<1>8. q1 \in Surds /\ q2 \in Surds /\ q3 \in Surds /\ q4 \in Surds
  BY <1>3, SurdsClosed
<1>9. Re(q1, q1) = (1 + C2) * (1 - C1) * (1 + C3) - S2 * S1 * S3
                   - S2 * S1 * S3 + (1 - C2) * (1 + C1) * (1 - C3)
  <2>1. Re(q1, q1) = Re(T(1, 0, 0), T(1, 0, 0)) - Re(T(1, 0, 0), T(0, 1, 1))
           - Re(T(0, 1, 1), T(1, 0, 0)) + Re(T(0, 1, 1), T(0, 1, 1))
    BY <1>3, TwoByTwo
  <2> QED
    BY <2>1, <1>4, <1>5, <1>6, <1>7
<1>10. Re(q1, q2) = (1 + C2) * (1 - C1) * S3 + S2 * S1 * (1 + C3)
                   - S2 * S1 * (1 - C3) - (1 - C2) * (1 + C1) * S3
  <2>1. Re(q1, q2) = Re(T(1, 0, 0), T(1, 0, 1)) + Re(T(1, 0, 0), T(0, 1, 0))
           - Re(T(0, 1, 1), T(1, 0, 1)) - Re(T(0, 1, 1), T(0, 1, 0))
    BY <1>3, TwoByTwo
  <2> QED
    BY <2>1, <1>4, <1>5, <1>6, <1>7
<1>11. Re(q1, q3) = (1 + C2) * S1 * S3 - S2 * (1 - C1) * (1 + C3)
                   - S2 * (1 + C1) * (1 - C3) + (1 - C2) * S1 * S3
  <2>1. Re(q1, q3) = Re(T(1, 0, 0), T(0, 0, 1)) - Re(T(1, 0, 0), T(1, 1, 0))
           - Re(T(0, 1, 1), T(0, 0, 1)) + Re(T(0, 1, 1), T(1, 1, 0))
    BY <1>3, TwoByTwo
  <2> QED
    BY <2>1, <1>4, <1>5, <1>6, <1>7
<1>12. Re(q1, q4) = (1 + C2) * S1 * (1 + C3) + S2 * (1 - C1) * S3
                   - S2 * (1 + C1) * S3 - (1 - C2) * S1 * (1 - C3)
  <2>1. Re(q1, q4) = Re(T(1, 0, 0), T(0, 0, 0)) + Re(T(1, 0, 0), T(1, 1, 1))
           - Re(T(0, 1, 1), T(0, 0, 0)) - Re(T(0, 1, 1), T(1, 1, 1))
    BY <1>3, TwoByTwo
  <2> QED
    BY <2>1, <1>4, <1>5, <1>6, <1>7
<1>13. Re(q2, q2) = (1 + C2) * (1 - C1) * (1 - C3) + S2 * S1 * S3
                   + S2 * S1 * S3 + (1 - C2) * (1 + C1) * (1 + C3)
  <2>1. Re(q2, q2) = Re(T(1, 0, 1), T(1, 0, 1)) + Re(T(1, 0, 1), T(0, 1, 0))
           + Re(T(0, 1, 0), T(1, 0, 1)) + Re(T(0, 1, 0), T(0, 1, 0))
    BY <1>3, TwoByTwo
  <2> QED
    BY <2>1, <1>4, <1>5, <1>6, <1>7
<1>14. Re(q2, q3) = (1 + C2) * S1 * (1 - C3) - S2 * (1 - C1) * S3
                   + S2 * (1 + C1) * S3 - (1 - C2) * S1 * (1 + C3)
  <2>1. Re(q2, q3) = Re(T(1, 0, 1), T(0, 0, 1)) - Re(T(1, 0, 1), T(1, 1, 0))
           + Re(T(0, 1, 0), T(0, 0, 1)) - Re(T(0, 1, 0), T(1, 1, 0))
    BY <1>3, TwoByTwo
  <2> QED
    BY <2>1, <1>4, <1>5, <1>6, <1>7
<1>15. Re(q2, q4) = (1 + C2) * S1 * S3 + S2 * (1 - C1) * (1 - C3)
                   + S2 * (1 + C1) * (1 + C3) + (1 - C2) * S1 * S3
  <2>1. Re(q2, q4) = Re(T(1, 0, 1), T(0, 0, 0)) + Re(T(1, 0, 1), T(1, 1, 1))
           + Re(T(0, 1, 0), T(0, 0, 0)) + Re(T(0, 1, 0), T(1, 1, 1))
    BY <1>3, TwoByTwo
  <2> QED
    BY <2>1, <1>4, <1>5, <1>6, <1>7
<1>16. Re(q3, q3) = (1 + C2) * (1 + C1) * (1 - C3) - S2 * S1 * S3
                   - S2 * S1 * S3 + (1 - C2) * (1 - C1) * (1 + C3)
  <2>1. Re(q3, q3) = Re(T(0, 0, 1), T(0, 0, 1)) - Re(T(0, 0, 1), T(1, 1, 0))
           - Re(T(1, 1, 0), T(0, 0, 1)) + Re(T(1, 1, 0), T(1, 1, 0))
    BY <1>3, TwoByTwo
  <2> QED
    BY <2>1, <1>4, <1>5, <1>6, <1>7
<1>17. Re(q3, q4) = (1 + C2) * (1 + C1) * S3 + S2 * S1 * (1 - C3)
                   - S2 * S1 * (1 + C3) - (1 - C2) * (1 - C1) * S3
  <2>1. Re(q3, q4) = Re(T(0, 0, 1), T(0, 0, 0)) + Re(T(0, 0, 1), T(1, 1, 1))
           - Re(T(1, 1, 0), T(0, 0, 0)) - Re(T(1, 1, 0), T(1, 1, 1))
    BY <1>3, TwoByTwo
  <2> QED
    BY <2>1, <1>4, <1>5, <1>6, <1>7
<1> HIDE DEF q1, q2, q3, q4
<1>18. Re(q2, q2) + Re(q3, q3) = 4 * (1 - C2 * C3)
  BY <1>2, <1>13, <1>16
<1>19. Re(q1, q1) + Re(q3, q3) = 4 * (1 - (C1 * C3 + S1 * S2 * S3))
  BY <1>2, <1>9, <1>16
<1>20. Re(q1, q1) + Re(q2, q2) = 4 * (1 - C1 * C2)
  BY <1>2, <1>9, <1>13
<1>21. Re(q1, q2) + Re(q3, q4) = 4 * (C2 * S3)
  BY <1>2, <1>10, <1>17
<1>22. Re(q1, q2) - Re(q3, q4) = 4 * (S1 * S2 * C3 - C1 * S3)
  BY <1>2, <1>10, <1>17
<1>23. Re(q1, q3) + Re(q2, q4) = 4 * (C1 * S2 * C3 + S1 * S3)
  BY <1>2, <1>11, <1>15
<1>24. Re(q1, q3) - Re(q2, q4) = 4 * (-S2)
  BY <1>2, <1>11, <1>15
<1>25. Re(q2, q3) + Re(q1, q4) = 4 * (S1 * C2)
  BY <1>2, <1>12, <1>14
<1>26. Re(q2, q3) - Re(q1, q4) = 4 * (C1 * S2 * S3 - S1 * C3)
  BY <1>2, <1>12, <1>14
<1> QED
  BY <1>8, <1>18, <1>19, <1>20, <1>21, <1>22, <1>23, <1>24, <1>25, <1>26 DEF q1, q2, q3, q4, C1, C2, C3, S1, S2, S3, T

\* The same where the last rotation is about the first axis again.
LEMMA TwoAxes ==
  ASSUME NEW n \in [1 .. 3 -> Int]
  PROVE  LET q1 == Term(n, 0, 0, 1) ++ Term(n, 1, 0, 0)
             q2 == Term(n, 0, 1, 0) ++ Term(n, 1, 1, 1)
             q3 == Term(n, 0, 1, 1) -- Term(n, 1, 1, 0)
             q4 == Term(n, 0, 0, 0) -- Term(n, 1, 0, 1)
             C(k) == Cos(n[k])
             S(k) == Sin(n[k])
         IN /\ q1 \in Surds /\ q2 \in Surds /\ q3 \in Surds /\ q4 \in Surds
            /\ Re(q2, q2) + Re(q3, q3) = 4 * (1 - C(2))
            /\ Re(q1, q1) + Re(q3, q3) = 4 * (1 - (C(1) * C(3) - S(1) * C(2) * S(3)))
            /\ Re(q1, q1) + Re(q2, q2) = 4 * (1 - (C(1) * C(2) * C(3) - S(1) * S(3)))
            /\ Re(q1, q2) + Re(q3, q4) = 4 * (S(2) * S(3))
            /\ Re(q1, q2) - Re(q3, q4) = 4 * (S(1) * S(2))
            /\ Re(q1, q3) + Re(q2, q4) = 4 * (C(1) * S(2))
            /\ Re(q1, q3) - Re(q2, q4) = 4 * (-(S(2) * C(3)))
            /\ Re(q2, q3) + Re(q1, q4) = 4 * (C(1) * S(3) + S(1) * C(2) * C(3))
            /\ Re(q2, q3) - Re(q1, q4) = 4 * (-(S(1) * C(3)) - C(1) * C(2) * S(3))
<1> DEFINE T(a, b, c) == Term(n, a, b, c)
           q1 == T(0, 0, 1) ++ T(1, 0, 0)
           q2 == T(0, 1, 0) ++ T(1, 1, 1)
           q3 == T(0, 1, 1) -- T(1, 1, 0)
           q4 == T(0, 0, 0) -- T(1, 0, 1)
           C1 == Cos(n[1])
           S1 == Sin(n[1])
           C2 == Cos(n[2])
           S2 == Sin(n[2])
           C3 == Cos(n[3])
           S3 == Sin(n[3])
<1>1. n[1] \in Int /\ n[2] \in Int /\ n[3] \in Int
  OBVIOUS
<1>2. C1 \in Int /\ C2 \in Int /\ C3 \in Int /\ S1 \in Int /\ S2 \in Int /\ S3 \in Int
  BY <1>1, HalfAngles
<1>3. \A a, b, c \in {0, 1} : T(a, b, c) \in Surds
  BY Terms
<1> DEFINE W1(a, d) == Whole(n[1], a, d)
           W2(b, e) == Whole(n[2], b, e)
           W3(c, f) == Whole(n[3], c, f)
<1>4. \A a, b, c, d, e, f \in {0, 1} : Re(T(a, b, c), T(d, e, f)) = W2(b, e) * W1(a, d) * W3(c, f)
  BY Terms
<1>5. W1(0, 0) = 1 + C1 /\ W1(1, 1) = 1 - C1 /\ W1(0, 1) = S1 /\ W1(1, 0) = S1
  BY DEF Whole
<1>6. W2(0, 0) = 1 + C2 /\ W2(1, 1) = 1 - C2 /\ W2(0, 1) = S2 /\ W2(1, 0) = S2
  BY DEF Whole
<1>7. W3(0, 0) = 1 + C3 /\ W3(1, 1) = 1 - C3 /\ W3(0, 1) = S3 /\ W3(1, 0) = S3
  BY DEF Whole
<1> HIDE DEF T, C1, C2, C3, S1, S2, S3, W1, W2, W3
<1>8. q1 \in Surds /\ q2 \in Surds /\ q3 \in Surds /\ q4 \in Surds
  BY <1>3, SurdsClosed
<1>9. Re(q1, q1) = (1 + C2) * (1 + C1) * (1 - C3) + (1 + C2) * S1 * S3
                   + (1 + C2) * S1 * S3 + (1 + C2) * (1 - C1) * (1 + C3)
  <2>1. Re(q1, q1) = Re(T(0, 0, 1), T(0, 0, 1)) + Re(T(0, 0, 1), T(1, 0, 0))
           + Re(T(1, 0, 0), T(0, 0, 1)) + Re(T(1, 0, 0), T(1, 0, 0))
    BY <1>3, TwoByTwo
  <2> QED
    BY <2>1, <1>4, <1>5, <1>6, <1>7
<1>10. Re(q1, q2) = S2 * (1 + C1) * S3 + S2 * S1 * (1 - C3)
                   + S2 * S1 * (1 + C3) + S2 * (1 - C1) * S3
  <2>1. Re(q1, q2) = Re(T(0, 0, 1), T(0, 1, 0)) + Re(T(0, 0, 1), T(1, 1, 1))
           + Re(T(1, 0, 0), T(0, 1, 0)) + Re(T(1, 0, 0), T(1, 1, 1))
    BY <1>3, TwoByTwo
  <2> QED
    BY <2>1, <1>4, <1>5, <1>6, <1>7
<1>11. Re(q1, q3) = S2 * (1 + C1) * (1 - C3) - S2 * S1 * S3
                   + S2 * S1 * S3 - S2 * (1 - C1) * (1 + C3)
  <2>1. Re(q1, q3) = Re(T(0, 0, 1), T(0, 1, 1)) - Re(T(0, 0, 1), T(1, 1, 0))
           + Re(T(1, 0, 0), T(0, 1, 1)) - Re(T(1, 0, 0), T(1, 1, 0))
    BY <1>3, TwoByTwo
  <2> QED
    BY <2>1, <1>4, <1>5, <1>6, <1>7
<1>12. Re(q1, q4) = (1 + C2) * (1 + C1) * S3 - (1 + C2) * S1 * (1 - C3)
                   + (1 + C2) * S1 * (1 + C3) - (1 + C2) * (1 - C1) * S3
  <2>1. Re(q1, q4) = Re(T(0, 0, 1), T(0, 0, 0)) - Re(T(0, 0, 1), T(1, 0, 1))
           + Re(T(1, 0, 0), T(0, 0, 0)) - Re(T(1, 0, 0), T(1, 0, 1))
    BY <1>3, TwoByTwo
  <2> QED
    BY <2>1, <1>4, <1>5, <1>6, <1>7
<1>13. Re(q2, q2) = (1 - C2) * (1 + C1) * (1 + C3) + (1 - C2) * S1 * S3
                   + (1 - C2) * S1 * S3 + (1 - C2) * (1 - C1) * (1 - C3)
  <2>1. Re(q2, q2) = Re(T(0, 1, 0), T(0, 1, 0)) + Re(T(0, 1, 0), T(1, 1, 1))
           + Re(T(1, 1, 1), T(0, 1, 0)) + Re(T(1, 1, 1), T(1, 1, 1))
    BY <1>3, TwoByTwo
  <2> QED
    BY <2>1, <1>4, <1>5, <1>6, <1>7
<1>14. Re(q2, q3) = (1 - C2) * (1 + C1) * S3 - (1 - C2) * S1 * (1 + C3)
                   + (1 - C2) * S1 * (1 - C3) - (1 - C2) * (1 - C1) * S3
  <2>1. Re(q2, q3) = Re(T(0, 1, 0), T(0, 1, 1)) - Re(T(0, 1, 0), T(1, 1, 0))
           + Re(T(1, 1, 1), T(0, 1, 1)) - Re(T(1, 1, 1), T(1, 1, 0))
    BY <1>3, TwoByTwo
  <2> QED
    BY <2>1, <1>4, <1>5, <1>6, <1>7
<1>15. Re(q2, q4) = S2 * (1 + C1) * (1 + C3) - S2 * S1 * S3
                   + S2 * S1 * S3 - S2 * (1 - C1) * (1 - C3)
  <2>1. Re(q2, q4) = Re(T(0, 1, 0), T(0, 0, 0)) - Re(T(0, 1, 0), T(1, 0, 1))
           + Re(T(1, 1, 1), T(0, 0, 0)) - Re(T(1, 1, 1), T(1, 0, 1))
    BY <1>3, TwoByTwo
  <2> QED
    BY <2>1, <1>4, <1>5, <1>6, <1>7
<1>16. Re(q3, q3) = (1 - C2) * (1 + C1) * (1 - C3) - (1 - C2) * S1 * S3
                   - (1 - C2) * S1 * S3 + (1 - C2) * (1 - C1) * (1 + C3)
  <2>1. Re(q3, q3) = Re(T(0, 1, 1), T(0, 1, 1)) - Re(T(0, 1, 1), T(1, 1, 0))
           - Re(T(1, 1, 0), T(0, 1, 1)) + Re(T(1, 1, 0), T(1, 1, 0))
    BY <1>3, TwoByTwo
  <2> QED
    BY <2>1, <1>4, <1>5, <1>6, <1>7
<1>17. Re(q3, q4) = S2 * (1 + C1) * S3 - S2 * S1 * (1 - C3)
                   - S2 * S1 * (1 + C3) + S2 * (1 - C1) * S3
  <2>1. Re(q3, q4) = Re(T(0, 1, 1), T(0, 0, 0)) - Re(T(0, 1, 1), T(1, 0, 1))
           - Re(T(1, 1, 0), T(0, 0, 0)) + Re(T(1, 1, 0), T(1, 0, 1))
    BY <1>3, TwoByTwo
  <2> QED
    BY <2>1, <1>4, <1>5, <1>6, <1>7
<1> HIDE DEF q1, q2, q3, q4
<1>18. Re(q2, q2) + Re(q3, q3) = 4 * (1 - C2)
  BY <1>2, <1>13, <1>16
<1>19. Re(q1, q1) + Re(q3, q3) = 4 * (1 - (C1 * C3 - S1 * C2 * S3))
  BY <1>2, <1>9, <1>16
<1>20. Re(q1, q1) + Re(q2, q2) = 4 * (1 - (C1 * C2 * C3 - S1 * S3))
  BY <1>2, <1>9, <1>13
<1>21. Re(q1, q2) + Re(q3, q4) = 4 * (S2 * S3)
  BY <1>2, <1>10, <1>17
<1>22. Re(q1, q2) - Re(q3, q4) = 4 * (S1 * S2)
  BY <1>2, <1>10, <1>17
<1>23. Re(q1, q3) + Re(q2, q4) = 4 * (C1 * S2)
  BY <1>2, <1>11, <1>15
<1>24. Re(q1, q3) - Re(q2, q4) = 4 * (-(S2 * C3))
  BY <1>2, <1>11, <1>15
<1>25. Re(q2, q3) + Re(q1, q4) = 4 * (C1 * S3 + S1 * C2 * C3)
  BY <1>2, <1>12, <1>14
<1>26. Re(q2, q3) - Re(q1, q4) = 4 * (-(S1 * C3) - C1 * C2 * S3)
  BY <1>2, <1>12, <1>14
<1> QED
  BY <1>8, <1>18, <1>19, <1>20, <1>21, <1>22, <1>23, <1>24, <1>25, <1>26 DEF q1, q2, q3, q4, C1, C2, C3, S1, S2, S3, T
-----------------------------------------------------------------------------
(* Matrices *)

Matrix == [1 .. 3 -> [1 .. 3 -> Int]]

\* The axes in the order a sequence takes them; sg is 1 if that goes round, -1 if against.
Order(i, j, k, sg) ==
  <<i, j, k, sg>> \in {<<1, 2, 3, 1>>, <<2, 3, 1, 1>>, <<3, 1, 2, 1>>,
                       <<1, 3, 2, -1>>, <<2, 1, 3, -1>>, <<3, 2, 1, -1>>}

\* Every sequence is one of them.
LEMMA Orders ==
  ASSUME NEW axes \in AXES
  PROVE  Order(axes.first, Second(axes), Third(axes), 1 - 2 * axes.parity)
<1> DEFINE f == axes.first
           p == axes.parity
<1>1. f \in 1 .. 3 /\ p \in {0, 1}
  BY DEF AXES
<1>2. Second(axes) = <<2, 3, 1, 2>>[f + p] /\ Third(axes) = <<2, 3, 1, 2>>[f - p + 1]
  BY DEF Second, Third, NEXT_AXIS
<1> HIDE DEF f, p
<1>3. (f = 1 \/ f = 2 \/ f = 3) /\ (p = 0 \/ p = 1)
  BY <1>1
<1>4. Order(f, Second(axes), Third(axes), 1 - 2 * p)
  <2>1. CASE p = 0
    <3>1. 1 - 2 * p = 1 /\ Second(axes) = <<2, 3, 1, 2>>[f] /\ Third(axes) = <<2, 3, 1, 2>>[f + 1]
      BY <1>1, <1>2, <2>1
    <3> QED
      BY <1>3, <3>1 DEF Order
  <2>2. CASE p = 1
    <3>1. 1 - 2 * p = -1 /\ Second(axes) = <<2, 3, 1, 2>>[f + 1] /\ Third(axes) = <<2, 3, 1, 2>>[f]
      BY <1>1, <1>2, <2>2
    <3> QED
      BY <1>3, <3>1 DEF Order
  <2> QED
    BY <1>3, <2>1, <2>2
<1> QED
  BY <1>4 DEF f, p

\* The axes of an order are the three.
LEMMA ThreeIndices ==
  ASSUME NEW i, NEW j, NEW k, NEW sg, Order(i, j, k, sg)
  PROVE  /\ i \in 1 .. 3 /\ j \in 1 .. 3 /\ k \in 1 .. 3 /\ (sg = 1 \/ sg = -1)
         /\ \A r \in 1 .. 3 : r = i \/ r = j \/ r = k
         /\ i # j /\ j # k /\ i # k
         /\ Order(j, k, i, sg) /\ Order(k, i, j, sg)
BY DEF Order

\* Matrices with the same entries are the same.
LEMMA Entrywise ==
  ASSUME NEW M \in Matrix, NEW N \in Matrix,
         \A r, c \in 1 .. 3 : M[r][c] = N[r][c]
  PROVE  M = N
<1>1. ASSUME NEW r \in 1 .. 3
      PROVE  M[r] = N[r]
  <2>1. M[r] \in [1 .. 3 -> Int] /\ N[r] \in [1 .. 3 -> Int]
    BY DEF Matrix
  <2> QED
    BY <2>1
<1> QED
  BY <1>1 DEF Matrix

\* A product adds up over the axes in any order.
LEMMA TimesEntries ==
  ASSUME NEW A \in Matrix, NEW B \in Matrix, NEW i, NEW j, NEW k, NEW sg, Order(i, j, k, sg)
  PROVE  /\ Times(A, B) \in Matrix
         /\ \A r, c \in 1 .. 3 : Times(A, B)[r][c] = A[r][i] * B[i][c] + A[r][j] * B[j][c] + A[r][k] * B[k][c]
<1>1. ASSUME NEW r \in 1 .. 3, NEW c \in 1 .. 3
      PROVE  /\ A[r][1] \in Int /\ A[r][2] \in Int /\ A[r][3] \in Int
             /\ B[1][c] \in Int /\ B[2][c] \in Int /\ B[3][c] \in Int
  BY DEF Matrix
<1>2. Times(A, B) \in Matrix
  BY <1>1 DEF Times, Matrix
<1>3. ASSUME NEW r \in 1 .. 3, NEW c \in 1 .. 3
      PROVE  Times(A, B)[r][c] = A[r][i] * B[i][c] + A[r][j] * B[j][c] + A[r][k] * B[k][c]
  <2>1. Times(A, B)[r][c] = A[r][1] * B[1][c] + A[r][2] * B[2][c] + A[r][3] * B[3][c]
    BY DEF Times
  <2> DEFINE x(n) == A[r][n] * B[n][c]
  <2>2. x(1) \in Int /\ x(2) \in Int /\ x(3) \in Int
    BY <1>1
  <2>3. Times(A, B)[r][c] = x(1) + x(2) + x(3)
    BY <2>1
  <2> HIDE DEF x
  <2>4. Times(A, B)[r][c] = x(i) + x(j) + x(k)
    BY <2>2, <2>3 DEF Order
  <2> QED
    BY <2>4 DEF x
<1> QED
  BY <1>2, <1>3

-----------------------------------------------------------------------------
(* The entries of a rotation *)

\* M turns about i, from j to k, by an angle with cosine c and sine s.
Turns1(M, i, j, k, c, s) ==
  /\ M[i][i] = 1 /\ M[i][j] = 0 /\ M[i][k] = 0
  /\ M[j][i] = 0 /\ M[j][j] = c /\ M[j][k] = -s
  /\ M[k][i] = 0 /\ M[k][j] = s /\ M[k][k] = c

\* About does.
LEMMA AboutTurns ==
  ASSUME NEW i, NEW j, NEW k, NEW sg, Order(i, j, k, sg), NEW a \in Int
  PROVE  About(i, a) \in Matrix /\ Turns1(About(i, a), i, j, k, Cos(a), sg * Sin(a))
<1> DEFINE turn == <<<<1, 0>>, <<0, 1>>, <<-1, 0>>, <<0, -1>>>>[(a % 4) + 1]
           b == NEXT_AXIS[i]
           c == NEXT_AXIS[b]
           M == [r \in 1 .. 3 |-> [s \in 1 .. 3 |->
                  CASE r = i /\ s = i -> 1 [] r = s /\ r # i -> turn[1] [] r = c /\ s = b -> turn[2]
                    [] r = b /\ s = c -> -turn[2] [] OTHER -> 0]]
<1>1. About(i, a) = M
  BY DEF About
<1>2. turn[1] = Cos(a) /\ turn[2] = Sin(a)
  <2>1. a % 4 \in 0 .. 3
    OBVIOUS
  <2> QED
    BY <2>1 DEF Cos, Sin
<1>3. Cos(a) \in Int /\ Sin(a) \in Int
  BY HalfAngles
<1>4. /\ b \in 1 .. 3 /\ c \in 1 .. 3 /\ i \in 1 .. 3 /\ i # b /\ b # c /\ i # c
      /\ (sg = 1 /\ j = b /\ k = c) \/ (sg = -1 /\ j = c /\ k = b)
  <2>1. i \in {1, 2, 3} /\ (i = 1 => b = 2 /\ c = 3) /\ (i = 2 => b = 3 /\ c = 1) /\ (i = 3 => b = 1 /\ c = 2)
    BY DEF Order, NEXT_AXIS
  <2> HIDE DEF b, c
  <2> QED
    BY <2>1 DEF Order
<1> HIDE DEF turn, b, c
<1>5. M \in Matrix
  BY <1>2, <1>3 DEF Matrix
<1>6. /\ M[i][i] = 1 /\ M[i][b] = 0 /\ M[i][c] = 0
      /\ M[b][i] = 0 /\ M[b][b] = Cos(a) /\ M[b][c] = -Sin(a)
      /\ M[c][i] = 0 /\ M[c][b] = Sin(a) /\ M[c][c] = Cos(a)
  BY <1>2, <1>4
<1> HIDE DEF M
<1>7. Turns1(M, i, j, k, Cos(a), sg * Sin(a))
  BY <1>3, <1>4, <1>6 DEF Turns1
<1> QED
  BY <1>1, <1>5, <1>7

\* The entries of a rotation by n[1] about i, then n[2] about j, then n[3] about k.
ThreeTurned(M, i, j, k, sg, n) ==
  LET C(m) == Cos(n[m])
      S(m) == Sin(n[m])
  IN /\ M[i][i] = C(2) * C(3)
     /\ M[i][j] = S(1) * S(2) * C(3) - sg * (C(1) * S(3))
     /\ M[i][k] = sg * (C(1) * S(2) * C(3)) + S(1) * S(3)
     /\ M[j][i] = sg * (C(2) * S(3))
     /\ M[j][j] = C(1) * C(3) + sg * (S(1) * S(2) * S(3))
     /\ M[j][k] = C(1) * S(2) * S(3) - sg * (S(1) * C(3))
     /\ M[k][i] = -(sg * S(2))
     /\ M[k][j] = sg * (S(1) * C(2))
     /\ M[k][k] = C(1) * C(2)

\* By n[1] about i, then n[2] about j, then n[3] about i again.
TwoTurned(M, i, j, k, sg, n) ==
  LET C(m) == Cos(n[m])
      S(m) == Sin(n[m])
  IN /\ M[i][i] = C(2)
     /\ M[i][j] = S(1) * S(2)
     /\ M[i][k] = sg * (C(1) * S(2))
     /\ M[j][i] = S(2) * S(3)
     /\ M[j][j] = C(1) * C(3) - S(1) * C(2) * S(3)
     /\ M[j][k] = -(sg * (S(1) * C(3) + C(1) * C(2) * S(3)))
     /\ M[k][i] = -(sg * (S(2) * C(3)))
     /\ M[k][j] = sg * (C(1) * S(3) + S(1) * C(2) * C(3))
     /\ M[k][k] = C(1) * C(2) * C(3) - S(1) * S(3)

\* The rotations have them.
LEMMA TurnedEntries ==
  ASSUME NEW i, NEW j, NEW k, NEW sg, Order(i, j, k, sg), NEW n \in [1 .. 3 -> Int]
  PROVE  LET B == Times(About(j, n[2]), About(i, n[1])) IN
           /\ Times(About(k, n[3]), B) \in Matrix /\ ThreeTurned(Times(About(k, n[3]), B), i, j, k, sg, n)
           /\ Times(About(i, n[3]), B) \in Matrix /\ TwoTurned(Times(About(i, n[3]), B), i, j, k, sg, n)
<1> DEFINE A1 == About(i, n[1])
           A2 == About(j, n[2])
           A3 == About(k, n[3])
           A4 == About(i, n[3])
           B == Times(A2, A1)
           C1 == Cos(n[1])
           C2 == Cos(n[2])
           C3 == Cos(n[3])
           S1 == Sin(n[1])
           S2 == Sin(n[2])
           S3 == Sin(n[3])
<1>1. n[1] \in Int /\ n[2] \in Int /\ n[3] \in Int
  OBVIOUS
<1>2. C1 \in Int /\ C2 \in Int /\ C3 \in Int /\ S1 \in Int /\ S2 \in Int /\ S3 \in Int
  BY <1>1, HalfAngles
<1>3. /\ i \in 1 .. 3 /\ j \in 1 .. 3 /\ k \in 1 .. 3 /\ (sg = 1 \/ sg = -1)
      /\ Order(j, k, i, sg) /\ Order(k, i, j, sg)
  BY ThreeIndices
<1>4. /\ A1 \in Matrix /\ Turns1(A1, i, j, k, C1, sg * S1)
      /\ A2 \in Matrix /\ Turns1(A2, j, k, i, C2, sg * S2)
      /\ A3 \in Matrix /\ Turns1(A3, k, i, j, C3, sg * S3)
      /\ A4 \in Matrix /\ Turns1(A4, i, j, k, C3, sg * S3)
  BY <1>1, <1>3, AboutTurns
<1> HIDE DEF A1, A2, A3, A4, C1, C2, C3, S1, S2, S3
<1>5. /\ B \in Matrix
      /\ \A r, c \in 1 .. 3 : B[r][c] = A2[r][i] * A1[i][c] + A2[r][j] * A1[j][c] + A2[r][k] * A1[k][c]
  BY <1>4, TimesEntries
<1> HIDE DEF B
<1>6. /\ B[i][i] = C2 /\ B[i][j] = S1 * S2 /\ B[i][k] = sg * (C1 * S2)
      /\ B[j][i] = 0 /\ B[j][j] = C1 /\ B[j][k] = -(sg * S1)
      /\ B[k][i] = -(sg * S2) /\ B[k][j] = sg * (S1 * C2) /\ B[k][k] = C1 * C2
  <2>1. /\ B[i][i] = A2[i][i] * A1[i][i] + A2[i][j] * A1[j][i] + A2[i][k] * A1[k][i]
       /\ B[i][j] = A2[i][i] * A1[i][j] + A2[i][j] * A1[j][j] + A2[i][k] * A1[k][j]
       /\ B[i][k] = A2[i][i] * A1[i][k] + A2[i][j] * A1[j][k] + A2[i][k] * A1[k][k]
    BY <1>3, <1>5
  <2>2. B[i][i] = C2 /\ B[i][j] = S1 * S2 /\ B[i][k] = sg * (C1 * S2)
    BY <1>2, <1>3, <1>4, <2>1 DEF Turns1
  <2>3. /\ B[j][i] = A2[j][i] * A1[i][i] + A2[j][j] * A1[j][i] + A2[j][k] * A1[k][i]
       /\ B[j][j] = A2[j][i] * A1[i][j] + A2[j][j] * A1[j][j] + A2[j][k] * A1[k][j]
       /\ B[j][k] = A2[j][i] * A1[i][k] + A2[j][j] * A1[j][k] + A2[j][k] * A1[k][k]
    BY <1>3, <1>5
  <2>4. B[j][i] = 0 /\ B[j][j] = C1 /\ B[j][k] = -(sg * S1)
    BY <1>2, <1>3, <1>4, <2>3 DEF Turns1
  <2>5. /\ B[k][i] = A2[k][i] * A1[i][i] + A2[k][j] * A1[j][i] + A2[k][k] * A1[k][i]
       /\ B[k][j] = A2[k][i] * A1[i][j] + A2[k][j] * A1[j][j] + A2[k][k] * A1[k][j]
       /\ B[k][k] = A2[k][i] * A1[i][k] + A2[k][j] * A1[j][k] + A2[k][k] * A1[k][k]
    BY <1>3, <1>5
  <2>6. B[k][i] = -(sg * S2) /\ B[k][j] = sg * (S1 * C2) /\ B[k][k] = C1 * C2
    BY <1>2, <1>3, <1>4, <2>5 DEF Turns1
  <2> QED
    BY <2>2, <2>4, <2>6
<1>7. /\ Times(A3, B) \in Matrix
      /\ \A r, c \in 1 .. 3 : Times(A3, B)[r][c] = A3[r][i] * B[i][c] + A3[r][j] * B[j][c] + A3[r][k] * B[k][c]
  BY <1>4, <1>5, TimesEntries
<1>8. /\ Times(A4, B) \in Matrix
      /\ \A r, c \in 1 .. 3 : Times(A4, B)[r][c] = A4[r][i] * B[i][c] + A4[r][j] * B[j][c] + A4[r][k] * B[k][c]
  BY <1>4, <1>5, TimesEntries
<1> DEFINE M == Times(A3, B)
           N == Times(A4, B)
<1> HIDE DEF M, N
<1>9. /\ M[i][i] = C2 * C3 /\ M[i][j] = S1 * S2 * C3 - sg * (C1 * S3) /\ M[i][k] = sg * (C1 * S2 * C3) + S1 * S3
      /\ M[j][i] = sg * (C2 * S3) /\ M[j][j] = C1 * C3 + sg * (S1 * S2 * S3) /\ M[j][k] = C1 * S2 * S3 - sg * (S1 * C3)
      /\ M[k][i] = -(sg * S2) /\ M[k][j] = sg * (S1 * C2) /\ M[k][k] = C1 * C2
  <2>1. \A r, c \in 1 .. 3 : M[r][c] = A3[r][i] * B[i][c] + A3[r][j] * B[j][c] + A3[r][k] * B[k][c]
    BY <1>7 DEF M
  <2>2. /\ M[i][i] = A3[i][i] * B[i][i] + A3[i][j] * B[j][i] + A3[i][k] * B[k][i]
       /\ M[i][j] = A3[i][i] * B[i][j] + A3[i][j] * B[j][j] + A3[i][k] * B[k][j]
       /\ M[i][k] = A3[i][i] * B[i][k] + A3[i][j] * B[j][k] + A3[i][k] * B[k][k]
    BY <1>3, <2>1
  <2>3. M[i][i] = C2 * C3 /\ M[i][j] = S1 * S2 * C3 - sg * (C1 * S3) /\ M[i][k] = sg * (C1 * S2 * C3) + S1 * S3
    BY <1>2, <1>3, <1>4, <1>6, <2>2 DEF Turns1
  <2>4. /\ M[j][i] = A3[j][i] * B[i][i] + A3[j][j] * B[j][i] + A3[j][k] * B[k][i]
       /\ M[j][j] = A3[j][i] * B[i][j] + A3[j][j] * B[j][j] + A3[j][k] * B[k][j]
       /\ M[j][k] = A3[j][i] * B[i][k] + A3[j][j] * B[j][k] + A3[j][k] * B[k][k]
    BY <1>3, <2>1
  <2>5. M[j][i] = sg * (C2 * S3) /\ M[j][j] = C1 * C3 + sg * (S1 * S2 * S3) /\ M[j][k] = C1 * S2 * S3 - sg * (S1 * C3)
    BY <1>2, <1>3, <1>4, <1>6, <2>4 DEF Turns1
  <2>6. /\ M[k][i] = A3[k][i] * B[i][i] + A3[k][j] * B[j][i] + A3[k][k] * B[k][i]
       /\ M[k][j] = A3[k][i] * B[i][j] + A3[k][j] * B[j][j] + A3[k][k] * B[k][j]
       /\ M[k][k] = A3[k][i] * B[i][k] + A3[k][j] * B[j][k] + A3[k][k] * B[k][k]
    BY <1>3, <2>1
  <2>7. M[k][i] = -(sg * S2) /\ M[k][j] = sg * (S1 * C2) /\ M[k][k] = C1 * C2
    BY <1>2, <1>3, <1>4, <1>6, <2>6 DEF Turns1
  <2> QED
    BY <2>3, <2>5, <2>7
<1>10. /\ N[i][i] = C2 /\ N[i][j] = S1 * S2 /\ N[i][k] = sg * (C1 * S2)
       /\ N[j][i] = S2 * S3 /\ N[j][j] = C1 * C3 - S1 * C2 * S3 /\ N[j][k] = -(sg * (S1 * C3 + C1 * C2 * S3))
       /\ N[k][i] = -(sg * (S2 * C3)) /\ N[k][j] = sg * (C1 * S3 + S1 * C2 * C3) /\ N[k][k] = C1 * C2 * C3 - S1 * S3
  <2>1. \A r, c \in 1 .. 3 : N[r][c] = A4[r][i] * B[i][c] + A4[r][j] * B[j][c] + A4[r][k] * B[k][c]
    BY <1>8 DEF N
  <2>2. /\ N[i][i] = A4[i][i] * B[i][i] + A4[i][j] * B[j][i] + A4[i][k] * B[k][i]
       /\ N[i][j] = A4[i][i] * B[i][j] + A4[i][j] * B[j][j] + A4[i][k] * B[k][j]
       /\ N[i][k] = A4[i][i] * B[i][k] + A4[i][j] * B[j][k] + A4[i][k] * B[k][k]
    BY <1>3, <2>1
  <2>3. N[i][i] = C2 /\ N[i][j] = S1 * S2 /\ N[i][k] = sg * (C1 * S2)
    BY <1>2, <1>3, <1>4, <1>6, <2>2 DEF Turns1
  <2>4. /\ N[j][i] = A4[j][i] * B[i][i] + A4[j][j] * B[j][i] + A4[j][k] * B[k][i]
       /\ N[j][j] = A4[j][i] * B[i][j] + A4[j][j] * B[j][j] + A4[j][k] * B[k][j]
       /\ N[j][k] = A4[j][i] * B[i][k] + A4[j][j] * B[j][k] + A4[j][k] * B[k][k]
    BY <1>3, <2>1
  <2>5. N[j][i] = S2 * S3 /\ N[j][j] = C1 * C3 - S1 * C2 * S3 /\ N[j][k] = -(sg * (S1 * C3 + C1 * C2 * S3))
    BY <1>2, <1>3, <1>4, <1>6, <2>4 DEF Turns1
  <2>6. /\ N[k][i] = A4[k][i] * B[i][i] + A4[k][j] * B[j][i] + A4[k][k] * B[k][i]
       /\ N[k][j] = A4[k][i] * B[i][j] + A4[k][j] * B[j][j] + A4[k][k] * B[k][j]
       /\ N[k][k] = A4[k][i] * B[i][k] + A4[k][j] * B[j][k] + A4[k][k] * B[k][k]
    BY <1>3, <2>1
  <2>7. N[k][i] = -(sg * (S2 * C3)) /\ N[k][j] = sg * (C1 * S3 + S1 * C2 * C3) /\ N[k][k] = C1 * C2 * C3 - S1 * S3
    BY <1>2, <1>3, <1>4, <1>6, <2>6 DEF Turns1
  <2> QED
    BY <2>3, <2>5, <2>7
<1>11. M \in Matrix /\ ThreeTurned(M, i, j, k, sg, n)
  BY <1>7, <1>9, Zenon DEF ThreeTurned, M, C1, C2, C3, S1, S2, S3
<1>12. N \in Matrix /\ TwoTurned(N, i, j, k, sg, n)
  BY <1>8, <1>10, Zenon DEF TwoTurned, N, C1, C2, C3, S1, S2, S3
<1> QED
  BY <1>11, <1>12 DEF M, N, B, A1, A2, A3, A4
-----------------------------------------------------------------------------
(* A quaternion turns as its angles *)

\* The matrix of a quaternion, its entries in the order of the axes.
LEMMA QuaternionEntries ==
  ASSUME NEW i, NEW j, NEW k, NEW sg, Order(i, j, k, sg), NEW q \in [1 .. 4 -> Surds]
  PROVE  LET M == as_rotation_matrix(q) IN
           /\ M \in Matrix
           /\ M[i][i] = 1 - (Re(q[j], q[j]) + Re(q[k], q[k])) \div 4
           /\ M[j][j] = 1 - (Re(q[i], q[i]) + Re(q[k], q[k])) \div 4
           /\ M[k][k] = 1 - (Re(q[i], q[i]) + Re(q[j], q[j])) \div 4
           /\ M[j][i] = (Re(q[i], q[j]) + sg * Re(q[k], q[4])) \div 4
           /\ M[i][j] = (Re(q[i], q[j]) - sg * Re(q[k], q[4])) \div 4
           /\ M[i][k] = (Re(q[i], q[k]) + sg * Re(q[j], q[4])) \div 4
           /\ M[k][i] = (Re(q[i], q[k]) - sg * Re(q[j], q[4])) \div 4
           /\ M[k][j] = (Re(q[j], q[k]) + sg * Re(q[i], q[4])) \div 4
           /\ M[j][k] = (Re(q[j], q[k]) - sg * Re(q[i], q[4])) \div 4
<1> DEFINE P(a, b) == Re(q[a], q[b])
           M == as_rotation_matrix(q)
<1>1. \A a, b \in 1 .. 4 : P(a, b) \in Int /\ P(a, b) = P(b, a)
  BY SurdsClosed
<1>2. M = <<<<1 - (P(2, 2) + P(3, 3)) \div 4, (P(1, 2) - P(3, 4)) \div 4, (P(1, 3) + P(2, 4)) \div 4>>,
            <<(P(1, 2) + P(3, 4)) \div 4, 1 - (P(1, 1) + P(3, 3)) \div 4, (P(2, 3) - P(1, 4)) \div 4>>,
            <<(P(1, 3) - P(2, 4)) \div 4, (P(2, 3) + P(1, 4)) \div 4, 1 - (P(1, 1) + P(2, 2)) \div 4>>>>
  BY DEF as_rotation_matrix, Re
<1> HIDE DEF P, M
<1>3. \A x \in Int : x \div 4 \in Int
  OBVIOUS
<1>4. M \in Matrix
  <2>1. M[1] \in [1 .. 3 -> Int] /\ M[2] \in [1 .. 3 -> Int] /\ M[3] \in [1 .. 3 -> Int]
    BY <1>1, <1>2, <1>3
  <2>2. M = [r \in 1 .. 3 |-> M[r]]
    BY <1>2
  <2> QED
    BY <2>1, <2>2 DEF Matrix
<1>5. /\ M[i][i] = 1 - (P(j, j) + P(k, k)) \div 4
      /\ M[j][j] = 1 - (P(i, i) + P(k, k)) \div 4
      /\ M[k][k] = 1 - (P(i, i) + P(j, j)) \div 4
      /\ M[j][i] = (P(i, j) + sg * P(k, 4)) \div 4
      /\ M[i][j] = (P(i, j) - sg * P(k, 4)) \div 4
      /\ M[i][k] = (P(i, k) + sg * P(j, 4)) \div 4
      /\ M[k][i] = (P(i, k) - sg * P(j, 4)) \div 4
      /\ M[k][j] = (P(j, k) + sg * P(i, 4)) \div 4
      /\ M[j][k] = (P(j, k) - sg * P(i, 4)) \div 4
  <2>1. CASE sg = 1
    <3>1. \A x \in Int : sg * x = x
      BY <2>1
    <3> QED
      BY <1>1, <1>2, <2>1, <3>1 DEF Order
  <2>2. CASE sg = -1
    <3>1. \A x, y \in Int : x + sg * y = x - y /\ x - sg * y = x + y
      BY <2>2
    <3> QED
      BY <1>1, <1>2, <2>2, <3>1 DEF Order
  <2> QED
    BY <2>1, <2>2, ThreeIndices
<1> QED
  BY <1>4, <1>5 DEF P, M

\* A component, negated where the rotation turns the other way.
Times1(sg, a) == IF sg = 1 THEN a ELSE <<0, 0>> -- a

\* A component so negated enters every product with its sign.
LEMMA SignedSurd ==
  ASSUME NEW a \in Surds, NEW sg \in {1, -1}
  PROVE  /\ Times1(sg, a) \in Surds
         /\ \A b \in Surds : Re(Times1(sg, a), b) = sg * Re(a, b) /\ Re(b, Times1(sg, a)) = sg * Re(a, b)
         /\ Re(Times1(sg, a), Times1(sg, a)) = Re(a, a)
<1>1. PICK a1 \in Int, a2 \in Int : a = <<a1, a2>>
  BY DEF Surds
<1>2. ASSUME NEW b \in Surds
      PROVE  Re(Times1(sg, a), b) = sg * Re(a, b) /\ Re(b, Times1(sg, a)) = sg * Re(a, b)
  <2>1. PICK b1 \in Int, b2 \in Int : b = <<b1, b2>>
    BY DEF Surds
  <2>2. CASE sg = 1
    BY <1>1, <2>1, <2>2 DEF Times1, **, Re
  <2>3. CASE sg = -1
    BY <1>1, <2>1, <2>3 DEF Times1, --, **, Re
  <2> QED
    BY <2>2, <2>3
<1>3. Times1(sg, a) \in Surds /\ Re(Times1(sg, a), Times1(sg, a)) = Re(a, a)
  <2>1. CASE sg = 1
    BY <2>1 DEF Times1
  <2>2. CASE sg = -1
    BY <1>1, <2>2 DEF Times1, --, **, Re, Surds
  <2> QED
    BY <2>1, <2>2
<1> QED
  BY <1>2, <1>3

\* The quaternion of rotations about three axes has their entries.
LEMMA ThreeAxesTurn ==
  ASSUME NEW i, NEW j, NEW k, NEW sg, Order(i, j, k, sg), NEW q \in [1 .. 4 -> Surds],
         NEW n \in [1 .. 3 -> Int], NEW t \in [1 .. 3 -> Int],
         n[1] = t[1], n[2] = sg * t[2], n[3] = t[3],
         q[i] = Term(n, 1, 0, 0) -- Term(n, 0, 1, 1),
         q[k] = Term(n, 0, 0, 1) -- Term(n, 1, 1, 0),
         q[4] = Term(n, 0, 0, 0) ++ Term(n, 1, 1, 1),
         q[j] = Times1(sg, Term(n, 1, 0, 1) ++ Term(n, 0, 1, 0))
  PROVE  as_rotation_matrix(q) \in Matrix /\ ThreeTurned(as_rotation_matrix(q), i, j, k, sg, t)
<1> DEFINE q2 == Term(n, 1, 0, 1) ++ Term(n, 0, 1, 0)
           M == as_rotation_matrix(q)
           C1 == Cos(n[1])
           C2 == Cos(n[2])
           C3 == Cos(n[3])
           S1 == Sin(n[1])
           S2 == Sin(n[2])
           S3 == Sin(n[3])
<1>1. n[1] \in Int /\ n[2] \in Int /\ n[3] \in Int /\ t[2] \in Int
  OBVIOUS
<1>2. C1 \in Int /\ C2 \in Int /\ C3 \in Int /\ S1 \in Int /\ S2 \in Int /\ S3 \in Int
  BY <1>1, HalfAngles
<1>3. sg = 1 \/ sg = -1
  BY ThreeIndices
<1>4. C1 = Cos(t[1]) /\ C2 = Cos(t[2]) /\ C3 = Cos(t[3]) /\ S1 = Sin(t[1]) /\ S3 = Sin(t[3])
      /\ Sin(t[2]) = sg * S2
  <2>1. Cos(-t[2]) = Cos(t[2]) /\ Sin(-t[2]) = -Sin(t[2]) /\ Sin(t[2]) \in Int
    BY <1>1, Quarters, HalfAngles
  <2>2. n[2] = t[2] \/ n[2] = -t[2]
    BY <1>1, <1>3
  <2>3. CASE sg = 1
    <3>1. n[2] = t[2]
      BY <1>1, <2>3
    <3> QED
      BY <1>2, <2>3, <3>1
  <2>4. CASE sg = -1
    <3>1. n[2] = -t[2]
      BY <1>1, <2>4
    <3>2. S2 = -Sin(t[2]) /\ C2 = Cos(t[2])
      BY <2>1, <3>1
    <3> HIDE DEF S2, C2
    <3> QED
      BY <1>2, <2>1, <2>4, <3>2
  <2> QED
    BY <1>3, <2>3, <2>4
<1>5. q2 \in Surds
  BY ThreeAxes
<1>6. \A m \in 1 .. 4 : Re(q[j], q[m]) = sg * Re(q2, q[m]) /\ Re(q[m], q[j]) = sg * Re(q2, q[m])
  BY <1>5, SignedSurd, ThreeIndices
<1>7. Re(q[j], q[j]) = Re(q2, q2)
  BY <1>5, SignedSurd, ThreeIndices
<1>8. /\ Re(q2, q2) + Re(q[k], q[k]) = 4 * (1 - C2 * C3)
      /\ Re(q[i], q[i]) + Re(q[k], q[k]) = 4 * (1 - (C1 * C3 + S1 * S2 * S3))
      /\ Re(q[i], q[i]) + Re(q2, q2) = 4 * (1 - C1 * C2)
      /\ Re(q[i], q2) + Re(q[k], q[4]) = 4 * (C2 * S3)
      /\ Re(q[i], q2) - Re(q[k], q[4]) = 4 * (S1 * S2 * C3 - C1 * S3)
      /\ Re(q[i], q[k]) + Re(q2, q[4]) = 4 * (C1 * S2 * C3 + S1 * S3)
      /\ Re(q[i], q[k]) - Re(q2, q[4]) = 4 * (-S2)
      /\ Re(q2, q[k]) + Re(q[i], q[4]) = 4 * (S1 * C2)
      /\ Re(q2, q[k]) - Re(q[i], q[4]) = 4 * (C1 * S2 * S3 - S1 * C3)
  BY ThreeAxes
<1>9. /\ M \in Matrix
      /\ M[i][i] = 1 - (Re(q[j], q[j]) + Re(q[k], q[k])) \div 4
      /\ M[j][j] = 1 - (Re(q[i], q[i]) + Re(q[k], q[k])) \div 4
      /\ M[k][k] = 1 - (Re(q[i], q[i]) + Re(q[j], q[j])) \div 4
      /\ M[j][i] = (Re(q[i], q[j]) + sg * Re(q[k], q[4])) \div 4
      /\ M[i][j] = (Re(q[i], q[j]) - sg * Re(q[k], q[4])) \div 4
      /\ M[i][k] = (Re(q[i], q[k]) + sg * Re(q[j], q[4])) \div 4
      /\ M[k][i] = (Re(q[i], q[k]) - sg * Re(q[j], q[4])) \div 4
      /\ M[k][j] = (Re(q[j], q[k]) + sg * Re(q[i], q[4])) \div 4
      /\ M[j][k] = (Re(q[j], q[k]) - sg * Re(q[i], q[4])) \div 4
  BY QuaternionEntries
<1>10. /\ Re(q[i], q[i]) \in Int /\ Re(q[k], q[k]) \in Int /\ Re(q2, q2) \in Int
       /\ Re(q[i], q2) \in Int /\ Re(q[i], q[k]) \in Int /\ Re(q[i], q[4]) \in Int
       /\ Re(q2, q[k]) \in Int /\ Re(q2, q[4]) \in Int /\ Re(q[k], q[4]) \in Int
       /\ Re(q[i], q2) = Re(q2, q[i])
  BY <1>5, SurdsClosed, ThreeIndices
<1> HIDE DEF q2, M, C1, C2, C3, S1, S2, S3
<1>11. \A x \in Int : (4 * x) \div 4 = x /\ (4 * (1 - x)) \div 4 = 1 - x /\ (sg * (4 * x)) \div 4 = sg * x
  BY <1>3
<1>12. M[i][i] = C2 * C3
  BY <1>2, <1>7, <1>8, <1>9, <1>11
<1>13. M[j][j] = C1 * C3 + S1 * S2 * S3
  BY <1>2, <1>7, <1>8, <1>9, <1>11
<1>14. M[k][k] = C1 * C2
  BY <1>2, <1>7, <1>8, <1>9, <1>11
<1>15. M[j][i] = sg * (C2 * S3)
  BY <1>2, <1>3, <1>6, <1>8, <1>9, <1>10, <1>11, ThreeIndices
<1>16. M[i][j] = sg * (S1 * S2 * C3 - C1 * S3)
  BY <1>2, <1>3, <1>6, <1>8, <1>9, <1>10, <1>11, ThreeIndices
<1>17. M[k][j] = sg * (S1 * C2)
  BY <1>2, <1>3, <1>6, <1>8, <1>9, <1>10, <1>11, ThreeIndices
<1>18. M[j][k] = sg * (C1 * S2 * S3 - S1 * C3)
  BY <1>2, <1>3, <1>6, <1>8, <1>9, <1>10, <1>11, ThreeIndices
<1>19. M[i][k] = C1 * S2 * C3 + S1 * S3
  <2>1. Re(q[j], q[4]) = sg * Re(q2, q[4])
    BY <1>6
  <2>2. Re(q[i], q[k]) + sg * Re(q[j], q[4]) = Re(q[i], q[k]) + Re(q2, q[4])
    BY <1>3, <1>10, <2>1
  <2> DEFINE X == C1 * S2 * C3 + S1 * S3
  <2>3. X \in Int
    BY <1>2
  <2>4. Re(q[i], q[k]) + Re(q2, q[4]) = 4 * X
    BY <1>8
  <2> HIDE DEF X
  <2>5. M[i][k] = (4 * X) \div 4
    BY <1>9, <2>2, <2>4
  <2>6. M[i][k] = X
    BY <1>11, <2>3, <2>5
  <2> QED
    BY <2>6 DEF X
<1>20. M[k][i] = -S2
  BY <1>2, <1>3, <1>6, <1>8, <1>9, <1>10, <1>11, ThreeIndices
<1> DEFINE T2 == sg * S2
<1>21. /\ M[i][i] = C2 * C3
       /\ M[i][j] = S1 * T2 * C3 - sg * (C1 * S3)
       /\ M[i][k] = sg * (C1 * T2 * C3) + S1 * S3
       /\ M[j][i] = sg * (C2 * S3)
       /\ M[j][j] = C1 * C3 + sg * (S1 * T2 * S3)
       /\ M[j][k] = C1 * T2 * S3 - sg * (S1 * C3)
       /\ M[k][i] = -(sg * T2)
       /\ M[k][j] = sg * (S1 * C2)
       /\ M[k][k] = C1 * C2
  <2>1. CASE sg = 1
    BY <1>2, <1>12, <1>13, <1>14, <1>15, <1>16, <1>17, <1>18, <1>19, <1>20, <2>1
  <2>2. CASE sg = -1
    BY <1>2, <1>12, <1>13, <1>14, <1>15, <1>16, <1>17, <1>18, <1>19, <1>20, <2>2
  <2> QED
    BY <1>3, <2>1, <2>2
<1> HIDE DEF T2
<1>22. ThreeTurned(M, i, j, k, sg, t)
  BY <1>4, <1>21, Zenon DEF ThreeTurned, T2
<1> QED
  BY <1>9, <1>22 DEF M

\* As has that where the last rotation is about the first axis again.
LEMMA TwoAxesTurn ==
  ASSUME NEW i, NEW j, NEW k, NEW sg, Order(i, j, k, sg), NEW q \in [1 .. 4 -> Surds],
         NEW n \in [1 .. 3 -> Int], NEW t \in [1 .. 3 -> Int],
         n[1] = t[1], n[2] = sg * t[2], n[3] = t[3],
         q[i] = Term(n, 0, 0, 1) ++ Term(n, 1, 0, 0),
         q[k] = Term(n, 0, 1, 1) -- Term(n, 1, 1, 0),
         q[4] = Term(n, 0, 0, 0) -- Term(n, 1, 0, 1),
         q[j] = Times1(sg, Term(n, 0, 1, 0) ++ Term(n, 1, 1, 1))
  PROVE  as_rotation_matrix(q) \in Matrix /\ TwoTurned(as_rotation_matrix(q), i, j, k, sg, t)
<1> DEFINE q2 == Term(n, 0, 1, 0) ++ Term(n, 1, 1, 1)
           M == as_rotation_matrix(q)
           C1 == Cos(n[1])
           C2 == Cos(n[2])
           C3 == Cos(n[3])
           S1 == Sin(n[1])
           S2 == Sin(n[2])
           S3 == Sin(n[3])
<1>1. n[1] \in Int /\ n[2] \in Int /\ n[3] \in Int /\ t[2] \in Int
  OBVIOUS
<1>2. C1 \in Int /\ C2 \in Int /\ C3 \in Int /\ S1 \in Int /\ S2 \in Int /\ S3 \in Int
  BY <1>1, HalfAngles
<1>3. sg = 1 \/ sg = -1
  BY ThreeIndices
<1>4. C1 = Cos(t[1]) /\ C2 = Cos(t[2]) /\ C3 = Cos(t[3]) /\ S1 = Sin(t[1]) /\ S3 = Sin(t[3])
      /\ Sin(t[2]) = sg * S2
  <2>1. Cos(-t[2]) = Cos(t[2]) /\ Sin(-t[2]) = -Sin(t[2]) /\ Sin(t[2]) \in Int
    BY <1>1, Quarters, HalfAngles
  <2>2. n[2] = t[2] \/ n[2] = -t[2]
    BY <1>1, <1>3
  <2>3. CASE sg = 1
    <3>1. n[2] = t[2]
      BY <1>1, <2>3
    <3> QED
      BY <1>2, <2>3, <3>1
  <2>4. CASE sg = -1
    <3>1. n[2] = -t[2]
      BY <1>1, <2>4
    <3>2. S2 = -Sin(t[2]) /\ C2 = Cos(t[2])
      BY <2>1, <3>1
    <3> HIDE DEF S2, C2
    <3> QED
      BY <1>2, <2>1, <2>4, <3>2
  <2> QED
    BY <1>3, <2>3, <2>4
<1>5. q2 \in Surds
  BY TwoAxes
<1>6. \A m \in 1 .. 4 : Re(q[j], q[m]) = sg * Re(q2, q[m]) /\ Re(q[m], q[j]) = sg * Re(q2, q[m])
  BY <1>5, SignedSurd, ThreeIndices
<1>7. Re(q[j], q[j]) = Re(q2, q2)
  BY <1>5, SignedSurd, ThreeIndices
<1>8. /\ Re(q2, q2) + Re(q[k], q[k]) = 4 * (1 - C2)
      /\ Re(q[i], q[i]) + Re(q[k], q[k]) = 4 * (1 - (C1 * C3 - S1 * C2 * S3))
      /\ Re(q[i], q[i]) + Re(q2, q2) = 4 * (1 - (C1 * C2 * C3 - S1 * S3))
      /\ Re(q[i], q2) + Re(q[k], q[4]) = 4 * (S2 * S3)
      /\ Re(q[i], q2) - Re(q[k], q[4]) = 4 * (S1 * S2)
      /\ Re(q[i], q[k]) + Re(q2, q[4]) = 4 * (C1 * S2)
      /\ Re(q[i], q[k]) - Re(q2, q[4]) = 4 * (-(S2 * C3))
      /\ Re(q2, q[k]) + Re(q[i], q[4]) = 4 * (C1 * S3 + S1 * C2 * C3)
      /\ Re(q2, q[k]) - Re(q[i], q[4]) = 4 * (-(S1 * C3) - C1 * C2 * S3)
  BY TwoAxes
<1>9. /\ M \in Matrix
      /\ M[i][i] = 1 - (Re(q[j], q[j]) + Re(q[k], q[k])) \div 4
      /\ M[j][j] = 1 - (Re(q[i], q[i]) + Re(q[k], q[k])) \div 4
      /\ M[k][k] = 1 - (Re(q[i], q[i]) + Re(q[j], q[j])) \div 4
      /\ M[j][i] = (Re(q[i], q[j]) + sg * Re(q[k], q[4])) \div 4
      /\ M[i][j] = (Re(q[i], q[j]) - sg * Re(q[k], q[4])) \div 4
      /\ M[i][k] = (Re(q[i], q[k]) + sg * Re(q[j], q[4])) \div 4
      /\ M[k][i] = (Re(q[i], q[k]) - sg * Re(q[j], q[4])) \div 4
      /\ M[k][j] = (Re(q[j], q[k]) + sg * Re(q[i], q[4])) \div 4
      /\ M[j][k] = (Re(q[j], q[k]) - sg * Re(q[i], q[4])) \div 4
  BY QuaternionEntries
<1>10. /\ Re(q[i], q[i]) \in Int /\ Re(q[k], q[k]) \in Int /\ Re(q2, q2) \in Int
       /\ Re(q[i], q2) \in Int /\ Re(q[i], q[k]) \in Int /\ Re(q[i], q[4]) \in Int
       /\ Re(q2, q[k]) \in Int /\ Re(q2, q[4]) \in Int /\ Re(q[k], q[4]) \in Int
       /\ Re(q[i], q2) = Re(q2, q[i])
  BY <1>5, SurdsClosed, ThreeIndices
<1> HIDE DEF q2, M, C1, C2, C3, S1, S2, S3
<1>11. \A x \in Int : (4 * x) \div 4 = x /\ (4 * (1 - x)) \div 4 = 1 - x /\ (sg * (4 * x)) \div 4 = sg * x
  BY <1>3
<1>12. M[i][i] = C2
  BY <1>2, <1>7, <1>8, <1>9, <1>11
<1>13. M[j][j] = C1 * C3 - S1 * C2 * S3
  BY <1>2, <1>7, <1>8, <1>9, <1>11
<1>14. M[k][k] = C1 * C2 * C3 - S1 * S3
  BY <1>2, <1>7, <1>8, <1>9, <1>11
<1>15. M[j][i] = sg * (S2 * S3)
  BY <1>2, <1>3, <1>6, <1>8, <1>9, <1>10, <1>11, ThreeIndices
<1>16. M[i][j] = sg * (S1 * S2)
  BY <1>2, <1>3, <1>6, <1>8, <1>9, <1>10, <1>11, ThreeIndices
<1>17. M[k][j] = sg * (C1 * S3 + S1 * C2 * C3)
  BY <1>2, <1>3, <1>6, <1>8, <1>9, <1>10, <1>11, ThreeIndices
<1>18. M[j][k] = sg * (-(S1 * C3) - C1 * C2 * S3)
  BY <1>2, <1>3, <1>6, <1>8, <1>9, <1>10, <1>11, ThreeIndices
<1>19. M[i][k] = C1 * S2
  BY <1>2, <1>3, <1>6, <1>8, <1>9, <1>10, <1>11, ThreeIndices
<1>20. M[k][i] = -(S2 * C3)
  BY <1>2, <1>3, <1>6, <1>8, <1>9, <1>10, <1>11, ThreeIndices
<1>21. TwoTurned(M, i, j, k, sg, t)
  BY <1>2, <1>3, <1>4, <1>12, <1>13, <1>14, <1>15, <1>16, <1>17, <1>18, <1>19, <1>20 DEF TwoTurned
<1> QED
  BY <1>9, <1>21 DEF M

\* A matrix is known by its entries.
LEMMA SameTurn ==
  ASSUME NEW i, NEW j, NEW k, NEW sg, Order(i, j, k, sg), NEW M \in Matrix, NEW N \in Matrix,
         NEW n, NEW m, Cos(n[1]) = Cos(m[1]), Cos(n[2]) = Cos(m[2]), Cos(n[3]) = Cos(m[3]),
         Sin(n[1]) = Sin(m[1]), Sin(n[2]) = Sin(m[2]), Sin(n[3]) = Sin(m[3]),
         \/ ThreeTurned(M, i, j, k, sg, n) /\ ThreeTurned(N, i, j, k, sg, m)
         \/ TwoTurned(M, i, j, k, sg, n) /\ TwoTurned(N, i, j, k, sg, m)
  PROVE  M = N
<1>1. /\ M[i][i] = N[i][i] /\ M[i][j] = N[i][j] /\ M[i][k] = N[i][k]
      /\ M[j][i] = N[j][i] /\ M[j][j] = N[j][j] /\ M[j][k] = N[j][k]
      /\ M[k][i] = N[k][i] /\ M[k][j] = N[k][j] /\ M[k][k] = N[k][k]
  BY Zenon DEF ThreeTurned, TwoTurned
<1>2. \A r, c \in 1 .. 3 : M[r][c] = N[r][c]
  BY <1>1, ThreeIndices
<1> QED
  BY <1>2, Entrywise

\* The angles in the order in which they are turned by about the axes.
InOrder(a, axes) == IF axes.frame = 1 THEN Swap(a) ELSE a

\* Those are angles.
LEMMA InOrderTyped ==
  ASSUME NEW a \in [1 .. 3 -> Int], NEW axes
  PROVE  InOrder(a, axes) \in [1 .. 3 -> Int]
<1>1. Swap(a) \in [1 .. 3 -> Int]
  BY DEF Swap
<1> QED
  BY <1>1 DEF InOrder

\* Where a rotation's entries are.
Turned(M, axes, t) ==
  LET sg == 1 - 2 * axes.parity
  IN IF axes.repetition = 1
       THEN TwoTurned(M, axes.first, Second(axes), Third(axes), sg, t)
       ELSE ThreeTurned(M, axes.first, Second(axes), Third(axes), sg, t)

\* A rotation has its entries.
LEMMA RotationTurned ==
  ASSUME NEW axes \in AXES, NEW a \in [1 .. 3 -> Int]
  PROVE  Rotation(a, axes) \in Matrix /\ Turned(Rotation(a, axes), axes, InOrder(a, axes))
<1> DEFINE i == axes.first
           j == Second(axes)
           k == Third(axes)
           sg == 1 - 2 * axes.parity
           t == InOrder(a, axes)
<1>1. Order(i, j, k, sg) /\ t \in [1 .. 3 -> Int]
  BY Orders, InOrderTyped
<1>2. Rotation(a, axes) = Times(About(IF axes.repetition = 1 THEN i ELSE k, t[3]),
                                Times(About(j, t[2]), About(i, t[1])))
  BY DEF Rotation, InOrder
<1> HIDE DEF i, j, k, sg, t
<1>3. LET B == Times(About(j, t[2]), About(i, t[1])) IN
        /\ Times(About(k, t[3]), B) \in Matrix /\ ThreeTurned(Times(About(k, t[3]), B), i, j, k, sg, t)
        /\ Times(About(i, t[3]), B) \in Matrix /\ TwoTurned(Times(About(i, t[3]), B), i, j, k, sg, t)
  BY <1>1, TurnedEntries
<1>4. /\ Rotation(a, axes) \in Matrix
      /\ IF axes.repetition = 1 THEN TwoTurned(Rotation(a, axes), i, j, k, sg, t)
                                ELSE ThreeTurned(Rotation(a, axes), i, j, k, sg, t)
  BY <1>2, <1>3, Zenon
<1> QED
  BY <1>4 DEF Turned, i, j, k, sg, t

\* So has the matrix of the quaternion.
LEMMA QuaternionTurned ==
  ASSUME NEW axes \in AXES, NEW a \in [1 .. 3 -> Int]
  PROVE  LET M == as_rotation_matrix(quaternion_from_euler(a, axes)) IN
           M \in Matrix /\ Turned(M, axes, InOrder(a, axes))
<1> DEFINE i == axes.first
           j == Second(axes)
           k == Third(axes)
           sg == 1 - 2 * axes.parity
           t == InOrder(a, axes)
           n == Entered(t, axes.parity)
           q == quaternion_from_euler(a, axes)
<1>1. Order(i, j, k, sg) /\ t \in [1 .. 3 -> Int]
  BY Orders, InOrderTyped
<1>2. axes.parity \in {0, 1} /\ axes.repetition \in {0, 1}
  BY DEF AXES
<1>3. n \in [1 .. 3 -> Int] /\ n[1] = t[1] /\ n[2] = sg * t[2] /\ n[3] = t[3]
  <2>1. t[1] \in Int /\ t[2] \in Int /\ t[3] \in Int
    BY <1>1
  <2> HIDE DEF t
  <2>2. CASE axes.parity = 0
    BY <1>1, <2>1, <2>2 DEF Entered
  <2>3. CASE axes.parity = 1
    BY <1>1, <2>1, <2>3 DEF Entered
  <2> QED
    BY <1>2, <2>2, <2>3
<1> DEFINE cc == HalfCos(n[1]) ** HalfCos(n[3])
           cs == HalfCos(n[1]) ** HalfSin(n[3])
           sc == HalfSin(n[1]) ** HalfCos(n[3])
           ss == HalfSin(n[1]) ** HalfSin(n[3])
           cj == HalfCos(n[2])
           sj == HalfSin(n[2])
           p == IF axes.repetition = 1
                  THEN <<cj ** (cs ++ sc), sj ** (cc ++ ss), sj ** (cs -- sc), cj ** (cc -- ss)>>
                  ELSE <<(cj ** sc) -- (sj ** cs), (cj ** ss) ++ (sj ** cc),
                         (cj ** cs) -- (sj ** sc), (cj ** cc) ++ (sj ** ss)>>
           y == IF axes.parity = 1 THEN <<0, 0>> -- p[2] ELSE p[2]
<1>4. q = [c \in 1 .. 4 |-> CASE c = i -> p[1] [] c = j -> y [] c = k -> p[3] [] c = 4 -> p[4]]
  BY DEF quaternion_from_euler, InOrder
<1>5. /\ Term(n, 0, 0, 0) = cj ** cc /\ Term(n, 0, 0, 1) = cj ** cs
      /\ Term(n, 1, 0, 0) = cj ** sc /\ Term(n, 1, 0, 1) = cj ** ss
      /\ Term(n, 0, 1, 0) = sj ** cc /\ Term(n, 0, 1, 1) = sj ** cs
      /\ Term(n, 1, 1, 0) = sj ** sc /\ Term(n, 1, 1, 1) = sj ** ss
  BY DEF Term, Half
<1>6. /\ cj \in Surds /\ sj \in Surds /\ cc \in Surds /\ cs \in Surds /\ sc \in Surds /\ ss \in Surds
  <2>1. n[1] \in Int /\ n[2] \in Int /\ n[3] \in Int
    BY <1>3
  <2> HIDE DEF n
  <2>2. /\ HalfCos(n[1]) \in Surds /\ HalfCos(n[2]) \in Surds /\ HalfCos(n[3]) \in Surds
        /\ HalfSin(n[1]) \in Surds /\ HalfSin(n[2]) \in Surds /\ HalfSin(n[3]) \in Surds
    BY <2>1, HalfAngles
  <2> QED
    BY <2>2, SurdsClosed
<1> HIDE DEF n, t, q, cc, cs, sc, ss, cj, sj
<1>7. y = Times1(sg, p[2])
  BY <1>2 DEF Times1
<1> HIDE DEF y, i, j, k, sg
<1>8. /\ q \in [1 .. 4 -> {p[1], y, p[3], p[4]}]
      /\ q[i] = p[1] /\ q[j] = y /\ q[k] = p[3] /\ q[4] = p[4]
  BY <1>1, <1>4, ThreeIndices
<1>9. CASE axes.repetition = 1
  <2>1. /\ p[1] = Term(n, 0, 0, 1) ++ Term(n, 1, 0, 0)
        /\ p[2] = Term(n, 0, 1, 0) ++ Term(n, 1, 1, 1)
        /\ p[3] = Term(n, 0, 1, 1) -- Term(n, 1, 1, 0)
        /\ p[4] = Term(n, 0, 0, 0) -- Term(n, 1, 0, 1)
    BY <1>5, <1>6, <1>9, SurdsSpread
  <2> HIDE DEF p
  <2>2. p[1] \in Surds /\ p[2] \in Surds /\ p[3] \in Surds /\ p[4] \in Surds
    BY <1>3, <2>1, TwoAxes
  <2>3. q \in [1 .. 4 -> Surds]
    BY <1>1, <1>7, <1>8, <2>2, SignedSurd, ThreeIndices
  <2>4. as_rotation_matrix(q) \in Matrix /\ TwoTurned(as_rotation_matrix(q), i, j, k, sg, t)
    BY <1>1, <1>3, <1>7, <1>8, <2>1, <2>3, TwoAxesTurn
  <2> QED
    BY <1>9, <2>4 DEF Turned, i, j, k, sg, t, q
<1>10. CASE axes.repetition = 0
  <2>1. /\ p[1] = Term(n, 1, 0, 0) -- Term(n, 0, 1, 1)
        /\ p[2] = Term(n, 1, 0, 1) ++ Term(n, 0, 1, 0)
        /\ p[3] = Term(n, 0, 0, 1) -- Term(n, 1, 1, 0)
        /\ p[4] = Term(n, 0, 0, 0) ++ Term(n, 1, 1, 1)
    BY <1>5, <1>10
  <2> HIDE DEF p
  <2>2. p[1] \in Surds /\ p[2] \in Surds /\ p[3] \in Surds /\ p[4] \in Surds
    BY <1>3, <2>1, ThreeAxes
  <2>3. q \in [1 .. 4 -> Surds]
    BY <1>1, <1>7, <1>8, <2>2, SignedSurd, ThreeIndices
  <2>4. as_rotation_matrix(q) \in Matrix /\ ThreeTurned(as_rotation_matrix(q), i, j, k, sg, t)
    BY <1>1, <1>3, <1>7, <1>8, <2>1, <2>3, ThreeAxesTurn
  <2> QED
    BY <1>10, <2>4 DEF Turned, i, j, k, sg, t, q
<1> QED
  BY <1>2, <1>9, <1>10
-----------------------------------------------------------------------------
(* The angles of a matrix *)

\* The arc tangent points along the one axis along which its arguments lie.
LEMMA ArcTangent ==
  ASSUME NEW y \in Int, NEW x \in Int
  PROVE  /\ atan2(y, x) \in Int
         /\ x > 0 => Cos(atan2(y, x)) = 1 /\ Sin(atan2(y, x)) = 0
         /\ x < 0 => Cos(atan2(y, x)) = -1 /\ Sin(atan2(y, x)) = 0
         /\ x = 0 /\ y > 0 => Cos(atan2(y, x)) = 0 /\ Sin(atan2(y, x)) = 1
         /\ x = 0 /\ y < 0 => Cos(atan2(y, x)) = 0 /\ Sin(atan2(y, x)) = -1
         /\ x = 0 /\ y = 0 => Cos(atan2(y, x)) = 1 /\ Sin(atan2(y, x)) = 0
<1>1. /\ Cos(0) = 1 /\ Sin(0) = 0 /\ Cos(1) = 0 /\ Sin(1) = 1
      /\ Cos(2) = -1 /\ Sin(2) = 0 /\ Cos(-1) = 0 /\ Sin(-1) = -1
  <2>1. 0 % 4 = 0 /\ 1 % 4 = 1 /\ 2 % 4 = 2
    OBVIOUS
  <2>2. Cos(0) = 1 /\ Sin(0) = 0 /\ Cos(1) = 0 /\ Sin(1) = 1 /\ Cos(2) = -1 /\ Sin(2) = 0
    BY <2>1 DEF Cos, Sin
  <2>3. Cos(-1) = Cos(1) /\ Sin(-1) = -Sin(1)
    BY Quarters
  <2> QED
    BY <2>2, <2>3
<1>2. /\ x > 0 => atan2(y, x) = 0
      /\ x < 0 => atan2(y, x) = 2
      /\ x = 0 /\ y > 0 => atan2(y, x) = 1
      /\ x = 0 /\ y < 0 => atan2(y, x) = -1
      /\ x = 0 /\ y = 0 => atan2(y, x) = 0
  BY DEF atan2
<1> QED
  BY <1>1, <1>2

\* Zero is a quarter turn's cosine or its sine, the other 1 or -1.
Quarter(c, s) == c \in Int /\ s \in Int /\ <<c, s>> \in {<<1, 0>>, <<0, 1>>, <<-1, 0>>, <<0, -1>>}

\* Along an axis the arc tangent finds its angle.
LEMMA FindsQuarter ==
  ASSUME NEW c, NEW s, Quarter(c, s)
  PROVE  Cos(atan2(s, c)) = c /\ Sin(atan2(s, c)) = s /\ atan2(s, c) \in Int
<1>1. c \in Int /\ s \in Int
      /\ ((c = 1 /\ s = 0) \/ (c = 0 /\ s = 1) \/ (c = -1 /\ s = 0) \/ (c = 0 /\ s = -1))
  BY DEF Quarter
<1>2. CASE c = 1 /\ s = 0
  BY <1>1, <1>2, ArcTangent
<1>3. CASE c = 0 /\ s = 1
  BY <1>1, <1>3, ArcTangent
<1>4. CASE c = -1 /\ s = 0
  BY <1>1, <1>4, ArcTangent
<1>5. CASE c = 0 /\ s = -1
  BY <1>1, <1>5, ArcTangent
<1> QED
  BY <1>1, <1>2, <1>3, <1>4, <1>5

\* Negated and turned quarters are quarters.
LEMMA QuarterProducts ==
  ASSUME NEW c, NEW s, NEW d, NEW e, NEW u, NEW v, Quarter(c, s), Quarter(d, e), u \in {1, -1}, v \in {1, -1}
  PROVE  /\ Quarter(u * c, v * s)
         /\ Quarter(c * d - u * (s * e), s * d + u * (c * e))
         /\ Quarter(c * d - u * (s * e), v * (s * d + u * (c * e)))
<1>1. /\ c \in Int /\ s \in Int /\ d \in Int /\ e \in Int
      /\ (c = 1 /\ s = 0) \/ (c = 0 /\ s = 1) \/ (c = -1 /\ s = 0) \/ (c = 0 /\ s = -1)
      /\ (d = 1 /\ e = 0) \/ (d = 0 /\ e = 1) \/ (d = -1 /\ e = 0) \/ (d = 0 /\ e = -1)
      /\ (u = 1 \/ u = -1) /\ (v = 1 \/ v = -1)
  BY DEF Quarter
<1> DEFINE IsQuarter(x, y) == /\ x \in Int /\ y \in Int
                              /\ (x = 1 /\ y = 0) \/ (x = 0 /\ y = 1) \/ (x = -1 /\ y = 0) \/ (x = 0 /\ y = -1)
<1>2. \A x, y : IsQuarter(x, y) => Quarter(x, y)
  BY DEF Quarter
<1>3. IsQuarter(u * c, v * s)
  BY <1>1
<1> DEFINE x == c * d - u * (s * e)
           y == s * d + u * (c * e)
<1>4. IsQuarter(x, y)
  <2>1. CASE u = 1
    BY <1>1, <2>1
  <2>2. CASE u = -1
    BY <1>1, <2>2
  <2> QED
    BY <1>1, <2>1, <2>2
<1> HIDE DEF x, y
<1>5. IsQuarter(x, v * y)
  BY <1>1, <1>4
<1> QED
  BY <1>2, <1>3, <1>4, <1>5 DEF x, y

\* The angles of m mean the matrix, when those of a, against the axes' order, do.
Meant(a, m, sg) ==
  /\ a \in [1 .. 3 -> Int] /\ m \in [1 .. 3 -> Int]
  /\ m[1] = sg * a[1] /\ m[2] = sg * a[2] /\ m[3] = sg * a[3]

\* Then their sines have the sign.
LEMMA MeantQuarters ==
  ASSUME NEW a, NEW m, NEW sg, sg = 1 \/ sg = -1, Meant(a, m, sg)
  PROVE  \A l \in 1 .. 3 : Cos(m[l]) = Cos(a[l]) /\ Sin(m[l]) = sg * Sin(a[l])
<1> SUFFICES ASSUME NEW l \in 1 .. 3
             PROVE  Cos(m[l]) = Cos(a[l]) /\ Sin(m[l]) = sg * Sin(a[l])
  OBVIOUS
<1>1. a[l] \in Int /\ m[l] = sg * a[l]
  BY DEF Meant
<1>2. Cos(-a[l]) = Cos(a[l]) /\ Sin(-a[l]) = -Sin(a[l]) /\ Sin(a[l]) \in Int
  BY <1>1, Quarters, HalfAngles
<1>3. CASE sg = 1
  <2>1. m[l] = a[l]
    BY <1>1, <1>3
  <2> QED
    BY <1>2, <1>3, <2>1
<1>4. CASE sg = -1
  <2>1. m[l] = -a[l]
    BY <1>1, <1>4
  <2>2. Cos(m[l]) = Cos(a[l]) /\ Sin(m[l]) = -Sin(a[l])
    BY <1>2, <2>1
  <2> QED
    BY <1>2, <1>4, <2>2
<1> QED
  BY <1>3, <1>4

\* The cosines and sines of three angles.
LEMMA ThreeQuarters ==
  ASSUME NEW t \in [1 .. 3 -> Int]
  PROVE  Quarter(Cos(t[1]), Sin(t[1])) /\ Quarter(Cos(t[2]), Sin(t[2])) /\ Quarter(Cos(t[3]), Sin(t[3]))
<1>1. t[1] \in Int /\ t[2] \in Int /\ t[3] \in Int
  OBVIOUS
<1> QED
  BY <1>1, Quarters, HalfAngles DEF Quarter

\* The angles read from a rotation about three axes mean it.
LEMMA ThreeAnglesBack ==
  ASSUME NEW i, NEW j, NEW k, NEW sg, Order(i, j, k, sg), NEW M \in Matrix,
         NEW t \in [1 .. 3 -> Int], ThreeTurned(M, i, j, k, sg, t)
  PROVE  /\ Angles(M, i, j, k, 0) \in [1 .. 3 -> Int]
         /\ \A m : Meant(Angles(M, i, j, k, 0), m, sg) => ThreeTurned(M, i, j, k, sg, m)
<1> DEFINE a == Angles(M, i, j, k, 0)
           C1 == Cos(t[1])
           C2 == Cos(t[2])
           C3 == Cos(t[3])
           S1 == Sin(t[1])
           S2 == Sin(t[2])
           S3 == Sin(t[3])
           cy == M[i][i] * M[i][i] + M[j][i] * M[j][i]
<1>1. Quarter(C1, S1) /\ Quarter(C2, S2) /\ Quarter(C3, S3)
  BY ThreeQuarters
<1>2. /\ M[i][i] = C2 * C3 /\ M[i][j] = S1 * S2 * C3 - sg * (C1 * S3)
      /\ M[i][k] = sg * (C1 * S2 * C3) + S1 * S3
      /\ M[j][i] = sg * (C2 * S3) /\ M[j][j] = C1 * C3 + sg * (S1 * S2 * S3)
      /\ M[j][k] = C1 * S2 * S3 - sg * (S1 * C3)
      /\ M[k][i] = -(sg * S2) /\ M[k][j] = sg * (S1 * C2) /\ M[k][k] = C1 * C2
  BY DEF ThreeTurned
<1>3. a = IF cy > 0
            THEN <<atan2(M[k][j], M[k][k]), atan2(-M[k][i], cy), atan2(M[j][i], M[i][i])>>
            ELSE <<atan2(-M[j][k], M[j][j]), atan2(-M[k][i], cy), 0>>
  BY DEF Angles
<1>4. sg = 1 \/ sg = -1
  BY ThreeIndices
<1> HIDE DEF a, C1, C2, C3, S1, S2, S3
<1>5. /\ C1 \in Int /\ C2 \in Int /\ C3 \in Int /\ S1 \in Int /\ S2 \in Int /\ S3 \in Int
      /\ (C2 = 0 /\ (S2 = 1 \/ S2 = -1)) \/ ((C2 = 1 \/ C2 = -1) /\ S2 = 0)
      /\ C3 * C3 + S3 * S3 = 1
  BY <1>1 DEF Quarter
<1>6. CASE C2 # 0
  <2>1. S2 = 0 /\ (C2 = 1 \/ C2 = -1) /\ (sg * C2 = 1 \/ sg * C2 = -1)
    BY <1>4, <1>5, <1>6
  <2>2. cy = 1
    <3>1. (C2 * C3) * (C2 * C3) + (sg * (C2 * S3)) * (sg * (C2 * S3)) = C3 * C3 + S3 * S3
      BY <1>4, <1>5, <2>1
    <3> QED
      BY <1>2, <1>5, <3>1
  <2>3. a = <<atan2(sg * (S1 * C2), C1 * C2), atan2(sg * S2, 1), atan2(sg * (C2 * S3), C2 * C3)>>
    <3>1. -M[k][i] = sg * S2
      BY <1>2, <1>4, <1>5
    <3> HIDE DEF cy
    <3> QED
      BY <1>2, <1>3, <2>2, <3>1
  <2>4. Quarter(C1 * C2, sg * (S1 * C2)) /\ Quarter(C2 * C3, sg * (C2 * S3))
    <3>1. Quarter(C2 * C1, (sg * C2) * S1) /\ Quarter(C2 * C3, (sg * C2) * S3)
      BY <1>1, <2>1, QuarterProducts
    <3>2. C2 * C1 = C1 * C2 /\ (sg * C2) * S1 = sg * (S1 * C2) /\ (sg * C2) * S3 = sg * (C2 * S3)
      BY <1>4, <1>5
    <3> QED
      BY <3>1, <3>2
  <2>5. atan2(sg * S2, 1) = 0
    BY DEF atan2
  <2>6. /\ a \in [1 .. 3 -> Int]
        /\ Cos(a[1]) = C1 * C2 /\ Sin(a[1]) = sg * (S1 * C2)
        /\ Cos(a[2]) = 1 /\ Sin(a[2]) = 0
        /\ Cos(a[3]) = C2 * C3 /\ Sin(a[3]) = sg * (C2 * S3)
    <3>1. Cos(0) = 1 /\ Sin(0) = 0
      BY DEF Cos, Sin
    <3> QED
      BY <2>3, <2>4, <2>5, <3>1, FindsQuarter
  <2>7. ASSUME NEW m, Meant(a, m, sg)
        PROVE  ThreeTurned(M, i, j, k, sg, m)
    <3> DEFINE c1 == Cos(m[1])
               c2 == Cos(m[2])
               c3 == Cos(m[3])
               s1 == Sin(m[1])
               s2 == Sin(m[2])
               s3 == Sin(m[3])
    <3>1. c1 = C1 * C2 /\ c2 = 1 /\ c3 = C2 * C3 /\ s1 = S1 * C2 /\ s2 = 0 /\ s3 = C2 * S3
      <4>1. c1 = Cos(a[1]) /\ c2 = Cos(a[2]) /\ c3 = Cos(a[3])
            /\ s1 = sg * Sin(a[1]) /\ s2 = sg * Sin(a[2]) /\ s3 = sg * Sin(a[3])
        BY <1>4, <2>7, MeantQuarters
      <4> HIDE DEF c1, c2, c3, s1, s2, s3
      <4> QED
        BY <1>4, <1>5, <2>6, <4>1
    <3> HIDE DEF c1, c2, c3, s1, s2, s3
    <3>2. /\ M[i][i] = c2 * c3 /\ M[i][j] = s1 * s2 * c3 - sg * (c1 * s3)
          /\ M[i][k] = sg * (c1 * s2 * c3) + s1 * s3
          /\ M[j][i] = sg * (c2 * s3) /\ M[j][j] = c1 * c3 + sg * (s1 * s2 * s3)
          /\ M[j][k] = c1 * s2 * s3 - sg * (s1 * c3)
          /\ M[k][i] = -(sg * s2) /\ M[k][j] = sg * (s1 * c2) /\ M[k][k] = c1 * c2
      <4>1. CASE C2 = 1
        BY <1>2, <1>4, <1>5, <2>1, <3>1, <4>1
      <4>2. CASE C2 = -1
        BY <1>2, <1>4, <1>5, <2>1, <3>1, <4>2
      <4> QED
        BY <2>1, <4>1, <4>2
    <3> QED
      BY <3>2, Zenon DEF ThreeTurned, c1, c2, c3, s1, s2, s3
  <2> QED
    BY <2>6, <2>7 DEF a
<1>7. CASE C2 = 0
  <2>1. (S2 = 1 \/ S2 = -1) /\ (-(sg * S2) = 1 \/ -(sg * S2) = -1)
    BY <1>4, <1>5, <1>7
  <2>2. cy = 0
    BY <1>2, <1>4, <1>5, <1>7
  <2> DEFINE x == C1 * C3 + sg * (S1 * S2 * S3)
             y == S1 * C3 - sg * (C1 * S2 * S3)
  <2>3. a = <<atan2(sg * y, x), atan2(sg * S2, 0), 0>>
    <3>1. -M[k][i] = sg * S2 /\ M[j][j] = x
      BY <1>2, <1>4, <1>5
    <3>2. -M[j][k] = sg * y
      BY <1>2, <1>4, <1>5
    <3> HIDE DEF cy, x, y
    <3> QED
      BY <1>3, <2>2, <3>1, <3>2
  <2>4. Quarter(x, sg * y) /\ Quarter(0, sg * S2)
    <3> DEFINE u == -(sg * S2)
    <3>1. u = 1 \/ u = -1
      BY <2>1
    <3> HIDE DEF u
    <3>2. Quarter(C1 * C3 - u * (S1 * S3), sg * (S1 * C3 + u * (C1 * S3)))
      BY <1>1, <1>4, <3>1, QuarterProducts
    <3>3. C1 * C3 - u * (S1 * S3) = x /\ S1 * C3 + u * (C1 * S3) = y
      BY <1>4, <1>5 DEF u
    <3>4. sg * S2 = 1 \/ sg * S2 = -1
      BY <1>4, <2>1
    <3>5. Quarter(0, sg * S2)
      BY <3>4 DEF Quarter
    <3> QED
      BY <3>2, <3>3, <3>5
  <2>5. x \in Int /\ y \in Int
    BY <1>4, <1>5
  <2> HIDE DEF x, y
  <2>6. /\ a \in [1 .. 3 -> Int]
        /\ Cos(a[1]) = x /\ Sin(a[1]) = sg * y
        /\ Cos(a[2]) = 0 /\ Sin(a[2]) = sg * S2
        /\ Cos(a[3]) = 1 /\ Sin(a[3]) = 0
    <3>1. Cos(0) = 1 /\ Sin(0) = 0
      BY DEF Cos, Sin
    <3> QED
      BY <2>3, <2>4, <3>1, FindsQuarter
  <2>7. ASSUME NEW m, Meant(a, m, sg)
        PROVE  ThreeTurned(M, i, j, k, sg, m)
    <3> DEFINE c1 == Cos(m[1])
               c2 == Cos(m[2])
               c3 == Cos(m[3])
               s1 == Sin(m[1])
               s2 == Sin(m[2])
               s3 == Sin(m[3])
    <3>1. c1 = x /\ c2 = 0 /\ c3 = 1 /\ s1 = y /\ s2 = S2 /\ s3 = 0
      <4>1. c1 = Cos(a[1]) /\ c2 = Cos(a[2]) /\ c3 = Cos(a[3])
            /\ s1 = sg * Sin(a[1]) /\ s2 = sg * Sin(a[2]) /\ s3 = sg * Sin(a[3])
        BY <1>4, <2>7, MeantQuarters
      <4> HIDE DEF c1, c2, c3, s1, s2, s3
      <4> QED
        BY <1>4, <1>5, <2>5, <2>6, <4>1
    <3> HIDE DEF c1, c2, c3, s1, s2, s3
    <3>2. /\ M[i][i] = c2 * c3 /\ M[i][j] = s1 * s2 * c3 - sg * (c1 * s3)
          /\ M[i][k] = sg * (c1 * s2 * c3) + s1 * s3
          /\ M[j][i] = sg * (c2 * s3) /\ M[j][j] = c1 * c3 + sg * (s1 * s2 * s3)
          /\ M[j][k] = c1 * s2 * s3 - sg * (s1 * c3)
          /\ M[k][i] = -(sg * s2) /\ M[k][j] = sg * (s1 * c2) /\ M[k][k] = c1 * c2
      <4>1. CASE S2 = 1
        BY <1>2, <1>4, <1>5, <1>7, <2>5, <3>1, <4>1 DEF x, y
      <4>2. CASE S2 = -1
        BY <1>2, <1>4, <1>5, <1>7, <2>5, <3>1, <4>2 DEF x, y
      <4> QED
        BY <2>1, <4>1, <4>2
    <3> QED
      BY <3>2, Zenon DEF ThreeTurned, c1, c2, c3, s1, s2, s3
  <2> QED
    BY <2>6, <2>7 DEF a
<1> QED
  BY <1>6, <1>7

\* So do those read from one whose last axis is the first.
LEMMA TwoAnglesBack ==
  ASSUME NEW i, NEW j, NEW k, NEW sg, Order(i, j, k, sg), NEW M \in Matrix,
         NEW t \in [1 .. 3 -> Int], TwoTurned(M, i, j, k, sg, t)
  PROVE  /\ Angles(M, i, j, k, 1) \in [1 .. 3 -> Int]
         /\ \A m : Meant(Angles(M, i, j, k, 1), m, sg) => TwoTurned(M, i, j, k, sg, m)
<1> DEFINE a == Angles(M, i, j, k, 1)
           C1 == Cos(t[1])
           C2 == Cos(t[2])
           C3 == Cos(t[3])
           S1 == Sin(t[1])
           S2 == Sin(t[2])
           S3 == Sin(t[3])
           sy == M[i][j] * M[i][j] + M[i][k] * M[i][k]
<1>1. Quarter(C1, S1) /\ Quarter(C2, S2) /\ Quarter(C3, S3)
  BY ThreeQuarters
<1>2. /\ M[i][i] = C2 /\ M[i][j] = S1 * S2 /\ M[i][k] = sg * (C1 * S2)
      /\ M[j][i] = S2 * S3 /\ M[j][j] = C1 * C3 - S1 * C2 * S3
      /\ M[j][k] = -(sg * (S1 * C3 + C1 * C2 * S3))
      /\ M[k][i] = -(sg * (S2 * C3)) /\ M[k][j] = sg * (C1 * S3 + S1 * C2 * C3)
      /\ M[k][k] = C1 * C2 * C3 - S1 * S3
  BY DEF TwoTurned
<1>3. a = IF sy > 0
            THEN <<atan2(M[i][j], M[i][k]), atan2(sy, M[i][i]), atan2(M[j][i], -M[k][i])>>
            ELSE <<atan2(-M[j][k], M[j][j]), atan2(sy, M[i][i]), 0>>
  BY DEF Angles
<1>4. sg = 1 \/ sg = -1
  BY ThreeIndices
<1> HIDE DEF a, C1, C2, C3, S1, S2, S3
<1>5. /\ C1 \in Int /\ C2 \in Int /\ C3 \in Int /\ S1 \in Int /\ S2 \in Int /\ S3 \in Int
      /\ (C2 = 0 /\ (S2 = 1 \/ S2 = -1)) \/ ((C2 = 1 \/ C2 = -1) /\ S2 = 0)
      /\ C1 * C1 + S1 * S1 = 1
  BY <1>1 DEF Quarter
<1>6. CASE S2 # 0
  <2>1. C2 = 0 /\ (S2 = 1 \/ S2 = -1) /\ (sg * S2 = 1 \/ sg * S2 = -1)
    BY <1>4, <1>5, <1>6
  <2>2. sy = 1
    <3>1. (S1 * S2) * (S1 * S2) + (sg * (C1 * S2)) * (sg * (C1 * S2)) = C1 * C1 + S1 * S1
      <4>1. (S1 * S2) * (S1 * S2) = S1 * S1
        BY <1>5, <2>1
      <4>2. (sg * (C1 * S2)) * (sg * (C1 * S2)) = C1 * C1
        <5>1. sg * (C1 * S2) = C1 \/ sg * (C1 * S2) = -C1
          BY <1>4, <1>5, <2>1
        <5> QED
          BY <1>5, <5>1
      <4> QED
        BY <1>5, <4>1, <4>2
    <3> QED
      BY <1>2, <1>5, <3>1
  <2>3. a = <<atan2(S1 * S2, sg * (C1 * S2)), atan2(1, 0), atan2(S2 * S3, sg * (S2 * C3))>>
    <3>1. -M[k][i] = sg * (S2 * C3)
      <4> DEFINE x == sg * (S2 * C3)
      <4>1. x \in Int
        BY <1>4, <1>5
      <4>2. M[k][i] = -x
        BY <1>2
      <4> HIDE DEF x
      <4>3. -M[k][i] = x
        BY <4>1, <4>2
      <4> QED
        BY <4>3 DEF x
    <3> HIDE DEF sy
    <3> QED
      BY <1>2, <1>3, <2>1, <2>2, <3>1
  <2>4. Quarter(sg * (C1 * S2), S1 * S2) /\ Quarter(sg * (S2 * C3), S2 * S3)
    <3>1. Quarter((sg * S2) * C1, S2 * S1) /\ Quarter((sg * S2) * C3, S2 * S3)
      BY <1>1, <2>1, QuarterProducts
    <3>2. (sg * S2) * C1 = sg * (C1 * S2) /\ S2 * S1 = S1 * S2 /\ (sg * S2) * C3 = sg * (S2 * C3)
      BY <1>4, <1>5
    <3> QED
      BY <3>1, <3>2
  <2>5. /\ a \in [1 .. 3 -> Int]
        /\ Cos(a[1]) = sg * (C1 * S2) /\ Sin(a[1]) = S1 * S2
        /\ Cos(a[2]) = 0 /\ Sin(a[2]) = 1
        /\ Cos(a[3]) = sg * (S2 * C3) /\ Sin(a[3]) = S2 * S3
    <3>1. atan2(1, 0) = 1 /\ Cos(1) = 0 /\ Sin(1) = 1
      BY DEF atan2, Cos, Sin
    <3> QED
      BY <2>3, <2>4, <3>1, FindsQuarter
  <2>6. ASSUME NEW m, Meant(a, m, sg)
        PROVE  TwoTurned(M, i, j, k, sg, m)
    <3> DEFINE c1 == Cos(m[1])
               c2 == Cos(m[2])
               c3 == Cos(m[3])
               s1 == Sin(m[1])
               s2 == Sin(m[2])
               s3 == Sin(m[3])
    <3>1. /\ c1 = sg * (C1 * S2) /\ c2 = 0 /\ c3 = sg * (S2 * C3)
          /\ s1 = sg * (S1 * S2) /\ s2 = sg /\ s3 = sg * (S2 * S3)
      <4>1. c1 = Cos(a[1]) /\ c2 = Cos(a[2]) /\ c3 = Cos(a[3])
            /\ s1 = sg * Sin(a[1]) /\ s2 = sg * Sin(a[2]) /\ s3 = sg * Sin(a[3])
        BY <1>4, <2>6, MeantQuarters
      <4> HIDE DEF c1, c2, c3, s1, s2, s3
      <4> QED
        BY <1>4, <1>5, <2>5, <4>1
    <3> HIDE DEF c1, c2, c3, s1, s2, s3
    <3>2. /\ M[i][i] = c2 /\ M[i][j] = s1 * s2 /\ M[i][k] = sg * (c1 * s2)
          /\ M[j][i] = s2 * s3 /\ M[j][j] = c1 * c3 - s1 * c2 * s3
          /\ M[j][k] = -(sg * (s1 * c3 + c1 * c2 * s3))
          /\ M[k][i] = -(sg * (s2 * c3)) /\ M[k][j] = sg * (c1 * s3 + s1 * c2 * c3)
          /\ M[k][k] = c1 * c2 * c3 - s1 * s3
      <4>1. CASE S2 = 1 /\ sg = 1
        BY <1>2, <1>5, <2>1, <3>1, <4>1
      <4>2. CASE S2 = -1 /\ sg = 1
        BY <1>2, <1>5, <2>1, <3>1, <4>2
      <4>3. CASE S2 = 1 /\ sg = -1
        BY <1>2, <1>5, <2>1, <3>1, <4>3
      <4>4. CASE S2 = -1 /\ sg = -1
        BY <1>2, <1>5, <2>1, <3>1, <4>4
      <4> QED
        BY <1>4, <2>1, <4>1, <4>2, <4>3, <4>4
    <3> QED
      BY <3>2, Zenon DEF TwoTurned, c1, c2, c3, s1, s2, s3
  <2> QED
    BY <2>5, <2>6 DEF a
<1>7. CASE S2 = 0
  <2>1. C2 = 1 \/ C2 = -1
    BY <1>5, <1>7
  <2>2. sy = 0
    BY <1>2, <1>4, <1>5, <1>7
  <2> DEFINE x == C1 * C3 - S1 * C2 * S3
             y == S1 * C3 + C1 * C2 * S3
  <2>3. a = <<atan2(sg * y, x), atan2(0, C2), 0>>
    <3>1. M[j][j] = x /\ M[i][i] = C2
      BY <1>2
    <3>2. -M[j][k] = sg * y
      BY <1>2, <1>4, <1>5
    <3> HIDE DEF sy, x, y
    <3> QED
      BY <1>3, <2>2, <3>1, <3>2
  <2>4. Quarter(x, sg * y) /\ Quarter(C2, 0)
    <3>1. Quarter(C1 * C3 - C2 * (S1 * S3), sg * (S1 * C3 + C2 * (C1 * S3)))
      BY <1>1, <1>4, <2>1, QuarterProducts
    <3>2. C1 * C3 - C2 * (S1 * S3) = x /\ S1 * C3 + C2 * (C1 * S3) = y
      BY <1>5, <2>1
    <3>3. Quarter(C2, 0)
      BY <2>1 DEF Quarter
    <3> QED
      BY <3>1, <3>2, <3>3
  <2>5. x \in Int /\ y \in Int
    BY <1>5
  <2> HIDE DEF x, y
  <2>6. /\ a \in [1 .. 3 -> Int]
        /\ Cos(a[1]) = x /\ Sin(a[1]) = sg * y
        /\ Cos(a[2]) = C2 /\ Sin(a[2]) = 0
        /\ Cos(a[3]) = 1 /\ Sin(a[3]) = 0
    <3>1. Cos(0) = 1 /\ Sin(0) = 0
      BY DEF Cos, Sin
    <3> QED
      BY <2>3, <2>4, <3>1, FindsQuarter
  <2>7. ASSUME NEW m, Meant(a, m, sg)
        PROVE  TwoTurned(M, i, j, k, sg, m)
    <3> DEFINE c1 == Cos(m[1])
               c2 == Cos(m[2])
               c3 == Cos(m[3])
               s1 == Sin(m[1])
               s2 == Sin(m[2])
               s3 == Sin(m[3])
    <3>1. c1 = x /\ c2 = C2 /\ c3 = 1 /\ s1 = y /\ s2 = 0 /\ s3 = 0
      <4>1. c1 = Cos(a[1]) /\ c2 = Cos(a[2]) /\ c3 = Cos(a[3])
            /\ s1 = sg * Sin(a[1]) /\ s2 = sg * Sin(a[2]) /\ s3 = sg * Sin(a[3])
        BY <1>4, <2>7, MeantQuarters
      <4> HIDE DEF c1, c2, c3, s1, s2, s3
      <4> QED
        BY <1>4, <1>5, <2>5, <2>6, <4>1
    <3> HIDE DEF c1, c2, c3, s1, s2, s3
    <3>2. /\ M[i][i] = c2 /\ M[i][j] = s1 * s2 /\ M[i][k] = sg * (c1 * s2)
          /\ M[j][i] = s2 * s3 /\ M[j][j] = c1 * c3 - s1 * c2 * s3
          /\ M[j][k] = -(sg * (s1 * c3 + c1 * c2 * s3))
          /\ M[k][i] = -(sg * (s2 * c3)) /\ M[k][j] = sg * (c1 * s3 + s1 * c2 * c3)
          /\ M[k][k] = c1 * c2 * c3 - s1 * s3
      <4>1. x * C2 = C1 * C2 * C3 - S1 * S3 /\ y * C2 = C1 * S3 + S1 * C2 * C3
        <5>1. CASE C2 = 1
          BY <1>5, <5>1 DEF x, y
        <5>2. CASE C2 = -1
          BY <1>5, <5>2 DEF x, y
        <5> QED
          BY <2>1, <5>1, <5>2
      <4>2. M[j][j] = x /\ M[j][k] = -(sg * y) /\ M[k][j] = sg * (y * C2) /\ M[k][k] = x * C2
        <5>1. M[j][j] = x /\ M[j][k] = -(sg * y)
          BY <1>2 DEF x, y
        <5>2. M[k][j] = sg * (y * C2) /\ M[k][k] = x * C2
          BY <1>2, <4>1
        <5> QED
          BY <5>1, <5>2
      <4>3. M[i][i] = C2 /\ M[i][j] = 0 /\ M[i][k] = 0 /\ M[j][i] = 0 /\ M[k][i] = 0
        BY <1>2, <1>4, <1>5, <1>7
      <4> QED
        BY <1>4, <1>5, <2>5, <3>1, <4>2, <4>3
    <3> QED
      BY <3>2, Zenon DEF TwoTurned, c1, c2, c3, s1, s2, s3
  <2> QED
    BY <2>6, <2>7 DEF a
<1> QED
  BY <1>6, <1>7

\* The angles read from a rotation mean it, in every axis sequence.
LEMMA AnglesTurned ==
  ASSUME NEW axes \in AXES, NEW M \in Matrix, NEW t \in [1 .. 3 -> Int], Turned(M, axes, t)
  PROVE  /\ euler_from_matrix(M, axes) \in [1 .. 3 -> Int]
         /\ Rotation(euler_from_matrix(M, axes), axes) = M
<1> DEFINE i == axes.first
           j == Second(axes)
           k == Third(axes)
           sg == 1 - 2 * axes.parity
           a == Angles(M, i, j, k, axes.repetition)
           m == IF axes.parity = 1 THEN Negate(a) ELSE a
           e == euler_from_matrix(M, axes)
<1>1. Order(i, j, k, sg) /\ axes.parity \in {0, 1} /\ axes.repetition \in {0, 1} /\ axes.frame \in {0, 1}
  BY Orders DEF AXES
<1>2. /\ axes.repetition = 1 => TwoTurned(M, i, j, k, sg, t)
      /\ axes.repetition # 1 => ThreeTurned(M, i, j, k, sg, t)
  BY DEF Turned
<1>3. e = IF axes.frame = 1 THEN Swap(m) ELSE m
  BY DEF euler_from_matrix
<1> HIDE DEF i, j, k, sg, e
<1>4. /\ a \in [1 .. 3 -> Int]
      /\ \A n : Meant(a, n, sg) => /\ axes.repetition = 1 => TwoTurned(M, i, j, k, sg, n)
                                   /\ axes.repetition # 1 => ThreeTurned(M, i, j, k, sg, n)
  <2>1. CASE axes.repetition = 1
    BY <1>1, <1>2, <2>1, TwoAnglesBack
  <2>2. CASE axes.repetition = 0
    BY <1>1, <1>2, <2>2, ThreeAnglesBack
  <2> QED
    BY <1>1, <2>1, <2>2
<1> HIDE DEF a
<1>5. /\ m \in [1 .. 3 -> Int] /\ m[1] = sg * a[1] /\ m[2] = sg * a[2] /\ m[3] = sg * a[3]
  <2>1. a[1] \in Int /\ a[2] \in Int /\ a[3] \in Int
    BY <1>4
  <2>2. CASE axes.parity = 1
    BY <2>1, <2>2 DEF Negate, sg
  <2>3. CASE axes.parity = 0
    BY <1>4, <2>1, <2>3 DEF sg
  <2> QED
    BY <1>1, <2>2, <2>3
<1>6. Meant(a, m, sg)
  BY <1>4, <1>5 DEF Meant
<1> HIDE DEF m
<1>7. /\ e \in [1 .. 3 -> Int]
      /\ InOrder(e, axes) \in [1 .. 3 -> Int]
      /\ InOrder(e, axes)[1] = m[1] /\ InOrder(e, axes)[2] = m[2] /\ InOrder(e, axes)[3] = m[3]
  BY <1>3, <1>5 DEF InOrder, Swap
<1>8. Rotation(e, axes) \in Matrix /\ Turned(Rotation(e, axes), axes, InOrder(e, axes))
  BY <1>7, RotationTurned
<1>9. Rotation(e, axes) = M
  <2>1. CASE axes.repetition = 1
    <3>1. TwoTurned(M, i, j, k, sg, m)
      BY <1>4, <1>6, <2>1
    <3>2. TwoTurned(Rotation(e, axes), i, j, k, sg, InOrder(e, axes))
      BY <1>8, <2>1 DEF Turned, i, j, k, sg
    <3> QED
      BY <1>1, <1>7, <1>8, <3>1, <3>2, SameTurn
  <2>2. CASE axes.repetition # 1
    <3>1. ThreeTurned(M, i, j, k, sg, m)
      BY <1>4, <1>6, <2>2
    <3>2. ThreeTurned(Rotation(e, axes), i, j, k, sg, InOrder(e, axes))
      BY <1>8, <2>2 DEF Turned, i, j, k, sg
    <3> QED
      BY <1>1, <1>7, <1>8, <3>1, <3>2, SameTurn
  <2> QED
    BY <2>1, <2>2
<1> QED
  BY <1>7, <1>9 DEF e

-----------------------------------------------------------------------------
(* Frames *)

Vector == [1 .. 3 -> Int]

\* M turns and nothing else: its transpose turns back.
Turning(M) ==
  /\ M \in Matrix
  /\ \A r, c \in 1 .. 3 : Times(M, Transpose(M))[r][c] = IF r = c THEN 1 ELSE 0

\* What matrices make of matrices and vectors.
LEMMA MatricesTyped ==
  ASSUME NEW A \in Matrix
  PROVE  /\ Transpose(A) \in Matrix
         /\ \A B \in Matrix : Times(A, B) \in Matrix
         /\ \A v \in Vector : Apply(A, v) \in Vector
<1>1. \A B \in Matrix : \A r, c \in 1 .. 3 : B[r][c] \in Int
  BY DEF Matrix
<1>2. \A v \in Vector : \A r \in 1 .. 3 : v[r] \in Int
  BY DEF Vector
<1>3. Transpose(A) \in Matrix
  BY <1>1 DEF Transpose, Matrix
<1>4. ASSUME NEW B \in Matrix
      PROVE  Times(A, B) \in Matrix
  BY <1>1 DEF Times, Matrix
<1>5. ASSUME NEW v \in Vector
      PROVE  Apply(A, v) \in Vector
  BY <1>1, <1>2 DEF Apply, Vector
<1> QED
  BY <1>3, <1>4, <1>5

\* Products of matrices associate.
LEMMA TimesAssociate ==
  ASSUME NEW A \in Matrix, NEW B \in Matrix, NEW C \in Matrix
  PROVE  Times(Times(A, B), C) = Times(A, Times(B, C))
<1>1. \A r, c \in 1 .. 3 : A[r][c] \in Int /\ B[r][c] \in Int /\ C[r][c] \in Int
  BY DEF Matrix
<1>2. Times(Times(A, B), C) \in Matrix /\ Times(A, Times(B, C)) \in Matrix
  <2>1. Times(A, B) \in Matrix /\ Times(B, C) \in Matrix
    BY MatricesTyped
  <2> QED
    BY <2>1, MatricesTyped
<1>3. ASSUME NEW r \in 1 .. 3, NEW c \in 1 .. 3
      PROVE  Times(Times(A, B), C)[r][c] = Times(A, Times(B, C))[r][c]
  <2> DEFINE AB(n) == A[r][1] * B[1][n] + A[r][2] * B[2][n] + A[r][3] * B[3][n]
             BC(n) == B[n][1] * C[1][c] + B[n][2] * C[2][c] + B[n][3] * C[3][c]
  <2>1. Times(Times(A, B), C)[r][c] = AB(1) * C[1][c] + AB(2) * C[2][c] + AB(3) * C[3][c]
    <3> DEFINE P == Times(A, B)
    <3>1. P[r][1] = AB(1) /\ P[r][2] = AB(2) /\ P[r][3] = AB(3)
      BY DEF Times
    <3> HIDE DEF P, AB
    <3>2. Times(P, C)[r][c] = P[r][1] * C[1][c] + P[r][2] * C[2][c] + P[r][3] * C[3][c]
      BY DEF Times
    <3> QED
      BY <3>1, <3>2 DEF P
  <2>2. Times(A, Times(B, C))[r][c] = A[r][1] * BC(1) + A[r][2] * BC(2) + A[r][3] * BC(3)
    BY DEF Times
  <2>3. /\ A[r][1] \in Int /\ A[r][2] \in Int /\ A[r][3] \in Int
        /\ C[1][c] \in Int /\ C[2][c] \in Int /\ C[3][c] \in Int
        /\ B[1][1] \in Int /\ B[1][2] \in Int /\ B[1][3] \in Int
        /\ B[2][1] \in Int /\ B[2][2] \in Int /\ B[2][3] \in Int
        /\ B[3][1] \in Int /\ B[3][2] \in Int /\ B[3][3] \in Int
    BY <1>1
  <2>4. AB(1) * C[1][c] + AB(2) * C[2][c] + AB(3) * C[3][c] = A[r][1] * BC(1) + A[r][2] * BC(2) + A[r][3] * BC(3)
    BY <2>3
  <2> QED
    BY <2>1, <2>2, <2>4
<1> QED
  BY <1>2, <1>3, Entrywise

\* The transpose of a product is that of the transposes, turned round.
LEMMA TransposeTimes ==
  ASSUME NEW A \in Matrix, NEW B \in Matrix
  PROVE  Transpose(Times(A, B)) = Times(Transpose(B), Transpose(A))
<1>1. \A r, c \in 1 .. 3 : A[r][c] \in Int /\ B[r][c] \in Int
  BY DEF Matrix
<1>2. Transpose(Times(A, B)) \in Matrix /\ Times(Transpose(B), Transpose(A)) \in Matrix
  BY MatricesTyped
<1>3. ASSUME NEW r \in 1 .. 3, NEW c \in 1 .. 3
      PROVE  Transpose(Times(A, B))[r][c] = Times(Transpose(B), Transpose(A))[r][c]
  <2>1. Transpose(Times(A, B))[r][c] = A[c][1] * B[1][r] + A[c][2] * B[2][r] + A[c][3] * B[3][r]
    BY DEF Transpose, Times
  <2>2. Times(Transpose(B), Transpose(A))[r][c] = B[1][r] * A[c][1] + B[2][r] * A[c][2] + B[3][r] * A[c][3]
    <3> DEFINE P == Transpose(B)
               Q == Transpose(A)
    <3>1. /\ P[r][1] = B[1][r] /\ P[r][2] = B[2][r] /\ P[r][3] = B[3][r]
          /\ Q[1][c] = A[c][1] /\ Q[2][c] = A[c][2] /\ Q[3][c] = A[c][3]
      BY DEF Transpose
    <3> HIDE DEF P, Q
    <3>2. Times(P, Q)[r][c] = P[r][1] * Q[1][c] + P[r][2] * Q[2][c] + P[r][3] * Q[3][c]
      BY DEF Times
    <3> QED
      BY <3>1, <3>2 DEF P, Q
  <2>3. /\ A[c][1] \in Int /\ A[c][2] \in Int /\ A[c][3] \in Int
        /\ B[1][r] \in Int /\ B[2][r] \in Int /\ B[3][r] \in Int
    BY <1>1
  <2> QED
    BY <2>1, <2>2, <2>3
<1> QED
  BY <1>2, <1>3, Entrywise

\* Turned back, a matrix or a vector is what it was.
LEMMA TurnsBack ==
  ASSUME NEW R, Turning(R)
  PROVE  /\ \A A \in Matrix : Times(R, Times(Transpose(R), A)) = A
         /\ \A v \in Vector : Apply(R, Apply(Transpose(R), v)) = v
<1> DEFINE I == Times(R, Transpose(R))
<1>1. R \in Matrix /\ Transpose(R) \in Matrix /\ I \in Matrix
  BY MatricesTyped DEF Turning
<1>2. /\ I[1][1] = 1 /\ I[1][2] = 0 /\ I[1][3] = 0
      /\ I[2][1] = 0 /\ I[2][2] = 1 /\ I[2][3] = 0
      /\ I[3][1] = 0 /\ I[3][2] = 0 /\ I[3][3] = 1
  BY DEF Turning
<1>3. ASSUME NEW A \in Matrix
      PROVE  Times(R, Times(Transpose(R), A)) = A
  <2>1. Times(R, Times(Transpose(R), A)) = Times(I, A)
    BY <1>1, TimesAssociate
  <2> HIDE DEF I
  <2>2. ASSUME NEW r \in 1 .. 3, NEW c \in 1 .. 3
        PROVE  Times(I, A)[r][c] = A[r][c]
    <3>1. Times(I, A)[r][c] = I[r][1] * A[1][c] + I[r][2] * A[2][c] + I[r][3] * A[3][c]
      BY DEF Times
    <3>2. A[1][c] \in Int /\ A[2][c] \in Int /\ A[3][c] \in Int
      BY DEF Matrix
    <3>3. r = 1 \/ r = 2 \/ r = 3
      OBVIOUS
    <3> QED
      BY <1>2, <3>1, <3>2, <3>3
  <2>3. Times(I, A) \in Matrix
    BY <1>1, MatricesTyped
  <2> QED
    BY <2>1, <2>2, <2>3, Entrywise
<1>4. ASSUME NEW v \in Vector
      PROVE  Apply(R, Apply(Transpose(R), v)) = v
  <2> DEFINE T == Transpose(R)
             w == Apply(T, v)
  <2>1. v[1] \in Int /\ v[2] \in Int /\ v[3] \in Int
    BY DEF Vector
  <2>2. ASSUME NEW r \in 1 .. 3
        PROVE  Apply(R, w)[r] = v[r]
    <3>1. Apply(R, w)[r] = R[r][1] * w[1] + R[r][2] * w[2] + R[r][3] * w[3]
      BY DEF Apply
    <3>2. /\ w[1] = T[1][1] * v[1] + T[1][2] * v[2] + T[1][3] * v[3]
          /\ w[2] = T[2][1] * v[1] + T[2][2] * v[2] + T[2][3] * v[3]
          /\ w[3] = T[3][1] * v[1] + T[3][2] * v[2] + T[3][3] * v[3]
      BY DEF Apply
    <3>3. /\ I[r][1] = R[r][1] * T[1][1] + R[r][2] * T[2][1] + R[r][3] * T[3][1]
          /\ I[r][2] = R[r][1] * T[1][2] + R[r][2] * T[2][2] + R[r][3] * T[3][2]
          /\ I[r][3] = R[r][1] * T[1][3] + R[r][2] * T[2][3] + R[r][3] * T[3][3]
      BY DEF Times
    <3>4. /\ R[r][1] \in Int /\ R[r][2] \in Int /\ R[r][3] \in Int
          /\ T[1][1] \in Int /\ T[1][2] \in Int /\ T[1][3] \in Int
          /\ T[2][1] \in Int /\ T[2][2] \in Int /\ T[2][3] \in Int
          /\ T[3][1] \in Int /\ T[3][2] \in Int /\ T[3][3] \in Int
      BY <1>1 DEF Matrix
    <3> HIDE DEF w, T, I
    <3>5. Apply(R, w)[r] = I[r][1] * v[1] + I[r][2] * v[2] + I[r][3] * v[3]
      BY <2>1, <3>1, <3>2, <3>3, <3>4
    <3>6. r = 1 \/ r = 2 \/ r = 3
      OBVIOUS
    <3> QED
      BY <1>2, <2>1, <3>5, <3>6
  <2>3. Apply(R, w) \in Vector
    BY <1>1, MatricesTyped
  <2> HIDE DEF w
  <2>4. Apply(R, w) = v
    BY <2>2, <2>3 DEF Vector
  <2> QED
    BY <2>4 DEF w
<1> QED
  BY <1>3, <1>4

\* A rotation about an axis only turns.
LEMMA AboutTurning ==
  ASSUME NEW axis \in 1 .. 3, NEW a \in Int
  PROVE  Turning(About(axis, a))
<1>1. PICK j, k : Order(axis, j, k, 1)
  BY DEF Order
<1> DEFINE M == About(axis, a)
           T == Transpose(M)
           c == Cos(a)
           s == 1 * Sin(a)
<1>2. M \in Matrix /\ Turns1(M, axis, j, k, c, s)
  BY <1>1, AboutTurns
<1>3. c \in Int /\ s \in Int /\ c * c + s * s = 1
  <2>1. Quarter(Cos(a), Sin(a))
    BY Quarters, HalfAngles DEF Quarter
  <2> QED
    BY <2>1 DEF Quarter
<1>4. T \in Matrix /\ \A r, n \in 1 .. 3 : T[r][n] = M[n][r]
  BY <1>2, MatricesTyped DEF Transpose
<1> HIDE DEF M, T, c, s
<1>5. \A r, n \in 1 .. 3 : Times(M, T)[r][n] = M[r][axis] * M[n][axis] + M[r][j] * M[n][j] + M[r][k] * M[n][k]
  BY <1>1, <1>2, <1>4, TimesEntries, ThreeIndices
<1>6. /\ axis \in 1 .. 3 /\ j \in 1 .. 3 /\ k \in 1 .. 3 /\ axis # j /\ j # k /\ axis # k
      /\ \A r \in 1 .. 3 : r = axis \/ r = j \/ r = k
  BY <1>1, ThreeIndices
<1>7. ASSUME NEW r \in 1 .. 3, NEW n \in 1 .. 3
      PROVE  Times(M, T)[r][n] = IF r = n THEN 1 ELSE 0
  <2>1. Times(M, T)[r][n] = M[r][axis] * M[n][axis] + M[r][j] * M[n][j] + M[r][k] * M[n][k]
    BY <1>5
  <2>2. /\ M[axis][axis] = 1 /\ M[axis][j] = 0 /\ M[axis][k] = 0
        /\ M[j][axis] = 0 /\ M[j][j] = c /\ M[j][k] = -s
        /\ M[k][axis] = 0 /\ M[k][j] = s /\ M[k][k] = c
    BY <1>2 DEF Turns1
  <2>3. CASE r = axis
    BY <1>3, <1>6, <2>1, <2>2, <2>3
  <2>4. CASE r = j
    BY <1>3, <1>6, <2>1, <2>2, <2>4
  <2>5. CASE r = k
    BY <1>3, <1>6, <2>1, <2>2, <2>5
  <2> QED
    BY <1>6, <2>3, <2>4, <2>5
<1> QED
  BY <1>2, <1>7 DEF Turning, M, T

\* Nor does one rotation after another.
LEMMA TurningTimes ==
  ASSUME NEW A, NEW B, Turning(A), Turning(B)
  PROVE  Turning(Times(A, B))
<1>1. A \in Matrix /\ B \in Matrix /\ Transpose(A) \in Matrix /\ Transpose(B) \in Matrix
  BY MatricesTyped DEF Turning
<1>2. Times(A, B) \in Matrix /\ Times(Transpose(B), Transpose(A)) \in Matrix
  BY <1>1, MatricesTyped
<1>3. Times(Times(A, B), Transpose(Times(A, B))) = Times(A, Transpose(A))
  <2>1. Transpose(Times(A, B)) = Times(Transpose(B), Transpose(A))
    BY <1>1, TransposeTimes
  <2>2. Times(Times(A, B), Times(Transpose(B), Transpose(A)))
          = Times(A, Times(B, Times(Transpose(B), Transpose(A))))
    BY <1>1, <1>2, TimesAssociate
  <2>3. Times(B, Times(Transpose(B), Transpose(A))) = Transpose(A)
    BY <1>1, TurnsBack
  <2> QED
    BY <2>1, <2>2, <2>3
<1> QED
  BY <1>2, <1>3 DEF Turning

\* sxyz is one of the sequences, and a frame is turned by angles in it.
LEMMA FramesTurned ==
  /\ sxyz \in AXES
  /\ \A f \in Frames : /\ f.trans \in Vector
                       /\ \E b \in [1 .. 3 -> Int] : f.rot = Rotation(b, sxyz)
<1>1. sxyz \in AXES
  BY DEF sxyz, AXES
<1>2. ASSUME NEW f \in Frames
      PROVE  f.trans \in Vector /\ \E b \in [1 .. 3 -> Int] : f.rot = Rotation(b, sxyz)
  <2>1. f.trans \in [1 .. 3 -> Int] /\ f.rot \in Orientations
    BY DEF Frames
  <2>2. PICK b \in [1 .. 3 -> -1 .. 2] : f.rot = Rotation(b, sxyz)
    BY <2>1 DEF Orientations
  <2>3. b \in [1 .. 3 -> Int]
    OBVIOUS
  <2> QED
    BY <2>1, <2>2, <2>3 DEF Vector
<1> QED
  BY <1>1, <1>2

\* A sum of vectors is one.
LEMMA PlusTyped ==
  ASSUME NEW v \in Vector, NEW w \in Vector
  PROVE  Plus(v, w) \in Vector
<1>1. v[1] \in Int /\ v[2] \in Int /\ v[3] \in Int /\ w[1] \in Int /\ w[2] \in Int /\ w[3] \in Int
  BY DEF Vector
<1> QED
  BY <1>1 DEF Plus, Vector

-----------------------------------------------------------------------------
(* Orientations *)

\* The transpose of a transpose.
LEMMA TransposeBack ==
  ASSUME NEW A \in Matrix
  PROVE  Transpose(Transpose(A)) = A
<1>1. Transpose(Transpose(A)) \in Matrix
  BY MatricesTyped
<1>2. \A r, c \in 1 .. 3 : Transpose(Transpose(A))[r][c] = A[r][c]
  BY DEF Transpose
<1> QED
  BY <1>1, <1>2, Entrywise

\* Round the axes, as 1, 2, 3 follow each other.
After(i)  == IF i = 3 THEN 1 ELSE i + 1
Before(i) == IF i = 1 THEN 3 ELSE i - 1

\* M turns, and no mirror is in it: an entry is its own cofactor.
Proper(M) ==
  /\ Turning(M) /\ Turning(Transpose(M))
  /\ \A i, l \in 1 .. 3 :
       M[i][l] = M[After(i)][After(l)] * M[Before(i)][Before(l)]
                   - M[After(i)][Before(l)] * M[Before(i)][After(l)]

\* A rotation about an axis turns back by its transpose too.
LEMMA AboutTurnsBack ==
  ASSUME NEW axis \in 1 .. 3, NEW a \in Int
  PROVE  Turning(Transpose(About(axis, a)))
<1>1. PICK j, k : Order(axis, j, k, 1)
  BY DEF Order
<1> DEFINE M == About(axis, a)
           T == Transpose(M)
           N == About(axis, -a)
           c == Cos(a)
           s == Sin(a)
<1>2. /\ M \in Matrix /\ Turns1(M, axis, j, k, Cos(a), 1 * Sin(a))
      /\ N \in Matrix /\ Turns1(N, axis, j, k, Cos(-a), 1 * Sin(-a))
  BY <1>1, AboutTurns
<1>3. c \in Int /\ s \in Int /\ Cos(-a) = c /\ Sin(-a) = -s
  BY HalfAngles, Quarters
<1>4. T \in Matrix /\ \A r, n \in 1 .. 3 : T[r][n] = M[n][r]
  BY <1>2, MatricesTyped DEF Transpose
<1>5. Turning(N)
  BY AboutTurning
<1>6. /\ axis \in 1 .. 3 /\ j \in 1 .. 3 /\ k \in 1 .. 3
      /\ \A r \in 1 .. 3 : r = axis \/ r = j \/ r = k
  BY <1>1, ThreeIndices
<1> HIDE DEF M, N, T, c, s
<1>7. /\ M[axis][axis] = N[axis][axis] /\ M[j][axis] = N[axis][j] /\ M[k][axis] = N[axis][k]
      /\ M[axis][j] = N[j][axis] /\ M[j][j] = N[j][j] /\ M[k][j] = N[j][k]
      /\ M[axis][k] = N[k][axis] /\ M[j][k] = N[k][j] /\ M[k][k] = N[k][k]
  BY <1>2, <1>3 DEF Turns1, c, s
<1>8. \A r, n \in 1 .. 3 : T[r][n] = N[r][n]
  BY <1>4, <1>6, <1>7
<1>9. T = N
  BY <1>2, <1>4, <1>8, Entrywise
<1> QED
  BY <1>5, <1>9 DEF M, T

\* A rotation about an axis mirrors nothing.
LEMMA AboutProper ==
  ASSUME NEW axis \in 1 .. 3, NEW a \in Int
  PROVE  Proper(About(axis, a))
<1> DEFINE x == axis
           y == After(axis)
           z == Before(axis)
           M == About(axis, a)
           c == Cos(a)
           s == 1 * Sin(a)
<1>1. /\ Order(x, y, z, 1) /\ \A r \in 1 .. 3 : r = x \/ r = y \/ r = z
      /\ After(x) = y /\ After(y) = z /\ After(z) = x
      /\ Before(x) = z /\ Before(y) = x /\ Before(z) = y
  BY DEF Order, After, Before
<1> HIDE DEF x, y, z
<1>2. M \in Matrix /\ Turns1(M, x, y, z, c, s)
  BY <1>1, AboutTurns DEF x
<1>3. c \in Int /\ s \in Int /\ c * c + s * s = 1
  <2>1. Quarter(Cos(a), Sin(a))
    BY Quarters, HalfAngles DEF Quarter
  <2> QED
    BY <2>1 DEF Quarter
<1>4. Turning(M) /\ Turning(Transpose(M))
  BY AboutTurning, AboutTurnsBack
<1> HIDE DEF M, c, s
<1>5. /\ M[x][x] = M[y][y] * M[z][z] - M[y][z] * M[z][y]
      /\ M[x][y] = M[y][z] * M[z][x] - M[y][x] * M[z][z]
      /\ M[x][z] = M[y][x] * M[z][y] - M[y][y] * M[z][x]
      /\ M[y][x] = M[z][y] * M[x][z] - M[z][z] * M[x][y]
      /\ M[y][y] = M[z][z] * M[x][x] - M[z][x] * M[x][z]
      /\ M[y][z] = M[z][x] * M[x][y] - M[z][y] * M[x][x]
      /\ M[z][x] = M[x][y] * M[y][z] - M[x][z] * M[y][y]
      /\ M[z][y] = M[x][z] * M[y][x] - M[x][x] * M[y][z]
      /\ M[z][z] = M[x][x] * M[y][y] - M[x][y] * M[y][x]
  BY <1>2, <1>3 DEF Turns1
<1> DEFINE Own(i, l) == M[i][l] = M[After(i)][After(l)] * M[Before(i)][Before(l)]
                                    - M[After(i)][Before(l)] * M[Before(i)][After(l)]
<1>6. /\ Own(x, x) /\ Own(x, y) /\ Own(x, z)
      /\ Own(y, x) /\ Own(y, y) /\ Own(y, z)
      /\ Own(z, x) /\ Own(z, y) /\ Own(z, z)
  <2>1. Own(x, x) /\ Own(x, y) /\ Own(x, z)
    BY <1>1, <1>5, Zenon
  <2>2. Own(y, x) /\ Own(y, y) /\ Own(y, z)
    BY <1>1, <1>5, Zenon
  <2>3. Own(z, x) /\ Own(z, y) /\ Own(z, z)
    BY <1>1, <1>5, Zenon
  <2> QED
    BY <2>1, <2>2, <2>3
<1> HIDE DEF Own
<1>7. \A i, l \in 1 .. 3 : Own(i, l)
  BY <1>1, <1>6, Zenon
<1>8. Proper(M)
  BY <1>4, <1>7 DEF Proper, Own
<1> QED
  BY <1>8 DEF M

\* Nor does one rotation after another.
LEMMA ProperTimes ==
  ASSUME NEW A, NEW B, Proper(A), Proper(B)
  PROVE  Proper(Times(A, B))
<1> DEFINE P == Times(A, B)
<1>1. A \in Matrix /\ B \in Matrix /\ Transpose(A) \in Matrix /\ Transpose(B) \in Matrix
  BY DEF Proper, Turning
<1>2. Turning(P) /\ Turning(Transpose(P))
  <2>1. Turning(A) /\ Turning(B) /\ Turning(Transpose(A)) /\ Turning(Transpose(B))
    BY DEF Proper
  <2>2. Turning(Times(Transpose(B), Transpose(A)))
    BY <2>1, TurningTimes
  <2>3. Transpose(P) = Times(Transpose(B), Transpose(A))
    BY <1>1, TransposeTimes
  <2> QED
    BY <2>1, <2>2, <2>3, TurningTimes
<1>3. ASSUME NEW i \in 1 .. 3, NEW l \in 1 .. 3
      PROVE  P[i][l] = P[After(i)][After(l)] * P[Before(i)][Before(l)]
                         - P[After(i)][Before(l)] * P[Before(i)][After(l)]
  <2> DEFINE j == After(i)
             k == Before(i)
             m == After(l)
             n == Before(l)
  <2>1. /\ j \in 1 .. 3 /\ k \in 1 .. 3 /\ m \in 1 .. 3 /\ n \in 1 .. 3
        /\ After(1) = 2 /\ Before(1) = 3 /\ After(2) = 3 /\ Before(2) = 1
        /\ After(3) = 1 /\ Before(3) = 2
    BY DEF After, Before
  <2>2. /\ A[i][1] = A[j][2] * A[k][3] - A[j][3] * A[k][2]
        /\ A[i][2] = A[j][3] * A[k][1] - A[j][1] * A[k][3]
        /\ A[i][3] = A[j][1] * A[k][2] - A[j][2] * A[k][1]
    <3>1. \A r \in 1 .. 3 : A[i][r] = A[j][After(r)] * A[k][Before(r)] - A[j][Before(r)] * A[k][After(r)]
      BY DEF Proper
    <3> HIDE DEF j, k
    <3> QED
      BY <2>1, <3>1
  <2>3. /\ B[1][l] = B[2][m] * B[3][n] - B[2][n] * B[3][m]
        /\ B[2][l] = B[3][m] * B[1][n] - B[3][n] * B[1][m]
        /\ B[3][l] = B[1][m] * B[2][n] - B[1][n] * B[2][m]
    <3>1. \A r \in 1 .. 3 : B[r][l] = B[After(r)][m] * B[Before(r)][n] - B[After(r)][n] * B[Before(r)][m]
      BY DEF Proper
    <3> HIDE DEF m, n
    <3> QED
      BY <2>1, <3>1
  <2> HIDE DEF j, k, m, n
  <2>4. /\ P[i][l] = A[i][1] * B[1][l] + A[i][2] * B[2][l] + A[i][3] * B[3][l]
        /\ P[j][m] = A[j][1] * B[1][m] + A[j][2] * B[2][m] + A[j][3] * B[3][m]
        /\ P[k][n] = A[k][1] * B[1][n] + A[k][2] * B[2][n] + A[k][3] * B[3][n]
        /\ P[j][n] = A[j][1] * B[1][n] + A[j][2] * B[2][n] + A[j][3] * B[3][n]
        /\ P[k][m] = A[k][1] * B[1][m] + A[k][2] * B[2][m] + A[k][3] * B[3][m]
    BY <2>1 DEF Times
  <2> DEFINE a1 == A[j][1]
             a2 == A[j][2]
             a3 == A[j][3]
             d1 == A[k][1]
             d2 == A[k][2]
             d3 == A[k][3]
             b1 == B[1][m]
             b2 == B[2][m]
             b3 == B[3][m]
             e1 == B[1][n]
             e2 == B[2][n]
             e3 == B[3][n]
  <2>5. /\ a1 \in Int /\ a2 \in Int /\ a3 \in Int /\ d1 \in Int /\ d2 \in Int /\ d3 \in Int
        /\ b1 \in Int /\ b2 \in Int /\ b3 \in Int /\ e1 \in Int /\ e2 \in Int /\ e3 \in Int
    BY <1>1, <2>1 DEF Matrix
  <2>6. /\ P[i][l] = (a2 * d3 - a3 * d2) * (b2 * e3 - e2 * b3)
                     + (a3 * d1 - a1 * d3) * (b3 * e1 - e3 * b1)
                     + (a1 * d2 - a2 * d1) * (b1 * e2 - e1 * b2)
        /\ P[j][m] = a1 * b1 + a2 * b2 + a3 * b3
        /\ P[k][n] = d1 * e1 + d2 * e2 + d3 * e3
        /\ P[j][n] = a1 * e1 + a2 * e2 + a3 * e3
        /\ P[k][m] = d1 * b1 + d2 * b2 + d3 * b3
    BY <2>2, <2>3, <2>4
  <2> HIDE DEF P, a1, a2, a3, d1, d2, d3, b1, b2, b3, e1, e2, e3
  <2>7. (a2 * d3 - a3 * d2) * (b2 * e3 - e2 * b3)
          + (a3 * d1 - a1 * d3) * (b3 * e1 - e3 * b1)
          + (a1 * d2 - a2 * d1) * (b1 * e2 - e1 * b2)
        = (a1 * b1 + a2 * b2 + a3 * b3) * (d1 * e1 + d2 * e2 + d3 * e3)
          - (a1 * e1 + a2 * e2 + a3 * e3) * (d1 * b1 + d2 * b2 + d3 * b3)
    BY <2>5
  <2>8. P[i][l] = P[j][m] * P[k][n] - P[j][n] * P[k][m]
    BY <2>6, <2>7
  <2> QED
    BY <2>8 DEF j, k, m, n
<1> HIDE DEF P
<1>4. Proper(P)
  BY <1>2, <1>3 DEF Proper
<1> QED
  BY <1>4 DEF P

\* So no rotation by Euler angles does.
LEMMA RotationProper ==
  ASSUME NEW a \in [1 .. 3 -> Int]
  PROVE  Proper(Rotation(a, sxyz))
<1> DEFINE t == InOrder(a, sxyz)
           last == IF sxyz.repetition = 1 THEN sxyz.first ELSE Third(sxyz)
<1>0. sxyz \in AXES
  BY DEF sxyz, AXES
<1>1. t[1] \in Int /\ t[2] \in Int /\ t[3] \in Int
  BY InOrderTyped
<1>2. sxyz.first \in 1 .. 3 /\ Second(sxyz) \in 1 .. 3 /\ last \in 1 .. 3
  BY <1>0, Orders, ThreeIndices
<1>3. Rotation(a, sxyz) = Times(About(last, t[3]), Times(About(Second(sxyz), t[2]), About(sxyz.first, t[1])))
  BY DEF Rotation, InOrder
<1> HIDE DEF t, last
<1>4. Proper(About(last, t[3])) /\ Proper(About(Second(sxyz), t[2])) /\ Proper(About(sxyz.first, t[1]))
  BY <1>1, <1>2, AboutProper
<1> QED
  BY <1>3, <1>4, ProperTimes

\* Three integers whose squares add up to one.
LEMMA UnitSquares ==
  ASSUME NEW x \in Int, NEW y \in Int, NEW z \in Int, x * x + y * y + z * z = 1
  PROVE  /\ x = 0 => Quarter(y, z)
         /\ x # 0 => (x = 1 \/ x = -1) /\ y = 0 /\ z = 0
<1>1. ASSUME NEW n \in Int
      PROVE  n * n >= 0 /\ (n # 0 => n * n >= 1) /\ (n # 0 /\ n # 1 /\ n # -1 => n * n >= 2)
  <2>1. CASE n >= 2
    BY <2>1
  <2>2. CASE n <= -2
    BY <2>2
  <2>3. CASE n = -1 \/ n = 0 \/ n = 1
    BY <2>3
  <2> QED
    BY <2>1, <2>2, <2>3
<1> DEFINE p == x * x
           q == y * y
           u == z * z
<1>2. /\ p \in Int /\ q \in Int /\ u \in Int /\ p + q + u = 1
      /\ p >= 0 /\ q >= 0 /\ u >= 0
      /\ x = 0 => p = 0
      /\ x # 0 => p >= 1
      /\ y # 0 => q >= 1
      /\ z # 0 => u >= 1
      /\ y = 0 => q = 0
      /\ z = 0 => u = 0
      /\ x # 0 /\ x # 1 /\ x # -1 => p >= 2
      /\ y # 0 /\ y # 1 /\ y # -1 => q >= 2
      /\ z # 0 /\ z # 1 /\ z # -1 => u >= 2
  BY <1>1
<1> HIDE DEF p, q, u
<1> QED
  BY <1>2 DEF Quarter

\* What mirrors nothing is a rotation by Euler angles.
LEMMA ProperTurned ==
  ASSUME NEW M, Proper(M)
  PROVE  M \in Matrix /\ \E t \in [1 .. 3 -> Int] : Turned(M, sxyz, t)
<1>1. M \in Matrix /\ Transpose(M) \in Matrix
  BY MatricesTyped DEF Proper, Turning
<1>2. /\ M[1][1] \in Int /\ M[1][2] \in Int /\ M[1][3] \in Int
      /\ M[2][1] \in Int /\ M[2][2] \in Int /\ M[2][3] \in Int
      /\ M[3][1] \in Int /\ M[3][2] \in Int /\ M[3][3] \in Int
  BY <1>1 DEF Matrix
<1>3. /\ M[3][1] * M[3][1] + M[3][2] * M[3][2] + M[3][3] * M[3][3] = 1
      /\ M[2][1] * M[2][1] + M[2][2] * M[2][2] + M[2][3] * M[2][3] = 1
  <2> DEFINE T == Transpose(M)
  <2>1. \A r, c \in 1 .. 3 : T[r][c] = M[c][r]
    BY DEF Transpose
  <2>2. Times(M, T)[3][3] = 1 /\ Times(M, T)[2][2] = 1
    BY DEF Proper, Turning
  <2>3. \A r \in 1 .. 3 : Times(M, T)[r][r] = M[r][1] * T[1][r] + M[r][2] * T[2][r] + M[r][3] * T[3][r]
    BY DEF Times
  <2> HIDE DEF T
  <2> QED
    BY <2>1, <2>2, <2>3
<1>4. M[3][1] * M[3][1] + M[1][1] * M[1][1] + M[2][1] * M[2][1] = 1
  <2> DEFINE T == Transpose(M)
  <2>1. T[1][1] = M[1][1] /\ T[1][2] = M[2][1] /\ T[1][3] = M[3][1]
    BY DEF Transpose
  <2>2. Times(T, Transpose(T))[1][1] = 1
    BY DEF Proper, Turning
  <2>3. Times(T, Transpose(T))[1][1] = T[1][1] * T[1][1] + T[1][2] * T[1][2] + T[1][3] * T[1][3]
    BY DEF Times, Transpose
  <2> HIDE DEF T
  <2> QED
    BY <1>2, <2>1, <2>2, <2>3
<1>5. /\ M[1][2] = M[2][3] * M[3][1] - M[2][1] * M[3][3]
      /\ M[1][3] = M[2][1] * M[3][2] - M[2][2] * M[3][1]
      /\ M[2][2] = M[3][3] * M[1][1] - M[3][1] * M[1][3]
      /\ M[2][3] = M[3][1] * M[1][2] - M[3][2] * M[1][1]
  <2>1. /\ After(1) = 2 /\ Before(1) = 3 /\ After(2) = 3 /\ Before(2) = 1
        /\ After(3) = 1 /\ Before(3) = 2
    BY DEF After, Before
  <2>2. \A i, l \in 1 .. 3 :
          M[i][l] = M[After(i)][After(l)] * M[Before(i)][Before(l)]
                      - M[After(i)][Before(l)] * M[Before(i)][After(l)]
    BY DEF Proper
  <2> QED
    BY <2>1, <2>2
<1>6. ASSUME NEW t \in [1 .. 3 -> Int], ThreeTurned(M, 1, 2, 3, 1, t)
      PROVE  Turned(M, sxyz, t)
  BY <1>6 DEF Turned, sxyz, Second, Third, NEXT_AXIS
<1>7. CASE M[3][1] = 0
  <2>1. Quarter(M[3][2], M[3][3]) /\ Quarter(M[1][1], M[2][1])
    BY <1>2, <1>3, <1>4, <1>7, UnitSquares
  <2>2. Quarter(M[3][3], M[3][2])
    BY <2>1 DEF Quarter
  <2> DEFINE t1 == atan2(M[3][2], M[3][3])
             t3 == atan2(M[2][1], M[1][1])
             t == [c \in 1 .. 3 |-> IF c = 1 THEN t1 ELSE IF c = 2 THEN 0 ELSE t3]
  <2>3. /\ Cos(t1) = M[3][3] /\ Sin(t1) = M[3][2] /\ t1 \in Int
        /\ Cos(t3) = M[1][1] /\ Sin(t3) = M[2][1] /\ t3 \in Int
    BY <2>1, <2>2, FindsQuarter
  <2>4. Cos(0) = 1 /\ Sin(0) = 0
    BY DEF Cos, Sin
  <2> HIDE DEF t1, t3
  <2>5. t \in [1 .. 3 -> Int] /\ t[1] = t1 /\ t[2] = 0 /\ t[3] = t3
    BY <2>3
  <2> HIDE DEF t
  <2>6. ThreeTurned(M, 1, 2, 3, 1, t)
    <3> DEFINE c1 == M[3][3]
               s1 == M[3][2]
               c3 == M[1][1]
               s3 == M[2][1]
               s2 == M[3][1]
    <3>1. /\ c1 \in Int /\ s1 \in Int /\ c3 \in Int /\ s3 \in Int /\ s2 \in Int /\ s2 = 0
          /\ M[1][2] = -(c1 * s3) /\ M[1][3] = s1 * s3 /\ M[2][2] = c1 * c3 /\ M[2][3] = -(s1 * c3)
      BY <1>2, <1>5, <1>7
    <3>2. /\ Cos(t[1]) = c1 /\ Sin(t[1]) = s1 /\ Cos(t[2]) = 1 /\ Sin(t[2]) = s2
          /\ Cos(t[3]) = c3 /\ Sin(t[3]) = s3
      BY <1>7, <2>3, <2>4, <2>5, Zenon
    <3>3. M[1][1] = c3 /\ M[2][1] = s3 /\ M[3][1] = s2 /\ M[3][2] = s1 /\ M[3][3] = c1
      OBVIOUS
    <3> HIDE DEF c1, s1, c3, s3, s2
    <3>4. s1 * s2 = 0 /\ c1 * s2 = 0
      BY <3>1
    <3>5. c1 * s3 \in Int /\ s1 * s3 \in Int /\ c1 * c3 \in Int /\ s1 * c3 \in Int
      BY <3>1
    <3>6. c3 = 1 * c3 /\ s3 = 1 * (1 * s3) /\ s1 = 1 * (s1 * 1) /\ c1 = c1 * 1 /\ s2 = -(1 * s2)
      <4>1. s2 \in Int /\ s2 + s2 = 0
        BY <3>1
      <4>2. s2 = -(1 * s2)
        BY <4>1
      <4> QED
        BY <3>1, <4>2
    <3>7. /\ -(c1 * s3) = s1 * s2 * c3 - 1 * (c1 * s3)
          /\ s1 * s3 = 1 * (c1 * s2 * c3) + s1 * s3
          /\ c1 * c3 = c1 * c3 + 1 * (s1 * s2 * s3)
          /\ -(s1 * c3) = c1 * s2 * s3 - 1 * (s1 * c3)
      BY <3>1, <3>4, <3>5
    <3> QED
      BY <3>1, <3>2, <3>3, <3>6, <3>7, Zenon DEF ThreeTurned
  <2> QED
    BY <1>1, <1>6, <2>5, <2>6
<1>8. CASE M[3][1] # 0
  <2>1. /\ M[3][1] = 1 \/ M[3][1] = -1
        /\ M[3][2] = 0 /\ M[3][3] = 0 /\ M[1][1] = 0 /\ M[2][1] = 0
    <3> DEFINE x == M[3][1]
               y == M[3][2]
               z == M[3][3]
               u == M[1][1]
               v == M[2][1]
    <3>1. /\ x \in Int /\ y \in Int /\ z \in Int /\ u \in Int /\ v \in Int /\ x # 0
          /\ x * x + y * y + z * z = 1 /\ x * x + u * u + v * v = 1
      BY <1>2, <1>3, <1>4, <1>8
    <3> HIDE DEF x, y, z, u, v
    <3>2. (x = 1 \/ x = -1) /\ y = 0 /\ z = 0
      BY <3>1, UnitSquares
    <3>3. u = 0 /\ v = 0
      BY <3>1, UnitSquares
    <3> QED
      BY <3>2, <3>3 DEF x, y, z, u, v
  <2>2. Quarter(M[2][2], M[2][3])
    BY <1>2, <1>3, <2>1, UnitSquares
  <2>3. Quarter(M[2][2], -M[2][3]) /\ Quarter(0, -M[3][1])
    BY <2>1, <2>2 DEF Quarter
  <2> DEFINE t1 == atan2(-M[2][3], M[2][2])
             t2 == atan2(-M[3][1], 0)
             t == [c \in 1 .. 3 |-> IF c = 1 THEN t1 ELSE IF c = 2 THEN t2 ELSE 0]
  <2>4. /\ Cos(t1) = M[2][2] /\ Sin(t1) = -M[2][3] /\ t1 \in Int
        /\ Cos(t2) = 0 /\ Sin(t2) = -M[3][1] /\ t2 \in Int
    BY <2>3, FindsQuarter
  <2>5. Cos(0) = 1 /\ Sin(0) = 0
    BY DEF Cos, Sin
  <2> HIDE DEF t1, t2
  <2>6. t \in [1 .. 3 -> Int] /\ t[1] = t1 /\ t[2] = t2 /\ t[3] = 0
    BY <2>4
  <2> HIDE DEF t
  <2>7. ThreeTurned(M, 1, 2, 3, 1, t)
    BY <1>2, <1>5, <2>1, <2>4, <2>5, <2>6 DEF ThreeTurned
  <2> QED
    BY <1>1, <1>6, <2>6, <2>7
<1> QED
  BY <1>7, <1>8

-----------------------------------------------------------------------------
(* Places *)

\* A rotation keeps lengths.
LEMMA TurnKeepsSquares ==
  ASSUME NEW R, Proper(R), NEW v \in Vector
  PROVE  Squared(Apply(R, v)) = Squared(v)
<1> DEFINE T == Transpose(R)
           w == Apply(R, v)
<1>1. R \in Matrix /\ T \in Matrix /\ Turning(T) /\ Transpose(T) = R
  BY TransposeBack DEF Proper, Turning
<1>2. w \in Vector
  BY <1>1, MatricesTyped
<1>3. Apply(T, w) = v
  BY <1>1, TurnsBack
<1>4. /\ w[1] = R[1][1] * v[1] + R[1][2] * v[2] + R[1][3] * v[3]
      /\ w[2] = R[2][1] * v[1] + R[2][2] * v[2] + R[2][3] * v[3]
      /\ w[3] = R[3][1] * v[1] + R[3][2] * v[2] + R[3][3] * v[3]
  BY DEF Apply
<1>5. \A r, c \in 1 .. 3 : T[r][c] = R[c][r]
  BY DEF Transpose
<1> HIDE DEF w, T
<1>6. /\ v[1] = R[1][1] * w[1] + R[2][1] * w[2] + R[3][1] * w[3]
      /\ v[2] = R[1][2] * w[1] + R[2][2] * w[2] + R[3][2] * w[3]
      /\ v[3] = R[1][3] * w[1] + R[2][3] * w[2] + R[3][3] * w[3]
  <2>1. /\ Apply(T, w)[1] = T[1][1] * w[1] + T[1][2] * w[2] + T[1][3] * w[3]
        /\ Apply(T, w)[2] = T[2][1] * w[1] + T[2][2] * w[2] + T[2][3] * w[3]
        /\ Apply(T, w)[3] = T[3][1] * w[1] + T[3][2] * w[2] + T[3][3] * w[3]
    BY DEF Apply
  <2> QED
    BY <1>3, <1>5, <2>1
<1> DEFINE a(r, c) == R[r][c]
           x(r) == v[r]
           y(r) == w[r]
<1>7. /\ a(1, 1) \in Int /\ a(1, 2) \in Int /\ a(1, 3) \in Int
      /\ a(2, 1) \in Int /\ a(2, 2) \in Int /\ a(2, 3) \in Int
      /\ a(3, 1) \in Int /\ a(3, 2) \in Int /\ a(3, 3) \in Int
      /\ x(1) \in Int /\ x(2) \in Int /\ x(3) \in Int
      /\ y(1) \in Int /\ y(2) \in Int /\ y(3) \in Int
  BY <1>1, <1>2 DEF Matrix, Vector
<1>8. Squared(w) = y(1) * y(1) + y(2) * y(2) + y(3) * y(3)
      /\ Squared(v) = x(1) * x(1) + x(2) * x(2) + x(3) * x(3)
  BY DEF Squared
<1>9. /\ y(1) * y(1) = y(1) * (a(1, 1) * x(1) + a(1, 2) * x(2) + a(1, 3) * x(3))
      /\ y(2) * y(2) = y(2) * (a(2, 1) * x(1) + a(2, 2) * x(2) + a(2, 3) * x(3))
      /\ y(3) * y(3) = y(3) * (a(3, 1) * x(1) + a(3, 2) * x(2) + a(3, 3) * x(3))
      /\ x(1) * x(1) = x(1) * (a(1, 1) * y(1) + a(2, 1) * y(2) + a(3, 1) * y(3))
      /\ x(2) * x(2) = x(2) * (a(1, 2) * y(1) + a(2, 2) * y(2) + a(3, 2) * y(3))
      /\ x(3) * x(3) = x(3) * (a(1, 3) * y(1) + a(2, 3) * y(2) + a(3, 3) * y(3))
  BY <1>4, <1>6, Zenon
<1> HIDE DEF a, x, y
<1>10. y(1) * (a(1, 1) * x(1) + a(1, 2) * x(2) + a(1, 3) * x(3))
         + y(2) * (a(2, 1) * x(1) + a(2, 2) * x(2) + a(2, 3) * x(3))
         + y(3) * (a(3, 1) * x(1) + a(3, 2) * x(2) + a(3, 3) * x(3))
       = x(1) * (a(1, 1) * y(1) + a(2, 1) * y(2) + a(3, 1) * y(3))
         + x(2) * (a(1, 2) * y(1) + a(2, 2) * y(2) + a(3, 2) * y(3))
         + x(3) * (a(1, 3) * y(1) + a(2, 3) * y(2) + a(3, 3) * y(3))
  BY <1>7
<1>11. Squared(w) = Squared(v)
  BY <1>8, <1>9, <1>10, Zenon
<1> QED
  BY <1>11 DEF w

\* It carries sums to sums, and two after each other are their product.
LEMMA ApplySums ==
  ASSUME NEW A \in Matrix, NEW B \in Matrix, NEW v \in Vector, NEW w \in Vector
  PROVE  /\ Apply(A, Plus(v, w)) = Plus(Apply(A, v), Apply(A, w))
         /\ Apply(Times(A, B), v) = Apply(A, Apply(B, v))
<1>1. /\ v[1] \in Int /\ v[2] \in Int /\ v[3] \in Int
      /\ w[1] \in Int /\ w[2] \in Int /\ w[3] \in Int
  BY DEF Vector
<1>2. \A r, c \in 1 .. 3 : A[r][c] \in Int /\ B[r][c] \in Int
  BY DEF Matrix
<1>3. /\ Plus(v, w) \in Vector /\ Apply(A, v) \in Vector /\ Apply(A, w) \in Vector
      /\ Apply(B, v) \in Vector /\ Times(A, B) \in Matrix
  BY PlusTyped, MatricesTyped
<1>4. ASSUME NEW r \in 1 .. 3
      PROVE  Apply(A, Plus(v, w))[r] = Plus(Apply(A, v), Apply(A, w))[r]
  <2> DEFINE a == A[r][1]
             b == A[r][2]
             c == A[r][3]
  <2>1. a \in Int /\ b \in Int /\ c \in Int
    BY <1>2
  <2>2. Apply(A, Plus(v, w))[r] = a * (v[1] + w[1]) + b * (v[2] + w[2]) + c * (v[3] + w[3])
    BY DEF Apply, Plus
  <2>3. Plus(Apply(A, v), Apply(A, w))[r]
          = (a * v[1] + b * v[2] + c * v[3]) + (a * w[1] + b * w[2] + c * w[3])
    <3>1. Plus(Apply(A, v), Apply(A, w))[r] = Apply(A, v)[r] + Apply(A, w)[r]
      BY DEF Plus
    <3>2. Apply(A, v)[r] = a * v[1] + b * v[2] + c * v[3] /\ Apply(A, w)[r] = a * w[1] + b * w[2] + c * w[3]
      BY DEF Apply
    <3> QED
      BY <3>1, <3>2
  <2> HIDE DEF a, b, c
  <2> QED
    BY <1>1, <2>1, <2>2, <2>3
<1>5. ASSUME NEW r \in 1 .. 3
      PROVE  Apply(Times(A, B), v)[r] = Apply(A, Apply(B, v))[r]
  <2> DEFINE AB(n) == A[r][1] * B[1][n] + A[r][2] * B[2][n] + A[r][3] * B[3][n]
             Bv(n) == B[n][1] * v[1] + B[n][2] * v[2] + B[n][3] * v[3]
  <2>1. Apply(Times(A, B), v)[r] = AB(1) * v[1] + AB(2) * v[2] + AB(3) * v[3]
    <3> DEFINE P == Times(A, B)
    <3>1. P[r][1] = AB(1) /\ P[r][2] = AB(2) /\ P[r][3] = AB(3)
      BY DEF Times
    <3> HIDE DEF P, AB
    <3>2. Apply(P, v)[r] = P[r][1] * v[1] + P[r][2] * v[2] + P[r][3] * v[3]
      BY DEF Apply
    <3> QED
      BY <3>1, <3>2 DEF P
  <2>2. Apply(A, Apply(B, v))[r] = A[r][1] * Bv(1) + A[r][2] * Bv(2) + A[r][3] * Bv(3)
    BY DEF Apply
  <2>3. /\ A[r][1] \in Int /\ A[r][2] \in Int /\ A[r][3] \in Int
        /\ B[1][1] \in Int /\ B[1][2] \in Int /\ B[1][3] \in Int
        /\ B[2][1] \in Int /\ B[2][2] \in Int /\ B[2][3] \in Int
        /\ B[3][1] \in Int /\ B[3][2] \in Int /\ B[3][3] \in Int
    BY <1>2
  <2>4. AB(1) * v[1] + AB(2) * v[2] + AB(3) * v[3] = A[r][1] * Bv(1) + A[r][2] * Bv(2) + A[r][3] * Bv(3)
    BY <1>1, <2>3
  <2> QED
    BY <2>1, <2>2, <2>4
<1>6. Apply(A, Plus(v, w)) = Plus(Apply(A, v), Apply(A, w))
  <2>1. Apply(A, Plus(v, w)) \in Vector /\ Plus(Apply(A, v), Apply(A, w)) \in Vector
    BY <1>3, MatricesTyped, PlusTyped
  <2> QED
    BY <1>4, <2>1 DEF Vector
<1>7. Apply(Times(A, B), v) = Apply(A, Apply(B, v))
  <2>1. Apply(Times(A, B), v) \in Vector /\ Apply(A, Apply(B, v)) \in Vector
    BY <1>3, MatricesTyped
  <2> QED
    BY <1>5, <2>1 DEF Vector
<1> QED
  BY <1>6, <1>7

\* A vector the other way.
LEMMA Opposite ==
  ASSUME NEW v \in Vector
  PROVE  /\ Scaled(-1, v) \in Vector
         /\ Scaled(-1, v)[1] = -v[1] /\ Scaled(-1, v)[2] = -v[2] /\ Scaled(-1, v)[3] = -v[3]
<1>1. v[1] \in Int /\ v[2] \in Int /\ v[3] \in Int
  BY DEF Vector
<1> QED
  BY <1>1 DEF Scaled, Vector

\* Differences and multiples of vectors.
LEMMA VectorSums ==
  ASSUME NEW u \in Vector, NEW v \in Vector, NEW t \in Vector
  PROVE  /\ Plus(Plus(u, t), Scaled(-1, Plus(v, t))) = Plus(u, Scaled(-1, v))
         /\ Plus(Plus(u, t), Scaled(-1, t)) = u
         /\ Plus(Plus(u, v), t) = Plus(u, Plus(v, t))
         /\ Between(Scaled(1000, u), Scaled(1000, v)) = 1000000 * Between(u, v)
<1>1. /\ u \in [1 .. 3 -> Int] /\ u[1] \in Int /\ u[2] \in Int /\ u[3] \in Int
      /\ v[1] \in Int /\ v[2] \in Int /\ v[3] \in Int
      /\ t[1] \in Int /\ t[2] \in Int /\ t[3] \in Int
  BY DEF Vector
<1>2. u = <<u[1], u[2], u[3]>>
  BY <1>1
<1>4. /\ Plus(Plus(u, t), Scaled(-1, Plus(v, t))) = Plus(u, Scaled(-1, v))
      /\ Plus(Plus(u, t), Scaled(-1, t)) = <<u[1], u[2], u[3]>>
      /\ Plus(Plus(u, v), t) = Plus(u, Plus(v, t))
  BY <1>1 DEF Plus, Scaled
<1>5. Between(Scaled(1000, u), Scaled(1000, v)) = 1000000 * Between(u, v)
  <2> DEFINE a == u[1] + (-1) * v[1]
             b == u[2] + (-1) * v[2]
             c == u[3] + (-1) * v[3]
  <2>1. a \in Int /\ b \in Int /\ c \in Int
    BY <1>1
  <2>2. Between(u, v) = a * a + b * b + c * c
    BY DEF Between, Squared, Plus, Scaled
  <2>3. Between(Scaled(1000, u), Scaled(1000, v))
          = (1000 * a) * (1000 * a) + (1000 * b) * (1000 * b) + (1000 * c) * (1000 * c)
    <3>1. /\ 1000 * u[1] + (-1) * (1000 * v[1]) = 1000 * a
          /\ 1000 * u[2] + (-1) * (1000 * v[2]) = 1000 * b
          /\ 1000 * u[3] + (-1) * (1000 * v[3]) = 1000 * c
      BY <1>1
    <3> HIDE DEF a, b, c
    <3> QED
      BY <3>1 DEF Between, Squared, Plus, Scaled
  <2> HIDE DEF a, b, c
  <2> QED
    BY <2>1, <2>2, <2>3
<1> QED
  BY <1>2, <1>4, <1>5

\* What a frame carries over stays as far apart, and as far from the frame.
LEMMA CarriedApart ==
  ASSUME NEW R, Proper(R), NEW v \in Vector, NEW w \in Vector, NEW t \in Vector
  PROVE  /\ Between(Plus(Apply(R, v), t), Plus(Apply(R, w), t)) = Between(v, w)
         /\ Between(Plus(Apply(R, v), t), t) = Squared(v)
<1>1. R \in Matrix
  BY DEF Proper, Turning
<1>2. Apply(R, v) \in Vector /\ Apply(R, w) \in Vector /\ Scaled(-1, w) \in Vector
  BY <1>1, MatricesTyped, Opposite
<1>3. Apply(R, Scaled(-1, w)) = Scaled(-1, Apply(R, w))
  <2>1. \A r \in 1 .. 3 : R[r][1] \in Int /\ R[r][2] \in Int /\ R[r][3] \in Int
    BY <1>1 DEF Matrix
  <2>2. w[1] \in Int /\ w[2] \in Int /\ w[3] \in Int
    BY DEF Vector
  <2>3. ASSUME NEW r \in 1 .. 3
        PROVE  Apply(R, Scaled(-1, w))[r] = Scaled(-1, Apply(R, w))[r]
    <3> DEFINE m == Scaled(-1, w)
               g == Apply(R, w)
    <3>1. Apply(R, m)[r] = R[r][1] * m[1] + R[r][2] * m[2] + R[r][3] * m[3]
      BY DEF Apply
    <3>2. g[r] = R[r][1] * w[1] + R[r][2] * w[2] + R[r][3] * w[3]
      BY DEF Apply
    <3>3. m[1] = -w[1] /\ m[2] = -w[2] /\ m[3] = -w[3] /\ Scaled(-1, g)[r] = -g[r]
      BY <1>2, Opposite
    <3> HIDE DEF m, g
    <3>4. Apply(R, m)[r] = Scaled(-1, g)[r]
      <4> DEFINE a == R[r][1]
                 b == R[r][2]
                 c == R[r][3]
                 x == w[1]
                 y == w[2]
                 z == w[3]
      <4>1. /\ a \in Int /\ b \in Int /\ c \in Int /\ x \in Int /\ y \in Int /\ z \in Int
        BY <2>1, <2>2
      <4>2. /\ Apply(R, m)[r] = a * (-x) + b * (-y) + c * (-z)
            /\ Scaled(-1, g)[r] = -(a * x + b * y + c * z)
        BY <3>1, <3>2, <3>3
      <4> HIDE DEF a, b, c, x, y, z
      <4>3. a * (-x) + b * (-y) + c * (-z) = -(a * x + b * y + c * z)
        BY <4>1
      <4> QED
        BY <4>2, <4>3
    <3> QED
      BY <3>4 DEF m, g
  <2>4. Apply(R, Scaled(-1, w)) \in Vector /\ Scaled(-1, Apply(R, w)) \in Vector
    BY <1>1, <1>2, MatricesTyped, Opposite
  <2> QED
    BY <2>3, <2>4 DEF Vector
<1>4. Between(Plus(Apply(R, v), t), Plus(Apply(R, w), t)) = Between(v, w)
  <2>1. Plus(v, Scaled(-1, w)) \in Vector
    BY <1>2, PlusTyped
  <2>2. Plus(Plus(Apply(R, v), t), Scaled(-1, Plus(Apply(R, w), t)))
          = Plus(Apply(R, v), Scaled(-1, Apply(R, w)))
    BY <1>2, VectorSums
  <2>3. Apply(R, Plus(v, Scaled(-1, w))) = Plus(Apply(R, v), Scaled(-1, Apply(R, w)))
    BY <1>1, <1>2, <1>3, ApplySums
  <2> QED
    BY <2>1, <2>2, <2>3, TurnKeepsSquares DEF Between
<1>5. Between(Plus(Apply(R, v), t), t) = Squared(v)
  <2>1. Plus(Plus(Apply(R, v), t), Scaled(-1, t)) = Apply(R, v)
    BY <1>2, VectorSums
  <2> QED
    BY <2>1, TurnKeepsSquares DEF Between
<1> QED
  BY <1>4, <1>5

-----------------------------------------------------------------------------
(* Frames *)

\* A quaternion and the rotation it stands for are one matrix.
LEMMA QuaternionRotates ==
  ASSUME NEW axes \in AXES, NEW a \in [1 .. 3 -> Int]
  PROVE  as_rotation_matrix(quaternion_from_euler(a, axes)) = Rotation(a, axes)
<1> DEFINE M == as_rotation_matrix(quaternion_from_euler(a, axes))
           N == Rotation(a, axes)
           t == InOrder(a, axes)
<1>1. M \in Matrix /\ Turned(M, axes, t) /\ N \in Matrix /\ Turned(N, axes, t)
  BY QuaternionTurned, RotationTurned
<1>2. Order(axes.first, Second(axes), Third(axes), 1 - 2 * axes.parity)
  BY Orders
<1> HIDE DEF M, N, t
<1>3. M = N
  <2>1. CASE axes.repetition = 1
    BY <1>1, <1>2, <2>1, SameTurn DEF Turned
  <2>2. CASE axes.repetition # 1
    BY <1>1, <1>2, <2>2, SameTurn DEF Turned
  <2> QED
    BY <2>1, <2>2
<1> QED
  BY <1>3 DEF M, N

\* The arm's angles, converted, are numbers of quarter turns.
LEMMA RadiansTyped ==
  ASSUME NEW d \in Vector
  PROVE  InRadians(d) \in [1 .. 3 -> Int]
<1>1. \A c \in 1 .. 3 : d[c] \in Int
  BY DEF Vector
<1>2. \A c \in 1 .. 3 : Radians(d[c]) \in Int
  BY <1>1 DEF Radians, QUARTER
<1> QED
  BY <1>2 DEF InRadians

\* A frame's orientation mirrors nothing.
LEMMA FramesProper ==
  ASSUME NEW f \in Frames
  PROVE  Proper(f.rot) /\ f.rot \in Matrix /\ f.trans \in Vector
<1>1. PICK b \in [1 .. 3 -> Int] : f.rot = Rotation(b, sxyz)
  BY FramesTurned
<1>2. Proper(f.rot) /\ f.trans \in Vector
  BY <1>1, RotationProper, FramesTurned
<1> QED
  BY <1>2 DEF Proper, Turning

\* What two frames do to each other.
LEMMA MatmulTyped ==
  ASSUME NEW F, NEW G, Proper(F.rot), Proper(G.rot), F.trans \in Vector, G.trans \in Vector
  PROVE  /\ matmul(F, G).rot = Times(F.rot, G.rot)
         /\ matmul(F, G).trans = Plus(Apply(F.rot, G.trans), F.trans)
         /\ Proper(matmul(F, G).rot) /\ matmul(F, G).trans \in Vector
<1>1. /\ matmul(F, G).rot = Times(F.rot, G.rot)
      /\ matmul(F, G).trans = Plus(Apply(F.rot, G.trans), F.trans)
  BY DEF matmul
<1>2. F.rot \in Matrix
  BY DEF Proper, Turning
<1>3. Apply(F.rot, G.trans) \in Vector
  BY <1>2, MatricesTyped
<1> QED
  BY <1>1, <1>3, ProperTimes, PlusTyped

\* A found orientation, read back from its angles, is the one the matrix says.
LEMMA AnglesFound ==
  ASSUME NEW M, Proper(M), NEW p
  PROVE  LET e == euler_from_matrix(M, sxyz)
         IN Orientation([position |-> p, angles |-> [c \in 1 .. 3 |-> Degrees(e[c])]]) = M
<1> DEFINE e == euler_from_matrix(M, sxyz)
           d == [c \in 1 .. 3 |-> Degrees(e[c])]
<1>1. M \in Matrix /\ \E t \in [1 .. 3 -> Int] : Turned(M, sxyz, t)
  BY ProperTurned
<1>2. e \in [1 .. 3 -> Int] /\ Rotation(e, sxyz) = M
  BY <1>1, AnglesTurned, FramesTurned
<1> HIDE DEF e
<1>3. \A n \in Int : Radians(Degrees(n)) = n
  BY DEF Radians, Degrees, QUARTER
<1>4. \A c \in 1 .. 3 : Radians(d[c]) = e[c]
  BY <1>2, <1>3
<1> HIDE DEF d
<1>5. InRadians(d) = e
  BY <1>2, <1>4 DEF InRadians
<1>6. Orientation([position |-> p, angles |-> d]) = M
  BY <1>2, <1>5 DEF Orientation
<1> QED
  BY <1>6 DEF d, e

\* Two orientations turned by the same frame stay turned against each other as they were.
LEMMA TurnedAlike ==
  ASSUME NEW R, Proper(R), NEW A \in Matrix, NEW B \in Matrix
  PROVE  Times(Transpose(Times(R, A)), Times(R, B)) = Times(Transpose(A), B)
<1> DEFINE T == Transpose(R)
<1>1. R \in Matrix /\ T \in Matrix /\ Turning(T) /\ Transpose(T) = R
  BY TransposeBack DEF Proper, Turning
<1>2. Transpose(Times(R, A)) = Times(Transpose(A), T)
  BY <1>1, TransposeTimes
<1> HIDE DEF T
<1>3. Transpose(A) \in Matrix /\ Times(R, B) \in Matrix
  BY <1>1, MatricesTyped
<1>4. Times(Times(Transpose(A), T), Times(R, B)) = Times(Transpose(A), Times(T, Times(R, B)))
  BY <1>1, <1>3, TimesAssociate
<1>5. Times(T, Times(R, B)) = B
  BY <1>1, TurnsBack
<1> QED
  BY <1>2, <1>4, <1>5

-----------------------------------------------------------------------------
(* The theorems *)

\* What was computed was computed from the picture and from where the arm stands.
IInv ==
  /\ place \in Vector /\ (\A c \in 1 .. 3 : place[c] % 1000 = 0) /\ angles \in Vector
  /\ poses \in [1 .. 2 -> Frames]
  /\ cali_pose # <<>> => \A m \in 1 .. 2 : cali_pose[m] = convert_arm_pose(poses[m], place, angles)

\* It is inductive.
LEMMA Invariance == Spec => []IInv
<1>1. Init => IInv
  BY ConvertConstants DEF Init, IInv, Vector
<1>2. IInv /\ [Next]_vars => IInv'
  <2> SUFFICES ASSUME IInv, [Next]_vars
               PROVE  IInv'
    OBVIOUS
  <2>1. place' = place /\ angles' = angles /\ poses' = poses
    BY DEF Next, Convert, vars
  <2>2. \A m \in 1 .. 2 : convert_arm_pose(poses[m], place, angles)' = convert_arm_pose(poses[m], place, angles)
    BY <2>1 DEF convert_arm_pose, base2cam, base2tool
  <2>3. CASE Next
    <3>1. cali_pose' = [m \in 1 .. 2 |-> convert_arm_pose(poses[m], place, angles)]
      BY <2>3 DEF IInv, Next, Convert
    <3> QED
      BY <2>1, <2>2, <3>1 DEF IInv
  <2>4. CASE UNCHANGED vars
    <3>1. cali_pose' = cali_pose
      BY <2>4 DEF vars
    <3> QED
      BY <2>1, <2>2, <3>1 DEF IInv
  <2> QED
    BY <2>3, <2>4
<1> QED
  BY <1>1, <1>2, PTL DEF Spec

\* quaternion_from_euler of transformations.py: the quaternion of three angles, by any
\* numbers of quarter turns, is the rotation they mean in each of the 24 axis sequences.
THEOREM QuaternionsAreTheirAngles == Spec => []QuaternionsTurnAlike
<1>1. IInv => QuaternionsTurnAlike
  <2>1. IInv => InRadians(angles) \in [1 .. 3 -> Int]
    BY RadiansTyped DEF IInv
  <2> QED
    BY <2>1, QuaternionRotates, Zenon DEF QuaternionsTurnAlike
<1> QED
  BY <1>1, Invariance, PTL

\* euler_from_matrix of transformations.py: the angles read from the matrix of a rotation
\* mean that rotation in each of the 24 axis sequences, also where the gimbal locks.
THEOREM AnglesMeanTheirMatrix == Spec => []AnglesTurnBack
<1>1. IInv => AnglesTurnBack
  <2>1. IInv => InRadians(angles) \in [1 .. 3 -> Int]
    BY RadiansTyped DEF IInv
  <2>2. ASSUME NEW a \in [1 .. 3 -> Int], NEW axes \in AXES
        PROVE  Rotation(euler_from_matrix(Rotation(a, axes), axes), axes) = Rotation(a, axes)
    <3>1. /\ Rotation(a, axes) \in Matrix /\ InOrder(a, axes) \in [1 .. 3 -> Int]
          /\ Turned(Rotation(a, axes), axes, InOrder(a, axes))
      BY RotationTurned, InOrderTyped
    <3> QED
      BY <3>1, AnglesTurned
  <2> QED
    BY <2>1, <2>2, Zenon DEF AnglesTurnBack
<1> QED
  BY <1>1, Invariance, PTL

\* convert_arm_pose of three_points_calibration_example.py: the markers of any picture are
\* found as far from each other and from the arm as pictured, and turned against each other
\* as pictured, from any pose of the arm and for any mounting of the camera.
THEOREM PicturesAreKept == Spec => []FoundAsPictured
<1>1. IInv => FoundAsPictured
  <2> SUFFICES ASSUME IInv, cali_pose # <<>>, NEW m \in 1 .. 2, NEW n \in 1 .. 2
               PROVE  /\ Between(cali_pose[m].position, cali_pose[n].position)
                           = 1000000 * Between(poses[m].trans, poses[n].trans)
                      /\ Between(cali_pose[m].position, place)
                           = 1000000 * Squared(matmul(tool2cam, poses[m]).trans)
                      /\ Times(Transpose(Orientation(cali_pose[m])), Orientation(cali_pose[n]))
                           = Times(Transpose(poses[m].rot), poses[n].rot)
    BY DEF FoundAsPictured
  <2> DEFINE tool == base2tool(place, angles)
             F == base2cam(place, angles)
             H(l) == matmul(F, poses[l])
  <2>1. /\ Proper(tool2cam.rot) /\ tool2cam.trans \in Vector /\ tool2cam.rot \in Matrix
        /\ \A l \in 1 .. 2 : Proper(poses[l].rot) /\ poses[l].rot \in Matrix /\ poses[l].trans \in Vector
    BY ConvertConstants, FramesProper DEF IInv
  <2>2. Proper(tool.rot) /\ tool.trans \in Vector /\ place = Scaled(1000, tool.trans)
    <3>1. InRadians(angles) \in [1 .. 3 -> Int]
      <4>1. angles \in Vector
        BY DEF IInv
      <4> QED
        BY <4>1, RadiansTyped
    <3>2. tool.rot = Rotation(InRadians(angles), sxyz) /\ tool.trans = [c \in 1 .. 3 |-> place[c] \div 1000]
      BY <3>1, QuaternionRotates, FramesTurned, Zenon DEF base2tool
    <3>3. Proper(tool.rot)
      BY <3>1, <3>2, RotationProper
    <3> HIDE DEF tool
    <3>4. place \in [1 .. 3 -> Int] /\ \A c \in 1 .. 3 : place[c] \in Int /\ place[c] % 1000 = 0
      BY DEF IInv, Vector
    <3>5. \A x \in Int : x \div 1000 \in Int /\ (x % 1000 = 0 => 1000 * (x \div 1000) = x)
      OBVIOUS
    <3>6. \A c \in 1 .. 3 : tool.trans[c] \in Int /\ 1000 * tool.trans[c] = place[c]
      BY <3>2, <3>4, <3>5
    <3>7. tool.trans \in Vector
      BY <3>2, <3>4, <3>5 DEF Vector
    <3>8. place = <<place[1], place[2], place[3]>>
      BY <3>4
    <3> QED
      BY <3>3, <3>6, <3>7, <3>8 DEF Scaled
  <2>3. F = matmul(tool, tool2cam)
    BY DEF base2cam
  <2>4. Proper(F.rot) /\ F.trans \in Vector
    BY <2>1, <2>2, <2>3, MatmulTyped
  <2>5. ASSUME NEW l \in 1 .. 2
        PROVE  /\ cali_pose[l].position = Scaled(1000, H(l).trans)
               /\ Orientation(cali_pose[l]) = H(l).rot
               /\ H(l).trans = Plus(Apply(F.rot, poses[l].trans), F.trans)
               /\ H(l).rot = Times(F.rot, poses[l].rot)
               /\ H(l).trans \in Vector
    <3> DEFINE e == euler_from_matrix(H(l).rot, sxyz)
    <3>1. cali_pose[l] = [position |-> Scaled(1000, H(l).trans),
                          angles |-> [c \in 1 .. 3 |-> Degrees(e[c])]]
      BY DEF IInv, convert_arm_pose
    <3> HIDE DEF F
    <3>2. /\ Proper(H(l).rot) /\ H(l).trans \in Vector
          /\ H(l).trans = Plus(Apply(F.rot, poses[l].trans), F.trans)
          /\ H(l).rot = Times(F.rot, poses[l].rot)
      BY <2>1, <2>4, MatmulTyped
    <3> HIDE DEF H
    <3>3. Orientation(cali_pose[l]) = H(l).rot
      BY <3>1, <3>2, AnglesFound
    <3> QED
      BY <3>1, <3>2, <3>3
  <2> HIDE DEF tool, F, H
  <2>6. Between(cali_pose[m].position, cali_pose[n].position)
          = 1000000 * Between(poses[m].trans, poses[n].trans)
    <3>1. Between(H(m).trans, H(n).trans) = Between(poses[m].trans, poses[n].trans)
      BY <2>1, <2>4, <2>5, CarriedApart
    <3> QED
      BY <2>5, <3>1, VectorSums
  <2>7. Between(cali_pose[m].position, place) = 1000000 * Squared(matmul(tool2cam, poses[m]).trans)
    <3> DEFINE g == matmul(tool2cam, poses[m]).trans
               v == poses[m].trans
    <3>1. g = Plus(Apply(tool2cam.rot, v), tool2cam.trans) /\ g \in Vector /\ v \in Vector
      BY <2>1, MatmulTyped
    <3>2. H(m).trans = Plus(Apply(tool.rot, g), tool.trans)
      <4> DEFINE A == tool.rot
                 B == tool2cam.rot
                 a == tool.trans
                 b == tool2cam.trans
      <4>1. A \in Matrix /\ B \in Matrix /\ a \in Vector /\ b \in Vector
        <5>1. \A R : Proper(R) => R \in Matrix
          BY DEF Proper, Turning
        <5> QED
          BY <2>1, <2>2, <5>1
      <4>2. F.rot = Times(A, B) /\ F.trans = Plus(Apply(A, b), a)
        BY <2>1, <2>2, <2>3, MatmulTyped
      <4>3. H(m).trans = Plus(Apply(Times(A, B), v), Plus(Apply(A, b), a))
        BY <2>5, <4>2
      <4> HIDE DEF A, B, a, b, v
      <4>4. Apply(B, v) \in Vector /\ Apply(A, Apply(B, v)) \in Vector /\ Apply(A, b) \in Vector
        BY <3>1, <4>1, MatricesTyped
      <4>5. Apply(Times(A, B), v) = Apply(A, Apply(B, v))
        BY <3>1, <4>1, ApplySums
      <4>6. Plus(Apply(A, Apply(B, v)), Plus(Apply(A, b), a)) = Plus(Plus(Apply(A, Apply(B, v)), Apply(A, b)), a)
        BY <4>1, <4>4, VectorSums
      <4>7. Plus(Apply(A, Apply(B, v)), Apply(A, b)) = Apply(A, Plus(Apply(B, v), b))
        BY <4>1, <4>4, ApplySums
      <4>8. g = Plus(Apply(B, v), b)
        BY <3>1 DEF B, b
      <4> QED
        BY <4>3, <4>5, <4>6, <4>7, <4>8 DEF A, a
    <3> HIDE DEF g
    <3>3. Between(H(m).trans, tool.trans) = Squared(g)
      BY <2>2, <3>1, <3>2, CarriedApart
    <3>4. Between(Scaled(1000, H(m).trans), Scaled(1000, tool.trans)) = 1000000 * Between(H(m).trans, tool.trans)
      BY <2>2, <2>5, VectorSums
    <3>5. cali_pose[m].position = Scaled(1000, H(m).trans) /\ place = Scaled(1000, tool.trans)
      BY <2>2, <2>5
    <3> QED
      BY <3>3, <3>4, <3>5 DEF g
  <2>8. Times(Transpose(Orientation(cali_pose[m])), Orientation(cali_pose[n]))
          = Times(Transpose(poses[m].rot), poses[n].rot)
    BY <2>1, <2>4, <2>5, TurnedAlike
  <2> QED
    BY <2>6, <2>7, <2>8
<1> QED
  BY <1>1, Invariance, PTL
=============================================================================
