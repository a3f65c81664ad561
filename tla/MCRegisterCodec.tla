--------------------------- MODULE MCRegisterCodec ---------------------------
(* RegisterCodec around the multiples of 65.536 and of 1.                     *)
EXTENDS RegisterCodec

Around(c, width, step) == {c + step * d : d \in -width .. width}

\* A decimal of six places, in millionths, is a double when it is a multiple of
\* 1/64; else the doubles next to it lie a hair below and above it.
Doubles(g) == IF g % 15625 = 0 THEN {2 * g} ELSE {2 * g - 1, 2 * g + 1}

Decimals == UNION {Around(k * 65536000, 8, 250) : k \in -3 .. 3 \cup {9, 11, 13, 15}} \cup
            UNION {Around(k * 32768000, 4, 500) : k \in {-3, -1, 1, 3}} \cup
            {90000000, -90000000, 65900000, -104008000, 15782000, 293500001, -999999, 999999}

Grid == UNION {Doubles(g) : g \in Decimals}

\* Goals below zero that no rounding puts onto a thousandth.
Negatives == {g \in Grid : g < 0 /\ g % FINE \notin {1, FINE - 1}}

\* The double nearest to 589.824, nine times 65.536, is less than it.
NineWords == {2 * 589824000 - 1}
=============================================================================
