---------------------------- MODULE MCThreePoints ----------------------------
(* ThreePoints with two markers.                                           *)
EXTENDS ThreePoints, TLC

TwoMarkers == {7, 15}
OnTable == 7 :> Vec(20, 60, 2) @@ 15 :> Vec(10, 20, 2)

\* On the way down, and below the end of the LINE.
SomeContacts == {6, 4}
=============================================================================
