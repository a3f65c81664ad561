---------------------------- MODULE MCConvertPose ----------------------------
(* ConvertPose over every orientation by quarter turns.                      *)
EXTENDS ConvertPose

QuarterTurns == {n * QUARTER : n \in -1 .. 2}
TwoPlaces == {<<0, 0, 0>>, <<1000, -2000, 3000>>}
Facing(a) == as_rotation_matrix(quaternion_from_euler(a, sxyz))
Seen(a, v) == [rot |-> Facing(a), trans |-> v]

SomePictures == {
  <<Seen(<<0, 0, 0>>, <<3, 1, -2>>), Seen(<<0, 0, 1>>, <<0, 1, -2>>)>>,
  <<Seen(<<1, 0, 2>>, <<-1, 0, 4>>), Seen(<<1, 0, 2>>, <<2, -2, 3>>)>>,
  <<Seen(<<-1, 1, 0>>, <<0, 0, 1>>), Seen(<<2, -1, 1>>, <<1, 1, 0>>)>>}
Mounted == Seen(<<1, 0, 1>>, <<0, 1, 2>>)
=============================================================================
