------------------------------ MODULE BaseFrame ------------------------------
(***************************************************************************)
(* get_vector of hiwin_example/three_points_calibration_example.py: the frame *)
(* of three touched points.  The axes are left unnormalised; normalising them *)
(* divides by zero when the points lie on a line, which leaves nan.          *)
(***************************************************************************)
EXTENDS Integers

Vector == [x : Int, y : Int, z : Int]

Vec(a, b, c) == [x |-> a, y |-> b, z |-> c]
Minus(a, b)  == Vec(a.x - b.x, a.y - b.y, a.z - b.z)
Dot(a, b)    == a.x * b.x + a.y * b.y + a.z * b.z

Cross(a, b) == Vec(a.y * b.z - a.z * b.y, a.z * b.x - a.x * b.z, a.x * b.y - a.y * b.x)

\* The default, axis = "yx": the second marker, touched last, gives the y axis.
get_vector(new_base_point, third_point, y_point) ==
  LET Vector_Y     == Minus(y_point, new_base_point)
      Vector_other == Minus(third_point, new_base_point)
      Vector_Z     == Cross(Vector_other, Vector_Y)
      Vector_X     == Cross(Vector_Y, Vector_Z)
  IN [origin |-> new_base_point, vx |-> Vector_X, vy |-> Vector_Y, vz |-> Vector_Z]
=============================================================================
