----------------------------- MODULE ConvertPose -----------------------------
(***************************************************************************)
(* convert_arm_pose of hiwin_example/three_points_calibration_example.py:    *)
(* where the markers of a picture lie that a camera on the arm took, at      *)
(* rotations that are quarter turns to the code.                             *)
(*                                                                         *)
(* The arm's angles are in degrees, counted here in parts of which 31400 are *)
(* 90 degrees.  The code converts them with 3.14 for pi: it turns by a quarter, *)
(* 1.5708 radians, for 31416 of them, which are 90.046 degrees.  Quaternion and *)
(* matrix are thus those of angles a little smaller than the arm's.          *)
(***************************************************************************)
EXTENDS Transformations

CONSTANTS
  Turns,        \* angles of the arm
  Places,       \* of the arm, in millimetres
  Pictures,     \* pairs of frames of markers in the camera's, in metres
  tool2cam      \* the frame of the camera on the tool

VARIABLES
  place, angles,    \* current_position of the arm
  poses,            \* res.poses: the markers in a picture
  cali_pose

vars == <<place, angles, poses, cali_pose>>

-----------------------------------------------------------------------------
(* Angles *)

QUARTER == 31416

\* d*3.14/180 and a*180/3.14, the radians counted in quarter turns.
Radians(d) == d \div QUARTER
Degrees(a) == a * QUARTER

InRadians(d) == [c \in 1 .. 3 |-> Radians(d[c])]

-----------------------------------------------------------------------------
(* Frames *)

Plus(v, w)   == <<v[1] + w[1], v[2] + w[2], v[3] + w[3]>>
Scaled(f, v) == <<f * v[1], f * v[2], f * v[3]>>
Apply(A, v)  == [r \in 1 .. 3 |-> A[r][1] * v[1] + A[r][2] * v[2] + A[r][3] * v[3]]
Times(A, B) ==
  [r \in 1 .. 3 |-> [c \in 1 .. 3 |-> A[r][1] * B[1][c] + A[r][2] * B[2][c] + A[r][3] * B[3][c]]]
Transpose(A) == [r \in 1 .. 3 |-> [c \in 1 .. 3 |-> A[c][r]]]

matmul(F, G) == [rot |-> Times(F.rot, G.rot), trans |-> Plus(Apply(F.rot, G.trans), F.trans)]

Squared(v)    == v[1] * v[1] + v[2] * v[2] + v[3] * v[3]
Between(v, w) == Squared(Plus(v, Scaled(-1, w)))

-----------------------------------------------------------------------------
(* What angles mean *)

\* The rotation by a about the given axis.
About(axis, a) ==
  LET b == NEXT_AXIS[axis]
      c == NEXT_AXIS[b]
      turn == <<<<1, 0>>, <<0, 1>>, <<-1, 0>>, <<0, -1>>>>[(a % 4) + 1] IN
  [r \in 1 .. 3 |-> [s \in 1 .. 3 |->
     CASE r = axis /\ s = axis -> 1
       [] r = s /\ r # axis    -> turn[1]
       [] r = c /\ s = b       -> turn[2]
       [] r = b /\ s = c       -> -turn[2]
       [] OTHER                -> 0]]

\* What Euler angles mean: one rotation after the other about the axes of a
\* sequence, fixed or turning with the frame.
Rotation(a, axes) ==
  LET last == IF axes.repetition = 1 THEN axes.first ELSE Third(axes)
      t    == IF axes.frame = 1 THEN Swap(a) ELSE a
  IN Times(About(last, t[3]), Times(About(Second(axes), t[2]), About(axes.first, t[1])))

\* A frame stands in one of the orientations quarter turns lead to.
Orientations == {Rotation(a, sxyz) : a \in [1 .. 3 -> -1 .. 2]}
Frames == [rot : Orientations, trans : [1 .. 3 -> Int]]

ASSUME ConvertConstants ==
  /\ \A d \in Turns : d \in Int /\ d % QUARTER = 0
  /\ \A p \in Places : p \in [1 .. 3 -> Int] /\ \A c \in 1 .. 3 : p[c] % 1000 = 0
  /\ Pictures \subseteq [1 .. 2 -> Frames] /\ tool2cam \in Frames

-----------------------------------------------------------------------------
(* convert_arm_pose *)

base2tool(p, a) ==
  [rot   |-> as_rotation_matrix(quaternion_from_euler(InRadians(a), sxyz)),
   trans |-> [c \in 1 .. 3 |-> p[c] \div 1000]]

\* Mutant: the frames are multiplied in the other order.
base2camReversed(p, a) == matmul(tool2cam, base2tool(p, a))

base2cam(p, a) == matmul(base2tool(p, a), tool2cam)

convert_arm_pose(cam2aruco, p, a) ==
  LET base2aruco == matmul(base2cam(p, a), cam2aruco)
      euler      == euler_from_matrix(base2aruco.rot, sxyz)
  IN [position |-> Scaled(1000, base2aruco.trans),
      angles   |-> [c \in 1 .. 3 |-> Degrees(euler[c])]]

Init ==
  /\ place \in Places /\ angles \in [1 .. 3 -> Turns]
  /\ poses \in Pictures
  /\ cali_pose = <<>>

Convert ==
  /\ cali_pose = <<>>
  /\ cali_pose' = [m \in DOMAIN poses |-> convert_arm_pose(poses[m], place, angles)]
  /\ UNCHANGED <<place, angles, poses>>

Next == Convert

Spec == Init /\ [][Next]_vars

-----------------------------------------------------------------------------
(* Properties *)

\* In each of the 24 axis sequences the quaternion of three Euler angles is the
\* rotation they mean.
QuaternionsTurnAlike ==
  \A axes \in AXES :
    as_rotation_matrix(quaternion_from_euler(InRadians(angles), axes)) = Rotation(InRadians(angles), axes)

\* In each of the 24 axis sequences the angles taken from a rotation matrix mean that
\* rotation, also where the gimbal locks and they are not the angles it came from.
AnglesTurnBack ==
  \A axes \in AXES :
    LET R == Rotation(InRadians(angles), axes) IN Rotation(euler_from_matrix(R, axes), axes) = R

\* How a found marker is turned, its angles converted as the code converts them.
Orientation(found) == Rotation(InRadians(found.angles), sxyz)

\* convert_arm_pose carries a picture over as a whole: the markers found lie as far
\* from each other and from the arm as the picture and the mounting of the camera say,
\* and are turned against each other as in the picture.  That 3.14 is not pi turns
\* the picture about the arm, it does not distort it.
FoundAsPictured ==
  cali_pose # <<>> =>
    \A m, n \in 1 .. 2 :
      /\ Between(cali_pose[m].position, cali_pose[n].position)
           = 1000000 * Between(poses[m].trans, poses[n].trans)
      /\ Between(cali_pose[m].position, place)
           = 1000000 * Squared(matmul(tool2cam, poses[m]).trans)
      /\ Times(Transpose(Orientation(cali_pose[m])), Orientation(cali_pose[n]))
           = Times(Transpose(poses[m].rot), poses[n].rot)
=============================================================================
