---------------------------- MODULE FirstVersion ----------------------------
(***************************************************************************)
(* _state_machine of hiwin_example/first_version.py: what the handler of     *)
(* each state sends, and the state it returns.  Poses are in thousandths of   *)
(* a millimetre and of a degree, in the frame the request names.             *)
(***************************************************************************)
EXTENDS RobotRequests

Pose(at) == [kind |-> "pose", at |-> at, tool |-> 1, base |-> 11]

HOME_POSE         == Pose(<<210737, 122031, -276256, 1133, 0, -89007>>)
LOWER_FRONT_POSE  == Pose(<<436396, 602953, -5844, -32, -1129, 2615>>)
LOWER_INSIDE_POSE == Pose(<<779672, 602949, -5772, -32, -1131, 2615>>)
LOWER_DOWN_POSE   == Pose(<<779672, 602949, 36667, -32, -1131, 2615>>)
UPPER_FRONT_POSE  == Pose(<<436341, 602949, -198703, -32, -1128, 2614>>)
UPPER_INSIDE_POSE == Pose(<<784174, 602949, -198703, -32, -1128, 2614>>)
UPPER_DOWN_POSE   == Pose(<<784173, 602949, -168404, -32, -1129, 2614>>)

generate_robot_request(mode, goal) == Motion(mode, goal, TRUE)

PTP(goal, next)  == Step(<<Awaited(generate_robot_request("PTP", goal))>>, next)
LINE(goal, next) == Step(<<Awaited(generate_robot_request("LINE", goal))>>, next)
call_io(on, next) == Step(<<Unawaited(Output(VacuumPin, on))>>, next)

Beginning == [
  INIT      |-> Step(<<>>, "HOME_MOVE"),
  HOME_MOVE |-> PTP(HOME_POSE, "LOWER_FRONT_MOVE")]

AfterLower == "UPPER_FRONT_MOVE"

Lower == [
  LOWER_FRONT_MOVE  |-> PTP(LOWER_FRONT_POSE, "LOWER_INSIDE_MOVE"),
  LOWER_INSIDE_MOVE |-> LINE(LOWER_INSIDE_POSE, "LOWER_DOWN_MOVE"),
  LOWER_DOWN_MOVE   |-> LINE(LOWER_DOWN_POSE, "PICK_OBJECT"),
  PICK_OBJECT       |-> call_io(1, "LOWER_UP_MOVE"),
  LOWER_UP_MOVE     |-> LINE(LOWER_INSIDE_POSE, "LOWER_OUT_MOVE"),
  LOWER_OUT_MOVE    |-> LINE(LOWER_FRONT_POSE, AfterLower)]

\* Mutant: the way in at the height of the board above is left out.
UpperDirect == [
  UPPER_FRONT_MOVE  |-> PTP(UPPER_FRONT_POSE, "UPPER_DOWN_MOVE"),
  UPPER_DOWN_MOVE   |-> LINE(UPPER_DOWN_POSE, "PLACE_OBJECT"),
  PLACE_OBJECT      |-> call_io(0, "UPPER_UP_MOVE"),
  UPPER_UP_MOVE     |-> LINE(UPPER_INSIDE_POSE, "UPPER_OUT_MOVE"),
  UPPER_OUT_MOVE    |-> LINE(UPPER_FRONT_POSE, "FINAL_HOME_MOVE")]

Upper == [
  UPPER_FRONT_MOVE  |-> PTP(UPPER_FRONT_POSE, "UPPER_INSIDE_MOVE"),
  UPPER_INSIDE_MOVE |-> LINE(UPPER_INSIDE_POSE, "UPPER_DOWN_MOVE"),
  UPPER_DOWN_MOVE   |-> LINE(UPPER_DOWN_POSE, "PLACE_OBJECT"),
  PLACE_OBJECT      |-> call_io(0, "UPPER_UP_MOVE"),
  UPPER_UP_MOVE     |-> LINE(UPPER_INSIDE_POSE, "UPPER_OUT_MOVE"),
  UPPER_OUT_MOVE    |-> LINE(UPPER_FRONT_POSE, "FINAL_HOME_MOVE")]

\* generate_robot_request holds unless told otherwise, also for CLOSE.
Ending == [
  FINAL_HOME_MOVE |-> PTP(HOME_POSE, "CLOSE_ROBOT"),
  CLOSE_ROBOT     |-> Step(<<Awaited(Plain("CLOSE", TRUE))>>, "FINISH")]
=============================================================================
