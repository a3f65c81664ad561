----------------------------- MODULE LongVersion -----------------------------
(***************************************************************************)
(* _state_machine of hiwin_example/long_version.py, whose arm turns its last  *)
(* joint before it approaches.  Units as in FirstVersion.                    *)
(***************************************************************************)
EXTENDS RobotRequests

Pose(at)   == [kind |-> "pose", at |-> at, tool |-> 7, base |-> 6]
Joints(at) == [kind |-> "joints", at |-> at, tool |-> 7, base |-> 6]

HOME_POSE        == Pose(<<-30, 367996, 293741, -180000, 5, 90002>>)
LOWER_FRONT_POSE == Pose(<<-326624, 467526, 22552, -179992, 0, 177403>>)
LOWER_ABOVE_POSE == LOWER_FRONT_POSE
LOWER_DOWN_POSE  == Pose(<<-326624, 467526, 7275, -179992, 0, 177403>>)
UPPER_FRONT_POSE == Pose(<<-326624, 467525, 244784, 179998, 7, 69822>>)
UPPER_ABOVE_POSE == Pose(<<-326624, 467525, 244784, -179998, 0, 178165>>)
UPPER_DOWN_POSE  == Pose(<<-326624, 467525, 217784, -179998, 0, 178165>>)

JOINTS_READY       == Joints(<<34938, -42683, 11480, 5, -58802, 55114>>)
JOINTS_ABOVE_PICK  == Joints(<<34938, -42683, 11480, 5, -58802, -52468>>)
JOINTS_ABOVE_PLACE == Joints(<<34938, -37156, 40612, 4, -93462, -53227>>)

generate_robot_request(mode, goal) == Motion(mode, goal, TRUE)

PTP(goal, next)  == Step(<<Awaited(generate_robot_request("PTP", goal))>>, next)
LINE(goal, next) == Step(<<Awaited(generate_robot_request("LINE", goal))>>, next)
call_io(on, next) == Step(<<Unawaited(Output(VacuumPin, on))>>, next)

Beginning == [
  INIT         |-> Step(<<>>, "HOME_MOVE"),
  HOME_MOVE    |-> PTP(HOME_POSE, "ROTATE_READY"),
  ROTATE_READY |-> PTP(JOINTS_READY, "LOWER_FRONT_MOVE")]

Lower == [
  LOWER_FRONT_MOVE  |-> PTP(LOWER_FRONT_POSE, "ROTATE_ABOVE_PICK"),
  ROTATE_ABOVE_PICK |-> PTP(JOINTS_ABOVE_PICK, "LOWER_DOWN_MOVE"),
  LOWER_DOWN_MOVE   |-> LINE(LOWER_DOWN_POSE, "PICK_OBJECT"),
  PICK_OBJECT       |-> call_io(1, "LOWER_UP_MOVE"),
  LOWER_UP_MOVE     |-> LINE(LOWER_ABOVE_POSE, "ROTATE_READY_BACK"),
  ROTATE_READY_BACK |-> PTP(JOINTS_READY, "UPPER_FRONT_MOVE")]

Upper == [
  UPPER_FRONT_MOVE   |-> PTP(UPPER_FRONT_POSE, "ROTATE_ABOVE_PLACE"),
  ROTATE_ABOVE_PLACE |-> PTP(JOINTS_ABOVE_PLACE, "UPPER_DOWN_MOVE"),
  UPPER_DOWN_MOVE    |-> LINE(UPPER_DOWN_POSE, "PLACE_OBJECT"),
  PLACE_OBJECT       |-> call_io(0, "UPPER_UP_MOVE"),
  UPPER_UP_MOVE      |-> LINE(UPPER_ABOVE_POSE, "FINAL_HOME_MOVE")]

Ending == [
  FINAL_HOME_MOVE |-> PTP(HOME_POSE, "CLOSE_ROBOT"),
  CLOSE_ROBOT     |-> Step(<<Awaited(Plain("CLOSE", TRUE))>>, "FINISH")]
=============================================================================
