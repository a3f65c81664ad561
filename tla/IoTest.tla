------------------------------- MODULE IoTest -------------------------------
(***************************************************************************)
(* _state_machine of hiwin_example/io_test.py, a program that tries out the  *)
(* vacuum between two points and home.  Units as in FirstVersion.            *)
(***************************************************************************)
EXTENDS RobotRequests

Pose(at) == [kind |-> "pose", at |-> at, tool |-> 1, base |-> 11]

HOME_POSE  == Pose(<<210737, 122031, -276256, 1133, 0, -89007>>)
PICK_POSE  == Pose(<<397961, 44794, 158653, 1133, 1, -89003>>)
PLACE_POSE == Pose(<<58226, 44794, 144983, 1134, 1, -89008>>)

PTP(goal, next) == Step(<<Awaited(Motion("PTP", goal, TRUE))>>, next)
call_io(on, next) == Step(<<Unawaited(Output(VacuumPin, on))>>, next)

Beginning == [
  INIT                |-> Step(<<>>, "HOME_MOVE"),
  HOME_MOVE           |-> PTP(HOME_POSE, "PICK_MOVE"),
  PICK_MOVE           |-> PTP(PICK_POSE, "PICK_IO_ON"),
  PICK_IO_ON          |-> call_io(1, "POST_PICK_HOME_MOVE")]

Placing == [
  POST_PICK_HOME_MOVE |-> PTP(HOME_POSE, "WAIT_AT_HOME"),
  WAIT_AT_HOME        |-> Step(<<>>, "PLACE_MOVE"),
  PLACE_MOVE          |-> PTP(PLACE_POSE, "PLACE_IO_OFF"),
  PLACE_IO_OFF        |-> call_io(0, "FINAL_HOME_MOVE")]

Ending == [
  FINAL_HOME_MOVE |-> PTP(HOME_POSE, "CLOSE_ROBOT"),
  CLOSE_ROBOT     |-> Step(<<Awaited(Plain("CLOSE", TRUE))>>, "FINISH")]
=============================================================================
