------------------------------ MODULE HandInEye ------------------------------
(***************************************************************************)
(* _state_machine of hiwin_example/hand_in_eye_calibration.py.  What it does  *)
(* depends on cali_pose_cnt, here cnt.  CALI_POSE is a list of different      *)
(* poses; each is named by its index.                                        *)
(***************************************************************************)
EXTENDS RobotRequests

NumPoses == 22    \* the length of the list
CALI_POSE == [i \in 0 .. NumPoses - 1 |->
                [kind |-> "pose", at |-> <<i>>, tool |-> 1, base |-> 0]]

generate_robot_request(mode, goal) == Motion(mode, goal, TRUE)
CHECK_POSE == Plain("CHECK_POSE", TRUE)

Beginning == [INIT |-> Step(<<>>, "BROADCASTE_POSE")]


\* Mutant: the loop ends one pose early.
AfterBroadcastEarly(cnt) == IF cnt # 21 THEN "MOVE_TO_CALI_POSE" ELSE "CLOSE_ROBOT"

\* The literal of the code, not the length of its list.
AfterBroadcast(cnt) == IF cnt # 22 THEN "MOVE_TO_CALI_POSE" ELSE "CLOSE_ROBOT"

\* It broadcasts what CHECK_POSE shows, and waits for the return key.
Broadcast(cnt) == [BROADCASTE_POSE |-> Step(<<Awaited(CHECK_POSE)>>, AfterBroadcast(cnt))]

\* nest_state is assigned when arm_state is IDLE, which a held answer always is.
Move(cnt) == [
  MOVE_TO_CALI_POSE |->
    Step(<<Awaited(generate_robot_request("PTP", CALI_POSE[cnt])), Awaited(CHECK_POSE)>>,
         "BROADCASTE_POSE")]

Ending == [CLOSE_ROBOT |-> Step(<<Awaited(Plain("CLOSE", TRUE))>>, "FINISH")]
=============================================================================
