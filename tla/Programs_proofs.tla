---------------------------- MODULE Programs_proofs ----------------------------
(* The safety of the programs of one list of handlers, for any choice of them    *)
(* and any late or lost call.                                                   *)
EXTENDS Programs, CommandService_proofs, FiniteSetTheorems

Close == Plain("CLOSE", TRUE)

\* What the handlers send: a motion that is awaited, or an output that is not.
MoveTo(n, g) == <<Awaited(Motion(n, g, TRUE))>>
Set(v) == <<Unawaited(Output(VacuumPin, v))>>

-----------------------------------------------------------------------------
(* The handlers of the programs *)

\* The instances build their requests alike.
LEMMA Forms ==
  /\ \A g, s : /\ First!PTP(g, s) = Step(MoveTo("PTP", g), s)
               /\ First!LINE(g, s) = Step(MoveTo("LINE", g), s)
               /\ First!call_io(g, s) = Step(Set(g), s)
  /\ \A g, s : /\ Long!PTP(g, s) = Step(MoveTo("PTP", g), s)
               /\ Long!LINE(g, s) = Step(MoveTo("LINE", g), s)
               /\ Long!call_io(g, s) = Step(Set(g), s)
  /\ \A g, s : /\ Io!PTP(g, s) = Step(MoveTo("PTP", g), s)
               /\ Io!call_io(g, s) = Step(Set(g), s)
  /\ \A g : Hand!Awaited(Hand!generate_robot_request("PTP", g)) = Awaited(Motion("PTP", g, TRUE))
  /\ Hand!Awaited(Hand!CHECK_POSE) = Awaited(CheckPose)
  /\ \A q, s : /\ First!Step(q, s) = Step(q, s) /\ Long!Step(q, s) = Step(q, s)
               /\ Io!Step(q, s) = Step(q, s) /\ Hand!Step(q, s) = Step(q, s)
  /\ First!Awaited(First!Plain("CLOSE", TRUE)) = Awaited(Close)
  /\ Long!Awaited(Long!Plain("CLOSE", TRUE)) = Awaited(Close)
  /\ Io!Awaited(Io!Plain("CLOSE", TRUE)) = Awaited(Close)
  /\ Hand!Awaited(Hand!Plain("CLOSE", TRUE)) = Awaited(Close)
<1> USE DEF Step, Awaited, Unawaited, Motion, Output, Plain, VacuumPin, CheckPose, Close, MoveTo, Set
<1>1. \A g, s : /\ First!PTP(g, s) = Step(MoveTo("PTP", g), s)
                /\ First!LINE(g, s) = Step(MoveTo("LINE", g), s)
                /\ First!call_io(g, s) = Step(Set(g), s)
  BY DEF First!PTP, First!LINE, First!call_io, First!generate_robot_request, First!Step,
         First!Awaited, First!Unawaited, First!Motion, First!Output, First!VacuumPin
<1>2. \A g, s : /\ Long!PTP(g, s) = Step(MoveTo("PTP", g), s)
                /\ Long!LINE(g, s) = Step(MoveTo("LINE", g), s)
                /\ Long!call_io(g, s) = Step(Set(g), s)
  BY DEF Long!PTP, Long!LINE, Long!call_io, Long!generate_robot_request, Long!Step,
         Long!Awaited, Long!Unawaited, Long!Motion, Long!Output, Long!VacuumPin
<1>3. \A g, s : /\ Io!PTP(g, s) = Step(MoveTo("PTP", g), s)
                /\ Io!call_io(g, s) = Step(Set(g), s)
  BY DEF Io!PTP, Io!call_io, Io!Step, Io!Awaited, Io!Unawaited, Io!Motion, Io!Output, Io!VacuumPin
<1>4. /\ \A g : Hand!Awaited(Hand!generate_robot_request("PTP", g)) = Awaited(Motion("PTP", g, TRUE))
      /\ Hand!Awaited(Hand!CHECK_POSE) = Awaited(CheckPose)
  BY DEF Hand!Awaited, Hand!generate_robot_request, Hand!Motion, Hand!CHECK_POSE, Hand!Plain,
         Hand!VacuumPin
<1>5. \A q, s : /\ First!Step(q, s) = Step(q, s) /\ Long!Step(q, s) = Step(q, s)
                /\ Io!Step(q, s) = Step(q, s) /\ Hand!Step(q, s) = Step(q, s)
  BY DEF First!Step, Long!Step, Io!Step, Hand!Step
<1>6. /\ First!Awaited(First!Plain("CLOSE", TRUE)) = Awaited(Close)
      /\ Long!Awaited(Long!Plain("CLOSE", TRUE)) = Awaited(Close)
  BY DEF First!Awaited, First!Plain, First!VacuumPin, Long!Awaited, Long!Plain, Long!VacuumPin
<1>7. /\ Io!Awaited(Io!Plain("CLOSE", TRUE)) = Awaited(Close)
      /\ Hand!Awaited(Hand!Plain("CLOSE", TRUE)) = Awaited(Close)
  BY DEF Io!Awaited, Io!Plain, Io!VacuumPin, Hand!Awaited, Hand!Plain, Hand!VacuumPin
<1> QED
  BY <1>1, <1>2, <1>3, <1>4, <1>5, <1>6, <1>7

\* The handlers of first_version.py, one by one.
LEMMA CabinetTable ==
  /\ DOMAIN Cabinet = {"INIT", "HOME_MOVE", "LOWER_FRONT_MOVE", "LOWER_INSIDE_MOVE",
       "LOWER_DOWN_MOVE", "PICK_OBJECT", "LOWER_UP_MOVE", "LOWER_OUT_MOVE", "UPPER_FRONT_MOVE",
       "UPPER_INSIDE_MOVE", "UPPER_DOWN_MOVE", "PLACE_OBJECT", "UPPER_UP_MOVE", "UPPER_OUT_MOVE",
       "FINAL_HOME_MOVE", "CLOSE_ROBOT"}
  /\ Cabinet["INIT"] = Step(<<>>, "HOME_MOVE")
  /\ Cabinet["HOME_MOVE"] = Step(MoveTo("PTP", First!HOME_POSE), "LOWER_FRONT_MOVE")
  /\ Cabinet["LOWER_FRONT_MOVE"] = Step(MoveTo("PTP", First!LOWER_FRONT_POSE), "LOWER_INSIDE_MOVE")
  /\ Cabinet["LOWER_INSIDE_MOVE"] = Step(MoveTo("LINE", First!LOWER_INSIDE_POSE), "LOWER_DOWN_MOVE")
  /\ Cabinet["LOWER_DOWN_MOVE"] = Step(MoveTo("LINE", First!LOWER_DOWN_POSE), "PICK_OBJECT")
  /\ Cabinet["PICK_OBJECT"] = Step(Set(1), "LOWER_UP_MOVE")
  /\ Cabinet["LOWER_UP_MOVE"] = Step(MoveTo("LINE", First!LOWER_INSIDE_POSE), "LOWER_OUT_MOVE")
  /\ Cabinet["LOWER_OUT_MOVE"] = Step(MoveTo("LINE", First!LOWER_FRONT_POSE), "UPPER_FRONT_MOVE")
  /\ Cabinet["UPPER_FRONT_MOVE"] = Step(MoveTo("PTP", First!UPPER_FRONT_POSE), "UPPER_INSIDE_MOVE")
  /\ Cabinet["UPPER_INSIDE_MOVE"] = Step(MoveTo("LINE", First!UPPER_INSIDE_POSE), "UPPER_DOWN_MOVE")
  /\ Cabinet["UPPER_DOWN_MOVE"] = Step(MoveTo("LINE", First!UPPER_DOWN_POSE), "PLACE_OBJECT")
  /\ Cabinet["PLACE_OBJECT"] = Step(Set(0), "UPPER_UP_MOVE")
  /\ Cabinet["UPPER_UP_MOVE"] = Step(MoveTo("LINE", First!UPPER_INSIDE_POSE), "UPPER_OUT_MOVE")
  /\ Cabinet["UPPER_OUT_MOVE"] = Step(MoveTo("LINE", First!UPPER_FRONT_POSE), "FINAL_HOME_MOVE")
  /\ Cabinet["FINAL_HOME_MOVE"] = Step(MoveTo("PTP", First!HOME_POSE), "CLOSE_ROBOT")
  /\ Cabinet["CLOSE_ROBOT"] = Step(<<Awaited(Close)>>, "FINISH")
<1>1. First!Step(<<>>, "HOME_MOVE") = Step(<<>>, "HOME_MOVE")
      /\ First!Step(<<First!Awaited(First!Plain("CLOSE", TRUE))>>, "FINISH")
           = Step(<<Awaited(Close)>>, "FINISH")
  BY Forms
<1>2. \A g, s :
      /\ First!PTP(g, s) = Step(MoveTo("PTP", g), s)
      /\ First!LINE(g, s) = Step(MoveTo("LINE", g), s)
      /\ First!call_io(g, s) = Step(Set(g), s)
  BY Forms
<1> QED
  BY <1>1, <1>2 DEF Cabinet, ++, First!Beginning, First!Lower, First!Upper, First!Ending, First!AfterLower

\* The handlers of long_version.py.
LEMMA LongTable ==
  /\ DOMAIN LongCabinet = {"INIT", "HOME_MOVE", "ROTATE_READY", "LOWER_FRONT_MOVE",
       "ROTATE_ABOVE_PICK", "LOWER_DOWN_MOVE", "PICK_OBJECT", "LOWER_UP_MOVE", "ROTATE_READY_BACK",
       "UPPER_FRONT_MOVE", "ROTATE_ABOVE_PLACE", "UPPER_DOWN_MOVE", "PLACE_OBJECT",
       "UPPER_UP_MOVE", "FINAL_HOME_MOVE", "CLOSE_ROBOT"}
  /\ LongCabinet["INIT"] = Step(<<>>, "HOME_MOVE")
  /\ LongCabinet["HOME_MOVE"] = Step(MoveTo("PTP", Long!HOME_POSE), "ROTATE_READY")
  /\ LongCabinet["ROTATE_READY"] = Step(MoveTo("PTP", Long!JOINTS_READY), "LOWER_FRONT_MOVE")
  /\ LongCabinet["LOWER_FRONT_MOVE"] = Step(MoveTo("PTP", Long!LOWER_FRONT_POSE), "ROTATE_ABOVE_PICK")
  /\ LongCabinet["ROTATE_ABOVE_PICK"] = Step(MoveTo("PTP", Long!JOINTS_ABOVE_PICK), "LOWER_DOWN_MOVE")
  /\ LongCabinet["LOWER_DOWN_MOVE"] = Step(MoveTo("LINE", Long!LOWER_DOWN_POSE), "PICK_OBJECT")
  /\ LongCabinet["PICK_OBJECT"] = Step(Set(1), "LOWER_UP_MOVE")
  /\ LongCabinet["LOWER_UP_MOVE"] = Step(MoveTo("LINE", Long!LOWER_ABOVE_POSE), "ROTATE_READY_BACK")
  /\ LongCabinet["ROTATE_READY_BACK"] = Step(MoveTo("PTP", Long!JOINTS_READY), "UPPER_FRONT_MOVE")
  /\ LongCabinet["UPPER_FRONT_MOVE"] = Step(MoveTo("PTP", Long!UPPER_FRONT_POSE), "ROTATE_ABOVE_PLACE")
  /\ LongCabinet["ROTATE_ABOVE_PLACE"] = Step(MoveTo("PTP", Long!JOINTS_ABOVE_PLACE), "UPPER_DOWN_MOVE")
  /\ LongCabinet["UPPER_DOWN_MOVE"] = Step(MoveTo("LINE", Long!UPPER_DOWN_POSE), "PLACE_OBJECT")
  /\ LongCabinet["PLACE_OBJECT"] = Step(Set(0), "UPPER_UP_MOVE")
  /\ LongCabinet["UPPER_UP_MOVE"] = Step(MoveTo("LINE", Long!UPPER_ABOVE_POSE), "FINAL_HOME_MOVE")
  /\ LongCabinet["FINAL_HOME_MOVE"] = Step(MoveTo("PTP", Long!HOME_POSE), "CLOSE_ROBOT")
  /\ LongCabinet["CLOSE_ROBOT"] = Step(<<Awaited(Close)>>, "FINISH")
<1>1. Long!Step(<<>>, "HOME_MOVE") = Step(<<>>, "HOME_MOVE")
      /\ Long!Step(<<Long!Awaited(Long!Plain("CLOSE", TRUE))>>, "FINISH")
           = Step(<<Awaited(Close)>>, "FINISH")
  BY Forms
<1>2. \A g, s :
      /\ Long!PTP(g, s) = Step(MoveTo("PTP", g), s)
      /\ Long!LINE(g, s) = Step(MoveTo("LINE", g), s)
      /\ Long!call_io(g, s) = Step(Set(g), s)
  BY Forms
<1> QED
  BY <1>1, <1>2 DEF LongCabinet, ++, Long!Beginning, Long!Lower, Long!Upper, Long!Ending

\* The handlers of io_test.py.
LEMMA TrialTable ==
  /\ DOMAIN IoTrial = {"INIT", "HOME_MOVE", "PICK_MOVE", "PICK_IO_ON", "POST_PICK_HOME_MOVE",
       "WAIT_AT_HOME", "PLACE_MOVE", "PLACE_IO_OFF", "FINAL_HOME_MOVE", "CLOSE_ROBOT"}
  /\ IoTrial["INIT"] = Step(<<>>, "HOME_MOVE")
  /\ IoTrial["HOME_MOVE"] = Step(MoveTo("PTP", Io!HOME_POSE), "PICK_MOVE")
  /\ IoTrial["PICK_MOVE"] = Step(MoveTo("PTP", Io!PICK_POSE), "PICK_IO_ON")
  /\ IoTrial["PICK_IO_ON"] = Step(Set(1), "POST_PICK_HOME_MOVE")
  /\ IoTrial["POST_PICK_HOME_MOVE"] = Step(MoveTo("PTP", Io!HOME_POSE), "WAIT_AT_HOME")
  /\ IoTrial["WAIT_AT_HOME"] = Step(<<>>, "PLACE_MOVE")
  /\ IoTrial["PLACE_MOVE"] = Step(MoveTo("PTP", Io!PLACE_POSE), "PLACE_IO_OFF")
  /\ IoTrial["PLACE_IO_OFF"] = Step(Set(0), "FINAL_HOME_MOVE")
  /\ IoTrial["FINAL_HOME_MOVE"] = Step(MoveTo("PTP", Io!HOME_POSE), "CLOSE_ROBOT")
  /\ IoTrial["CLOSE_ROBOT"] = Step(<<Awaited(Close)>>, "FINISH")
<1>1. /\ Io!Step(<<>>, "HOME_MOVE") = Step(<<>>, "HOME_MOVE")
      /\ Io!Step(<<>>, "PLACE_MOVE") = Step(<<>>, "PLACE_MOVE")
      /\ Io!Step(<<Io!Awaited(Io!Plain("CLOSE", TRUE))>>, "FINISH")
           = Step(<<Awaited(Close)>>, "FINISH")
  BY Forms
<1>2. \A g, s :
      /\ Io!PTP(g, s) = Step(MoveTo("PTP", g), s)
      /\ Io!call_io(g, s) = Step(Set(g), s)
  BY Forms
<1> QED
  BY <1>1, <1>2 DEF IoTrial, ++, Io!Beginning, Io!Placing, Io!Ending

\* The handlers of hand_in_eye_calibration.py after c poses.
LEMMA CalibrationTable ==
  ASSUME NEW c \in 0 .. Hand!NumPoses
  PROVE  /\ DOMAIN Calibration(c) =
              {"INIT", "BROADCASTE_POSE", "CLOSE_ROBOT"}
                \cup (IF c < Hand!NumPoses THEN {"MOVE_TO_CALI_POSE"} ELSE {})
         /\ Calibration(c)["INIT"] = Step(<<>>, "BROADCASTE_POSE")
         /\ Calibration(c)["BROADCASTE_POSE"] = Step(<<Awaited(CheckPose)>>, Hand!AfterBroadcast(c))
         /\ c < Hand!NumPoses =>
              Calibration(c)["MOVE_TO_CALI_POSE"] =
                Step(<<Awaited(Motion("PTP", Hand!CALI_POSE[c], TRUE)), Awaited(CheckPose)>>,
                     "BROADCASTE_POSE")
         /\ Calibration(c)["CLOSE_ROBOT"] = Step(<<Awaited(Close)>>, "FINISH")
<1>1. /\ \A s : Hand!Step(<<>>, s) = Step(<<>>, s)
      /\ \A s : Hand!Step(<<Hand!Awaited(Hand!CHECK_POSE)>>, s) = Step(<<Awaited(CheckPose)>>, s)
      /\ \A s : Hand!Step(<<Hand!Awaited(Hand!Plain("CLOSE", TRUE))>>, s) = Step(<<Awaited(Close)>>, s)
      /\ \A g, s : Hand!Step(<<Hand!Awaited(Hand!generate_robot_request("PTP", g)),
                              Hand!Awaited(Hand!CHECK_POSE)>>, s)
                    = Step(<<Awaited(Motion("PTP", g, TRUE)), Awaited(CheckPose)>>, s)
  BY Forms
<1>2. CASE c < Hand!NumPoses
  BY <1>1, <1>2 DEF Calibration, ++, Hand!Beginning, Hand!Broadcast, Hand!Move, Hand!Ending
<1>3. CASE ~(c < Hand!NumPoses)
  BY <1>1, <1>3 DEF Calibration, ++, Hand!Beginning, Hand!Broadcast, Hand!Ending
<1> QED
  BY <1>2, <1>3

-----------------------------------------------------------------------------
(* Where the arm stands *)

\* Where it stands when a handler begins.
FirstStands == [
  INIT |-> Elsewhere, HOME_MOVE |-> Elsewhere, LOWER_FRONT_MOVE |-> First!HOME_POSE,
  LOWER_INSIDE_MOVE |-> First!LOWER_FRONT_POSE, LOWER_DOWN_MOVE |-> First!LOWER_INSIDE_POSE,
  PICK_OBJECT |-> First!LOWER_DOWN_POSE, LOWER_UP_MOVE |-> First!LOWER_DOWN_POSE,
  LOWER_OUT_MOVE |-> First!LOWER_INSIDE_POSE, UPPER_FRONT_MOVE |-> First!LOWER_FRONT_POSE,
  UPPER_INSIDE_MOVE |-> First!UPPER_FRONT_POSE, UPPER_DOWN_MOVE |-> First!UPPER_INSIDE_POSE,
  PLACE_OBJECT |-> First!UPPER_DOWN_POSE, UPPER_UP_MOVE |-> First!UPPER_DOWN_POSE,
  UPPER_OUT_MOVE |-> First!UPPER_INSIDE_POSE, FINAL_HOME_MOVE |-> First!UPPER_FRONT_POSE,
  CLOSE_ROBOT |-> First!HOME_POSE, FINISH |-> First!HOME_POSE]

LongStands == [
  INIT |-> Elsewhere, HOME_MOVE |-> Elsewhere, ROTATE_READY |-> Long!HOME_POSE,
  LOWER_FRONT_MOVE |-> Long!JOINTS_READY, ROTATE_ABOVE_PICK |-> Long!LOWER_FRONT_POSE,
  LOWER_DOWN_MOVE |-> Long!JOINTS_ABOVE_PICK, PICK_OBJECT |-> Long!LOWER_DOWN_POSE,
  LOWER_UP_MOVE |-> Long!LOWER_DOWN_POSE, ROTATE_READY_BACK |-> Long!LOWER_ABOVE_POSE,
  UPPER_FRONT_MOVE |-> Long!JOINTS_READY, ROTATE_ABOVE_PLACE |-> Long!UPPER_FRONT_POSE,
  UPPER_DOWN_MOVE |-> Long!JOINTS_ABOVE_PLACE, PLACE_OBJECT |-> Long!UPPER_DOWN_POSE,
  UPPER_UP_MOVE |-> Long!UPPER_DOWN_POSE, FINAL_HOME_MOVE |-> Long!UPPER_ABOVE_POSE,
  CLOSE_ROBOT |-> Long!HOME_POSE, FINISH |-> Long!HOME_POSE]

TrialStands == [
  INIT |-> Elsewhere, HOME_MOVE |-> Elsewhere, PICK_MOVE |-> Io!HOME_POSE,
  PICK_IO_ON |-> Io!PICK_POSE, POST_PICK_HOME_MOVE |-> Io!PICK_POSE,
  WAIT_AT_HOME |-> Io!HOME_POSE, PLACE_MOVE |-> Io!HOME_POSE, PLACE_IO_OFF |-> Io!PLACE_POSE,
  FINAL_HOME_MOVE |-> Io!PLACE_POSE, CLOSE_ROBOT |-> Io!HOME_POSE, FINISH |-> Io!HOME_POSE]

Stand(p, s, c) ==
  CASE p = "first" -> FirstStands[s]
    [] p = "long"  -> LongStands[s]
    [] p = "io"    -> TrialStands[s]
    [] p = "hand"  -> IF c = 0 THEN Elsewhere ELSE Hand!CALI_POSE[c - 1]

\* The states in which the vacuum has been told to hold.
Loaded == Carrying \cup {"PLACE_OBJECT", "WAIT_AT_HOME", "PLACE_IO_OFF"}

\* The states that begin after an output that was not awaited.
Switched(p) ==
  IF p = "io" THEN {"POST_PICK_HOME_MOVE", "FINAL_HOME_MOVE"} ELSE {"LOWER_UP_MOVE", "UPPER_UP_MOVE"}

\* Before the first motion the table holds the stop of the start-up.
Untold(p, s, c) == s \in {"INIT", "HOME_MOVE"} \/ (p = "hand" /\ c = 0)

\* What a handler finds: where the arm stands, what the vacuum was told and whether
\* by an output nobody awaited, and what the table may hold.
At(p, s, c) == [
  pose   |-> Stand(p, s, c),
  grip   |-> IF s \in Loaded THEN 1 ELSE 0,
  switch |-> s \in Switched(p),
  back   |-> IF Untold(p, s, c) THEN {Stop} ELSE MotionsTo(Stand(p, s, c))]

After(s, c) == IF s = "MOVE_TO_CALI_POSE" THEN c + 1 ELSE c

\* A way in a cabinet.
Straight(p, q) ==
  p \in Above \/ (p \in Goals /\ p.kind = "pose" /\ p.base = q.base /\ Cardinality(Differ(p, q)) <= 1)

Smooth(n, p, q) == p \in Confined \/ q \in Confined => n = "LINE" /\ Straight(p, q)

\* What a handler does between what it finds, a, and what it leaves, b.
Same(a, b) == ~a.switch /\ ~b.switch /\ b.pose = a.pose /\ b.grip = a.grip /\ b.back = a.back
Rests(send, a, b) == send = <<>> /\ Same(a, b)
Drives(send, a, b) ==
  /\ \E n \in {"PTP", "LINE"} :
       send = MoveTo(n, b.pose) /\ Smooth(n, a.pose, b.pose)
  /\ b.pose \in Goals /\ b.grip = a.grip /\ ~b.switch /\ b.back = MotionsTo(b.pose)
Switches(send, a, b) ==
  /\ send = Set(b.grip)
  /\ ~a.switch /\ b.switch /\ b.pose = a.pose
  /\ b.grip = 0 => a.pose \in PlacePoses
  /\ a.back = MotionsTo(a.pose) /\ b.back = a.back
Looks(send, a, b) == send = <<Awaited(CheckPose)>> /\ Same(a, b)
DrivesAndLooks(send, a, b) ==
  /\ send = <<Awaited(Motion("PTP", b.pose, TRUE)), Awaited(CheckPose)>>
  /\ Smooth("PTP", a.pose, b.pose)
  /\ b.pose \in Goals /\ b.grip = a.grip /\ ~a.switch /\ ~b.switch /\ b.back = MotionsTo(b.pose)
Closes(send, a) == send = <<Awaited(Close)>> /\ ~a.switch

Does(send, a, b) ==
  \/ Rests(send, a, b) \/ Drives(send, a, b) \/ Switches(send, a, b) \/ Looks(send, a, b)
  \/ DrivesAndLooks(send, a, b)

\* The states a program passes.
Reach(p, s, c) ==
  \/ p = "first" /\ c = 0 /\ s \in DOMAIN Cabinet \cup {"FINISH"}
  \/ p = "long" /\ c = 0 /\ s \in DOMAIN LongCabinet \cup {"FINISH"}
  \/ p = "io" /\ c = 0 /\ s \in DOMAIN IoTrial \cup {"FINISH"}
  \/ /\ p = "hand" /\ c \in 0 .. Hand!NumPoses
     /\ \/ s = "INIT" /\ c = 0
        \/ s = "BROADCASTE_POSE"
        \/ s = "MOVE_TO_CALI_POSE" /\ c < Hand!NumPoses
        \/ s \in {"CLOSE_ROBOT", "FINISH"} /\ c = Hand!NumPoses
-----------------------------------------------------------------------------
(* The poses *)

\* Six numbers are the coordinates of a goal.
LEMMA SixInts ==
  ASSUME NEW a \in Int, NEW b \in Int, NEW c \in Int, NEW d \in Int, NEW e \in Int, NEW f \in Int
  PROVE  <<a, b, c, d, e, f>> \in Seq(Int)
  OBVIOUS

\* The poses of first_version.py are goals.
LEMMA FirstGoals ==
  {First!HOME_POSE, First!LOWER_FRONT_POSE, First!LOWER_INSIDE_POSE, First!LOWER_DOWN_POSE,
   First!UPPER_FRONT_POSE, First!UPPER_INSIDE_POSE, First!UPPER_DOWN_POSE} \subseteq Goals
  BY SixInts DEF Goals, First!Pose, First!HOME_POSE, First!LOWER_FRONT_POSE, First!LOWER_INSIDE_POSE, First!LOWER_DOWN_POSE,
     First!UPPER_FRONT_POSE, First!UPPER_INSIDE_POSE, First!UPPER_DOWN_POSE

\* The poses and joint angles of long_version.py are goals.
LEMMA LongGoals ==
  {Long!HOME_POSE, Long!LOWER_FRONT_POSE, Long!LOWER_ABOVE_POSE, Long!LOWER_DOWN_POSE,
   Long!UPPER_FRONT_POSE, Long!UPPER_ABOVE_POSE, Long!UPPER_DOWN_POSE, Long!JOINTS_READY,
   Long!JOINTS_ABOVE_PICK, Long!JOINTS_ABOVE_PLACE} \subseteq Goals
  BY SixInts DEF Goals, Long!Pose, Long!Joints, Long!HOME_POSE, Long!LOWER_FRONT_POSE, Long!LOWER_ABOVE_POSE, Long!LOWER_DOWN_POSE,
     Long!UPPER_FRONT_POSE, Long!UPPER_ABOVE_POSE, Long!UPPER_DOWN_POSE, Long!JOINTS_READY,
     Long!JOINTS_ABOVE_PICK, Long!JOINTS_ABOVE_PLACE

\* The poses of io_test.py are goals.
LEMMA TrialGoals ==
  {Io!HOME_POSE, Io!PICK_POSE, Io!PLACE_POSE} \subseteq Goals
  BY SixInts DEF Goals, Io!Pose, Io!HOME_POSE, Io!PICK_POSE, Io!PLACE_POSE

\* The calibration poses are goals.
LEMMA CalibrationGoals ==
  ASSUME NEW c \in 0 .. Hand!NumPoses - 1
  PROVE  Hand!CALI_POSE[c] \in Goals /\ Hand!CALI_POSE[c].at = <<c>>
<1>1. <<c>> \in Seq(Int)
  BY DEF Hand!NumPoses
<1> QED
  BY <1>1 DEF Hand!CALI_POSE, Goals

\* Six are confined; what tells them from the others.
LEMMA ConfinedWhere ==
  \A q \in Confined :
    /\ q \in Goals /\ q.kind = "pose"
    /\ \/ q.base = 11 /\ q.at[1] > 700000
       \/ q.base = 6 /\ q.at[3] \in {7275, 217784}
  BY FirstGoals, LongGoals DEF Confined, First!Pose, Long!Pose, First!LOWER_INSIDE_POSE,
     First!LOWER_DOWN_POSE, First!UPPER_INSIDE_POSE, First!UPPER_DOWN_POSE, Long!LOWER_DOWN_POSE,
     Long!UPPER_DOWN_POSE

\* All the other poses are not.
LEMMA Unconfined ==
  /\ Elsewhere \notin Confined
  /\ First!HOME_POSE \notin Confined /\ First!LOWER_FRONT_POSE \notin Confined
  /\ First!UPPER_FRONT_POSE \notin Confined
  /\ \A q \in {Long!HOME_POSE, Long!LOWER_FRONT_POSE, Long!LOWER_ABOVE_POSE,
               Long!UPPER_FRONT_POSE, Long!UPPER_ABOVE_POSE, Long!JOINTS_READY,
               Long!JOINTS_ABOVE_PICK, Long!JOINTS_ABOVE_PLACE} : q \notin Confined
  /\ \A q \in {Io!HOME_POSE, Io!PICK_POSE, Io!PLACE_POSE} : q \notin Confined
  /\ \A c \in 0 .. Hand!NumPoses - 1 : Hand!CALI_POSE[c] \notin Confined
<1>1. Elsewhere \notin Confined
  BY ConfinedWhere, NobodysPose
<1>2. /\ First!HOME_POSE \notin Confined /\ First!LOWER_FRONT_POSE \notin Confined
      /\ First!UPPER_FRONT_POSE \notin Confined
  BY ConfinedWhere DEF First!Pose, First!HOME_POSE, First!LOWER_FRONT_POSE, First!UPPER_FRONT_POSE
<1>3. \A q \in {Long!HOME_POSE, Long!LOWER_FRONT_POSE, Long!LOWER_ABOVE_POSE,
               Long!UPPER_FRONT_POSE, Long!UPPER_ABOVE_POSE} : q \notin Confined
  BY ConfinedWhere DEF Long!Pose, Long!HOME_POSE, Long!LOWER_FRONT_POSE, Long!LOWER_ABOVE_POSE,
     Long!UPPER_FRONT_POSE, Long!UPPER_ABOVE_POSE
<1>4. \A q \in {Long!JOINTS_READY, Long!JOINTS_ABOVE_PICK, Long!JOINTS_ABOVE_PLACE} : q \notin Confined
  BY ConfinedWhere DEF Long!Joints, Long!JOINTS_READY, Long!JOINTS_ABOVE_PICK, Long!JOINTS_ABOVE_PLACE
<1>5. \A q \in {Io!HOME_POSE, Io!PICK_POSE, Io!PLACE_POSE} : q \notin Confined
  BY ConfinedWhere DEF Io!Pose, Io!HOME_POSE, Io!PICK_POSE, Io!PLACE_POSE
<1>6. \A c \in 0 .. Hand!NumPoses - 1 : Hand!CALI_POSE[c] \notin Confined
  <2>1. \A c \in 0 .. Hand!NumPoses - 1 : Hand!CALI_POSE[c].base = 0
    BY DEF Hand!CALI_POSE
  <2> QED
    BY <2>1, ConfinedWhere
<1> QED
  BY <1>1, <1>2, <1>3, <1>4, <1>5, <1>6

\* Poses that differ in one coordinate.
LEMMA OneAxis ==
  ASSUME NEW p, NEW q, NEW k, Differ(p, q) \subseteq {k}
  PROVE  Cardinality(Differ(p, q)) <= 1
<1>1. IsFiniteSet({k}) /\ Cardinality({k}) = 1
  BY FS_Singleton
<1>2. Cardinality(Differ(p, q)) <= Cardinality({k})
  BY <1>1, FS_Subset
<1> QED
  BY <1>1, <1>2

\* The lines of first_version.py.
LEMMA FirstLines ==
  /\ Straight(First!LOWER_FRONT_POSE, First!LOWER_INSIDE_POSE)
  /\ Straight(First!LOWER_INSIDE_POSE, First!LOWER_DOWN_POSE)
  /\ Straight(First!LOWER_DOWN_POSE, First!LOWER_INSIDE_POSE)
  /\ Straight(First!LOWER_INSIDE_POSE, First!LOWER_FRONT_POSE)
  /\ Straight(First!UPPER_FRONT_POSE, First!UPPER_INSIDE_POSE)
  /\ Straight(First!UPPER_INSIDE_POSE, First!UPPER_DOWN_POSE)
  /\ Straight(First!UPPER_DOWN_POSE, First!UPPER_INSIDE_POSE)
  /\ Straight(First!UPPER_INSIDE_POSE, First!UPPER_FRONT_POSE)
<1>1. \A p \in {First!HOME_POSE, First!LOWER_FRONT_POSE, First!LOWER_INSIDE_POSE,
            First!LOWER_DOWN_POSE, First!UPPER_FRONT_POSE, First!UPPER_INSIDE_POSE,
            First!UPPER_DOWN_POSE} :
        p.kind = "pose" /\ p.base = 11
  BY DEF First!Pose, First!HOME_POSE, First!LOWER_FRONT_POSE, First!LOWER_INSIDE_POSE, First!LOWER_DOWN_POSE,
     First!UPPER_FRONT_POSE, First!UPPER_INSIDE_POSE, First!UPPER_DOWN_POSE
<1> DEFINE Line3(p, q, k) == Differ(p, q) \subseteq {k} /\ Differ(q, p) \subseteq {k}
<1>2. Line3(First!LOWER_FRONT_POSE, First!LOWER_INSIDE_POSE, 1)
  BY DEF Differ, First!Pose, First!LOWER_FRONT_POSE, First!LOWER_INSIDE_POSE
<1>3. Line3(First!LOWER_INSIDE_POSE, First!LOWER_DOWN_POSE, 3)
  BY DEF Differ, First!Pose, First!LOWER_INSIDE_POSE, First!LOWER_DOWN_POSE
<1>4. Line3(First!UPPER_FRONT_POSE, First!UPPER_INSIDE_POSE, 1)
  BY DEF Differ, First!Pose, First!UPPER_FRONT_POSE, First!UPPER_INSIDE_POSE
<1>5. Line3(First!UPPER_INSIDE_POSE, First!UPPER_DOWN_POSE, 3)
  BY DEF Differ, First!Pose, First!UPPER_INSIDE_POSE, First!UPPER_DOWN_POSE
<1> QED
  BY <1>1, <1>2, <1>3, <1>4, <1>5, FirstGoals, OneAxis DEF Straight

\* The lines of long_version.py.
LEMMA LongLines ==
  /\ Straight(Long!JOINTS_ABOVE_PICK, Long!LOWER_DOWN_POSE)
  /\ Straight(Long!LOWER_DOWN_POSE, Long!LOWER_ABOVE_POSE)
  /\ Straight(Long!JOINTS_ABOVE_PLACE, Long!UPPER_DOWN_POSE)
  /\ Straight(Long!UPPER_DOWN_POSE, Long!UPPER_ABOVE_POSE)
<1>1. /\ Long!LOWER_DOWN_POSE.kind = "pose" /\ Long!UPPER_DOWN_POSE.kind = "pose"
      /\ Long!LOWER_DOWN_POSE.base = Long!LOWER_ABOVE_POSE.base
      /\ Long!UPPER_DOWN_POSE.base = Long!UPPER_ABOVE_POSE.base
  BY DEF Long!Pose, Long!LOWER_DOWN_POSE, Long!UPPER_DOWN_POSE, Long!LOWER_ABOVE_POSE,
         Long!UPPER_ABOVE_POSE, Long!LOWER_FRONT_POSE
<1>2. Differ(Long!LOWER_DOWN_POSE, Long!LOWER_ABOVE_POSE) \subseteq {3}
  BY DEF Differ, Long!Pose, Long!LOWER_DOWN_POSE, Long!LOWER_ABOVE_POSE, Long!LOWER_FRONT_POSE
<1>3. Differ(Long!UPPER_DOWN_POSE, Long!UPPER_ABOVE_POSE) \subseteq {3}
  BY DEF Differ, Long!Pose, Long!UPPER_DOWN_POSE, Long!UPPER_ABOVE_POSE
<1> QED
  BY <1>1, <1>2, <1>3, LongGoals, OneAxis DEF Straight, Above
-----------------------------------------------------------------------------
(* From handler to handler *)

\* A motion of n to g leads program p from state s to state z.
Leads(p, s, n, g, z) ==
  /\ n \in {"PTP", "LINE"} /\ g \in Goals
  /\ Stand(p, z, 0) = g /\ Smooth(n, Stand(p, s, 0), g)
  /\ s \in Loaded <=> z \in Loaded
  /\ z \notin Switched(p) /\ z \notin {"INIT", "HOME_MOVE"}

\* The motions of first_version.py.
LEMMA FirstMotions ==
  ASSUME NEW s \in {"HOME_MOVE", "LOWER_FRONT_MOVE", "LOWER_INSIDE_MOVE", "LOWER_DOWN_MOVE",
                  "LOWER_UP_MOVE", "LOWER_OUT_MOVE", "UPPER_FRONT_MOVE", "UPPER_INSIDE_MOVE",
                  "UPPER_DOWN_MOVE", "UPPER_UP_MOVE", "UPPER_OUT_MOVE", "FINAL_HOME_MOVE"}
  PROVE  \E n, g, z : Cabinet[s] = Step(MoveTo(n, g), z) /\ Leads("first", s, n, g, z)
<1> USE FirstGoals, Unconfined, FirstLines DEF Leads, Smooth, Stand, FirstStands, Loaded, Carrying, Switched
<1>1. Leads("first", "HOME_MOVE", "PTP", First!HOME_POSE, "LOWER_FRONT_MOVE")
  OBVIOUS
<1>2. Leads("first", "LOWER_FRONT_MOVE", "PTP", First!LOWER_FRONT_POSE, "LOWER_INSIDE_MOVE")
  OBVIOUS
<1>3. Leads("first", "LOWER_INSIDE_MOVE", "LINE", First!LOWER_INSIDE_POSE, "LOWER_DOWN_MOVE")
  OBVIOUS
<1>4. Leads("first", "LOWER_DOWN_MOVE", "LINE", First!LOWER_DOWN_POSE, "PICK_OBJECT")
  OBVIOUS
<1>5. Leads("first", "LOWER_UP_MOVE", "LINE", First!LOWER_INSIDE_POSE, "LOWER_OUT_MOVE")
  OBVIOUS
<1>6. Leads("first", "LOWER_OUT_MOVE", "LINE", First!LOWER_FRONT_POSE, "UPPER_FRONT_MOVE")
  OBVIOUS
<1>7. Leads("first", "UPPER_FRONT_MOVE", "PTP", First!UPPER_FRONT_POSE, "UPPER_INSIDE_MOVE")
  OBVIOUS
<1>8. Leads("first", "UPPER_INSIDE_MOVE", "LINE", First!UPPER_INSIDE_POSE, "UPPER_DOWN_MOVE")
  OBVIOUS
<1>9. Leads("first", "UPPER_DOWN_MOVE", "LINE", First!UPPER_DOWN_POSE, "PLACE_OBJECT")
  OBVIOUS
<1>10. Leads("first", "UPPER_UP_MOVE", "LINE", First!UPPER_INSIDE_POSE, "UPPER_OUT_MOVE")
  OBVIOUS
<1>11. Leads("first", "UPPER_OUT_MOVE", "LINE", First!UPPER_FRONT_POSE, "FINAL_HOME_MOVE")
  OBVIOUS
<1>12. Leads("first", "FINAL_HOME_MOVE", "PTP", First!HOME_POSE, "CLOSE_ROBOT")
  OBVIOUS
<1> HIDE FirstGoals, Unconfined, FirstLines DEF Leads, Smooth, Stand, FirstStands, Loaded, Carrying, Switched
<1> QED
  BY <1>1, <1>2, <1>3, <1>4, <1>5, <1>6, <1>7, <1>8, <1>9, <1>10, <1>11, <1>12, CabinetTable

\* The motions of long_version.py.
LEMMA LongMotions ==
  ASSUME NEW s \in {"HOME_MOVE", "ROTATE_READY", "LOWER_FRONT_MOVE", "ROTATE_ABOVE_PICK",
                  "LOWER_DOWN_MOVE", "LOWER_UP_MOVE", "ROTATE_READY_BACK", "UPPER_FRONT_MOVE",
                  "ROTATE_ABOVE_PLACE", "UPPER_DOWN_MOVE", "UPPER_UP_MOVE", "FINAL_HOME_MOVE"}
  PROVE  \E n, g, z : LongCabinet[s] = Step(MoveTo(n, g), z) /\ Leads("long", s, n, g, z)
<1> USE LongGoals, Unconfined, LongLines DEF Leads, Smooth, Stand, LongStands, Loaded, Carrying, Switched
<1>1. Leads("long", "HOME_MOVE", "PTP", Long!HOME_POSE, "ROTATE_READY")
  OBVIOUS
<1>2. Leads("long", "ROTATE_READY", "PTP", Long!JOINTS_READY, "LOWER_FRONT_MOVE")
  OBVIOUS
<1>3. Leads("long", "LOWER_FRONT_MOVE", "PTP", Long!LOWER_FRONT_POSE, "ROTATE_ABOVE_PICK")
  OBVIOUS
<1>4. Leads("long", "ROTATE_ABOVE_PICK", "PTP", Long!JOINTS_ABOVE_PICK, "LOWER_DOWN_MOVE")
  OBVIOUS
<1>5. Leads("long", "LOWER_DOWN_MOVE", "LINE", Long!LOWER_DOWN_POSE, "PICK_OBJECT")
  OBVIOUS
<1>6. Leads("long", "LOWER_UP_MOVE", "LINE", Long!LOWER_ABOVE_POSE, "ROTATE_READY_BACK")
  OBVIOUS
<1>7. Leads("long", "ROTATE_READY_BACK", "PTP", Long!JOINTS_READY, "UPPER_FRONT_MOVE")
  OBVIOUS
<1>8. Leads("long", "UPPER_FRONT_MOVE", "PTP", Long!UPPER_FRONT_POSE, "ROTATE_ABOVE_PLACE")
  OBVIOUS
<1>9. Leads("long", "ROTATE_ABOVE_PLACE", "PTP", Long!JOINTS_ABOVE_PLACE, "UPPER_DOWN_MOVE")
  OBVIOUS
<1>10. Leads("long", "UPPER_DOWN_MOVE", "LINE", Long!UPPER_DOWN_POSE, "PLACE_OBJECT")
  OBVIOUS
<1>11. Leads("long", "UPPER_UP_MOVE", "LINE", Long!UPPER_ABOVE_POSE, "FINAL_HOME_MOVE")
  OBVIOUS
<1>12. Leads("long", "FINAL_HOME_MOVE", "PTP", Long!HOME_POSE, "CLOSE_ROBOT")
  OBVIOUS
<1> HIDE LongGoals, Unconfined, LongLines DEF Leads, Smooth, Stand, LongStands, Loaded, Carrying, Switched
<1> QED
  BY <1>1, <1>2, <1>3, <1>4, <1>5, <1>6, <1>7, <1>8, <1>9, <1>10, <1>11, <1>12, LongTable

\* The motions of io_test.py.
LEMMA TrialMotions ==
  ASSUME NEW s \in {"HOME_MOVE", "PICK_MOVE", "POST_PICK_HOME_MOVE", "PLACE_MOVE",
                  "FINAL_HOME_MOVE"}
  PROVE  \E n, g, z : IoTrial[s] = Step(MoveTo(n, g), z) /\ Leads("io", s, n, g, z)
<1> USE TrialGoals, Unconfined DEF Leads, Smooth, Stand, TrialStands, Loaded, Carrying, Switched
<1>1. Leads("io", "HOME_MOVE", "PTP", Io!HOME_POSE, "PICK_MOVE")
  OBVIOUS
<1>2. Leads("io", "PICK_MOVE", "PTP", Io!PICK_POSE, "PICK_IO_ON")
  OBVIOUS
<1>3. Leads("io", "POST_PICK_HOME_MOVE", "PTP", Io!HOME_POSE, "WAIT_AT_HOME")
  OBVIOUS
<1>4. Leads("io", "PLACE_MOVE", "PTP", Io!PLACE_POSE, "PLACE_IO_OFF")
  OBVIOUS
<1>5. Leads("io", "FINAL_HOME_MOVE", "PTP", Io!HOME_POSE, "CLOSE_ROBOT")
  OBVIOUS
<1> HIDE TrialGoals, Unconfined DEF Leads, Smooth, Stand, TrialStands, Loaded, Carrying, Switched
<1> QED
  BY <1>1, <1>2, <1>3, <1>4, <1>5, TrialTable
\* The parts of what a handler finds.
LEMMA AtParts ==
  ASSUME NEW p, NEW s, NEW c
  PROVE  /\ At(p, s, c).pose = Stand(p, s, c)
         /\ At(p, s, c).grip = (IF s \in Loaded THEN 1 ELSE 0)
         /\ At(p, s, c).switch \in BOOLEAN /\ (At(p, s, c).switch <=> s \in Switched(p))
         /\ At(p, s, c).back = (IF Untold(p, s, c) THEN {Stop} ELSE MotionsTo(Stand(p, s, c)))
<1>1. /\ At(p, s, c).pose = Stand(p, s, c)
      /\ At(p, s, c).grip = (IF s \in Loaded THEN 1 ELSE 0)
      /\ At(p, s, c).back = (IF Untold(p, s, c) THEN {Stop} ELSE MotionsTo(Stand(p, s, c)))
  BY Zenon DEF At
<1>2. At(p, s, c).switch = (s \in Switched(p))
  BY Zenon DEF At
<1>3. At(p, s, c).switch \in BOOLEAN /\ (At(p, s, c).switch <=> s \in Switched(p))
  <2>1. CASE s \in Switched(p)
    <3>1. At(p, s, c).switch = TRUE
      BY <1>2, <2>1, Zenon
    <3> QED
      BY <2>1, <3>1, Zenon
  <2>2. CASE s \notin Switched(p)
    <3>1. At(p, s, c).switch = FALSE
      <4>1. (s \in Switched(p)) = FALSE
        BY <2>2
      <4> QED
        BY <1>2, <4>1, Zenon
    <3> QED
      BY <2>2, <3>1, Zenon
  <2> QED
    BY <2>1, <2>2, Zenon
<1> QED
  BY <1>1, <1>3, Zenon

\* A motion drives the arm from where one handler finds it to where the next one does.
LEMMA LeadsDrives ==
  ASSUME NEW p \in {"first", "long", "io"}, NEW s, NEW n, NEW g, NEW z, Leads(p, s, n, g, z)
  PROVE  Drives(MoveTo(n, g), At(p, s, 0), At(p, z, 0))
<1>1. /\ At(p, s, 0).pose = Stand(p, s, 0) /\ At(p, z, 0).pose = g
      /\ At(p, z, 0).grip = At(p, s, 0).grip /\ At(p, z, 0).switch = FALSE
      /\ At(p, z, 0).back = MotionsTo(g)
  BY AtParts DEF Leads, Untold
<1> QED
  BY <1>1 DEF Drives, Leads

\* The outputs of the programs.
LEMMA OutputsSwitch ==
  /\ \A p \in {"first", "long"} :
       /\ Switches(Set(1), At(p, "PICK_OBJECT", 0), At(p, "LOWER_UP_MOVE", 0))
       /\ Switches(Set(0), At(p, "PLACE_OBJECT", 0), At(p, "UPPER_UP_MOVE", 0))
  /\ Switches(Set(1), At("io", "PICK_IO_ON", 0), At("io", "POST_PICK_HOME_MOVE", 0))
  /\ Switches(Set(0), At("io", "PLACE_IO_OFF", 0), At("io", "FINAL_HOME_MOVE", 0))
<1> USE AtParts DEF Switches, Stand, FirstStands, LongStands, TrialStands, Loaded, Carrying, Switched,
        Untold, PlacePoses
<1>1. Switches(Set(1), At("first", "PICK_OBJECT", 0), At("first", "LOWER_UP_MOVE", 0))
  OBVIOUS
<1>2. Switches(Set(0), At("first", "PLACE_OBJECT", 0), At("first", "UPPER_UP_MOVE", 0))
  OBVIOUS
<1>3. Switches(Set(1), At("long", "PICK_OBJECT", 0), At("long", "LOWER_UP_MOVE", 0))
  OBVIOUS
<1>4. Switches(Set(0), At("long", "PLACE_OBJECT", 0), At("long", "UPPER_UP_MOVE", 0))
  OBVIOUS
<1>5. Switches(Set(1), At("io", "PICK_IO_ON", 0), At("io", "POST_PICK_HOME_MOVE", 0))
  OBVIOUS
<1>6. Switches(Set(0), At("io", "PLACE_IO_OFF", 0), At("io", "FINAL_HOME_MOVE", 0))
  OBVIOUS
<1> HIDE AtParts DEF Switches, Stand
<1> QED
  BY <1>1, <1>2, <1>3, <1>4, <1>5, <1>6

\* Two handlers send nothing, and leave what they find.
LEMMA NothingSent ==
  /\ \A p \in {"first", "long", "io"} : Rests(<<>>, At(p, "INIT", 0), At(p, "HOME_MOVE", 0))
  /\ Rests(<<>>, At("io", "WAIT_AT_HOME", 0), At("io", "PLACE_MOVE", 0))
<1> USE AtParts DEF Rests, Same, Stand, FirstStands, LongStands, TrialStands, Loaded, Carrying, Switched, Untold
<1>1. Rests(<<>>, At("first", "INIT", 0), At("first", "HOME_MOVE", 0))
  OBVIOUS
<1>2. Rests(<<>>, At("long", "INIT", 0), At("long", "HOME_MOVE", 0))
  OBVIOUS
<1>3. Rests(<<>>, At("io", "INIT", 0), At("io", "HOME_MOVE", 0))
  OBVIOUS
<1>4. Rests(<<>>, At("io", "WAIT_AT_HOME", 0), At("io", "PLACE_MOVE", 0))
  OBVIOUS
<1> HIDE AtParts DEF Rests, Stand
<1> QED
  BY <1>1, <1>2, <1>3, <1>4

\* What the handler h of state s does, and the state it returns.
Routed(p, s, c, h) ==
  /\ Reach(p, h.next, After(s, c))
  /\ h.next = "FINISH" <=> s = "CLOSE_ROBOT"
  /\ IF s = "CLOSE_ROBOT" THEN Closes(h.send, At(p, s, c))
                          ELSE Does(h.send, At(p, s, c), At(p, h.next, After(s, c)))

\* The handlers of first_version.py lead from each other.
LEMMA FirstRoute ==
  ASSUME NEW s \in DOMAIN Cabinet
  PROVE  Routed("first", s, 0, Cabinet[s])
<1>1. After(s, 0) = 0
  BY CabinetTable DEF After
<1>2. /\ Cabinet[s].next \in DOMAIN Cabinet \cup {"FINISH"}
      /\ Cabinet[s].next = "FINISH" <=> s = "CLOSE_ROBOT"
  BY CabinetTable DEF Step
<1>3. Reach("first", Cabinet[s].next, 0)
  BY <1>2 DEF Reach
<1>4. CASE s = "CLOSE_ROBOT"
  <2>1. Cabinet[s].send = <<Awaited(Close)>>
    BY <1>4, CabinetTable DEF Step
  <2>2. ~At("first", s, 0).switch
    BY <1>4, AtParts DEF Switched
  <2> QED
    BY <1>1, <1>2, <1>3, <1>4, <2>1, <2>2 DEF Routed, Closes
<1>5. CASE s = "INIT"
  <2>1. Cabinet[s].send = <<>> /\ Cabinet[s].next = "HOME_MOVE"
    BY <1>5, CabinetTable DEF Step
  <2> QED
    BY <1>1, <1>2, <1>3, <1>5, <2>1, NothingSent DEF Routed, Does
<1>6. CASE s = "PICK_OBJECT"
  <2>1. Cabinet[s].send = Set(1) /\ Cabinet[s].next = "LOWER_UP_MOVE"
    BY <1>6, CabinetTable DEF Step
  <2> QED
    BY <1>1, <1>2, <1>3, <1>6, <2>1, OutputsSwitch DEF Routed, Does
<1>7. CASE s = "PLACE_OBJECT"
  <2>1. Cabinet[s].send = Set(0) /\ Cabinet[s].next = "UPPER_UP_MOVE"
    BY <1>7, CabinetTable DEF Step
  <2> QED
    BY <1>1, <1>2, <1>3, <1>7, <2>1, OutputsSwitch DEF Routed, Does
<1>8. CASE s \notin {"CLOSE_ROBOT", "INIT", "PICK_OBJECT", "PLACE_OBJECT"}
  <2>1. PICK n, g, z : Cabinet[s] = Step(MoveTo(n, g), z) /\ Leads("first", s, n, g, z)
    BY <1>8, CabinetTable, FirstMotions
  <2>2. Cabinet[s].send = MoveTo(n, g) /\ Cabinet[s].next = z
    BY <2>1 DEF Step
  <2>3. Drives(Cabinet[s].send, At("first", s, 0), At("first", z, 0))
    BY <2>1, <2>2, LeadsDrives
  <2> QED
    BY <1>1, <1>2, <1>3, <1>8, <2>2, <2>3 DEF Routed, Does
<1> QED
  BY <1>4, <1>5, <1>6, <1>7, <1>8

\* The handlers of long_version.py lead from each other.
LEMMA LongRoute ==
  ASSUME NEW s \in DOMAIN LongCabinet
  PROVE  Routed("long", s, 0, LongCabinet[s])
<1>1. After(s, 0) = 0
  BY LongTable DEF After
<1>2. /\ LongCabinet[s].next \in DOMAIN LongCabinet \cup {"FINISH"}
      /\ LongCabinet[s].next = "FINISH" <=> s = "CLOSE_ROBOT"
  BY LongTable DEF Step
<1>3. Reach("long", LongCabinet[s].next, 0)
  BY <1>2 DEF Reach
<1>4. CASE s = "CLOSE_ROBOT"
  <2>1. LongCabinet[s].send = <<Awaited(Close)>>
    BY <1>4, LongTable DEF Step
  <2>2. ~At("long", s, 0).switch
    BY <1>4, AtParts DEF Switched
  <2> QED
    BY <1>1, <1>2, <1>3, <1>4, <2>1, <2>2 DEF Routed, Closes
<1>5. CASE s = "INIT"
  <2>1. LongCabinet[s].send = <<>> /\ LongCabinet[s].next = "HOME_MOVE"
    BY <1>5, LongTable DEF Step
  <2> QED
    BY <1>1, <1>2, <1>3, <1>5, <2>1, NothingSent DEF Routed, Does
<1>6. CASE s = "PICK_OBJECT"
  <2>1. LongCabinet[s].send = Set(1) /\ LongCabinet[s].next = "LOWER_UP_MOVE"
    BY <1>6, LongTable DEF Step
  <2> QED
    BY <1>1, <1>2, <1>3, <1>6, <2>1, OutputsSwitch DEF Routed, Does
<1>7. CASE s = "PLACE_OBJECT"
  <2>1. LongCabinet[s].send = Set(0) /\ LongCabinet[s].next = "UPPER_UP_MOVE"
    BY <1>7, LongTable DEF Step
  <2> QED
    BY <1>1, <1>2, <1>3, <1>7, <2>1, OutputsSwitch DEF Routed, Does
<1>8. CASE s \notin {"CLOSE_ROBOT", "INIT", "PICK_OBJECT", "PLACE_OBJECT"}
  <2>1. PICK n, g, z : LongCabinet[s] = Step(MoveTo(n, g), z) /\ Leads("long", s, n, g, z)
    BY <1>8, LongTable, LongMotions
  <2>2. LongCabinet[s].send = MoveTo(n, g) /\ LongCabinet[s].next = z
    BY <2>1 DEF Step
  <2>3. Drives(LongCabinet[s].send, At("long", s, 0), At("long", z, 0))
    BY <2>1, <2>2, LeadsDrives
  <2> QED
    BY <1>1, <1>2, <1>3, <1>8, <2>2, <2>3 DEF Routed, Does
<1> QED
  BY <1>4, <1>5, <1>6, <1>7, <1>8

\* The handlers of io_test.py lead from each other.
LEMMA TrialRoute ==
  ASSUME NEW s \in DOMAIN IoTrial
  PROVE  Routed("io", s, 0, IoTrial[s])
<1>1. After(s, 0) = 0
  BY TrialTable DEF After
<1>2. /\ IoTrial[s].next \in DOMAIN IoTrial \cup {"FINISH"}
      /\ IoTrial[s].next = "FINISH" <=> s = "CLOSE_ROBOT"
  BY TrialTable DEF Step
<1>3. Reach("io", IoTrial[s].next, 0)
  BY <1>2 DEF Reach
<1>4. CASE s = "CLOSE_ROBOT"
  <2>1. IoTrial[s].send = <<Awaited(Close)>>
    BY <1>4, TrialTable DEF Step
  <2>2. ~At("io", s, 0).switch
    BY <1>4, AtParts DEF Switched
  <2> QED
    BY <1>1, <1>2, <1>3, <1>4, <2>1, <2>2 DEF Routed, Closes
<1>5. CASE s = "INIT"
  <2>1. IoTrial[s].send = <<>> /\ IoTrial[s].next = "HOME_MOVE"
    BY <1>5, TrialTable DEF Step
  <2> QED
    BY <1>1, <1>2, <1>3, <1>5, <2>1, NothingSent DEF Routed, Does
<1>6. CASE s = "PICK_IO_ON"
  <2>1. IoTrial[s].send = Set(1) /\ IoTrial[s].next = "POST_PICK_HOME_MOVE"
    BY <1>6, TrialTable DEF Step
  <2> QED
    BY <1>1, <1>2, <1>3, <1>6, <2>1, OutputsSwitch DEF Routed, Does
<1>7. CASE s = "PLACE_IO_OFF"
  <2>1. IoTrial[s].send = Set(0) /\ IoTrial[s].next = "FINAL_HOME_MOVE"
    BY <1>7, TrialTable DEF Step
  <2> QED
    BY <1>1, <1>2, <1>3, <1>7, <2>1, OutputsSwitch DEF Routed, Does
<1>8. CASE s \notin {"CLOSE_ROBOT", "INIT", "WAIT_AT_HOME", "PICK_IO_ON", "PLACE_IO_OFF"}
  <2>1. PICK n, g, z : IoTrial[s] = Step(MoveTo(n, g), z) /\ Leads("io", s, n, g, z)
    BY <1>8, TrialTable, TrialMotions
  <2>2. IoTrial[s].send = MoveTo(n, g) /\ IoTrial[s].next = z
    BY <2>1 DEF Step
  <2>3. Drives(IoTrial[s].send, At("io", s, 0), At("io", z, 0))
    BY <2>1, <2>2, LeadsDrives
  <2> QED
    BY <1>1, <1>2, <1>3, <1>8, <2>2, <2>3 DEF Routed, Does
<1>9. CASE s = "WAIT_AT_HOME"
  <2>1. IoTrial[s].send = <<>> /\ IoTrial[s].next = "PLACE_MOVE"
    BY <1>9, TrialTable DEF Step
  <2> QED
    BY <1>1, <1>2, <1>3, <1>9, <2>1, NothingSent DEF Routed, Does
<1> QED
  BY <1>4, <1>5, <1>6, <1>7, <1>8, <1>9

\* The handlers of hand_in_eye_calibration.py lead from each other, after c poses.
LEMMA CalibrationRoute ==
  ASSUME NEW c, NEW s \in DOMAIN Calibration(c), Reach("hand", s, c)
  PROVE  Routed("hand", s, c, Calibration(c)[s])
<1>1. c \in 0 .. Hand!NumPoses
  BY DEF Reach
<1>2. CASE s = "CLOSE_ROBOT"
  <2>1. Calibration(c)[s] = Step(<<Awaited(Close)>>, "FINISH")
    BY <1>1, <1>2, CalibrationTable
  <2>2. ~At("hand", s, c).switch
    BY <1>2, AtParts DEF Switched
  <2>3. Reach("hand", "FINISH", c) /\ After(s, c) = c
    BY <1>2 DEF Reach, After
  <2> QED
    BY <1>2, <2>1, <2>2, <2>3 DEF Routed, Closes, Step
<1>3. CASE s = "INIT"
  <2>1. Calibration(c)[s] = Step(<<>>, "BROADCASTE_POSE") /\ c = 0
    BY <1>1, <1>3, CalibrationTable DEF Reach
  <2>2. Rests(<<>>, At("hand", s, c), At("hand", "BROADCASTE_POSE", c))
    BY <1>3, <2>1, AtParts DEF Rests, Same, Stand, Loaded, Carrying, Switched, Untold
  <2>3. Reach("hand", "BROADCASTE_POSE", c) /\ After(s, c) = c
    BY <1>1, <1>3 DEF Reach, After
  <2> QED
    BY <1>3, <2>1, <2>2, <2>3 DEF Routed, Does, Step
<1>4. CASE s = "BROADCASTE_POSE"
  <2> DEFINE z == Hand!AfterBroadcast(c)
  <2>1. Calibration(c)[s] = Step(<<Awaited(CheckPose)>>, z)
    BY <1>1, <1>4, CalibrationTable
  <2>2. z \in {"MOVE_TO_CALI_POSE", "CLOSE_ROBOT"} /\ Reach("hand", z, c)
    BY <1>1 DEF Hand!AfterBroadcast, Reach, Hand!NumPoses
  <2> HIDE DEF z
  <2>3. Looks(<<Awaited(CheckPose)>>, At("hand", s, c), At("hand", z, c))
    BY <1>4, <2>2, AtParts DEF Looks, Same, Stand, Loaded, Carrying, Switched, Untold
  <2>4. After(s, c) = c
    BY <1>4 DEF After
  <2> QED
    BY <1>4, <2>1, <2>2, <2>3, <2>4 DEF Routed, Does, Step
<1>5. CASE s = "MOVE_TO_CALI_POSE"
  <2>1. c < Hand!NumPoses /\ c \in 0 .. Hand!NumPoses - 1 /\ c + 1 # 0 /\ c + 1 - 1 = c
    BY <1>1, <1>5 DEF Reach, Hand!NumPoses
  <2>2. Calibration(c)[s] = Step(<<Awaited(Motion("PTP", Hand!CALI_POSE[c], TRUE)), Awaited(CheckPose)>>,
                                 "BROADCASTE_POSE")
    BY <1>1, <1>5, <2>1, CalibrationTable
  <2>3. /\ Stand("hand", "BROADCASTE_POSE", c + 1) = Hand!CALI_POSE[c]
        /\ Stand("hand", s, c) \in {Elsewhere, Hand!CALI_POSE[c - 1]}
        /\ c = 0 => Stand("hand", s, c) = Elsewhere
    BY <2>1 DEF Stand
  <2>4. Stand("hand", s, c) \notin Confined /\ Hand!CALI_POSE[c] \notin Confined
    <3>1. c # 0 => c - 1 \in 0 .. Hand!NumPoses - 1
      BY <2>1 DEF Hand!NumPoses
    <3> QED
      BY <2>1, <2>3, <3>1, Unconfined
  <2>5. Hand!CALI_POSE[c] \in Goals
    BY <2>1, CalibrationGoals
  <2>6. DrivesAndLooks(<<Awaited(Motion("PTP", Hand!CALI_POSE[c], TRUE)), Awaited(CheckPose)>>,
                       At("hand", s, c), At("hand", "BROADCASTE_POSE", c + 1))
    <3>1. /\ At("hand", s, c).pose = Stand("hand", s, c)
          /\ At("hand", "BROADCASTE_POSE", c + 1).pose = Hand!CALI_POSE[c]
          /\ At("hand", s, c).grip = 0 /\ At("hand", "BROADCASTE_POSE", c + 1).grip = 0
          /\ At("hand", s, c).switch = FALSE
          /\ At("hand", "BROADCASTE_POSE", c + 1).switch = FALSE
          /\ At("hand", "BROADCASTE_POSE", c + 1).back = MotionsTo(Hand!CALI_POSE[c])
      BY <1>5, <2>1, <2>3, AtParts DEF Loaded, Carrying, Switched, Untold
    <3> QED
      BY <2>4, <2>5, <3>1 DEF DrivesAndLooks, Smooth
  <2>7. After(s, c) = c + 1 /\ Reach("hand", "BROADCASTE_POSE", c + 1)
    BY <1>1, <1>5, <2>1 DEF After, Reach, Hand!NumPoses
  <2> QED
    BY <1>5, <2>2, <2>6, <2>7 DEF Routed, Does, Step
<1>6. s \in {"INIT", "BROADCASTE_POSE", "MOVE_TO_CALI_POSE", "CLOSE_ROBOT"}
  BY <1>1, CalibrationTable
<1> QED
  BY <1>2, <1>3, <1>4, <1>5, <1>6

\* So do those of every program.
LEMMA Route ==
  ASSUME NEW p, NEW s, NEW c, Reach(p, s, c), s # "FINISH"
  PROVE  /\ s \in DOMAIN Handlers(p, c)
         /\ Routed(p, s, c, Handlers(p, c)[s])
<1>1. CASE p = "first"
  BY <1>1, FirstRoute DEF Reach, Handlers
<1>2. CASE p = "long"
  BY <1>2, LongRoute DEF Reach, Handlers
<1>3. CASE p = "io"
  BY <1>3, TrialRoute DEF Reach, Handlers
<1>4. CASE p = "hand"
  <2>1. c \in 0 .. Hand!NumPoses /\ s \in DOMAIN Calibration(c)
    BY <1>4, CalibrationTable DEF Reach
  <2> QED
    BY <1>4, <2>1, CalibrationRoute DEF Handlers
<1> QED
  BY <1>1, <1>2, <1>3, <1>4 DEF Reach

\* No program has a handler of FINISH.
LEMMA NoFinish ==
  ASSUME NEW p, NEW c, Reach(p, "FINISH", c)
  PROVE  "FINISH" \notin DOMAIN Handlers(p, c)
<1>1. CASE p \in {"first", "long", "io"}
  <2>1. "FINISH" \notin DOMAIN Cabinet \cup DOMAIN LongCabinet \cup DOMAIN IoTrial
    BY CabinetTable, LongTable, TrialTable
  <2> QED
    BY <1>1, <2>1 DEF Handlers
<1>2. CASE p = "hand"
  <2>1. c \in 0 .. Hand!NumPoses
    BY <1>2 DEF Reach
  <2>2. DOMAIN Calibration(c) \subseteq
          {"INIT", "BROADCASTE_POSE", "CLOSE_ROBOT", "MOVE_TO_CALI_POSE"}
    BY <2>1, CalibrationTable
  <2> QED
    BY <1>2, <2>2 DEF Handlers
<1> QED
  BY <1>1, <1>2 DEF Reach

\* What a handler finds is possible for a leg.
LEMMA AtPossible ==
  ASSUME NEW p, NEW s, NEW c, Reach(p, s, c)
  PROVE  /\ At(p, s, c).switch \in BOOLEAN /\ At(p, s, c).grip \in {0, 1}
         /\ At(p, s, c).switch => At(p, s, c).back \subseteq MotionsTo(At(p, s, c).pose)
<1>1. s \in Switched(p) => ~Untold(p, s, c)
  BY DEF Reach, Switched, Untold
<1> QED
  BY <1>1, AtParts
-----------------------------------------------------------------------------
(* The types *)

Places == Goals \cup {Elsewhere}
Sendings == [req : Requests, how : {"await", "async"}]

\* The requests of the programs are requests.
LEMMA RequestsTyped ==
  /\ \A n \in {"PTP", "LINE"} : \A g \in Goals : Motion(n, g, TRUE) \in Requests
  /\ \A v \in {0, 1} : Output(VacuumPin, v) \in Requests
  /\ CheckPose \in Requests /\ Close \in Requests
<1> USE ServiceConstants DEF Requests, Motions
<1>1. ASSUME NEW n \in {"PTP", "LINE"}, NEW g \in Goals
      PROVE  Motion(n, g, TRUE) \in Requests
  <2>1. {[name |-> n, goal |-> g]} \subseteq Commands
    BY DEF Commands
  <2> QED
    BY <2>1 DEF Motion
<1>2. \A v \in {0, 1} : Output(VacuumPin, v) \in Requests
  BY DEF Output
<1>3. CheckPose \in Requests /\ Close \in Requests
  BY DEF CheckPose, Close, Plain
<1> QED
  BY <1>1, <1>2, <1>3

\* What the methods of the client request.
LEMMA MethodForms ==
  ASSUME NEW r \in Client!Methods
  PROVE  \/ r = Client!call_modbus_close
         \/ \E h \in BOOLEAN :
              \/ r = Client!call_motor_excite(h)
              \/ \E v \in {0, 1} : r = Client!call_do(v, h)
              \/ \E n \in Motions, k \in {"pose", "joints"} : r = Client!generate_robot_request(n, k, h)
<1> SUFFICES ASSUME r # Client!call_modbus_close
             PROVE  \E h \in BOOLEAN :
                      \/ r = Client!call_motor_excite(h)
                      \/ \E v \in {0, 1} : r = Client!call_do(v, h)
                      \/ \E n \in Motions, k \in {"pose", "joints"} :
                           r = Client!generate_robot_request(n, k, h)
  OBVIOUS
<1> DEFINE Some(h) ==
      {Client!call_motor_excite(h), Client!call_ptp("joints", h), Client!call_ptp("pose", h),
       Client!call_line("joints", h), Client!call_line("pose", h), Client!call_circ(h),
       Client!call_do(0, h), Client!call_do(1, h), Client!call_home(h), Client!call_jog(h)}
     U == UNION {Some(h) : h \in BOOLEAN}
<1>1. Client!Methods = {Client!call_modbus_close} \cup U
  BY DEF Client!Methods
<1>2. r \in U
  <2> HIDE DEF U
  <2> QED
    BY <1>1
<1>3. PICK h \in BOOLEAN : r \in Some(h)
  <2> HIDE DEF Some
  <2>1. PICK S \in {Some(h) : h \in BOOLEAN} : r \in S
    BY <1>2
  <2>2. PICK h \in BOOLEAN : S = Some(h)
    BY <2>1
  <2> QED
    BY <2>1, <2>2
<1>4. ASSUME r \in {Client!call_ptp("joints", h), Client!call_ptp("pose", h), Client!call_line("joints", h),
             Client!call_line("pose", h), Client!call_circ(h), Client!call_home(h), Client!call_jog(h)}
      PROVE  \E n \in Motions, k \in {"pose", "joints"} : r = Client!generate_robot_request(n, k, h)
  BY <1>4 DEF Motions, Client!call_ptp, Client!call_line, Client!call_circ, Client!call_home,
     Client!call_jog
<1> QED
  BY <1>3, <1>4

\* They are requests too.
LEMMA MethodsTyped == Client!Methods \subseteq Requests
<1>1. \A k \in {"pose", "joints"} : Client!Goal(k) \in Goals
  <2>1. <<>> \in Seq(Int)
    OBVIOUS
  <2> QED
    BY <2>1 DEF Client!Goal, Goals
<1>2. ASSUME NEW n \in Motions, NEW k \in {"pose", "joints"}, NEW h \in BOOLEAN
      PROVE  Client!generate_robot_request(n, k, h) \in Requests
  <2>1. {[name |-> n, goal |-> Client!Goal(k)]} \subseteq Commands
    BY <1>1 DEF Commands
  <2> QED
    BY <2>1, ServiceConstants DEF Client!generate_robot_request, Client!Motion, Client!VacuumPin,
       VacuumPin, Requests
<1>3. \A h \in BOOLEAN : Client!call_motor_excite(h) \in Requests
  BY ServiceConstants DEF Client!call_motor_excite, Client!Plain, Client!VacuumPin, VacuumPin, Requests
<1>4. \A h \in BOOLEAN, v \in {0, 1} : Client!call_do(v, h) \in Requests
  BY ProgramConstants DEF Client!call_do, Client!Output, Requests
<1>5. Client!call_modbus_close \in Requests
  BY ServiceConstants DEF Client!call_modbus_close, Client!Plain, Client!VacuumPin, VacuumPin, Requests
<1> QED
  BY <1>2, <1>3, <1>4, <1>5, MethodForms

\* What the programs request fits together.
LEMMA ProgramsFit == Fit(Requests, Commands, Places)
<1>1. \A c \in Commands : c.name \in Motions => c.goal \in Goals
  BY DEF Commands, Stop, Motions
<1> QED
  BY <1>1 DEF Fit, Requests, Places

\* What a handler sends is typed.
LEMMA HandlerTyped ==
  ASSUME NEW p, NEW s, NEW c, Reach(p, s, c), s # "FINISH"
  PROVE  Handlers(p, c)[s].send \in Seq(Sendings)
<1> DEFINE h == Handlers(p, c)[s]
           a == At(p, s, c)
           b == At(p, h.next, After(s, c))
<1>1. /\ Closes(h.send, a) \/ Does(h.send, a, b)
      /\ b.grip \in {0, 1}
  BY Route, AtPossible DEF Routed
<1> HIDE DEF h, a, b
<1>2. /\ \A r \in Requests : Awaited(r) \in Sendings /\ Unawaited(r) \in Sendings
      /\ \A r \in Requests : <<Awaited(r)>> \in Seq(Sendings) /\ <<Unawaited(r)>> \in Seq(Sendings)
      /\ \A q, r \in Requests : <<Awaited(q), Awaited(r)>> \in Seq(Sendings)
      /\ <<>> \in Seq(Sendings)
  BY DEF Awaited, Unawaited, Sendings
<1>3. ASSUME Closes(h.send, a) \/ Looks(h.send, a, b) PROVE h.send \in Seq(Sendings)
  BY <1>2, <1>3, RequestsTyped DEF Closes, Looks
<1>4. ASSUME Drives(h.send, a, b) PROVE h.send \in Seq(Sendings)
  BY <1>2, <1>4, RequestsTyped DEF Drives, MoveTo
<1>5. ASSUME DrivesAndLooks(h.send, a, b) PROVE h.send \in Seq(Sendings)
  BY <1>2, <1>5, RequestsTyped DEF DrivesAndLooks
<1>6. ASSUME Switches(h.send, a, b) PROVE h.send \in Seq(Sendings)
  BY <1>1, <1>2, <1>6, RequestsTyped DEF Switches, Set
<1>7. ASSUME Rests(h.send, a, b) PROVE h.send \in Seq(Sendings)
  BY <1>2, <1>7 DEF Rests
<1>8. h.send \in Seq(Sendings)
  BY <1>1, <1>3, <1>4, <1>5, <1>6, <1>7 DEF Does
<1> QED
  BY <1>8 DEF h

\* The thread of a program, which passes the states of its handlers, and of the client,
\* which ends after its one request.
Threaded ==
  /\ program \in Names /\ pc \in {"call", "wait", "gone"}
  /\ last \in Requests \cup {NoRequest}
  /\ transform \in Places
  /\ \/ /\ program = "client" /\ state = "INIT" /\ cnt = 0
        /\ \/ pc = "call" /\ \E r \in Client!Methods : todo = <<Failing(r)>>
           \/ pc = "gone" /\ todo = <<>>
     \/ /\ program # "client"
        /\ Reach(program, state, cnt) /\ todo \in Seq(Sendings)
        /\ state = "FINISH" => pc = "gone"

Typing == Threaded /\ Kinds(Requests, Commands, Places)

\* The service starts typed, where the arm may be.
LEMMA KindsInit ==
  ASSUME ServiceInit(Elsewhere)
  PROVE  Kinds(Requests, Commands, Places)
<1>1. <<>> \in Seq(Requests) /\ <<>> \in Seq(Commands) /\ Stop \in Commands /\ Elsewhere \in Places
  BY DEF Commands, Places
<1>2. [p \in Pins |-> 0] \in [Pins -> {0, 1}]
  OBVIOUS
<1> QED
  BY <1>1, <1>2 DEF ServiceInit, Kinds

\* Every program starts in INIT.
LEMMA TypingInit == Init => Typing
<1> SUFFICES ASSUME Init PROVE Typing
  OBVIOUS
<1>1. Kinds(Requests, Commands, Places)
  BY KindsInit DEF Init
<1>2. CASE program = "client"
  <2>1. PICK r \in Client!Methods : todo = Client!call_hiwin(r).send
    BY <1>2 DEF Init
  <2>2. todo = <<Failing(r)>>
    BY <2>1 DEF Client!call_hiwin, Client!Step, Client!Failing, Failing
  <2> QED
    BY <1>1, <1>2, <2>2 DEF Init, Typing, Threaded, Places
<1>3. CASE program # "client"
  <2>1. program \in {"first", "long", "io", "hand"}
    BY <1>3, ProgramConstants DEF Init
  <2>2. Reach(program, "INIT", 0)
    BY <2>1, CabinetTable, LongTable, TrialTable DEF Reach, Hand!NumPoses
  <2>3. todo = <<>> /\ <<>> \in Seq(Sendings)
    BY <1>3 DEF Init
  <2> QED
    BY <1>1, <1>3, <2>2, <2>3 DEF Init, Typing, Threaded, Places
<1> QED
  BY <1>2, <1>3

\* The steps of the thread keep its types.
LEMMA TypingThread ==
  ASSUME Typing, Thread
  PROVE  Typing'
<1> USE DEF Typing
<1>1. CASE Send
  <2>1. UNCHANGED <<program, state, cnt, transform, contract, arm, shown>>
        /\ todo # <<>> /\ pc = "call" /\ todo' = Tail(todo) /\ last' = Head(todo).req
    BY <1>1 DEF Send
  <2>2. CASE program = "client"
    <3>1. PICK r \in Client!Methods : todo = <<Failing(r)>>
      BY <2>1, <2>2 DEF Threaded
    <3>2. Head(todo) = Failing(r) /\ Tail(todo) = <<>>
      BY <3>1
    <3>3. Failing(r).req = r /\ Failing(r).how = "fail" /\ r \in Requests
      BY MethodsTyped DEF Failing
    <3>4. pc' = "gone" /\ (requests' = Append(requests, r) \/ requests' = requests)
      BY <1>1, <3>2, <3>3 DEF Send
    <3>5. Append(requests, r) \in Seq(Requests)
      BY <3>3, AppendProperties DEF Kinds
    <3> QED
      BY <2>1, <2>2, <3>2, <3>3, <3>4, <3>5 DEF Threaded, Kinds, contract
  <2>3. CASE program # "client"
    <3>1. todo \in Seq(Sendings)
      BY <2>3 DEF Threaded
    <3>2. Head(todo) \in Sendings /\ Tail(todo) \in Seq(Sendings)
      BY <2>1, <3>1, HeadTailProperties
    <3>3. /\ Head(todo).req \in Requests /\ Head(todo).how \in {"await", "async"}
          /\ Append(requests, Head(todo).req) \in Seq(Requests)
      BY <3>2, AppendProperties DEF Sendings, Kinds
    <3>4. pc' \in {"call", "wait"} /\ requests' = Append(requests, Head(todo).req)
      BY <1>1, <3>3 DEF Send
    <3> QED
      BY <2>1, <2>3, <3>2, <3>3, <3>4 DEF Threaded, Kinds, contract
  <2> QED
    BY <2>2, <2>3
<1>2. CASE Returned
  <2>1. shown \in Places /\ Kinds(Requests, Commands, Places)
    BY DEF Kinds
  <2>2. UNCHANGED <<program, state, todo, last, cnt, service>> /\ pc = "wait" /\ pc' = "call"
        /\ transform' \in {shown, transform}
    BY <1>2 DEF Returned
  <2> QED
    BY <2>1, <2>2 DEF Threaded, Kinds, service, contract
<1>3. CASE Leave
  <2> DEFINE h == Handlers(program, cnt)[state]
  <2>1. /\ pc = "call" /\ todo = <<>> /\ cnt' = After(state, cnt) /\ state' = h.next
        /\ UNCHANGED <<program, last, transform, service>>
    BY <1>3 DEF Leave, After
  <2>2. program # "client" /\ Reach(program, state, cnt) /\ state # "FINISH"
    BY <2>1 DEF Threaded
  <2>3. Reach(program, state', cnt')
    BY <2>1, <2>2, Route DEF Routed
  <2>4. CASE state' \in DOMAIN Handlers(program, cnt')
    <3>1. pc' = "call" /\ todo' = Handlers(program, cnt')[state'].send
      BY <1>3, <2>4 DEF Leave
    <3>2. state' # "FINISH"
      BY <2>3, <2>4, NoFinish
    <3>3. todo' \in Seq(Sendings)
      BY <2>3, <3>1, <3>2, HandlerTyped
    <3> QED
      BY <2>1, <2>2, <2>3, <3>1, <3>2, <3>3 DEF Threaded, Kinds, service, contract
  <2>5. CASE state' \notin DOMAIN Handlers(program, cnt')
    <3>1. pc' = "gone" /\ todo' = <<>> /\ <<>> \in Seq(Sendings)
      BY <1>3, <2>5 DEF Leave
    <3> QED
      BY <2>1, <2>2, <2>3, <3>1 DEF Threaded, Kinds, service, contract
  <2> QED
    BY <2>4, <2>5
<1> QED
  BY <1>1, <1>2, <1>3 DEF Thread

\* Every variable of every program keeps its type, whatever fails.
THEOREM Typed == Spec => []TypeOK
<1>1. Typing /\ [Next]_vars => Typing'
  <2> SUFFICES ASSUME Typing, [Next]_vars PROVE Typing'
    OBVIOUS
  <2>1. CASE Serve
    <3>1. Kinds(Requests, Commands, Places)'
      BY <2>1, KindsStep, ProgramsFit DEF Serve, Typing
    <3> QED
      BY <2>1, <3>1 DEF Serve, Typing, Threaded, thread
  <2>2. CASE UNCHANGED vars
    BY <2>2 DEF vars, thread, service, contract, Typing, Threaded, Kinds
  <2> QED
    BY <2>1, <2>2, TypingThread DEF Next
<1>2. Typing => TypeOK
  <2> SUFFICES ASSUME Typing PROVE TypeOK
    OBVIOUS
  <2>1. state \in DOMAIN Cabinet \cup DOMAIN LongCabinet \cup DOMAIN IoTrial
                 \cup DOMAIN Calibration(0) \cup {"FINISH"}
    <3>1. {"INIT", "BROADCASTE_POSE", "MOVE_TO_CALI_POSE", "CLOSE_ROBOT"} \subseteq DOMAIN Calibration(0)
      BY CalibrationTable DEF Hand!NumPoses
    <3> QED
      BY <3>1 DEF Typing, Threaded, Reach
  <2>2. todo \in Seq([req : Requests, how : {"await", "async", "fail"}])
    <3>1. Sendings \subseteq [req : Requests, how : {"await", "async", "fail"}]
      BY DEF Sendings
    <3>2. \A r \in Client!Methods : <<Failing(r)>> \in Seq([req : Requests, how : {"await", "async", "fail"}])
      BY MethodsTyped DEF Failing
    <3>3. <<>> \in Seq([req : Requests, how : {"await", "async", "fail"}])
      OBVIOUS
    <3>4. todo \in Seq(Sendings) => todo \in Seq([req : Requests, how : {"await", "async", "fail"}])
      BY <3>1, SeqWider
    <3> QED
      BY <3>2, <3>3, <3>4 DEF Typing, Threaded
  <2>3. cnt \in 0 .. Hand!NumPoses
    BY DEF Typing, Threaded, Reach, Hand!NumPoses
  <2> QED
    BY <2>1, <2>2, <2>3 DEF Typing, Threaded, Kinds, Places, TypeOK
<1> QED
  BY <1>1, <1>2, TypingInit, PTL DEF Spec
-----------------------------------------------------------------------------
(* The course of a handler *)

\* What a handler may find; a and b are what one finds and what the next one does.
Sound(w) ==
  /\ w.switch \in BOOLEAN /\ w.grip \in {0, 1}
  /\ w.switch => w.back \subseteq MotionsTo(w.pose)

LegAt(asked, w) == Leg(w.switch, asked, w.pose, w.grip, w.back)

\* The motion sent last leads where the arm stands.
Logged(w) ==
  last # NoRequest /\ last.mode \in {"PTP", "LINE"} =>
    /\ ~w.switch
    /\ \E n \in {"PTP", "LINE"} : last = Motion(n, w.pose, TRUE)

\* The thread has every answer it awaited.
Between(w) == pc = "call" /\ LegAt(<<>>, w) /\ Logged(w)

Looked == <<Awaited(CheckPose)>>

\* The handler awaits its motion.
Underway(send, a, b) ==
  /\ pc = "wait"
  /\ \E n \in {"PTP", "LINE"} :
       /\ last = Motion(n, b.pose, TRUE) /\ Smooth(n, a.pose, b.pose)
       /\ LegAt(<<Motion(n, b.pose, TRUE)>>, a)
  /\ \/ Drives(send, a, b) /\ todo = <<>>
     \/ DrivesAndLooks(send, a, b) /\ todo = Looked

\* It awaits the pose.
Looking(send, a, b) ==
  /\ pc = "wait" /\ last = CheckPose /\ todo = <<>>
  /\ Looks(send, a, b) \/ DrivesAndLooks(send, a, b)
  /\ LegAt(<<CheckPose>>, b)

Rested(send, a, b) ==
  /\ todo = <<>> /\ Between(b)
  /\ DrivesAndLooks(send, a, b) => transform = b.pose

Doing(send, a, b) ==
  \/ todo = send /\ Between(a)
  \/ Underway(send, a, b)
  \/ DrivesAndLooks(send, a, b) /\ todo = Looked /\ Between(b)
  \/ Looking(send, a, b)
  \/ Rested(send, a, b)

\* What a handler awaits is possible for a leg.
LEMMA SoundPossible ==
  ASSUME NEW w, Sound(w)
  PROVE  /\ Possible(w.switch, <<>>, w.pose, w.grip, w.back)
         /\ \A n \in {"PTP", "LINE"} : \A g :
              Possible(w.switch, <<Motion(n, g, TRUE)>>, w.pose, w.grip, w.back)
         /\ ~w.switch => Possible(w.switch, <<CheckPose>>, w.pose, w.grip, w.back)
<1>1. <<>> # <<CheckPose>>
  OBVIOUS
<1>2. ASSUME NEW n \in {"PTP", "LINE"}, NEW g
      PROVE  <<Motion(n, g, TRUE)>> # <<CheckPose>> /\ Askable(<<Motion(n, g, TRUE)>>)
  <2>1. Motion(n, g, TRUE).mode = n /\ CheckPose.mode = "CHECK_POSE"
    BY RequestFields
  <2>2. \A q, r : <<q>> = <<r>> => q = r
    OBVIOUS
  <2>3. <<Motion(n, g, TRUE)>> # <<CheckPose>>
    BY <2>1, <2>2
  <2> QED
    BY <2>3 DEF Askable
<1>3. Askable(<<>>) /\ Askable(<<CheckPose>>)
  BY DEF Askable
<1> QED
  BY <1>1, <1>2, <1>3 DEF Possible, Sound

\* The service keeps what a handler does.
LEMMA DoingServe ==
  ASSUME NothingUnseen, NEW send, NEW a, NEW b, Sound(a), Sound(b),
         Doing(send, a, b), ServiceStep, UNCHANGED thread
  PROVE  Doing(send, a, b)'
<1>1. UNCHANGED todo /\ UNCHANGED pc /\ UNCHANGED last /\ UNCHANGED transform
  BY DEF thread
<1>2. ASSUME NEW w, Sound(w), Between(w)
      PROVE  Between(w)'
  <2>1. LegAt(<<>>, w)'
    BY <1>2, LegStep, SoundPossible DEF Between, LegAt
  <2> QED
    BY <1>1, <1>2, <2>1 DEF Between, Logged
<1>3. CASE Underway(send, a, b)
  <2>1. PICK n \in {"PTP", "LINE"} :
          /\ last = Motion(n, b.pose, TRUE) /\ Smooth(n, a.pose, b.pose)
          /\ LegAt(<<Motion(n, b.pose, TRUE)>>, a)
    BY <1>3 DEF Underway
  <2>2. LegAt(<<Motion(n, b.pose, TRUE)>>, a)'
    BY <2>1, LegStep, SoundPossible DEF LegAt
  <2>3. Underway(send, a, b)'
    BY <1>1, <1>3, <2>1, <2>2 DEF Underway
  <2> QED
    BY <2>3 DEF Doing
<1>4. CASE Looking(send, a, b)
  <2>1. ~b.switch
    BY <1>4 DEF Looking, Looks, DrivesAndLooks, Same
  <2>2. LegAt(<<CheckPose>>, b)'
    BY <1>4, <2>1, LegStep, SoundPossible DEF Looking, LegAt
  <2>3. Looking(send, a, b)'
    BY <1>1, <1>4, <2>2 DEF Looking
  <2> QED
    BY <2>3 DEF Doing
<1>5. CASE todo = send /\ Between(a)
  BY <1>1, <1>2, <1>5 DEF Doing
<1>6. CASE DrivesAndLooks(send, a, b) /\ todo = Looked /\ Between(b)
  BY <1>1, <1>2, <1>6 DEF Doing
<1>7. CASE Rested(send, a, b)
  BY <1>1, <1>2, <1>7 DEF Doing, Rested
<1> QED
  BY <1>3, <1>4, <1>5, <1>6, <1>7 DEF Doing

\* What is seen of the arm while a handler runs.
LEMMA DoingMoves ==
  ASSUME NEW send, NEW a, NEW b, Sound(a), Sound(b),
         Doing(send, a, b), ServiceStep, arm' # arm
  PROVE  /\ \E n : Head(moves).name = n /\ Smooth(n, arm, arm')
         /\ vacuum = a.grip
<1>1. ASSUME NEW w, Sound(w), LegAt(<<>>, w)
      PROVE  FALSE
  BY <1>1, LegMoves, SoundPossible DEF LegAt
<1>2. ASSUME LegAt(<<CheckPose>>, b), ~b.switch
      PROVE  FALSE
  <2>1. <<CheckPose>>[1].writes = {}
    BY RequestFields
  <2> QED
    BY <1>2, <2>1, LegMoves, SoundPossible DEF LegAt
<1>3. Underway(send, a, b)
  BY <1>1, <1>2 DEF Doing, Between, Rested, Looking, Looks, DrivesAndLooks, Same
<1>4. PICK n \in {"PTP", "LINE"} :
        /\ last = Motion(n, b.pose, TRUE) /\ Smooth(n, a.pose, b.pose)
        /\ LegAt(<<Motion(n, b.pose, TRUE)>>, a)
  BY <1>3 DEF Underway
<1>5. <<Motion(n, b.pose, TRUE)>>[1].writes = {[name |-> n, goal |-> b.pose]}
  BY RequestFields
<1>6. /\ Head(moves) = [name |-> n, goal |-> b.pose]
      /\ arm = a.pose /\ arm' = b.pose /\ vacuum = a.grip
  <2> DEFINE asked == <<Motion(n, b.pose, TRUE)>>
  <2>1. Possible(a.switch, asked, a.pose, a.grip, a.back) /\ Leg(a.switch, asked, a.pose, a.grip, a.back)
    BY <1>4, SoundPossible DEF LegAt
  <2>2. asked[1].writes = {[name |-> n, goal |-> b.pose]}
    BY <1>5
  <2> HIDE DEF asked
  <2>3. vacuum = a.grip /\ \E c \in asked[1].writes : Head(moves) = c /\ arm = a.pose /\ arm' = c.goal
    BY <2>1, LegMoves
  <2> QED
    BY <2>2, <2>3
<1> QED
  BY <1>4, <1>6

\* What is seen of the vacuum.
LEMMA DoingSwitches ==
  ASSUME NEW send, NEW a, NEW b, Sound(a), Sound(b),
         Doing(send, a, b), ServiceStep, vacuum' # vacuum
  PROVE  \E w \in {a, b} : w.switch /\ arm = w.pose /\ moves = <<>> /\ vacuum' = w.grip
<1>1. ASSUME NEW w, Sound(w), LegAt(<<>>, w)
      PROVE  w.switch /\ arm = w.pose /\ moves = <<>> /\ vacuum' = w.grip
  BY <1>1, LegSwitches, SoundPossible DEF LegAt
<1>2. CASE Underway(send, a, b)
  <2>1. PICK n \in {"PTP", "LINE"} : LegAt(<<Motion(n, b.pose, TRUE)>>, a)
    BY <1>2 DEF Underway
  <2> DEFINE asked == <<Motion(n, b.pose, TRUE)>>
  <2>2. Possible(a.switch, asked, a.pose, a.grip, a.back) /\ Leg(a.switch, asked, a.pose, a.grip, a.back)
    BY <2>1, SoundPossible DEF LegAt
  <2> HIDE DEF asked
  <2>3. a.switch /\ arm = a.pose /\ moves = <<>> /\ vacuum' = a.grip
    BY <2>2, LegSwitches
  <2> QED
    BY <2>3
<1>3. ASSUME Looking(send, a, b)
      PROVE  FALSE
  <2>1. ~b.switch /\ LegAt(<<CheckPose>>, b)
    BY <1>3 DEF Looking, Looks, DrivesAndLooks, Same
  <2>2. /\ Possible(b.switch, <<CheckPose>>, b.pose, b.grip, b.back)
        /\ Leg(b.switch, <<CheckPose>>, b.pose, b.grip, b.back)
    BY <2>1, SoundPossible DEF LegAt
  <2>3. b.switch
    BY <2>2, LegSwitches
  <2> QED
    BY <2>1, <2>3
<1> QED
  BY <1>1, <1>2, <1>3 DEF Doing, Between, Rested

\* A switch is true or false.
LEMMA SwitchForms ==
  ASSUME NEW w, Sound(w)
  PROVE  w.switch = TRUE \/ w.switch = FALSE
  BY Zenon DEF Sound

\* Sequences of one and of two requests.
LEMMA SendForms ==
  /\ \A q : Head(<<q>>) = q /\ Tail(<<q>>) = <<>> /\ <<q>> # <<>>
  /\ \A q, r : Head(<<q, r>>) = q /\ Tail(<<q, r>>) = <<r>> /\ <<q, r>> # <<>>
  /\ \A p, q, r : <<p>> # <<q, r>>
  /\ \A r : /\ Awaited(r).req = r /\ Awaited(r).how = "await"
            /\ Unawaited(r).req = r /\ Unawaited(r).how = "async"
  BY DEF Awaited, Unawaited

\* A handler does one thing.
LEMMA DoesOne ==
  ASSUME NEW send, NEW a, NEW b
  PROVE  /\ Drives(send, a, b) => ~DrivesAndLooks(send, a, b)
         /\ Looks(send, a, b) => ~DrivesAndLooks(send, a, b)
         /\ Switches(send, a, b) => ~DrivesAndLooks(send, a, b)
  BY SendForms DEF Drives, MoveTo, Looks, Switches, DrivesAndLooks

\* A request that is awaited, and the next leg.
LEMMA AwaitedNext ==
  ASSUME NEW r, Send, Head(todo) = Awaited(r), NEW w, LegAt(<<>>, w)
  PROVE  pc' = "wait" /\ last' = r /\ todo' = Tail(todo) /\ LegAt(<<r>>, w)'
<1>1. pc' = "wait" /\ requests' = Append(requests, r) /\ last' = r
  BY SendForms DEF Send
<1>2. UNCHANGED <<contract, arm, shown>> /\ todo' = Tail(todo)
  BY DEF Send
<1> QED
  BY <1>1, <1>2, SendAwaited DEF LegAt

\* A handler sends what it has to send.
LEMMA DoingSend ==
  ASSUME NEW send, NEW a, NEW b, Sound(a), Sound(b), Does(send, a, b), Doing(send, a, b), Send
  PROVE  Doing(send, a, b)'
<1>1. pc = "call" /\ todo # <<>> /\ UNCHANGED transform
  BY DEF Send
<1>2. CASE todo = send /\ Between(a)
  <2>1. LegAt(<<>>, a)
    BY <1>2 DEF Between
  <2>2. CASE Drives(send, a, b)
    <3>1. PICK n \in {"PTP", "LINE"} : send = MoveTo(n, b.pose) /\ Smooth(n, a.pose, b.pose)
      BY <2>2 DEF Drives
    <3>2. Head(todo) = Awaited(Motion(n, b.pose, TRUE)) /\ Tail(todo) = <<>>
      BY <1>2, <3>1, SendForms DEF MoveTo
    <3>3. /\ pc' = "wait" /\ last' = Motion(n, b.pose, TRUE) /\ todo' = <<>>
          /\ LegAt(<<Motion(n, b.pose, TRUE)>>, a)'
      BY <2>1, <3>2, AwaitedNext
    <3>4. Underway(send, a, b)'
      BY <2>2, <3>1, <3>3 DEF Underway
    <3> QED
      BY <3>4 DEF Doing
  <2>3. CASE DrivesAndLooks(send, a, b)
    <3>1. Head(todo) = Awaited(Motion("PTP", b.pose, TRUE)) /\ Tail(todo) = Looked
      BY <1>2, <2>3, SendForms DEF DrivesAndLooks, Looked
    <3>2. /\ pc' = "wait" /\ last' = Motion("PTP", b.pose, TRUE) /\ todo' = Looked
          /\ LegAt(<<Motion("PTP", b.pose, TRUE)>>, a)'
      BY <2>1, <3>1, AwaitedNext
    <3>3. Underway(send, a, b)'
      BY <2>3, <3>2 DEF Underway, DrivesAndLooks
    <3> QED
      BY <3>3 DEF Doing
  <2>4. CASE Looks(send, a, b)
    <3>1. Head(todo) = Awaited(CheckPose) /\ Tail(todo) = <<>>
      BY <1>2, <2>4, SendForms DEF Looks
    <3>2. a.switch = FALSE /\ b.switch = FALSE
      BY <2>4, SwitchForms DEF Looks, Same
    <3>3. b.pose = a.pose /\ b.grip = a.grip /\ b.back = a.back
      BY <2>4 DEF Looks, Same
    <3>4. LegAt(<<>>, b)
      BY <2>1, <3>2, <3>3 DEF LegAt
    <3>5. pc' = "wait" /\ last' = CheckPose /\ todo' = <<>> /\ LegAt(<<CheckPose>>, b)'
      BY <3>1, <3>4, AwaitedNext
    <3>6. Looking(send, a, b)'
      BY <2>4, <3>5 DEF Looking
    <3> QED
      BY <3>6 DEF Doing
  <2>5. CASE Switches(send, a, b)
    <3>1. Head(todo) = Unawaited(Output(VacuumPin, b.grip)) /\ Tail(todo) = <<>>
      BY <1>2, <2>5, SendForms DEF Switches, Set
    <3>2. /\ pc' = "call" /\ last' = Output(VacuumPin, b.grip) /\ todo' = <<>>
          /\ requests' = Append(requests, Output(VacuumPin, b.grip))
          /\ UNCHANGED <<contract, arm, shown>>
      BY <3>1, SendForms DEF Send
    <3>3. a.switch = FALSE /\ b.switch = TRUE
      BY <2>5, SwitchForms DEF Switches
    <3>4. b.pose = a.pose /\ b.back = a.back /\ b.grip \in {0, 1}
      BY <2>5 DEF Switches, Sound
    <3>5. Leg(FALSE, <<>>, a.pose, a.grip, a.back)
      BY <2>1, <3>3 DEF LegAt
    <3>6. Leg(TRUE, <<>>, a.pose, b.grip, a.back)'
      BY <3>2, <3>4, <3>5, SendOutput
    <3>7. LegAt(<<>>, b)'
      BY <3>3, <3>4, <3>6 DEF LegAt
    <3>8. last'.mode = "DO"
      BY <3>2, RequestFields
    <3>9. Rested(send, a, b)'
      BY <2>5, <3>2, <3>7, <3>8, DoesOne DEF Rested, Between, Logged
    <3> QED
      BY <3>9 DEF Doing
  <2>6. ~Rests(send, a, b)
    BY <1>1, <1>2 DEF Rests
  <2> QED
    BY <2>2, <2>3, <2>4, <2>5, <2>6 DEF Does
<1>3. CASE DrivesAndLooks(send, a, b) /\ todo = Looked /\ Between(b)
  <2>1. Head(todo) = Awaited(CheckPose) /\ Tail(todo) = <<>>
    BY <1>3, SendForms DEF Looked
  <2>2. pc' = "wait" /\ last' = CheckPose /\ todo' = <<>> /\ LegAt(<<CheckPose>>, b)'
    BY <1>3, <2>1, AwaitedNext DEF Between
  <2>3. Looking(send, a, b)'
    BY <1>3, <2>2 DEF Looking
  <2> QED
    BY <2>3 DEF Doing
<1>4. ~Underway(send, a, b) /\ ~Looking(send, a, b) /\ ~Rested(send, a, b)
  BY <1>1 DEF Underway, Looking, Rested
<1> QED
  BY <1>2, <1>3, <1>4 DEF Doing

\* A handler goes on when its answer is there.
LEMMA DoingReturned ==
  ASSUME NEW send, NEW a, NEW b, Sound(a), Sound(b), Doing(send, a, b), Returned
  PROVE  Doing(send, a, b)'
<1>1. /\ pc = "wait" /\ pc' = "call" /\ requests = <<>> /\ serving = NoRequest
      /\ transform' = IF last.mode = "CHECK_POSE" THEN shown ELSE transform
      /\ todo' = todo /\ last' = last /\ UNCHANGED service
  BY DEF Returned
<1>2. CASE Underway(send, a, b)
  <2>1. PICK n \in {"PTP", "LINE"} :
          last = Motion(n, b.pose, TRUE) /\ LegAt(<<Motion(n, b.pose, TRUE)>>, a)
    BY <1>2 DEF Underway
  <2>2. Leg(FALSE, <<>>, b.pose, a.grip, MotionsTo(b.pose))
    BY <1>1, <2>1, AnsweredMotion DEF LegAt
  <2>3. ~b.switch /\ b.grip = a.grip /\ b.back = MotionsTo(b.pose)
    BY <1>2 DEF Underway, Drives, DrivesAndLooks
  <2>4. b.switch = FALSE
    BY <2>3, SwitchForms
  <2>5. LegAt(<<>>, b)
    BY <2>2, <2>3, <2>4 DEF LegAt
  <2>6. LegAt(<<>>, b)'
    BY <1>1, <2>5, LegKept DEF LegAt
  <2>7. Between(b)'
    BY <1>1, <2>1, <2>3, <2>6 DEF Between, Logged
  <2>8. CASE Drives(send, a, b) /\ todo = <<>>
    BY <1>1, <2>7, <2>8, DoesOne DEF Doing, Rested
  <2>9. CASE DrivesAndLooks(send, a, b) /\ todo = Looked
    BY <1>1, <2>7, <2>9 DEF Doing
  <2> QED
    BY <1>2, <2>8, <2>9 DEF Underway
<1>3. CASE Looking(send, a, b)
  <2>1. last = CheckPose /\ todo = <<>> /\ LegAt(<<CheckPose>>, b)
    BY <1>3 DEF Looking
  <2>2. ~b.switch
    BY <1>3 DEF Looking, Looks, DrivesAndLooks, Same
  <2>3. b.switch = FALSE
    BY <2>2, SwitchForms
  <2>4. shown = b.pose /\ Leg(FALSE, <<>>, b.pose, b.grip, b.back)
    BY <1>1, <2>1, AnsweredPose DEF LegAt
  <2>5. LegAt(<<>>, b)'
    BY <1>1, <2>3, <2>4, LegKept DEF LegAt
  <2>6. last.mode = "CHECK_POSE"
    BY <2>1, RequestFields
  <2>7. Between(b)' /\ transform' = b.pose
    BY <1>1, <2>4, <2>5, <2>6 DEF Between, Logged
  <2> QED
    BY <1>1, <2>1, <2>7 DEF Doing, Rested
<1> QED
  BY <1>1, <1>2, <1>3 DEF Doing, Between, Rested

\* A handler that returns has left the arm where the next one finds it.
LEMMA DoingLeave ==
  ASSUME NEW send, NEW a, NEW b, Sound(a), Sound(b), Does(send, a, b), Doing(send, a, b),
         pc = "call", todo = <<>>
  PROVE  /\ Between(b)
         /\ DrivesAndLooks(send, a, b) => transform = b.pose
<1>1. CASE todo = send /\ Between(a)
  <2>1. Rests(send, a, b) /\ ~DrivesAndLooks(send, a, b)
    BY <1>1, SendForms DEF Does, Drives, MoveTo, Switches, Set, Looks, DrivesAndLooks
  <2>2. /\ ~a.switch /\ ~b.switch /\ a.switch = FALSE /\ b.switch = FALSE
        /\ b.pose = a.pose /\ b.grip = a.grip /\ b.back = a.back
    BY <2>1, SwitchForms DEF Rests, Same
  <2>3. Between(b)
    BY <1>1, <2>2 DEF Between, LegAt, Logged
  <2> QED
    BY <2>1, <2>3
<1>2. ~Underway(send, a, b) /\ ~Looking(send, a, b) /\ todo # Looked
  BY SendForms DEF Underway, Looking, Looked
<1> QED
  BY <1>1, <1>2 DEF Doing, Rested

-----------------------------------------------------------------------------
(* The end of a program *)

\* The robot is closed: no motion is left, and none is triggered.
Closing ==
  /\ moves = <<>>
  /\ requests = <<>> \/ requests = <<Close>>
  /\ serving = NoRequest \/ (serving = Close /\ serving # NoRequest /\ stage # "trigger")

Shutting(send, a) ==
  /\ Closes(send, a)
  /\ \/ todo = send /\ Between(a)
     \/ todo = <<>> /\ last = Close /\ Closing

\* Nothing moves or is switched while it closes, also if the process ends over it.
LEMMA ClosingServe ==
  ASSUME Closing, ServiceStep
  PROVE  Closing' /\ arm' = arm /\ vacuum' = vacuum
<1> USE DEF Closing
<1>0. Close.mode = "CLOSE" /\ ~Acts(Close) /\ Close.writes = {}
  BY DEF Close, Plain, Acts
<1>1. CASE Dispatch
  <2>1. Head(<<Close>>) = Close /\ Tail(<<Close>>) = <<>>
    OBVIOUS
  <2> QED
    BY <1>1, <2>1 DEF Dispatch, Accept, vacuum
<1>2. CASE Execute
  <2>1. serving = Close /\ stage # "trigger"
    BY <1>2 DEF Execute, Write, Prepare, Trigger, Poll
  <2> QED
    BY <1>0, <1>2, <2>1 DEF Execute, Write, Prepare, Trigger, Poll, vacuum
<1>3. CASE Reply
  BY <1>3 DEF Reply, Answer, vacuum
<1>4. CASE Move \/ Halt
  BY <1>4 DEF Move, Perform, Halt, TakeSetting
<1>5. CASE Die
  BY <1>5 DEF Die, Crash, vacuum
<1> QED
  BY <1>1, <1>2, <1>3, <1>4, <1>5 DEF ServiceStep

\* The last leg is left to close the robot.
LEMMA ShuttingSend ==
  ASSUME NEW send, NEW a, Sound(a), Shutting(send, a), Send
  PROVE  Shutting(send, a)'
<1>1. todo = send /\ Between(a) /\ send = <<Awaited(Close)>> /\ ~a.switch
  BY DEF Shutting, Closes, Send
<1>2. Head(todo).req = Close /\ Head(todo).how = "await" /\ Tail(todo) = <<>>
  BY <1>1, SendForms
<1>3. /\ requests' = Append(requests, Close) /\ last' = Close /\ todo' = <<>>
      /\ UNCHANGED <<contract, arm, shown>>
  BY <1>2 DEF Send
<1>4. a.switch = FALSE
  BY <1>1, SwitchForms
<1>5. Leg(FALSE, <<>>, a.pose, a.grip, a.back)
  BY <1>1, <1>4 DEF Between, LegAt
<1>6. Quiet(a.pose, a.grip)
  BY <1>5, RestingLeg
<1>7. Closing'
  BY <1>3, <1>6, AppendOne DEF Quiet, Closing, contract
<1> QED
  BY <1>3, <1>7 DEF Shutting, Closes

\* The service keeps what the last handler does.
LEMMA ShuttingServe ==
  ASSUME NothingUnseen, NEW send, NEW a, Sound(a), Shutting(send, a), ServiceStep, UNCHANGED thread
  PROVE  Shutting(send, a)' /\ arm' = arm /\ vacuum' = vacuum
<1>1. UNCHANGED todo /\ UNCHANGED pc /\ UNCHANGED last
  BY DEF thread
<1>2. CASE todo = send /\ Between(a)
  <2>1. a.switch = FALSE
    BY SwitchForms DEF Shutting, Closes
  <2>2. Quiet(a.pose, a.grip)
    BY <1>2, <2>1, RestingLeg DEF Between, LegAt
  <2> QED
    BY <2>2, QuietStays
<1>3. CASE todo = <<>> /\ last = Close /\ Closing
  BY <1>1, <1>3, ClosingServe DEF Shutting, Closes
<1> QED
  BY <1>2, <1>3 DEF Shutting

-----------------------------------------------------------------------------
(* The client *)

\* What its requests write, and where they lead.
ClientPoses == {Client!Goal("pose"), Client!Goal("joints"), Elsewhere}
ClientCommands == [name : Motions, goal : {Client!Goal("pose"), Client!Goal("joints")}] \cup {Stop}

\* The client has failed with its only request, which the service may still carry out,
\* and never touches the vacuum.
ClientCourse ==
  /\ Kinds(Client!Methods, ClientCommands, ClientPoses)
  /\ vacuum = 0
  /\ pc = "call" => last = NoRequest /\ \E r \in Client!Methods : todo = <<Failing(r)>>
  /\ pc # "wait" /\ state = "INIT" /\ (pc = "gone" => todo = <<>>)

\* A method of the client commands a motion or sets an output that is not the vacuum.
LEMMA MethodsFit ==
  /\ \A r \in Client!Methods : r.mode = "DO" => r.pin # VacuumPin
  /\ Fit(Client!Methods, ClientCommands, ClientPoses)
<1>1. ASSUME NEW n \in Motions, NEW k \in {"pose", "joints"}, NEW h \in BOOLEAN
      PROVE  /\ Client!generate_robot_request(n, k, h).mode # "DO"
             /\ Client!generate_robot_request(n, k, h).writes \subseteq ClientCommands
  BY <1>1 DEF Client!generate_robot_request, Client!Motion, Motions, ClientCommands
<1>2. \A h \in BOOLEAN :
        Client!call_motor_excite(h).mode # "DO" /\ Client!call_motor_excite(h).writes = {}
  BY DEF Client!call_motor_excite, Client!Plain
<1>3. \A h \in BOOLEAN, v \in {0, 1} :
        /\ Client!call_do(v, h).writes = {} /\ Client!call_do(v, h).on = v
        /\ Client!call_do(v, h).pin = Client!ClientPin
  BY DEF Client!call_do, Client!Output
<1>4. Client!call_modbus_close.mode # "DO" /\ Client!call_modbus_close.writes = {}
  BY DEF Client!call_modbus_close, Client!Plain
<1>5. ASSUME NEW r \in Client!Methods
      PROVE  /\ r.writes \subseteq ClientCommands
             /\ r.mode = "DO" => r.pin = Client!ClientPin /\ r.on \in {0, 1}
  BY <1>1, <1>2, <1>3, <1>4, MethodForms
<1>6. Client!ClientPin # VacuumPin
  BY DEF Client!ClientPin, VacuumPin
<1>7. \A c \in ClientCommands : c.name \in Motions => c.goal \in ClientPoses
  BY DEF ClientCommands, ClientPoses, Stop, Motions
<1> QED
  BY <1>5, <1>6, <1>7, ProgramConstants DEF Fit, ClientPoses

\* No pose of the client is in a cabinet.
LEMMA ClientOutside == ClientPoses \cap Confined = {}
<1>1. \A k : Client!Goal(k).base = 0
  BY DEF Client!Goal
<1> QED
  BY <1>1, ConfinedWhere, Unconfined DEF ClientPoses

\* Whatever the service does for the client.
LEMMA ClientServe ==
  ASSUME ClientCourse, ServiceStep, UNCHANGED thread
  PROVE  ClientCourse'
<1>1. Kinds(Client!Methods, ClientCommands, ClientPoses)'
  BY KindsStep, MethodsFit DEF ClientCourse
<1>2. vacuum' = 0
  <2>1. \/ out' = out
        \/ serving # NoRequest /\ serving.mode = "DO" /\ out' = [out EXCEPT ![serving.pin] = serving.on]
    BY DEF ServiceStep, Dispatch, Accept, Execute, Write, Prepare, Trigger, Poll, Reply, Answer,
       Move, Perform, Halt, TakeSetting, Die, Crash
  <2>2. out \in [Pins -> {0, 1}] /\ serving \in Client!Methods \cup {NoRequest} /\ out[VacuumPin] = 0
    BY DEF ClientCourse, Kinds, vacuum
  <2> QED
    BY <2>1, <2>2, MethodsFit, ServiceConstants DEF vacuum
<1>3. UNCHANGED pc /\ UNCHANGED last /\ UNCHANGED todo /\ UNCHANGED state
  BY DEF thread
<1> QED
  BY <1>1, <1>2, <1>3 DEF ClientCourse

\* What it does itself.
LEMMA ClientThread ==
  ASSUME ClientCourse, Thread
  PROVE  ClientCourse'
<1>1. Send
  <2>1. pc = "call" => todo # <<>>
    BY SendForms DEF ClientCourse
  <2> QED
    BY <2>1 DEF ClientCourse, Thread, Returned, Leave
<1>2. PICK r \in Client!Methods : todo = <<Failing(r)>>
  BY <1>1 DEF ClientCourse, Send
<1>3. Head(todo) = Failing(r) /\ Tail(todo) = <<>> /\ Failing(r).how = "fail" /\ Failing(r).req = r
  BY <1>2, SendForms DEF Failing
<1>4. /\ pc' = "gone" /\ todo' = <<>> /\ UNCHANGED state
      /\ requests' = Append(requests, r) \/ requests' = requests
      /\ UNCHANGED <<contract, arm, shown>>
  BY <1>1, <1>3 DEF Send
<1>5. Append(requests, r) \in Seq(Client!Methods) /\ requests \in Seq(Client!Methods)
  BY AppendProperties DEF ClientCourse, Kinds
<1> QED
  BY <1>4, <1>5 DEF ClientCourse, Kinds, contract, vacuum

-----------------------------------------------------------------------------
(* The course of a program *)

\* What the handler of the present state found, what it sends, and what it leaves.
Here  == At(program, state, cnt)
Sent  == Handlers(program, cnt)[state].send
There == At(program, Handlers(program, cnt)[state].next, After(state, cnt))

Course ==
  /\ Typing
  /\ program = "client" => ClientCourse
  /\ program # "client" /\ state = "FINISH" => pc = "gone" /\ Closing
  /\ program # "client" /\ state = "CLOSE_ROBOT" => Shutting(Sent, Here)
  /\ program # "client" /\ state \notin {"CLOSE_ROBOT", "FINISH"} => Doing(Sent, Here, There)

\* What the handler finds and leaves is what a leg may be.
LEMMA CourseSound ==
  ASSUME Typing, program # "client", state # "FINISH"
  PROVE  /\ Reach(program, state, cnt) /\ Sound(Here)
         /\ Reach(program, Handlers(program, cnt)[state].next, After(state, cnt)) /\ Sound(There)
         /\ Routed(program, state, cnt, Handlers(program, cnt)[state])
         /\ state # "CLOSE_ROBOT" => Does(Sent, Here, There)
<1>1. Reach(program, state, cnt)
  BY DEF Typing, Threaded
<1>2. Routed(program, state, cnt, Handlers(program, cnt)[state])
  BY <1>1, Route
<1>3. Reach(program, Handlers(program, cnt)[state].next, After(state, cnt))
  BY <1>2 DEF Routed
<1>4. Sound(Here)
  BY <1>1, AtPossible DEF Sound, Here
<1>5. Sound(There)
  BY <1>3, AtPossible DEF Sound, There
<1>6. state # "CLOSE_ROBOT" => Does(Sent, Here, There)
  BY <1>2 DEF Routed, Sent, Here, There
<1> QED
  BY <1>1, <1>2, <1>3, <1>4, <1>5, <1>6

\* The arm starts where nobody knows, with a table that holds a stop.
LEMMA CourseInit == Init => Course
<1> SUFFICES ASSUME Init PROVE Course
  OBVIOUS
<1>1. Typing
  BY TypingInit
<1>2. CASE program = "client"
  <2>1. PICK r \in Client!Methods : todo = Client!call_hiwin(r).send
    BY <1>2 DEF Init
  <2>2. todo = <<Failing(r)>>
    BY <2>1 DEF Client!call_hiwin, Client!Step, Client!Failing, Failing
  <2>3. <<>> \in Seq(Client!Methods) /\ <<>> \in Seq(ClientCommands) /\ Stop \in ClientCommands
        /\ Elsewhere \in ClientPoses /\ [p \in Pins |-> 0] \in [Pins -> {0, 1}]
    BY DEF ClientCommands, ClientPoses
  <2>4. Kinds(Client!Methods, ClientCommands, ClientPoses) /\ vacuum = 0
    BY <2>3, ServiceConstants DEF Init, ServiceInit, Kinds, vacuum
  <2>5. ClientCourse
    BY <2>2, <2>4 DEF Init, ClientCourse
  <2> QED
    BY <1>1, <1>2, <2>5 DEF Course
<1>3. CASE program # "client"
  <2>1. /\ program \in {"first", "long", "io", "hand"} /\ state = "INIT" /\ cnt = 0
        /\ todo = <<>> /\ pc = "call" /\ last = NoRequest /\ ServiceInit(Elsewhere)
    BY <1>3, ProgramConstants DEF Init
  <2>2. Sent = <<>>
    <3>1. CASE program = "first"
      BY <2>1, <3>1, CabinetTable DEF Sent, Handlers, Step
    <3>2. CASE program = "long"
      BY <2>1, <3>2, LongTable DEF Sent, Handlers, Step
    <3>3. CASE program = "io"
      BY <2>1, <3>3, TrialTable DEF Sent, Handlers, Step
    <3>4. CASE program = "hand"
      <4>1. 0 \in 0 .. Hand!NumPoses
        BY DEF Hand!NumPoses
      <4>2. Calibration(0)["INIT"] = Step(<<>>, "BROADCASTE_POSE")
        BY <4>1, CalibrationTable
      <4> QED
        BY <2>1, <3>4, <4>2 DEF Sent, Handlers, Step
    <3> QED
      BY <2>1, <3>1, <3>2, <3>3, <3>4
  <2>3. /\ Here.pose = Elsewhere /\ Here.grip = 0 /\ ~Here.switch /\ Here.back = {Stop}
    BY <2>1, AtParts DEF Here, Stand, FirstStands, LongStands, TrialStands, Loaded, Carrying, Switched,
       Untold
  <2>4. Leg(FALSE, <<>>, Elsewhere, 0, {Stop})
    <3>1. [p \in Pins |-> 0] \in [Pins -> {0, 1}]
      OBVIOUS
    <3>2. Behind(FALSE, <<>>, Elsewhere, 0)
      BY <2>1, ServiceConstants DEF ServiceInit, Behind, Standing, vacuum
    <3> QED
      BY <2>1, <3>1, <3>2 DEF ServiceInit, Leg
  <2>5. Sound(Here)
    BY <1>1, <1>3, <2>1, CourseSound
  <2>6. Here.switch = FALSE
    BY <2>3, <2>5, SwitchForms
  <2>7. Between(Here)
    BY <2>1, <2>3, <2>4, <2>6 DEF Between, LegAt, Logged
  <2> QED
    BY <1>1, <1>3, <2>1, <2>2, <2>7 DEF Course, Doing
<1> QED
  BY <1>2, <1>3

\* While a handler runs, what it found, sends and leaves stays the same.
LEMMA HandlerKept ==
  ASSUME UNCHANGED <<program, state, cnt>>,
         NEW s, NEW h, NEW z, s = Sent, h = Here, z = There
  PROVE  /\ Shutting(s, h)' => Shutting(Sent, Here)'
         /\ Doing(s, h, z)' => Doing(Sent, Here, There)'
<1>1. Sent' = s /\ Here' = h /\ There' = z
  BY DEF Sent, Here, There
<1>2. /\ Between(h)' => Between(Here)'
      /\ Between(z)' => Between(There)'
  BY <1>1 DEF Between, Logged, LegAt
<1>3. Underway(s, h, z)' => Underway(Sent, Here, There)'
  BY <1>1 DEF Underway, LegAt
<1>4. Looking(s, h, z)' => Looking(Sent, Here, There)'
  BY <1>1 DEF Looking, LegAt
<1>5. Rested(s, h, z)' => Rested(Sent, Here, There)'
  BY <1>1, <1>2 DEF Rested
<1> QED
  BY <1>1, <1>2, <1>3, <1>4, <1>5 DEF Shutting, Doing

\* The service keeps the course.
LEMMA CourseServe ==
  ASSUME NothingUnseen, Course, Serve
  PROVE  Course'
<1>1. ServiceStep /\ UNCHANGED thread
  BY DEF Serve
<1>2. UNCHANGED <<program, state, todo, pc, last, cnt, transform>>
  BY <1>1 DEF thread
<1>3. Typing'
  <2>1. Kinds(Requests, Commands, Places)'
    BY <1>1, KindsStep, ProgramsFit DEF Course, Typing
  <2> QED
    BY <1>2, <2>1 DEF Course, Typing, Threaded
<1>4. program = "client" => ClientCourse'
  BY <1>1, ClientServe DEF Course
<1>5. program # "client" /\ state = "FINISH" => Closing'
  BY <1>1, ClosingServe DEF Course
<1>6. PICK s, h, z : s = Sent /\ h = Here /\ z = There
  OBVIOUS
<1>7. ASSUME program # "client", state = "CLOSE_ROBOT"
      PROVE  Shutting(Sent, Here)'
  <2>1. Sound(h) /\ Shutting(s, h)
    BY <1>6, <1>7, CourseSound DEF Course
  <2>2. Shutting(s, h)'
    BY <1>1, <2>1, ShuttingServe
  <2> QED
    BY <1>2, <1>6, <2>2, HandlerKept
<1>8. ASSUME program # "client", state \notin {"CLOSE_ROBOT", "FINISH"}
      PROVE  Doing(Sent, Here, There)'
  <2>1. Sound(h) /\ Sound(z) /\ Doing(s, h, z)
    BY <1>6, <1>8, CourseSound DEF Course
  <2>2. Doing(s, h, z)'
    BY <1>1, <2>1, DoingServe
  <2> QED
    BY <1>2, <1>6, <2>2, HandlerKept
<1> QED
  BY <1>2, <1>3, <1>4, <1>5, <1>7, <1>8 DEF Course

\* So does the thread while a handler runs.
LEMMA CourseRuns ==
  ASSUME Course, program # "client", Send \/ Returned
  PROVE  Course'
<1>1. UNCHANGED <<program, state, cnt>> /\ pc \in {"call", "wait"}
  BY DEF Send, Returned
<1>2. Typing'
  BY TypingThread DEF Course, Thread
<1>3. state # "FINISH"
  BY <1>1 DEF Course
<1>4. PICK s, h, z : s = Sent /\ h = Here /\ z = There
  OBVIOUS
<1>5. ASSUME state = "CLOSE_ROBOT"
      PROVE  Shutting(Sent, Here)'
  <2>1. Sound(h) /\ Shutting(s, h)
    BY <1>3, <1>4, <1>5, CourseSound DEF Course
  <2>2. CASE Send
    BY <1>1, <1>4, <2>1, <2>2, ShuttingSend, HandlerKept
  <2>3. CASE Returned
    <3>1. pc = "wait" /\ UNCHANGED <<todo, last>> /\ UNCHANGED <<moves, requests, serving, stage>>
      BY <2>3 DEF Returned, service, contract
    <3>2. Shutting(s, h)'
      BY <2>1, <3>1 DEF Shutting, Between, Closing
    <3> QED
      BY <1>1, <1>4, <3>2, HandlerKept
  <2> QED
    BY <2>2, <2>3
<1>6. ASSUME state # "CLOSE_ROBOT"
      PROVE  Doing(Sent, Here, There)'
  <2>1. Sound(h) /\ Sound(z) /\ Does(s, h, z) /\ Doing(s, h, z)
    BY <1>3, <1>4, <1>6, CourseSound DEF Course
  <2>2. Doing(s, h, z)'
    BY <2>1, DoingSend, DoingReturned
  <2> QED
    BY <1>1, <1>4, <2>2, HandlerKept
<1> QED
  BY <1>1, <1>2, <1>3, <1>5, <1>6 DEF Course

\* From handler to handler.
LEMMA CourseLeaves ==
  ASSUME Course, program # "client", Leave
  PROVE  Course'
<1>1. /\ pc = "call" /\ todo = <<>> /\ UNCHANGED <<program, last, transform, service>>
      /\ cnt' = After(state, cnt) /\ state' = Handlers(program, cnt)[state].next
  BY DEF Leave, After
<1>2. Typing'
  BY TypingThread DEF Course, Thread
<1>3. state # "FINISH"
  BY <1>1 DEF Course
<1>4. /\ Sound(Here) /\ Sound(There) /\ Reach(program, state', cnt')
      /\ Routed(program, state, cnt, Handlers(program, cnt)[state])
      /\ state # "CLOSE_ROBOT" => Does(Sent, Here, There)
  BY <1>1, <1>3, CourseSound DEF Course
<1>5. CASE state = "CLOSE_ROBOT"
  <2>1. state' = "FINISH"
    BY <1>1, <1>4, <1>5 DEF Routed
  <2>2. pc' = "gone"
    BY <1>4, <2>1, NoFinish DEF Leave
  <2>3. Closing
    BY <1>1, <1>5, SendForms DEF Course, Shutting, Closes
  <2>4. Closing'
    BY <1>1, <2>3 DEF Closing, service, contract
  <2> QED
    BY <1>1, <1>2, <2>1, <2>2, <2>4 DEF Course
<1>6. CASE state # "CLOSE_ROBOT"
  <2>1. state' # "FINISH"
    BY <1>1, <1>4, <1>6 DEF Routed
  <2>2. /\ state' \in DOMAIN Handlers(program, cnt')
        /\ Routed(program, state', cnt', Handlers(program, cnt')[state'])
    BY <1>4, <2>1, Route
  <2>3. pc' = "call" /\ todo' = Sent'
    BY <1>1, <2>2 DEF Leave, Sent
  <2>4. PICK z : z = There
    OBVIOUS
  <2>5. Here' = z
    BY <1>1, <2>4 DEF Here, There
  <2>6. Between(z)
    <3>1. Doing(Sent, Here, There) /\ Does(Sent, Here, There)
      BY <1>3, <1>4, <1>6 DEF Course
    <3> QED
      BY <1>1, <1>4, <2>4, <3>1, DoingLeave
  <2>7. LegAt(<<>>, z)'
    BY <1>1, <2>6, LegKept DEF Between, LegAt
  <2>8. Between(z)'
    BY <1>1, <2>3, <2>6, <2>7 DEF Between, Logged
  <2>9. Between(Here)'
    BY <2>5, <2>8 DEF Between, Logged, LegAt
  <2>10. state' = "CLOSE_ROBOT" => Closes(Sent, Here)'
    BY <1>1, <2>2 DEF Routed, Closes, Sent, Here
  <2>11. state' = "CLOSE_ROBOT" => Shutting(Sent, Here)'
    BY <2>3, <2>9, <2>10 DEF Shutting
  <2>12. Doing(Sent, Here, There)'
    BY <2>3, <2>9 DEF Doing
  <2> QED
    BY <1>1, <1>2, <2>1, <2>11, <2>12 DEF Course
<1> QED
  BY <1>5, <1>6

\* Every step keeps the course, as long as no call is refused.
LEMMA CourseStep ==
  ASSUME NothingUnseen, Course, [Next]_vars
  PROVE  Course'
<1>1. CASE Serve
  BY <1>1, CourseServe
<1>2. CASE Thread /\ program # "client"
  BY <1>2, CourseRuns, CourseLeaves DEF Thread
<1>3. CASE Thread /\ program = "client"
  <2>1. ClientCourse' /\ Typing'
    BY <1>3, ClientThread, TypingThread DEF Course
  <2>2. program' = program
    BY <1>3 DEF Thread, Send, Returned, Leave
  <2> QED
    BY <1>3, <2>1, <2>2 DEF Course
<1>4. CASE UNCHANGED vars
  <2>1. UNCHANGED <<program, state, cnt>> /\ UNCHANGED <<todo, pc, last, transform>> /\ UNCHANGED service
    BY <1>4 DEF vars, thread
  <2>2. UNCHANGED <<requests, arm, shown, serving, stage, table, fresh, moves, out, link>>
    BY <2>1 DEF service, contract
  <2>3. Typing'
    BY <2>1, <2>2 DEF Course, Typing, Threaded, Kinds
  <2>4. program = "client" => ClientCourse'
    BY <2>1, <2>2 DEF Course, ClientCourse, Kinds, vacuum
  <2>5. PICK s, h, z : s = Sent /\ h = Here /\ z = There
    OBVIOUS
  <2>6. Closing => Closing'
    BY <2>2 DEF Closing
  <2>7. \A asked, w : LegAt(asked, w) => LegAt(asked, w)'
    BY <2>1, LegKept DEF LegAt
  <2>8. \A w : Between(w) => Between(w)'
    BY <2>1, <2>7 DEF Between, Logged
  <2>9. Shutting(s, h) => Shutting(s, h)'
    BY <2>1, <2>6, <2>8 DEF Shutting
  <2>10. Doing(s, h, z) => Doing(s, h, z)'
    BY <2>1, <2>7, <2>8 DEF Doing, Underway, Looking, Rested
  <2> QED
    BY <2>1, <2>3, <2>4, <2>5, <2>6, <2>9, <2>10, HandlerKept DEF Course
<1> QED
  BY <1>1, <1>2, <1>3, <1>4 DEF Next

\* The course is kept from the start.
LEMMA CourseAlways ==
  ASSUME NothingUnseen
  PROVE  Spec => []Course
BY CourseInit, CourseStep, PTL DEF Spec

-----------------------------------------------------------------------------
(* What the programs do *)

\* An output that nobody awaited and that ends the hold was sent at a place.
LEMMA ReleasedWhere ==
  ASSUME NEW p, NEW s, NEW c, Reach(p, s, c), At(p, s, c).switch, At(p, s, c).grip = 0
  PROVE  At(p, s, c).pose \in PlacePoses
<1>1. s \in Switched(p) /\ s \notin Loaded
  BY AtParts
<1>2. s \in {"UPPER_UP_MOVE", "FINAL_HOME_MOVE"}
  BY <1>1 DEF Switched, Loaded, Carrying
<1>3. CASE p = "io"
  <2>1. s = "FINAL_HOME_MOVE"
    BY <1>1, <1>2, <1>3 DEF Switched
  <2> QED
    BY <1>3, <2>1, AtParts DEF Stand, TrialStands, PlacePoses
<1>4. CASE p # "io"
  <2>1. s = "UPPER_UP_MOVE" /\ p \in {"first", "long"}
    BY <1>1, <1>2, <1>4 DEF Switched, Reach
  <2> QED
    BY <2>1, AtParts DEF Stand, FirstStands, LongStands, PlacePoses
<1> QED
  BY <1>3, <1>4

\* What is seen of the arm and the vacuum, at any step of any program.
LEMMA Seen ==
  ASSUME NothingUnseen, Course, [Next]_vars
  PROVE  /\ arm' # arm =>
              /\ Smooth(Head(moves).name, arm, arm')
              /\ state \in Carrying => vacuum = 1
         /\ vacuum = 1 /\ vacuum' = 0 => arm \in PlacePoses /\ moves = <<>>
<1>1. CASE Thread \/ UNCHANGED vars
  BY <1>1 DEF Thread, Send, Returned, Leave, vars, service, contract, vacuum
<1>2. CASE Serve /\ program = "client"
  <2>1. ClientCourse /\ ClientCourse'
    BY <1>2, ClientServe DEF Serve, Course
  <2>2. arm \notin Confined /\ arm' \notin Confined
    BY <2>1, ClientOutside DEF ClientCourse, Kinds
  <2>3. state \notin Carrying /\ vacuum = 0
    BY <2>1 DEF ClientCourse, Carrying
  <2> QED
    BY <2>2, <2>3 DEF Smooth
<1>3. CASE Serve /\ program # "client" /\ state = "FINISH"
  BY <1>3, ClosingServe DEF Serve, Course
<1>4. CASE Serve /\ program # "client" /\ state = "CLOSE_ROBOT"
  <2>1. Sound(Here) /\ Shutting(Sent, Here)
    BY <1>4, CourseSound DEF Course
  <2> QED
    BY <1>4, <2>1, ShuttingServe DEF Serve
<1>5. CASE Serve /\ program # "client" /\ state \notin {"FINISH", "CLOSE_ROBOT"}
  <2>1. /\ Reach(program, state, cnt) /\ Sound(Here)
        /\ Reach(program, Handlers(program, cnt)[state].next, After(state, cnt)) /\ Sound(There)
        /\ Doing(Sent, Here, There)
    BY <1>5, CourseSound DEF Course
  <2>2. ServiceStep
    BY <1>5 DEF Serve
  <2>3. arm' # arm => Smooth(Head(moves).name, arm, arm') /\ vacuum = Here.grip
    BY <2>1, <2>2, DoingMoves
  <2>4. state \in Carrying => Here.grip = 1
    BY AtParts DEF Here, Loaded
  <2>5. ASSUME vacuum = 1, vacuum' = 0
        PROVE  arm \in PlacePoses /\ moves = <<>>
    <3>1. PICK w \in {Here, There} : w.switch /\ arm = w.pose /\ moves = <<>> /\ vacuum' = w.grip
      BY <2>1, <2>2, <2>5, DoingSwitches
    <3>2. w.pose \in PlacePoses
      BY <2>1, <2>5, <3>1, ReleasedWhere DEF Here, There
    <3> QED
      BY <3>1, <3>2
  <2> QED
    BY <2>3, <2>4, <2>5
<1> QED
  BY <1>1, <1>2, <1>3, <1>4, <1>5 DEF Next

\* call_hiwin of every program: the arm enters a cabinet, moves in it and leaves it on
\* straight lines from and to the poses in front of it.
THEOREM StraightInCabinets ==
  ASSUME NothingUnseen
  PROVE  Spec => EntersAlongALine
<1>1. ASSUME Course, [Next]_vars, arm' # arm, arm \in Confined \/ arm' \in Confined
      PROVE  /\ Head(moves).name = "LINE"
             /\ \/ arm \in Above
                \/ arm \in Goals /\ arm.kind = "pose" /\ arm.base = arm'.base
                   /\ Cardinality(Differ(arm, arm')) <= 1
  BY <1>1, Seen DEF Smooth, Straight
<1> QED
  BY <1>1, CourseAlways, PTL DEF Spec, EntersAlongALine

\* call_io, which awaits nothing: the object is carried with the vacuum on, and let go at
\* the place point by an arm at rest.
THEOREM HeldOnTheWay ==
  ASSUME NothingUnseen
  PROVE  Spec => CarriedUnderVacuum
<1>1. ASSUME Course, [Next]_vars
      PROVE  /\ arm' # arm /\ state \in Carrying => vacuum = 1
             /\ vacuum = 1 /\ vacuum' = 0 => arm \in PlacePoses /\ moves = <<>>
  BY <1>1, Seen
<1> QED
  BY <1>1, CourseAlways, PTL DEF Spec, CarriedUnderVacuum

\* A motion that is logged as complete is: the arm is at its goal.
THEOREM LoggedWhenThere ==
  ASSUME NothingUnseen
  PROVE  Spec => []DoneAsLogged
<1>1. ASSUME NEW w, Sound(w), Between(w), last # NoRequest, last.mode \in {"PTP", "LINE"}
      PROVE  moves = <<>> /\ \E c \in last.writes : arm = c.goal
  <2>1. PICK n \in {"PTP", "LINE"} : last = Motion(n, w.pose, TRUE)
    BY <1>1 DEF Between, Logged
  <2>2. w.switch = FALSE
    BY <1>1, SwitchForms DEF Between, Logged
  <2>3. moves = <<>> /\ arm = w.pose
    BY <1>1, <2>2, RestingLeg DEF Between, LegAt, Quiet
  <2>4. last.writes = {[name |-> n, goal |-> w.pose]}
    BY <2>1, RequestFields
  <2> QED
    BY <2>3, <2>4
<1>2. Course => DoneAsLogged
  <2> SUFFICES ASSUME Course, pc = "call", last # NoRequest, last.mode \in {"PTP", "LINE"}
               PROVE  moves = <<>> /\ \E c \in last.writes : arm = c.goal
    BY DEF DoneAsLogged
  <2>1. program # "client" /\ state # "FINISH"
    BY DEF Course, ClientCourse
  <2>2. Sound(Here) /\ Sound(There)
    BY <2>1, CourseSound DEF Course
  <2>3. CASE state = "CLOSE_ROBOT"
    <3>1. last # Close
      BY DEF Close, Plain
    <3> QED
      BY <1>1, <2>1, <2>2, <2>3, <3>1 DEF Course, Shutting
  <2>4. CASE state # "CLOSE_ROBOT"
    <3>1. Between(Here) \/ Between(There)
      BY <2>1, <2>4 DEF Course, Doing, Underway, Looking, Rested
    <3> QED
      BY <1>1, <2>2, <3>1
  <2> QED
    BY <2>3, <2>4
<1> QED
  BY <1>2, CourseAlways, PTL

\* The calibration broadcasts every pose of CALI_POSE as it was commanded.
THEOREM EveryPoseBroadcast ==
  ASSUME NothingUnseen
  PROVE  Spec => BroadcastsEveryPose
<1>1. Cardinality(DOMAIN Hand!CALI_POSE) = Hand!NumPoses
  <2>1. DOMAIN Hand!CALI_POSE = 0 .. Hand!NumPoses - 1
    BY DEF Hand!CALI_POSE
  <2>2. Cardinality(0 .. 21) = 22
    <3>1. 0 \in Int /\ 21 \in Int
      OBVIOUS
    <3>2. Cardinality(0 .. 21) = IF 0 > 21 THEN 0 ELSE 21 - 0 + 1
      BY <3>1, FS_Interval, Zenon
    <3> QED
      BY <3>2
  <2> QED
    BY <2>1, <2>2 DEF Hand!NumPoses
<1>2. ASSUME Course, Leave, program = "hand", state = "MOVE_TO_CALI_POSE"
      PROVE  transform = Hand!CALI_POSE[cnt]
  <2>1. /\ Sound(Here) /\ Sound(There) /\ Does(Sent, Here, There) /\ Doing(Sent, Here, There)
        /\ Reach("hand", state, cnt)
    BY <1>2, CourseSound DEF Course
  <2>2. cnt \in 0 .. Hand!NumPoses /\ cnt < Hand!NumPoses /\ cnt + 1 # 0 /\ cnt + 1 - 1 = cnt
    BY <1>2, <2>1 DEF Reach, Hand!NumPoses
  <2>3. Calibration(cnt)["MOVE_TO_CALI_POSE"] =
          Step(<<Awaited(Motion("PTP", Hand!CALI_POSE[cnt], TRUE)), Awaited(CheckPose)>>, "BROADCASTE_POSE")
    BY <2>2, CalibrationTable
  <2>4. /\ Sent = <<Awaited(Motion("PTP", Hand!CALI_POSE[cnt], TRUE)), Awaited(CheckPose)>>
        /\ There = At("hand", "BROADCASTE_POSE", cnt + 1)
    <3>1. Handlers(program, cnt)[state] = Calibration(cnt)["MOVE_TO_CALI_POSE"]
      BY <1>2 DEF Handlers
    <3>2. After(state, cnt) = cnt + 1
      BY <1>2 DEF After
    <3>3. /\ Handlers(program, cnt)[state].send =
               <<Awaited(Motion("PTP", Hand!CALI_POSE[cnt], TRUE)), Awaited(CheckPose)>>
          /\ Handlers(program, cnt)[state].next = "BROADCASTE_POSE"
      <4> DEFINE q == <<Awaited(Motion("PTP", Hand!CALI_POSE[cnt], TRUE)), Awaited(CheckPose)>>
      <4>1. Handlers(program, cnt)[state] = Step(q, "BROADCASTE_POSE")
        BY <2>3, <3>1, Zenon
      <4> HIDE DEF q
      <4>2. Handlers(program, cnt)[state].send = q /\ Handlers(program, cnt)[state].next = "BROADCASTE_POSE"
        BY <4>1 DEF Step
      <4> QED
        BY <4>2 DEF q
    <3> QED
      BY <1>2, <3>2, <3>3, Zenon DEF Sent, There
  <2>5. There.pose = Hand!CALI_POSE[cnt]
    BY <2>2, <2>4, AtParts DEF Stand
  <2>6. DrivesAndLooks(Sent, Here, There)
    BY <2>1, <2>4, SendForms DEF Does, Rests, Drives, MoveTo, Switches, Set, Looks
  <2>7. pc = "call" /\ todo = <<>>
    BY <1>2 DEF Leave
  <2> QED
    BY <2>1, <2>5, <2>6, <2>7, DoingLeave
<1>3. ASSUME Course, [Next]_vars, program = "hand"
      PROVE  /\ cnt' # cnt => cnt' = cnt + 1 /\ transform = Hand!CALI_POSE[cnt]
             /\ state' = "CLOSE_ROBOT" => cnt = Hand!NumPoses
  <2>1. CASE Leave
    <3>1. cnt' = After(state, cnt) /\ state' = Handlers(program, cnt)[state].next
      BY <2>1 DEF Leave, After
    <3>2. state # "FINISH"
      BY <1>3, <2>1 DEF Course, Leave
    <3>3. Reach("hand", state', cnt') /\ Reach("hand", state, cnt)
      BY <1>3, <3>1, <3>2, CourseSound DEF Course
    <3>4. CASE state = "MOVE_TO_CALI_POSE"
      <4>1. cnt \in 0 .. Hand!NumPoses /\ cnt < Hand!NumPoses
        BY <3>3, <3>4 DEF Reach
      <4>2. Calibration(cnt)["MOVE_TO_CALI_POSE"].next = "BROADCASTE_POSE"
        <5>1. Calibration(cnt)["MOVE_TO_CALI_POSE"] =
                Step(<<Awaited(Motion("PTP", Hand!CALI_POSE[cnt], TRUE)), Awaited(CheckPose)>>,
                     "BROADCASTE_POSE")
          BY <4>1, CalibrationTable
        <5>2. \A q, z : Step(q, z).next = z
          BY DEF Step
        <5> QED
          BY <5>1, <5>2
      <4> QED
        BY <1>2, <1>3, <2>1, <3>1, <3>4, <4>2 DEF After, Handlers
    <3>5. CASE state # "MOVE_TO_CALI_POSE"
      BY <3>1, <3>3, <3>5 DEF After, Reach
    <3> QED
      BY <3>4, <3>5
  <2>2. CASE ~Leave
    <3>1. state' = state /\ cnt' = cnt
      BY <1>3, <2>2 DEF Next, Thread, Send, Returned, Serve, thread, vars
    <3>2. Reach("hand", state, cnt)
      BY <1>3 DEF Course, Typing, Threaded
    <3> QED
      BY <3>1, <3>2 DEF Reach
  <2> QED
    BY <2>1, <2>2
<1>4. ASSUME Course, [Next]_vars
      PROVE  program = "hand" =>
               /\ cnt' # cnt => cnt' = cnt + 1 /\ transform = Hand!CALI_POSE[cnt]
               /\ state' = "CLOSE_ROBOT" => cnt = Cardinality(DOMAIN Hand!CALI_POSE)
  BY <1>1, <1>3, <1>4
<1> QED
  BY <1>4, CourseAlways, PTL DEF Spec, BroadcastsEveryPose
=============================================================================
