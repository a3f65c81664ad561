-------------------------- MODULE ThreePoints_proofs --------------------------
(* The safety of the three-point calibration, for any markers, any number of     *)
(* tries and pictures, and any late or lost call, and the frame it makes.        *)
EXTENDS ThreePoints, CommandService_proofs

-----------------------------------------------------------------------------
(* Where the program is *)

Places == Poses \cup {Elsewhere}

Unlooked == looked = 0 /\ found = 0 /\ sum = Vec(0, 0, 0)
Untouched == final_cali_pose = <<>> /\ contact = <<>> /\ new_base = <<>>

States == {"INIT", "MOVE_TO_PHOTO_POSE", "GET_CALI_POINT", "MOVE_TO_MARKER_UP",
           "MOVE_TO_CALI_POINT", "SET_NEW_BASE", "CLOSE_ROBOT", "FINISH"}

Counts ==
  /\ state \in States /\ pc \in {"call", "wait", "gone"}
  /\ looked \in 0 .. Looks /\ found \in 0 .. looked /\ sum \in Vector
  /\ cali_cnt \in 0 .. MaxTries + 1 /\ mistaken \in BOOLEAN
  /\ cali_pose \in Seq(Vector) /\ final_cali_pose \in Seq(Places) /\ contact \in Seq(Int)

\* How far the lists of points are: no marker was found; the markers are looked at;
\* the points are touched; all are.
NoPoints ==
  /\ state \in {"INIT", "MOVE_TO_PHOTO_POSE", "GET_CALI_POINT", "CLOSE_ROBOT", "FINISH"}
  /\ Unlooked /\ i = 0 /\ cali_pose = <<>> /\ Untouched

TwoPoints ==
  /\ state = "MOVE_TO_MARKER_UP" /\ at \in {"next", "look", "refine"}
  /\ i \in 1 .. 3 /\ Len(cali_pose) = 2 /\ Untouched
  /\ at = "next" => Unlooked
  /\ at # "next" => i <= 2
  /\ at = "refine" => found # 0

ThreePts ==
  /\ state = "MOVE_TO_CALI_POINT" /\ at \in {"next", "poll", "record"} /\ Unlooked
  /\ i \in 1 .. 4 /\ Len(cali_pose) = 3 /\ new_base = <<>>
  /\ Len(final_cali_pose) = i - 1
  /\ at = "next" => Len(contact) = i - 1
  /\ at # "next" => i <= 3 /\ Len(contact) = i

AllTouched ==
  /\ state \in {"SET_NEW_BASE", "FINISH"} /\ Unlooked
  /\ i = 4 /\ Len(cali_pose) = 3 /\ Len(contact) = 3 /\ Len(final_cali_pose) = 3
  /\ new_base = IF Elsewhere \in {final_cali_pose[k] : k \in 1 .. 3} THEN Elsewhere
                 ELSE get_vector(final_cali_pose[1], final_cali_pose[2], final_cali_pose[3])

Control == Counts /\ (NoPoints \/ TwoPoints \/ ThreePts \/ AllTouched)

Times(n, v) == Vec(n * v.x, n * v.y, n * v.z)

\* Whose points they are, unless a picture of one marker showed another first.
Marked ==
  ~mistaken =>
    /\ state = "MOVE_TO_MARKER_UP" =>
         /\ \E m \in Markers \ {ORIGIN_ID} :
              cali_pose[1] = Lies[ORIGIN_ID] /\ cali_pose[2] = Lies[m]
         /\ i <= 2 => sum = Times(found, cali_pose[i])
    /\ Len(cali_pose) = 3 =>
         \E m \in Markers \ {ORIGIN_ID} :
           /\ cali_pose[1] = Lies[ORIGIN_ID] /\ cali_pose[3] = Lies[m]
           /\ cali_pose[2] = Raised(Lies[ORIGIN_ID], 40, 15, 0)

-----------------------------------------------------------------------------
(* What it sends *)

UpPose   == Pose(Raised(cali_pose[i], 0, 0, 9), angular)
DownPose == Pose(Raised(cali_pose[i], 0, 0, 5), angular)
Lowering == Motion("LINE", DownPose, FALSE)
Lowered  == [name |-> "LINE", goal |-> DownPose]
StopNow  == Motion("MOTION_STOP", Elsewhere, FALSE)

PTPs == {PTP(q) : q \in Poses}
Frames == Bases \cup {Elsewhere}

Requests ==
  PTPs \cup {Motion("LINE", q, FALSE) : q \in Poses}
  \cup {CheckPose, CHECK_POSE(FALSE), READ_DI, StopNow, Plain("CLOSE", TRUE)}
  \cup {Motion("SET_BASE", b, FALSE) : b \in Frames}

Commands ==
  [name : {"PTP", "LINE"}, goal : Poses] \cup {Stop} \cup [name : {"SET_BASE"}, goal : Frames]

\* What is left to send in each state: motions that are awaited and looks at the pose,
\* but for the descent and for the stop after it.
AtMostALook(s) == s = <<>> \/ s = <<CheckPose>>
AtMostADrive(s) == s = <<>> \/ (\E r \in PTPs : s = <<r>>)

Lists ==
  /\ pc = "gone" => todo = <<>> /\ state \in {"MOVE_TO_MARKER_UP", "FINISH"}
  /\ pc = "wait" => todo # <<>>
  /\ \/ state = "INIT" /\ at = "start" /\ todo = <<>>
     \/ state = "MOVE_TO_PHOTO_POSE" /\ at = "moved" /\ AtMostADrive(todo)
     \/ /\ state = "GET_CALI_POINT" /\ at = "look"
        /\ AtMostALook(todo) \/ (\E r \in PTPs : todo = <<r, CheckPose>>)
     \/ state = "MOVE_TO_MARKER_UP" /\ at \in {"next", "refine"} /\ AtMostALook(todo)
     \/ state = "MOVE_TO_MARKER_UP" /\ at = "look" /\ AtMostADrive(todo)
     \/ /\ state = "MOVE_TO_CALI_POINT" /\ at = "next"
        /\ \/ AtMostALook(todo) \/ AtMostADrive(todo)
           \/ \E q, r \in PTPs : todo \in {<<StopNow, q, r>>, <<q, r>>}
     \/ /\ state = "MOVE_TO_CALI_POINT" /\ at = "poll"
        /\ todo \in {<<PTP(UpPose), Lowering, READ_DI>>, <<Lowering, READ_DI>>, <<READ_DI>>, <<>>}
     \/ /\ state = "MOVE_TO_CALI_POINT" /\ at = "record"
        /\ todo \in {<<CHECK_POSE(FALSE)>>, <<>>}
     \/ /\ state = "SET_NEW_BASE" /\ at = "sent"
        /\ todo \in {<<Motion("SET_BASE", new_base, FALSE)>>, <<>>}
     \/ state = "CLOSE_ROBOT" /\ at = "sent" /\ todo \in {<<Plain("CLOSE", TRUE)>>, <<>>}
     \/ state = "FINISH" /\ at = "sent" /\ todo = <<>> /\ pc = "gone"

-----------------------------------------------------------------------------
(* What the service and the arm do meanwhile *)

\* One request is asked at a time, and one that is held is answered at rest.
Queue ==
  /\ pc # "wait" => requests = <<>> /\ serving = NoRequest
  /\ pc = "wait" =>
       \/ requests = <<Head(todo)>> /\ serving = NoRequest
       \/ requests = <<>> /\ serving = Head(todo) /\ serving # NoRequest
       \/ /\ requests = <<>> /\ serving = NoRequest
          /\ Head(todo).holding /\ state # "CLOSE_ROBOT" => link = "up" /\ moves = <<>>
  /\ link = "closed" \/ stage = "dead" => state \in {"CLOSE_ROBOT", "FINISH"}

\* The request in progress has made its calls.
Made == requests = <<>> /\ (serving # NoRequest => stage = "done")

\* Over a point, where the descent begins, where it ends, or between.
Over(p, k) ==
  /\ p \in Poses
  /\ p.x = cali_pose[k].x /\ p.y = cali_pose[k].y
  /\ p.z \in cali_pose[k].z + 5 .. cali_pose[k].z + 9

\* Moreover not above where the probe touches.
Under(p, k) == Over(p, k) /\ p.z <= contact[k]

\* The LINE was sent; it is not held.
Sinking ==
  link = "up" =>
    /\ Over(arm, i)
    /\ \/ moves = <<>> /\ requests # <<>>
       \/ moves = <<>> /\ serving # NoRequest /\ stage = "write"
       \/ moves = <<>> /\ serving # NoRequest /\ stage = "trigger" /\ table = Lowered
       \/ Made /\ moves \in {<<>>, <<Lowered>>}

\* The input is read while it lowers the arm, then the pose.
Watched ==
  link = "up" =>
    /\ Over(arm, i) /\ moves \in {<<>>, <<Lowered>>}
    /\ serving # NoRequest => stage \in {"write", "done"}
    /\ at = "poll" /\ (todo = <<>> \/ (pc = "wait" /\ Made)) /\ digital_state => Under(arm, i)
    /\ at = "record" =>
         /\ Under(arm, i)
         /\ pc = "wait" /\ Made => Under(shown, i)
         /\ todo = <<>> => Under(current_position, i)

Asked == IF pc = "wait" THEN <<Head(todo)>> ELSE <<>>

\* The arm stands, or is on a leg whose end is awaited.
Resting == \E from \in Poses, grip \in {0, 1} : Leg(FALSE, Asked, from, grip, Commands)

\* The LINE has been sent, or is to be sent next.
Lowers == state = "MOVE_TO_CALI_POINT" /\ at = "poll" /\ Len(todo) = 2

Rests ==
  \/ state \in {"INIT", "MOVE_TO_PHOTO_POSE", "GET_CALI_POINT", "MOVE_TO_MARKER_UP"}
  \/ state = "MOVE_TO_CALI_POINT" /\ at = "next" /\ Len(todo) <= 1
  \/ state = "MOVE_TO_CALI_POINT" /\ at = "poll" /\ Len(todo) = 3
  \/ Lowers /\ pc = "call"

Watches ==
  state = "MOVE_TO_CALI_POINT" /\ (at = "record" \/ (at = "poll" /\ Len(todo) <= 1))

\* Where the arm is.
Course ==
  /\ Rests => Resting
  /\ Lowers /\ pc = "call" => arm = UpPose
  /\ Lowers /\ pc = "wait" => Sinking
  /\ Watches => Watched

\* A pose that was shown is one of the arm's.
Shows ==
  link = "up" =>
    /\ current_position # Elsewhere => shown \in Poses
    /\ (state \in {"MOVE_TO_MARKER_UP", "MOVE_TO_CALI_POINT"}
         \/ (state = "GET_CALI_POINT" /\ todo = <<>>)) => current_position \in Poses

Recorded == link = "up" => \A k \in DOMAIN final_cali_pose : Under(final_cali_pose[k], k)

Typing ==
  /\ Kinds(Requests, Commands, Places) /\ arm \in Poses
  /\ current_position \in Places /\ angular \in Int /\ digital_state \in BOOLEAN

-----------------------------------------------------------------------------
(* Types *)

\* What the program makes of points and tilts are poses.
LEMMA PosesTyped ==
  /\ PHOTO_POSE \in Poses
  /\ \A v \in Vector, t \in Int : Pose(v, t) \in Poses
  /\ \A v \in Vector : [v EXCEPT !.z = 8] \in Vector
  /\ \A p \in Poses : [p EXCEPT !.tilt = @ + 1] \in Poses
  BY DEF PHOTO_POSE, Pose, Poses, Vec, Vector

\* A point beside another is a point.
LEMMA RaisedTyped ==
  ASSUME NEW v \in Vector, NEW a \in Int, NEW b \in Int, NEW c \in Int
  PROVE  Raised(v, a, b, c) \in Vector
  BY DEF Raised, Vec, Vector

\* The requests write commands, and none of them is an output.
LEMMA Fits == Fit(Requests, Commands, Places)
<1>1. ASSUME NEW r \in Requests
      PROVE  r.writes \subseteq Commands /\ r.mode # "DO"
  BY <1>1 DEF Requests, Commands, PTPs, PTP, Motion, CheckPose, CHECK_POSE, READ_DI, StopNow, Plain, Stop
<1>2. ASSUME NEW c \in Commands, c.name \in Motions
      PROVE  c.goal \in Places
  BY <1>2 DEF Commands, Motions, Stop, Places
<1> QED
  BY <1>1, <1>2 DEF Fit, Places

\* A frame of poses is one the base may be set to.
LEMMA FrameTyped ==
  ASSUME NEW p \in Poses, NEW q \in Poses, NEW r \in Poses
  PROVE  get_vector(p, q, r) \in Bases
<1>1. Minus(r, p) \in Vector /\ Minus(q, p) \in Vector
  BY DEF Minus, Vec, Vector, Poses
<1>2. \A a, b \in Vector : Cross(a, b) \in Vector
  BY DEF Cross, Vec, Vector
<1> HIDE DEF Vector
<1> QED
  BY <1>1, <1>2 DEF get_vector, Bases

\* The point the program is at, and the ends of the descent to it.
LEMMA UpTyped ==
  ASSUME Control, angular \in Int, state = "MOVE_TO_CALI_POINT", at # "next"
  PROVE  cali_pose[i] \in Vector /\ UpPose \in Poses /\ DownPose \in Poses
<1>1. ThreePts /\ cali_pose \in Seq(Vector)
  BY DEF Control, Counts, NoPoints, TwoPoints, AllTouched
<1>2. i \in 1 .. Len(cali_pose)
  BY <1>1 DEF ThreePts
<1>3. cali_pose[i] \in Vector
  BY <1>1, <1>2
<1>4. Raised(cali_pose[i], 0, 0, 9) \in Vector /\ Raised(cali_pose[i], 0, 0, 5) \in Vector
  BY <1>3, RaisedTyped
<1> QED
  BY <1>3, <1>4, PosesTyped DEF UpPose, DownPose

\* What is left to send is made of the program's requests.
LEMMA ListsTyped ==
  ASSUME Control, Lists, angular \in Int
  PROVE  todo \in Seq(Requests)
<1>1. PTPs \subseteq Requests /\ {CheckPose, CHECK_POSE(FALSE), READ_DI, StopNow, Plain("CLOSE", TRUE)} \subseteq Requests
  BY DEF Requests
<1>2. /\ \A r \in Requests : <<r>> \in Seq(Requests)
      /\ \A q, r \in Requests : <<q, r>> \in Seq(Requests)
      /\ \A p, q, r \in Requests : <<p, q, r>> \in Seq(Requests)
      /\ <<>> \in Seq(Requests)
  <2> HIDE DEF Requests
  <2> QED
    OBVIOUS
<1>3. state = "SET_NEW_BASE" => Motion("SET_BASE", new_base, FALSE) \in Requests
  <2>1. ASSUME state = "SET_NEW_BASE", Elsewhere \notin {final_cali_pose[k] : k \in 1 .. 3}
        PROVE  new_base \in Bases
    <3>1. /\ final_cali_pose \in Seq(Places) /\ Len(final_cali_pose) = 3
          /\ new_base = get_vector(final_cali_pose[1], final_cali_pose[2], final_cali_pose[3])
      BY <2>1 DEF Control, Counts, NoPoints, TwoPoints, ThreePts, AllTouched, Places
    <3>2. ASSUME NEW k \in 1 .. 3
          PROVE  final_cali_pose[k] \in Poses
      <4>1. final_cali_pose[k] \in Places
        <5>1. final_cali_pose \in Seq(Places) /\ k \in 1 .. Len(final_cali_pose)
          BY <3>1
        <5> QED
          BY <5>1
      <4> QED
        BY <2>1, <4>1 DEF Places
    <3> QED
      BY <3>1, <3>2, FrameTyped
  <2>2. state = "SET_NEW_BASE" => new_base \in Frames
    BY <2>1 DEF Control, Counts, NoPoints, TwoPoints, ThreePts, AllTouched, Frames
  <2> QED
    BY <2>2 DEF Requests
<1>4. ASSUME state = "MOVE_TO_CALI_POINT", at = "poll"
      PROVE  PTP(UpPose) \in Requests /\ Lowering \in Requests
  BY <1>4, UpTyped DEF Requests, PTPs, Lowering
<1> HIDE DEF Requests
<1> QED
  BY <1>1, <1>2, <1>3, <1>4 DEF Lists, AtMostALook, AtMostADrive

-----------------------------------------------------------------------------
(* The thread: the points *)

\* A picture of both markers, sorted, is of the origin and then of another one.
LEMMA SortedMarkers ==
  ASSUME NEW ids \in Pictures, Both(ids)
  PROVE  /\ Sorted(ids)[1] = ORIGIN_ID /\ Sorted(ids)[2] \in Markers \ {ORIGIN_ID}
         /\ [k \in 1 .. 2 |-> Lies[Sorted(ids)[k]]] \in Seq(Vector)
         /\ Len([k \in 1 .. 2 |-> Lies[Sorted(ids)[k]]]) = 2
<1>1. ids \in Markers \X Markers /\ ids[1] # ids[2]
  <2>1. ids # <<>>
    BY DEF Both
  <2>2. ASSUME NEW m, ids = <<m>>
        PROVE  FALSE
    BY <2>2 DEF Both
  <2> QED
    BY <2>1, <2>2 DEF Pictures
<1>2. ids = <<ids[1], ids[2]>> /\ ids[1] \in Markers /\ ids[2] \in Markers
  BY <1>1
<1>3. Sorted(ids)[1] = ORIGIN_ID /\ Sorted(ids)[2] \in Markers \ {ORIGIN_ID}
  BY <1>1, <1>2 DEF Sorted, Both
<1>4. \A k \in 1 .. 2 : Lies[Sorted(ids)[k]] \in Vector
  <2>1. \A k \in 1 .. 2 : k = 1 \/ k = 2
    OBVIOUS
  <2> QED
    BY <1>3, <2>1, ThreePointsConstants
<1> DEFINE s == [k \in 1 .. 2 |-> Lies[Sorted(ids)[k]]]
<1>5. s \in Seq(Vector) /\ Len(s) = 2
  BY <1>4
<1> QED
  BY <1>3, <1>5

\* A thread that waits for an answer, or has one, keeps its points.
LEMMA ControlWaits ==
  ASSUME Control, current_position \in Places, Send \/ Returned
  PROVE  Control'
<1>1. UNCHANGED <<state, at, search, points>> /\ pc' \in {"call", "wait"}
  BY DEF Send, Returned
<1> QED
  BY <1>1 DEF Control, Counts, NoPoints, TwoPoints, ThreePts, AllTouched, search, points, Unlooked,
     Untouched

\* A picture that is not empty shows a marker first.
LEMMA FirstMarker ==
  ASSUME NEW ids \in Pictures, ids # <<>>
  PROVE  ids[1] \in Markers
<1>1. ASSUME NEW m \in Markers, ids = <<m>>
      PROVE  ids[1] \in Markers
  BY <1>1
<1>2. CASE ids \in Markers \X Markers
  BY <1>2
<1> QED
  BY <1>1, <1>2 DEF Pictures

\* The search for the markers.
LEMMA ControlSearch ==
  ASSUME Control, MOVE_TO_PHOTO_POSE \/ GET_CALI_POINT
  PROVE  Control'
<1> USE DEF Reached, Go
<1>1. CASE MOVE_TO_PHOTO_POSE
  <2>1. NoPoints /\ state' \in {"MOVE_TO_PHOTO_POSE", "GET_CALI_POINT"} /\ UNCHANGED <<pc, search, points>>
    BY <1>1 DEF MOVE_TO_PHOTO_POSE, Control, NoPoints, TwoPoints, ThreePts, AllTouched
  <2> QED
    BY <2>1 DEF Control, Counts, NoPoints, search, points, Unlooked, Untouched, States
<1>2. CASE GET_CALI_POINT
  <2>1. NoPoints /\ UNCHANGED <<pc, looked, found, sum, mistaken, final_cali_pose, new_base, contact>>
    BY <1>2 DEF GET_CALI_POINT, Control, NoPoints, TwoPoints, ThreePts, AllTouched
  <2>2. PICK ids \in Pictures :
          \/ /\ Both(ids)
             /\ cali_pose' = [k \in 1 .. 2 |-> Lies[Sorted(ids)[k]]]
             /\ i' = 1 /\ UNCHANGED cali_cnt
             /\ state' = "MOVE_TO_MARKER_UP" /\ at' = "next"
          \/ /\ cali_cnt' = 0 /\ UNCHANGED <<cali_pose, i>> /\ state' = "CLOSE_ROBOT"
          \/ /\ ~Enough(cali_cnt) /\ cali_cnt' = cali_cnt + 1
             /\ UNCHANGED <<cali_pose, i, state>>
    BY <1>2 DEF GET_CALI_POINT
  <2>3. CASE Both(ids) /\ cali_pose' = [k \in 1 .. 2 |-> Lies[Sorted(ids)[k]]]
             /\ i' = 1 /\ UNCHANGED cali_cnt
             /\ state' = "MOVE_TO_MARKER_UP" /\ at' = "next"
    <3>1. cali_pose' \in Seq(Vector) /\ Len(cali_pose') = 2
      BY <2>3, SortedMarkers DEF Pictures
    <3> QED
      BY <2>1, <2>3, <3>1 DEF Control, Counts, NoPoints, TwoPoints, Unlooked, Untouched, States
  <2>4. CASE cali_cnt' = 0 /\ UNCHANGED <<cali_pose, i>> /\ state' = "CLOSE_ROBOT"
    BY <2>1, <2>4, ThreePointsConstants DEF Control, Counts, NoPoints, Unlooked, Untouched, States
  <2>5. CASE ~Enough(cali_cnt) /\ cali_cnt' = cali_cnt + 1 /\ UNCHANGED <<cali_pose, i, state>>
    BY <2>1, <2>5, ThreePointsConstants DEF Control, Counts, NoPoints, Unlooked, Untouched, States, Enough
  <2> QED
    BY <2>2, <2>3, <2>4, <2>5
<1> QED
  BY <1>1, <1>2

\* The closer looks.
LEMMA ControlLooks ==
  ASSUME Control, MoveUp \/ Look \/ Looked \/ Refine \/ Extend
  PROVE  Control'
<1> USE DEF Reached, Go, End
<1>1. TwoPoints /\ Counts
  BY DEF MoveUp, Look, Looked, Refine, Extend, Control, NoPoints, TwoPoints, ThreePts, AllTouched
<1>2. CASE MoveUp
  <2>1. UNCHANGED <<state, pc, search, points>> /\ at = "next" /\ at' = "look" /\ i <= 2
    BY <1>2 DEF MoveUp
  <2> QED
    BY <1>1, <2>1 DEF Control, Counts, TwoPoints, search, points, Unlooked, Untouched
<1>3. CASE Look
  <2>1. /\ UNCHANGED <<state, pc, at, cali_cnt, points>> /\ at = "look"
        /\ looked < Looks /\ looked' = looked + 1
    BY <1>3 DEF Look, handler
  <2>2. found' \in 0 .. looked' /\ sum' \in Vector /\ mistaken' \in BOOLEAN
    <3>1. PICK ids \in Pictures :
            IF ids = <<>> THEN UNCHANGED <<found, sum, mistaken>>
            ELSE /\ found' = found + 1
                 /\ sum' = Raised(sum, Lies[ids[1]].x, Lies[ids[1]].y, Lies[ids[1]].z)
                 /\ mistaken' = (mistaken \/ Lies[ids[1]] # cali_pose[i])
      BY <1>3 DEF Look
    <3>2. found \in 0 .. looked /\ looked \in Nat /\ sum \in Vector /\ mistaken \in BOOLEAN
      BY <1>1 DEF Counts
    <3>3. CASE ids = <<>>
      BY <2>1, <3>1, <3>2, <3>3
    <3>4. CASE ids # <<>>
      <4>1. Lies[ids[1]] \in Vector
        BY <3>4, FirstMarker, ThreePointsConstants
      <4>2. sum' \in Vector
        BY <3>1, <3>2, <3>4, <4>1, RaisedTyped DEF Vector
      <4> QED
        BY <2>1, <3>1, <3>2, <3>4, <4>2
    <3> QED
      BY <3>3, <3>4
  <2> QED
    BY <1>1, <2>1, <2>2, ThreePointsConstants DEF Control, Counts, TwoPoints, points, Untouched
<1>4. CASE Looked
  <2>1. UNCHANGED <<state, search, points>> /\ at = "look" /\ pc' \in {"call", "gone"}
        /\ at' = IF found = 0 THEN "look" ELSE "refine"
    BY <1>1, <1>4 DEF Looked
  <2> QED
    BY <1>1, <2>1 DEF Control, Counts, TwoPoints, search, points, Unlooked, Untouched
<1>5. CASE Refine
  <2>1. /\ at = "refine" /\ at' = "next" /\ i' = i + 1
        /\ UNCHANGED <<state, pc, cali_cnt, mistaken, final_cali_pose, new_base, contact>>
        /\ looked' = 0 /\ found' = 0 /\ sum' = Vec(0, 0, 0)
        /\ cali_pose' = [cali_pose EXCEPT ![i] = Mean]
    BY <1>5 DEF Refine
  <2>2. Mean \in Vector
    <3>1. found \in Nat \ {0} /\ sum \in Vector
      BY <1>1, <2>1 DEF Counts, TwoPoints
    <3> QED
      BY <3>1 DEF Mean, Vec, Vector
  <2>3. cali_pose \in Seq(Vector) /\ Len(cali_pose) = 2 /\ i \in 1 .. 2
    BY <1>1, <2>1 DEF Counts, TwoPoints
  <2>4. cali_pose' \in Seq(Vector) /\ Len(cali_pose') = 2
    BY <2>1, <2>2, <2>3
  <2>5. sum' \in Vector
    BY <2>1 DEF Vec, Vector
  <2> QED
    BY <1>1, <2>1, <2>3, <2>4, <2>5, ThreePointsConstants
    DEF Control, Counts, TwoPoints, Unlooked, Untouched
<1>6. CASE Extend
  <2>1. /\ at = "next" /\ state' = "MOVE_TO_CALI_POINT" /\ at' = "next" /\ i' = 1
        /\ UNCHANGED <<pc, search, final_cali_pose, new_base, contact>>
        /\ cali_pose' = Insert(cali_pose)
    BY <1>6 DEF Extend
  <2>2. cali_pose[1] \in Vector /\ cali_pose[2] \in Vector
    <3>1. cali_pose \in Seq(Vector) /\ 1 \in 1 .. Len(cali_pose) /\ 2 \in 1 .. Len(cali_pose)
      BY <1>1 DEF Counts, TwoPoints
    <3> QED
      BY <3>1
  <2>3. Raised(cali_pose[1], 40, 15, 0) \in Vector
    BY <2>2, RaisedTyped
  <2>4. cali_pose' \in Seq(Vector) /\ Len(cali_pose') = 3
    BY <2>1, <2>2, <2>3 DEF Insert
  <2> QED
    BY <1>1, <2>1, <2>4 DEF Control, Counts, TwoPoints, ThreePts, search, Unlooked, Untouched, States
<1> QED
  BY <1>2, <1>3, <1>4, <1>5, <1>6

\* The touches, the base and the end.
LEMMA ControlTouches ==
  ASSUME Control, current_position \in Places,
         Approach \/ TouchPoll \/ Record \/ CALCULATE_COORDINATE \/ FINISH
  PROVE  Control'
<1> USE DEF Reached, Go, End
<1>1. CASE Approach
  <2>1. ThreePts /\ Counts
    BY <1>1 DEF Approach, Control, NoPoints, TwoPoints, ThreePts, AllTouched
  <2>2. /\ at = "next" /\ at' = "poll" /\ i <= 3
        /\ UNCHANGED <<state, pc, search, i, cali_pose, final_cali_pose, new_base>>
    BY <1>1 DEF Approach
  <2>3. PICK c \in Contacts : contact' = Append(contact, cali_pose[i].z + c)
    BY <1>1 DEF Approach
  <2>4. cali_pose[i].z + c \in Int
    <3>1. cali_pose \in Seq(Vector) /\ i \in 1 .. Len(cali_pose)
      BY <2>1, <2>2 DEF Counts, ThreePts
    <3>2. cali_pose[i] \in Vector
      BY <3>1
    <3> QED
      BY <3>2, ThreePointsConstants DEF Vector
  <2>5. contact' \in Seq(Int) /\ Len(contact') = i
    BY <2>1, <2>2, <2>3, <2>4 DEF Counts, ThreePts
  <2> QED
    BY <2>1, <2>2, <2>5 DEF Control, Counts, ThreePts, search, Unlooked
<1>2. CASE TouchPoll
  <2>1. ThreePts /\ Counts
    BY <1>2 DEF TouchPoll, Control, NoPoints, TwoPoints, ThreePts, AllTouched
  <2>2. at = "poll" /\ at' \in {"poll", "record"} /\ UNCHANGED <<state, pc, search, points>>
    BY <1>2 DEF TouchPoll
  <2> QED
    BY <2>1, <2>2 DEF Control, Counts, ThreePts, search, points, Unlooked
<1>3. CASE Record
  <2>1. ThreePts /\ Counts
    BY <1>3 DEF Record, Control, NoPoints, TwoPoints, ThreePts, AllTouched
  <2>2. /\ at = "record" /\ at' = "next" /\ i' = i + 1
        /\ UNCHANGED <<state, pc, search, cali_pose, new_base, contact>>
        /\ final_cali_pose' = Append(final_cali_pose, current_position)
    BY <1>3 DEF Record
  <2>3. final_cali_pose' \in Seq(Places) /\ Len(final_cali_pose') = i
    BY <2>1, <2>2 DEF Counts, ThreePts
  <2> QED
    BY <2>1, <2>2, <2>3 DEF Control, Counts, ThreePts, search, Unlooked
<1>4. CASE CALCULATE_COORDINATE
  <2>1. ThreePts /\ Counts
    BY <1>4 DEF CALCULATE_COORDINATE, Control, NoPoints, TwoPoints, ThreePts, AllTouched
  <2>2. /\ i = 4 /\ at = "next" /\ state' = "SET_NEW_BASE"
        /\ UNCHANGED <<pc, search, i, cali_pose, final_cali_pose, contact>>
        /\ new_base' = IF Elsewhere \in {final_cali_pose[k] : k \in 1 .. 3} THEN Elsewhere
                 ELSE get_vector(final_cali_pose[1], final_cali_pose[2], final_cali_pose[3])
    BY <1>4 DEF CALCULATE_COORDINATE
  <2>3. Counts'
    BY <2>1, <2>2 DEF Counts, search, States
  <2>4. AllTouched'
    BY <2>1, <2>2 DEF ThreePts, AllTouched, search, Unlooked
  <2> QED
    BY <2>3, <2>4 DEF Control
<1>5. CASE FINISH
  <2>1. /\ state \in {"SET_NEW_BASE", "CLOSE_ROBOT"} /\ state' = "FINISH" /\ pc' = "gone"
        /\ UNCHANGED <<search, points>>
    BY <1>5 DEF FINISH
  <2>2. Counts'
    BY <2>1 DEF Control, Counts, search, points, States
  <2>3. CASE NoPoints
    <3>1. NoPoints'
      BY <2>1, <2>3 DEF NoPoints, search, points, Unlooked, Untouched
    <3> QED
      BY <2>2, <3>1 DEF Control
  <2>4. CASE AllTouched
    <3>1. AllTouched'
      BY <2>1, <2>4 DEF AllTouched, search, points, Unlooked
    <3> QED
      BY <2>2, <3>1 DEF Control
  <2> QED
    BY <2>1, <2>3, <2>4 DEF Control, TwoPoints, ThreePts
<1> QED
  BY <1>1, <1>2, <1>3, <1>4, <1>5

\* Every step of the thread keeps the count of its points.
LEMMA ControlStep ==
  ASSUME Control, current_position \in Places, Thread
  PROVE  Control'
  BY ControlWaits, ControlSearch, ControlLooks, ControlTouches DEF Thread

-----------------------------------------------------------------------------
(* The thread: whose points they are *)

\* The sum of as many readings of one point as were found.
LEMMA TimesFacts ==
  ASSUME NEW v \in Vector
  PROVE  /\ Times(0, v) = Vec(0, 0, 0)
         /\ \A n \in Nat : Raised(Times(n, v), v.x, v.y, v.z) = Times(n + 1, v)
         /\ \A n \in Nat \ {0} : Vec(Times(n, v).x \div n, Times(n, v).y \div n, Times(n, v).z \div n) = v
<1>1. ASSUME NEW n \in Nat \ {0}, NEW k \in Int
      PROVE  (n * k) \div n = k
  BY <1>1
<1>2. v.x \in Int /\ v.y \in Int /\ v.z \in Int /\ v = Vec(v.x, v.y, v.z)
  BY DEF Vector, Vec
<1>3. ASSUME NEW n \in Nat, NEW k \in Int
      PROVE  n * k + k = (n + 1) * k
  BY <1>3
<1>4. Times(0, v) = Vec(0, 0, 0)
  BY <1>2 DEF Times, Vec
<1>5. ASSUME NEW n \in Nat
      PROVE  Raised(Times(n, v), v.x, v.y, v.z) = Times(n + 1, v)
  BY <1>2, <1>3 DEF Times, Raised, Vec
<1>6. ASSUME NEW n \in Nat \ {0}
      PROVE  Vec(Times(n, v).x \div n, Times(n, v).y \div n, Times(n, v).z \div n) = v
  BY <1>1, <1>2 DEF Times, Vec
<1> QED
  BY <1>4, <1>5, <1>6

\* The search finds the markers where they lie.
LEMMA MarkedSearch ==
  ASSUME Control, Marked, GET_CALI_POINT
  PROVE  Marked'
<1> USE DEF Reached, Go
<1>1. NoPoints /\ UNCHANGED <<found, sum, mistaken>>
  BY DEF GET_CALI_POINT, Control, NoPoints, TwoPoints, ThreePts, AllTouched
<1>2. PICK ids \in Pictures :
        \/ /\ Both(ids)
           /\ cali_pose' = [k \in 1 .. 2 |-> Lies[Sorted(ids)[k]]]
           /\ i' = 1 /\ state' = "MOVE_TO_MARKER_UP"
        \/ cali_pose' = cali_pose /\ state' \in {"CLOSE_ROBOT", "GET_CALI_POINT"}
  BY DEF GET_CALI_POINT
<1>3. CASE /\ Both(ids)
           /\ cali_pose' = [k \in 1 .. 2 |-> Lies[Sorted(ids)[k]]]
           /\ i' = 1 /\ state' = "MOVE_TO_MARKER_UP"
  <2>1. /\ Sorted(ids)[1] = ORIGIN_ID /\ Sorted(ids)[2] \in Markers \ {ORIGIN_ID}
        /\ Len(cali_pose') = 2
    BY <1>3, SortedMarkers
  <2>2. cali_pose'[1] = Lies[ORIGIN_ID] /\ cali_pose'[2] = Lies[Sorted(ids)[2]]
    BY <1>3, <2>1
  <2>3. sum' = Times(found', cali_pose'[1])
    <3>1. Lies[ORIGIN_ID] \in Vector
      BY ThreePointsConstants
    <3> QED
      BY <1>1, <2>2, <3>1, TimesFacts DEF NoPoints, Unlooked
  <2> QED
    BY <1>3, <2>1, <2>2, <2>3 DEF Marked
<1>4. CASE cali_pose' = cali_pose /\ state' \in {"CLOSE_ROBOT", "GET_CALI_POINT"}
  <2>1. Len(cali_pose') = 0
    BY <1>1, <1>4 DEF NoPoints
  <2> QED
    BY <1>4, <2>1 DEF Marked
<1> QED
  BY <1>2, <1>3, <1>4

\* Unless a picture shows another marker first, the mean of the looks is the marker.
LEMMA MarkedLooks ==
  ASSUME Control, Marked, MoveUp \/ Look \/ Looked \/ Refine \/ Extend
  PROVE  Marked'
<1> USE DEF Reached, Go, End
<1>1. TwoPoints /\ Counts
  BY DEF MoveUp, Look, Looked, Refine, Extend, Control, NoPoints, TwoPoints, ThreePts, AllTouched
<1>2. cali_pose \in Seq(Vector) /\ Len(cali_pose) = 2 /\ state = "MOVE_TO_MARKER_UP"
  BY <1>1 DEF Counts, TwoPoints
<1>3. ASSUME NEW k \in 1 .. 2
      PROVE  cali_pose[k] \in Vector
  <2>1. cali_pose \in Seq(Vector) /\ k \in 1 .. Len(cali_pose)
    BY <1>2
  <2> QED
    BY <2>1
<1>7. CASE MoveUp \/ Looked
  <2>1. UNCHANGED <<state, search, points>>
    BY <1>2, <1>7 DEF MoveUp, Looked
  <2> QED
    BY <2>1 DEF Marked, search, points
<1>4. CASE Look
  <2>1. UNCHANGED <<state, i, cali_pose>> /\ i \in 1 .. 2
    BY <1>1, <1>4 DEF Look, handler, points, TwoPoints
  <2>2. PICK ids \in Pictures :
          IF ids = <<>> THEN UNCHANGED <<found, sum, mistaken>>
          ELSE /\ found' = found + 1
               /\ sum' = Raised(sum, Lies[ids[1]].x, Lies[ids[1]].y, Lies[ids[1]].z)
               /\ mistaken' = (mistaken \/ Lies[ids[1]] # cali_pose[i])
    BY <1>4 DEF Look
  <2>3. CASE ids = <<>>
    BY <2>1, <2>2, <2>3 DEF Marked
  <2>4. ASSUME ids # <<>>, ~mistaken'
        PROVE  ~mistaken /\ sum' = Times(found', cali_pose[i])
    <3>1. ~mistaken /\ Lies[ids[1]] = cali_pose[i] /\ found' = found + 1
      BY <2>2, <2>4
    <3>2. sum = Times(found, cali_pose[i])
      BY <1>2, <2>1, <3>1 DEF Marked
    <3>3. found \in Nat
      BY <1>1 DEF Counts
    <3>4. cali_pose[i] \in Vector
      BY <1>3, <2>1
    <3> QED
      BY <2>2, <2>4, <3>1, <3>2, <3>3, <3>4, TimesFacts
  <2> QED
    BY <1>2, <2>1, <2>3, <2>4 DEF Marked
<1>5. CASE Refine
  <2>1. /\ i' = i + 1 /\ UNCHANGED <<state, mistaken>> /\ found' = 0 /\ sum' = Vec(0, 0, 0)
        /\ cali_pose' = [cali_pose EXCEPT ![i] = Mean]
        /\ i \in 1 .. 2 /\ found \in Nat \ {0}
    BY <1>1, <1>5 DEF Refine, TwoPoints, Counts
  <2>2. ~mistaken => Mean = cali_pose[i]
    <3>1. cali_pose[i] \in Vector
      BY <1>3, <2>1
    <3>2. ~mistaken => sum = Times(found, cali_pose[i])
      BY <1>2, <2>1 DEF Marked
    <3>3. found \in Nat \ {0}
      BY <2>1
    <3> QED
      BY <3>1, <3>2, <3>3, TimesFacts DEF Mean
  <2>3. ~mistaken => cali_pose' = cali_pose
    BY <1>2, <2>1, <2>2
  <2>4. ASSUME i' <= 2, ~mistaken
        PROVE  sum' = Times(found', cali_pose'[i'])
    <3>1. cali_pose'[i'] \in Vector
      BY <1>2, <2>1, <2>3, <2>4
    <3> QED
      BY <2>1, <3>1, TimesFacts
  <2> QED
    BY <1>2, <2>1, <2>3, <2>4 DEF Marked
<1>6. CASE Extend
  <2>1. state' = "MOVE_TO_CALI_POINT" /\ mistaken' = mistaken /\ cali_pose' = Insert(cali_pose)
    BY <1>6 DEF Extend, search
  <2> QED
    BY <1>2, <2>1 DEF Marked, Insert
<1> QED
  BY <1>4, <1>5, <1>6, <1>7

\* The points stay whose they are.
LEMMA MarkedStep ==
  ASSUME Control, Marked, Thread
  PROVE  Marked'
<1> USE DEF Reached, Go, End
<1>1. CASE Send \/ Returned
  BY <1>1 DEF Send, Returned, Marked, search, points
<1>2. CASE MOVE_TO_PHOTO_POSE
  BY <1>2 DEF MOVE_TO_PHOTO_POSE, Marked, search, points
<1>3. CASE Approach \/ TouchPoll \/ Record \/ CALCULATE_COORDINATE \/ FINISH
  <2>1. UNCHANGED <<cali_pose, mistaken>> /\ state' # "MOVE_TO_MARKER_UP"
    BY <1>3 DEF Approach, TouchPoll, Record, CALCULATE_COORDINATE, FINISH, search, points
  <2> QED
    BY <2>1 DEF Marked
<1> QED
  BY <1>1, <1>2, <1>3, MarkedSearch, MarkedLooks DEF Thread

-----------------------------------------------------------------------------
(* The thread: what is left to send *)

\* What is left of a list when its first request was answered.
LEMMA Tails ==
  /\ \A r : Tail(<<r>>) = <<>>
  /\ \A q, r : Tail(<<q, r>>) = <<r>>
  /\ \A p, q, r : Tail(<<p, q, r>>) = <<q, r>>
  OBVIOUS

\* A request is sent, and taken off its list when it was answered.
LEMMA ListsWaits ==
  ASSUME Lists, Send \/ Returned
  PROVE  Lists'
<1>1. CASE Send
  <2>1. UNCHANGED <<state, at, todo, points, angular>> /\ pc' = "wait" /\ todo # <<>>
    BY <1>1 DEF Send
  <2> QED
    BY <2>1 DEF Lists, points, UpPose, DownPose, Lowering
<1>2. CASE Returned
  <2>1. /\ pc = "wait" /\ pc' = "call" /\ todo' = Tail(todo) /\ todo # <<>>
        /\ UNCHANGED <<state, at, points>>
    BY <1>2 DEF Returned, Lists
  <2>2. at # "next" => angular' = angular
    BY <1>2 DEF Returned
  <2>3. state # "FINISH" /\ state # "INIT"
    BY <2>1 DEF Lists
  <2>4. ASSUME AtMostALook(todo)
        PROVE  todo' = <<>>
    BY <2>1, <2>4, Tails DEF AtMostALook
  <2>5. ASSUME AtMostADrive(todo)
        PROVE  todo' = <<>>
    BY <2>1, <2>5, Tails DEF AtMostADrive
  <2>6. AtMostALook(<<>>) /\ AtMostALook(<<CheckPose>>) /\ AtMostADrive(<<>>)
        /\ \A r \in PTPs : AtMostADrive(<<r>>)
    BY DEF AtMostALook, AtMostADrive
  <2>7. CASE state = "MOVE_TO_PHOTO_POSE" /\ at = "moved" /\ AtMostADrive(todo)
    BY <2>1, <2>5, <2>6, <2>7 DEF Lists
  <2>8. CASE state = "GET_CALI_POINT" /\ at = "look"
             /\ (AtMostALook(todo) \/ \E r \in PTPs : todo = <<r, CheckPose>>)
    <3>1. AtMostALook(todo')
      BY <2>1, <2>4, <2>6, <2>8, Tails
    <3> QED
      BY <2>1, <2>8, <3>1 DEF Lists
  <2>9. CASE state = "MOVE_TO_MARKER_UP" /\ at \in {"next", "refine"} /\ AtMostALook(todo)
    BY <2>1, <2>4, <2>6, <2>9 DEF Lists
  <2>10. CASE state = "MOVE_TO_MARKER_UP" /\ at = "look" /\ AtMostADrive(todo)
    BY <2>1, <2>5, <2>6, <2>10 DEF Lists
  <2>11. CASE state = "MOVE_TO_CALI_POINT" /\ at = "next"
    <3>1. CASE AtMostALook(todo) \/ AtMostADrive(todo)
      BY <2>1, <2>4, <2>5, <2>6, <2>11, <3>1 DEF Lists
    <3>2. ASSUME NEW q \in PTPs, NEW r \in PTPs, todo = <<StopNow, q, r>>
          PROVE  Lists'
      <4>1. todo' = <<q, r>>
        BY <2>1, <3>2, Tails
      <4> QED
        BY <2>1, <2>11, <4>1 DEF Lists
    <3>3. ASSUME NEW q \in PTPs, NEW r \in PTPs, todo = <<q, r>>
          PROVE  Lists'
      <4>1. todo' = <<r>>
        BY <2>1, <3>3, Tails
      <4> QED
        BY <2>1, <2>6, <2>11, <4>1 DEF Lists
    <3> QED
      BY <2>11, <3>1, <3>2, <3>3 DEF Lists
  <2>12. CASE state = "MOVE_TO_CALI_POINT" /\ at = "poll"
    <3>1. UNCHANGED <<UpPose, DownPose, Lowering>>
      BY <2>1, <2>2, <2>12 DEF UpPose, DownPose, Lowering, points
    <3>2. todo \in {<<PTP(UpPose), Lowering, READ_DI>>, <<Lowering, READ_DI>>, <<READ_DI>>}
      BY <2>1, <2>12 DEF Lists
    <3>3. todo' \in {<<Lowering, READ_DI>>, <<READ_DI>>, <<>>}
      <4> DEFINE p == PTP(UpPose)  l == Lowering  d == READ_DI
      <4>1. todo \in {<<p, l, d>>, <<l, d>>, <<d>>} /\ todo' = Tail(todo)
        BY <2>1, <3>2
      <4> HIDE DEF p, l, d
      <4>2. Tail(<<p, l, d>>) = <<l, d>> /\ Tail(<<l, d>>) = <<d>> /\ Tail(<<d>>) = <<>>
        BY Tails
      <4>3. todo' = <<l, d>> \/ todo' = <<d>> \/ todo' = <<>>
        BY <4>1, <4>2, Zenon
      <4> QED
        BY <4>3 DEF l, d
    <3> QED
      BY <2>1, <2>12, <3>1, <3>3 DEF Lists
  <2>13. CASE state = "MOVE_TO_CALI_POINT" /\ at = "record"
    BY <2>1, <2>13, Tails DEF Lists
  <2>14. CASE state = "SET_NEW_BASE" /\ at = "sent"
    BY <2>1, <2>14, Tails DEF Lists, points
  <2>15. CASE state = "CLOSE_ROBOT" /\ at = "sent"
    BY <2>1, <2>15, Tails DEF Lists
  <2> QED
    BY <2>3, <2>7, <2>8, <2>9, <2>10, <2>11, <2>12, <2>13, <2>14, <2>15 DEF Lists
<1> QED
  BY <1>1, <1>2

\* A handler goes on with the next list.
LEMMA ListsGo ==
  ASSUME Control, Lists, angular \in Int,
         state = "GET_CALI_POINT" /\ todo = <<>> => current_position \in Poses,
         Thread, ~Send, ~Returned
  PROVE  Lists'
<1> USE DEF Reached, Go, End
<1>1. /\ AtMostALook(<<>>) /\ AtMostALook(<<CheckPose>>) /\ AtMostADrive(<<>>)
      /\ CheckPose = CHECK_POSE(TRUE)
      /\ \A p \in Poses : PTP(p) \in PTPs /\ AtMostADrive(<<PTP(p)>>)
  BY DEF AtMostALook, AtMostADrive, CheckPose, CHECK_POSE, PTPs
<1>2. todo = <<>> /\ pc = "call" /\ angular' = angular
  BY DEF Thread, MOVE_TO_PHOTO_POSE, GET_CALI_POINT, MoveUp, Look, Looked, Refine, Extend,
     Approach, TouchPoll, Record, CALCULATE_COORDINATE, FINISH, world
<1>3. CASE MOVE_TO_PHOTO_POSE
  <2>1. PTP(PHOTO_POSE) \in PTPs /\ AtMostADrive(<<PTP(PHOTO_POSE)>>)
    BY <1>1, PosesTyped
  <2> QED
    BY <1>1, <1>2, <1>3, <2>1 DEF MOVE_TO_PHOTO_POSE, Lists
<1>4. CASE GET_CALI_POINT
  <2>1. PTP([current_position EXCEPT !.tilt = @ + 1]) \in PTPs
    <3>1. current_position \in Poses
      BY <1>2, <1>4 DEF GET_CALI_POINT
    <3> QED
      BY <1>1, <3>1, PosesTyped
  <2> QED
    BY <1>1, <1>2, <1>4, <2>1 DEF GET_CALI_POINT, Lists
<1>5. CASE MoveUp
  <2>1. cali_pose[i] \in Vector
    <3>1. state = "MOVE_TO_MARKER_UP" /\ i <= 2
      BY <1>5 DEF MoveUp
    <3>2. TwoPoints /\ cali_pose \in Seq(Vector)
      BY <3>1 DEF Control, Counts, NoPoints, ThreePts, AllTouched
    <3>3. i \in 1 .. Len(cali_pose)
      BY <3>1, <3>2 DEF TwoPoints
    <3> QED
      BY <3>2, <3>3
  <2>2. Raised(cali_pose[i], 3, 3, 20) \in Vector
    BY <2>1, RaisedTyped
  <2>3. AtMostADrive(<<PTP(Pose(Raised(cali_pose[i], 3, 3, 20), angular))>>)
    BY <1>1, <2>2, PosesTyped
  <2> QED
    BY <1>2, <1>5, <2>3 DEF MoveUp, Lists
<1>6. CASE Look
  BY <1>6 DEF Look, Lists, handler
<1>7. CASE Looked
  BY <1>1, <1>2, <1>7 DEF Looked, Lists
<1>8. CASE Refine
  BY <1>1, <1>2, <1>8 DEF Refine, Lists
<1>9. CASE Extend
  BY <1>1, <1>2, <1>9 DEF Extend, Lists
<1>10. CASE Approach
  BY <1>2, <1>10 DEF Approach, Lists, UpPose, DownPose, Lowering
<1>11. CASE TouchPoll
  BY <1>2, <1>11 DEF TouchPoll, Lists
<1>12. CASE Record
  <2>1. [cali_pose[i] EXCEPT !.z = 8] \in Vector
    <3>1. state = "MOVE_TO_CALI_POINT" /\ at = "record"
      BY <1>12 DEF Record
    <3>2. ThreePts /\ cali_pose \in Seq(Vector)
      BY <3>1 DEF Control, Counts, NoPoints, TwoPoints, AllTouched
    <3>3. i \in 1 .. Len(cali_pose)
      BY <3>1, <3>2 DEF ThreePts
    <3>4. cali_pose[i] \in Vector
      BY <3>2, <3>3
    <3> QED
      BY <3>4, PosesTyped
  <2>2. PTP(Pose([cali_pose[i] EXCEPT !.z = 8], angular)) \in PTPs /\ PTP(PHOTO_POSE) \in PTPs
    BY <1>1, <2>1, PosesTyped
  <2> QED
    BY <1>2, <1>12, <2>2 DEF Record, Lists, StopNow
<1>13. CASE CALCULATE_COORDINATE
  BY <1>2, <1>13 DEF CALCULATE_COORDINATE, Lists
<1>14. CASE FINISH
  BY <1>2, <1>14 DEF FINISH, Lists
<1> QED
  BY <1>3, <1>4, <1>5, <1>6, <1>7, <1>8, <1>9, <1>10, <1>11, <1>12, <1>13, <1>14 DEF Thread

-----------------------------------------------------------------------------
(* What is asked *)

\* The fields of the requests the program sends.
LEMMA Fields ==
  /\ \A r \in PTPs : /\ r.mode = "PTP" /\ r.holding = TRUE
                     /\ \E q \in Poses : r = PTP(q) /\ r.writes = {[name |-> "PTP", goal |-> q]}
  /\ CheckPose.mode = "CHECK_POSE" /\ CheckPose.holding = TRUE /\ CheckPose.writes = {}
  /\ CHECK_POSE(FALSE).mode = "CHECK_POSE" /\ CHECK_POSE(FALSE).holding = FALSE
  /\ CHECK_POSE(FALSE).writes = {}
  /\ READ_DI.mode = "READ_DI" /\ READ_DI.holding = FALSE /\ READ_DI.writes = {}
  /\ StopNow.mode = "MOTION_STOP" /\ StopNow.holding = FALSE
  /\ Lowering.mode = "LINE" /\ Lowering.holding = FALSE /\ Lowering.writes = {Lowered}
  /\ \A b : Motion("SET_BASE", b, FALSE).mode = "SET_BASE" /\ Motion("SET_BASE", b, FALSE).holding = FALSE
  /\ Plain("CLOSE", TRUE).mode = "CLOSE"
  BY DEF PTPs, PTP, Motion, CheckPose, CHECK_POSE, READ_DI, StopNow, Lowering, Lowered, Plain

\* The first requests of lists, and how long those are.
LEMMA Heads ==
  /\ \A r : Head(<<r>>) = r /\ Len(<<r>>) = 1
  /\ \A q, r : Head(<<q, r>>) = q /\ Len(<<q, r>>) = 2
  /\ \A p, q, r : Head(<<p, q, r>>) = p /\ Len(<<p, q, r>>) = 3
  /\ Len(<<>>) = 0
  OBVIOUS

\* What is sent next is a motion or a look at the pose that is awaited at rest; or the
\* descent, what is asked during it, and the stop; or the end.
LEMMA HeadOf ==
  ASSUME Control, angular \in Int, Lists, todo # <<>>
  PROVE  \/ Head(todo) \in PTPs \cup {CheckPose} /\ ~(Lowers \/ Watches)
         \/ state = "MOVE_TO_CALI_POINT" /\ at = "next" /\ Len(todo) = 3 /\ Head(todo) = StopNow
         \/ state = "MOVE_TO_CALI_POINT" /\ at = "poll" /\ Len(todo) = 2 /\ Head(todo) = Lowering
         \/ state = "MOVE_TO_CALI_POINT" /\ at = "poll" /\ todo = <<READ_DI>> /\ Head(todo) = READ_DI
         \/ /\ state = "MOVE_TO_CALI_POINT" /\ at = "record" /\ todo = <<CHECK_POSE(FALSE)>>
            /\ Head(todo) = CHECK_POSE(FALSE)
         \/ state = "SET_NEW_BASE" /\ Head(todo) = Motion("SET_BASE", new_base, FALSE)
         \/ state = "CLOSE_ROBOT" /\ Head(todo) = Plain("CLOSE", TRUE)
<1> USE DEF Lowers, Watches
<1>1. ASSUME AtMostALook(todo)
      PROVE  Head(todo) = CheckPose
  BY <1>1, Heads DEF AtMostALook
<1>2. ASSUME AtMostADrive(todo)
      PROVE  Head(todo) \in PTPs
  BY <1>2, Heads DEF AtMostADrive
<1>3. ASSUME NEW r \in PTPs, todo = <<r, CheckPose>>
      PROVE  Head(todo) \in PTPs
  BY <1>3, Heads
<1>4. CASE state \in {"INIT", "MOVE_TO_PHOTO_POSE", "GET_CALI_POINT", "MOVE_TO_MARKER_UP"}
  BY <1>1, <1>2, <1>3, <1>4 DEF Lists
<1>5. CASE state = "MOVE_TO_CALI_POINT" /\ at = "next"
  <2>1. ASSUME NEW q \in PTPs, NEW r \in PTPs, todo = <<StopNow, q, r>>
        PROVE  Len(todo) = 3 /\ Head(todo) = StopNow
    BY <2>1, Heads
  <2>2. ASSUME NEW q \in PTPs, NEW r \in PTPs, todo = <<q, r>>
        PROVE  Head(todo) \in PTPs
    BY <2>2, Heads
  <2> QED
    BY <1>1, <1>2, <1>5, <2>1, <2>2 DEF Lists
<1>6. CASE state = "MOVE_TO_CALI_POINT" /\ at = "poll"
  <2>1. todo \in {<<PTP(UpPose), Lowering, READ_DI>>, <<Lowering, READ_DI>>, <<READ_DI>>}
    BY <1>6 DEF Lists
  <2>2. CASE todo = <<PTP(UpPose), Lowering, READ_DI>>
    <3>1. Len(todo) = 3 /\ Head(todo) = PTP(UpPose)
      BY <2>2, Heads
    <3>2. PTP(UpPose) \in PTPs
      BY <1>6, UpTyped DEF PTPs
    <3> QED
      BY <1>6, <3>1, <3>2
  <2>3. CASE todo = <<Lowering, READ_DI>>
    BY <1>6, <2>3, Heads
  <2>4. CASE todo = <<READ_DI>>
    BY <1>6, <2>4, Heads
  <2> QED
    BY <2>1, <2>2, <2>3, <2>4
<1>7. CASE state = "MOVE_TO_CALI_POINT" /\ at = "record"
  BY <1>7, Heads DEF Lists
<1>8. CASE state \in {"SET_NEW_BASE", "CLOSE_ROBOT"}
  BY <1>8, Heads DEF Lists
<1> QED
  BY <1>4, <1>5, <1>6, <1>7, <1>8 DEF Lists

\* Only the end closes the robot.
LEMMA CloseOnly ==
  ASSUME Control, angular \in Int, Lists, todo # <<>>, Head(todo).mode = "CLOSE"
  PROVE  state = "CLOSE_ROBOT"
<1>1. \A r \in PTPs \cup {CheckPose} : r.mode # "CLOSE"
  BY Fields
<1> QED
  BY <1>1, HeadOf, Fields

\* The service keeps the request that is asked, and answers it at rest if it is held.
LEMMA QueueServe ==
  ASSUME NothingUnseen, Control, angular \in Int, Lists, Queue,
         ServiceStep, UNCHANGED <<state, pc, todo>>
  PROVE  Queue'
<1> DEFINE h == Head(todo)
<1>1. pc = "wait" => todo # <<>>
  BY DEF Lists
<1>2. /\ pc # "wait" => requests = <<>> /\ serving = NoRequest
      /\ pc = "wait" =>
           \/ requests = <<h>> /\ serving = NoRequest
           \/ requests = <<>> /\ serving = h /\ serving # NoRequest
           \/ /\ requests = <<>> /\ serving = NoRequest
              /\ h.holding /\ state # "CLOSE_ROBOT" => link = "up" /\ moves = <<>>
      /\ link = "closed" \/ stage = "dead" => state \in {"CLOSE_ROBOT", "FINISH"}
  BY DEF Queue
<1>3. serving # NoRequest /\ serving.mode = "CLOSE" => state = "CLOSE_ROBOT"
  BY <1>1, <1>2, CloseOnly
<1>4. state = "FINISH" => pc # "wait"
  BY <1>1 DEF Lists
<1>5. h' = h
  OBVIOUS
<1>6. Head(<<h>>) = h /\ Tail(<<h>>) = <<>> /\ <<h>> # <<>>
  OBVIOUS
<1> HIDE DEF h
<1>7. ASSUME NEW effect \in BOOLEAN, Line(effect), link' = "closed"
      PROVE  link = "closed"
  BY <1>7 DEF Line
<1>8. link' = "closed" \/ stage' = "dead" => state \in {"CLOSE_ROBOT", "FINISH"}
  <2>1. link' = "closed" => link = "closed" \/ (serving # NoRequest /\ serving.mode = "CLOSE")
    BY <1>7 DEF ServiceStep, Dispatch, Accept, Execute, Prepare, Write, Trigger, Poll, Reply, Answer,
       Move, Perform, Halt, TakeSetting, Die, Crash
  <2>2. stage' = "dead" => stage = "dead" \/ link = "closed"
                             \/ (serving # NoRequest /\ serving.mode = "CLOSE")
    BY DEF ServiceStep, Dispatch, Accept, Execute, Prepare, Write, Trigger, Poll, Reply, Answer,
       Move, Perform, Halt, TakeSetting, Die, Crash
  <2> QED
    BY <1>2, <1>3, <2>1, <2>2
<1>9. CASE Dispatch
  <2>1. requests # <<>> /\ serving' = Head(requests) /\ serving' # NoRequest /\ requests' = Tail(requests)
    BY <1>9 DEF Dispatch, Accept
  <2>2. pc = "wait" /\ requests = <<h>>
    BY <1>2, <2>1
  <2>3. requests' = <<>> /\ serving' = h
    BY <1>6, <2>1, <2>2
  <2> QED
    BY <1>8, <2>1, <2>2, <2>3 DEF Queue, h
<1>10. CASE Execute
  <2>1. serving # NoRequest /\ UNCHANGED <<serving, requests>>
    BY <1>10 DEF Execute, Prepare, Write, Trigger, Poll
  <2> QED
    BY <1>2, <1>8, <2>1 DEF Queue, h
<1>11. CASE Reply
  <2>1. /\ serving # NoRequest /\ serving' = NoRequest /\ UNCHANGED <<requests, moves>>
        /\ serving.holding =>
             ((link = "up" /\ moves = <<>>) \/ link = "closed" \/ Timed) /\ link' = link
    BY <1>11 DEF Reply, Answer
  <2>2. pc = "wait" /\ requests = <<>> /\ serving = h
    BY <1>2, <2>1
  <2>3. h.holding /\ state # "CLOSE_ROBOT" => link' = "up" /\ moves' = <<>>
    BY <1>2, <1>4, <2>1, <2>2 DEF NothingUnseen
  <2> QED
    BY <1>8, <2>1, <2>2, <2>3 DEF Queue, h
<1>12. CASE Move \/ Halt \/ Die
  <2>1. UNCHANGED <<serving, requests>>
    BY <1>12 DEF Move, Perform, Halt, TakeSetting, Die
  <2>2. link = "up" /\ moves = <<>> => FALSE
    BY <1>12 DEF Move, Perform, Halt, TakeSetting, Die, Crash
  <2> QED
    BY <1>2, <1>8, <2>1, <2>2 DEF Queue, h
<1> QED
  BY <1>9, <1>10, <1>11, <1>12 DEF ServiceStep

\* The thread asks one request after another.
LEMMA QueueThread ==
  ASSUME Lists, Queue, Thread
  PROVE  Queue'
<1> USE DEF Reached, Go, End
<1>1. CASE Send
  <2>1. /\ pc = "call" /\ pc' = "wait" /\ UNCHANGED <<state, todo, contract>>
        /\ requests' = Append(requests, Head(todo))
    BY <1>1 DEF Send
  <2>2. requests' = <<Head(todo)>> /\ serving' = NoRequest
    BY <2>1, AppendOne DEF Queue, contract
  <2> QED
    BY <2>1, <2>2 DEF Queue, contract
<1>2. CASE Returned
  <2>1. /\ pc' = "call" /\ state' = state /\ requests = <<>> /\ serving = NoRequest
        /\ UNCHANGED <<requests, serving, link, stage>>
    BY <1>2 DEF Returned, service, contract
  <2> QED
    BY <2>1 DEF Queue
<1>3. CASE ~Send /\ ~Returned
  <2>1. /\ pc = "call" /\ pc' # "wait" /\ UNCHANGED <<requests, serving, link, stage>>
        /\ state \in {"CLOSE_ROBOT", "FINISH"} => state' \in {"CLOSE_ROBOT", "FINISH"}
    BY <1>3 DEF Thread, MOVE_TO_PHOTO_POSE, GET_CALI_POINT, MoveUp, Look, Looked, Refine, Extend,
       Approach, TouchPoll, Record, CALCULATE_COORDINATE, FINISH, world, service, contract, handler
  <2> QED
    BY <2>1 DEF Queue
<1> QED
  BY <1>1, <1>2, <1>3

-----------------------------------------------------------------------------
(* Where the arm is: at rest or on a leg *)

\* What is asked while the arm rests is a leg's request.
LEMMA RestAsked ==
  ASSUME Control, angular \in Int, Lists, Rests
  PROVE  /\ Askable(Asked)
         /\ pc = "wait" => /\ Asked = <<Head(todo)>> /\ Head(todo) \in PTPs \cup {CheckPose}
                           /\ todo # <<>> /\ Head(todo).holding = TRUE /\ state # "CLOSE_ROBOT"
<1>1. pc = "wait" => todo # <<>>
  BY DEF Lists
<1>2. CASE pc # "wait"
  BY <1>2 DEF Asked, Askable
<1>3. CASE pc = "wait"
  <2>1. Head(todo) \in PTPs \cup {CheckPose} /\ state # "CLOSE_ROBOT"
    <3>1. CASE state = "MOVE_TO_CALI_POINT" /\ at = "poll" /\ Len(todo) = 3
      <4>1. todo # <<READ_DI>>
        BY <3>1, Heads
      <4> QED
        BY <1>1, <1>3, <3>1, <4>1, HeadOf
    <3>2. CASE state = "MOVE_TO_CALI_POINT" /\ at = "next" /\ Len(todo) <= 1
      <4>1. Len(todo) # 3
        BY <3>2
      <4> QED
        BY <1>1, <1>3, <3>2, <4>1, HeadOf
    <3>3. CASE state \in {"INIT", "MOVE_TO_PHOTO_POSE", "GET_CALI_POINT", "MOVE_TO_MARKER_UP"}
      BY <1>1, <1>3, <3>3, HeadOf
    <3> QED
      BY <1>3, <3>1, <3>2, <3>3 DEF Rests
  <2>2. Head(todo).holding = TRUE
    BY <2>1, Fields
  <2>3. Asked = <<Head(todo)>>
    BY <1>3 DEF Asked
  <2>4. ASSUME Head(todo) \in PTPs
        PROVE  \E g : Head(todo) = Motion("PTP", g, TRUE)
    BY <2>4 DEF PTPs, PTP
  <2>5. Askable(Asked)
    BY <2>1, <2>3, <2>4 DEF Askable
  <2> QED
    BY <1>1, <2>1, <2>2, <2>3, <2>5
<1> QED
  BY <1>2, <1>3

\* The service keeps the leg.
LEMMA RestingServe ==
  ASSUME NothingUnseen, Askable(Asked), Resting, ServiceStep, UNCHANGED <<pc, todo>>
  PROVE  Resting'
<1>1. PICK from \in Poses, grip \in {0, 1} : Leg(FALSE, Asked, from, grip, Commands)
  BY DEF Resting
<1>2. PICK asked : asked = Asked
  OBVIOUS
<1>3. Asked' = asked
  BY <1>2 DEF Asked
<1>4. Possible(FALSE, asked, from, grip, Commands)
  BY <1>2 DEF Possible
<1>5. Leg(FALSE, asked, from, grip, Commands)'
  BY <1>1, <1>2, <1>4, LegStep
<1> QED
  BY <1>3, <1>5 DEF Resting

\* On a leg the arm is not lowered: what leads down comes to where the arm stands.
LEMMA RestingKeeps ==
  ASSUME Askable(Asked), pc = "wait" => Head(todo) \in PTPs \cup {CheckPose}, Resting
  PROVE  ~Descend
<1>1. PICK from \in Poses, grip \in {0, 1} : Leg(FALSE, Asked, from, grip, Commands)
  BY DEF Resting
<1>2. ASSUME Standing(from), Descend
      PROVE  FALSE
  <2>1. PICK d \in MotionsTo(from) : moves = <<d>>
    BY <1>2 DEF Standing, Descend
  <2>2. arm = from /\ Head(moves) = d /\ d.goal = from
    BY <1>2, <2>1 DEF Standing, MotionsTo
  <2> QED
    BY <1>2, <2>2 DEF Descend, Poses
<1>3. ASSUME NEW c, c.name = "PTP", UnderWay(c, from), Descend
      PROVE  FALSE
  <2>1. PICK d \in MotionsTo(from) : moves = <<d, c>> /\ arm = from
    BY <1>3 DEF UnderWay, Descend
  <2>2. Head(moves) = d /\ d.goal = from
    BY <2>1 DEF MotionsTo
  <2> QED
    BY <1>3, <2>1, <2>2 DEF Descend, Poses
<1>4. CASE Moving(Asked, from, grip, Commands)
  <2>1. PICK c \in Asked[1].writes :
          /\ Asked[1] = Ordered(c)
          /\ \/ Asking(Asked[1]) /\ (Tabled(c, from, grip) \/ Triggered(c, from, grip))
             \/ Quiet(c.goal, grip)
    BY <1>4 DEF Moving
  <2>2. pc = "wait" /\ Asked[1] = Head(todo)
    BY <1>4 DEF Moving, Asked
  <2>3. c.name = "PTP"
    <3>1. Head(todo) \in PTPs
      BY <2>1, <2>2, Fields
    <3> QED
      BY <2>1, <2>2, <3>1, Fields
  <2> QED
    BY <1>2, <1>3, <2>1, <2>3 DEF Tabled, Triggered, Quiet, Descend
<1>5. CASE Behind(FALSE, Asked, from, grip)
  BY <1>5 DEF Behind, Descend
<1>6. CASE Showing(Asked, from, grip, Commands)
  BY <1>6 DEF Showing, Checked, Quiet, Descend
<1> QED
  BY <1>1, <1>4, <1>5, <1>6 DEF Leg

\* When nothing is asked the arm is at rest, and stays.
LEMMA RestingStill ==
  ASSUME Resting, pc # "wait"
  PROVE  link = "up" /\ moves = <<>> /\ ~ServiceStep
<1>1. PICK from \in Poses, grip \in {0, 1} : Leg(FALSE, <<>>, from, grip, Commands)
  BY DEF Resting, Asked
<1>2. Quiet(from, grip)
  BY <1>1, RestingLeg
<1> QED
  BY <1>2, QuietStays DEF Quiet

\* An arm at rest may begin a leg.
LEMMA Rested ==
  ASSUME Kinds(Requests, Commands, Places), arm \in Poses, stage # "dead",
         link = "up", moves = <<>>, requests = <<>>, serving = NoRequest
  PROVE  \E from \in Poses, grip \in {0, 1} : Leg(FALSE, <<>>, from, grip, Commands)
<1>1. vacuum \in {0, 1}
  BY ServiceConstants DEF Kinds, vacuum
<1>2. Behind(FALSE, <<>>, arm, vacuum)
  BY DEF Behind, Standing
<1>3. Leg(FALSE, <<>>, arm, vacuum, Commands)
  BY <1>2 DEF Leg, Kinds
<1> QED
  BY <1>1, <1>3

\* The awaited request is sent.
LEMMA RestingSend ==
  ASSUME Resting, Send
  PROVE  Resting'
<1>1. /\ pc = "call" /\ pc' = "wait" /\ UNCHANGED <<todo, contract, arm, shown>>
      /\ requests' = Append(requests, Head(todo))
  BY DEF Send
<1>2. PICK from \in Poses, grip \in {0, 1} : Leg(FALSE, <<>>, from, grip, Commands)
  BY <1>1 DEF Resting, Asked
<1>3. PICK r : r = Head(todo)
  OBVIOUS
<1>4. Leg(FALSE, <<r>>, from, grip, Commands)'
  BY <1>1, <1>2, <1>3, SendAwaited
<1>5. Asked' = <<r>>
  BY <1>1, <1>3 DEF Asked
<1> QED
  BY <1>4, <1>5 DEF Resting

\* Nothing is asked by a thread that goes on.
LEMMA RestingGo ==
  ASSUME Resting, UNCHANGED service, pc # "wait", pc' # "wait"
  PROVE  Resting'
<1>1. PICK from \in Poses, grip \in {0, 1} : Leg(FALSE, <<>>, from, grip, Commands)
  BY DEF Resting, Asked
<1>2. Leg(FALSE, <<>>, from, grip, Commands)'
  BY <1>1, LegKept
<1> QED
  BY <1>2 DEF Resting, Asked

\* The answer finds the arm at rest.
LEMMA RestingReturned ==
  ASSUME Kinds(Requests, Commands, Places), arm \in Poses, Queue, state # "FINISH",
         Returned, Head(todo).holding, state # "CLOSE_ROBOT"
  PROVE  Resting'
<1>1. /\ pc = "wait" /\ pc' = "call" /\ requests = <<>> /\ serving = NoRequest
      /\ UNCHANGED service
  BY DEF Returned
<1>2. link = "up" /\ moves = <<>> /\ stage # "dead"
  BY <1>1 DEF Queue
<1>3. PICK from \in Poses, grip \in {0, 1} : Leg(FALSE, <<>>, from, grip, Commands)
  BY <1>1, <1>2, Rested
<1>4. Leg(FALSE, <<>>, from, grip, Commands)'
  BY <1>1, <1>3, LegKept
<1> QED
  BY <1>1, <1>4 DEF Resting, Asked

\* The pose is looked at, and awaited, only at rest.
LEMMA LookRests ==
  ASSUME Lists, todo # <<>>, Head(todo) = CheckPose
  PROVE  Rests
<1>1. /\ CheckPose.mode = "CHECK_POSE" /\ CheckPose.holding = TRUE
      /\ \A g : PTP(g).mode = "PTP"
      /\ Lowering.mode = "LINE" /\ READ_DI.mode = "READ_DI" /\ StopNow.mode = "MOTION_STOP"
      /\ CHECK_POSE(FALSE).holding = FALSE
      /\ \A b : Motion("SET_BASE", b, FALSE).mode = "SET_BASE"
      /\ Plain("CLOSE", TRUE).mode = "CLOSE"
  BY DEF CheckPose, PTP, Motion, Lowering, READ_DI, StopNow, CHECK_POSE, Plain
<1>2. \A r \in PTPs : r # CheckPose
  BY <1>1, Fields
<1>3. CASE state = "MOVE_TO_CALI_POINT" /\ at = "next"
  <2>1. CASE AtMostALook(todo)
    BY <1>3, <2>1, Heads DEF AtMostALook, Rests
  <2>2. CASE AtMostADrive(todo)
    BY <1>2, <2>2, Heads DEF AtMostADrive
  <2>3. ASSUME NEW q \in PTPs, NEW r \in PTPs, todo = <<StopNow, q, r>> \/ todo = <<q, r>>
        PROVE  FALSE
    BY <1>1, <1>2, <2>3, Heads
  <2> QED
    BY <1>3, <2>1, <2>2, <2>3 DEF Lists
<1>4. CASE state = "MOVE_TO_CALI_POINT" /\ at = "poll"
  <2>1. todo \in {<<PTP(UpPose), Lowering, READ_DI>>, <<Lowering, READ_DI>>, <<READ_DI>>}
    BY <1>4 DEF Lists
  <2> QED
    BY <1>1, <2>1, Heads
<1>5. CASE state = "MOVE_TO_CALI_POINT" /\ at = "record"
  BY <1>1, <1>5, Heads DEF Lists
<1>6. CASE state \in {"SET_NEW_BASE", "CLOSE_ROBOT"}
  <2>1. \E r : /\ todo = <<r>>
               /\ r = Motion("SET_BASE", new_base, FALSE) \/ r = Plain("CLOSE", TRUE)
    BY <1>6 DEF Lists
  <2>2. Head(todo).mode \in {"SET_BASE", "CLOSE"}
    BY <1>1, <2>1, Heads
  <2> QED
    BY <1>1, <2>2
<1>7. CASE state \in {"INIT", "MOVE_TO_PHOTO_POSE", "GET_CALI_POINT", "MOVE_TO_MARKER_UP"}
  BY <1>7 DEF Rests
<1>8. \/ state \in {"INIT", "MOVE_TO_PHOTO_POSE", "GET_CALI_POINT", "MOVE_TO_MARKER_UP"}
      \/ state = "MOVE_TO_CALI_POINT" /\ at \in {"next", "poll", "record"}
      \/ state \in {"SET_NEW_BASE", "CLOSE_ROBOT"}
  BY DEF Lists
<1> QED
  BY <1>3, <1>4, <1>5, <1>6, <1>7, <1>8

\* It shows where the arm stands.
LEMMA LookShows ==
  ASSUME Lists, Rests => Resting, pc = "wait", Head(todo) = CheckPose,
         requests = <<>>, serving = NoRequest
  PROVE  shown \in Poses
<1>1. Asked = <<CheckPose>> /\ Rests
  BY LookRests DEF Asked, Lists
<1>2. PICK from \in Poses, grip \in {0, 1} : Leg(FALSE, <<CheckPose>>, from, grip, Commands)
  BY <1>1 DEF Resting
<1> QED
  BY <1>2, AnsweredPose

\* Every step of the service keeps the types.
LEMMA TypingServe ==
  ASSUME Typing, Serve
  PROVE  Typing'
<1>1. ServiceStep /\ OnItsWay /\ ReadInput /\ UNCHANGED <<current_position, angular>>
  BY DEF Serve
<1>2. Kinds(Requests, Commands, Places)'
  BY <1>1, Fits, KindsStep DEF Typing
<1>3. arm' \in Poses
  BY <1>1, <1>2 DEF Kinds, OnItsWay, Places
<1>4. digital_state' \in BOOLEAN
  BY <1>1 DEF ReadInput, Typing, Touching
<1> QED
  BY <1>1, <1>2, <1>3, <1>4 DEF Typing

\* So does the descent.
LEMMA TypingDescend ==
  ASSUME Typing, Descend
  PROVE  Typing'
<1>1. arm' \in Poses
  BY DEF Descend, Typing, Poses
<1> QED
  BY <1>1 DEF Descend, Typing, Kinds, contract, Places

\* So does the thread, which takes the tilt from a pose of the arm.
LEMMA TypingThread ==
  ASSUME Control, Lists, Typing, Rests => Resting, Thread
  PROVE  Typing'
<1>1. CASE Send
  <2>1. /\ requests' = Append(requests, Head(todo)) /\ todo # <<>>
        /\ UNCHANGED <<contract, arm, shown, current_position, angular, digital_state>>
    BY <1>1 DEF Send
  <2>2. todo \in Seq(Requests)
    BY ListsTyped DEF Typing
  <2>3. Head(todo) \in Requests
    BY <2>1, <2>2, HeadTailProperties
  <2>4. requests' \in Seq(Requests)
    BY <2>1, <2>3, AppendProperties DEF Typing, Kinds
  <2> QED
    BY <2>1, <2>4 DEF Typing, Kinds, contract
<1>2. CASE Returned
  <2>1. /\ pc = "wait" /\ requests = <<>> /\ serving = NoRequest /\ UNCHANGED <<digital_state, service>>
        /\ current_position' = IF Head(todo).mode = "CHECK_POSE" THEN shown ELSE current_position
        /\ angular' = IF Head(todo).mode = "CHECK_POSE" /\ at = "next" THEN shown.tilt ELSE angular
    BY <1>2 DEF Returned
  <2>2. ASSUME Head(todo).mode = "CHECK_POSE", at = "next"
        PROVE  Head(todo) = CheckPose
    BY <2>1, <2>2, HeadOf, Fields DEF Typing, Lists
  <2>3. angular' \in Int
    BY <2>1, <2>2, LookShows DEF Typing, Poses
  <2>4. current_position' \in Places
    BY <2>1 DEF Typing, Kinds
  <2> QED
    BY <2>1, <2>3, <2>4 DEF Typing, Kinds, service, contract
<1>3. CASE ~Send /\ ~Returned
  <2>1. UNCHANGED <<current_position, angular, digital_state, service>>
    BY <1>3 DEF Thread, MOVE_TO_PHOTO_POSE, GET_CALI_POINT, MoveUp, Look, Looked, Refine, Extend,
       Approach, TouchPoll, Record, CALCULATE_COORDINATE, FINISH, world
  <2> QED
    BY <2>1 DEF Typing, Kinds, service, contract
<1> QED
  BY <1>1, <1>2, <1>3

-----------------------------------------------------------------------------
(* Where the arm is: on the way down *)

\* The descent goes from over the point to its end.
LEMMA DescentTyped ==
  ASSUME Control, angular \in Int, state = "MOVE_TO_CALI_POINT", at # "next"
  PROVE  /\ Over(UpPose, i) /\ Over(DownPose, i) /\ DownPose.z = cali_pose[i].z + 5
         /\ cali_pose[i].z \in Int
         /\ i \in 1 .. 3 /\ Len(contact) = i /\ Len(final_cali_pose) = i - 1
         /\ contact # <<>> /\ contact[i] \in Int
<1>1. cali_pose[i] \in Vector /\ UpPose \in Poses /\ DownPose \in Poses
  BY UpTyped
<1>2. cali_pose[i].x \in Int /\ cali_pose[i].y \in Int /\ cali_pose[i].z \in Int
  BY <1>1 DEF Vector
<1>3. /\ UpPose.x = cali_pose[i].x /\ UpPose.y = cali_pose[i].y /\ UpPose.z = cali_pose[i].z + 9
      /\ DownPose.x = cali_pose[i].x /\ DownPose.y = cali_pose[i].y
      /\ DownPose.z = cali_pose[i].z + 5
  BY <1>2 DEF UpPose, DownPose, Pose, Raised, Vec
<1>4. ThreePts /\ contact \in Seq(Int)
  BY DEF Control, Counts, NoPoints, TwoPoints, AllTouched
<1>5. i \in 1 .. 3 /\ Len(contact) = i /\ Len(final_cali_pose) = i - 1
  BY <1>4 DEF ThreePts
<1>6. contact # <<>> /\ contact[i] \in Int
  <2>1. contact \in Seq(Int) /\ i \in 1 .. Len(contact)
    BY <1>4, <1>5
  <2> QED
    BY <2>1
<1>7. Over(UpPose, i) /\ Over(DownPose, i)
  BY <1>1, <1>2, <1>3 DEF Over
<1> QED
  BY <1>2, <1>3, <1>5, <1>6, <1>7

\* The points and where the program is do not change while the service works.
LEMMA Unmoved ==
  ASSUME UNCHANGED <<handler, search, points, current_position, angular>>
  PROVE  /\ UNCHANGED <<state, pc, at, todo, i, cali_pose, contact, UpPose, DownPose, Lowering, Lowered>>
         /\ UNCHANGED <<Asked, final_cali_pose, new_base>>
         /\ \A p : UNCHANGED Over(p, i) /\ UNCHANGED Under(p, i)
  BY DEF handler, search, points, UpPose, DownPose, Lowering, Lowered, Asked, Over, Under

\* A line that is in step after a call was so before it.
LEMMA LineWasUp ==
  ASSUME ServiceStep, link' = "up"
  PROVE  link = "up"
  BY DEF ServiceStep, Dispatch, Accept, Execute, Prepare, Write, Trigger, Poll, Line, Reply, Answer,
     Move, Perform, Halt, TakeSetting, Die, Crash

\* On a line in step a call took effect.
LEMMA TookEffect ==
  ASSUME NothingUnseen, NEW effect \in BOOLEAN, Line(effect), link' = "up"
  PROVE  effect
  BY DEF Line, NothingUnseen

\* With nothing but the descent left the arm makes it, and is at its end then.
LEMMA Descends ==
  ASSUME moves \in {<<>>, <<Lowered>>}, ServiceStep, OnItsWay, link = "up"
  PROVE  /\ ~Halt /\ ~Die
         /\ Move => arm = DownPose /\ arm' = arm /\ moves' = <<>>
                    /\ UNCHANGED <<serving, requests, stage, shown>>
         /\ ~Move => arm' = arm
<1>1. /\ Head(<<Lowered>>) = Lowered /\ Tail(<<Lowered>>) = <<>> /\ Lowered.name = "LINE"
      /\ Lowered.goal = DownPose /\ Len(<<Lowered>>) = 1 /\ <<Lowered>>[1] = Lowered
  BY DEF Lowered
<1> HIDE DEF Lowered, DownPose
<1>2. ~Halt
  <2>1. \A k \in DOMAIN moves : moves[k].name = "LINE"
    BY <1>1
  <2> QED
    BY <2>1 DEF Halt, TakeSetting, Motions
<1>3. ~Die
  BY DEF Die, Crash
<1>4. ASSUME Move
      PROVE  arm = DownPose /\ arm' = arm /\ moves' = <<>> /\ UNCHANGED <<serving, requests, stage, shown>>
  <2>1. moves # <<>> /\ moves' = Tail(moves) /\ arm' = Head(moves).goal
        /\ UNCHANGED <<serving, requests, stage, shown>>
    BY <1>4 DEF Move, Perform
  <2>2. moves = <<Lowered>>
    BY <2>1
  <2>3. arm = Head(moves).goal
    BY <1>1, <2>1, <2>2 DEF OnItsWay
  <2> QED
    BY <1>1, <2>1, <2>2, <2>3
<1>5. ~Move => arm' = arm
  BY <1>2, <1>3 DEF ServiceStep, Dispatch, Execute, Reply
<1> QED
  BY <1>2, <1>3, <1>4, <1>5

\* The LINE is written, triggered and answered.
LEMMA SinkingServe ==
  ASSUME NothingUnseen, Control, angular \in Int, Lists, Queue, Lowers, pc = "wait", Sinking, Serve
  PROVE  Sinking'
<1>1. ServiceStep /\ OnItsWay
      /\ UNCHANGED <<handler, search, points, current_position, angular>>
  BY DEF Serve
<1>2. state = "MOVE_TO_CALI_POINT" /\ at = "poll" /\ Len(todo) = 2
  BY DEF Lowers
<1>3. Head(todo) = Lowering
  <2>1. todo # <<>> /\ todo # <<READ_DI>>
    BY <1>2, Heads
  <2>2. ~(Lowers \/ Watches) => FALSE
    OBVIOUS
  <2> QED
    BY <1>2, <2>1, <2>2, HeadOf
<1>4. Over(DownPose, i)
  BY <1>2, DescentTyped
<1>5. UNCHANGED <<i, cali_pose>>
  BY <1>1, Unmoved
<1>6. UNCHANGED Lowered
  BY <1>1, Unmoved
<1>7. SUFFICES ASSUME link' = "up"
               PROVE  /\ Over(arm, i)'
                      /\ \/ moves' = <<>> /\ requests' # <<>>
                         \/ moves' = <<>> /\ serving' # NoRequest /\ stage' = "write"
                         \/ moves' = <<>> /\ serving' # NoRequest /\ stage' = "trigger" /\ table' = Lowered
                         \/ Made' /\ moves' \in {<<>>, <<Lowered>>}
  BY <1>6 DEF Sinking
<1>8. link = "up"
  BY <1>1, <1>7, LineWasUp
<1>9. /\ Over(arm, i)
      /\ \/ moves = <<>> /\ requests # <<>>
         \/ moves = <<>> /\ serving # NoRequest /\ stage = "write"
         \/ moves = <<>> /\ serving # NoRequest /\ stage = "trigger" /\ table = Lowered
         \/ Made /\ moves \in {<<>>, <<Lowered>>}
  BY <1>8 DEF Sinking
<1>10. ~Halt /\ ~Die /\ (Move => arm' = arm /\ moves' = <<>> /\ UNCHANGED <<serving, requests, stage, shown>>)
       /\ (~Move => arm' = arm)
  BY <1>1, <1>8, <1>9, Descends
<1>11. Over(arm, i)'
  BY <1>5, <1>9, <1>10 DEF Over
<1>12. /\ Lowering.mode = "LINE" /\ Lowering.holding = FALSE /\ Lowering.writes = {Lowered}
       /\ Acts(Lowering) /\ Calls(Lowering)
       /\ Lowered.name = "LINE"
  BY Fields DEF Acts, Calls, Lowered
<1>13. serving # NoRequest => serving = Lowering /\ requests = <<>>
  BY <1>3 DEF Queue
<1>14. requests # <<>> => requests = <<Lowering>> /\ serving = NoRequest
  BY <1>3 DEF Queue
<1> HIDE DEF Lowering, Lowered
<1>15. CASE Move
  <2>1. Made /\ moves # <<>>
    BY <1>9, <1>15 DEF Move, Perform
  <2> QED
    BY <1>10, <1>11, <1>15, <2>1 DEF Made
<1>16. CASE Dispatch
  <2>1. requests # <<>> /\ serving' = Head(requests) /\ serving' # NoRequest
        /\ stage' = (IF Calls(Head(requests)) THEN "write" ELSE "done") /\ moves' = moves
    BY <1>16 DEF Dispatch, Accept
  <2>2. Head(requests) = Lowering
    BY <1>14, <2>1, Heads
  <2>3. moves = <<>>
    BY <1>9, <2>1 DEF Made
  <2> QED
    BY <1>11, <1>12, <2>1, <2>2, <2>3
<1>17. CASE Reply
  <2>1. serving # NoRequest /\ stage = "done" /\ serving' = NoRequest /\ UNCHANGED <<requests, moves>>
    BY <1>17 DEF Reply, Answer
  <2>2. requests = <<>>
    BY <1>13, <2>1
  <2> QED
    BY <1>9, <1>11, <2>1, <2>2 DEF Made
<1>18. CASE Execute
  <2>1. serving = Lowering /\ serving # NoRequest /\ requests = <<>> /\ UNCHANGED <<serving, requests>>
    BY <1>13, <1>18 DEF Execute, Prepare, Write, Trigger, Poll
  <2>2. CASE stage = "write"
    <3>1. PICK effect \in BOOLEAN : Write(effect)
      BY <1>12, <1>18, <2>1, <2>2 DEF Execute, Prepare, Trigger, Poll
    <3>2. Line(effect) /\ stage' = "trigger" /\ moves' = moves
          /\ (effect => table' \in {Lowered})
      BY <1>12, <2>1, <3>1 DEF Write
    <3>3. effect
      BY <1>7, <3>2, TookEffect
    <3>4. moves = <<>>
      BY <1>9, <2>1, <2>2 DEF Made
    <3> QED
      BY <1>11, <2>1, <3>2, <3>3, <3>4
  <2>3. CASE stage = "trigger"
    <3>1. PICK effect \in BOOLEAN :
            Line(effect) /\ IF effect THEN RunTable ELSE UNCHANGED <<moves, fresh>>
      BY <1>18, <2>3 DEF Execute, Prepare, Write, Trigger, Poll
    <3>2. stage' = "done"
      BY <1>18, <2>3 DEF Execute, Prepare, Write, Trigger, Poll
    <3>3. moves = <<>> /\ table = Lowered
      BY <1>9, <2>1, <2>3 DEF Made
    <3>4. moves' \in {<<>>, <<Lowered>>}
      BY <3>1, <3>3, AppendOne DEF RunTable
    <3> QED
      BY <1>11, <2>1, <3>2, <3>4 DEF Made
  <2>4. CASE stage \notin {"write", "trigger"}
    <3>1. UNCHANGED <<stage, moves>> /\ Made
      BY <1>9, <1>18, <2>1, <2>4 DEF Execute, Prepare, Write, Trigger, Poll
    <3> QED
      BY <1>9, <1>11, <2>1, <3>1 DEF Made
  <2> QED
    BY <2>2, <2>3, <2>4
<1> QED
  BY <1>1, <1>10, <1>15, <1>16, <1>17, <1>18 DEF ServiceStep

\* What is asked on the way down is the input, and then the pose.
LEMMA WatchAsked ==
  ASSUME Control, angular \in Int, Lists, Queue, Watches
  PROVE  /\ state = "MOVE_TO_CALI_POINT" /\ at \in {"poll", "record"}
         /\ serving # NoRequest =>
              /\ pc = "wait" /\ requests = <<>>
              /\ at = "poll" => serving = READ_DI
              /\ at = "record" => serving = CHECK_POSE(FALSE)
              /\ serving.mode \in {"READ_DI", "CHECK_POSE"} /\ serving.writes = {}
         /\ requests # <<>> =>
              /\ pc = "wait" /\ serving = NoRequest
              /\ requests = <<Head(todo)>> /\ Calls(Head(todo))
<1>1. state = "MOVE_TO_CALI_POINT" /\ at \in {"poll", "record"}
  BY DEF Watches
<1>2. at = "poll" => Len(todo) # 2
  BY DEF Watches
<1>3. ASSUME pc = "wait"
      PROVE  /\ at = "poll" => Head(todo) = READ_DI
             /\ at = "record" => Head(todo) = CHECK_POSE(FALSE)
  BY <1>1, <1>2, <1>3, HeadOf DEF Lists
<1>4. READ_DI.mode = "READ_DI" /\ READ_DI.writes = {} /\ Calls(READ_DI)
      /\ CHECK_POSE(FALSE).mode = "CHECK_POSE" /\ CHECK_POSE(FALSE).writes = {}
      /\ Calls(CHECK_POSE(FALSE))
  BY Fields DEF Calls
<1> HIDE DEF READ_DI, CHECK_POSE
<1>5. serving # NoRequest => pc = "wait" /\ requests = <<>> /\ serving = Head(todo)
  BY DEF Queue
<1>6. requests # <<>> => pc = "wait" /\ serving = NoRequest /\ requests = <<Head(todo)>>
  BY DEF Queue
<1> QED
  BY <1>1, <1>3, <1>4, <1>5, <1>6

\* The input that is read is that of the arm where it was then, or over it; so is the pose.
LEMMA WatchedServe ==
  ASSUME NothingUnseen, Control, Typing, Lists, Queue, Shows, Watches, Watched, Serve
  PROVE  Watched'
<1>1. ServiceStep /\ OnItsWay /\ ReadInput
      /\ UNCHANGED <<handler, search, points, current_position, angular>>
  BY DEF Serve
<1>2. /\ state = "MOVE_TO_CALI_POINT" /\ at \in {"poll", "record"}
      /\ serving # NoRequest =>
           /\ pc = "wait" /\ requests = <<>>
           /\ at = "poll" => serving = READ_DI
           /\ at = "record" => serving = CHECK_POSE(FALSE)
           /\ serving.mode \in {"READ_DI", "CHECK_POSE"} /\ serving.writes = {}
      /\ requests # <<>> =>
           /\ pc = "wait" /\ serving = NoRequest
           /\ requests = <<Head(todo)>> /\ Calls(Head(todo))
  BY WatchAsked DEF Typing
<1>3. UNCHANGED <<state, pc, at, todo, i, cali_pose, contact, current_position>> /\ UNCHANGED Lowered
  BY <1>1, Unmoved
<1>4. CASE link' # "up"
  BY <1>4 DEF Watched
<1>5. CASE link' = "up"
  <2>1. link = "up"
    BY <1>1, <1>5, LineWasUp
  <2>2. /\ Over(arm, i) /\ moves \in {<<>>, <<Lowered>>}
        /\ serving # NoRequest => stage \in {"write", "done"}
        /\ at = "poll" /\ (todo = <<>> \/ (pc = "wait" /\ Made)) /\ digital_state => Under(arm, i)
        /\ at = "record" => /\ Under(arm, i)
                            /\ pc = "wait" /\ Made => Under(shown, i)
                            /\ todo = <<>> => Under(current_position, i)
    BY <2>1 DEF Watched
  <2>3. ~Halt /\ ~Die /\ (Move => arm' = arm /\ moves' = <<>> /\ UNCHANGED <<serving, requests, stage, shown>>)
        /\ (~Move => arm' = arm)
    BY <1>1, <2>1, <2>2, Descends
  <2>4. arm' = arm
    BY <2>3
  <2>5. /\ Over(arm, i)'
        /\ Under(arm, i) => Under(arm, i)'
        /\ Under(shown, i) /\ shown' = shown => Under(shown, i)'
        /\ Under(current_position, i) => Under(current_position, i)'
    BY <1>3, <2>2, <2>4 DEF Over, Under
  <2>6. contact # <<>> /\ Len(contact) = i /\ Over(arm, i)
    BY <1>2, <2>2, DescentTyped DEF Typing
  <2>7. Touching => Under(arm, i)
    BY <2>6 DEF Touching, Under
  <2>8. shown \in Poses
    BY <1>2, <2>1, NobodysPose DEF Shows
  <2>9. /\ moves' \in {<<>>, <<Lowered>>}
        /\ serving' # NoRequest => stage' \in {"write", "done"}
        /\ \/ Made /\ UNCHANGED <<digital_state, shown>>
           \/ ~Made' /\ UNCHANGED <<digital_state, shown>>
           \/ /\ serving # NoRequest /\ stage = "write" /\ stage' = "done"
              /\ serving.mode = "CHECK_POSE" =>
                   shown' \in {arm} \cup {p \in {Elsewhere} : moves # <<>>}
    <3>1. CASE Move
      <4>1. digital_state' = digital_state
        BY <1>1, <2>3, <3>1 DEF ReadInput
      <4> QED
        BY <2>2, <2>3, <3>1, <4>1 DEF Made
    <3>2. CASE Dispatch
      <4>1. /\ requests # <<>> /\ serving' = Head(requests) /\ serving' # NoRequest /\ serving = NoRequest
            /\ stage' = (IF Calls(Head(requests)) THEN "write" ELSE "done") /\ UNCHANGED <<moves, shown>>
        BY <3>2 DEF Dispatch, Accept
      <4>2. Head(requests) = Head(todo)
        <5>1. \A r : Head(<<r>>) = r
          OBVIOUS
        <5> QED
          BY <1>2, <4>1, <5>1
      <4>3. stage' = "write" /\ digital_state' = digital_state
        BY <1>1, <1>2, <4>1, <4>2 DEF ReadInput
      <4> QED
        BY <2>2, <4>1, <4>3 DEF Made
    <3>3. CASE Reply
      <4>1. serving # NoRequest /\ stage = "done" /\ serving' = NoRequest /\ UNCHANGED <<requests, moves, shown>>
        BY <3>3 DEF Reply, Answer
      <4>2. digital_state' = digital_state
        BY <1>1, <4>1 DEF ReadInput
      <4> QED
        BY <1>2, <2>2, <4>1, <4>2 DEF Made
    <3>4. CASE Execute
      <4>1. serving # NoRequest /\ UNCHANGED <<serving, requests>>
        BY <3>4 DEF Execute, Prepare, Write, Trigger, Poll
      <4>2. CASE stage = "done"
        <5>1. UNCHANGED <<stage, moves, shown>>
          BY <3>4, <4>2 DEF Execute, Prepare, Write, Trigger, Poll
        <5>2. digital_state' = digital_state
          BY <1>1, <4>2 DEF ReadInput
        <5> QED
          BY <1>2, <2>2, <4>1, <4>2, <5>1, <5>2 DEF Made
      <4>3. CASE stage = "write"
        <5>1. PICK effect \in BOOLEAN : Write(effect) /\ Read(effect)
          BY <1>2, <3>4, <4>1, <4>3 DEF Execute, Prepare, Trigger, Poll
        <5>2. Line(effect) /\ stage' = "done" /\ moves' = moves
          BY <1>2, <4>1, <5>1 DEF Write, Acts
        <5>3. effect
          BY <1>5, <5>2, TookEffect
        <5>4. serving.mode = "CHECK_POSE" => shown' \in {arm} \cup {p \in {Elsewhere} : moves # <<>>}
          BY <1>5, <5>1, <5>3 DEF Read
        <5> QED
          BY <2>2, <4>1, <4>3, <5>2, <5>4
      <4> QED
        BY <2>2, <4>1, <4>2, <4>3
    <3> QED
      BY <1>1, <2>3, <3>1, <3>2, <3>3, <3>4 DEF ServiceStep
  <2>10. at = "poll" /\ (todo = <<>> \/ (pc = "wait" /\ Made')) /\ digital_state' => Under(arm, i)
    <3>1. Lists => (todo = <<>> => pc # "wait")
      BY DEF Lists
    <3>2. CASE Made /\ UNCHANGED digital_state
      BY <2>2, <3>1, <3>2
    <3>3. CASE ~Made' /\ UNCHANGED digital_state
      BY <2>2, <3>3
    <3>4. CASE serving # NoRequest /\ stage = "write" /\ stage' = "done"
      <4>1. at = "poll" => digital_state' = (link' = "up" /\ Touching)
        BY <1>1, <1>2, <3>4, Fields DEF ReadInput
      <4> QED
        BY <2>7, <4>1
    <3> QED
      BY <2>9, <3>2, <3>3, <3>4
  <2>11. at = "record" /\ pc = "wait" /\ Made' => Under(shown, i)'
    <3>1. CASE Made /\ shown' = shown
      BY <2>2, <2>5, <3>1
    <3>2. ASSUME serving # NoRequest, stage = "write", stage' = "done", at = "record",
                 serving.mode = "CHECK_POSE" =>
                   shown' \in {arm} \cup {p \in {Elsewhere} : moves # <<>>}
          PROVE  Under(shown, i)'
      <4>1. serving.mode = "CHECK_POSE"
        BY <1>2, <3>2, Fields
      <4>2. shown' \in {shown, arm}
        BY <1>1, <1>5 DEF OnItsWay
      <4>3. shown' = arm
        BY <2>8, <3>2, <4>1, <4>2, NobodysPose
      <4> QED
        BY <1>3, <2>2, <3>2, <4>3 DEF Over, Under
    <3> QED
      BY <2>9, <3>1, <3>2
  <2> QED
    BY <1>3, <2>2, <2>5, <2>9, <2>10, <2>11 DEF Watched
<1> QED
  BY <1>4, <1>5

\* The arm goes down no further than the end of the descent.
LEMMA DescendFacts ==
  ASSUME Control, angular \in Int, state = "MOVE_TO_CALI_POINT", at # "next",
         moves \in {<<>>, <<Lowered>>}, Over(arm, i), Descend
  PROVE  /\ Over(arm, i)' /\ (Under(arm, i) => Under(arm, i)')
         /\ (Under(shown, i) => Under(shown, i)')
         /\ (Under(current_position, i) => Under(current_position, i)')
         /\ UNCHANGED <<state, pc, at, todo, moves, requests, serving, stage, link, digital_state>>
         /\ UNCHANGED Lowered
         /\ moves # <<>>
<1>1. /\ moves # <<>> /\ arm.z > Head(moves).goal.z /\ arm' = [arm EXCEPT !.z = @ - 1]
      /\ UNCHANGED <<handler, search, points, current_position, angular, digital_state, contract,
                     requests, shown>>
  BY DEF Descend
<1>2. Head(moves).goal = DownPose
  <2>1. Head(<<Lowered>>) = Lowered
    OBVIOUS
  <2> QED
    BY <1>1, <2>1 DEF Lowered
<1>3. DownPose.z = cali_pose[i].z + 5 /\ cali_pose[i].z \in Int /\ contact[i] \in Int
  BY DescentTyped
<1>4. UNCHANGED <<state, pc, at, todo, i, cali_pose, contact>> /\ UNCHANGED Lowered
  BY <1>1, Unmoved
<1>5. /\ arm \in Poses /\ arm' \in Poses /\ arm'.x = arm.x /\ arm'.y = arm.y
      /\ arm'.z = arm.z - 1 /\ arm.z \in Int
  BY <1>1 DEF Over, Poses
<1> HIDE DEF Poses, DownPose, Lowered
<1>6. Over(arm, i)'
  BY <1>1, <1>2, <1>3, <1>4, <1>5 DEF Over
<1>7. Under(arm, i) => Under(arm, i)'
  BY <1>3, <1>4, <1>5, <1>6 DEF Under
<1>8. (Under(shown, i) => Under(shown, i)') /\ (Under(current_position, i) => Under(current_position, i)')
  BY <1>1, <1>4 DEF Over, Under
<1> QED
  BY <1>1, <1>4, <1>6, <1>7, <1>8 DEF contract

\* Where the arm may be stays true while it descends.
LEMMA CourseDescend ==
  ASSUME Control, angular \in Int, Lists, Queue, Course, Descend
  PROVE  Course'
<1>1. ~Rests
  <2>1. Rests => Resting
    BY DEF Course
  <2> QED
    BY <2>1, RestAsked, RestingKeeps
<1>2. UNCHANGED <<state, pc, at, todo, link>>
  BY DEF Descend, handler, contract
<1>3. ~Rests' /\ ~(Lowers /\ pc = "call")'
  BY <1>1, <1>2 DEF Rests, Lowers
<1>4. CASE Lowers /\ pc = "wait" /\ link = "up"
  <2>1. state = "MOVE_TO_CALI_POINT" /\ at # "next"
    BY <1>4 DEF Lowers
  <2>2. Over(arm, i) /\ Made /\ moves \in {<<>>, <<Lowered>>}
    BY <1>4 DEF Course, Sinking, Descend
  <2>3. Over(arm, i)' /\ UNCHANGED <<moves, requests, serving, stage>> /\ UNCHANGED Lowered
    BY <2>1, <2>2, DescendFacts
  <2>4. Sinking'
    BY <2>2, <2>3 DEF Sinking, Made
  <2>5. ~Watches'
    BY <1>2, <1>4 DEF Lowers, Watches
  <2> QED
    BY <1>3, <2>4, <2>5 DEF Course
<1>5. CASE Watches /\ link = "up"
  <2>1. state = "MOVE_TO_CALI_POINT" /\ at # "next"
    BY <1>5 DEF Watches
  <2>2. Watched
    BY <1>5 DEF Course
  <2>3. Over(arm, i) /\ moves \in {<<>>, <<Lowered>>}
    BY <1>5, <2>2 DEF Watched
  <2>4. /\ Over(arm, i)' /\ (Under(arm, i) => Under(arm, i)')
        /\ (Under(shown, i) => Under(shown, i)')
        /\ (Under(current_position, i) => Under(current_position, i)')
        /\ UNCHANGED <<moves, requests, serving, stage, digital_state>>
        /\ UNCHANGED Lowered
    BY <2>1, <2>3, DescendFacts
  <2>5. Watched'
    BY <1>2, <2>2, <2>4 DEF Watched, Made
  <2>6. ~Lowers'
    BY <1>2, <1>5 DEF Lowers, Watches
  <2> QED
    BY <1>3, <2>5, <2>6 DEF Course
<1>6. CASE link # "up"
  BY <1>2, <1>3, <1>6 DEF Course, Sinking, Watched
<1>7. CASE ~(Lowers /\ pc = "wait") /\ ~Watches
  BY <1>2, <1>3, <1>7 DEF Course, Lowers, Watches
<1> QED
  BY <1>4, <1>5, <1>6, <1>7

\* Where the arm may be stays true while the service works.
LEMMA CourseServe ==
  ASSUME NothingUnseen, Control, Typing, Lists, Queue, Shows, Course, Serve
  PROVE  Course'
<1>1. ServiceStep /\ UNCHANGED <<state, pc, at, todo>> /\ UNCHANGED UpPose
  BY Unmoved DEF Serve
<1>2. (Rests' <=> Rests) /\ (Lowers' <=> Lowers) /\ (Watches' <=> Watches)
  BY <1>1 DEF Rests, Lowers, Watches
<1>3. ASSUME Rests
      PROVE  Resting'
  BY <1>1, <1>3, RestAsked, RestingServe DEF Course, Typing
<1>4. ASSUME Rests, pc # "wait"
      PROVE  FALSE
  BY <1>1, <1>4, RestingStill DEF Course
<1>5. ~(Lowers /\ pc = "call")
  BY <1>4 DEF Rests
<1>6. ASSUME Lowers, pc = "wait"
      PROVE  Sinking'
  BY <1>6, SinkingServe DEF Course, Typing
<1>7. ASSUME Watches
      PROVE  Watched'
  BY <1>7, WatchedServe DEF Course
<1> QED
  BY <1>1, <1>2, <1>3, <1>5, <1>6, <1>7 DEF Course

-----------------------------------------------------------------------------
(* Where the arm is when the thread goes on *)

\* A request is sent from where the arm is.
LEMMA CourseSend ==
  ASSUME Control, Typing, Lists, Queue, Course, Send
  PROVE  Course'
<1>1. /\ pc = "call" /\ pc' = "wait" /\ todo # <<>>
      /\ requests' = Append(requests, Head(todo))
      /\ UNCHANGED <<state, at, todo, search, points, current_position, angular, digital_state>>
      /\ UNCHANGED <<serving, stage, table, moves, link, arm, shown>>
  BY DEF Send, contract
<1>2. requests = <<>> /\ serving = NoRequest
  BY <1>1 DEF Queue
<1>3. requests' # <<>>
  BY <1>1, <1>2
<1>4. (Lowers' <=> Lowers) /\ (Watches' <=> Watches) /\ (Rests' => Rests /\ ~Lowers)
  <2>1. state' = state /\ at' = at /\ todo' = todo /\ pc' # "call"
    BY <1>1
  <2>2. Lowers' <=> Lowers
    BY <2>1 DEF Lowers
  <2>3. Watches' <=> Watches
    BY <2>1 DEF Watches
  <2>4. Rests' => Rests
    BY <2>1, <2>2 DEF Rests
  <2>5. Rests' => ~Lowers
    <3>1. ASSUME Lowers
          PROVE  /\ state' = "MOVE_TO_CALI_POINT" /\ at' = "poll" /\ Len(todo') = 2
      BY <2>1, <3>1 DEF Lowers
    <3> QED
      BY <2>1, <3>1 DEF Rests
  <2> QED
    BY <2>2, <2>3, <2>4, <2>5
<1>5. UNCHANGED <<i, cali_pose, contact>>
  BY <1>1 DEF points
<1>6. CASE Rests /\ ~Lowers
  <2>1. Resting'
    BY <1>6, RestingSend DEF Course
  <2>2. ~Watches'
    BY <1>4, <1>6 DEF Rests, Watches, Lowers
  <2> QED
    BY <1>4, <1>6, <2>1, <2>2 DEF Course
<1>7. CASE Lowers
  <2>1. Resting /\ arm = UpPose
    BY <1>1, <1>7 DEF Course, Rests
  <2>2. moves = <<>>
    BY <1>1, <2>1, RestingStill
  <2>3. Over(UpPose, i)
    BY <1>7, DescentTyped DEF Lowers, Typing
  <2>4. Over(arm, i)'
    BY <1>1, <1>5, <2>1, <2>3 DEF Over
  <2>5. Sinking'
    BY <1>1, <1>3, <2>2, <2>4 DEF Sinking
  <2>6. ~Watches'
    BY <1>4, <1>7 DEF Lowers, Watches
  <2> QED
    BY <1>1, <1>4, <1>7, <2>5, <2>6 DEF Course
<1>8. CASE Watches
  <2>1. Watched
    BY <1>8 DEF Course
  <2>2. UNCHANGED Lowered
    BY <1>1, <1>5 DEF Lowered, DownPose
  <2>3. Watched'
    BY <1>1, <1>2, <1>3, <1>5, <2>1, <2>2 DEF Watched, Over, Under, Made
  <2>4. ~Lowers'
    BY <1>4, <1>8 DEF Lowers, Watches
  <2>5. ~Rests'
    BY <1>4, <1>8 DEF Rests, Lowers, Watches
  <2> QED
    BY <2>3, <2>4, <2>5 DEF Course
<1> QED
  BY <1>4, <1>6, <1>7, <1>8 DEF Course

\* What is left of a list is one shorter.
LEMMA Shorter ==
  ASSUME Control, Typing, Lists, todo # <<>>
  PROVE  Len(Tail(todo)) = Len(todo) - 1 /\ Len(todo) \in Nat \ {0}
<1>1. todo \in Seq(Requests)
  BY ListsTyped DEF Typing
<1> QED
  BY <1>1

\* The answer to the motion over the point finds the arm there.
LEMMA ArmUp ==
  ASSUME Lists, Rests => Resting, Returned,
         state = "MOVE_TO_CALI_POINT", at = "poll", Len(todo) = 3
  PROVE  (arm = UpPose)'
<1>1. /\ pc = "wait" /\ requests = <<>> /\ serving = NoRequest
      /\ angular' = angular /\ UNCHANGED <<points, arm>>
  BY DEF Returned, service
<1>2. UNCHANGED UpPose
  BY <1>1 DEF UpPose, points
<1>3. todo = <<PTP(UpPose), Lowering, READ_DI>>
  BY Heads DEF Lists
<1>4. Asked = <<Motion("PTP", UpPose, TRUE)>>
  BY <1>1, <1>3, Heads DEF Asked, PTP
<1>5. Resting
  BY DEF Rests
<1>6. PICK goal : goal = UpPose
  OBVIOUS
<1>7. PICK from \in Poses, grip \in {0, 1} :
        Leg(FALSE, <<Motion("PTP", goal, TRUE)>>, from, grip, Commands)
  BY <1>4, <1>5, <1>6 DEF Resting
<1>8. arm = goal
  BY <1>1, <1>7, AnsweredMotion DEF Quiet
<1> QED
  BY <1>1, <1>2, <1>6, <1>8

\* An answer leaves the arm where it is.
LEMMA CourseReturned ==
  ASSUME Control, Typing, Lists, Queue, Course, Returned
  PROVE  Course'
<1>1. /\ pc = "wait" /\ pc' = "call" /\ requests = <<>> /\ serving = NoRequest
      /\ todo' = Tail(todo) /\ todo # <<>>
      /\ UNCHANGED <<state, at, search, points, digital_state>>
      /\ UNCHANGED <<requests, serving, stage, table, moves, link, arm, shown>>
  BY DEF Returned, service, contract, Lists
<1>2. Len(todo') = Len(todo) - 1 /\ Len(todo) \in Nat \ {0}
  BY <1>1, Shorter
<1>3. UNCHANGED <<i, cali_pose, contact>>
  BY <1>1 DEF points
<1>4. at # "next" => angular' = angular
  BY DEF Returned
<1>9. state' = state /\ at' = at /\ pc' = "call"
      /\ (state = "MOVE_TO_CALI_POINT" /\ at = "poll" => Len(todo) <= 3)
  <2>1. ASSUME state = "MOVE_TO_CALI_POINT", at = "poll"
        PROVE  \E p, q, r : todo = <<p, q, r>> \/ todo = <<q, r>> \/ todo = <<r>> \/ todo = <<>>
    BY <2>1 DEF Lists
  <2>2. ASSUME state = "MOVE_TO_CALI_POINT", at = "poll"
        PROVE  Len(todo) <= 3
    <3>1. PICK p, q, r : todo = <<p, q, r>> \/ todo = <<q, r>> \/ todo = <<r>> \/ todo = <<>>
      BY <2>1, <2>2
    <3>2. Len(todo) \in {0, 1, 2, 3}
      BY <3>1, Heads
    <3> QED
      BY <3>2
  <2> QED
    BY <1>1, <2>2
<1>5. ASSUME Rests'
      PROVE  Resting'
  <2>1. CASE Rests
    <3>1. Head(todo).holding /\ state # "CLOSE_ROBOT"
      BY <1>1, <2>1, RestAsked DEF Typing
    <3> QED
      BY <2>1, <3>1, RestingReturned DEF Typing, Rests, Lowers
  <2>2. CASE ~Rests
    <3>1. state = "MOVE_TO_CALI_POINT" /\ at = "next" /\ Len(todo) = 2
      <4>1. ~(state \in {"INIT", "MOVE_TO_PHOTO_POSE", "GET_CALI_POINT", "MOVE_TO_MARKER_UP"})
        BY <2>2 DEF Rests
      <4>2. CASE state = "MOVE_TO_CALI_POINT" /\ at = "next" /\ Len(todo') <= 1
        BY <1>2, <2>2, <4>2 DEF Rests
      <4>3. CASE state = "MOVE_TO_CALI_POINT" /\ at = "poll" /\ Len(todo') \in {2, 3}
        BY <1>2, <1>9, <2>2, <4>3 DEF Rests
      <4> QED
        BY <1>5, <1>9, <4>1, <4>2, <4>3 DEF Rests, Lowers
    <3>2. Head(todo) \in PTPs \cup {CheckPose}
      BY <1>1, <3>1, HeadOf DEF Typing
    <3>3. Head(todo).holding
      BY <3>2, Fields
    <3> QED
      BY <3>1, <3>3, RestingReturned DEF Typing
  <2> QED
    BY <2>1, <2>2
<1>6. ASSUME Lowers'
      PROVE  (arm = UpPose)'
  <2>1. state = "MOVE_TO_CALI_POINT" /\ at = "poll" /\ Len(todo) = 3
    <3>1. Len(todo') = 2
      BY <1>6 DEF Lowers
    <3>2. Len(todo) = 3
      <4>1. PICK n \in Nat, m \in Nat : n = Len(todo) /\ m = Len(todo') /\ m = n - 1
        BY <1>2
      <4>2. m = 2
        BY <3>1, <4>1
      <4>3. \A a, b \in Nat : b = a - 1 /\ b = 2 => a = 3
        OBVIOUS
      <4> QED
        BY <4>1, <4>2, <4>3, Zenon
    <3>3. state' = "MOVE_TO_CALI_POINT" /\ at' = "poll"
      BY <1>6 DEF Lowers
    <3> QED
      BY <1>9, <3>2, <3>3
  <2> QED
    BY <2>1, ArmUp DEF Course
<1>7. ASSUME Watches'
      PROVE  Watched'
  <2>1. state = "MOVE_TO_CALI_POINT" /\ at \in {"poll", "record"} /\ (at = "poll" => Len(todo) <= 2)
    BY <1>1, <1>2, <1>7 DEF Watches
  <2>2. UNCHANGED Lowered
    BY <1>1, <1>3, <1>4, <2>1 DEF Lowered, DownPose
  <2>3. CASE Lowers
    <3>1. Sinking /\ at = "poll" /\ Len(todo') = 1
      BY <1>1, <1>2, <2>3 DEF Course, Lowers
    <3>2. todo' # <<>>
      BY <3>1, Heads
    <3>3. link = "up" => Over(arm, i) /\ moves \in {<<>>, <<Lowered>>}
      BY <1>1, <3>1 DEF Sinking
    <3> QED
      BY <1>1, <1>3, <2>2, <3>1, <3>2, <3>3 DEF Watched, Over
  <2>4. CASE ~Lowers
    <3>1. Watches
      BY <1>2, <2>1, <2>4 DEF Watches, Lowers
    <3>2. Watched
      BY <3>1 DEF Course
    <3>3. Made
      BY <1>1 DEF Made
    <3>4. at = "record" => current_position' = shown
      <4>1. at = "record" => Head(todo) = CHECK_POSE(FALSE)
        BY <1>1, <2>1, Heads DEF Lists
      <4> QED
        BY <4>1, Fields DEF Returned
    <3>5. at = "record" /\ link = "up" => Under(current_position, i)'
      BY <1>1, <1>3, <3>2, <3>3, <3>4 DEF Watched, Over, Under
    <3> QED
      BY <1>1, <1>3, <2>2, <3>2, <3>3, <3>5 DEF Watched, Over, Under
  <2> QED
    BY <2>3, <2>4
<1>8. ~(Lowers /\ pc = "wait")'
  BY <1>1
<1> QED
  BY <1>5, <1>6, <1>7, <1>8 DEF Course

\* A handler goes on while the arm rests, or is on the way down.
LEMMA CourseGo ==
  ASSUME Lists, Course, Thread, ~Send, ~Returned
  PROVE  Course'
<1> USE DEF Reached, Go, End
<1>1. todo = <<>> /\ pc = "call" /\ pc' # "wait"
      /\ UNCHANGED <<service, arm, shown, current_position, digital_state, angular>>
      /\ UNCHANGED <<requests, serving, stage, table, moves, link>>
  BY DEF Thread, MOVE_TO_PHOTO_POSE, GET_CALI_POINT, MoveUp, Look, Looked, Refine, Extend,
     Approach, TouchPoll, Record, CALCULATE_COORDINATE, FINISH, world, service, contract, handler
<1>2. Len(<<>>) = 0
  OBVIOUS
<1>3. ~(Lowers /\ pc = "wait")'
  BY <1>1
<1>4. CASE MOVE_TO_PHOTO_POSE \/ GET_CALI_POINT \/ MoveUp \/ Look \/ Looked \/ Refine \/ Extend
  <2>1. state # "MOVE_TO_CALI_POINT"
    BY <1>4 DEF MOVE_TO_PHOTO_POSE, GET_CALI_POINT, MoveUp, Look, Looked, Refine, Extend
  <2>2. state' = "MOVE_TO_CALI_POINT" => at' = "next"
    BY <1>4, <2>1 DEF MOVE_TO_PHOTO_POSE, GET_CALI_POINT, MoveUp, Look, Looked, Refine, Extend, handler
  <2>3. Rests
    BY <1>4 DEF MOVE_TO_PHOTO_POSE, GET_CALI_POINT, MoveUp, Look, Looked, Refine, Extend, Rests
  <2>4. Resting'
    BY <1>1, <2>3, RestingGo DEF Course
  <2>5. ~Lowers' /\ ~Watches'
    BY <2>2 DEF Lowers, Watches
  <2> QED
    BY <2>4, <2>5 DEF Course
<1>5. CASE Approach
  <2>1. state = "MOVE_TO_CALI_POINT" /\ at = "next"
    BY <1>5 DEF Approach
  <2>2. Rests
    BY <1>1, <1>2, <2>1 DEF Rests
  <2>3. Resting'
    BY <1>1, <2>2, RestingGo DEF Course
  <2>4. Len(todo') = 3 /\ at' = "poll"
    <3>1. \E p, q, r : todo' = <<p, q, r>>
      BY <1>5 DEF Approach
    <3> QED
      BY <1>5, <3>1, Heads DEF Approach
  <2>5. ~Lowers' /\ ~Watches'
    BY <2>4 DEF Lowers, Watches
  <2> QED
    BY <2>3, <2>5 DEF Course
<1>6. CASE TouchPoll
  <2>1. /\ state = "MOVE_TO_CALI_POINT" /\ at = "poll" /\ state' = state /\ pc' = "call"
        /\ \/ digital_state /\ at' = "record" /\ todo' = <<CHECK_POSE(FALSE)>>
           \/ at' = "poll" /\ todo' = <<READ_DI>>
        /\ UNCHANGED points
    BY <1>1, <1>6 DEF TouchPoll, Touched
  <2>2. Watched
    BY <1>1, <1>2, <2>1 DEF Course, Watches
  <2>3. UNCHANGED <<i, cali_pose, contact>>
    BY <2>1 DEF points
  <2>4. UNCHANGED Lowered
    BY <1>1, <2>3 DEF Lowered, DownPose
  <2>5. Len(todo') = 1 /\ todo' # <<>>
    <3>1. \E r : todo' = <<r>>
      BY <2>1
    <3> QED
      BY <3>1, Heads
  <2>6. at' = "record" => digital_state
    BY <2>1
  <2>7. at' = "record" /\ link = "up" => Under(arm, i)
    BY <1>1, <2>1, <2>2, <2>6 DEF Watched
  <2>8. Watched'
    BY <1>1, <2>1, <2>2, <2>3, <2>4, <2>5, <2>7 DEF Watched, Over, Under
  <2>9. ~Lowers' /\ ~Rests'
    <3>1. state' = "MOVE_TO_CALI_POINT" /\ at' # "next"
      BY <2>1
    <3>2. Len(todo') # 2 /\ Len(todo') # 3
      <4>1. \A n : n = 1 => n # 2 /\ n # 3
        OBVIOUS
      <4> QED
        BY <2>5, <4>1
    <3> QED
      BY <3>1, <3>2 DEF Lowers, Rests
  <2> QED
    BY <2>8, <2>9 DEF Course
<1>7. CASE Record
  <2>1. \E p, q, r : todo' = <<p, q, r>>
    BY <1>7 DEF Record
  <2>2. state' = "MOVE_TO_CALI_POINT" /\ at' = "next" /\ Len(todo') = 3
    BY <1>7, <2>1, Heads DEF Record
  <2> QED
    BY <2>2 DEF Course, Rests, Lowers, Watches
<1>8. CASE CALCULATE_COORDINATE \/ FINISH
  <2>1. state' \in {"SET_NEW_BASE", "FINISH"}
    BY <1>8 DEF CALCULATE_COORDINATE, FINISH
  <2> QED
    BY <2>1 DEF Course, Rests, Lowers, Watches
<1> QED
  BY <1>4, <1>5, <1>6, <1>7, <1>8 DEF Thread

-----------------------------------------------------------------------------
(* What is shown and what is recorded *)

\* The thread sees a pose of the arm.
LEMMA ShowsThread ==
  ASSUME Control, Typing, Lists, Queue, Course, Shows, Thread
  PROVE  Shows'
<1> USE DEF Reached, Go, End
<1>1. CASE Send
  BY <1>1 DEF Send, Shows, contract
<1>2. CASE Returned
  <2>1. /\ pc = "wait" /\ requests = <<>> /\ serving = NoRequest
        /\ todo' = Tail(todo) /\ todo # <<>> /\ UNCHANGED <<state, link, shown>>
        /\ current_position' = IF Head(todo).mode = "CHECK_POSE" THEN shown ELSE current_position
    BY <1>2 DEF Returned, service, contract, Lists
  <2>2. CASE Head(todo).mode # "CHECK_POSE"
    <3>1. ASSUME state = "GET_CALI_POINT", todo' = <<>>
          PROVE  FALSE
      <4>1. ASSUME AtMostALook(todo)
            PROVE  FALSE
        BY <2>1, <2>2, <4>1, Heads, Fields DEF AtMostALook
      <4>2. ASSUME NEW r \in PTPs, todo = <<r, CheckPose>>
            PROVE  FALSE
        BY <2>1, <3>1, <4>2, Tails
      <4> QED
        BY <3>1, <4>1, <4>2 DEF Lists
    <3> QED
      BY <2>1, <2>2, <3>1 DEF Shows
  <2>3. CASE Head(todo).mode = "CHECK_POSE"
    <3>1. current_position' = shown /\ shown \in Places
      BY <2>1, <2>3 DEF Typing, Kinds
    <3>2. state \in {"MOVE_TO_MARKER_UP", "MOVE_TO_CALI_POINT"} /\ link = "up" => shown \in Poses
      BY NobodysPose DEF Shows
    <3>3. ASSUME state = "GET_CALI_POINT"
          PROVE  shown \in Poses
      <4>1. Head(todo) = CheckPose
        BY <2>1, <2>3, <3>3, HeadOf, Fields DEF Typing
      <4> QED
        BY <2>1, <4>1, LookShows DEF Course
    <3> QED
      BY <2>1, <3>1, <3>2, <3>3 DEF Shows, Places
  <2> QED
    BY <2>2, <2>3
<1>3. CASE ~Send /\ ~Returned
  <2>1. todo = <<>> /\ UNCHANGED <<current_position, shown, link>>
    BY <1>3 DEF Thread, MOVE_TO_PHOTO_POSE, GET_CALI_POINT, MoveUp, Look, Looked, Refine, Extend,
       Approach, TouchPoll, Record, CALCULATE_COORDINATE, FINISH, world, service, contract, handler
  <2>2. state' \in {"MOVE_TO_MARKER_UP", "MOVE_TO_CALI_POINT"} =>
          state \in {"GET_CALI_POINT", "MOVE_TO_MARKER_UP", "MOVE_TO_CALI_POINT"}
    BY <1>3 DEF Thread, MOVE_TO_PHOTO_POSE, GET_CALI_POINT, MoveUp, Look, Looked, Refine, Extend,
       Approach, TouchPoll, Record, CALCULATE_COORDINATE, FINISH, handler
  <2>3. ~(state' = "GET_CALI_POINT" /\ todo' = <<>>)
    <3>1. \A q, r : <<q, r>> # <<>> /\ <<r>> # <<>>
      OBVIOUS
    <3>2. CASE MOVE_TO_PHOTO_POSE
      BY <3>1, <3>2 DEF MOVE_TO_PHOTO_POSE
    <3>3. CASE GET_CALI_POINT
      BY <3>1, <3>3 DEF GET_CALI_POINT
    <3>4. CASE ~MOVE_TO_PHOTO_POSE /\ ~GET_CALI_POINT
      BY <1>3, <3>4 DEF Thread, MoveUp, Look, Looked, Refine, Extend,
         Approach, TouchPoll, Record, CALCULATE_COORDINATE, FINISH, handler
    <3> QED
      BY <3>2, <3>3, <3>4
  <2> QED
    BY <2>1, <2>2, <2>3 DEF Shows
<1> QED
  BY <1>1, <1>2, <1>3

\* Where no picture was taken after the last look the pose is known.
LEMMA LookedAtRest ==
  ASSUME Lists, Course, Shows, state = "GET_CALI_POINT", todo = <<>>
  PROVE  current_position \in Poses
<1>1. pc # "wait" /\ Rests
  BY DEF Lists, Rests
<1>2. link = "up"
  BY <1>1, RestingStill DEF Course
<1> QED
  BY <1>2 DEF Shows

\* What is shown meanwhile are poses of the arm.
LEMMA ShowsServe ==
  ASSUME Typing, Shows, Serve
  PROVE  Shows'
<1>1. ServiceStep /\ OnItsWay
      /\ UNCHANGED <<state, todo, current_position>>
  BY DEF Serve, handler
<1>2. link' = "up" => link = "up" /\ shown' \in {shown, arm}
  BY <1>1, LineWasUp DEF OnItsWay
<1> QED
  BY <1>1, <1>2 DEF Shows, Typing

\* A point that was recorded keeps its place, and the next one is under watch.
LEMMA RecordedThread ==
  ASSUME Control, Typing, Course, Recorded, Thread
  PROVE  Recorded'
<1> USE DEF Reached, Go, End
<1>1. link' = link
  BY DEF Thread, Send, Returned, MOVE_TO_PHOTO_POSE, GET_CALI_POINT, MoveUp, Look, Looked, Refine,
     Extend, Approach, TouchPoll, Record, CALCULATE_COORDINATE, FINISH, world, service, contract
<1>2. CASE GET_CALI_POINT \/ Refine \/ Extend
  <2>1. final_cali_pose = <<>> /\ final_cali_pose' = final_cali_pose
    BY <1>2 DEF GET_CALI_POINT, Refine, Extend, Control, NoPoints, TwoPoints, ThreePts, AllTouched,
       Untouched
  <2> QED
    BY <2>1 DEF Recorded
<1>3. CASE Approach
  <2>1. ThreePts /\ contact \in Seq(Int) /\ final_cali_pose \in Seq(Places)
    BY <1>3 DEF Approach, Control, Counts, NoPoints, TwoPoints, ThreePts, AllTouched
  <2>2. at = "next" /\ UNCHANGED <<cali_pose, final_cali_pose>>
    BY <1>3 DEF Approach
  <2>3. PICK c : contact' = Append(contact, c)
    BY <1>3 DEF Approach
  <2>4. \A k \in DOMAIN final_cali_pose : contact'[k] = contact[k]
    <3>1. DOMAIN final_cali_pose = 1 .. Len(contact)
      BY <2>1, <2>2 DEF ThreePts
    <3> QED
      BY <2>1, <2>3, <3>1, AppendProperties
  <2> QED
    BY <1>1, <2>2, <2>4 DEF Recorded, Under, Over
<1>4. CASE Record
  <2>1. ThreePts /\ final_cali_pose \in Seq(Places)
    BY <1>4 DEF Record, Control, Counts, NoPoints, TwoPoints, ThreePts, AllTouched
  <2>2. /\ state = "MOVE_TO_CALI_POINT" /\ at = "record" /\ todo = <<>>
        /\ UNCHANGED <<cali_pose, contact>>
        /\ final_cali_pose' = Append(final_cali_pose, current_position)
    BY <1>4 DEF Record
  <2>3. link = "up" => Under(current_position, i)
    BY <2>2 DEF Course, Watches, Watched
  <2>4. DOMAIN final_cali_pose = 1 .. i - 1 /\ i \in Nat \ {0}
    BY <2>1 DEF ThreePts
  <2>5. /\ DOMAIN final_cali_pose' = 1 .. i
        /\ \A k \in 1 .. i - 1 : final_cali_pose'[k] = final_cali_pose[k]
        /\ final_cali_pose'[i] = current_position
    <3>1. current_position \in Places /\ Len(final_cali_pose) = i - 1
      BY <2>1 DEF Typing, ThreePts
    <3> QED
      BY <2>1, <2>2, <2>4, <3>1, AppendProperties
  <2>6. \A k \in 1 .. i : k = i \/ k \in 1 .. i - 1
    BY <2>4
  <2>7. ASSUME link = "up", NEW k \in 1 .. i
        PROVE  Under(final_cali_pose'[k], k)
    BY <2>3, <2>4, <2>5, <2>6, <2>7 DEF Recorded
  <2>8. \A p, k : Under(p, k)' <=> Under(p, k)
    BY <2>2 DEF Under, Over
  <2> QED
    BY <1>1, <2>5, <2>7, <2>8 DEF Recorded, Under, Over
<1>5. CASE ~GET_CALI_POINT /\ ~Refine /\ ~Extend /\ ~Approach /\ ~Record
  <2>1. UNCHANGED <<cali_pose, final_cali_pose, contact>>
    BY <1>5 DEF Thread, Send, Returned, MOVE_TO_PHOTO_POSE, MoveUp, Look, Looked,
       TouchPoll, CALCULATE_COORDINATE, FINISH, points
  <2> QED
    BY <1>1, <2>1 DEF Recorded, Under, Over
<1> QED
  BY <1>2, <1>3, <1>4, <1>5

-----------------------------------------------------------------------------
(* The inductive invariant *)

IInv ==
  /\ Control /\ Marked /\ Lists /\ Typing
  /\ Queue /\ Course /\ Shows /\ Recorded

\* It holds at the start.
LEMMA InitIInv == Init => IInv
<1> SUFFICES ASSUME Init
             PROVE  IInv
  OBVIOUS
<1> USE DEF Init
<1>1. Control
  <2>1. Vec(0, 0, 0) \in Vector
    BY DEF Vec, Vector
  <2>2. \A n \in Nat : 0 \in 0 .. n /\ 0 \in 0 .. n + 1
    OBVIOUS
  <2>3. \A X : <<>> \in Seq(X)
    OBVIOUS
  <2>4. NoPoints
    BY DEF NoPoints, Unlooked, Untouched
  <2> HIDE DEF Vector, Places
  <2>5. Counts
    BY <2>1, <2>2, <2>3, ThreePointsConstants DEF Counts, States
  <2> QED
    BY <2>4, <2>5 DEF Control
<1>2. Marked
  <2>1. Len(<<>>) = 0
    OBVIOUS
  <2> QED
    BY <2>1 DEF Marked
<1>3. Lists
  BY DEF Lists
<1>4. Typing
  <2>1. Stop \in Commands /\ Elsewhere \in Places
    BY DEF Commands, Places
  <2>2. out \in [Pins -> {0, 1}]
    BY DEF ServiceInit
  <2> HIDE DEF Stop, Commands, Places, Requests
  <2>3. Kinds(Requests, Commands, Places)
    <3>1. PHOTO_POSE \in Places
      BY PosesTyped DEF Places
    <3> QED
      BY <2>1, <2>2, <3>1 DEF Kinds, ServiceInit
  <2>4. arm \in Poses
    BY PosesTyped DEF ServiceInit
  <2>5. current_position \in Places
    BY <2>1
  <2>6. angular \in Int
    OBVIOUS
  <2>7. digital_state \in BOOLEAN
    OBVIOUS
  <2> QED
    BY <2>3, <2>4, <2>5, <2>6, <2>7 DEF Typing
<1>5. Queue
  BY DEF Queue, ServiceInit
<1>6. Course
  <2>1. Asked = <<>> /\ stage # "dead" /\ arm \in Poses
    BY PosesTyped DEF Asked, ServiceInit
  <2>2. Resting
    BY <1>4, <2>1, Rested DEF Resting, Typing, ServiceInit
  <2> QED
    BY <2>2 DEF Course, Lowers, Watches
<1>7. Shows
  BY DEF Shows
<1>8. Recorded
  BY DEF Recorded
<1> QED
  BY <1>1, <1>2, <1>3, <1>4, <1>5, <1>6, <1>7, <1>8 DEF IInv

\* The thread keeps it.
LEMMA ThreadIInv ==
  ASSUME NothingUnseen, IInv, Thread
  PROVE  IInv'
<1> USE DEF IInv
<1>1. current_position \in Places /\ angular \in Int
  BY DEF Typing
<1>2. Control' /\ Marked'
  BY <1>1, ControlStep, MarkedStep
<1>3. Lists'
  <2>1. CASE Send \/ Returned
    BY <2>1, ListsWaits
  <2>2. CASE ~Send /\ ~Returned
    BY <1>1, <2>2, ListsGo, LookedAtRest
  <2> QED
    BY <2>1, <2>2
<1>4. Typing'
  BY TypingThread DEF Course
<1>5. Queue'
  BY QueueThread
<1>6. Course'
  BY CourseSend, CourseReturned, CourseGo
<1>7. Shows' /\ Recorded'
  BY ShowsThread, RecordedThread
<1> QED
  BY <1>2, <1>3, <1>4, <1>5, <1>6, <1>7

\* The points are kept while the thread waits.
LEMMA PointsKept ==
  ASSUME Control, Marked, Lists, UNCHANGED <<handler, search, points, angular>>
  PROVE  Control' /\ Marked' /\ Lists'
<1>1. /\ UNCHANGED <<state, todo, pc, at, looked, found, sum, cali_cnt, mistaken>>
      /\ UNCHANGED <<i, cali_pose, final_cali_pose, new_base, contact, angular>>
  BY DEF handler, search, points
<1>2. Control'
  BY <1>1 DEF Control, Counts, NoPoints, TwoPoints, ThreePts, AllTouched, Unlooked, Untouched
<1>3. Marked'
  BY <1>1 DEF Marked
<1>4. Lists'
  BY <1>1 DEF Lists, UpPose, DownPose, Lowering
<1> QED
  BY <1>2, <1>3, <1>4

\* The service, which does not change the thread, keeps it.
LEMMA ServeIInv ==
  ASSUME NothingUnseen, IInv, Serve
  PROVE  IInv'
<1> USE DEF IInv
<1>1. ServiceStep /\ UNCHANGED <<handler, search, points, angular>>
  BY DEF Serve
<1>2. Control' /\ Marked' /\ Lists'
  BY <1>1, PointsKept
<1>3. Typing'
  BY TypingServe
<1>4. Queue'
  BY <1>1, QueueServe DEF Typing, handler
<1>5. Course'
  BY CourseServe
<1>6. Shows'
  BY ShowsServe
<1>7. Recorded'
  BY <1>1, LineWasUp DEF Recorded, Under, Over, points
<1> QED
  BY <1>2, <1>3, <1>4, <1>5, <1>6, <1>7

\* So does the arm as it goes down.
LEMMA DescendIInv ==
  ASSUME IInv, Descend
  PROVE  IInv'
<1> USE DEF IInv
<1>1. UNCHANGED <<handler, search, points, current_position, angular, contract, requests, shown>>
  BY DEF Descend
<1>2. Control' /\ Marked' /\ Lists'
  BY <1>1, PointsKept
<1>3. Typing'
  BY TypingDescend
<1>4. Queue'
  BY <1>1 DEF Queue, handler, contract
<1>5. Course'
  BY CourseDescend DEF Typing
<1>6. Shows'
  BY <1>1 DEF Shows, handler, contract
<1>7. Recorded'
  BY <1>1 DEF Recorded, Under, Over, points, contract
<1> QED
  BY <1>2, <1>3, <1>4, <1>5, <1>6, <1>7

\* It is invariant if no call fails unseen.
LEMMA Invariance ==
  ASSUME NothingUnseen
  PROVE  Spec => []IInv
<1>1. ASSUME IInv, UNCHANGED vars
      PROVE  IInv'
  <2>1. /\ UNCHANGED <<handler, search, points, current_position, angular, digital_state>>
        /\ UNCHANGED <<contract, requests, arm, shown>>
    BY <1>1 DEF vars, service
  <2>2. UNCHANGED <<state, todo, pc, at, i, cali_pose, contact, serving, stage, table, fresh, moves, out, link>>
    BY <2>1 DEF handler, points, contract
  <2>3. Control' /\ Marked' /\ Lists'
    BY <1>1, <2>1, PointsKept DEF IInv
  <2>4. Typing' /\ Queue' /\ Shows'
    BY <1>1, <2>1, <2>2 DEF IInv, Typing, Kinds, Queue, Shows
  <2>5. Recorded'
    BY <1>1, <2>1, <2>2 DEF IInv, Recorded, Under, Over, points
  <2>6. Rests => Resting'
    <3>1. ASSUME Rests
          PROVE  Resting'
      <4>1. PICK from \in Poses, grip \in {0, 1} : Leg(FALSE, Asked, from, grip, Commands)
        BY <1>1, <3>1 DEF IInv, Course, Resting
      <4>2. PICK asked : asked = Asked
        OBVIOUS
      <4>3. UNCHANGED service
        BY <2>1 DEF service
      <4>4. Leg(FALSE, asked, from, grip, Commands)'
        BY <4>1, <4>2, <4>3, LegKept
      <4>5. Asked' = asked
        BY <2>2, <4>2 DEF Asked
      <4> QED
        BY <4>4, <4>5 DEF Resting
    <3> QED
      BY <3>1
  <2>7. UNCHANGED UpPose /\ UNCHANGED Lowered
    BY <2>1, <2>2 DEF UpPose, Lowered, DownPose
  <2>8. Course'
    BY <1>1, <2>1, <2>2, <2>6, <2>7
    DEF IInv, Course, Rests, Lowers, Watches, Sinking, Watched, Over, Under, Made
  <2> QED
    BY <2>3, <2>4, <2>5, <2>8 DEF IInv
<1>2. IInv /\ [Next]_vars => IInv'
  BY <1>1, ThreadIInv, ServeIInv, DescendIInv DEF Next
<1> QED
  BY <1>2, InitIInv, PTL DEF Spec

-----------------------------------------------------------------------------
(* The frame of three points *)

\* What get_vector takes from numpy: the cross product of two vectors is a vector
\* normal to both.
LEMMA CrossIsNormal ==
  ASSUME NEW a \in Vector, NEW b \in Vector
  PROVE  /\ Cross(a, b) \in Vector
         /\ Dot(Cross(a, b), a) = 0
         /\ Dot(Cross(a, b), b) = 0
  <1> DEFINE ax == a.x  ay == a.y  az == a.z  bx == b.x  by == b.y  bz == b.z
  <1>1. ax \in Int /\ ay \in Int /\ az \in Int /\ bx \in Int /\ by \in Int /\ bz \in Int
    BY DEF Vector
  <1>2. Cross(a, b) = [x |-> ay * bz - az * by, y |-> az * bx - ax * bz, z |-> ax * by - ay * bx]
    BY DEF Cross, Vec
  <1>3. Dot(Cross(a, b), a) = (ay * bz - az * by) * ax + (az * bx - ax * bz) * ay + (ax * by - ay * bx) * az
    BY <1>2 DEF Dot
  <1>4. Dot(Cross(a, b), b) = (ay * bz - az * by) * bx + (az * bx - ax * bz) * by + (ax * by - ay * bx) * bz
    BY <1>2 DEF Dot
  <1>5. Cross(a, b) \in Vector
    BY <1>1, <1>2 DEF Vector
  <1> HIDE DEF ax, ay, az, bx, by, bz
  <1>6. (ay * bz - az * by) * ax + (az * bx - ax * bz) * ay + (ax * by - ay * bx) * az = 0
    BY <1>1
  <1>7. (ay * bz - az * by) * bx + (az * bx - ax * bz) * by + (ax * by - ay * bx) * bz = 0
    BY <1>1
  <1> QED BY <1>3, <1>4, <1>5, <1>6, <1>7

\* The triple product: Dot(b x (a x b), a) is the square of a x b.
LEMMA TripleProduct ==
  ASSUME NEW a \in Vector, NEW b \in Vector
  PROVE  /\ Dot(Cross(b, Cross(a, b)), a) = Dot(Cross(a, b), Cross(a, b))
         /\ Dot(Cross(a, b), Cross(a, b)) >= 0
  <1> DEFINE ax == a.x  ay == a.y  az == a.z  bx == b.x  by == b.y  bz == b.z
             nx == ay * bz - az * by
             ny == az * bx - ax * bz
             nz == ax * by - ay * bx
  <1>1. ax \in Int /\ ay \in Int /\ az \in Int /\ bx \in Int /\ by \in Int /\ bz \in Int
    BY DEF Vector
  <1>2. Cross(a, b) = [x |-> nx, y |-> ny, z |-> nz]
    BY DEF Cross, Vec
  <1>3. Dot(Cross(a, b), Cross(a, b)) = nx * nx + ny * ny + nz * nz
    BY <1>2 DEF Dot
  <1>4. Cross(b, Cross(a, b)) = [x |-> by * nz - bz * ny, y |-> bz * nx - bx * nz, z |-> bx * ny - by * nx]
    BY <1>2 DEF Cross, Vec
  <1>5. Dot(Cross(b, Cross(a, b)), a) = (by * nz - bz * ny) * ax + (bz * nx - bx * nz) * ay + (bx * ny - by * nx) * az
    BY <1>4 DEF Dot
  <1>6. nx \in Int /\ ny \in Int /\ nz \in Int
    BY <1>1
  <1> HIDE DEF ax, ay, az, bx, by, bz
  <1>7. (by * nz - bz * ny) * ax + (bz * nx - bx * nz) * ay + (bx * ny - by * nx) * az = nx * nx + ny * ny + nz * nz
    <2>1. (by * nz - bz * ny) * ax + (bz * nx - bx * nz) * ay + (bx * ny - by * nx) * az
            = (ay * bz - az * by) * nx + (az * bx - ax * bz) * ny + (ax * by - ay * bx) * nz
      <3> HIDE DEF nx, ny, nz
      <3> QED BY <1>1, <1>6
    <2> QED BY <2>1
  <1>8. nx * nx + ny * ny + nz * nz >= 0
    <2> HIDE DEF nx, ny, nz
    <2>1. \A k \in Int : k * k >= 0
      OBVIOUS
    <2> QED BY <1>6, <2>1
  <1> QED BY <1>3, <1>5, <1>7, <1>8

\* The frame get_vector makes of any three points, or poses, has its origin at the first, its y
\* axis through the third, and x and z at right angles to it and to each other; the
\* second point is never on the far side of x.
THEOREM FrameIsRightAngled ==
  ASSUME NEW o \in Vector \cup Poses, NEW third \in Vector \cup Poses, NEW y \in Vector \cup Poses
  PROVE  LET F == get_vector(o, third, y) IN
         /\ F.origin = o
         /\ F.vy = Minus(y, o)
         /\ Dot(F.vz, F.vy) = 0
         /\ Dot(F.vx, F.vy) = 0
         /\ Dot(F.vx, F.vz) = 0
         /\ Dot(F.vx, Minus(third, o)) = Dot(F.vz, F.vz)
         /\ Dot(F.vx, Minus(third, o)) >= 0
  <1> DEFINE v == Minus(y, o)
             e == Minus(third, o)
             n == Cross(e, v)
  <1>1. v \in Vector /\ e \in Vector
    BY DEF Minus, Vec, Vector, Poses
  <1>2. get_vector(o, third, y) = [origin |-> o, vx |-> Cross(v, n), vy |-> v, vz |-> n]
    BY DEF get_vector
  <1> HIDE DEF v, e
  <1>3. n \in Vector /\ Dot(n, v) = 0
    BY <1>1, CrossIsNormal
  <1>4. Dot(Cross(v, n), e) = Dot(n, n) /\ Dot(n, n) >= 0
    BY <1>1, TripleProduct
  <1> HIDE DEF n
  <1>5. Dot(Cross(v, n), v) = 0 /\ Dot(Cross(v, n), n) = 0
    BY <1>1, <1>3, CrossIsNormal
  <1> QED BY <1>2, <1>3, <1>4, <1>5 DEF v, e
\* The frame's x axis leans to the extension by the square of how far the y axis lies
\* across it, and by what the heights of the touches add.
LEMMA AcrossTheExtension ==
  ASSUME NEW x \in Int, NEW y \in Int, NEW z \in Int, NEW e \in Int
  PROVE  Dot(Cross(Vec(x, y, z), Cross(Vec(40, 15, e), Vec(x, y, z))), Vec(40, 15, 0))
           = (40 * y - 15 * x) * (40 * y - 15 * x) + 1825 * (z * z) - (40 * x + 15 * y) * (e * z)
<1> DEFINE nx == 15 * z - e * y
           ny == e * x - 40 * z
           nz == 40 * y - 15 * x
<1>1. Cross(Vec(40, 15, e), Vec(x, y, z)) = Vec(nx, ny, nz)
  BY DEF Cross, Vec
<1>2. nx \in Int /\ ny \in Int /\ nz \in Int
  OBVIOUS
<1> HIDE DEF nx, ny, nz
<1>3. Cross(Vec(x, y, z), Vec(nx, ny, nz)) = Vec(y * nz - z * ny, z * nx - x * nz, x * ny - y * nx)
  BY DEF Cross, Vec
<1>4. Dot(Vec(y * nz - z * ny, z * nx - x * nz, x * ny - y * nx), Vec(40, 15, 0))
        = (y * nz - z * ny) * 40 + (z * nx - x * nz) * 15 + (x * ny - y * nx) * 0
  BY DEF Dot, Vec
<1>5. (y * nz - z * ny) * 40 + (z * nx - x * nz) * 15 + (x * ny - y * nx) * 0
        = nz * (40 * y - 15 * x) + z * (15 * nx - 40 * ny)
  BY <1>2
<1>6. nz * (40 * y - 15 * x) + z * (15 * nx - 40 * ny)
        = (40 * y - 15 * x) * (40 * y - 15 * x) + 1825 * (z * z) - (40 * x + 15 * y) * (e * z)
  <2>1. 15 * nx - 40 * ny = 1825 * z - e * (40 * x + 15 * y)
    BY DEF nx, ny
  <2>2. z * (15 * nx - 40 * ny) = 1825 * (z * z) - (40 * x + 15 * y) * (e * z)
    BY <2>1
  <2> QED
    BY <2>2 DEF nz
<1> QED
  BY <1>1, <1>3, <1>4, <1>5, <1>6

\* The heights of two touches over the same marker differ by 4 at most, which does not turn
\* the x axis away from the extension unless the y axis lies almost along it.
LEMMA Slanting ==
  ASSUME NEW a \in Int, NEW b \in Int, NEW e \in -4 .. 4, NEW z \in Int, a * a < 456 * (b * b)
  PROVE  b * b + 1825 * (z * z) - a * (e * z) > 0
<1> DEFINE s == 3650 * z - a * e
           value == b * b + 1825 * (z * z) - a * (e * z)
<1>1. e \in Int /\ e * e <= 16
  OBVIOUS
<1>2. \A k \in Int : k * k >= 0
  OBVIOUS
<1>3. (a * a) * (e * e) <= 16 * (a * a)
  <2>1. \A m, n \in Nat : n <= 16 => m * n <= 16 * m
    OBVIOUS
  <2>2. a * a \in Nat /\ e * e \in Nat
    BY <1>1, <1>2
  <2> QED
    BY <1>1, <2>1, <2>2
<1>4. 7300 * value = 7300 * (b * b) + s * s - (a * a) * (e * e)
  BY <1>1
<1>5. s * s >= 0 /\ b * b >= 0 /\ value \in Int /\ s * s \in Int
  BY <1>1, <1>2
<1> HIDE DEF s, value
<1>6. 7300 * value > 0
  <2>1. PICK aa \in Int, bb \in Int, ae \in Int, ss \in Int :
          aa = a * a /\ bb = b * b /\ ae = (a * a) * (e * e) /\ ss = s * s
    BY <1>1, <1>5
  <2>2. 7300 * value = 7300 * bb + ss - ae /\ ae <= 16 * aa /\ aa < 456 * bb /\ ss >= 0 /\ bb >= 0
    BY <1>3, <1>4, <1>5, <2>1
  <2> QED
    BY <1>5, <2>2
<1> QED
  BY <1>5, <1>6 DEF value

\* The other markers do not lie along the extension: the direction to each differs from it
\* by more than 2.7 degrees.  On a line with it get_vector divides by zero.
OffTheExtension ==
  \A m \in Markers \ {ORIGIN_ID} :
    LET d == Minus(Lies[m], Lies[ORIGIN_ID])
        along  == 40 * d.x + 15 * d.y
        across == 40 * d.y - 15 * d.x
    IN along * along < 456 * (across * across)

\* The base that is set is the frame of the three touches.
LEMMA BaseOfTouches ==
  ASSUME IInv, new_base # <<>>, link = "up"
  PROVE  /\ Len(cali_pose) = 3 /\ \A k \in 1 .. 3 : Under(final_cali_pose[k], k)
         /\ new_base = get_vector(final_cali_pose[1], final_cali_pose[2], final_cali_pose[3])
<1>1. AllTouched /\ final_cali_pose \in Seq(Places)
  BY DEF IInv, Control, Counts, NoPoints, TwoPoints, ThreePts, Untouched
<1>2. DOMAIN final_cali_pose = 1 .. 3
  BY <1>1 DEF AllTouched
<1>3. \A k \in 1 .. 3 : Under(final_cali_pose[k], k)
  BY <1>2 DEF IInv, Recorded
<1>4. Elsewhere \notin {final_cali_pose[k] : k \in 1 .. 3}
  BY <1>3, NobodysPose DEF Under, Over
<1> QED
  BY <1>1, <1>3, <1>4 DEF AllTouched

\* It lies as the property says.
LEMMA BaseLies ==
  ASSUME IInv, OffTheExtension
  PROVE  BaseOnMarkers
<1> SUFFICES ASSUME new_base # <<>>, link = "up", ~mistaken
             PROVE  LET o == Lies[ORIGIN_ID] IN
                      /\ new_base.origin.x = o.x /\ new_base.origin.y = o.y
                      /\ \E m \in Markers \ {ORIGIN_ID} :
                           /\ new_base.vy.x = Lies[m].x - o.x /\ new_base.vy.y = Lies[m].y - o.y
                           /\ Dot(new_base.vx, new_base.vy) = 0
                           /\ Dot(new_base.vx, Vec(40, 15, 0)) > 0
  BY DEF BaseOnMarkers
<1> DEFINE o == Lies[ORIGIN_ID]
           p == final_cali_pose[1]
           q == final_cali_pose[2]
           r == final_cali_pose[3]
<1>1. /\ Len(cali_pose) = 3 /\ Under(p, 1) /\ Under(q, 2) /\ Under(r, 3)
      /\ new_base = get_vector(p, q, r)
  BY BaseOfTouches
<1>2. PICK m \in Markers \ {ORIGIN_ID} :
        cali_pose[1] = o /\ cali_pose[3] = Lies[m] /\ cali_pose[2] = Raised(o, 40, 15, 0)
  BY <1>1 DEF IInv, Marked
<1> DEFINE l == Lies[m]
           x == l.x - o.x
           y == l.y - o.y
           z == r.z - p.z
           e == q.z - p.z
<1>3. o \in Vector /\ l \in Vector
  BY ThreePointsConstants
<1>4. p \in Poses /\ q \in Poses /\ r \in Poses
  BY <1>1 DEF Under, Over
<1>5. /\ o.x \in Int /\ o.y \in Int /\ o.z \in Int /\ l.x \in Int /\ l.y \in Int /\ l.z \in Int
      /\ p.z \in Int /\ q.z \in Int /\ r.z \in Int
  BY <1>3, <1>4 DEF Vector, Poses
<1>6. cali_pose[2].x = o.x + 40 /\ cali_pose[2].y = o.y + 15 /\ cali_pose[2].z = o.z
  BY <1>2, <1>5 DEF Raised, Vec
<1>7. /\ p.x = o.x /\ p.y = o.y /\ p.z \in o.z + 5 .. o.z + 9
      /\ q.x = o.x + 40 /\ q.y = o.y + 15 /\ q.z \in o.z + 5 .. o.z + 9
      /\ r.x = l.x /\ r.y = l.y
  BY <1>1, <1>2, <1>6 DEF Under, Over
<1>8. x \in Int /\ y \in Int /\ z \in Int /\ e \in -4 .. 4
  <2>1. \A k \in Int : \A a, b \in k + 5 .. k + 9 : a - b \in -4 .. 4
    OBVIOUS
  <2>2. e \in -4 .. 4
    BY <1>5, <1>7, <2>1
  <2>3. \A a, b \in Int : a - b \in Int
    OBVIOUS
  <2>4. x \in Int /\ y \in Int /\ z \in Int
    BY <1>5, <2>3, Zenon
  <2> QED
    BY <2>2, <2>4
<1>9. Minus(r, p) = Vec(x, y, z) /\ Minus(q, p) = Vec(40, 15, e)
  BY <1>5, <1>7 DEF Minus, Vec
<1>10. /\ new_base.origin = p /\ new_base.vy = Vec(x, y, z)
       /\ new_base.vx = Cross(Vec(x, y, z), Cross(Vec(40, 15, e), Vec(x, y, z)))
  BY <1>1, <1>9 DEF get_vector
<1>11. Dot(new_base.vx, new_base.vy) = 0
  BY <1>1, <1>4, FrameIsRightAngled
<1>12. Dot(new_base.vx, Vec(40, 15, 0)) > 0
  <2>1. (40 * x + 15 * y) * (40 * x + 15 * y) < 456 * ((40 * y - 15 * x) * (40 * y - 15 * x))
    <3>1. Minus(l, o).x = x /\ Minus(l, o).y = y
      BY DEF Minus, Vec
    <3> QED
      BY <3>1 DEF OffTheExtension
  <2> HIDE DEF x, y, z, e
  <2>2. Dot(new_base.vx, Vec(40, 15, 0))
          = (40 * y - 15 * x) * (40 * y - 15 * x) + 1825 * (z * z) - (40 * x + 15 * y) * (e * z)
    BY <1>8, <1>10, AcrossTheExtension
  <2> DEFINE a == 40 * x + 15 * y
             b == 40 * y - 15 * x
  <2>3. a \in Int /\ b \in Int
    BY <1>8
  <2>4. a * a < 456 * (b * b)
    BY <2>1
  <2> HIDE DEF a, b
  <2>5. b * b + 1825 * (z * z) - a * (e * z) > 0
    BY <1>8, <2>3, <2>4, Slanting
  <2> QED
    BY <2>2, <2>5 DEF a, b
<1>13. new_base.vy.x = l.x - o.x /\ new_base.vy.y = l.y - o.y
  BY <1>10 DEF Vec
<1> QED
  BY <1>7, <1>10, <1>11, <1>12, <1>13

-----------------------------------------------------------------------------
(* The theorems *)

\* The types, for any markers, tries and looks: of the positions and bases the program of
\* three_points_calibration_example.py computes, and of what it counts.
THEOREM Typed ==
  ASSUME NothingUnseen
  PROVE  Spec => []TypeOK
<1>1. IInv => TypeOK
  <2> SUFFICES ASSUME IInv
               PROVE  TypeOK
    OBVIOUS
  <2>1. Counts /\ (NoPoints \/ TwoPoints \/ ThreePts \/ AllTouched)
    BY DEF IInv, Control
  <2>2. i \in 0 .. 4 /\ Len(cali_pose) <= 3 /\ Len(final_cali_pose) <= 3
        /\ Len(contact) - Len(final_cali_pose) \in {0, 1}
    <3>1. Len(<<>>) = 0
      OBVIOUS
    <3>2. CASE NoPoints \/ TwoPoints
      <4>1. final_cali_pose = <<>> /\ contact = <<>> /\ i \in 0 .. 4
        BY <3>2 DEF NoPoints, TwoPoints, Untouched
      <4>2. Len(cali_pose) \in {0, 2}
        BY <3>1, <3>2 DEF NoPoints, TwoPoints
      <4>3. Len(cali_pose) <= 3
        <5>1. \A n \in {0, 2} : n <= 3
          OBVIOUS
        <5> QED
          BY <4>2, <5>1, Zenon
      <4>4. Len(contact) = 0 /\ Len(final_cali_pose) = 0
        BY <3>1, <4>1
      <4>5. 0 - 0 \in {0, 1} /\ 0 <= 3
        OBVIOUS
      <4> QED
        BY <4>1, <4>3, <4>4, <4>5, Zenon
    <3>3. CASE ThreePts
      <4>1. /\ i \in 1 .. 4 /\ Len(cali_pose) = 3 /\ Len(final_cali_pose) = i - 1
            /\ Len(contact) = i - 1 \/ Len(contact) = i
        BY <3>3 DEF ThreePts
      <4>2. \A n \in 1 .. 4 : /\ n \in 0 .. 4 /\ n - 1 <= 3
                              /\ (n - 1) - (n - 1) \in {0, 1} /\ n - (n - 1) \in {0, 1}
        OBVIOUS
      <4>3. i \in 0 .. 4 /\ Len(final_cali_pose) <= 3
        BY <4>1, <4>2, Zenon
      <4>4. Len(contact) - Len(final_cali_pose) \in {0, 1}
        <5>1. CASE Len(contact) = i - 1
          BY <4>1, <4>2, <5>1, Zenon
        <5>2. CASE Len(contact) = i
          BY <4>1, <4>2, <5>2, Zenon
        <5> QED
          BY <4>1, <5>1, <5>2
      <4>5. Len(cali_pose) <= 3
        BY <4>1
      <4> QED
        BY <4>3, <4>4, <4>5
    <3>4. CASE AllTouched
      BY <3>4 DEF AllTouched
    <3> QED
      BY <2>1, <3>2, <3>3, <3>4
  <2>3. new_base \in Bases \cup {<<>>, Elsewhere}
    <3>1. CASE ~AllTouched
      BY <2>1, <3>1 DEF NoPoints, TwoPoints, ThreePts, Untouched
    <3>2. CASE AllTouched /\ Elsewhere \notin {final_cali_pose[k] : k \in 1 .. 3}
      <4>1. final_cali_pose \in Seq(Places) /\ Len(final_cali_pose) = 3
        BY <2>1, <3>2 DEF Counts, AllTouched
      <4>2. ASSUME NEW k \in 1 .. 3
            PROVE  final_cali_pose[k] \in Poses
        <5>1. final_cali_pose[k] \in Places
          BY <4>1
        <5> QED
          BY <3>2, <5>1 DEF Places
      <4> QED
        BY <3>2, <4>2, FrameTyped DEF AllTouched
    <3>3. CASE AllTouched /\ Elsewhere \in {final_cali_pose[k] : k \in 1 .. 3}
      BY <3>3 DEF AllTouched
    <3> QED
      BY <3>1, <3>2, <3>3
  <2>4. arm \in Poses /\ shown \in Places /\ current_position \in Places /\ angular \in Int
        /\ digital_state \in BOOLEAN
    BY DEF IInv, Typing, Kinds
  <2> QED
    BY <2>1, <2>2, <2>3, <2>4 DEF TypeOK, Counts, States, Places
<1> QED
  BY <1>1, Invariance, PTL

\* As long as the line is in step every recorded point lies over the point it is recorded
\* for, no higher than where the probe touched: the pose is read after the input was set,
\* while the LINE that lowers the probe goes on, and before the stop.
THEOREM TouchesRecorded ==
  ASSUME NothingUnseen
  PROVE  Spec => []RecordsTheTouch
<1>1. IInv => RecordsTheTouch
  <2> SUFFICES ASSUME IInv, link = "up", NEW k \in DOMAIN final_cali_pose
               PROVE  LET p == final_cali_pose[k] IN
                        /\ p.x = cali_pose[k].x /\ p.y = cali_pose[k].y
                        /\ p.z \in cali_pose[k].z + 5 .. contact[k]
    BY DEF RecordsTheTouch
  <2> DEFINE p == final_cali_pose[k]
  <2>1. Under(p, k)
    BY DEF IInv, Recorded
  <2>2. final_cali_pose \in Seq(Places) /\ contact \in Seq(Int) /\ Len(contact) >= Len(final_cali_pose)
    <3>1. Len(<<>>) = 0
      OBVIOUS
    <3> QED
      BY <3>1 DEF IInv, Control, Counts, NoPoints, TwoPoints, ThreePts, AllTouched, Untouched
  <2>3. contact[k] \in Int
    <3>1. contact \in Seq(Int) /\ k \in 1 .. Len(contact)
      BY <2>2
    <3> QED
      BY <3>1
  <2> HIDE DEF p
  <2> QED
    BY <2>1, <2>3 DEF Under, Over, p
<1> QED
  BY <1>1, Invariance, PTL

\* As long as the line is in step, and unless a picture of one marker showed another first,
\* the base has its origin at marker 15, its y axis towards the other marker, and its x axis
\* at a right angle to it, to the side of the extension, wherever the markers lie off it.
THEOREM BaseWhereTheMarkersAre ==
  ASSUME NothingUnseen, OffTheExtension
  PROVE  Spec => []BaseOnMarkers
<1>1. IInv => BaseOnMarkers
  BY BaseLies
<1> QED
  BY <1>1, Invariance, PTL
=============================================================================
