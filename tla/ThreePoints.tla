----------------------------- MODULE ThreePoints -----------------------------
(***************************************************************************)
(* hiwin_example/three_points_calibration_example.py: it looks for two aruco  *)
(* markers, lowers a probe over each of them and over a point beside the      *)
(* first until an input is set, and makes the three touched points the base.  *)
(* Lengths are in centimetres, the tilt of the camera in steps of 0.5 degree. *)
(***************************************************************************)
EXTENDS CommandService, BaseFrame

CONSTANTS
  MaxTries,   \* 50 in the code
  Looks,      \* 10 in the code
  Markers,    \* the markers on the table
  Lies,       \* where each lies
  Contacts    \* heights over a point at which the probe may touch

ORIGIN_ID == 15

ASSUME ThreePointsConstants ==
  /\ MaxTries \in Nat /\ Looks \in Nat \ {0}
  /\ ORIGIN_ID \in Markers /\ Markers \subseteq Nat
  /\ Lies \in [Markers -> Vector]
  /\ Contacts \subseteq Int

VARIABLES
  state, todo, pc,        \* the argument of _state_machine; requests to send
  at,                     \* where its handler is
  looked, found,          \* pictures taken, and how many showed a marker
  sum,                    \* of the places of the first marker in each
  cali_cnt, mistaken,     \* history: a picture showed another marker first
  i,                      \* the index of p in cali_pose
  cali_pose, final_cali_pose, new_base,
  contact,                \* the heights at which the probe touches the points
  current_position,       \* as the last answer shows it
  angular,                \* the tilt of the poses a handler commands
  digital_state           \* the input, as READ_DI shows it

handler == <<state, todo, pc, at>>
search  == <<looked, found, sum, cali_cnt, mistaken>>
points  == <<i, cali_pose, final_cali_pose, new_base, contact>>
vars == <<handler, search, points, current_position, angular, digital_state, service>>
world == <<current_position, angular, digital_state, service>>

-----------------------------------------------------------------------------
(* Requests *)

Poses == [x : Int, y : Int, z : Int, tilt : Int]

ASSUME NobodysPose == Elsewhere \notin Poses

Pose(v, tilt) == [x |-> v.x, y |-> v.y, z |-> v.z, tilt |-> tilt]
Raised(p, dx, dy, dz) == Vec(p.x + dx, p.y + dy, p.z + dz)

\* Where the joint angles of the parameter PHOTO_POSE bring the arm.
PHOTO_POSE == Pose(Vec(0, 0, 60), 0)

PTP(goal)           == Motion("PTP", goal, TRUE)
CHECK_POSE(holding) == Plain("CHECK_POSE", holding)
READ_DI             == Plain("READ_DI", FALSE)

-----------------------------------------------------------------------------
(* The thread *)

Init ==
  /\ ServiceInit(PHOTO_POSE)
  /\ state = "INIT" /\ todo = <<>> /\ pc = "call" /\ at = "start"
  /\ looked = 0 /\ found = 0 /\ sum = Vec(0, 0, 0) /\ cali_cnt = 0 /\ mistaken = FALSE
  /\ i = 0 /\ cali_pose = <<>> /\ final_cali_pose = <<>> /\ new_base = <<>>
  /\ contact = <<>>
  /\ current_position = Elsewhere /\ angular = 0 /\ digital_state = FALSE

\* call_hiwin awaits every answer.
Send ==
  /\ pc = "call" /\ todo # <<>>
  /\ requests' = Append(requests, Head(todo))
  /\ pc' = "wait"
  /\ UNCHANGED <<state, todo, at, search, points, current_position, angular, digital_state,
                 contract, arm, shown>>

\* Before its loop a handler takes the tilt from a first CHECK_POSE.
Returned ==
  /\ pc = "wait"
  /\ requests = <<>> /\ serving = NoRequest
  /\ pc' = "call"
  /\ todo' = Tail(todo)
  /\ current_position' = IF Head(todo).mode = "CHECK_POSE" THEN shown ELSE current_position
  /\ angular' = IF Head(todo).mode = "CHECK_POSE" /\ at = "next" THEN shown.tilt ELSE angular
  /\ UNCHANGED <<state, at, search, points, digital_state, service>>

Reached(s, a) == pc = "call" /\ todo = <<>> /\ state = s /\ at = a
Go(s, a, sends) == state' = s /\ at' = a /\ todo' = sends /\ UNCHANGED pc
End(s) == state' = s /\ pc' = "gone" /\ UNCHANGED <<todo, at>>

\* A held answer is IDLE.
MOVE_TO_PHOTO_POSE ==
  /\ \/ Reached("INIT", "start") /\ Go("MOVE_TO_PHOTO_POSE", "moved", <<PTP(PHOTO_POSE)>>)
     \/ Reached("MOVE_TO_PHOTO_POSE", "moved")
        /\ Go("GET_CALI_POINT", "look", <<CHECK_POSE(TRUE)>>)
  /\ UNCHANGED <<search, points, world>>

\* What call_for_aruco may return: the markers in the picture, in any order.
Pictures ==
  {<<>>} \cup {<<m>> : m \in Markers} \cup {ids \in Markers \X Markers : ids[1] # ids[2]}

\* Mutant: the tries are not counted.
EnoughNever(n) == n > MaxTries + 1

Enough(n) == n > MaxTries

Both(ids) == Len(ids) = 2 /\ ORIGIN_ID \in {ids[1], ids[2]}

\* Mutant: the markers are taken as they come.
SortedAsSeen(ids) == ids

\* The origin comes first.
Sorted(ids) == IF ids[1] # ORIGIN_ID THEN <<ids[2], ids[1]>> ELSE ids

GET_CALI_POINT ==
  /\ Reached("GET_CALI_POINT", "look")
  /\ \E ids \in Pictures :
       \/ /\ Both(ids)
          /\ cali_pose' = [k \in 1 .. 2 |-> Lies[Sorted(ids)[k]]]
          /\ i' = 1
          /\ UNCHANGED cali_cnt
          /\ Go("MOVE_TO_MARKER_UP", "next", <<CHECK_POSE(TRUE)>>)
       \/ /\ ~Both(ids) /\ Enough(cali_cnt)
          /\ cali_cnt' = 0
          /\ UNCHANGED <<cali_pose, i>>
          /\ Go("CLOSE_ROBOT", "sent", <<Plain("CLOSE", TRUE)>>)
       \/ /\ ~Both(ids) /\ ~Enough(cali_cnt)
          /\ cali_cnt' = cali_cnt + 1
          /\ UNCHANGED <<cali_pose, i>>
          /\ Go(state, at, <<PTP([current_position EXCEPT !.tilt = @ + 1]), CHECK_POSE(TRUE)>>)
  /\ UNCHANGED <<looked, found, sum, mistaken, final_cali_pose, new_base, contact, world>>

MoveUp ==
  /\ Reached("MOVE_TO_MARKER_UP", "next") /\ i <= 2
  /\ Go(state, "look", <<PTP(Pose(Raised(cali_pose[i], 3, 3, 20), angular))>>)
  /\ UNCHANGED <<search, points, world>>

\* One of the pictures; of its poses the first is kept, whichever marker it is.
Look ==
  /\ Reached("MOVE_TO_MARKER_UP", "look") /\ looked < Looks
  /\ looked' = looked + 1
  /\ \E ids \in Pictures :
       IF ids = <<>> THEN UNCHANGED <<found, sum, mistaken>>
       ELSE /\ found' = found + 1
            /\ sum' = Raised(sum, Lies[ids[1]].x, Lies[ids[1]].y, Lies[ids[1]].z)
            /\ mistaken' = (mistaken \/ Lies[ids[1]] # cali_pose[i])
  /\ UNCHANGED <<handler, cali_cnt, points, world>>

\* Without any marker in the pictures marker_pose is None: the thread fails.
Looked ==
  /\ Reached("MOVE_TO_MARKER_UP", "look") /\ looked = Looks
  /\ IF found = 0 THEN End(state) ELSE Go(state, "refine", <<CHECK_POSE(TRUE)>>)
  /\ UNCHANGED <<search, points, world>>

Mean == Vec(sum.x \div found, sum.y \div found, sum.z \div found)

Refine ==
  /\ Reached("MOVE_TO_MARKER_UP", "refine")
  /\ cali_pose' = [cali_pose EXCEPT ![i] = Mean]
  /\ i' = i + 1
  /\ looked' = 0 /\ found' = 0 /\ sum' = Vec(0, 0, 0)
  /\ Go(state, "next", <<>>)
  /\ UNCHANGED <<cali_cnt, mistaken, final_cali_pose, new_base, contact, world>>

\* Mutant: the extension comes last.
InsertLast(ps) == Append(ps, Raised(ps[1], 40, 15, 0))

\* A point beside the origin is inserted after it.
Insert(ps) == <<ps[1], Raised(ps[1], 40, 15, 0), ps[2]>>

Extend ==
  /\ Reached("MOVE_TO_MARKER_UP", "next") /\ i = 3
  /\ cali_pose' = Insert(cali_pose)
  /\ i' = 1
  /\ Go("MOVE_TO_CALI_POINT", "next", <<CHECK_POSE(TRUE)>>)
  /\ UNCHANGED <<search, final_cali_pose, new_base, contact, world>>

\* The LINE is not held: the input is read while it lowers the probe.
Approach ==
  /\ Reached("MOVE_TO_CALI_POINT", "next") /\ i <= 3
  /\ \E c \in Contacts : contact' = Append(contact, cali_pose[i].z + c)
  /\ Go(state, "poll",
        <<PTP(Pose(Raised(cali_pose[i], 0, 0, 9), angular)),
          Motion("LINE", Pose(Raised(cali_pose[i], 0, 0, 5), angular), FALSE), READ_DI>>)
  /\ UNCHANGED <<search, i, cali_pose, final_cali_pose, new_base, world>>

\* Mutants: the input is not looked at, or it is another one.
TouchedAnyway == TRUE

Touched == digital_state

TouchPoll ==
  /\ Reached("MOVE_TO_CALI_POINT", "poll")
  /\ IF Touched THEN Go(state, "record", <<CHECK_POSE(FALSE)>>) ELSE Go(state, at, <<READ_DI>>)
  /\ UNCHANGED <<search, points, world>>

\* Then the arm stops, goes up to a fixed height and back to the photo pose.
Record ==
  /\ Reached("MOVE_TO_CALI_POINT", "record")
  /\ final_cali_pose' = Append(final_cali_pose, current_position)
  /\ i' = i + 1
  /\ Go(state, "next",
        <<Motion("MOTION_STOP", Elsewhere, FALSE),
          PTP(Pose([cali_pose[i] EXCEPT !.z = 8], angular)), PTP(PHOTO_POSE)>>)
  /\ UNCHANGED <<search, cali_pose, new_base, contact, world>>

\* Whatever was recorded: a pose that is none gives a base that is none.
CALCULATE_COORDINATE ==
  /\ Reached("MOVE_TO_CALI_POINT", "next") /\ i = 4
  /\ new_base' = IF Elsewhere \in {final_cali_pose[k] : k \in 1 .. 3} THEN Elsewhere
                 ELSE get_vector(final_cali_pose[1], final_cali_pose[2], final_cali_pose[3])
  /\ Go("SET_NEW_BASE", "sent", <<Motion("SET_BASE", new_base', FALSE)>>)
  /\ UNCHANGED <<search, i, cali_pose, final_cali_pose, contact, world>>

FINISH ==
  /\ Reached("SET_NEW_BASE", "sent") \/ Reached("CLOSE_ROBOT", "sent")
  /\ End("FINISH")
  /\ UNCHANGED <<search, points, world>>

Thread ==
  \/ Send \/ Returned \/ MOVE_TO_PHOTO_POSE \/ GET_CALI_POINT \/ MoveUp \/ Look \/ Looked
  \/ Refine \/ Extend \/ Approach \/ TouchPoll \/ Record \/ CALCULATE_COORDINATE \/ FINISH

-----------------------------------------------------------------------------
(* The service, the arm and the probe *)

Touching == contact # <<>> /\ arm.z <= contact[Len(contact)]

\* A failed read of the input leaves zeros.
ReadInput ==
  IF serving # NoRequest /\ serving.mode = "READ_DI" /\ stage = "write" /\ stage' = "done"
    THEN digital_state' = (link' = "up" /\ Touching)
    ELSE UNCHANGED digital_state

\* A LINE ends at its goal, a stop where the arm is, and a pose read on the way is
\* one of the way: RegisterCodec tells when it is not.
OnItsWay ==
  /\ arm' # Elsewhere
  /\ link' = "up" => shown' \in {shown, arm}
  /\ (moves # <<>> /\ Head(moves).name = "LINE" /\ moves' = Tail(moves)) => arm = Head(moves).goal

Serve ==
  /\ ServiceStep /\ OnItsWay /\ ReadInput
  /\ UNCHANGED <<handler, search, points, current_position, angular>>

Descend ==
  /\ moves # <<>> /\ Head(moves).name = "LINE" /\ arm.z > Head(moves).goal.z
  /\ arm' = [arm EXCEPT !.z = @ - 1]
  /\ UNCHANGED <<handler, search, points, current_position, angular, digital_state, contract,
                 requests, shown>>

Next == Thread \/ Serve \/ Descend

Spec == Init /\ [][Next]_vars

\* The controller moves and stops the arm however often it is asked for its state.
MoveOn == Serve /\ moves' # moves /\ UNCHANGED serving
FairSpec == Spec /\ WF_vars(Thread) /\ WF_vars(Serve) /\ WF_vars(Descend) /\ WF_vars(MoveOn)

-----------------------------------------------------------------------------
(* Properties *)

Bases == [origin : Poses, vx : Vector, vy : Vector, vz : Vector]

TypeOK ==
  /\ state \in {"INIT", "MOVE_TO_PHOTO_POSE", "GET_CALI_POINT", "MOVE_TO_MARKER_UP",
                "MOVE_TO_CALI_POINT", "SET_NEW_BASE", "CLOSE_ROBOT", "FINISH"}
  /\ pc \in {"call", "wait", "gone"}
  /\ looked \in 0 .. Looks /\ found \in 0 .. looked /\ sum \in Vector
  /\ cali_cnt \in 0 .. MaxTries + 1
  /\ i \in 0 .. 4
  /\ cali_pose \in Seq(Vector) /\ Len(cali_pose) <= 3
  /\ final_cali_pose \in Seq(Poses \cup {Elsewhere}) /\ Len(final_cali_pose) <= 3
  /\ new_base \in Bases \cup {<<>>, Elsewhere}
  /\ Len(contact) - Len(final_cali_pose) \in {0, 1}
  /\ arm \in Poses /\ shown \in Poses \cup {Elsewhere}
  /\ current_position \in Poses \cup {Elsewhere} /\ angular \in Int
  /\ digital_state \in BOOLEAN

\* Each recorded point lies over the point it is recorded for, not above where the
\* probe touched and not below where the LINE ends: the pose is read after the
\* input was set and before the stop, which the arm does not wait for.
RecordsTheTouch ==
  link = "up" => \A k \in DOMAIN final_cali_pose :
    LET p == final_cali_pose[k] IN
      /\ p.x = cali_pose[k].x /\ p.y = cali_pose[k].y
      /\ p.z \in cali_pose[k].z + 5 .. contact[k]

\* The base that is set has its origin at marker 15, its y axis towards the other
\* marker, and its x axis, at a right angle, to the side of the extension, unless
\* a picture of one marker showed another one first.
BaseOnMarkers ==
  (new_base # <<>> /\ link = "up" /\ ~mistaken) =>
    LET o == Lies[ORIGIN_ID] IN
      /\ new_base.origin.x = o.x /\ new_base.origin.y = o.y
      /\ \E m \in Markers \ {ORIGIN_ID} :
           /\ new_base.vy.x = Lies[m].x - o.x /\ new_base.vy.y = Lies[m].y - o.y
           /\ Dot(new_base.vx, new_base.vy) = 0
           /\ Dot(new_base.vx, Vec(40, 15, 0)) > 0

\* The program ends, in a base, in a closed robot or without a marker in sight,
\* unless a call comes late or is lost, the service dies over the CLOSE of a failed search
\* and answers nobody, or the probe misses a point.
Missed == contact # <<>> /\ contact[Len(contact)] < cali_pose[Len(contact)].z + 5
Finishes == <>(pc = "gone" \/ LineFailed \/ Unanswered \/ Missed)
=============================================================================
