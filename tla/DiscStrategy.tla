----------------------------- MODULE DiscStrategy -----------------------------
(***************************************************************************)
(* strategy_node of hiwin_example/test.py: it moves the arm over a disc,     *)
(* averages five readings of /disc_sensor, judges how the disc lies, adjusts *)
(* the arm, and picks and places the disc or skips it.  It is composed with  *)
(* the sensor that publishes and the service that moves the arm.             *)
(*                                                                         *)
(* Lengths are in micrometres and the angle of A4 in thousandths of a        *)
(* degree.  A mean m over N readings is kept as their sum N * m, and numpy's *)
(* std of two values is half their distance.                                 *)
(***************************************************************************)
EXTENDS SensorNode, CommandService

CONSTANTS
  N,          \* readings averaged; 5 in the code
  MaxShifts   \* bound: changes of what the sensors see

ASSUME StrategyConstants == N \in Nat \ {0} /\ MaxShifts \in Nat

STD_TILT_MIN       == 13
STD_TILT_MAX       == 25
OVERLAP_THRESHOLD  == 20
OFFSET_DISTANCE    == 30000
TILT_DOWN_DISTANCE == 13000

Pose(x, z)       == [x |-> x, z |-> z, a4 |-> 0]
HOME_POSE        == Pose(0, 293500)
DETECT_POSE      == Pose(-104008, -61442)
PICK_DOWN_POSE   == Pose(-104008, -83766)
PLACE_ABOVE_POSE == Pose(219694, -83766)
PLACE_DOWN_POSE  == Pose(219694, -111617)

\* Where the arm is in space with these joint angles is the robot's kinematics.
JOINTS_NORMAL == Pose(-104008, -61442)
JOINTS_TILT   == [x |-> -104008, z |-> -70000, a4 |-> 7858]

VARIABLES
  left_dist, right_dist,  \* written by the subscription's callback
  callback,               \* the message it is storing
  state,                  \* the argument of _state_machine
  pc,                     \* where its thread is in the handler of state
  todo,                   \* requests the handler still sends
  reads,                  \* readings of the left and of the right taken
  sum,                    \* their sums
  disc_state,
  above, pick,            \* adjusted_detect_pose or tilt_above_pose; pick pose
  seen,                   \* history: a pair left the serial thread's filter
  shifts,                 \* changes of view so far
  since                   \* history: pairs sensed from the settling on

strategy == <<left_dist, right_dist, callback, state, pc, todo, reads, sum,
              disc_state, above, pick>>
vars == <<strategy, sensor, view, service, seen, shifts, since>>

States == {"HOME_MOVE", "DETECT_MOVE", "READ_SENSOR", "JUDGE_STATE", "ADJUST_POSE",
           "DOWN_MOVE", "PICK_OBJECT", "UP_MOVE", "RESTORE_ANGLE", "PLACE_MOVE",
           "PLACE_DOWN", "PLACE_OBJECT", "PLACE_UP", "SKIP", "FINAL_HOME", "FINISH"}

-----------------------------------------------------------------------------
(* How the disc lies *)

Distance(a, b) == IF a < b THEN b - a ELSE a - b

Side(left, right) == IF right > left THEN "OFFSET_LEFT" ELSE "OFFSET_RIGHT"

\* left and right are sums of n readings; the tests come in the code's order.
Detect(left, right, n) ==
  IF left < OVERLAP_THRESHOLD * n /\ right < OVERLAP_THRESHOLD * n THEN "OVERLAP"
  ELSE IF Distance(left, right) > 2 * n * STD_TILT_MAX THEN Side(left, right)
  ELSE IF Distance(left, right) > 2 * n * STD_TILT_MIN THEN "TILT"
  ELSE "NORMAL"

-----------------------------------------------------------------------------
(* What a handler sends, and the state it returns *)

\* generate_robot_request holds unless told otherwise.
PTP(goal)   == Motion("PTP", goal, TRUE)
LINE(goal)  == Motion("LINE", goal, TRUE)
CHECK_POSE  == Plain("CHECK_POSE", TRUE)
call_io(on) == Output(VacuumPin, on)

Shift(p, dx) == [p EXCEPT !.x = @ + dx]

Offset(d) == CASE d = "OFFSET_LEFT"  -> -OFFSET_DISTANCE
               [] d = "OFFSET_RIGHT" -> OFFSET_DISTANCE
               [] OTHER              -> 0

\* Mutant: only the pose above the disc is adjusted.
PickPoseUnshifted(d) == PICK_DOWN_POSE

PickPose(d) == Shift(PICK_DOWN_POSE, Offset(d))

Adjust(d) ==
  CASE d = "TILT" -> <<PTP(JOINTS_TILT), CHECK_POSE>>
    [] d \in {"OFFSET_LEFT", "OFFSET_RIGHT"} -> <<PTP(Shift(DETECT_POSE, Offset(d)))>>
    [] OTHER -> <<>>

Handler(s) ==
  CASE s \in {"HOME_MOVE", "FINAL_HOME"} -> <<PTP(HOME_POSE)>>
    [] s = "DETECT_MOVE"   -> <<PTP(DETECT_POSE)>>
    [] s = "ADJUST_POSE"   -> Adjust(disc_state)
    [] s = "DOWN_MOVE"     -> <<LINE(pick)>>
    [] s = "PICK_OBJECT"   -> <<call_io(1)>>
    [] s = "UP_MOVE"       -> IF disc_state = "TILT" THEN <<LINE(above), PTP(DETECT_POSE)>>
                                                     ELSE <<LINE(above)>>
    [] s = "RESTORE_ANGLE" -> <<PTP(JOINTS_NORMAL)>>
    [] s = "PLACE_MOVE"    -> <<PTP(PLACE_ABOVE_POSE)>>
    [] s = "PLACE_DOWN"    -> <<LINE(PLACE_DOWN_POSE)>>
    [] s = "PLACE_OBJECT"  -> <<call_io(0)>>
    [] s = "PLACE_UP"      -> <<LINE(PLACE_ABOVE_POSE)>>
    [] OTHER               -> <<>>

\* Mutants: a skip does not move on, or ends at once.
AfterSkipStays == "SKIP"
AfterSkipFinish == "FINISH"

AfterJudge(d) == IF d = "OVERLAP" THEN "SKIP" ELSE "ADJUST_POSE"
AfterSkip == "FINAL_HOME"

Following(s) ==
  CASE s = "HOME_MOVE"     -> "DETECT_MOVE"
    [] s = "DETECT_MOVE"   -> "READ_SENSOR"
    [] s = "ADJUST_POSE"   -> "DOWN_MOVE"
    [] s = "DOWN_MOVE"     -> "PICK_OBJECT"
    [] s = "PICK_OBJECT"   -> "UP_MOVE"
    [] s = "UP_MOVE"       -> IF disc_state = "TILT" THEN "RESTORE_ANGLE" ELSE "PLACE_MOVE"
    [] s = "RESTORE_ANGLE" -> "PLACE_MOVE"
    [] s = "PLACE_MOVE"    -> "PLACE_DOWN"
    [] s = "PLACE_DOWN"    -> "PLACE_OBJECT"
    [] s = "PLACE_OBJECT"  -> "PLACE_UP"
    [] s = "PLACE_UP"      -> "FINAL_HOME"
    [] s = "SKIP"          -> AfterSkip
    [] s = "FINAL_HOME"    -> "FINISH"

-----------------------------------------------------------------------------
(* The main thread *)

Init ==
  /\ SensorInit
  /\ ServiceInit(HOME_POSE)
  /\ left_dist = 0 /\ right_dist = 0
  /\ callback = <<>>
  /\ state = "HOME_MOVE"
  /\ pc = "call"
  /\ todo = Handler("HOME_MOVE")
  /\ reads = 0
  /\ sum = Zero
  /\ disc_state = "UNKNOWN"
  /\ above = DETECT_POSE
  /\ pick = PICK_DOWN_POSE
  /\ seen = FALSE
  /\ shifts = 0
  /\ since = {}

history == <<seen, shifts, since>>

\* call_hiwin sends and waits, call_io sends and sleeps.
Send ==
  /\ pc = "call" /\ todo # <<>>
  /\ requests' = Append(requests, Head(todo))
  /\ todo' = Tail(todo)
  /\ pc' = IF Head(todo).mode = "DO" THEN "call" ELSE "wait"
  /\ UNCHANGED <<left_dist, right_dist, callback, state, reads, sum, disc_state, above,
                 pick, sensor, view, contract, arm, shown, history>>

\* The future of the request sent last is done.
Returned ==
  /\ pc = "wait"
  /\ requests = <<>> /\ serving = NoRequest
  /\ pc' = "call"
  /\ UNCHANGED <<left_dist, right_dist, callback, state, todo, reads, sum, disc_state,
                 above, pick, sensor, view, service, history>>

\* The handler of state returns, and that of the next state starts.
Leave ==
  /\ pc = "call" /\ todo = <<>>
  /\ state \notin {"JUDGE_STATE", "ADJUST_POSE", "FINISH"}
  /\ state' = Following(state)
  /\ pc' = IF state' = "READ_SENSOR" THEN "settle" ELSE "call"
  /\ todo' = Handler(state')
  /\ UNCHANGED <<left_dist, right_dist, callback, reads, sum, disc_state, above, pick,
                 sensor, view, service, history>>

\* Mutant: the sleeps are gone.
SettledAtOnce == TRUE

\* What the publishing node publishes as long as nothing changes.
Latest == IF source \in DOMAIN FAKE_VALUES THEN FAKE_VALUES[source] ELSE dist

\* Three seconds of sleep are sixty publications: if a node publishes, what it
\* held before the arm arrived has been replaced all the way to left_dist.
Settled ==
  \/ source = "none"
  \/ /\ left_dist = Latest.left /\ right_dist = Latest.right
     /\ \A m \in {topic[i] : i \in DOMAIN topic} \cup {callback[i] : i \in DOMAIN callback} :
          m = Latest
     /\ publishing = "half" => msg.left = Latest.left
     /\ source = "sensor" => dist = line
     /\ (source = "sensor" /\ serial # "dead" /\ Plausible(view)) => line = view

Settle ==
  /\ pc = "settle"
  /\ Settled
  /\ pc' = "left"
  /\ since' = {Latest}
  /\ UNCHANGED <<left_dist, right_dist, callback, state, todo, reads, sum, disc_state,
                 above, pick, sensor, view, service, seen, shifts>>

ReadLeft ==
  /\ pc = "left"
  /\ sum' = [sum EXCEPT !.left = @ + left_dist]
  /\ pc' = "right"
  /\ UNCHANGED <<left_dist, right_dist, callback, state, todo, reads, disc_state, above,
                 pick, sensor, view, service, history>>

\* Mutant: one reading too many.
MoreReadingsThanN(k) == k <= N

MoreReadings(k) == k < N

ReadRight ==
  /\ pc = "right"
  /\ sum' = [sum EXCEPT !.right = @ + right_dist]
  /\ reads' = reads + 1
  /\ IF MoreReadings(reads') THEN pc' = "left" /\ UNCHANGED state
                   ELSE pc' = "call" /\ state' = "JUDGE_STATE"
  /\ UNCHANGED <<left_dist, right_dist, callback, todo, disc_state, above, pick, sensor,
                 view, service, history>>

\* JUDGE_STATE, and the assignments ADJUST_POSE starts with.
Judge ==
  /\ pc = "call" /\ state = "JUDGE_STATE"
  /\ disc_state' = Detect(sum.left, sum.right, N)
  /\ state' = AfterJudge(disc_state')
  /\ todo' = IF state' = "SKIP" THEN <<>> ELSE Adjust(disc_state')
  /\ above' = Shift(DETECT_POSE, Offset(disc_state'))
  /\ pick' = PickPose(disc_state')
  /\ UNCHANGED <<left_dist, right_dist, callback, pc, reads, sum, sensor, view, service,
                 history>>

\* A tilted disc is picked below the pose CHECK_POSE has shown.
LeaveAdjust ==
  /\ pc = "call" /\ state = "ADJUST_POSE" /\ todo = <<>>
  /\ IF disc_state = "TILT"
       THEN /\ above' = shown
            /\ pick' = [shown EXCEPT !.z = @ - TILT_DOWN_DISTANCE]
       ELSE UNCHANGED <<above, pick>>
  /\ state' = Following(state)
  /\ todo' = <<LINE(pick')>>
  /\ UNCHANGED <<left_dist, right_dist, callback, pc, reads, sum, disc_state, sensor,
                 view, service, history>>

MainThread ==
  \/ Send \/ Returned \/ Leave \/ Settle \/ ReadLeft \/ ReadRight \/ Judge \/ LeaveAdjust

-----------------------------------------------------------------------------
(* The executor thread, and the world *)

\* What arrives after the judgement is never read.
Watching == state \in {"HOME_MOVE", "DETECT_MOVE", "READ_SENSOR"}

CallbackLeft ==
  /\ callback = <<>> /\ topic # <<>>
  /\ callback' = <<Head(topic)>>
  /\ left_dist' = Head(topic).left
  /\ topic' = Tail(topic)
  /\ UNCHANGED <<right_dist, state, pc, todo, reads, sum, disc_state, above, pick, source,
                 view, serial, line, dist, publishing, msg, service, history>>

CallbackRight ==
  /\ callback # <<>>
  /\ right_dist' = Head(callback).right
  /\ callback' = <<>>
  /\ UNCHANGED <<left_dist, state, pc, todo, reads, sum, disc_state, above, pick, sensor,
                 view, service, history>>

Callback == CallbackLeft \/ CallbackRight

\* A pair in range has left the serial thread's filter.
Stored == line' # line /\ line'.left \in InRange /\ line'.right \in InRange

Sensed ==
  /\ \/ Stored /\ seen' = TRUE
     \/ ~Stored /\ UNCHANGED seen
  /\ UNCHANGED <<strategy, service, shifts, since>>

\* The arm arrives over the disc, or the disc is moved.
Change ==
  /\ shifts < MaxShifts
  /\ view' \in Views \ {view}
  /\ shifts' = shifts + 1
  /\ since' = since \cup {view'}
  /\ UNCHANGED <<strategy, sensor, service, seen>>

Serve == ServiceStep /\ UNCHANGED <<strategy, sensor, view, history>>

Next ==
  \/ MainThread
  \/ Watching /\ (Callback \/ (SensorStep /\ Sensed) \/ Change)
  \/ Serve

Fairness ==
  /\ WF_vars(MainThread)
  /\ WF_vars(Watching /\ Callback)
  /\ WF_vars(Watching /\ SerialThread /\ Sensed)
  /\ WF_vars(Watching /\ Timer /\ Sensed)
  /\ WF_vars(Serve)

Spec == Init /\ [][Next]_vars
FairSpec == Spec /\ Fairness

-----------------------------------------------------------------------------
(* Properties *)

Poses == [x : Int, z : Int, a4 : Int]
Commands == [name : {"PTP", "LINE"}, goal : Poses] \cup {Stop}
Requests == [mode : {"PTP", "LINE", "CHECK_POSE", "DO"}, holding : BOOLEAN,
             writes : SUBSET Commands, pin : Pins, on : {0, 1}]

TypeOK ==
  /\ SensorTypeOK
  /\ left_dist \in Int /\ right_dist \in Int
  /\ callback \in Seq(Pair) /\ Len(callback) <= 1
  /\ state \in States
  /\ pc \in {"call", "wait", "settle", "left", "right"}
  /\ todo \in Seq(Requests)
  /\ reads \in 0 .. N
  /\ sum \in Pair
  /\ disc_state \in DOMAIN FAKE_VALUES \cup {"UNKNOWN"}
  /\ above \in Poses /\ pick \in Poses
  /\ seen \in BOOLEAN /\ shifts \in 0 .. MaxShifts /\ since \subseteq Pair
  /\ requests \in Seq(Requests)
  /\ serving \in Requests \cup {NoRequest}
  /\ stage \in {"write", "trigger", "done"}
  /\ table \in Commands /\ fresh \in BOOLEAN
  /\ moves \in Seq(Commands)
  /\ arm \in Poses /\ shown \in Poses \cup {Elsewhere}
  /\ out \in [Pins -> {0, 1}]
  /\ link \in {"up", "desync", "lost"}

\* Each mean lies between distances that were sensed from the settling on, so a
\* disc that lies still is judged as it lies: no older pair, no half of one and no
\* default gets into the readings, although two threads of two nodes store, load,
\* publish and take the pairs half by half.
JudgedAsSeen ==
  disc_state # "UNKNOWN" /\ source = "sensor" =>
    /\ \E v, w \in since : N * v.left <= sum.left /\ sum.left <= N * w.left
    /\ \E v, w \in since : N * v.right <= sum.right /\ sum.right <= N * w.right
    /\ since = {view} => disc_state = Detect(view.left, view.right, 1)

\* A node that has never been given a distance in range picks nothing: the zeros
\* both nodes start with are judged OVERLAP, whatever the threads interleave.
BlindNeverPicks == vacuum = 1 => seen \/ source \in DOMAIN FAKE_VALUES

\* From the pick to the placing the arm moves only with the vacuum on, although
\* call_io does not wait for its answer and the link may fail at any call.
LiftsWithVacuum ==
  [][arm' # arm /\ state \in {"UP_MOVE", "RESTORE_ANGLE", "PLACE_MOVE", "PLACE_DOWN"}
       => vacuum = 1]_vars

\* The vacuum goes off only when the arm rests at the place point.
ReleasesAtPlace ==
  [][vacuum = 1 /\ vacuum' = 0 => arm = PLACE_DOWN_POSE /\ moves = <<>>]_vars

\* A LINE lowers or lifts the arm and never drags it sideways, whichever way the
\* disc lies.
LinesAreVertical ==
  [][(moves # <<>> /\ moves' = Tail(moves) /\ Head(moves).name = "LINE")
       => arm'.x = arm.x /\ arm'.a4 = arm.a4]_vars

\* When the strategy ends, the arm is at home and nothing is held.
EndsAtHome == state = "FINISH" => arm = HOME_POSE /\ moves = <<>> /\ vacuum = 0

\* The strategy comes to its end, with or without a sensor, unless the link fails.
Finishes == <>(state = "FINISH" \/ link # "up")
=============================================================================
