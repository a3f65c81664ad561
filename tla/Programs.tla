------------------------------- MODULE Programs -------------------------------
(***************************************************************************)
(* The programs that run one list of handlers over hiwinmodbus_service: both  *)
(* cabinet strategies, the trial of the vacuum, the hand-in-eye calibration   *)
(* and the client.  They share their thread: _main_loop, call_hiwin and       *)
(* _wait_for_future_done are the same in each file.                          *)
(***************************************************************************)
EXTENDS CommandService, FiniteSets

CONSTANT Names    \* the programs that may be started

First  == INSTANCE FirstVersion
Long   == INSTANCE LongVersion
Io     == INSTANCE IoTest
Hand   == INSTANCE HandInEye
Client == INSTANCE ServiceClient

ASSUME ProgramConstants ==
  /\ Names \subseteq {"first", "long", "io", "hand", "client"}
  /\ Client!ClientPin \in Pins

VARIABLES
  program,      \* the one that runs
  state,        \* the argument of _state_machine
  todo,         \* requests its handler still sends
  pc,           \* "call", "wait" for an answer, "gone"
  last,         \* the request sent last
  cnt,          \* cali_pose_cnt
  transform     \* the transform of tool0 that was broadcast last

thread == <<program, state, todo, pc, last, cnt, transform>>
vars == <<thread, service>>

-----------------------------------------------------------------------------
(* The thread *)

\* The handlers of both parts.
f ++ g == [s \in DOMAIN f \cup DOMAIN g |-> IF s \in DOMAIN f THEN f[s] ELSE g[s]]

Cabinet == First!Beginning ++ First!Lower ++ First!Upper ++ First!Ending
LongCabinet == Long!Beginning ++ Long!Lower ++ Long!Upper ++ Long!Ending
IoTrial == Io!Beginning ++ Io!Placing ++ Io!Ending
Calibration(c) ==
  IF c < Hand!NumPoses
    THEN Hand!Beginning ++ Hand!Broadcast(c) ++ Hand!Move(c) ++ Hand!Ending
    ELSE Hand!Beginning ++ Hand!Broadcast(c) ++ Hand!Ending

Handlers(p, c) ==
  CASE p = "first" -> Cabinet
    [] p = "long"  -> LongCabinet
    [] p = "io"    -> IoTrial
    [] p = "hand"  -> Calibration(c)

Init ==
  /\ program \in Names
  /\ ServiceInit(Elsewhere)
  /\ state = "INIT"
  /\ IF program = "client"
       THEN \E r \in Client!Methods : todo = Client!call_hiwin(r).send
       ELSE todo = <<>>
  /\ pc = "call"
  /\ last = NoRequest
  /\ cnt = 0
  /\ transform = Elsewhere

\* A client that fails ends its process, which may take the request with it.
Send ==
  /\ pc = "call" /\ todo # <<>>
  /\ LET how == Head(todo).how IN
       /\ pc' = CASE how = "await" -> "wait" [] how = "async" -> "call" [] OTHER -> "gone"
       /\ \/ requests' = Append(requests, Head(todo).req)
          \/ how = "fail" /\ UNCHANGED requests
  /\ todo' = Tail(todo)
  /\ last' = Head(todo).req
  /\ UNCHANGED <<program, state, cnt, transform, contract, arm, shown>>

\* The future is done; a pose that was asked for is broadcast.
Returned ==
  /\ pc = "wait"
  /\ requests = <<>> /\ serving = NoRequest
  /\ pc' = "call"
  /\ transform' = IF last.mode = "CHECK_POSE" THEN shown ELSE transform
  /\ UNCHANGED <<program, state, todo, last, cnt, service>>

\* The handler returns, and that of the next state starts, if there is one.
Leave ==
  /\ pc = "call" /\ todo = <<>>
  /\ cnt' = IF state = "MOVE_TO_CALI_POSE" THEN cnt + 1 ELSE cnt
  /\ state' = Handlers(program, cnt)[state].next
  /\ IF state' \in DOMAIN Handlers(program, cnt')
       THEN pc' = pc /\ todo' = Handlers(program, cnt')[state'].send
       ELSE pc' = "gone" /\ todo' = <<>>
  /\ UNCHANGED <<program, last, transform, service>>

Thread == Send \/ Returned \/ Leave

Serve == ServiceStep /\ UNCHANGED thread

Next == Thread \/ Serve

Spec == Init /\ [][Next]_vars
FairSpec == Spec /\ WF_vars(Thread) /\ WF_vars(Serve)

-----------------------------------------------------------------------------
(* Properties *)

Goals == [kind : {"pose", "joints"}, at : Seq(Int), tool : 0 .. 7, base : 0 .. 11]
ASSUME NobodysPose == Elsewhere \notin Goals

Commands == [name : Motions, goal : Goals] \cup {Stop}
Requests == [mode : Motions \cup {"DO", "EXCITE", "CHECK_POSE", "CLOSE"}, holding : BOOLEAN,
             writes : SUBSET Commands, pin : Pins, on : {0, 1}]

TypeOK ==
  /\ program \in Names
  /\ state \in DOMAIN Cabinet \cup DOMAIN LongCabinet \cup DOMAIN IoTrial
               \cup DOMAIN Calibration(0) \cup {"FINISH"}
  /\ todo \in Seq([req : Requests, how : {"await", "async", "fail"}])
  /\ pc \in {"call", "wait", "gone"}
  /\ last \in Requests \cup {NoRequest}
  /\ cnt \in 0 .. Hand!NumPoses
  /\ transform \in Goals \cup {Elsewhere}
  /\ requests \in Seq(Requests)
  /\ serving \in Requests \cup {NoRequest}
  /\ stage \in {"write", "trigger", "done", "dead"}
  /\ table \in Commands /\ fresh \in BOOLEAN
  /\ moves \in Seq(Commands)
  /\ arm \in Goals \cup {Elsewhere} /\ shown \in Goals \cup {Elsewhere}
  /\ out \in [Pins -> {0, 1}]
  /\ link \in {"up", "desync", "lost", "closed"}

\* Poses between the boards of a cabinet, where the arm has room along one axis.
Confined == {First!LOWER_INSIDE_POSE, First!LOWER_DOWN_POSE, First!UPPER_INSIDE_POSE,
             First!UPPER_DOWN_POSE, Long!LOWER_DOWN_POSE, Long!UPPER_DOWN_POSE}

\* Turned, according to its name, above the object or its place.
Above == {Long!JOINTS_ABOVE_PICK, Long!JOINTS_ABOVE_PLACE}

Differ(p, q) == {i \in 1 .. 6 : p.at[i] - q.at[i] \notin -100 .. 100}

\* The arm enters a cabinet, moves in it and leaves it on straight lines along one
\* axis, to a tenth of a millimetre, from and to the poses in front of it, although
\* no request names where it starts from.
EntersAlongALine ==
  [][(arm' # arm /\ (arm \in Confined \/ arm' \in Confined)) =>
       /\ Head(moves).name = "LINE"
       /\ \/ arm \in Above
          \/ arm \in Goals /\ arm.kind = "pose" /\ arm.base = arm'.base
             /\ Cardinality(Differ(arm, arm')) <= 1]_vars

PlacePoses == {First!UPPER_DOWN_POSE, Long!UPPER_DOWN_POSE, Io!PLACE_POSE}
Carrying == {"LOWER_UP_MOVE", "LOWER_OUT_MOVE", "ROTATE_READY_BACK", "UPPER_FRONT_MOVE",
             "UPPER_INSIDE_MOVE", "ROTATE_ABOVE_PLACE", "UPPER_DOWN_MOVE",
             "POST_PICK_HOME_MOVE", "PLACE_MOVE"}

\* The object is carried with the vacuum on, and let go at the place point by an
\* arm at rest, although call_io awaits nothing.
CarriedUnderVacuum ==
  [][/\ arm' # arm /\ state \in Carrying => vacuum = 1
     /\ vacuum = 1 /\ vacuum' = 0 => arm \in PlacePoses /\ moves = <<>>]_vars

\* When a handler logs that its motion is complete, it is: the arm is at the goal
\* of the request and nothing is left to do.
DoneAsLogged ==
  pc = "call" /\ last # NoRequest /\ last.mode \in {"PTP", "LINE"} =>
    /\ moves = <<>>
    /\ \E c \in last.writes : arm = c.goal

\* Every pose of CALI_POSE is broadcast as it was commanded, in the order of the
\* list, before the calibration closes the robot.
BroadcastsEveryPose ==
  [][program = "hand" =>
       /\ cnt' # cnt => cnt' = cnt + 1 /\ transform = Hand!CALI_POSE[cnt]
       /\ state' = "CLOSE_ROBOT" => cnt = Cardinality(DOMAIN Hand!CALI_POSE)]_vars

\* Every program comes to its end, through the CLOSE it sends itself and not by an index
\* past its list, and the request a failed client leaves behind is carried out and keeps
\* nobody waiting, unless a call comes late or is lost, the service dies over the CLOSE
\* and answers nobody, or a jog is held.
Jogging == \E i \in DOMAIN moves : moves[i].name = "JOG"
AtRest == requests = <<>> /\ serving = NoRequest /\ moves = <<>>
Ended == pc = "gone" /\ (state = "FINISH" \/ program = "client")
Finishes == <>(LineFailed \/ Unanswered \/ Jogging \/ (Ended /\ AtRest))
=============================================================================
