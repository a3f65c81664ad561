---------------------------- MODULE CommandService ----------------------------
(***************************************************************************)
(* hiwinmodbus_service as the strategies use it: the service of              *)
(* ServiceContract, booted, with the queue of its executor, the arm that      *)
(* performs its motions, and the pose CHECK_POSE shows.                      *)
(***************************************************************************)
EXTENDS ServiceContract, RobotRequests

CONSTANT
  Elsewhere     \* model value: a pose nobody commanded

ASSUME ServiceConstants == VacuumPin \in Pins

VARIABLES
  requests,     \* sent and not yet dispatched
  arm,          \* the pose the arm reached last, or where it is on its way
  shown         \* current_position of the last answer to CHECK_POSE

service == <<contract, requests, arm, shown>>

vacuum == out[VacuumPin]

Stop == [name |-> "MOTION_STOP", goal |-> Elsewhere]

ServiceInit(start) ==
  /\ requests = <<>>
  /\ serving = NoRequest /\ stage = "done"
  /\ table = Stop /\ fresh = TRUE
  /\ moves = <<>>
  /\ out = [p \in Pins |-> 0]
  /\ link = "up"
  /\ arm = start
  /\ shown = Elsewhere

\* Mutant: requests are dispatched out of order.
DispatchLast ==
  /\ requests # <<>>
  /\ Accept(requests[Len(requests)])
  /\ requests' = SubSeq(requests, 1, Len(requests) - 1)
  /\ UNCHANGED <<arm, shown>>

Dispatch ==
  /\ requests # <<>>
  /\ Accept(Head(requests))
  /\ requests' = Tail(requests)
  /\ UNCHANGED <<arm, shown>>

\* CHECK_POSE makes twelve reads: on a line in step they are the pose of an arm at
\* rest, or a mixture of poses on the way; otherwise some are of an earlier time.
Read(effect) ==
  IF serving.mode # "CHECK_POSE" THEN UNCHANGED shown
  ELSE IF effect /\ link' = "up"
    THEN shown' \in {arm} \cup {p \in {Elsewhere} : moves # <<>>}
    ELSE shown' \in {shown, Elsewhere}

Execute ==
  /\ \/ \E effect \in BOOLEAN : Write(effect) /\ Read(effect)
     \/ (Prepare \/ Trigger \/ Poll) /\ UNCHANGED shown
  /\ UNCHANGED <<requests, arm>>

Reply == Answer /\ UNCHANGED <<requests, arm, shown>>

\* A process that dies over a freed context leaves its request unanswered.
Die == UNCHANGED <<serving, requests, arm, shown>> /\ Crash

\* A call came late or was lost; the process died over a request.
LineFailed == link \in {"desync", "lost"}
Unanswered == stage = "dead" /\ serving # NoRequest

Move ==
  /\ Perform
  /\ arm' = Head(moves).goal
  /\ UNCHANGED <<requests, shown>>

\* A stop that ends a motion leaves the arm on its way.
Halt ==
  /\ TakeSetting
  /\ arm' \in {arm} \cup {p \in {Elsewhere} : Len(moves) > Len(moves') + 1}
  /\ UNCHANGED <<requests, shown>>

ServiceStep == Dispatch \/ Execute \/ Reply \/ Move \/ Halt \/ Die
=============================================================================
