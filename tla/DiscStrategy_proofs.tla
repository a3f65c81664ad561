-------------------------- MODULE DiscStrategy_proofs --------------------------
(* The safety of the disc strategy, for any views of any sensor, any number of   *)
(* readings and any late or lost call.                                         *)
EXTENDS DiscStrategy, CommandService_proofs

-----------------------------------------------------------------------------
(* The types of what is sensed, and where the main thread is in its reading *)

Readings == {"settle", "left", "right"}

SenseTypes ==
  /\ SensorTypeOK
  /\ left_dist \in Int /\ right_dist \in Int
  /\ callback = <<>> \/ \E m \in Pair : callback = <<m>>
  /\ reads \in Int /\ sum \in Pair
  /\ seen \in BOOLEAN /\ shifts \in 0 .. MaxShifts /\ since \subseteq Pair

\* The readings are taken in READ_SENSOR, once, and judged after the last.
Reading ==
  /\ pc \in {"call", "wait"} \cup Readings
  /\ state \in States
  /\ state = "READ_SENSOR" <=> pc \in Readings
  /\ state \in {"HOME_MOVE", "DETECT_MOVE"} \/ pc = "settle" => reads = 0 /\ sum = Zero
  /\ pc \in {"left", "right"} => reads \in 0 .. N - 1
  /\ state \notin {"HOME_MOVE", "DETECT_MOVE", "READ_SENSOR"} => reads = N
  /\ state \in {"HOME_MOVE", "DETECT_MOVE", "READ_SENSOR", "JUDGE_STATE"} <=>
       disc_state = "UNKNOWN"
  /\ disc_state \in {"UNKNOWN", "OVERLAP", "TILT", "NORMAL", "OFFSET_LEFT", "OFFSET_RIGHT"}

Sensing == SenseTypes /\ Reading

\* What the judgement may be.
LEMMA DetectTyped ==
  ASSUME NEW l, NEW r, NEW n
  PROVE  Detect(l, r, n) \in {"OVERLAP", "TILT", "NORMAL", "OFFSET_LEFT", "OFFSET_RIGHT"}
  BY DEF Detect, Side

\* A message that is kept is one that was there or the new one.
LEMMA KeepLastTyped ==
  ASSUME NEW X, NEW s \in Seq(X), NEW m \in X
  PROVE  KeepLast(Append(s, m)) \in Seq(X)
<1>1. Append(s, m) \in Seq(X) /\ Append(s, m) # <<>>
  BY AppendProperties
<1>2. Tail(Append(s, m)) \in Seq(X)
  BY <1>1, HeadTailProperties
<1> QED
  BY <1>1, <1>2 DEF KeepLast

\* The pairs of the simulation are pairs.
LEMMA FakePairs ==
  ASSUME NEW s \in DOMAIN FAKE_VALUES
  PROVE  FAKE_VALUES[s] \in Pair
  BY DEF FAKE_VALUES, Pair

\* Nothing has been read when the strategy starts.
LEMMA SensingInit == Init => Sensing
<1> SUFFICES ASSUME Init PROVE Sensing
  OBVIOUS
<1>1. Zero \in Pair
  BY DEF Zero, Pair
<1>2. SensorTypeOK
  BY <1>1 DEF Init, SensorInit, SensorTypeOK
<1>3. SenseTypes
  <2>1. seen \in BOOLEAN
    BY Zenon DEF Init
  <2> QED
    BY <1>1, <1>2, <2>1, StrategyConstants DEF Init, SenseTypes
<1>4. Reading
  BY StrategyConstants DEF Init, Reading, Readings, States
<1> QED
  BY <1>3, <1>4 DEF Sensing

\* The steps of the sensor's threads.
LEMMA SensorTyped ==
  ASSUME SensorTypeOK, SensorStep
  PROVE  SensorTypeOK' /\ UNCHANGED <<source, view>>
<1> USE SensorConstants DEF SensorTypeOK
<1>1. CASE StoreLeft \/ StoreRight \/ SerialError \/ LoadLeft
  BY <1>1 DEF StoreLeft, StoreRight, SerialError, LoadLeft, Pair
<1>2. CASE PublishSensor
  <2>1. msg' \in Pair /\ UNCHANGED <<source, view, serial, line, dist>>
    BY <1>2 DEF PublishSensor, Pair
  <2>2. topic' \in Seq(Pair)
    BY <1>2, <2>1, KeepLastTyped DEF PublishSensor
  <2> QED
    BY <1>2, <2>1, <2>2 DEF PublishSensor
<1>3. CASE FakePublish
  <2>1. topic' \in Seq(Pair)
    BY <1>3, FakePairs, KeepLastTyped DEF FakePublish
  <2> QED
    BY <1>3, <2>1 DEF FakePublish
<1> QED
  BY <1>1, <1>2, <1>3 DEF SensorStep, SerialThread, Timer

\* What is sensed keeps its types, and the readings are taken once.
LEMMA SensingStep ==
  ASSUME Sensing, Next
  PROVE  Sensing'
<1> USE StrategyConstants DEF Sensing, Readings
<1>1. CASE Send \/ Returned
  BY <1>1 DEF Send, Returned, SenseTypes, SensorTypeOK, Reading, sensor, history
<1>2. CASE Leave
  <2>1. SenseTypes'
    BY <1>2 DEF Leave, SenseTypes, SensorTypeOK, sensor, history
  <2>2. /\ pc = "call" /\ state \in States \ {"READ_SENSOR", "JUDGE_STATE", "ADJUST_POSE", "FINISH"}
        /\ state' = Following(state) /\ pc' = IF state' = "READ_SENSOR" THEN "settle" ELSE "call"
        /\ UNCHANGED <<reads, sum, disc_state>>
    BY <1>2 DEF Leave, Reading
  <2>3. Reading'
    BY <2>2 DEF Following, AfterSkip, Reading, States
  <2> QED
    BY <2>1, <2>3
<1>3. CASE Settle
  <2>1. Latest \in Pair
    BY FakePairs DEF Latest, SenseTypes, SensorTypeOK
  <2>2. SenseTypes'
    BY <1>3, <2>1 DEF Settle, SenseTypes, SensorTypeOK, sensor
  <2>3. Reading'
    BY <1>3 DEF Settle, Reading, States
  <2> QED
    BY <2>2, <2>3
<1>4. CASE ReadLeft
  <2>1. sum' \in Pair
    BY <1>4 DEF ReadLeft, SenseTypes, Pair
  <2>2. SenseTypes'
    BY <1>4, <2>1 DEF ReadLeft, SenseTypes, SensorTypeOK, sensor, history
  <2>3. Reading'
    BY <1>4 DEF ReadLeft, Reading, States
  <2> QED
    BY <2>2, <2>3
<1>5. CASE ReadRight
  <2>1. SenseTypes'
    <3>1. reads' \in Int /\ sum' \in Pair
      BY <1>5 DEF ReadRight, SenseTypes, Pair
    <3>2. UNCHANGED <<sensor, view, left_dist, right_dist, callback, history>>
      BY <1>5 DEF ReadRight
    <3> QED
      BY <3>1, <3>2 DEF SenseTypes, SensorTypeOK, sensor, history
  <2>2. Reading'
    BY <1>5 DEF ReadRight, MoreReadings, SenseTypes, Reading, States
  <2> QED
    BY <2>1, <2>2
<1>6. CASE Judge \/ LeaveAdjust
  <2>1. SenseTypes'
    <3>1. UNCHANGED <<sensor, view, left_dist, right_dist, callback, reads, sum, history>>
      BY <1>6 DEF Judge, LeaveAdjust
    <3> QED
      BY <3>1 DEF SenseTypes, SensorTypeOK, sensor, history
  <2>2. Reading'
    BY <1>6, DetectTyped DEF Judge, LeaveAdjust, AfterJudge, Following, Reading, States
  <2> QED
    BY <2>1, <2>2
<1>7. CASE CallbackLeft
  <2>1. Head(topic) \in Pair /\ Tail(topic) \in Seq(Pair)
    BY <1>7, HeadTailProperties DEF CallbackLeft, SenseTypes, SensorTypeOK
  <2> QED
    BY <1>7, <2>1 DEF CallbackLeft, SenseTypes, SensorTypeOK, Reading, history, Pair
<1>8. CASE CallbackRight
  BY <1>8 DEF CallbackRight, SenseTypes, SensorTypeOK, Reading, history, sensor, Pair
<1>9. CASE SensorStep /\ Sensed
  <2>1. SensorTypeOK'
    BY <1>9, SensorTyped DEF SenseTypes
  <2>2. seen' \in BOOLEAN
    <3>1. seen \in BOOLEAN
      BY DEF SenseTypes
    <3>2. seen' = TRUE \/ seen' = seen
      BY <1>9, Zenon DEF Sensed
    <3> QED
      BY <3>1, <3>2, Zenon
  <2>3. UNCHANGED <<strategy, shifts, since>>
    BY <1>9, Zenon DEF Sensed
  <2>4. SenseTypes'
    BY <2>1, <2>2, <2>3 DEF SenseTypes, strategy
  <2>5. Reading'
    BY <2>3 DEF Reading, strategy
  <2> QED
    BY <2>4, <2>5
<1>10. CASE Change
  BY <1>10, SensorConstants DEF Change, SenseTypes, SensorTypeOK, Reading, strategy, sensor
<1>11. CASE Serve
  BY <1>11 DEF Serve, SenseTypes, SensorTypeOK, Reading, strategy, sensor, history
<1> QED
  BY <1>1, <1>2, <1>3, <1>4, <1>5, <1>6, <1>7, <1>8, <1>9, <1>10, <1>11
     DEF Next, MainThread, Callback

\* The readings stay typed in every behaviour.
THEOREM SensingAlways == Spec => []Sensing
<1>1. Sensing /\ UNCHANGED vars => Sensing'
  BY DEF Sensing, SenseTypes, SensorTypeOK, Reading, vars, strategy, sensor
<1> QED
  BY <1>1, SensingInit, SensingStep, PTL DEF Spec
-----------------------------------------------------------------------------
(* The way of the arm *)

\* Where the arm is adjusted to, and where it picks.
Hover == IF disc_state = "TILT" THEN JOINTS_TILT ELSE Shift(DETECT_POSE, Offset(disc_state))
Low == IF disc_state = "TILT" THEN [JOINTS_TILT EXCEPT !.z = @ - TILT_DOWN_DISTANCE]
                              ELSE PickPose(disc_state)

\* Where the arm stands before, between and after the requests of a handler.
Stops(s) ==
  CASE s = "HOME_MOVE"   -> <<HOME_POSE, HOME_POSE>>
    [] s = "DETECT_MOVE" -> <<HOME_POSE, DETECT_POSE>>
    [] s \in {"READ_SENSOR", "JUDGE_STATE", "SKIP"} -> <<DETECT_POSE>>
    [] s = "ADJUST_POSE" -> IF disc_state = "TILT" THEN <<DETECT_POSE, Hover, Hover>>
                            ELSE IF disc_state = "NORMAL" THEN <<DETECT_POSE>>
                            ELSE <<DETECT_POSE, Hover>>
    [] s = "DOWN_MOVE"   -> <<Hover, Low>>
    [] s = "PICK_OBJECT" -> <<Low, Low>>
    [] s = "UP_MOVE"     -> IF disc_state = "TILT" THEN <<Low, Hover, DETECT_POSE>>
                                                   ELSE <<Low, Hover>>
    [] s = "RESTORE_ANGLE" -> <<DETECT_POSE, JOINTS_NORMAL>>
    [] s = "PLACE_MOVE"  -> <<IF disc_state = "TILT" THEN JOINTS_NORMAL ELSE Hover,
                              PLACE_ABOVE_POSE>>
    [] s = "PLACE_DOWN"   -> <<PLACE_ABOVE_POSE, PLACE_DOWN_POSE>>
    [] s = "PLACE_OBJECT" -> <<PLACE_DOWN_POSE, PLACE_DOWN_POSE>>
    [] s = "PLACE_UP"     -> <<PLACE_DOWN_POSE, PLACE_ABOVE_POSE>>
    [] s = "FINAL_HOME"   -> <<IF disc_state = "OVERLAP" THEN DETECT_POSE
                                                         ELSE PLACE_ABOVE_POSE, HOME_POSE>>
    [] s = "FINISH"       -> <<HOME_POSE>>

\* Requests of this handler sent, and of those, the ones no longer awaited.
Sent == Len(Handler(state)) - Len(todo)
Done == IF pc = "wait" THEN Sent - 1 ELSE Sent

Asked == IF pc = "wait" THEN <<Handler(state)[Sent]>> ELSE <<>>
From  == Stops(state)[Done + 1]
Here  == Stops(state)[Sent + 1]

Switch ==
  \/ state \in {"PICK_OBJECT", "PLACE_OBJECT"} /\ Done = 1
  \/ state \in {"UP_MOVE", "PLACE_UP"} /\ Done = 0

Gripping ==
  \/ state \in {"UP_MOVE", "RESTORE_ANGLE", "PLACE_MOVE", "PLACE_DOWN"}
  \/ state = "PICK_OBJECT" /\ Done = 1
  \/ state = "PLACE_OBJECT" /\ Done = 0
Grip == IF Gripping THEN 1 ELSE 0

\* Before the first motion the table holds the stop of the start-up.
Back == IF state = "HOME_MOVE" /\ Done = 0 THEN {Stop} ELSE MotionsTo(From)

Adjusted == {"DOWN_MOVE", "PICK_OBJECT", "UP_MOVE", "RESTORE_ANGLE", "PLACE_MOVE",
             "PLACE_DOWN", "PLACE_OBJECT", "PLACE_UP"}
Judged == {"TILT", "NORMAL", "OFFSET_LEFT", "OFFSET_RIGHT"}

\* The requests left are the last ones of the handler.
Script ==
  /\ Len(todo) \in 0 .. Len(Handler(state))
  /\ \A j \in 1 .. Len(todo) : todo[j] = Handler(state)[Sent + j]
  /\ pc \in {"call", "wait", "settle", "left", "right"}
  /\ pc = "wait" => Sent > 0 /\ Handler(state)[Sent].mode # "DO"
  /\ pc \in {"settle", "left", "right"} => state = "READ_SENSOR"

Judgement ==
  /\ state \in Adjusted \cup {"ADJUST_POSE"} => disc_state \in Judged
  /\ state = "SKIP" => disc_state = "OVERLAP"
  /\ state = "RESTORE_ANGLE" => disc_state = "TILT"
  /\ state = "FINAL_HOME" => disc_state \in Judged \cup {"OVERLAP"}
  /\ state \in Adjusted => above = Hover /\ pick = Low
  /\ state = "ADJUST_POSE" /\ disc_state # "TILT" => above = Hover /\ pick = Low
  /\ state = "ADJUST_POSE" /\ disc_state = "TILT" /\ Done = 2 => shown = Hover

Course ==
  /\ todo \in Seq(Requests) /\ above \in Poses /\ pick \in Poses
  /\ Script /\ Judgement
  /\ Leg(Switch, Asked, From, Grip, Back)

\* What a request does with the arm, which stands at p and then at q.
Leads(r, p, q) ==
  \/ \E n \in {"PTP", "LINE"} :
       r = Motion(n, q, TRUE) /\ (n = "LINE" => q.x = p.x /\ q.a4 = p.a4)
  \/ r = CheckPose /\ q = p
  \/ \E g \in {0, 1} : r = Output(VacuumPin, g) /\ q = p

Leading(h, s) == Len(s) = Len(h) + 1 /\ \A j \in 1 .. Len(h) : Leads(h[j], s[j], s[j + 1])

\* The requests of the strategy, one by one.
LEMMA LeadsEach ==
  /\ \A p, q : Leads(PTP(q), p, q)
  /\ \A p, q : q.x = p.x /\ q.a4 = p.a4 => Leads(LINE(q), p, q)
  /\ \A p : Leads(CHECK_POSE, p, p)
  /\ \A p, g : g \in {0, 1} => Leads(call_io(g), p, p)
  BY DEF Leads, PTP, LINE, CHECK_POSE, CheckPose, call_io

\* A handler of no, one or two requests.
LEMMA LeadingNone == \A p : Leading(<<>>, <<p>>)
  BY DEF Leading

\* One request leads from its first stop to its second.
LEMMA LeadingOne ==
  ASSUME NEW r, NEW p, NEW q, Leads(r, p, q)
  PROVE  Leading(<<r>>, <<p, q>>)
  BY DEF Leading

\* Two requests lead over a stop between them.
LEMMA LeadingTwo ==
  ASSUME NEW r1, NEW r2, NEW p, NEW q1, NEW q2, Leads(r1, p, q1), Leads(r2, q1, q2)
  PROVE  Leading(<<r1, r2>>, <<p, q1, q2>>)
  BY DEF Leading

\* Every handler leads the arm from one of its stops to the next.
LEMMA Route ==
  ASSUME state \in States, Judgement
  PROVE  Leading(Handler(state), Stops(state))
<1>1. CASE state \in {"READ_SENSOR", "JUDGE_STATE", "SKIP"}
  <2>1. /\ Handler(state) = <<>>
        /\ Stops(state) = <<DETECT_POSE>>
    BY <1>1 DEF Handler, Stops
  <2> QED
    BY <2>1, LeadingNone
<1>2. CASE state = "FINISH"
  <2>1. /\ Handler(state) = <<>>
        /\ Stops(state) = <<HOME_POSE>>
    BY <1>2 DEF Handler, Stops
  <2> QED
    BY <2>1, LeadingNone
<1>3. CASE state = "HOME_MOVE"
  <2>1. /\ Handler(state) = <<PTP(HOME_POSE)>>
        /\ Stops(state) = <<HOME_POSE, HOME_POSE>>
    BY <1>3 DEF Handler, Stops
  <2>2. Leads(PTP(HOME_POSE), HOME_POSE, HOME_POSE)
    BY LeadsEach
  <2> QED
    BY <2>1, <2>2, LeadingOne
<1>4. CASE state = "DETECT_MOVE"
  <2>1. /\ Handler(state) = <<PTP(DETECT_POSE)>>
        /\ Stops(state) = <<HOME_POSE, DETECT_POSE>>
    BY <1>4 DEF Handler, Stops
  <2>2. Leads(PTP(DETECT_POSE), HOME_POSE, DETECT_POSE)
    BY LeadsEach
  <2> QED
    BY <2>1, <2>2, LeadingOne
<1>5. CASE state = "ADJUST_POSE" /\ disc_state = "TILT"
  <2>1. /\ Handler(state) = <<PTP(Hover), CHECK_POSE>>
        /\ Stops(state) = <<DETECT_POSE, Hover, Hover>>
    BY <1>5 DEF Handler, Stops, Adjust, Hover
  <2>2. Leads(PTP(Hover), DETECT_POSE, Hover)
    BY LeadsEach
  <2>3. Leads(CHECK_POSE, Hover, Hover)
    BY LeadsEach
  <2> QED
    BY <2>1, <2>2, <2>3, LeadingTwo
<1>6. CASE state = "ADJUST_POSE" /\ disc_state = "NORMAL"
  <2>1. /\ Handler(state) = <<>>
        /\ Stops(state) = <<DETECT_POSE>>
    BY <1>6 DEF Handler, Stops, Adjust
  <2> QED
    BY <2>1, LeadingNone
<1>7. CASE state = "ADJUST_POSE" /\ disc_state \in {"OFFSET_LEFT", "OFFSET_RIGHT"}
  <2>1. /\ Handler(state) = <<PTP(Hover)>>
        /\ Stops(state) = <<DETECT_POSE, Hover>>
    BY <1>7 DEF Handler, Stops, Adjust, Hover
  <2>2. Leads(PTP(Hover), DETECT_POSE, Hover)
    BY LeadsEach
  <2> QED
    BY <2>1, <2>2, LeadingOne
<1>0. Low.x = Hover.x /\ Low.a4 = Hover.a4
  BY DEF Low, Hover, PickPose, Shift, PICK_DOWN_POSE, DETECT_POSE, JOINTS_TILT, Pose
<1>8. CASE state = "DOWN_MOVE"
  <2>1. /\ Handler(state) = <<LINE(Low)>>
        /\ Stops(state) = <<Hover, Low>>
    BY <1>8 DEF Handler, Stops, Judgement, Adjusted
  <2>2. Leads(LINE(Low), Hover, Low)
    BY LeadsEach, <1>0
  <2> QED
    BY <2>1, <2>2, LeadingOne
<1>9. CASE state = "PICK_OBJECT"
  <2>1. /\ Handler(state) = <<call_io(1)>>
        /\ Stops(state) = <<Low, Low>>
    BY <1>9 DEF Handler, Stops
  <2>2. Leads(call_io(1), Low, Low)
    BY LeadsEach
  <2> QED
    BY <2>1, <2>2, LeadingOne
<1>10. CASE state = "UP_MOVE" /\ disc_state = "TILT"
  <2>1. /\ Handler(state) = <<LINE(Hover), PTP(DETECT_POSE)>>
        /\ Stops(state) = <<Low, Hover, DETECT_POSE>>
    BY <1>10 DEF Handler, Stops, Judgement, Adjusted
  <2>2. Leads(LINE(Hover), Low, Hover)
    BY LeadsEach, <1>0
  <2>3. Leads(PTP(DETECT_POSE), Hover, DETECT_POSE)
    BY LeadsEach, <1>0
  <2> QED
    BY <2>1, <2>2, <2>3, LeadingTwo
<1>11. CASE state = "UP_MOVE" /\ disc_state # "TILT"
  <2>1. /\ Handler(state) = <<LINE(Hover)>>
        /\ Stops(state) = <<Low, Hover>>
    BY <1>11 DEF Handler, Stops, Judgement, Adjusted
  <2>2. Leads(LINE(Hover), Low, Hover)
    BY LeadsEach, <1>0
  <2> QED
    BY <2>1, <2>2, LeadingOne
<1>12. CASE state = "RESTORE_ANGLE"
  <2>1. /\ Handler(state) = <<PTP(JOINTS_NORMAL)>>
        /\ Stops(state) = <<DETECT_POSE, JOINTS_NORMAL>>
    BY <1>12 DEF Handler, Stops
  <2>2. Leads(PTP(JOINTS_NORMAL), DETECT_POSE, JOINTS_NORMAL)
    BY LeadsEach
  <2> QED
    BY <2>1, <2>2, LeadingOne
<1>13. CASE state = "PLACE_MOVE"
  <2> DEFINE p == IF disc_state = "TILT" THEN JOINTS_NORMAL ELSE Hover
  <2>1. /\ Handler(state) = <<PTP(PLACE_ABOVE_POSE)>>
        /\ Stops(state) = <<p, PLACE_ABOVE_POSE>>
    BY <1>13 DEF Handler, Stops
  <2>2. Leads(PTP(PLACE_ABOVE_POSE), p, PLACE_ABOVE_POSE)
    BY LeadsEach
  <2> HIDE DEF p
  <2> QED
    BY <2>1, <2>2, LeadingOne
<1>14. CASE state = "FINAL_HOME"
  <2> DEFINE p == IF disc_state = "OVERLAP" THEN DETECT_POSE ELSE PLACE_ABOVE_POSE
  <2>1. /\ Handler(state) = <<PTP(HOME_POSE)>>
        /\ Stops(state) = <<p, HOME_POSE>>
    BY <1>14 DEF Handler, Stops
  <2>2. Leads(PTP(HOME_POSE), p, HOME_POSE)
    BY LeadsEach
  <2> HIDE DEF p
  <2> QED
    BY <2>1, <2>2, LeadingOne
<1>15. CASE state = "PLACE_DOWN"
  <2>1. /\ Handler(state) = <<LINE(PLACE_DOWN_POSE)>>
        /\ Stops(state) = <<PLACE_ABOVE_POSE, PLACE_DOWN_POSE>>
    BY <1>15 DEF Handler, Stops
  <2>2. Leads(LINE(PLACE_DOWN_POSE), PLACE_ABOVE_POSE, PLACE_DOWN_POSE)
    BY LeadsEach DEF PLACE_ABOVE_POSE, PLACE_DOWN_POSE, Pose
  <2> QED
    BY <2>1, <2>2, LeadingOne
<1>16. CASE state = "PLACE_OBJECT"
  <2>1. /\ Handler(state) = <<call_io(0)>>
        /\ Stops(state) = <<PLACE_DOWN_POSE, PLACE_DOWN_POSE>>
    BY <1>16 DEF Handler, Stops
  <2>2. Leads(call_io(0), PLACE_DOWN_POSE, PLACE_DOWN_POSE)
    BY LeadsEach
  <2> QED
    BY <2>1, <2>2, LeadingOne
<1>17. CASE state = "PLACE_UP"
  <2>1. /\ Handler(state) = <<LINE(PLACE_ABOVE_POSE)>>
        /\ Stops(state) = <<PLACE_DOWN_POSE, PLACE_ABOVE_POSE>>
    BY <1>17 DEF Handler, Stops
  <2>2. Leads(LINE(PLACE_ABOVE_POSE), PLACE_DOWN_POSE, PLACE_ABOVE_POSE)
    BY LeadsEach DEF PLACE_ABOVE_POSE, PLACE_DOWN_POSE, Pose
  <2> QED
    BY <2>1, <2>2, LeadingOne
<1> QED
  BY <1>1, <1>2, <1>3, <1>4, <1>5, <1>6, <1>7, <1>8, <1>9, <1>10, <1>11, <1>12, <1>13, <1>14, <1>15, <1>16, <1>17
     DEF States, Judgement, Judged

\* The requests are typed.
LEMMA RequestsTyped ==
  /\ \A p \in Poses : PTP(p) \in Requests /\ LINE(p) \in Requests
  /\ CHECK_POSE \in Requests
  /\ \A g \in {0, 1} : call_io(g) \in Requests
<1>1. ASSUME NEW n \in {"PTP", "LINE"}, NEW p \in Poses
      PROVE  Motion(n, p, TRUE) \in Requests
  <2>1. [name |-> n, goal |-> p] \in Commands
    BY DEF Commands
  <2>2. {[name |-> n, goal |-> p]} \in SUBSET Commands
    BY <2>1
  <2> QED
    BY <2>2, ServiceConstants DEF Motion, Requests
<1>2. CHECK_POSE \in Requests
  BY ServiceConstants DEF CHECK_POSE, Plain, Requests
<1>3. \A g \in {0, 1} : call_io(g) \in Requests
  BY ServiceConstants DEF call_io, Output, Requests
<1> QED
  BY <1>1, <1>2, <1>3 DEF PTP, LINE

\* The points are poses.
LEMMA PosesTyped ==
  /\ {HOME_POSE, DETECT_POSE, PICK_DOWN_POSE, PLACE_ABOVE_POSE, PLACE_DOWN_POSE, JOINTS_NORMAL,
      JOINTS_TILT} \subseteq Poses
  /\ \A p \in Poses : \A d : Shift(p, Offset(d)) \in Poses
  /\ Hover \in Poses /\ Low \in Poses
<1>1. {HOME_POSE, DETECT_POSE, PICK_DOWN_POSE, PLACE_ABOVE_POSE, PLACE_DOWN_POSE, JOINTS_NORMAL,
       JOINTS_TILT} \subseteq Poses
  BY DEF HOME_POSE, DETECT_POSE, PICK_DOWN_POSE, PLACE_ABOVE_POSE, PLACE_DOWN_POSE, JOINTS_NORMAL,
         JOINTS_TILT, Pose, Poses
<1>2. \A d : Offset(d) \in Int
  BY DEF Offset, OFFSET_DISTANCE
<1>3. \A p \in Poses : \A d : Shift(p, Offset(d)) \in Poses
  BY <1>2 DEF Shift, Poses
<1>4. [JOINTS_TILT EXCEPT !.z = @ - TILT_DOWN_DISTANCE] \in Poses
  BY DEF JOINTS_TILT, TILT_DOWN_DISTANCE, Poses
<1> QED
  BY <1>1, <1>3, <1>4 DEF Hover, Low, PickPose

\* So are the handlers.
LEMMA HandlerTyped ==
  ASSUME above \in Poses, pick \in Poses, NEW s \in States
  PROVE  Handler(s) \in Seq(Requests)
<1>1. \A r \in Requests : <<r>> \in Seq(Requests)
  OBVIOUS
<1>2. \A q, r \in Requests : <<q, r>> \in Seq(Requests)
  OBVIOUS
<1>3. Adjust(disc_state) \in Seq(Requests)
  <2>1. PTP(JOINTS_TILT) \in Requests /\ PTP(Shift(DETECT_POSE, Offset(disc_state))) \in Requests
    BY RequestsTyped, PosesTyped
  <2> QED
    BY <1>1, <1>2, <2>1, RequestsTyped DEF Adjust
<1>4. /\ <<PTP(HOME_POSE)>> \in Seq(Requests) /\ <<PTP(DETECT_POSE)>> \in Seq(Requests)
      /\ <<LINE(pick)>> \in Seq(Requests) /\ <<LINE(above)>> \in Seq(Requests)
      /\ <<LINE(above), PTP(DETECT_POSE)>> \in Seq(Requests)
      /\ <<PTP(JOINTS_NORMAL)>> \in Seq(Requests) /\ <<PTP(PLACE_ABOVE_POSE)>> \in Seq(Requests)
      /\ <<LINE(PLACE_DOWN_POSE)>> \in Seq(Requests) /\ <<LINE(PLACE_ABOVE_POSE)>> \in Seq(Requests)
      /\ <<call_io(1)>> \in Seq(Requests) /\ <<call_io(0)>> \in Seq(Requests)
      /\ <<>> \in Seq(Requests)
  BY <1>1, <1>2, RequestsTyped, PosesTyped
<1> QED
  BY <1>3, <1>4 DEF Handler, States

\* Outputs are sent by the two handlers of the vacuum, poses asked for by one.
LEMMA Modes ==
  ASSUME state \in States, NEW j \in 1 .. Len(Handler(state))
  PROVE  /\ state = "PICK_OBJECT" => Handler(state) = <<call_io(1)>>
         /\ state = "PLACE_OBJECT" => Handler(state) = <<call_io(0)>>
         /\ Handler(state)[j].mode = "DO" => state \in {"PICK_OBJECT", "PLACE_OBJECT"}
         /\ Handler(state)[j].mode = "CHECK_POSE" => state = "ADJUST_POSE"
         /\ Handler(state)[j].mode \in {"PTP", "LINE", "CHECK_POSE", "DO"}
<1>1. \A p : PTP(p).mode = "PTP" /\ LINE(p).mode = "LINE"
  BY DEF PTP, LINE, Motion
<1>2. CHECK_POSE.mode = "CHECK_POSE" /\ \A g : call_io(g).mode = "DO"
  BY DEF CHECK_POSE, Plain, call_io, Output
<1>3. \A q, r : /\ (\A i \in 1 .. Len(<<r>>) : <<r>>[i] = r)
                /\ \A i \in 1 .. Len(<<q, r>>) : <<q, r>>[i] \in {q, r}
  OBVIOUS
<1>4. Len(<<>>) = 0
  OBVIOUS
<1>5. CASE state = "ADJUST_POSE"
  BY <1>1, <1>2, <1>3, <1>4, <1>5 DEF Handler, Adjust
<1>6. CASE state \in {"PICK_OBJECT", "PLACE_OBJECT"}
  BY <1>1, <1>2, <1>3, <1>6 DEF Handler
<1>7. CASE state = "UP_MOVE"
  BY <1>1, <1>2, <1>3, <1>7 DEF Handler
<1>8. CASE state \in {"READ_SENSOR", "JUDGE_STATE", "SKIP", "FINISH"}
  BY <1>4, <1>8 DEF Handler
<1>9. CASE state \in {"HOME_MOVE", "FINAL_HOME", "DETECT_MOVE", "DOWN_MOVE", "RESTORE_ANGLE",
                      "PLACE_MOVE", "PLACE_DOWN", "PLACE_UP"}
  <2>1. \E p : Handler(state) = <<PTP(p)>> \/ Handler(state) = <<LINE(p)>>
    BY <1>9 DEF Handler
  <2> QED
    BY <1>1, <1>3, <1>9, <2>1
<1> QED
  BY <1>5, <1>6, <1>7, <1>8, <1>9 DEF States

-----------------------------------------------------------------------------
(* The course of the strategy *)

\* It starts at home.
LEMMA CourseInit == Init => Course
<1> SUFFICES ASSUME Init PROVE Course
  OBVIOUS
<1>1. state = "HOME_MOVE" /\ pc = "call" /\ todo = Handler(state)
  BY DEF Init
<1>2. above \in Poses /\ pick \in Poses
  BY PosesTyped DEF Init
<1>3. todo \in Seq(Requests)
  BY <1>1, <1>2, HandlerTyped DEF States
<1>4. Len(todo) \in Nat /\ Sent = 0 /\ Done = 0
  BY <1>1, <1>3 DEF Sent, Done
<1>5. Script
  BY <1>1, <1>3, <1>4 DEF Script
<1>6. Judgement
  BY <1>1 DEF Judgement, Adjusted
<1>7. Asked = <<>> /\ Grip = 0 /\ Back = {Stop} /\ ~Switch
  BY <1>1, <1>4 DEF Asked, Grip, Gripping, Back, Switch
<1>8. From = HOME_POSE
  BY <1>1, <1>4 DEF From, Stops
<1>9. Behind(Switch, Asked, From, Grip) /\ table \in Back
  BY <1>7, <1>8, ServiceConstants DEF Init, ServiceInit, Behind, Standing, vacuum
<1>10. Leg(Switch, Asked, From, Grip, Back)
  BY <1>9 DEF Leg, Init, ServiceInit
<1> QED
  BY <1>2, <1>3, <1>5, <1>6, <1>10 DEF Course

\* What the place in the script depends on.
place == <<state, pc, todo, disc_state, above, pick>>

\* The legs of the strategy are possible ones.
LEMMA Legs ==
  ASSUME Sensing, Course
  PROVE  /\ Possible(Switch, Asked, From, Grip, Back)
         /\ pc = "wait" => Leads(Handler(state)[Sent], From, Here)
<1>1. state \in States
  BY DEF Sensing, Reading
<1>2. Leading(Handler(state), Stops(state))
  BY <1>1, Route DEF Course
<1>3. Switch \in BOOLEAN /\ Grip \in {0, 1}
  BY DEF Switch, Grip
<1>4. Switch => Back \subseteq MotionsTo(From)
  BY DEF Switch, Back
<1>5. CASE pc # "wait"
  BY <1>3, <1>4, <1>5 DEF Possible, Askable, Asked
<1>6. CASE pc = "wait"
  <2> DEFINE r == Handler(state)[Sent]
  <2>1. Sent \in 1 .. Len(Handler(state)) /\ r.mode # "DO" /\ Done = Sent - 1
    BY <1>6 DEF Course, Script, Sent, Done
  <2>2. Leads(r, From, Here)
    BY <1>2, <2>1 DEF Leading, From, Here
  <2>3. Askable(<<r>>)
    BY <2>1, <2>2, RequestFields DEF Leads, Askable
  <2>4. Switch => r.mode # "CHECK_POSE"
    BY <1>1, <2>1, Modes DEF Switch
  <2>5. Switch => <<r>> # <<CheckPose>>
    <3>1. <<r>> = <<CheckPose>> => r = CheckPose
      OBVIOUS
    <3> QED
      BY <2>4, <3>1, RequestFields
  <2> HIDE DEF r
  <2>6. Asked = <<r>>
    BY <1>6 DEF Asked, r
  <2> QED
    BY <1>3, <1>4, <2>2, <2>3, <2>5, <2>6 DEF Possible, r
<1> QED
  BY <1>5, <1>6

\* Where nothing of it changes, the place stays.
LEMMA SamePlace ==
  ASSUME UNCHANGED place
  PROVE  /\ UNCHANGED <<Sent, Done, Asked, From, Here, Grip, Back, Hover, Low>>
         /\ Switch' <=> Switch
         /\ Handler(state)' = Handler(state) /\ Stops(state)' = Stops(state)
  BY DEF place, Sent, Done, Asked, From, Here, Switch, Gripping, Grip, Back, Hover, Low, Handler,
         Adjust, Stops

\* The service moves the arm along the leg.
LEMMA CourseServe ==
  ASSUME NothingUnseen, Sensing, Course, Serve
  PROVE  Course'
<1>1. UNCHANGED place /\ ServiceStep
  BY DEF Serve, place, strategy
<1>2. PICK sw, as, fr, gr, ba :
        sw = Switch /\ as = Asked /\ fr = From /\ gr = Grip /\ ba = Back
  OBVIOUS
<1>3. Leg(sw, as, fr, gr, ba) /\ Possible(sw, as, fr, gr, ba)
  BY <1>2, Legs DEF Course
<1>4. Leg(sw, as, fr, gr, ba)'
  BY <1>1, <1>3, LegStep
<1>5. Switch' = sw /\ Asked' = as /\ From' = fr /\ Grip' = gr /\ Back' = ba
  BY <1>1, <1>2, SamePlace DEF Switch
<1>6. Leg(Switch, Asked, From, Grip, Back)'
  BY <1>4, <1>5
<1>7. Script'
  BY <1>1, SamePlace DEF Course, Script, place
<1>8. ~(state = "ADJUST_POSE" /\ disc_state = "TILT" /\ Done = 2)
  <2> SUFFICES ASSUME state = "ADJUST_POSE", disc_state = "TILT", Done = 2 PROVE FALSE
    OBVIOUS
  <2>1. Len(Handler(state)) = 2
    BY DEF Handler, Adjust
  <2>2. Len(todo) \in Nat /\ Sent \in 0 .. 2
    BY <2>1 DEF Course, Script, Sent
  <2>3. pc # "wait" /\ ~Switch
    BY <2>2 DEF Done, Switch
  <2>4. sw = FALSE /\ as = <<>>
    BY <1>2, <2>3 DEF Asked, Switch
  <2>5. Leg(FALSE, <<>>, fr, gr, ba)
    BY <1>3, <2>4
  <2> QED
    BY <1>1, <2>5, RestingLeg, QuietStays
<1>9. Judgement'
  BY <1>1, <1>8, SamePlace DEF Course, Judgement, place
<1> QED
  BY <1>1, <1>6, <1>7, <1>9 DEF Course, place

\* Whether a pair was seen is history.
LEMMA SensedKeeps ==
  ASSUME Sensed
  PROVE  UNCHANGED strategy /\ UNCHANGED service
  BY DEF Sensed

\* A new pair in range is seen, and is not forgotten.
LEMMA SensedSees ==
  ASSUME Sensed
  PROVE  /\ seen' = TRUE \/ seen' = seen
         /\ Stored => seen' = TRUE
  BY Zenon DEF Sensed

\* What is sensed does not touch the course.
LEMMA CourseSensed ==
  ASSUME Sensing, Course, UNCHANGED <<place, service>>
  PROVE  Course'
<1>2. PICK sw, as, fr, gr, ba :
        sw = Switch /\ as = Asked /\ fr = From /\ gr = Grip /\ ba = Back
  OBVIOUS
<1>3. Leg(sw, as, fr, gr, ba)
  BY <1>2 DEF Course
<1>4. Leg(sw, as, fr, gr, ba)'
  BY <1>3, LegKept
<1>5. Switch' = sw /\ Asked' = as /\ From' = fr /\ Grip' = gr /\ Back' = ba
  BY <1>2, SamePlace DEF Switch
<1>6. Leg(Switch, Asked, From, Grip, Back)'
  BY <1>4, <1>5
<1>7. Script'
  BY SamePlace DEF Course, Script, place
<1>9. Judgement'
  BY SamePlace DEF Course, Judgement, place, service
<1> QED
  BY <1>6, <1>7, <1>9 DEF Course, place

\* The next request is the one after those sent.
LEMMA SendScript ==
  ASSUME Sensing, Course, Send
  PROVE  LET k == Sent IN
         /\ pc = "call" /\ k \in 0 .. Len(Handler(state)) - 1 /\ Done = k
         /\ Head(todo) = Handler(state)[k + 1]
         /\ Sent' = k + 1 /\ Handler(state)' = Handler(state) /\ Stops(state)' = Stops(state)
         /\ Hover' = Hover /\ Low' = Low
         /\ todo' \in Seq(Requests)
         /\ Script'
<1> DEFINE h == Handler(state)
           k == Sent
<1>1. /\ pc = "call" /\ todo # <<>> /\ todo' = Tail(todo)
      /\ pc' = IF Head(todo).mode = "DO" THEN "call" ELSE "wait"
      /\ UNCHANGED <<state, disc_state, above, pick>>
  BY DEF Send
<1>2. h' = h /\ Stops(state)' = Stops(state) /\ Hover' = Hover /\ Low' = Low
  BY <1>1 DEF Handler, Adjust, Stops, Hover, Low
<1>3. Len(todo) \in Nat /\ Len(todo) > 0 /\ Head(todo) = todo[1] /\ todo' \in Seq(Requests)
      /\ Len(todo') = Len(todo) - 1 /\ \A i \in 1 .. Len(todo') : todo'[i] = todo[i + 1]
  BY <1>1, HeadTailProperties DEF Course
<1>4. Len(todo) <= Len(h) /\ Len(h) \in Nat
  <2>1. h \in Seq(Requests)
    BY HandlerTyped DEF Course, Sensing, Reading
  <2> QED
    BY <2>1 DEF Course, Script
<1>5. k \in 0 .. Len(h) - 1 /\ Done = k /\ Sent' = k + 1
  BY <1>1, <1>2, <1>3, <1>4 DEF Sent, Done
<1>6. Head(todo) = h[k + 1]
  BY <1>3 DEF Course, Script
<1>7. Script'
  <2>1. Len(todo') \in 0 .. Len(h)
    BY <1>3, <1>4
  <2>2. \A j \in 1 .. Len(todo') : todo'[j] = h[k + 1 + j]
    <3>1. \A j \in 1 .. Len(todo) : todo[j] = h[k + j]
      BY DEF Course, Script
    <3> SUFFICES ASSUME NEW j \in 1 .. Len(todo') PROVE todo'[j] = h[k + 1 + j]
      OBVIOUS
    <3>2. j + 1 \in 1 .. Len(todo) /\ todo'[j] = todo[j + 1]
      BY <1>3
    <3>3. k \in Int
      BY <1>4, <1>5
    <3> HIDE DEF k
    <3>4. k + 1 + j = k + (j + 1)
      BY <1>3, <3>3
    <3> QED
      BY <3>1, <3>2, <3>4
  <2>3. pc' = "wait" => h[k + 1].mode # "DO"
    BY <1>1, <1>6
  <2>4. k + 1 > 0
    BY <1>4, <1>5
  <2> HIDE DEF h, k
  <2>5. (Len(todo) \in 0 .. Len(Handler(state)))'
    BY <1>2, <2>1 DEF h
  <2>6. (\A j \in 1 .. Len(todo) : todo[j] = Handler(state)[Sent + j])'
    BY <1>2, <1>5, <2>2 DEF h
  <2>7. (pc = "wait" => Sent > 0 /\ Handler(state)[Sent].mode # "DO")'
    BY <1>2, <1>5, <2>3, <2>4 DEF h
  <2> QED
    BY <1>1, <2>5, <2>6, <2>7 DEF Script
<1> QED
  BY <1>1, <1>2, <1>3, <1>5, <1>6, <1>7

\* A handler sends a request: an output, or one it waits for.
LEMMA CourseSend ==
  ASSUME Sensing, Course, Send
  PROVE  Course'
<1>0. /\ pc = "call" /\ Sent \in 0 .. Len(Handler(state)) - 1 /\ Done = Sent
      /\ Head(todo) = Handler(state)[Sent + 1]
      /\ Sent' = Sent + 1 /\ Handler(state)' = Handler(state) /\ Stops(state)' = Stops(state)
      /\ Hover' = Hover /\ Low' = Low
      /\ todo' \in Seq(Requests)
      /\ Script'
  BY SendScript
<1>1. /\ requests' = Append(requests, Head(todo))
      /\ pc' = IF Head(todo).mode = "DO" THEN "call" ELSE "wait"
      /\ UNCHANGED <<state, disc_state, above, pick, contract, arm, shown>>
  BY DEF Send
<1>2. state \in States /\ Leading(Handler(state), Stops(state))
  BY Route DEF Course, Sensing, Reading
<1>3. PICK r, fr, gr, ba :
        r = Head(todo) /\ fr = From /\ gr = Grip /\ ba = Back
  OBVIOUS
<1>4. Asked = <<>> /\ Sent + 1 \in 1 .. Len(Handler(state))
  BY <1>0 DEF Asked
<1>5. Leads(r, Stops(state)[Sent + 1], Stops(state)[Sent + 2])
  <2>1. \A j \in 1 .. Len(Handler(state)) :
          Leads(Handler(state)[j], Stops(state)[j], Stops(state)[j + 1])
    BY <1>2 DEF Leading
  <2>2. Sent + 2 = (Sent + 1) + 1
    BY <1>0
  <2> QED
    BY <1>0, <1>3, <1>4, <2>1, <2>2
<1>6. Judgement'
  <2>1. Done' = 2 => Done = 2 \/ Head(todo).mode = "DO"
    BY <1>0, <1>1 DEF Done
  <2>2. Head(todo).mode = "DO" => state # "ADJUST_POSE"
    BY <1>0, <1>2, <1>4, Modes
  <2>3. UNCHANGED <<state, disc_state, above, pick, shown, Hover, Low>>
    BY <1>0, <1>1
  <2> QED
    BY <2>1, <2>2, <2>3 DEF Course, Judgement
<1>7. CASE r.mode = "DO"
  <2>1. pc' = "call" /\ Done' = Sent + 1
    BY <1>0, <1>1, <1>3, <1>7 DEF Done
  <2>2. state \in {"PICK_OBJECT", "PLACE_OBJECT"}
    BY <1>0, <1>2, <1>3, <1>4, <1>7, Modes
  <2>3. Len(Handler(state)) = 1 /\ Sent = 0 /\ Done' = 1 /\ Done = 0
    <3>1. Len(Handler(state)) = 1
      BY <2>2 DEF Handler
    <3> QED
      BY <1>0, <2>1, <3>1
  <2>4. PICK g : g = IF state = "PICK_OBJECT" THEN 1 ELSE 0
    OBVIOUS
  <2>5. g \in {0, 1} /\ r = Output(VacuumPin, g)
    BY <1>0, <1>3, <2>2, <2>3, <2>4 DEF Handler, call_io
  <2>6. Leg(FALSE, <<>>, fr, gr, ba)
    <3>1. ~Switch
      BY <2>2, <2>3 DEF Switch
    <3>2. Switch = FALSE
      BY <3>1 DEF Switch
    <3> QED
      BY <1>3, <1>4, <3>2 DEF Course
  <2>7. Leg(TRUE, <<>>, fr, g, ba)'
    BY <1>1, <1>3, <2>5, <2>6, SendOutput
  <2>8. Asked' = <<>> /\ Grip' = g
    BY <1>1, <2>1, <2>2, <2>3, <2>4 DEF Asked, Grip, Gripping
  <2>9. Switch' = TRUE
    BY <1>1, <2>2, <2>3 DEF Switch
  <2>10. From' = fr
    BY <1>0, <1>1, <1>3, <2>2, <2>3 DEF From, Stops
  <2>11. Back' = ba
    BY <1>1, <1>3, <2>2, <2>10 DEF Back
  <2>12. Leg(Switch, Asked, From, Grip, Back)'
    BY <2>7, <2>8, <2>9, <2>10, <2>11
  <2> QED
    BY <1>0, <1>1, <1>6, <2>12 DEF Course
<1>8. CASE r.mode # "DO"
  <2>1. pc' = "wait" /\ Done' = Sent
    BY <1>0, <1>1, <1>3, <1>8 DEF Done
  <2>2. PICK sw : sw = Switch
    OBVIOUS
  <2>3. Leg(sw, <<r>>, fr, gr, ba)'
    <3>1. Leg(sw, <<>>, fr, gr, ba)
      BY <1>3, <1>4, <2>2 DEF Course
    <3> QED
      BY <1>1, <1>3, <3>1, SendAwaited
  <2>4. Asked' = <<r>>
    BY <1>0, <1>3, <2>1 DEF Asked
  <2>5. Done' = Done /\ Switch' = sw /\ From' = fr /\ Grip' = gr
    BY <1>0, <1>1, <1>3, <2>1, <2>2 DEF Switch, From, Grip, Gripping
  <2>6. Back' = ba
    BY <1>1, <1>3, <2>5 DEF Back
  <2>7. Leg(Switch, Asked, From, Grip, Back)'
    BY <2>3, <2>4, <2>5, <2>6
  <2> QED
    BY <1>0, <1>1, <1>6, <2>7 DEF Course
<1> QED
  BY <1>7, <1>8

\* The handler has its answer: the arm stands at the next stop.
LEMMA CourseReturned ==
  ASSUME Sensing, Course, Returned
  PROVE  Course'
<1>1. /\ pc = "wait" /\ requests = <<>> /\ serving = NoRequest /\ pc' = "call"
      /\ UNCHANGED <<state, todo, disc_state, above, pick, service>>
  BY DEF Returned
<1>2. /\ Handler(state)' = Handler(state) /\ Stops(state)' = Stops(state)
      /\ Hover' = Hover /\ Low' = Low
  BY <1>1 DEF Handler, Adjust, Stops, Hover, Low
<1>3. state \in States
  BY DEF Sensing, Reading
<1>4. /\ Sent \in 1 .. Len(Handler(state)) /\ Handler(state)[Sent].mode # "DO"
      /\ Done = Sent - 1 /\ Sent' = Sent /\ Done' = Sent
  BY <1>1, <1>2 DEF Course, Script, Sent, Done
<1>5. PICK r, sw, fr, gr, ba :
        r = Handler(state)[Sent] /\ sw = Switch /\ fr = From /\ gr = Grip /\ ba = Back
  OBVIOUS
<1>6. Asked = <<r>> /\ Leg(sw, <<r>>, fr, gr, ba)
  <2>1. Asked = <<r>>
    BY <1>1, <1>5 DEF Asked
  <2> QED
    BY <1>5, <2>1 DEF Course
<1>7. Leads(r, fr, Here)
  BY <1>1, <1>5, Legs
<1>8. From' = Here /\ Asked' = <<>>
  BY <1>1, <1>2, <1>4 DEF From, Here, Asked
<1>9. state \notin {"PICK_OBJECT", "PLACE_OBJECT"} /\ (r.mode = "CHECK_POSE" => state = "ADJUST_POSE")
  BY <1>3, <1>4, <1>5, Modes, RequestFields DEF call_io
<1>10. Grip' = gr
  BY <1>1, <1>5, <1>9 DEF Grip, Gripping
<1>11. Switch' = FALSE
  BY <1>1, <1>4, <1>9 DEF Switch
<1>12. PICK q : q = Here
  OBVIOUS
<1>13. q = From' /\ Back' = MotionsTo(q)
  BY <1>1, <1>4, <1>8, <1>12 DEF Back
<1>14. Script'
  BY <1>1, <1>2, <1>4 DEF Course, Script
<1>15. CASE \E n \in {"PTP", "LINE"} : r = Motion(n, q, TRUE)
  <2>1. PICK n \in {"PTP", "LINE"} : r = Motion(n, q, TRUE)
    BY <1>15
  <2>2. Leg(sw, <<Motion(n, q, TRUE)>>, fr, gr, ba)
    BY <1>6, <2>1
  <2>3. Leg(FALSE, <<>>, q, gr, MotionsTo(q))
    BY <1>1, <2>2, AnsweredMotion
  <2>4. Leg(FALSE, <<>>, q, gr, MotionsTo(q))'
    BY <1>1, <2>3, LegKept
  <2>5. Leg(Switch, Asked, From, Grip, Back)'
    BY <1>8, <1>10, <1>11, <1>13, <2>4
  <2>6. Judgement'
    <3>1. r.mode \in {"PTP", "LINE"}
      BY <2>1 DEF Motion
    <3>2. ASSUME state = "ADJUST_POSE", disc_state = "TILT" PROVE Done' # 2
      <4>1. Handler(state)[2] = CHECK_POSE
        BY <3>2 DEF Handler, Adjust
      <4>2. CHECK_POSE.mode = "CHECK_POSE"
        BY DEF CHECK_POSE, Plain
      <4> QED
        BY <1>4, <1>5, <3>1, <4>1, <4>2
    <3>3. UNCHANGED <<state, disc_state, above, pick, Hover, Low>>
      BY <1>1, <1>2
    <3> QED
      BY <3>2, <3>3 DEF Course, Judgement
  <2> QED
    BY <1>1, <1>14, <2>5, <2>6 DEF Course
<1>16. CASE r = CheckPose /\ q = fr
  <2>1. shown = fr /\ Leg(FALSE, <<>>, fr, gr, ba)
    BY <1>1, <1>6, <1>16, AnsweredPose
  <2>2. Leg(FALSE, <<>>, fr, gr, ba)'
    BY <1>1, <2>1, LegKept
  <2>3. state = "ADJUST_POSE"
    BY <1>9, <1>16, RequestFields
  <2>4. ba = MotionsTo(fr)
    BY <1>5, <2>3 DEF Back
  <2>5. Leg(Switch, Asked, From, Grip, Back)'
    BY <1>8, <1>10, <1>11, <1>13, <1>16, <2>2, <2>4
  <2>6. Judgement'
    <3>1. disc_state = "TILT" /\ Done' = 2 => From' = Hover
      BY <1>1, <1>2, <2>3 DEF From, Stops
    <3>2. UNCHANGED <<state, disc_state, above, pick, shown, Hover, Low>>
      BY <1>1, <1>2 DEF service
    <3> QED
      BY <1>13, <1>16, <2>1, <2>3, <3>1, <3>2 DEF Course, Judgement, Adjusted
  <2> QED
    BY <1>1, <1>14, <2>5, <2>6 DEF Course
<1>17. r.mode # "DO"
  BY <1>4, <1>5
<1> QED
  BY <1>7, <1>12, <1>15, <1>16, <1>17, RequestFields DEF Leads

\* At the end of a handler every request is done.
LEMMA Finished ==
  ASSUME Sensing, Course, todo = <<>>, pc # "wait"
  PROVE  /\ Sent = Len(Handler(state)) /\ Done = Sent /\ Asked = <<>>
         /\ From = Stops(state)[Len(Stops(state))]
<1>1. state \in States /\ Handler(state) \in Seq(Requests)
  BY HandlerTyped DEF Course, Sensing, Reading
<1>2. Leading(Handler(state), Stops(state))
  BY <1>1, Route DEF Course
<1>3. Len(todo) = 0
  OBVIOUS
<1>4. Sent = Len(Handler(state)) /\ Done = Sent /\ Asked = <<>>
  BY <1>1, <1>3 DEF Sent, Done, Asked
<1> QED
  BY <1>2, <1>4 DEF From, Leading

\* A handler that starts has sent nothing.
LEMMA Started ==
  ASSUME todo' = Handler(state)', pc' \in {"call", "settle", "left", "right"},
         pc' # "call" => state' = "READ_SENSOR", todo' \in Seq(Requests)
  PROVE  Script' /\ Sent' = 0 /\ Done' = 0 /\ Asked' = <<>> /\ From' = Stops(state)'[1]
<1>1. Len(todo') \in Nat /\ Sent' = 0
  BY DEF Sent
<1>2. Done' = 0
  BY <1>1 DEF Done
<1> QED
  BY <1>1, <1>2 DEF Script, Asked, From

\* A handler begins where the one before it has led.
LEMMA Joins ==
  ASSUME state \in States \ {"READ_SENSOR", "JUDGE_STATE", "ADJUST_POSE", "FINISH"}, Judgement
  PROVE  Stops(state)[Len(Stops(state))] = Stops(Following(state))[1]
<1>1. \A p, q, r : /\ <<p>>[Len(<<p>>)] = p /\ <<p>>[1] = p
                   /\ <<p, q>>[Len(<<p, q>>)] = q /\ <<p, q>>[1] = p
                   /\ <<p, q, r>>[Len(<<p, q, r>>)] = r /\ <<p, q, r>>[1] = p
  OBVIOUS
<1> USE DEF Following, Stops
<1>2. CASE state \in {"HOME_MOVE", "DETECT_MOVE"}
  BY <1>1, <1>2
<1>3. CASE state \in {"DOWN_MOVE", "PICK_OBJECT"}
  BY <1>1, <1>3
<1>4. CASE state = "UP_MOVE"
  BY <1>1, <1>4
<1>5. CASE state = "RESTORE_ANGLE"
  BY <1>1, <1>5 DEF Judgement
<1>6. CASE state \in {"PLACE_MOVE", "PLACE_DOWN", "PLACE_OBJECT"}
  BY <1>1, <1>6
<1>7. CASE state = "PLACE_UP"
  BY <1>1, <1>7 DEF Judgement, Adjusted, Judged
<1>8. CASE state = "SKIP"
  BY <1>1, <1>8 DEF Judgement, AfterSkip
<1>9. CASE state = "FINAL_HOME"
  BY <1>1, <1>9
<1> QED
  BY <1>2, <1>3, <1>4, <1>5, <1>6, <1>7, <1>8, <1>9 DEF States

\* A state follows, from the stop at which the last handler has left the arm.
LEMMA CourseLeave ==
  ASSUME Sensing, Course, Leave
  PROVE  Course'
<1>1. /\ pc = "call" /\ todo = <<>>
      /\ state' = Following(state) /\ pc' = IF state' = "READ_SENSOR" THEN "settle" ELSE "call"
      /\ todo' = Handler(state')
      /\ UNCHANGED <<disc_state, above, pick, service>>
  BY DEF Leave
<1>2. state \in States \ {"READ_SENSOR", "JUDGE_STATE", "ADJUST_POSE", "FINISH"}
  BY DEF Leave, Sensing, Reading, Readings
<1>3. state' \in States
  BY <1>1, <1>2 DEF Following, AfterSkip, States
<1>4. todo' = Handler(state)' /\ Stops(state)' = Stops(Following(state))
  BY <1>1 DEF Handler, Adjust, Stops, Hover, Low
<1>5. todo' \in Seq(Requests)
  BY <1>1, <1>3, HandlerTyped DEF Course
<1>6. Script' /\ Sent' = 0 /\ Done' = 0 /\ Asked' = <<>> /\ From' = Stops(state)'[1]
  BY <1>1, <1>4, <1>5, Started
<1>7. Sent = Len(Handler(state)) /\ Done = Sent /\ Asked = <<>>
      /\ From = Stops(state)[Len(Stops(state))]
  BY <1>1, Finished
<1>8. From' = From
  BY <1>2, <1>4, <1>6, <1>7, Joins DEF Course
<1>9. Switch' <=> Switch
  <2>1. CASE state \in {"PICK_OBJECT", "PLACE_OBJECT"}
    <3>1. Done = 1
      BY <1>7, <2>1 DEF Handler
    <3> QED
      BY <1>1, <1>6, <2>1, <3>1 DEF Switch, Following
  <2>2. CASE state \in {"UP_MOVE", "PLACE_UP"}
    <3>1. Done # 0
      BY <1>7, <2>2 DEF Handler
    <3> QED
      BY <1>1, <1>6, <2>2, <3>1 DEF Switch, Following
  <2>3. CASE state \notin {"PICK_OBJECT", "PLACE_OBJECT", "UP_MOVE", "PLACE_UP"}
    BY <1>1, <1>2, <1>6, <2>3 DEF Switch, Following, AfterSkip, States
  <2> QED
    BY <2>1, <2>2, <2>3
<1>10. Grip' = Grip
  <2>1. CASE state \in {"PICK_OBJECT", "PLACE_OBJECT"}
    <3>1. Done = 1
      BY <1>7, <2>1 DEF Handler
    <3> QED
      BY <1>1, <1>6, <2>1, <3>1 DEF Grip, Gripping, Following
  <2>2. CASE state \notin {"PICK_OBJECT", "PLACE_OBJECT"}
    BY <1>1, <1>2, <1>6, <2>2 DEF Grip, Gripping, Following, AfterSkip, States
  <2> QED
    BY <2>1, <2>2
<1>11. Back' = Back
  <2>1. Back = MotionsTo(From)
    <3>1. state = "HOME_MOVE" => Done = 1
      BY <1>7 DEF Handler
    <3> QED
      BY <3>1 DEF Back
  <2>2. state' # "HOME_MOVE"
    BY <1>1, <1>2 DEF Following, AfterSkip, States
  <2>3. Back' = MotionsTo(From')
    BY <2>2 DEF Back
  <2> QED
    BY <1>8, <2>1, <2>3
<1>12. Leg(Switch, Asked, From, Grip, Back)'
  <2>1. PICK sw, as, fr, gr, ba :
          sw = Switch /\ as = Asked /\ fr = From /\ gr = Grip /\ ba = Back
    OBVIOUS
  <2>2. Leg(sw, as, fr, gr, ba)'
    BY <1>1, <2>1, LegKept DEF Course
  <2>3. Switch' = sw
    BY <1>9, <2>1 DEF Switch
  <2> QED
    BY <1>6, <1>7, <1>8, <1>10, <1>11, <2>1, <2>2, <2>3
<1>13. Judgement'
  <2>1. Hover' = Hover /\ Low' = Low
    BY <1>1 DEF Hover, Low
  <2>2. state' = "ADJUST_POSE" => FALSE
    BY <1>1, <1>2 DEF Following, AfterSkip, States
  <2>3. state' = "SKIP" => FALSE
    BY <1>1, <1>2 DEF Following, AfterSkip, States
  <2>4. state' \in Adjusted => state \in Adjusted
    BY <1>1, <1>2 DEF Following, AfterSkip, States, Adjusted
  <2>5. state' = "RESTORE_ANGLE" => disc_state = "TILT"
    BY <1>1, <1>2 DEF Following, AfterSkip, States
  <2>6. state' = "FINAL_HOME" => state \in {"PLACE_UP", "SKIP"}
    BY <1>1, <1>2 DEF Following, States
  <2> QED
    BY <1>1, <2>1, <2>2, <2>3, <2>4, <2>5, <2>6 DEF Course, Judgement, Adjusted
<1> QED
  BY <1>1, <1>5, <1>6, <1>12, <1>13 DEF Course

\* A step of the main thread that leaves the arm where it is, and the vacuum.
LEMMA SameLeg ==
  ASSUME Course, UNCHANGED service, Asked' = Asked, From' = From, Grip' = Grip,
         Switch' <=> Switch, Back' = Back
  PROVE  Leg(Switch, Asked, From, Grip, Back)'
<1>1. PICK sw, as, fr, gr, ba :
        sw = Switch /\ as = Asked /\ fr = From /\ gr = Grip /\ ba = Back
  OBVIOUS
<1>2. Leg(sw, as, fr, gr, ba)'
  BY <1>1, LegKept DEF Course
<1>3. Switch' = sw
  BY <1>1 DEF Switch
<1> QED
  BY <1>1, <1>2, <1>3

\* The readings are taken where the arm was moved to detect.
LEMMA CourseReading ==
  ASSUME Sensing, Course, Settle \/ ReadLeft \/ ReadRight
  PROVE  Course'
<1>1. /\ state = "READ_SENSOR" /\ pc \in {"settle", "left", "right"}
      /\ \/ state' = state /\ pc' \in {"left", "right"}
         \/ state' = "JUDGE_STATE" /\ pc' = "call"
      /\ UNCHANGED <<todo, disc_state, above, pick, service>>
  BY DEF Settle, ReadLeft, ReadRight, Sensing, Reading, Readings
<1>2. Handler(state) = <<>> /\ Handler(state)' = <<>> /\ Stops(state) = <<DETECT_POSE>>
      /\ Stops(state)' = <<DETECT_POSE>>
  BY <1>1 DEF Handler, Stops
<1>3. todo = <<>> /\ Sent = 0 /\ Done = 0 /\ Asked = <<>> /\ From = DETECT_POSE
  <2>1. Len(todo) = 0
    BY <1>2 DEF Course, Script
  <2>2. todo = <<>>
    BY <2>1, EmptySeq DEF Course
  <2> QED
    BY <1>1, <1>2, <2>1, <2>2 DEF Sent, Done, Asked, From
<1>4. todo' \in Seq(Requests) /\ todo' = Handler(state)'
  BY <1>1, <1>2, <1>3 DEF Course
<1>5. Script' /\ Sent' = 0 /\ Done' = 0 /\ Asked' = <<>> /\ From' = Stops(state)'[1]
  BY <1>1, <1>4, Started
<1>6. From' = From /\ Asked' = Asked
  BY <1>2, <1>3, <1>5
<1>7. Grip' = Grip /\ (Switch' <=> Switch)
  BY <1>1 DEF Grip, Gripping, Switch
<1>8. Back' = Back
  BY <1>1, <1>6 DEF Back
<1>9. Leg(Switch, Asked, From, Grip, Back)'
  BY <1>1, <1>6, <1>7, <1>8, SameLeg
<1>10. Judgement'
  BY <1>1 DEF Judgement, Adjusted
<1> QED
  BY <1>1, <1>4, <1>5, <1>9, <1>10 DEF Course

\* Nothing is added to an offset of 0.
LEMMA ShiftNone ==
  ASSUME NEW p \in Poses
  PROVE  Shift(p, Offset("NORMAL")) = p
  BY DEF Shift, Offset, Poses

\* The judgement says where to pick and does not move the arm.
LEMMA CourseJudge ==
  ASSUME Sensing, Course, Judge
  PROVE  Course'
<1>1. /\ pc = "call" /\ state = "JUDGE_STATE"
      /\ disc_state' \in {"OVERLAP", "TILT", "NORMAL", "OFFSET_LEFT", "OFFSET_RIGHT"}
      /\ state' = AfterJudge(disc_state')
      /\ todo' = IF state' = "SKIP" THEN <<>> ELSE Adjust(disc_state')
      /\ above' = Shift(DETECT_POSE, Offset(disc_state')) /\ pick' = PickPose(disc_state')
      /\ UNCHANGED <<pc, service>>
  BY DetectTyped DEF Judge
<1>2. \/ state' = "SKIP" /\ disc_state' = "OVERLAP"
      \/ state' = "ADJUST_POSE" /\ disc_state' \in Judged
  BY <1>1 DEF AfterJudge, Judged
<1>3. todo' = Handler(state)'
  BY <1>1, <1>2 DEF Handler
<1>4. above' \in Poses /\ pick' \in Poses
  BY <1>1, PosesTyped DEF PickPose
<1>5. todo' \in Seq(Requests)
  <2>1. state' \in States
    BY <1>2 DEF States
  <2>2. \A r \in Requests : <<r>> \in Seq(Requests)
    OBVIOUS
  <2>3. \A q, r \in Requests : <<q, r>> \in Seq(Requests)
    OBVIOUS
  <2>4. PTP(JOINTS_TILT) \in Requests /\ PTP(above') \in Requests /\ CHECK_POSE \in Requests
    BY <1>4, RequestsTyped, PosesTyped
  <2> QED
    BY <1>1, <2>2, <2>3, <2>4 DEF Adjust
<1>6. Script' /\ Sent' = 0 /\ Done' = 0 /\ Asked' = <<>> /\ From' = Stops(state)'[1]
  BY <1>1, <1>3, <1>5, Started
<1>7. From' = DETECT_POSE
  BY <1>2, <1>6 DEF Stops
<1>8. Asked = <<>> /\ From = DETECT_POSE /\ Done = 0
  <2>1. Handler(state) = <<>> /\ Stops(state) = <<DETECT_POSE>>
    BY <1>1 DEF Handler, Stops
  <2>2. Len(todo) = 0
    BY <2>1 DEF Course, Script
  <2> QED
    BY <1>1, <2>1, <2>2 DEF Sent, Done, Asked, From
<1>9. Grip' = Grip /\ (Switch' <=> Switch)
  BY <1>1, <1>2 DEF Grip, Gripping, Switch
<1>10. Back' = Back
  BY <1>1, <1>2, <1>7, <1>8 DEF Back
<1>11. Leg(Switch, Asked, From, Grip, Back)'
  BY <1>1, <1>6, <1>7, <1>8, <1>9, <1>10, SameLeg
<1>12. Judgement'
  <2>1. disc_state' # "TILT" => above' = Hover' /\ pick' = Low'
    BY <1>1 DEF Hover, Low
  <2>2. state' \notin Adjusted
    BY <1>2 DEF Adjusted
  <2>3. Done' # 2
    BY <1>6
  <2> QED
    BY <1>2, <2>1, <2>2, <2>3 DEF Judgement, Judged
<1> QED
  BY <1>4, <1>5, <1>6, <1>11, <1>12 DEF Course

\* A tilted disc is picked below the pose that was shown, which is where the arm stands.
LEMMA CourseLeaveAdjust ==
  ASSUME Sensing, Course, LeaveAdjust
  PROVE  Course'
<1>1. /\ pc = "call" /\ state = "ADJUST_POSE" /\ todo = <<>>
      /\ IF disc_state = "TILT"
           THEN above' = shown /\ pick' = [shown EXCEPT !.z = @ - TILT_DOWN_DISTANCE]
           ELSE UNCHANGED <<above, pick>>
      /\ state' = "DOWN_MOVE"
      /\ todo' = <<LINE(pick')>>
      /\ UNCHANGED <<pc, disc_state, service>>
  BY DEF LeaveAdjust, Following
<1>2. Sent = Len(Handler(state)) /\ Done = Sent /\ Asked = <<>>
      /\ From = Stops(state)[Len(Stops(state))]
  BY <1>1, Finished
<1>3. disc_state \in Judged
  BY <1>1 DEF Course, Judgement
<1>4. above' = Hover /\ pick' = Low
  <2>1. CASE disc_state = "TILT"
    <3>1. Done = 2
      BY <1>1, <1>2, <2>1 DEF Handler, Adjust
    <3>2. shown = JOINTS_TILT
      BY <1>1, <2>1, <3>1 DEF Course, Judgement, Hover
    <3> QED
      BY <1>1, <2>1, <3>2 DEF Hover, Low
  <2>2. CASE disc_state # "TILT"
    BY <1>1, <2>2 DEF Course, Judgement
  <2> QED
    BY <2>1, <2>2
<1>5. Hover' = Hover /\ Low' = Low /\ above' \in Poses /\ pick' \in Poses
  BY <1>1, <1>4, PosesTyped DEF Hover, Low
<1>6. todo' \in Seq(Requests) /\ todo' = Handler(state)'
  <2>1. LINE(pick') \in Requests
    BY <1>5, RequestsTyped
  <2> QED
    BY <1>1, <2>1 DEF Handler
<1>7. Script' /\ Sent' = 0 /\ Done' = 0 /\ Asked' = <<>> /\ From' = Stops(state)'[1]
  BY <1>1, <1>6, Started
<1>8. From' = Hover
  BY <1>1, <1>5, <1>7 DEF Stops
<1>9. From = Hover
  <2>1. CASE disc_state = "TILT"
    <3>1. Stops(state) = <<DETECT_POSE, Hover, Hover>>
      BY <1>1, <2>1 DEF Stops
    <3> QED
      BY <1>2, <3>1
  <2>2. CASE disc_state = "NORMAL"
    <3>1. Stops(state) = <<DETECT_POSE>>
      BY <1>1, <2>2 DEF Stops
    <3>2. Hover = DETECT_POSE
      BY <2>2, PosesTyped, ShiftNone DEF Hover
    <3> QED
      BY <1>2, <3>1, <3>2
  <2>3. CASE disc_state \in {"OFFSET_LEFT", "OFFSET_RIGHT"}
    <3>1. Stops(state) = <<DETECT_POSE, Hover>>
      BY <1>1, <2>3 DEF Stops
    <3> QED
      BY <1>2, <3>1
  <2> QED
    BY <1>3, <2>1, <2>2, <2>3 DEF Judged
<1>10. Grip' = Grip /\ (Switch' <=> Switch)
  BY <1>1 DEF Grip, Gripping, Switch
<1>11. Back' = Back
  BY <1>1, <1>8, <1>9 DEF Back
<1>12. Leg(Switch, Asked, From, Grip, Back)'
  BY <1>1, <1>2, <1>7, <1>8, <1>9, <1>10, <1>11, SameLeg
<1>13. Judgement'
  BY <1>1, <1>3, <1>4, <1>5 DEF Judgement, Adjusted
<1> QED
  BY <1>5, <1>6, <1>7, <1>12, <1>13 DEF Course

\* The course is kept by every step.
LEMMA CourseStep ==
  ASSUME NothingUnseen, Sensing, Course, Next
  PROVE  Course'
<1>1. CASE MainThread
  BY <1>1, CourseSend, CourseReturned, CourseLeave, CourseReading, CourseJudge, CourseLeaveAdjust
     DEF MainThread
<1>2. CASE Callback \/ (SensorStep /\ Sensed) \/ Change
  <2>1. UNCHANGED <<place, service>>
    <3>1. CASE Callback
      BY <3>1 DEF Callback, CallbackLeft, CallbackRight, place
    <3>2. CASE SensorStep /\ Sensed
      <4>1. UNCHANGED <<strategy, service>>
        BY <3>2 DEF Sensed
      <4> QED
        BY <4>1 DEF strategy, place
    <3>3. CASE Change
      BY <3>3 DEF Change, strategy, place
    <3> QED
      BY <1>2, <3>1, <3>2, <3>3
  <2> QED
    BY <2>1, CourseSensed
<1>3. CASE Serve
  BY <1>3, CourseServe
<1> QED
  BY <1>1, <1>2, <1>3 DEF Next

\* Without a call that fails unseen the arm keeps its course in every behaviour.
THEOREM CourseAlways ==
  ASSUME NothingUnseen
  PROVE  Spec => [](Sensing /\ Course)
<1>1. Init => Sensing /\ Course
  BY SensingInit, CourseInit
<1>2. Sensing /\ Course /\ [Next]_vars => (Sensing /\ Course)'
  <2>1. Sensing /\ UNCHANGED vars => Sensing'
    BY DEF Sensing, SenseTypes, SensorTypeOK, Reading, vars, strategy, sensor
  <2>2. UNCHANGED vars => UNCHANGED <<place, service>>
    BY DEF vars, strategy, place, service
  <2> QED
    BY <2>1, <2>2, SensingStep, CourseStep, CourseSensed
<1> QED
  BY <1>1, <1>2, PTL DEF Spec

-----------------------------------------------------------------------------
(* What follows from the course *)

\* The stops are poses, and so is where the arm comes from.
LEMMA FromTyped ==
  ASSUME Sensing, Course
  PROVE  From \in Poses /\ Back \subseteq Commands /\ MotionsTo(From) \subseteq Commands
<1>1. state \in States /\ Leading(Handler(state), Stops(state))
  BY Route DEF Course, Sensing, Reading
<1>2. Stops(state) \in Seq(Poses)
  <2>1. \A p \in Poses : <<p>> \in Seq(Poses)
    OBVIOUS
  <2>2. \A p, q \in Poses : <<p, q>> \in Seq(Poses)
    OBVIOUS
  <2>3. \A p, q, r \in Poses : <<p, q, r>> \in Seq(Poses)
    OBVIOUS
  <2> QED
    BY <1>1, <2>1, <2>2, <2>3, PosesTyped DEF Stops, States
<1>3. Done + 1 \in 1 .. Len(Stops(state))
  <2>1. Handler(state) \in Seq(Requests)
    BY <1>1, HandlerTyped DEF Course
  <2>2. Sent \in 0 .. Len(Handler(state)) /\ (pc = "wait" => Sent > 0)
    BY <2>1 DEF Course, Script, Sent
  <2> QED
    BY <1>1, <2>1, <2>2 DEF Leading, Done
<1>4. From \in Poses
  BY <1>2, <1>3 DEF From
<1>5. MotionsTo(From) \subseteq Commands
  BY <1>4 DEF MotionsTo, Commands
<1> QED
  BY <1>4, <1>5 DEF Back, Commands

\* The service holds requests of the strategy, and the arm motions between its points.
LEMMA ServiceTyped ==
  ASSUME Sensing, Course
  PROVE  /\ requests \in Seq(Requests) /\ serving \in Requests \cup {NoRequest}
         /\ table \in Commands /\ moves \in Seq(Commands) /\ arm \in Poses
         /\ link \in {"up", "desync", "lost"}
         /\ out \in [Pins -> {0, 1}] /\ stage \in {"write", "trigger", "done"}
<1>1. PICK sw, as, fr, gr, ba :
        sw = Switch /\ as = Asked /\ fr = From /\ gr = Grip /\ ba = Back
  OBVIOUS
<1>2. Leg(sw, as, fr, gr, ba) /\ Possible(sw, as, fr, gr, ba)
  BY <1>1, Legs DEF Course
<1>3. Output(VacuumPin, gr) \in Requests
  BY <1>2, RequestsTyped DEF call_io, Possible
<1>4. fr \in Poses /\ ba \subseteq Commands /\ MotionsTo(fr) \subseteq Commands
  BY <1>1, FromTyped
<1>5. as # <<>> => as[1] \in Requests /\ as[1].writes \subseteq Commands
  <2> SUFFICES ASSUME as # <<>> PROVE as[1] \in Requests /\ as[1].writes \subseteq Commands
    OBVIOUS
  <2>1. pc = "wait" /\ as = <<Handler(state)[Sent]>>
    BY <1>1 DEF Asked
  <2>2. Handler(state) \in Seq(Requests)
    BY HandlerTyped DEF Course, Sensing, Reading
  <2>3. Sent \in 1 .. Len(Handler(state))
    BY <2>1, <2>2 DEF Course, Script, Sent
  <2>4. Handler(state)[Sent] \in Requests
    BY <2>2, <2>3
  <2>5. as[1] \in Requests
    BY <2>1, <2>4
  <2> QED
    BY <2>5 DEF Requests
<1>6. \A c \in Commands : c.name \in {"PTP", "LINE"} => c.goal \in Poses
  BY DEF Commands, Stop
<1>7. Within(as, fr, gr, ba, Requests, Commands, Poses)
  BY <1>3, <1>4, <1>5, <1>6 DEF Within
<1> QED
  BY <1>2, <1>7, LegTyped

\* What CHECK_POSE has shown, and whether the table is fresh.
ReadTypes == fresh \in BOOLEAN /\ shown \in Poses \cup {Elsewhere}

\* They keep their types.
LEMMA ReadTyped ==
  ASSUME Sensing, Course, ReadTypes, [Next]_vars
  PROVE  ReadTypes'
<1>1. arm \in Poses
  BY ServiceTyped
<1>2. CASE ServiceStep
  BY <1>1, <1>2, ServiceReads DEF ReadTypes
<1>3. CASE UNCHANGED <<fresh, shown>>
  BY <1>3 DEF ReadTypes
<1>4. ServiceStep \/ UNCHANGED <<fresh, shown>>
  <2>1. CASE MainThread
    BY <2>1 DEF MainThread, Send, Returned, Leave, Settle, ReadLeft, ReadRight, Judge, LeaveAdjust,
       service, contract
  <2>2. CASE Callback \/ (SensorStep /\ Sensed) \/ Change
    <3>1. UNCHANGED service
      <4>1. CASE SensorStep /\ Sensed
        BY <4>1, SensedKeeps
      <4>2. CASE Callback \/ Change
        BY <4>2 DEF Callback, CallbackLeft, CallbackRight, Change
      <4> QED
        BY <2>2, <4>1, <4>2
    <3> QED
      BY <3>1 DEF service, contract
  <2>3. CASE UNCHANGED vars
    BY <2>3 DEF vars, service, contract
  <2> QED
    BY <2>1, <2>2, <2>3 DEF Next, Serve
<1> QED
  BY <1>2, <1>3, <1>4

\* All variables of the strategy, of the sensor and of the service keep their types,
\* whatever the sensors see and whichever call is late or lost.
THEOREM Typed ==
  ASSUME NothingUnseen
  PROVE  Spec => []TypeOK
<1>1. Init => Sensing /\ Course /\ ReadTypes
  BY SensingInit, CourseInit DEF Init, ServiceInit, ReadTypes
<1>2. (Sensing /\ Course /\ ReadTypes) /\ [Next]_vars => (Sensing /\ Course /\ ReadTypes)'
  <2>1. Sensing /\ UNCHANGED vars => Sensing'
    BY DEF Sensing, SenseTypes, SensorTypeOK, Reading, vars, strategy, sensor
  <2>2. UNCHANGED vars => UNCHANGED <<place, service>>
    BY DEF vars, strategy, place, service
  <2> QED
    BY <2>1, <2>2, SensingStep, CourseStep, CourseSensed, ReadTyped
<1>3. Sensing /\ Course /\ ReadTypes => TypeOK
  <2> SUFFICES ASSUME Sensing, Course, ReadTypes PROVE TypeOK
    OBVIOUS
  <2>1. callback \in Seq(Pair) /\ Len(callback) <= 1
    <3>1. CASE callback = <<>>
      BY <3>1
    <3>2. ASSUME NEW m \in Pair, callback = <<m>>
          PROVE  callback \in Seq(Pair) /\ Len(callback) <= 1
      BY <3>2
    <3> QED
      BY <3>1, <3>2 DEF Sensing, SenseTypes
  <2>2. reads \in 0 .. N
    <3>1. reads = 0 \/ reads \in 0 .. N - 1 \/ reads = N
      BY DEF Sensing, Reading, Readings
    <3> QED
      BY <3>1, StrategyConstants
  <2>3. disc_state \in DOMAIN FAKE_VALUES \cup {"UNKNOWN"}
    BY DEF Sensing, Reading, FAKE_VALUES
  <2>4. pc \in {"call", "wait", "settle", "left", "right"}
    BY DEF Sensing, Reading, Readings
  <2> QED
    BY <2>1, <2>2, <2>3, <2>4, ServiceTyped
       DEF TypeOK, Sensing, SenseTypes, Reading, Course, ReadTypes
<1> QED
  BY <1>1, <1>2, <1>3, PTL DEF Spec

\* When the strategy ends, the arm rests at home and holds nothing, whatever was judged and
\* whichever calls were late.
THEOREM HomeAtTheEnd ==
  ASSUME NothingUnseen
  PROVE  Spec => []EndsAtHome
<1>1. Sensing /\ Course => EndsAtHome
  <2> SUFFICES ASSUME Sensing, Course, state = "FINISH"
               PROVE  arm = HOME_POSE /\ moves = <<>> /\ vacuum = 0
    BY DEF EndsAtHome
  <2>1. Handler(state) = <<>> /\ Stops(state) = <<HOME_POSE>>
    BY DEF Handler, Stops
  <2>2. Len(todo) = 0 /\ pc # "wait" /\ Sent = 0
    BY <2>1 DEF Course, Script, Sent
  <2>3. Asked = <<>> /\ From = HOME_POSE /\ Grip = 0 /\ Switch = FALSE
    BY <2>1, <2>2 DEF Asked, From, Done, Grip, Gripping, Switch
  <2>4. Leg(FALSE, <<>>, HOME_POSE, 0, Back)
    BY <2>3 DEF Course
  <2> QED
    BY <2>4, RestingLeg DEF Quiet
<1> QED
  BY <1>1, CourseAlways, PTL

\* Only the service and the arm change what the service is made of, besides what is sent.
LEMMA OthersStand ==
  ASSUME [Next]_vars, arm' # arm \/ out' # out \/ moves' # moves
  PROVE  ServiceStep /\ UNCHANGED strategy
<1>1. CASE MainThread
  BY <1>1 DEF MainThread, Send, Returned, Leave, Settle, ReadLeft, ReadRight, Judge, LeaveAdjust,
     service, contract
<1>2. CASE Callback \/ Change
  BY <1>2 DEF Callback, CallbackLeft, CallbackRight, Change, service, contract
<1>3. CASE SensorStep /\ Sensed
  BY <1>3, SensedKeeps DEF service, contract
<1>4. CASE UNCHANGED vars
  BY <1>4 DEF vars, service, contract
<1>5. CASE Serve
  BY <1>5 DEF Serve
<1> QED
  BY <1>1, <1>2, <1>3, <1>4, <1>5 DEF Next

\* From the pick to the placing the arm moves only with the vacuum on, although the answer
\* of call_io is not awaited and the motion after it is sent at once.
THEOREM LiftedWithVacuum ==
  ASSUME NothingUnseen
  PROVE  Spec => LiftsWithVacuum
<1>1. Sensing /\ Course /\ [Next]_vars =>
        (arm' # arm /\ state \in {"UP_MOVE", "RESTORE_ANGLE", "PLACE_MOVE", "PLACE_DOWN"}
           => vacuum = 1)
  <2> SUFFICES ASSUME Sensing, Course, [Next]_vars, arm' # arm,
                      state \in {"UP_MOVE", "RESTORE_ANGLE", "PLACE_MOVE", "PLACE_DOWN"}
               PROVE  vacuum = 1
    OBVIOUS
  <2>1. PICK sw, as, fr, gr, ba :
          sw = Switch /\ as = Asked /\ fr = From /\ gr = Grip /\ ba = Back
    OBVIOUS
  <2>2. Leg(sw, as, fr, gr, ba) /\ Possible(sw, as, fr, gr, ba)
    BY <2>1, Legs DEF Course
  <2>3. vacuum = gr
    BY <2>2, OthersStand, LegMoves
  <2> QED
    BY <2>1, <2>3 DEF Grip, Gripping
<1> QED
  BY <1>1, CourseAlways, PTL DEF Spec, LiftsWithVacuum

\* The vacuum goes off only over the place point, with the arm at rest.
THEOREM ReleasedAtPlace ==
  ASSUME NothingUnseen
  PROVE  Spec => ReleasesAtPlace
<1>1. Sensing /\ Course /\ [Next]_vars =>
        (vacuum = 1 /\ vacuum' = 0 => arm = PLACE_DOWN_POSE /\ moves = <<>>)
  <2> SUFFICES ASSUME Sensing, Course, [Next]_vars, vacuum = 1, vacuum' = 0
               PROVE  arm = PLACE_DOWN_POSE /\ moves = <<>>
    OBVIOUS
  <2>1. PICK sw, as, fr, gr, ba :
          sw = Switch /\ as = Asked /\ fr = From /\ gr = Grip /\ ba = Back
    OBVIOUS
  <2>2. Leg(sw, as, fr, gr, ba) /\ Possible(sw, as, fr, gr, ba)
    BY <2>1, Legs DEF Course
  <2>3. ServiceStep /\ vacuum' # vacuum
    BY OthersStand DEF vacuum
  <2>4. sw /\ arm = fr /\ moves = <<>> /\ vacuum' = gr
    BY <2>2, <2>3, LegSwitches
  <2>5. Switch /\ Grip = 0
    BY <2>1, <2>4
  <2>6. \/ state = "PLACE_OBJECT" /\ Done = 1
        \/ state = "PLACE_UP" /\ Done = 0
    BY <2>5 DEF Switch, Grip, Gripping
  <2>7. From = PLACE_DOWN_POSE
    BY <2>6 DEF From, Stops
  <2> QED
    BY <2>1, <2>4, <2>7
<1> QED
  BY <1>1, CourseAlways, PTL DEF Spec, ReleasesAtPlace

\* A LINE never drags the arm sideways: it starts where the handler before it has led the arm,
\* whichever way the disc lies.
THEOREM VerticalLines ==
  ASSUME NothingUnseen
  PROVE  Spec => LinesAreVertical
<1>1. Sensing /\ Course /\ [Next]_vars =>
        ((moves # <<>> /\ moves' = Tail(moves) /\ Head(moves).name = "LINE")
           => arm'.x = arm.x /\ arm'.a4 = arm.a4)
  <2> SUFFICES ASSUME Sensing, Course, [Next]_vars, arm' # arm,
                      moves # <<>>, Head(moves).name = "LINE"
               PROVE  arm'.x = arm.x /\ arm'.a4 = arm.a4
    OBVIOUS
  <2>1. PICK sw, as, fr, gr, ba :
          sw = Switch /\ as = Asked /\ fr = From /\ gr = Grip /\ ba = Back
    OBVIOUS
  <2>2. Leg(sw, as, fr, gr, ba) /\ Possible(sw, as, fr, gr, ba)
    BY <2>1, Legs DEF Course
  <2>3. ServiceStep
    BY OthersStand
  <2>4. as # <<>> /\ \E c \in as[1].writes :
           as[1] = Ordered(c) /\ Head(moves) = c /\ arm = fr /\ arm' = c.goal
    BY <2>2, <2>3, LegMoves
  <2>5. PICK c \in as[1].writes :
           as[1] = Ordered(c) /\ Head(moves) = c /\ arm = fr /\ arm' = c.goal
    BY <2>4
  <2>6. pc = "wait" /\ as = <<Handler(state)[Sent]>>
    BY <2>1, <2>4 DEF Asked
  <2>7. Leads(as[1], fr, Here)
    BY <2>1, <2>6, Legs
  <2>8. c.name = "LINE" /\ as[1].mode = "LINE" /\ as[1].writes = {[name |-> "LINE", goal |-> c.goal]}
    BY <2>5 DEF Ordered, Motion
  <2>9. PICK n \in {"PTP", "LINE"} :
          as[1] = Motion(n, Here, TRUE) /\ (n = "LINE" => Here.x = fr.x /\ Here.a4 = fr.a4)
    BY <2>7, <2>8, RequestFields DEF Leads
  <2>10. n = "LINE" /\ c = [name |-> n, goal |-> Here]
    BY <2>5, <2>8, <2>9 DEF Motion
  <2> QED
    BY <2>5, <2>9, <2>10
<1> QED
  BY <1>1, CourseAlways, PTL DEF Spec, LinesAreVertical

-----------------------------------------------------------------------------
(* A node that has seen nothing *)

Blind == ~seen /\ source \notin DOMAIN FAKE_VALUES

\* What a blind strategy sends.
Unmoved == {PTP(HOME_POSE), PTP(DETECT_POSE)}

\* Only zeros go from thread to thread, they are judged OVERLAP, and no output is sent.
Darkness ==
  /\ line = Zero /\ dist = Zero /\ msg = Zero /\ topic \in Seq({Zero})
  /\ callback \in {<<>>, <<Zero>>}
  /\ left_dist = 0 /\ right_dist = 0 /\ sum = Zero
  /\ state \in {"HOME_MOVE", "DETECT_MOVE", "READ_SENSOR", "JUDGE_STATE", "SKIP", "FINAL_HOME",
                "FINISH"}
  /\ todo \in Seq(Unmoved) /\ requests \in Seq(Unmoved)
  /\ serving \in Unmoved \cup {NoRequest}
  /\ vacuum = 0

\* In the dark the zeros stay.
LEMMA DarkSensor ==
  ASSUME Darkness, Sensing, Blind', Watching /\ (Callback \/ (SensorStep /\ Sensed) \/ Change)
  PROVE  Darkness'
<1>1. CASE CallbackLeft
  <2>1. Head(topic) = Zero /\ Tail(topic) \in Seq({Zero})
    BY <1>1, HeadTailProperties DEF CallbackLeft, Darkness
  <2> QED
    BY <1>1, <2>1 DEF CallbackLeft, Darkness, Zero, service, contract, vacuum
<1>2. CASE CallbackRight
  <2>1. Head(callback) = Zero
    BY <1>2 DEF CallbackRight, Darkness
  <2> QED
    BY <1>2, <2>1 DEF CallbackRight, Darkness, Zero, service, contract, vacuum, sensor
<1>3. CASE SensorStep /\ Sensed
  <2>1. UNCHANGED strategy /\ UNCHANGED service
    BY <1>3, SensedKeeps
  <2>2. ~StoreLeft
    <3> SUFFICES ASSUME StoreLeft PROVE FALSE
      OBVIOUS
    <3>1. Stored
      <4>1. 0 \notin InRange
        BY DEF InRange
      <4>2. line.left = 0 /\ line' = view /\ Plausible(view)
        BY DEF StoreLeft, Darkness, Zero
      <4> QED
        BY <4>1, <4>2 DEF Stored, Plausible
    <3>2. seen' = TRUE
      BY <1>3, <3>1, SensedSees, Zenon
    <3> QED
      BY <3>2 DEF Blind
  <2>3. ~FakePublish
    BY <1>3 DEF FakePublish, Blind
  <2>4. /\ line' = Zero /\ dist' = Zero /\ msg' = Zero /\ topic' \in Seq({Zero})
    <3>1. CASE StoreRight \/ SerialError \/ LoadLeft
      BY <3>1 DEF StoreRight, SerialError, LoadLeft, Darkness, Zero
    <3>2. CASE PublishSensor
      <4>1. msg' = Zero
        BY <3>2 DEF PublishSensor, Darkness, Zero
      <4>2. Zero \in {Zero}
        OBVIOUS
      <4>3. topic' \in Seq({Zero})
        BY <3>2, <4>1, <4>2, KeepLastTyped DEF PublishSensor, Darkness
      <4> QED
        BY <3>2, <4>1, <4>3 DEF PublishSensor, Darkness
    <3> QED
      BY <1>3, <2>2, <2>3, <3>1, <3>2 DEF SensorStep, SerialThread, Timer
  <2> QED
    BY <2>1, <2>4 DEF Darkness, strategy, service, contract, vacuum
<1>4. CASE Change
  BY <1>4 DEF Change, Darkness, strategy, sensor, service, contract, vacuum
<1> QED
  BY <1>1, <1>2, <1>3, <1>4 DEF Callback

\* The main thread goes home without an output.
LEMMA DarkThread ==
  ASSUME Darkness, Sensing, MainThread
  PROVE  Darkness'
<1> USE DEF Darkness
<1>1. CASE Send
  <2>1. Head(todo) \in Unmoved /\ Tail(todo) \in Seq(Unmoved)
    BY <1>1, HeadTailProperties DEF Send
  <2>2. requests' \in Seq(Unmoved)
    BY <1>1, <2>1, AppendProperties DEF Send
  <2> QED
    BY <1>1, <2>1, <2>2 DEF Send, sensor, contract, vacuum
<1>2. CASE Returned \/ Settle
  BY <1>2 DEF Returned, Settle, sensor, service, contract, vacuum
<1>3. CASE Leave
  <2>1. state' \in {"DETECT_MOVE", "READ_SENSOR", "FINAL_HOME", "FINISH"}
    BY <1>3 DEF Leave, Following, AfterSkip, Sensing, Reading, Readings
  <2>2. \A r \in Unmoved : <<r>> \in Seq(Unmoved)
    OBVIOUS
  <2>3. <<>> \in Seq(Unmoved) /\ PTP(HOME_POSE) \in Unmoved /\ PTP(DETECT_POSE) \in Unmoved
    BY DEF Unmoved
  <2>4. todo' \in Seq(Unmoved)
    BY <1>3, <2>1, <2>2, <2>3 DEF Leave, Handler
  <2> QED
    BY <1>3, <2>1, <2>4 DEF Leave, sensor, service, contract, vacuum
<1>4. CASE ReadLeft \/ ReadRight
  <2>1. sum' = Zero
    BY <1>4 DEF ReadLeft, ReadRight, Zero
  <2>2. state' \in {"READ_SENSOR", "JUDGE_STATE"}
    BY <1>4 DEF ReadLeft, ReadRight, Sensing, Reading, Readings
  <2> QED
    BY <1>4, <2>1, <2>2 DEF ReadLeft, ReadRight, sensor, service, contract, vacuum
<1>5. CASE Judge
  <2>1. Detect(0, 0, N) = "OVERLAP"
    BY StrategyConstants DEF Detect, OVERLAP_THRESHOLD
  <2>2. disc_state' = "OVERLAP"
    BY <1>5, <2>1 DEF Judge, Zero
  <2>3. state' = "SKIP" /\ todo' = <<>>
    BY <1>5, <2>2 DEF Judge, AfterJudge
  <2> QED
    BY <1>5, <2>3 DEF Judge, sensor, service, contract, vacuum
<1>6. ~LeaveAdjust
  BY DEF LeaveAdjust
<1> QED
  BY <1>1, <1>2, <1>3, <1>4, <1>5, <1>6 DEF MainThread

\* Nothing that is asked is an output.
LEMMA DarkService ==
  ASSUME Darkness, Serve
  PROVE  Darkness'
<1>1. UNCHANGED <<strategy, sensor>> /\ ServiceStep
  BY DEF Serve
<1>2. \A r \in Unmoved : r.mode = "PTP"
  BY DEF Unmoved, PTP, Motion
<1>3. requests' \in Seq(Unmoved) /\ serving' \in Unmoved \cup {NoRequest}
  <2>1. CASE Dispatch
    BY <2>1, HeadTailProperties DEF Dispatch, Accept, Darkness
  <2>2. CASE Execute \/ Reply \/ Move \/ Halt \/ Die
    BY <2>2 DEF Execute, Write, Prepare, Trigger, Poll, Reply, Answer, Move, Perform, Halt, TakeSetting,
       Die, Crash, Darkness
  <2> QED
    BY <1>1, <2>1, <2>2 DEF ServiceStep
<1>4. vacuum' = vacuum
  BY <1>1, <1>2 DEF ServiceStep, Dispatch, Accept, Execute, Write, Prepare, Trigger, Poll, Reply, Answer,
     Move, Perform, Halt, TakeSetting, Die, Crash, Darkness, vacuum
<1> QED
  BY <1>1, <1>3, <1>4 DEF Darkness, strategy, sensor

\* A node that has never been given a distance in range picks nothing, whatever the threads
\* interleave and whatever the service does with a call.
THEOREM NeverPicksBlind == Spec => []BlindNeverPicks
<1> DEFINE Inv == Sensing /\ (Blind => Darkness)
<1>1. Init => Inv
  <2> SUFFICES ASSUME Init PROVE Darkness
    BY SensingInit
  <2>1. \A r \in Unmoved : <<r>> \in Seq(Unmoved)
    OBVIOUS
  <2>2. todo \in Seq(Unmoved)
    BY <2>1 DEF Init, Handler, Unmoved
  <2> QED
    BY <2>2, ServiceConstants DEF Init, SensorInit, ServiceInit, Darkness, Zero, vacuum
<1>2. Inv /\ [Next]_vars => Inv'
  <2> SUFFICES ASSUME Sensing, Blind => Darkness, [Next]_vars PROVE Inv'
    OBVIOUS
  <2>1. Sensing'
    <3>1. Sensing /\ UNCHANGED vars => Sensing'
      BY DEF Sensing, SenseTypes, SensorTypeOK, Reading, vars, strategy, sensor
    <3> QED
      BY <3>1, SensingStep
  <2>2. ASSUME Blind' PROVE Darkness'
    <3>1. Blind
      <4>1. source' = source
        BY DEF Next, MainThread, Send, Returned, Leave, Settle, ReadLeft, ReadRight, Judge, LeaveAdjust,
           Callback, CallbackLeft, CallbackRight, SensorStep, SerialThread, StoreLeft, StoreRight,
           SerialError, Timer, LoadLeft, PublishSensor, FakePublish, Change, Serve, sensor, vars
      <4>2. seen' = TRUE \/ seen' = seen
        <5>1. CASE Sensed
          BY <5>1, SensedSees
        <5>2. CASE UNCHANGED seen
          BY <5>2
        <5>3. Sensed \/ UNCHANGED seen
          BY DEF Next, MainThread, Send, Returned, Leave, Settle, ReadLeft, ReadRight, Judge, LeaveAdjust,
             Callback, CallbackLeft, CallbackRight, Change, Serve, history, vars
        <5> QED
          BY <5>1, <5>2, <5>3
      <4> QED
        BY <2>2, <4>1, <4>2 DEF Blind
    <3>2. CASE UNCHANGED vars
      BY <3>1, <3>2 DEF Darkness, vars, strategy, sensor, service, contract, vacuum
    <3> QED
      BY <2>2, <3>1, <3>2, DarkSensor, DarkThread, DarkService DEF Next
  <2> QED
    BY <2>1, <2>2
<1>3. Inv => BlindNeverPicks
  BY DEF BlindNeverPicks, Blind, Darkness
<1> QED
  BY <1>1, <1>2, <1>3, PTL DEF Spec

-----------------------------------------------------------------------------
(* A disc is judged as it was seen *)

\* A product grows with its second factor.
LEMMA TimesGrows ==
  ASSUME NEW n \in Nat, NEW x \in Int, NEW y \in Int, x <= y
  PROVE  n * x <= n * y
  OBVIOUS

\* And strictly, unless the first is 0.
LEMMA TimesStrict ==
  ASSUME NEW n \in Nat \ {0}, NEW x \in Int, NEW y \in Int, x < y
  PROVE  n * x < n * y
  OBVIOUS

\* A sum of k distances and one more is at least k + 1 times the smallest.
LEMMA OneMoreAbove ==
  ASSUME NEW k \in Nat, NEW a \in Int, NEW b \in Int, NEW s \in Int, k * a <= s
  PROVE  \E m \in {a, b} : (k + 1) * m <= s + b
<1>1. CASE a <= b
  <2>1. (k + 1) * a = k * a + a /\ k * a \in Int
    OBVIOUS
  <2> QED
    BY <1>1, <2>1
<1>2. CASE b < a
  <2>1. (k + 1) * b = k * b + b /\ k * b \in Int /\ k * a \in Int
    OBVIOUS
  <2>2. k * b <= k * a
    BY <1>2, TimesGrows
  <2> QED
    BY <2>1, <2>2
<1> QED
  BY <1>1, <1>2

\* And at most k + 1 times the largest.
LEMMA OneMoreBelow ==
  ASSUME NEW k \in Nat, NEW a \in Int, NEW b \in Int, NEW s \in Int, s <= k * a
  PROVE  \E m \in {a, b} : s + b <= (k + 1) * m
<1>1. CASE b <= a
  <2>1. (k + 1) * a = k * a + a /\ k * a \in Int
    OBVIOUS
  <2> QED
    BY <1>1, <2>1
<1>2. CASE a < b
  <2>1. (k + 1) * b = k * b + b /\ k * b \in Int /\ k * a \in Int
    OBVIOUS
  <2>2. k * a <= k * b
    BY <1>2, TimesGrows
  <2> QED
    BY <2>1, <2>2
<1> QED
  BY <1>1, <1>2

\* The mean of k distances that sum up to s lies between two of D.
Between(k, s, D) == \E a, b \in D : k * a <= s /\ s <= k * b

\* One distance of D more.
LEMMA BetweenMore ==
  ASSUME NEW D, D \subseteq Int, NEW k \in Nat, NEW s \in Int, Between(k, s, D), NEW c \in D
  PROVE  Between(k + 1, s + c, D)
<1>1. PICK a, b \in D : k * a <= s /\ s <= k * b
  BY DEF Between
<1>2. a \in Int /\ b \in Int /\ c \in Int
  OBVIOUS
<1>3. PICK l \in {a, c} : (k + 1) * l <= s + c
  BY <1>1, <1>2, OneMoreAbove
<1>4. PICK u \in {b, c} : s + c <= (k + 1) * u
  BY <1>1, <1>2, OneMoreBelow
<1>5. l \in D /\ u \in D
  OBVIOUS
<1> QED
  BY <1>3, <1>4, <1>5 DEF Between

\* A larger set has the distances of a smaller one.
LEMMA BetweenWider ==
  ASSUME NEW D, NEW E, D \subseteq E, NEW k, NEW s, Between(k, s, D)
  PROVE  Between(k, s, E)
  BY DEF Between

\* The means are judged as distances are.
LEMMA DetectMeans ==
  ASSUME NEW l \in Int, NEW r \in Int, NEW n \in Nat \ {0}
  PROVE  Detect(n * l, n * r, n) = Detect(l, r, 1)
<1>1. \A x, y \in Int : n * x < n * y <=> x < y
  <2> SUFFICES ASSUME NEW x \in Int, NEW y \in Int PROVE n * x < n * y <=> x < y
    OBVIOUS
  <2>1. n * x \in Int /\ n * y \in Int
    OBVIOUS
  <2>2. x < y => n * x < n * y
    BY TimesStrict
  <2>3. y <= x => n * y <= n * x
    BY TimesGrows
  <2> QED
    BY <2>1, <2>2, <2>3
<1>2. OVERLAP_THRESHOLD * n = n * 20 /\ 2 * n * STD_TILT_MAX = n * 50 /\ 2 * n * STD_TILT_MIN = n * 26
      /\ OVERLAP_THRESHOLD * 1 = 20 /\ 2 * 1 * STD_TILT_MAX = 50 /\ 2 * 1 * STD_TILT_MIN = 26
  BY DEF OVERLAP_THRESHOLD, STD_TILT_MAX, STD_TILT_MIN
<1>3. Distance(n * l, n * r) = n * Distance(l, r) /\ Distance(l, r) \in Int
  <2>1. n * l \in Int /\ n * r \in Int /\ n * (r - l) = n * r - n * l /\ n * (l - r) = n * l - n * r
    OBVIOUS
  <2>2. n * l < n * r <=> l < r
    BY <1>1
  <2> QED
    BY <2>1, <2>2 DEF Distance
<1>4. /\ n * l < OVERLAP_THRESHOLD * n <=> l < OVERLAP_THRESHOLD * 1
      /\ n * r < OVERLAP_THRESHOLD * n <=> r < OVERLAP_THRESHOLD * 1
      /\ n * r > n * l <=> r > l
      /\ Distance(n * l, n * r) > 2 * n * STD_TILT_MAX <=> Distance(l, r) > 2 * 1 * STD_TILT_MAX
      /\ Distance(n * l, n * r) > 2 * n * STD_TILT_MIN <=> Distance(l, r) > 2 * 1 * STD_TILT_MIN
  <2>1. \A x, y \in Int : n * y > n * x <=> y > x
    <3>1. \A x, y \in Int : (y > x <=> x < y) /\ (n * y > n * x <=> n * x < n * y)
      OBVIOUS
    <3> QED
      BY <1>1, <3>1
  <2>2. Distance(l, r) \in Int /\ 20 \in Int /\ 26 \in Int /\ 50 \in Int
    BY <1>3
  <2> QED
    BY <1>1, <1>2, <1>3, <2>1, <2>2
<1> QED
  BY <1>4 DEF Detect, Side

Lefts  == {v.left : v \in since}
Rights == {v.right : v \in since}
Halves == [left : Lefts, right : Rights]

\* Every distance on its way from the serial thread to the readings has been sensed since
\* the arm settled, though the two of a pair need not belong together.
Fresh ==
  /\ left_dist \in Lefts /\ right_dist \in Rights
  /\ topic \in Seq(Halves) /\ (callback = <<>> \/ \E m \in Halves : callback = <<m>>)
  /\ publishing = "half" => msg.left \in Lefts
  /\ dist \in Halves
  /\ serial = "half" => line \in Halves
  /\ serial # "dead" /\ Plausible(view) => view \in since

\* The left distance has been read once more than the right when it is the right's turn.
LeftReads == IF pc = "right" THEN reads + 1 ELSE reads

Judging ==
  source = "sensor" =>
    /\ pc \in {"left", "right"} =>
         Fresh /\ Between(LeftReads, sum.left, Lefts) /\ Between(reads, sum.right, Rights)
    /\ state \notin {"HOME_MOVE", "DETECT_MOVE", "READ_SENSOR"} =>
         Between(N, sum.left, Lefts) /\ Between(N, sum.right, Rights)
    /\ disc_state # "UNKNOWN" => disc_state = Detect(sum.left, sum.right, N)

\* A pair that was sensed has its halves among those.
LEMMA SensedHalves ==
  ASSUME SenseTypes
  PROVE  /\ since \subseteq Halves
         /\ Lefts \subseteq Int /\ Rights \subseteq Int
  BY DEF SenseTypes, Lefts, Rights, Halves, Pair

\* Where nothing more is sensed the halves stay.
LEMMA SameHalves ==
  ASSUME UNCHANGED since
  PROVE  UNCHANGED <<Lefts, Rights, Halves>>
  BY DEF Lefts, Rights, Halves

\* The serial thread and the timer pass on what is sensed.
LEMMA FreshSensor ==
  ASSUME Fresh, Sensing, source = "sensor", SensorStep, Sensed
  PROVE  Fresh' /\ UNCHANGED since
<1>0. UNCHANGED since /\ UNCHANGED <<left_dist, right_dist, callback>>
  <2>1. UNCHANGED strategy /\ UNCHANGED since
    BY Zenon DEF Sensed
  <2> QED
    BY <2>1 DEF strategy
<1>1. UNCHANGED <<Lefts, Rights, Halves>> /\ since \subseteq Halves
  BY <1>0, SameHalves, SensedHalves DEF Sensing
<1>2. \A m \in Halves : m.left \in Lefts /\ m.right \in Rights
  BY DEF Halves
<1>3. \A d \in Halves, l \in Lefts, r \in Rights :
        [d EXCEPT !.left = l] \in Halves /\ [d EXCEPT !.right = r] \in Halves
  BY DEF Halves
<1>4. CASE StoreLeft
  <2>1. view \in since /\ line' = view /\ dist' = [dist EXCEPT !.left = view.left]
    BY <1>4 DEF StoreLeft, Fresh
  <2>2. view \in Halves /\ view.left \in Lefts
    BY <1>1, <1>2, <2>1
  <2>3. dist' \in Halves
    BY <1>3, <2>1, <2>2 DEF Fresh
  <2>4. UNCHANGED <<publishing, msg, topic, view>> /\ serial = "read" /\ serial' = "half"
    BY <1>4 DEF StoreLeft
  <2> QED
    BY <1>0, <1>1, <2>1, <2>2, <2>3, <2>4 DEF Fresh
<1>5. CASE StoreRight
  <2>1. line.right \in Rights /\ dist' = [dist EXCEPT !.right = line.right]
    BY <1>2, <1>5 DEF StoreRight, Fresh
  <2>2. dist' \in Halves
    BY <1>3, <2>1 DEF Fresh
  <2>3. UNCHANGED <<publishing, msg, topic, view, line>> /\ serial = "half" /\ serial' = "read"
    BY <1>5 DEF StoreRight
  <2> QED
    BY <1>0, <1>1, <2>2, <2>3 DEF Fresh
<1>6. CASE SerialError
  <2>1. UNCHANGED <<publishing, msg, topic, view, line, dist>> /\ serial' = "dead"
    BY <1>6 DEF SerialError
  <2> QED
    BY <1>0, <1>1, <2>1 DEF Fresh
<1>7. CASE LoadLeft
  <2>1. UNCHANGED <<topic, view, line, dist, serial>> /\ msg' = [msg EXCEPT !.left = dist.left]
    BY <1>7 DEF LoadLeft
  <2>2. msg'.left \in Lefts
    BY <1>2, <2>1 DEF Fresh, Sensing, SenseTypes, SensorTypeOK, Pair
  <2> QED
    BY <1>0, <1>1, <2>1, <2>2 DEF Fresh
<1>8. CASE PublishSensor
  <2>1. UNCHANGED <<view, line, dist, serial>> /\ msg' = [msg EXCEPT !.right = dist.right]
        /\ publishing = "half" /\ publishing' = "idle"
        /\ topic' = KeepLast(Append(topic, msg'))
    BY <1>8 DEF PublishSensor
  <2>2. msg.left \in Lefts /\ dist.right \in Rights
    BY <1>2, <2>1 DEF Fresh
  <2>3. msg' \in Halves
    BY <2>1, <2>2 DEF Sensing, SenseTypes, SensorTypeOK, Pair, Halves
  <2>4. topic' \in Seq(Halves)
    BY <2>1, <2>3, KeepLastTyped DEF Fresh
  <2> QED
    BY <1>0, <1>1, <2>1, <2>4 DEF Fresh
<1>9. ~FakePublish
  BY DEF FakePublish, FAKE_VALUES
<1> QED
  BY <1>0, <1>4, <1>5, <1>6, <1>7, <1>8, <1>9 DEF SensorStep, SerialThread, Timer

\* The subscriber takes it half by half, and what is new is sensed.
LEMMA FreshWatching ==
  ASSUME Fresh, Sensing, Callback \/ Change
  PROVE  Fresh' /\ Lefts \subseteq Lefts' /\ Rights \subseteq Rights'
<1>1. \A m \in Halves : m.left \in Lefts /\ m.right \in Rights
  BY DEF Halves
<1>2. CASE CallbackLeft
  <2>1. Head(topic) \in Halves /\ Tail(topic) \in Seq(Halves)
    BY <1>2, HeadTailProperties DEF CallbackLeft, Fresh
  <2>2. UNCHANGED <<Lefts, Rights, Halves>>
    BY <1>2, SameHalves DEF CallbackLeft, history
  <2>3. /\ callback' = <<Head(topic)>> /\ left_dist' = Head(topic).left /\ topic' = Tail(topic)
        /\ UNCHANGED <<right_dist, view, serial, line, dist, publishing, msg, since>>
    BY <1>2 DEF CallbackLeft, history
  <2>4. left_dist' \in Lefts
    BY <1>1, <2>1, <2>3
  <2> QED
    BY <2>1, <2>2, <2>3, <2>4 DEF Fresh
<1>3. CASE CallbackRight
  <2>1. Head(callback) \in Halves
    BY <1>3 DEF CallbackRight, Fresh
  <2>2. UNCHANGED <<Lefts, Rights, Halves>>
    BY <1>3, SameHalves DEF CallbackRight, history
  <2>3. /\ callback' = <<>> /\ right_dist' = Head(callback).right
        /\ UNCHANGED <<left_dist, view, serial, line, dist, publishing, msg, topic, since>>
    BY <1>3 DEF CallbackRight, history, sensor
  <2>4. right_dist' \in Rights
    BY <1>1, <2>1, <2>3
  <2> QED
    BY <2>2, <2>3, <2>4 DEF Fresh
<1>4. CASE Change
  <2>1. since' = since \cup {view'} /\ view' \in since'
    BY <1>4 DEF Change
  <2>2. Lefts \subseteq Lefts' /\ Rights \subseteq Rights'
    BY <2>1 DEF Lefts, Rights
  <2>3. Halves \subseteq Halves'
    BY <2>2 DEF Halves
  <2>4. topic \in Seq(Halves')
    <3>1. topic \in Seq(Halves)
      BY DEF Fresh
    <3>2. ASSUME NEW H, Halves \subseteq H PROVE topic \in Seq(H)
      <4> HIDE DEF Halves
      <4> QED
        BY <3>1, <3>2, SeqWider
    <3> HIDE DEF Halves
    <3> QED
      BY <2>3, <3>2, Zenon
  <2>5. UNCHANGED <<left_dist, right_dist, callback, serial, line, dist, publishing, msg, topic>>
    BY <1>4 DEF Change, strategy, sensor
  <2> QED
    BY <2>1, <2>2, <2>3, <2>4, <2>5 DEF Fresh
<1> QED
  BY <1>2, <1>3, <1>4 DEF Callback

\* When the arm has settled, all that is older has been replaced.
LEMMA FreshSettled ==
  ASSUME Sensing, source = "sensor", Settle
  PROVE  /\ Fresh'
         /\ Between(0, 0, Lefts') /\ Between(0, 0, Rights')
<1>1. Latest = dist
  BY DEF Latest, FAKE_VALUES
<1>2. since' = {dist} /\ dist \in Pair
  BY <1>1 DEF Settle, Sensing, SenseTypes, SensorTypeOK
<1>3. Lefts' = {dist.left} /\ Rights' = {dist.right}
  BY <1>2 DEF Lefts, Rights
<1>4. Halves' = [left : {dist.left}, right : {dist.right}] /\ dist \in Halves'
  BY <1>2, <1>3 DEF Halves, Pair
<1>5. /\ left_dist = dist.left /\ right_dist = dist.right
      /\ \A m \in {topic[i] : i \in DOMAIN topic} \cup {callback[i] : i \in DOMAIN callback} : m = dist
      /\ publishing = "half" => msg.left = dist.left
      /\ dist = line
      /\ serial # "dead" /\ Plausible(view) => line = view
  BY <1>1 DEF Settle, Settled
<1>6. UNCHANGED <<left_dist, right_dist, callback, sensor, view>>
  BY DEF Settle
<1>7. topic \in Seq(Halves')
  <2>1. topic \in Seq(Pair)
    BY DEF Sensing, SenseTypes, SensorTypeOK
  <2>2. \A i \in 1 .. Len(topic) : topic[i] = dist
    BY <1>5, <2>1
  <2>3. ASSUME NEW H, dist \in H PROVE topic \in Seq(H)
    <3>1. \A i \in 1 .. Len(topic) : topic[i] \in H
      BY <2>2, <2>3
    <3> QED
      BY <2>1, <3>1
  <2> HIDE DEF Halves
  <2> QED
    BY <1>4, <2>3
<1>8. callback = <<>> \/ \E m \in Halves' : callback = <<m>>
  <2>1. ASSUME NEW m \in Pair, callback = <<m>> PROVE m = dist
    <3>1. 1 \in DOMAIN callback /\ callback[1] = m
      BY <2>1
    <3> QED
      BY <1>5, <3>1
  <2> QED
    BY <1>4, <2>1 DEF Sensing, SenseTypes
<1>9. Fresh'
  BY <1>2, <1>3, <1>4, <1>5, <1>6, <1>7, <1>8 DEF Fresh, sensor
<1>10. Between(0, 0, Lefts') /\ Between(0, 0, Rights')
  BY <1>2, <1>3 DEF Between, Pair
<1> QED
  BY <1>9, <1>10

\* The judgement follows the readings.
LEMMA JudgingStep ==
  ASSUME Sensing, Judging, Next
  PROVE  Judging'
<1>0. source' = source
  BY DEF Next, MainThread, Send, Returned, Leave, Settle, ReadLeft, ReadRight, Judge, LeaveAdjust,
     Callback, CallbackLeft, CallbackRight, SensorStep, SerialThread, StoreLeft, StoreRight,
     SerialError, Timer, LoadLeft, PublishSensor, FakePublish, Change, Serve, sensor
<1> SUFFICES ASSUME source = "sensor" PROVE Judging'
  BY <1>0 DEF Judging
<1>1. Lefts \subseteq Int /\ Rights \subseteq Int
  BY SensedHalves DEF Sensing
<1>2. /\ pc \in {"left", "right"} =>
           Fresh /\ Between(LeftReads, sum.left, Lefts) /\ Between(reads, sum.right, Rights)
      /\ state \notin {"HOME_MOVE", "DETECT_MOVE", "READ_SENSOR"} =>
           Between(N, sum.left, Lefts) /\ Between(N, sum.right, Rights)
      /\ disc_state # "UNKNOWN" => disc_state = Detect(sum.left, sum.right, N)
  BY DEF Judging
<1>3. Sensing'
  BY SensingStep
<1>4. CASE Send \/ Returned \/ Leave \/ LeaveAdjust
  <2>1. UNCHANGED <<sum, disc_state, since, Lefts, Rights>>
    BY <1>4, SameHalves DEF Send, Returned, Leave, LeaveAdjust, history
  <2>2. pc' \notin {"left", "right"}
    BY <1>4 DEF Send, Returned, Leave, LeaveAdjust
  <2>3. state' \notin {"HOME_MOVE", "DETECT_MOVE", "READ_SENSOR"} =>
          state \notin {"HOME_MOVE", "DETECT_MOVE", "READ_SENSOR"}
    BY <1>4 DEF Send, Returned, Leave, LeaveAdjust, Following, Sensing, Reading, Readings
  <2> QED
    BY <1>2, <2>1, <2>2, <2>3 DEF Judging
<1>5. CASE Settle
  <2>1. reads = 0 /\ sum = Zero /\ state = "READ_SENSOR" /\ disc_state = "UNKNOWN"
    BY <1>5 DEF Settle, Sensing, Reading, Readings
  <2>2. pc' = "left" /\ UNCHANGED <<reads, sum, state, disc_state>>
    BY <1>5 DEF Settle
  <2>3. LeftReads' = 0 /\ sum'.left = 0 /\ sum'.right = 0
    BY <2>1, <2>2 DEF LeftReads, Zero
  <2> QED
    BY <1>5, <2>1, <2>2, <2>3, FreshSettled DEF Judging
<1>6. CASE ReadLeft
  <2>1. /\ pc = "left" /\ pc' = "right" /\ sum'.left = sum.left + left_dist /\ sum'.right = sum.right
        /\ state = "READ_SENSOR" /\ disc_state = "UNKNOWN"
        /\ UNCHANGED <<reads, state, disc_state, left_dist, right_dist, callback, sensor, view, since>>
    BY <1>6 DEF ReadLeft, Sensing, Reading, Readings, SenseTypes, Pair, history
  <2>2. reads \in Nat /\ sum.left \in Int
    BY <2>1, StrategyConstants DEF Sensing, SenseTypes, Reading, Pair
  <2>3. LeftReads = reads /\ LeftReads' = reads + 1
    BY <2>1 DEF LeftReads
  <2>4. UNCHANGED <<Lefts, Rights, Halves>>
    BY <2>1, SameHalves
  <2>5. Fresh'
    BY <1>2, <2>1, <2>4 DEF Fresh, sensor
  <2>6. Between(reads + 1, sum.left + left_dist, Lefts)
    BY <1>1, <1>2, <2>1, <2>2, <2>3, BetweenMore DEF Fresh
  <2> QED
    BY <1>2, <2>1, <2>3, <2>4, <2>5, <2>6 DEF Judging
<1>7. CASE ReadRight
  <2>1. /\ pc = "right" /\ sum'.left = sum.left /\ sum'.right = sum.right + right_dist
        /\ state = "READ_SENSOR" /\ disc_state = "UNKNOWN" /\ reads' = reads + 1
        /\ UNCHANGED <<disc_state, left_dist, right_dist, callback, sensor, view, since>>
        /\ \/ pc' = "left" /\ UNCHANGED state
           \/ pc' = "call" /\ state' = "JUDGE_STATE" /\ ~MoreReadings(reads')
    BY <1>7 DEF ReadRight, Sensing, Reading, Readings, SenseTypes, Pair, history
  <2>2. reads \in 0 .. N - 1 /\ reads \in Nat /\ sum.right \in Int
    BY <2>1, StrategyConstants DEF Sensing, SenseTypes, Reading, Pair
  <2>3. LeftReads = reads + 1 /\ (pc' = "left" => LeftReads' = reads + 1)
    BY <2>1 DEF LeftReads
  <2>4. UNCHANGED <<Lefts, Rights, Halves>>
    BY <2>1, SameHalves
  <2>5. Fresh'
    BY <1>2, <2>1, <2>4 DEF Fresh, sensor
  <2>6. Between(reads + 1, sum.right + right_dist, Rights)
    BY <1>1, <1>2, <2>1, <2>2, BetweenMore DEF Fresh
  <2>7. Between(reads + 1, sum.left, Lefts)
    BY <1>2, <2>1, <2>3
  <2>8. ~MoreReadings(reads') => reads + 1 = N
    BY <2>1, <2>2, StrategyConstants DEF MoreReadings
  <2> QED
    BY <2>1, <2>3, <2>4, <2>5, <2>6, <2>7, <2>8 DEF Judging
<1>8. CASE Judge
  <2>1. /\ state = "JUDGE_STATE" /\ pc' = "call" /\ disc_state' = Detect(sum.left, sum.right, N)
        /\ UNCHANGED <<sum, since, Lefts, Rights>>
    BY <1>8, SameHalves DEF Judge, history
  <2> QED
    BY <1>2, <2>1 DEF Judging
<1>9. CASE Watching /\ (Callback \/ (SensorStep /\ Sensed) \/ Change)
  <2>1. state \in {"HOME_MOVE", "DETECT_MOVE", "READ_SENSOR"} /\ UNCHANGED <<pc, state, reads, sum, disc_state>>
    <3>1. CASE Callback \/ Change
      BY <1>9, <3>1 DEF Watching, Callback, CallbackLeft, CallbackRight, Change, strategy
    <3>2. CASE SensorStep /\ Sensed
      BY <1>9, <3>2, SensedKeeps DEF Watching, strategy
    <3> QED
      BY <1>9, <3>1, <3>2
  <2>2. disc_state = "UNKNOWN" /\ LeftReads' = LeftReads
    BY <2>1 DEF Sensing, Reading, LeftReads
  <2>3. ASSUME pc \in {"left", "right"}
        PROVE  Fresh' /\ Between(LeftReads, sum.left, Lefts)' /\ Between(reads, sum.right, Rights)'
    <3>1. Fresh' /\ Lefts \subseteq Lefts' /\ Rights \subseteq Rights'
      <4>1. CASE Callback \/ Change
        BY <1>2, <2>3, <4>1, FreshWatching
      <4>2. CASE SensorStep /\ Sensed
        <5>1. Fresh' /\ UNCHANGED since
          BY <1>2, <2>3, <4>2, FreshSensor
        <5> QED
          BY <5>1, SameHalves
      <4> QED
        BY <1>9, <4>1, <4>2
    <3> QED
      BY <1>2, <2>1, <2>2, <2>3, <3>1, BetweenWider
  <2> QED
    BY <2>1, <2>2, <2>3 DEF Judging
<1>10. CASE Serve
  <2>1. UNCHANGED <<strategy, sensor, view, since, Lefts, Rights, Halves>>
    BY <1>10, SameHalves DEF Serve, history
  <2>2. Fresh => Fresh'
    BY <2>1 DEF Fresh, strategy, sensor
  <2>3. LeftReads' = LeftReads
    BY <2>1 DEF LeftReads, strategy
  <2> QED
    BY <1>2, <2>1, <2>2, <2>3 DEF Judging, strategy
<1> QED
  BY <1>4, <1>5, <1>6, <1>7, <1>8, <1>9, <1>10 DEF Next, MainThread

\* A disc is judged by what was sensed from the settling on: the means lie between distances of
\* that time, and a disc that lies still is judged as it lies, although the pairs are stored,
\* loaded, published and taken half by half by threads of two nodes.
THEOREM SeenThenJudged == Spec => []JudgedAsSeen
<1>1. Init => Sensing /\ Judging
  <2>1. Init => Judging
    BY DEF Init, Judging
  <2> QED
    BY <2>1, SensingInit
<1>2. Sensing /\ Judging /\ [Next]_vars => (Sensing /\ Judging)'
  <2>1. Sensing /\ UNCHANGED vars => Sensing'
    BY DEF Sensing, SenseTypes, SensorTypeOK, Reading, vars, strategy, sensor
  <2>2. Judging /\ UNCHANGED vars => Judging'
    BY SameHalves DEF Judging, Fresh, LeftReads, vars, strategy, sensor
  <2> QED
    BY <2>1, <2>2, SensingStep, JudgingStep
<1>3. Sensing /\ Judging => JudgedAsSeen
  <2> SUFFICES ASSUME Sensing, Judging, disc_state # "UNKNOWN", source = "sensor"
               PROVE  /\ \E v, w \in since : N * v.left <= sum.left /\ sum.left <= N * w.left
                      /\ \E v, w \in since : N * v.right <= sum.right /\ sum.right <= N * w.right
                      /\ since = {view} => disc_state = Detect(view.left, view.right, 1)
    BY DEF JudgedAsSeen
  <2>1. /\ Between(N, sum.left, Lefts) /\ Between(N, sum.right, Rights)
        /\ disc_state = Detect(sum.left, sum.right, N)
    BY DEF Judging, Sensing, Reading
  <2>2. \E v, w \in since : N * v.left <= sum.left /\ sum.left <= N * w.left
    BY <2>1 DEF Between, Lefts
  <2>3. \E v, w \in since : N * v.right <= sum.right /\ sum.right <= N * w.right
    BY <2>1 DEF Between, Rights
  <2>4. ASSUME since = {view} PROVE disc_state = Detect(view.left, view.right, 1)
    <3>1. view \in Pair /\ sum \in Pair
      BY <2>4 DEF Sensing, SenseTypes
    <3>2. view.left \in Int /\ view.right \in Int /\ sum.left \in Int /\ sum.right \in Int
      BY <3>1 DEF Pair
    <3>3. N * view.left \in Int /\ N * view.right \in Int
      BY <3>2, StrategyConstants
    <3>4. sum.left = N * view.left /\ sum.right = N * view.right
      BY <2>2, <2>3, <2>4, <3>2, <3>3
    <3> QED
      BY <2>1, <3>2, <3>4, DetectMeans, StrategyConstants
  <2> QED
    BY <2>2, <2>3, <2>4
<1> QED
  BY <1>1, <1>2, <1>3, PTL DEF Spec
=============================================================================
