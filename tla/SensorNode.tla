------------------------------ MODULE SensorNode ------------------------------
(***************************************************************************)
(* The disc sensor: sensor_node of hiwin_example/senior_node.py, whose       *)
(* serial thread stores what an Arduino prints and whose timer publishes the *)
(* stored pair on /disc_sensor, and fake_sensor_node of fake_senior.py,      *)
(* which publishes a constant pair.  Distances are in millimetres.           *)
(***************************************************************************)
EXTENDS Integers, Sequences

CONSTANTS
  Views,       \* the pairs of distances the two sensors may measure
  Sources,     \* who may publish: "sensor", "none" or a SIMULATE_STATE
  QueueDepth   \* history depth of the topic

Pair == [left : Int, right : Int]

FAKE_VALUES ==
  [NORMAL       |-> [left |-> 40, right |-> 50],
   TILT         |-> [left |-> 40, right |-> 65],
   OFFSET_LEFT  |-> [left |-> 30, right |-> 80],
   OFFSET_RIGHT |-> [left |-> 80, right |-> 30],
   OVERLAP      |-> [left |-> 15, right |-> 17]]

ASSUME SensorConstants ==
  /\ Views \subseteq Pair
  /\ Sources \subseteq DOMAIN FAKE_VALUES \cup {"sensor", "none"}
  /\ QueueDepth \in Nat \ {0}

VARIABLES
  source,      \* which node publishes
  view,        \* what the sensors measure now
  serial,      \* the serial thread: "read", "half" (left stored), "dead"
  line,        \* the pair it is storing
  dist,        \* left_dist and right_dist of sensor_node
  publishing,  \* the timer callback: "idle" or "half" (left loaded)
  msg,         \* the message it is filling
  topic        \* messages the subscriber has not taken, keep-last

sensor == <<source, serial, line, dist, publishing, msg, topic>>

Zero == [left |-> 0, right |-> 0]

SensorInit ==
  /\ source \in Sources
  /\ view \in Views
  /\ serial = "read"
  /\ line = Zero
  /\ dist = Zero
  /\ publishing = "idle"
  /\ msg = Zero
  /\ topic = <<>>

\* Mutant: the filter of the serial thread is gone.
AnyLine(v) == TRUE

\* The serial thread skips lines with a distance out of range.
InRange == 1 .. 8999
Plausible(v) == v.left \in InRange /\ v.right \in InRange

\* A line is read, parsed and filtered; the two stores are two steps.
StoreLeft ==
  /\ source = "sensor" /\ serial = "read"
  /\ Plausible(view)
  /\ line' = view
  /\ dist' = [dist EXCEPT !.left = view.left]
  /\ serial' = "half"
  /\ UNCHANGED <<source, view, publishing, msg, topic>>

StoreRight ==
  /\ serial = "half"
  /\ dist' = [dist EXCEPT !.right = line.right]
  /\ serial' = "read"
  /\ UNCHANGED <<source, view, line, publishing, msg, topic>>

\* Any exception but a parse error ends the thread; the timer goes on.
SerialError ==
  /\ source = "sensor" /\ serial = "read"
  /\ serial' = "dead"
  /\ UNCHANGED <<source, view, line, dist, publishing, msg, topic>>

KeepLast(s) == IF Len(s) > QueueDepth THEN Tail(s) ELSE s

LoadLeft ==
  /\ source = "sensor" /\ publishing = "idle"
  /\ msg' = [msg EXCEPT !.left = dist.left]
  /\ publishing' = "half"
  /\ UNCHANGED <<source, view, serial, line, dist, topic>>

PublishSensor ==
  /\ publishing = "half"
  /\ msg' = [msg EXCEPT !.right = dist.right]
  /\ topic' = KeepLast(Append(topic, msg'))
  /\ publishing' = "idle"
  /\ UNCHANGED <<source, view, serial, line, dist>>

FakePublish ==
  /\ source \in DOMAIN FAKE_VALUES
  /\ topic' = KeepLast(Append(topic, FAKE_VALUES[source]))
  /\ UNCHANGED <<source, view, serial, line, dist, publishing, msg>>

SerialThread == StoreLeft \/ StoreRight
Timer == LoadLeft \/ PublishSensor \/ FakePublish
SensorStep == SerialThread \/ SerialError \/ Timer

SensorTypeOK ==
  /\ source \in Sources
  /\ view \in Views
  /\ serial \in {"read", "half", "dead"}
  /\ line \in Pair
  /\ dist \in Pair
  /\ publishing \in {"idle", "half"}
  /\ msg \in Pair
  /\ topic \in Seq(Pair)
=============================================================================
