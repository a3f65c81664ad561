# Hiwin arm over Modbus: a verification project

This directory holds TLA+ models of the programs that drive a Hiwin robot arm over Modbus/TCP from ROS 2, the TLC
runs that check them on small instances, and proofs, checked by TLAPS, of what holds for every instance.

Source paths below are relative to the repository; `driver` is `hiwin_libmodbus/src/hiwin_libmodbus.cpp`, `server` is
`hiwin_libmodbus/src/hiwinlibmodbus_server.cpp`, `strategy` is `hiwin_example/hiwin_example/test.py`.

To repeat everything: `tlc -config X.cfg Module` for each run of section 4, `tlapm X_proofs.tla` for each proof module.

## 1. The system

```
 programs (Python)                 --RobotCommand-->  hiwinmodbus_service (C++)  --libmodbus/TCP-->  robot controller
   test.py, first_version.py,                         handler thread, DO_Timer threads               registers, coils,
   long_version.py, io_test.py,                       one HiwinLibmodbus driver, one modbus_t        the arm
   three_points_..., hand_in_eye_...,
   Hiwin_service_client.py
        ^ /disc_sensor
 sensor_node / fake_sensor_node
```

### Inventory

| Part | State it keeps | Operations | What makes it correct | Modules |
|---|---|---|---|---|
| libmodbus TCP client (`libmodbus/src/modbus.c`, `modbus-tcp.c`) | socket, `t_id`, error recovery, timeouts | connect, build and send a request, receive with timeout, `check_confirmation`, flush | an answer is taken only for the request it belongs to; recovery brings the stream back in step | `ModbusClient` |
| driver `HiwinLibmodbus` | `ctx_`, `ret_`, `wrt_` | a command table from register 201 and a trigger at 200; coils; input registers 300.. and 400.. | a goal is written as commanded; a pose read is one the arm had; calls do not overlap | `HiwinServer`, `RegisterCodec` |
| `hiwinmodbus_service` (server) | `command`, `current_pos`, `arm_state`, `digital_output`, `mutex` | one handler for 16 modes, the hold loop, detached `DO_Timer` threads | each request's command runs once, in order; a held request is answered when the arm is idle; timed outputs go off; every request is answered | `HiwinServer` |
| what the service promises | the request in progress, the command table, what is left to move | accept, write, trigger, answer | the node keeps it, the programs rely on it | `ServiceContract`, `CommandService` |
| disc sensor (`senior_node.py`, `fake_senior.py`) | `left_dist`, `right_dist` | serial thread, publishing timer | what is published was measured | `SensorNode` |
| disc strategy (strategy) | `left_dist`, `right_dist`, state, `disc_state`, two adjusted poses | 16 states, subscription callback, `call_hiwin`, `call_io` | a disc is judged as it lies, carried with the vacuum on, released at the place point, never dragged; the run ends at home | `DiscStrategy` |
| cabinet strategies (`first_version.py`, `long_version.py`), vacuum trial (`io_test.py`) | state | state machines over the service | straight lines inside a cabinet; the object is held while it moves; a motion logged as done is done; the program ends | `FirstVersion`, `LongVersion`, `IoTest`, `Programs` |
| hand-in-eye calibration | `cali_pose_cnt` | move to each pose and broadcast it | every pose, as commanded, in order | `HandInEye`, `Programs` |
| service client (`Hiwin_service_client.py`) | none | one method per request | it fails on its first answer, the service does not | `ServiceClient`, `Programs` |
| three-point calibration | marker poses, recorded points, counters | search, average, touch, base | points lie where the probe touched, the base on the markers | `ThreePoints`, `BaseFrame` |
| pose conversion of the calibrations (`transformations.py`, `convert_arm_pose`) | none | Euler angles to quaternion and back, frames | a picture of markers is carried over undistorted | `Transformations`, `ConvertPose` |
| libmodbus server side, RTU backend, data helpers | | | | not modelled |
| older service `hiwinmodbus_server.cpp` and its client | | | | not modelled |
| ctypes wrapper, Python package, YOLO clients, launch and yaml files | | | | not modelled |

### How the parts interact, and what is hard

* **Nothing is checked.** The driver drops the result of every libmodbus call. A failed read leaves a register buffer
  of zeros; a failed write is taken for a done one. Error recovery is off, so the answer to a request that timed out
  stays in the stream, and every later read is one answer behind and is refused.
* **Threads.** The executor runs one handler at a time, under a mutex; each timed output starts a detached thread that
  stores its pin in `digital_output` *before* it takes the mutex. The hold loop reads, uses and zeroes the same field.
* **The trigger register.** A motion is two writes, the table and the trigger. `DO` writes the trigger as well, so a
  digital output may run the last command again; the hold loop itself switches outputs.
* **Nothing says where a motion starts.** A request names its goal. That a LINE inside a cabinet is a line along one
  axis, or that the vacuum is on while the arm moves, follows only from the order of requests of several handlers, some
  of which are not awaited.
* **Reading what moves.** A coordinate is two requests, a pose twelve, while the arm goes on. The touch of a probe is
  read while a LINE lowers it, the point recorded by a later request still. A pair of distances is stored, loaded and
  averaged one half after the other by three threads of two processes.
* **Time.** The hold loop starts polling after 100 ms; a request's answer has one second; the strategy lets the sensors
  settle for three seconds. The models keep the order these delays are there to produce and name it where they do.
* **Undefined behaviour.** `Modbus_Close` uses a freed context; after a failed connect every call does. A conversion of
  a negative double to `uint16_t` is undefined too.
* **Rounding.** The two words of a coordinate come of a sum and of a product of the same double, which are rounded
  differently; at multiples of 65.536 they need not belong together.
* **Waiting.** The programs wait for answers without a timeout, the service for an idle arm without a bound.

`PROJECT.json` lists these hazards at their lines with the properties that watch them.

## 2. Plan

| Step | Modules | State |
|---|---|---|
| 1 | `ModbusClient`: the stream and its recovery | checked, proved |
| 2 | `HiwinServer`: handler, timers, driver call by call, controller | checked, proved |
| 3 | `RegisterCodec`: what the registers hold of a coordinate | checked, proved |
| 4 | `ServiceContract`, and `HiwinServer` implementing it | checked, proved |
| 5 | `CommandService` over it; `SensorNode`, `DiscStrategy` | checked, proved |
| 6 | the other programs: `Programs` and its five handler modules | checked, proved |
| 7 | `ThreePoints`, `BaseFrame` | checked, proved |
| 8 | `Transformations`, `ConvertPose` | checked, proved |
| 9 | the order of commands: `RunsOnce` | proved for untimed requests |
| left | the library's server side; the older service | |

How the modules fit together:

```
 ModbusClient        HiwinServer ---implements--->  ServiceContract          RobotRequests
   (alone)             Promise == INSTANCE ...            |                   |   |
                                                          +-- CommandService--+   FirstVersion, LongVersion, IoTest,
 RegisterCodec                                                 |   |   |          HandInEye, ServiceClient
   (alone)                              SensorNode -- DiscStrategy |   Programs --INSTANCE--+
                                        BaseFrame -- ThreePoints --+
 Transformations -- ConvertPose
```

`HiwinServer` uses of a Modbus call what `ModbusClient_proofs` proves of it (section 3). `RegisterCodec` stands alone:
the other modules carry goals as identities or as coordinates. The programs never see `HiwinServer`: they run over
`CommandService`, whose service actions are those of the contract it is shown to keep.

Each `MC*` module EXTENDS its model and defines the small sets its `.cfg` files pick. Operators named *mutant* in the
comments are wrong versions of a definition; they are part of no specification and each breaks the property it is
listed with in `PROJECT.json`.

## 3. The models

### ModbusClient

One `modbus_t` used as client. `Request` is the start of any library call (a new transaction identifier, modulo
`TidMod`, which is 65536 in the code); `Send` and `SendFail` are `send_msg` with its two recoveries; `Confirm`,
`Timeout` and `ConnReset` are `_modbus_receive_msg` followed by `check_confirmation`; `Flush` is the flush both end in
when recovery is on. `Serve` and `Drop` are the other end: the controller answers requests in order, late if it likes,
and the connection may be lost. The *age* of a message is a history field, the number of requests built since the one
it belongs to; `acceptedAge` is that of the answer accepted last, so 0 means "its own".

Abstractions: a confirmation arrives in one segment, so its header is never there without its data; function codes
stand for whole requests (two requests of one function code differ only in their identifier); Windows branches and
debug output are left out.

### HiwinServer

Each thread's remaining libmodbus calls are a sequence `todo[th]`; `DriverStep` makes one. `Script` is the driver's
part of every handler branch. The handler is `Receive` (the whole branch up to its calls, with the goal it stores in
`command`), `Dispatched` (timer started, ROS shut down, hold or not), `Slept`, `Poll`, `PollOutput`, `PollOutputDone`,
`Check` (the hold loop, one shared access per step) and `ReadAndReply`. `Store`, `Lock`, `SwitchOff`, `Unlock` are
`DO_Timer`. The assignments that are comparisons (`request->holding == false`) change nothing, as in the code; the
vector overload of `SET_TOOL` sets a base, as in the code.

The line: `link = "desync"` is an open connection with an answer left behind. That every read of it then fails while
writes still take effect is not assumed lightly: it is `LeftoverStays` and `LeftoverBlocks` of `ModbusClient_proofs`
(up to the wrap of the identifier after 65536 requests, which this module leaves out).

The controller is external: it takes triggered commands in order, performs motions to their end except a jog, stops on
`MOTION_STOP`. Two choices of it are left open. A trigger without a new table may run the table again or not. A
trigger is taken within the 100 ms the handler sleeps: this is the guard of `Slept`, and the assumption behind the
sleep in the code.

Undefined behaviour: a call through a freed context reaches no controller, leaves any value in what it reads, or
crashes the process (`Crash`).

### ServiceContract, and the refinement

`ServiceContract` is the service with its threads, its mutex, its field `digital_output`, its polling and its handler's
program counter taken away: a request is accepted when none is in progress; its first call that acts writes one of the
commands it may write, or its output; its second triggers; a held request is answered only with the line in step and
nothing left to move. `Line` says what may become of any call; nobody is told. Timed outputs may switch off, and
trigger, at any moment (`TimedOutput`), which is as much as `DO_Timer` promises.

`HiwinServer` instantiates it WITH a refinement mapping: `Serving` is the request in progress (its `Writable` commands,
the start-up, or `Nobody`), `Stage` the kind of its next call, `moves` is `motions \o inbox`, and `link` is "closed"
when the context is freed. `KeepsContract` is the property that the node's steps are the contract's, or none of its. It is
checked in both configurations of the node, with failing calls, start-up, CLOSE and crash, and proved for all.

### CommandService

The contract after its start-up, with the queue of the executor (`Dispatch` takes requests in order), the arm, which
reaches a motion's goal when the motion ends (`Move`) or stays on its way when it is stopped (`Halt`), and what
`CHECK_POSE` shows (`Read`: a mixture of poses while the arm moves or the line fails). `Execute`, `Reply` and `Die` are
the contract's own actions.

### SensorNode and DiscStrategy

`SensorNode`: `StoreLeft`/`StoreRight` are the serial thread, `LoadLeft`/`PublishSensor` the timer callback,
`SerialError` the exception that ends the thread while the timer goes on; `FakePublish` is the fake node. Two
attribute accesses of a Python thread may be separated by those of another, whatever one interpreter would do.

`DiscStrategy`: the sixteen states of `_state_machine`. A state's handler is the sequence of requests it sends
(`Handler`) and the state it returns (`Following`, `AfterJudge`, `AfterSkip`); `Judge` and `LeaveAdjust` are the two
handlers that compute. `Send` is `call_hiwin`, which waits for its answer (`Returned`), or `call_io`, which does not.
`ReadLeft`/`ReadRight` average. A mean of N readings is kept as their sum, and numpy's deviation of two values is
half their distance. The poses keep X, Z and the angle of A4, what the strategy changes. Where the joint angles
JOINTS_NORMAL and JOINTS_TILT put the arm is the robot's kinematics: two constants. `call_hiwin` passes no timeout,
so its `None`, and the branches to SKIP that test it, are never reached; the model waits.

`Settled` is the only timing assumption: three seconds are sixty publications, so, if a node publishes, what was in
flight when the arm arrived has been replaced all the way to the strategy's fields. After it anything interleaves.
`Watching` stops the sensor after the judgement: the strategy reads the fields no more.

### Programs

The programs of one list of handlers share their thread, and so do their models: `FirstVersion`, `LongVersion`,
`IoTest`, `HandInEye` and `ServiceClient` say, for each state, what its handler sends and which state it returns
(a function of records, `Step(requests, next)`), with the poses of the source in thousandths; `Programs` runs one of
them over `CommandService`. A request is awaited (`call_hiwin`), sent and not awaited (`call_io`), or its result read
before it is there (the client: the exception ends `main`, with the request sent or still in its buffer). In
`first_version.py` the state after the lower board is assigned twice and the second assignment counts, as in the code.
In the hand-in-eye calibration the operator is taken to press the return key `input()` waits for.

### ThreePoints and BaseFrame

The search for two markers (`GET_CALI_POINT`: any picture may show one, both in either order, or none; the camera is
tilted and tried again), the closer looks whose first marker is averaged (`Look`, `Refine`), the point inserted beside
the origin (`Extend`), and for each point a descent (`Approach`), the input polled while the LINE lowers the probe
(`TouchPoll`), the pose recorded while the arm still moves, the stop (`Record`). Here the arm is a position with a
height: `Descend` lowers it while a LINE is performed, `ReadInput` is the input as the probe's contact and the line make it.
The pictures of a point are kept as their number and sum, which is what the mean takes of them. `BaseFrame` is
`get_vector`, unnormalised; the frame it makes is proved right-angled.

Between two positions of its way the arm shows no other (`OnItsWay`): `RegisterCodec` proves when a coordinate read in
two words is one of the way.

### Transformations and ConvertPose

`quaternion_from_euler` and `euler_from_matrix` in all 24 axis sequences, at multiples of a quarter turn, where sine,
cosine and arc tangent are exact (half angles need the root of two, kept as `a + b * sqrt(2)`). `Rotation` is
the reference: one rotation after another about the axes a sequence names. `ConvertPose` is `convert_arm_pose`, applied to
the two markers of a picture taken from a pose of the arm. The code converts degrees with 3.14 for pi (`Radians`, `Degrees`), so
the angles at which the code's sines are exact are not the arm's quarter turns but a little more, 90.046 degrees
(`QUARTER`): at such angles the model runs. What 3.14 does is thus in the model. It turns the whole picture about the
arm by 0.05 percent of the arm's angles, up to 0.09 degrees or 0.8 mm at half a metre, and so the place where a marker is
found is not claimed to be where it lies; what is claimed is that the picture is not distorted and that the angles
returned, which are converted by 3.14 too, mean the computed orientation.

### RegisterCodec

One coordinate, in half millionths of a unit (the driver keeps thousandths; a goal is a double), written as two 16-bit
registers by the code PTP, LIN, CIRC and SET_BASE repeat, and read back by the code getArmPose and getArmJoints
repeat, in two requests, while the arm goes on (`Arrive`). Integer division and remainder truncate as in C++;
conversions of negative doubles to `uint16_t`, undefined in C++, wrap as x86-64 and AArch64 builds do.

A decimal is seldom a double: the nearest one lies a hair below or above it, which an odd number of half millionths
stands for. The sum the low word is truncated from and the product the high word is truncated from may then be rounded
onto the thousandth or not (`Rounded`), each in its own way, except that the product, the larger number with the coarser
rounding, lands where the sum does. `WrittenAsCommanded` says what the registers hold in every case; which of the allowed
outcomes a given double has is left open. From nine times 65.536 on there are doubles for which the halves disagree:
589.824 is the first: it is written as 655.359 (`Hair`).

## 4. The runs

| Run | Question | Answer |
|---|---|---|
| `modbus` | Can an old answer pass for a new one, under each setting of error recovery, and does the stream come back in step? | Only one `TidMod` requests old or older. Without recovery, as the driver runs, one late answer stays for the life of the connection and no later request succeeds with its own; with both modes every request after the last fault ends with its own answer. |
| `server_motions` | Every mode: each request's command once and in order, always answered, and as the contract says? | Yes on a faultless line, a jog aside; whatever fails, the contract is kept. |
| `server_outputs` | Two timed outputs, a motion, a stop, CLOSE and a failing call: who is in the driver, is IDLE ever stale, does a timed output go off, is the contract kept? | One thread at a time; an IDLE that ends a hold is true unless the hold loop itself triggered a command; an output goes off unless two timers met in `digital_output` (`clash`) or a call failed; the contract is kept. |
| `server_late_answer` | Are libmodbus errors handled? | No: one late answer on a good connection and a held request never ends. Finding. |
| `server_close` | Is a freed context used? | Yes, by CLOSE. Finding. |
| `server_tool` | Does SET_TOOL set a tool? | No, it sets a base. Finding. |
| `codec` | Which coordinates are written as commanded, which read as they were? | All but those of `Lapse`, at and just below a negative multiple of 65.536, and of `Hair`, a rounding error nearer to zero than a multiple; a reading is torn only if the coordinate passed a multiple of 65.536 between its two words; the branch for a low word above 32767 changes nothing. |
| `codec_negative` | Is every negative coordinate written? | No: at multiples of -65.536 and just below a multiple, zero included, 65.536 too low. Finding. |
| `disc` | Do three threads tear, age or invent a pair that is judged? Is the disc carried safely however it lies and wherever the line fails? Does the strategy end? | From the settling on each mean lies between sensed distances; a sensor that never gave a distance in range picks nothing; the disc is carried with the vacuum on and let go at the place point, a LINE is vertical; the run ends at home, and ends unless the line fails. |
| `programs` | The same of the cabinets, the trial, the hand-in-eye calibration and the client: is a motion logged as complete complete, is a cabinet entered along a line, is the object held, are all poses broadcast, does every program end? | Yes, the first five with answers late or lost anywhere. Every program ends after its own CLOSE, unless a call came late or was lost, or the service died over the CLOSE and answered nobody (`Unanswered`); a failed client keeps nobody waiting. |
| `three_points` | Do the recorded points lie where the probe touched, does the base lie on the markers, does the search end? | Yes, unless a picture of one marker shows another first (`mistaken`); it ends unless a call comes late or is lost, the service dies over the CLOSE, or the probe misses a point. |
| `convert_pose` | Are the two rotations inverse to each other in every axis sequence, gimbal lock included, and is a picture carried over as a whole, though 3.14 stands for pi? | Yes, at all orientations by quarter turns: as far apart, as far from the arm, turned against each other as seen. |

### Bounds, and why they are enough

* `ModbusClient`: `TidMod` 3 for 65536, small enough for the identifier to come round within `MaxAge` 4; five
  faults, so that they fill the socket buffer (`SockBuf` 2) and hit the recovery of one another; two kinds of request.
  The proofs hold for all of them.
* `HiwinServer`: three requests, so one may be before and one after any other; two timers, which is where they meet;
  one fault, after which the line stays as the fault left it; one or two pins. `MaxRequests` and `MaxFaults` bound the
  run, `Timers` the live threads. The proofs hold for all of them.
* `RegisterCodec`: goals within a few thousandths of multiples of 65.536 and 32.768 of both signs, the doubles a hair off
  them, and arm steps across them. The proofs hold for all goals two words can hold.
* `DiscStrategy`: two readings instead of five, the least in which a reading can differ from another; one message in
  the topic instead of ten; the sensors' pair changes once, among three of which one is out of range. The pairs the fake
  node publishes are judged NORMAL (those named NORMAL and TILT), TILT (the two named OFFSET) and OVERLAP; the sensors' pairs
  bring OFFSET to either side, and a change of pair between two readings the rest. `MaxShifts` bounds the changes.
* `Programs` needs no bound: every program is finite, with all its states, its 22 calibration poses and its real coordinates.
  A late or a lost answer may come at any call.
* `ThreePoints`: one repeated try instead of fifty and two pictures instead of ten, so that there is one before the
  last and the last; two markers besides the one the code looks for first; the probe touches on the way or misses.
* `ConvertPose`: all 64 triples of quarter turns, every axis sequence, two places of the arm, three pictures of two markers, the second turned against the first or not. The proofs hold for all pictures and mountings.
* Calls of `Faults = {"late", "lost"}` in the programs' runs are those after which the line shows it. A *refused* call
  on a line that stays in step shows nothing: with it `DoneAsLogged` and `CarriedUnderVacuum` are false, as the hazards at
  driver:356 and driver:118 say. `HiwinServer` has refused calls, and keeps the contract with them.
* Deadlock is not checked where the program may stop: a program ends, a service exits or has served `MaxRequests`,
  the codec's two reads are over, and a client at its fault bound.

### Fairness

`ModbusClient`: the caller keeps calling, its thread runs, the controller serves what it received (Modbus/TCP is
request and answer). `HiwinServer`: the handler thread and each timer thread run (weak fairness: the kernel's
scheduler; a handler blocked on the mutex waits for a timer that makes two calls), the controller takes triggers and
motions end. No fairness is given to clients, faults or a crash. `DiscStrategy` and `Programs`: the program's
thread, its executor, the sensor's thread and timer, and the service; none for a change of the view, a serial error
or a fault of the line. `ThreePoints`: moreover the arm moves and stops however often its state is read (`Descend`, `MoveOn`):
the controller is a machine of its own.

## 5. What is proved

The assumptions are the ASSUMEs on the constants in the model modules, and those a theorem states.

* `ModbusClient_proofs`. `Typing`; `NoStaleAnswer` (`StaleOnlyAfterWrap`), `LeftoverStays`, `LeftoverBlocks`. The
  type invariant alone says nothing of identifiers. The strengthening says that every message's identifier and age
  add up to the current identifier modulo `TidMod`, that ages fall along the stream from the oldest answer to the
  newest request, and that only the request in progress has age 0. An accepted answer has the current identifier, so
  its age is a multiple of `TidMod`. For the last two theorems the invariant also counts the messages of a waiting client.
* `HiwinServer_proofs`. `MutualExclusion`: the owner of `mutex` is the handler exactly while it is between `Receive`
  and `Reply`, a timer exactly while it is locked or writing, and only an owner, or the start-up before any other
  thread exists, has calls left in `todo`. `HoldEndsIdle`: between the reading of IDLE and the answer nothing is
  triggered, unless the hold loop switches an output; the invariant adds that `inbox` stays empty from `Slept` on.
  `Typing` of the node, one lemma for each script of calls and each group of actions.
  `NodeKeepsContract`: the node implements `ServiceContract`. Typing, mutual exclusion and the
  hold are not enough, for the contract speaks of the request a call belongs to. `Flow` adds where the handler is in
  its request: what is left of the calls of a request is a remainder of the calls of that request (`Remainder`), of the
  start-up a remainder of the start-up, and of a timer or the hold loop nothing but switching outputs off
  (`OffCalls`); goals and poses belong to requests received; without timed requests there is no timer; the branch taken
  is the one the request asked for, and an IDLE that will be answered was read on a line in step. Then each step of the
  node is one of the contract's, or changes nothing of it: the handler's own steps (`SimHandler`), a request received
  (`SimReceive`), its calls (`SimExec`), the start-up's (`SimBoot`), switching off (`SimOff`), the robot's (`SimRobot`), the
  timers' (`SimTimer`). Before it stand the facts about lists they need.
  `RunsInOrder` (`RunsOnce`), if no request is timed: on a faultless line every command on its
  way is older than the table's or is the table's, already triggered (`Entries`); of two, the earlier is older, or they are
  one command triggered again by a later request (`Pairs`); and a handler about to write its table finds an
  older one there (`Pending`). With timed requests it does not hold as it stands, and no run states it: the switch-off
  of a timer or of the hold loop may run the command of the request in progress again.
* `CommandService_proofs`. What any program may rely on between two answers. `Leg` is one leg of the arm: it stood at
  `from` when the last answer came; an output may have been sent that nobody awaits (`Ahead`) or has been switched
  (`Behind`), and may have triggered the last motion to `from` once more (`Standing`); then the motion that is awaited is in the
  table (`Tabled`), triggered (`Triggered`), and, when it is answered, done, with the vacuum as it was told (`Quiet`).
  `LegStep`: every step of the service, late and lost answers included, keeps the leg; `LegMoves` and `LegSwitches`
  say when it moves the arm and switches the vacuum; `SendOutput`, `SendAwaited`, `AnsweredMotion`, `AnsweredPose` take a
  program from one leg to the next. `KindsStep` keeps the types of what the service holds.
* `DiscStrategy_proofs`. `Sensing` types the sensor's part and says when the main thread reads; `Course` says where each of the
  strategy's sixteen handlers is: the requests left are the rest of the handler's (`Script`), the poses the arm goes through
  are those of `Stops`, one for each request, and the request sent last is a `Leg` between two of them. `Route` proves that the
  stops of a handler end where those of the next begin, for every judgement. From `Course` follow `Typed` (`TypeOK`),
  `LiftedWithVacuum`, `ReleasedAtPlace`, `VerticalLines` and `HomeAtTheEnd` (`LiftsWithVacuum`, `ReleasesAtPlace`,
  `LinesAreVertical`, `EndsAtHome`). `NeverPicksBlind` (`BlindNeverPicks`) and `SeenThenJudged` (`JudgedAsSeen`) need no assumption:
  `Darkness` says that zeros are all the threads pass on until a distance in range is read; `Judging` that from the settling on
  every half in a field, a message or a callback, and every partial sum, lies among what was sensed since.
* `Programs_proofs`. `Typed` (`TypeOK`), without an assumption. For the rest, `At` gives for each state of each program the pose
  at which its handler finds the arm, how the vacuum is and whether that was told on this leg, and `Route` proves, handler by
  handler, that what the handler sends leads from the one to the next (`Routed`): a motion, an output, a look at the pose, or both.
  `Course` is then the same sentence for all five programs: between two handlers the arm is on the leg the table gives
  (`Between`), during one it is on its way (`Doing`), and the two that end otherwise, the calibration's `Modbus_Close` (`Closing`)
  and the client's unawaited future (`ClientCourse`), have a sentence of their own. From it follow `StraightInCabinets`,
  `HeldOnTheWay`, `LoggedWhenThere` and `EveryPoseBroadcast` (`EntersAlongALine`, `CarriedUnderVacuum`, `DoneAsLogged`,
  `BroadcastsEveryPose`).
* `RegisterCodec_proofs`. `ReadsAPosition`: a coordinate read in two words is the position at the first of the two
  reads unless a multiple of 65.536 was passed. `CorrectionNeverNeeded`: the encoders' correction of a low word is idle
  for every goal. `WritesTheGoal`: whichever way the sum and the product are rounded, the registers hold the goal to within a
  thousandth, but a goal in `Lapse` is written 65.536 too low and one in `Hair` may be written a word too far from zero. The
  assumption on `Goals` is that two words can hold them, less than 2147483.648 mm or degrees either side of zero. The proof
  shows that from zero up both words are those of a rounded thousandth (`PositiveWords`); that the low word of a negative goal is
  that of the rounded thousandth towards zero or of the one below, the latter never when the former is a multiple of 65536 and
  always just before one (`NegativeLow`); reads that back with the lowered high word (`NegativeRead`); and takes apart the cases
  in which sum and product are rounded alike (`RoundedAlike`) and not (`NegativeHalves`).
* `ThreePoints_proofs`. `Control` says in which states the program has two, three or only touched points, `Marked` that the points
  lie at markers (unless `mistaken`) and the inserted one 40 and 15 beside the first, `Lists` what each handler still has to
  send, `Queue` that all else was answered. `Course` follows the arm: on a `Leg` while a motion is awaited (`Resting`); after the
  LINE, which is not, anywhere between the point's upper and lower end (`Sinking`); and once the input is set not above the
  contact, for the arm only sinks (`Watched`), until `Record` keeps what it showed (`Recorded`). Hence `Typed` (`TypeOK`) and
  `TouchesRecorded` (`RecordsTheTouch`), for any markers, tries, pictures and contacts. `FrameIsRightAngled`, for any three
  points: the cross product is normal to both its arguments, and the triple product puts the second point on the near side of
  x. `BaseWhereTheMarkersAre` (`BaseOnMarkers`) joins the two: the three touches lie over the markers within 4 cm of height of
  one another, and so little cannot turn the x axis away from the extension's side, unless the markers stand nearly in line
  with it. Its hypothesis `OffTheExtension` says how nearly (2.7 degrees); the code does not ensure it, who lays the markers
  out does, and on the line itself `get_vector` divides by zero.

* `ConvertPose_proofs`. Any integers as quarter turns, in any of the 24 sequences. `HalfAngles`: the surds of a half angle
  multiply to the cosine and sine of the angle; `Terms`: so a product of two components of a quaternion multiplies
  angle by angle (`ThreeAxes`, and `TwoAxes` where the last axis is the first again). In the axes' own order every
  sequence has one of two matrices, `ThreeTurned` or `TwoTurned`, whichever way round the axes go (`Orders`). The
  product of the three rotations about the axes is that matrix (`TurnedEntries`, `RotationTurned`) and so is the matrix
  of the quaternion (`QuaternionTurned`), and a sequence has only one (`SameTurn`): `QuaternionsAreTheirAngles`
  (`QuaternionsTurnAlike`). `ThreeAnglesBack` and `TwoAnglesBack` read the angles from the matrix, with the middle angle
  off its lock and on it, where the third is set to 0: `AnglesMeanTheirMatrix` (`AnglesTurnBack`). A rotation's inverse is
  its transpose (`TurnsBack`), so it keeps lengths (`TurnKeepsSquares`, `CarriedApart`) and two orientations turned by it stay turned
  against each other as they were (`TurnedAlike`). It mirrors nothing, each entry is its own cofactor (`Proper`), and a
  product of such matrices is one (`ProperTimes`); hence every matrix the program computes is a rotation by three
  quarter turns (`ProperTurned`) and its angles are read back from it (`AnglesFound`). Together: `PicturesAreKept`
  (`FoundAsPictured`). Its assumptions: the arm stands at multiples of a metre, so that the conversion from
  millimetres is exact, at angles that are quarter turns to the code (multiples of `QUARTER`), and the markers and the
  camera's mounting are turned by quarter turns. At other angles sine and cosine are no longer exact, and the
  equalities hold of the code only up to rounding.

Where a theorem about the programs (`DiscStrategy`, `Programs`, `ThreePoints`) assumes `NothingUnseen`, it says that no call is refused on a line that stays in step
and that no output is timed. The first is what section 4 says of `Faults`: a refused trigger is a motion the arm skips and nobody
notices, and then these properties are false, as the hazards at driver:356 and driver:118 say. The second is a fact of the
programs: they call `DO` with no time. Late and lost answers, at any call, are covered. The other assumptions: the pin
of the vacuum is among `Pins` (`ServiceConstants`, `ProgramConstants`), and `Elsewhere`, the pose of an arm on its way, is no
pose a program commands (`NobodysPose`).

Only model-checked: liveness (`Resynchronises`, `AlwaysAnswers`, `TimedOff`, `Finishes`), which needs fairness and
ENABLED.

## 6. Observations and what is not modelled

Beside the findings of section 4, met while modelling and not run as findings:

* `fake_senior.py`:10-11 publishes the pairs it calls TILT and OFFSET; the strategy judges them NORMAL and TILT.
* strategy:258-260 comments and logs a shift of X by +30 mm for a disc to the left; the code subtracts 30.
* driver:330-337 writes some positive coordinates a hair below a multiple of 65.536 too high by it: 589.824, 720.896, 851.968 and
  983.04. `WrittenAsCommanded` names the case (`Hair`); the comment of the branch (driver:329) knows no exception.
* The hold loop's `DO` triggers the command table (driver:121), so a timed output may repeat a motion (`rerun`).
* A probe that touches nothing is polled for ever (`Missed`), and a marker seen in place of another moves the base (`mistaken`).

Not modelled:

* The library's server side: the robot's end is the vendor's; `Serve` of `ModbusClient` is what it does for the client. The RTU
  backend and `modbus-data.c` are not used by the driver.
* The older service `hiwinmodbus_server.cpp` and its client: the newer service, which every other program uses, has its
  modes, a mutex, timers, and a sleep before the hold loop. Without that sleep an arm that has not started is read IDLE at once;
  `Slept` is where `HiwinServer` says so.
* The ctypes wrapper, its Python package and `Hiwin_API_test.py`: forwarding, to C symbols that do not exist under those names.
* The YOLO clients (a package outside this repository), launch and configuration files.
* `transformations.py` beyond the two functions the programs call.

Inside the modelled parts: the text of logs; the parsing of serial lines (a line is a pair or is skipped; `nan`, which
the filter lets through, is listed as a hazard); velocities; orientation and the other coordinates of the disc strategy's poses;
the quaternion of `moveFlange`; the second tool and base fields of requests; the Euler angles of the base that is set
and the `nan` of three points on a line.
