----------------------------- MODULE HiwinServer -----------------------------
(***************************************************************************)
(* The ROS 2 service node hiwinlibmodbus_server: its single-threaded request *)
(* handler, the detached DO_Timer threads, the mutex and the fields they     *)
(* share, the driver calls of hiwin_libmodbus.cpp register write by register *)
(* write, and the robot controller those writes command.                     *)
(*                                                                         *)
(* A driver call reaches the controller as ModbusClient says of a context    *)
(* without error recovery: after one late answer every read of the           *)
(* connection fails while writes still take effect; on a lost connection     *)
(* nothing takes effect.                                                     *)
(***************************************************************************)
EXTENDS Integers, Sequences

CONSTANTS
  Timers,       \* bound: the DO_Timer threads that may exist at once
  Requests,     \* the requests clients may send
  Pins,         \* digital outputs
  MaxRequests,  \* bound: requests served
  MaxFaults,    \* bound: refused, late or lost calls
  Handler, Free \* model values: the executor thread, an unlocked mutex

Motions   == {"PTP", "LINE", "CIRC", "HOME", "JOG"}
Settings  == {"SET_BASE", "SET_TOOL"}
Modes     == Motions \cup Settings \cup
             {"EXCITE", "DO", "CHECK", "CLOSE", "WAITING", "READ_DI",
              "MOTION_STOP", "FLANGE_MOVE"}

\* cmd_mode; holding; cmd_type is 0 or 1, move_dir is an axis; output pin,
\* command and do_timer # 0.
Request == [mode : Modes, holding : BOOLEAN, valid : BOOLEAN,
            pin : Pins, on : {0, 1}, timer : BOOLEAN]

ASSUME ConstantsOK ==
  /\ Requests \subseteq Request
  /\ Pins \subseteq Nat \ {0}
  /\ MaxRequests \in Nat
  /\ MaxFaults \in Nat
  /\ Handler \notin Timers
  /\ Free \notin Timers \cup {Handler}

Threads == Timers \cup {Handler}

VARIABLES
  \* the node
  pc,             \* where the handler is
  req, served,    \* the request in progress, how many were received
  tpc, tpin,      \* where each DO_Timer is and its output
  mutex,          \* its owner
  todo,           \* driver calls each thread still makes in this call
  digital_output, \* written by timers outside the mutex
  arm_state,      \* 1 is IDLE; 0 after a failed read
  command,        \* goal vector: the request it came from, 0 before any
  current_pos,    \* pose vector: the request it was read for, -1 when torn
  running,        \* rclcpp::ok()
  \* the driver and its connection
  ctx,            \* "none", "open", "freed"
  link,           \* "up", "desync", "lost"
  faults,
  \* the controller
  table, fresh,   \* command registers from 201; written since the last trigger
  inbox, motions, \* triggered commands not taken yet; motions to perform
  out,            \* digital outputs
  \* history
  misused,        \* a freed context was used
  rerun,          \* the polling of this hold has triggered a command
  clash           \* digital_output was overwritten or zeroed with a pin unserved

node == <<pc, req, served, tpc, tpin, mutex, digital_output, arm_state,
          command, running, clash>>
controller == <<table, fresh, inbox, out, rerun>>
vars == <<node, todo, current_pos, ctx, link, faults, controller, motions, misused>>

-----------------------------------------------------------------------------
(* The driver: what a call writes *)

NoCommand == [name |-> "NONE", goal |-> 0, for |-> 0]
Command   == [name : Modes \cup {"NONE"}, goal : Int, for : Nat]

\* Mutant: the trigger is written twice.
WriteTriggersTwice(name, goal, n) ==
  <<[kind |-> "table", cmd |-> [name |-> name, goal |-> goal, for |-> n]],
    [kind |-> "trigger"], [kind |-> "trigger"]>>

Write(name, goal, n) ==
  <<[kind |-> "table", cmd |-> [name |-> name, goal |-> goal, for |-> n]],
    [kind |-> "trigger"]>>

\* Mutant: the coil is written with its Modbus value 0xFF00.
SetOutputRaw(pin, on) ==
  <<[kind |-> "bit", pin |-> pin, on |-> on * 65280], [kind |-> "trigger"]>>

\* DO writes the coil and then the trigger register as well.
SetOutput(pin, on) == <<[kind |-> "bit", pin |-> pin, on |-> on], [kind |-> "trigger"]>>

Startup == <<[kind |-> "connect"],
             [kind |-> "table", cmd |-> [name |-> "MOTION_STOP", goal |-> 0, for |-> 0]],
             [kind |-> "excite"]>>

\* The vector overload of SET_TOOL calls SET_BASE.
ToolOverload == "SET_BASE"

\* Mutant: the vector command is never filled.
GoalNotCopied(r, n) == command

\* PTP and LINE keep the goal of an earlier request when cmd_type is unknown.
GoalOf(r, n) == IF r.mode \in Settings \/ r.valid THEN n ELSE command

\* The driver calls of one request, in order.  FLANGE_MOVE reads the pose before
\* it moves; the table then takes its goal from current_pos.
Script(r, n) ==
  CASE r.mode \in {"PTP", "LINE"}           -> Write(r.mode, GoalOf(r, n), n)
    [] r.mode \in {"CIRC", "HOME", "JOG", "MOTION_STOP", "SET_BASE"}
                                            -> Write(r.mode, n, n)
    [] r.mode = "SET_TOOL"                  -> Write(ToolOverload, n, n)
    [] r.mode = "EXCITE"                    -> <<[kind |-> "excite"]>>
    [] r.mode = "DO"                        -> SetOutput(r.pin, r.on)
    [] r.mode = "CHECK"                     -> <<[kind |-> "pose"]>>
    [] r.mode = "READ_DI"                   -> <<[kind |-> "input"]>>
    [] r.mode = "CLOSE"                     -> <<[kind |-> "free"], [kind |-> "close"]>>
    [] r.mode = "FLANGE_MOVE" /\ r.valid    -> <<[kind |-> "pose"]>> \o Write("LINE", -1, n)
    [] OTHER                                -> <<>>

-----------------------------------------------------------------------------
(* The controller's side of one call *)

Fault == faults < MaxFaults /\ faults' = faults + 1

\* A write of 1 to register 200 runs the command in the table.  Whether it runs
\* again a command already triggered is the controller's choice.
Trigger ==
  /\ \/ /\ table.name # "NONE"
        /\ inbox' = Append(inbox, table)
        /\ rerun' = (rerun \/ pc = "polldo")
     \/ /\ table.name = "NONE" \/ ~fresh
        /\ UNCHANGED <<inbox, rerun>>
  /\ fresh' = FALSE
  /\ UNCHANGED <<table, out>>

Effect(o) ==
  CASE o.kind = "table"   -> /\ table' = IF o.cmd.goal = -1
                                           THEN [o.cmd EXCEPT !.goal = current_pos]
                                           ELSE o.cmd
                             /\ fresh' = TRUE
                             /\ UNCHANGED <<inbox, out, rerun>>
    [] o.kind = "bit"     -> /\ out' = [out EXCEPT ![o.pin] = o.on]
                             /\ UNCHANGED <<table, fresh, inbox, rerun>>
    [] o.kind = "trigger" -> Trigger
    [] OTHER              -> UNCHANGED controller

\* One Modbus request; the caller ignores its return value.
Call(o) ==
  /\ ctx = "open"
  /\ \/ link \in {"up", "desync"} /\ Effect(o) /\ UNCHANGED <<link, faults>>
     \/ link = "lost" /\ UNCHANGED <<controller, link, faults>>
     \/ /\ link = "up"
        /\ Fault
        /\ \/ link' = "up" /\ UNCHANGED controller
           \/ link' = "desync" /\ Effect(o)
           \/ link' = "lost" /\ (Effect(o) \/ UNCHANGED controller)
  /\ UNCHANGED <<ctx, misused>>

\* Undefined behaviour: the call uses a freed context.  It reaches no controller
\* and leaves anything in what it reads, or the process crashes (Crash).
Misuse ==
  /\ ctx = "freed"
  /\ misused' = TRUE
  /\ UNCHANGED <<ctx, link, faults, controller>>

Answered == ctx = "open" /\ link = "up" /\ faults' = faults

Connect ==
  /\ \/ ctx' = "open" /\ UNCHANGED faults
     \/ ctx' = "freed" /\ Fault
  /\ UNCHANGED <<link, controller, misused>>

\* Twelve reads of one register each; a failed one leaves its predecessor's value.
\* The pose is torn when one fails or the arm is moving.
ReadPose ==
  IF Answered /\ motions = <<>> THEN current_pos' = served ELSE current_pos' = -1

DriverStep(th) ==
  /\ pc # "exit"
  /\ todo[th] # <<>>
  /\ LET o == Head(todo[th]) IN
       \/ o.kind = "connect" /\ Connect /\ UNCHANGED current_pos
       \/ /\ o.kind = "free"
          /\ ctx' = "freed"
          /\ misused' = (misused \/ ctx = "freed")
          /\ UNCHANGED <<link, faults, controller, current_pos>>
       \/ o.kind = "close" /\ (Misuse \/ Call(o)) /\ UNCHANGED current_pos
       \/ o.kind = "pose" /\ (Misuse \/ Call(o)) /\ ReadPose
       \/ /\ o.kind \in {"table", "bit", "trigger", "excite", "input"}
          /\ Misuse \/ Call(o)
          /\ UNCHANGED current_pos
  /\ todo' = [todo EXCEPT ![th] = Tail(@)]
  /\ UNCHANGED <<node, motions>>

driver == <<ctx, link, faults, controller, misused>>

-----------------------------------------------------------------------------
(* The request handler *)

Init ==
  /\ pc = "boot" /\ req \in Requests /\ served = 0
  /\ tpc = [t \in Timers |-> "off"] /\ tpin = [t \in Timers |-> 0]
  /\ mutex = Free
  /\ todo = [th \in Threads |-> IF th = Handler THEN Startup ELSE <<>>]
  /\ digital_output = 0 /\ arm_state = 0 /\ command = 0 /\ current_pos = -1
  /\ running = TRUE
  /\ ctx = "none" /\ link = "up" /\ faults = 0
  /\ table = NoCommand /\ fresh = FALSE /\ inbox = <<>> /\ motions = <<>>
  /\ out = [p \in Pins |-> 0]
  /\ misused = FALSE /\ rerun = FALSE /\ clash = FALSE

\* main has connected, whatever came of it, initialised the registers and spins.
Spin ==
  /\ pc = "boot"
  /\ todo[Handler] = <<>>
  /\ pc' = "idle"
  /\ UNCHANGED <<req, served, tpc, tpin, mutex, digital_output, arm_state, command,
                 running, clash, todo, current_pos, driver, motions>>

\* The executor dispatches a request; the handler takes the mutex first.
Receive(r) ==
  /\ pc = "idle" /\ running /\ mutex = Free
  /\ served < MaxRequests
  /\ r.mode = "DO" /\ r.timer => \E t \in Timers : tpc[t] = "off"
  /\ pc' = "exec"
  /\ req' = r
  /\ served' = served + 1
  /\ mutex' = Handler
  /\ command' = IF r.mode \in {"PTP", "LINE"} \cup Settings THEN GoalOf(r, served + 1)
                                                            ELSE command
  /\ todo' = [todo EXCEPT ![Handler] = Script(r, served + 1)]
  /\ rerun' = FALSE
  /\ UNCHANGED <<tpc, tpin, digital_output, arm_state, running, clash, current_pos,
                 ctx, link, faults, table, fresh, inbox, out, misused, motions>>

Holding == req.holding \/ req.mode = "WAITING"

\* The command's calls are made: DO starts its timer, CLOSE shuts ROS down.
\* The statements "request->holding == ..." change nothing.
Dispatched ==
  /\ pc = "exec" /\ todo[Handler] = <<>>
  /\ IF req.mode = "DO" /\ req.timer
       THEN \E t \in Timers :
              /\ tpc[t] = "off"
              /\ tpc' = [tpc EXCEPT ![t] = "sleep"]
              /\ tpin' = [tpin EXCEPT ![t] = req.pin]
       ELSE UNCHANGED <<tpc, tpin>>
  /\ running' = (running /\ req.mode # "CLOSE")
  /\ pc' = IF Holding THEN "sleep" ELSE "read"
  /\ UNCHANGED <<req, served, mutex, digital_output, arm_state, command, clash,
                 todo, current_pos, driver, motions>>

\* 100 ms pass: the controller has taken what was triggered before.
Slept ==
  /\ pc = "sleep"
  /\ inbox = <<>>
  /\ pc' = "poll"
  /\ UNCHANGED <<req, served, tpc, tpin, mutex, digital_output, arm_state, command,
                 running, clash, todo, current_pos, driver, motions>>

\* Mutant: a failed read leaves arm_state as it was.
ReadArmStateKeeps ==
  /\ Misuse \/ Call([kind |-> "input"])
  /\ arm_state' = IF ~Answered THEN arm_state ELSE IF motions = <<>> THEN 1 ELSE 2

\* The register buffer starts as zeros and a failed read leaves it so.
ReadArmState ==
  /\ Misuse \/ Call([kind |-> "input"])
  /\ IF ctx = "freed"
       THEN arm_state' \in 0 .. 2
       ELSE arm_state' = IF ~Answered THEN 0 ELSE IF motions = <<>> THEN 1 ELSE 2

Poll ==
  /\ pc = "poll"
  /\ ReadArmState
  /\ pc' = "pollout"
  /\ UNCHANGED <<req, served, tpc, tpin, mutex, digital_output, command, running,
                 clash, todo, current_pos, motions>>

\* Mutant: the output is forgotten without being switched off.
PollOutputZeroes ==
  /\ pc = "pollout"
  /\ pc' = "check"
  /\ digital_output' = 0
  /\ UNCHANGED <<req, served, tpc, tpin, mutex, arm_state, command, running, clash,
                 todo, current_pos, driver, motions>>

\* digital_output is tested and passed on without a timer being kept from it.
PollOutput ==
  /\ pc = "pollout"
  /\ IF digital_output # 0
       THEN /\ pc' = "polldo"
            /\ todo' = [todo EXCEPT ![Handler] = SetOutput(digital_output, 0)]
       ELSE /\ pc' = "check"
            /\ UNCHANGED todo
  /\ UNCHANGED <<req, served, tpc, tpin, mutex, digital_output, arm_state, command,
                 running, clash, current_pos, driver, motions>>

\* Zeroing digital_output forgets a pin stored while the output was being written.
Unserved(th) == \E t \in Timers \ {th} : tpc[t] = "lock" /\ digital_output = tpin[t] /\ out[tpin[t]] = 1

PollOutputDone ==
  /\ pc = "polldo" /\ todo[Handler] = <<>>
  /\ digital_output' = 0
  /\ clash' = (clash \/ Unserved(Handler))
  /\ pc' = "check"
  /\ UNCHANGED <<req, served, tpc, tpin, mutex, arm_state, command, running, todo,
                 current_pos, driver, motions>>

\* Leaving the handler releases the mutex; after a shutdown the process exits.
Reply ==
  /\ pc' = IF running THEN "idle" ELSE "exit"
  /\ mutex' = Free

\* Mutant: the hold waits for state 3, HOLD.
CheckHold ==
  /\ pc = "check"
  /\ IF arm_state = 3 THEN Reply ELSE pc' = "poll" /\ UNCHANGED mutex
  /\ UNCHANGED <<req, served, tpc, tpin, digital_output, arm_state, command, running,
                 clash, todo, current_pos, driver, motions>>

Check ==
  /\ pc = "check"
  /\ IF arm_state = 1 THEN Reply ELSE pc' = "poll" /\ UNCHANGED mutex
  /\ UNCHANGED <<req, served, tpc, tpin, digital_output, arm_state, command, running,
                 clash, todo, current_pos, driver, motions>>

ReadAndReply ==
  /\ pc = "read"
  /\ ReadArmState
  /\ Reply
  /\ UNCHANGED <<req, served, tpc, tpin, digital_output, command, running, clash,
                 todo, current_pos, motions>>

Crash ==
  /\ misused /\ pc # "exit"
  /\ pc' = "exit"
  /\ UNCHANGED <<req, served, tpc, tpin, mutex, digital_output, arm_state, command,
                 running, clash, todo, current_pos, driver, motions>>

HandlerStep ==
  \/ DriverStep(Handler) \/ Spin \/ Dispatched \/ Slept
  \/ Poll \/ PollOutput \/ PollOutputDone \/ Check \/ ReadAndReply

-----------------------------------------------------------------------------
(* DO_Timer *)

handler == <<pc, req, served, arm_state, command, running>>

\* The delay has passed; the store to digital_output is not under the mutex.
Store(t) ==
  /\ tpc[t] = "sleep"
  /\ clash' = (clash \/ digital_output # 0)
  /\ digital_output' = tpin[t]
  /\ tpc' = [tpc EXCEPT ![t] = "lock"]
  /\ UNCHANGED <<handler, tpin, mutex, todo, current_pos, driver, motions>>

\* Mutant: the timer does not wait for the mutex.
LockAnyway(t) ==
  /\ tpc[t] = "lock"
  /\ mutex' = t
  /\ tpc' = [tpc EXCEPT ![t] = "locked"]
  /\ UNCHANGED <<handler, tpin, digital_output, clash, todo, current_pos, driver, motions>>

Lock(t) ==
  /\ tpc[t] = "lock" /\ mutex = Free
  /\ mutex' = t
  /\ tpc' = [tpc EXCEPT ![t] = "locked"]
  /\ UNCHANGED <<handler, tpin, digital_output, clash, todo, current_pos, driver, motions>>

SwitchOff(t) ==
  /\ tpc[t] = "locked" /\ digital_output # 0
  /\ todo' = [todo EXCEPT ![t] = SetOutput(digital_output, 0)]
  /\ tpc' = [tpc EXCEPT ![t] = "do"]
  /\ UNCHANGED <<handler, tpin, mutex, digital_output, clash, current_pos, driver, motions>>

Unlock(t) ==
  /\ \/ tpc[t] = "locked" /\ digital_output = 0 /\ UNCHANGED <<digital_output, clash>>
     \/ /\ tpc[t] = "do" /\ todo[t] = <<>>
        /\ digital_output' = 0
        /\ clash' = (clash \/ Unserved(t))
  /\ mutex' = Free
  /\ tpc' = [tpc EXCEPT ![t] = "off"]
  /\ UNCHANGED <<handler, tpin, todo, current_pos, driver, motions>>

TimerStep(t) ==
  /\ pc # "exit"
  /\ DriverStep(t) \/ Store(t) \/ Lock(t) \/ SwitchOff(t) \/ Unlock(t)

-----------------------------------------------------------------------------
(* The robot *)

Take ==
  /\ inbox # <<>>
  /\ LET c == Head(inbox) IN
       motions' = CASE c.name \in Motions       -> Append(motions, c)
                    [] c.name = "MOTION_STOP"   -> <<>>
                    [] OTHER                    -> motions
  /\ inbox' = Tail(inbox)
  /\ UNCHANGED <<node, todo, current_pos, ctx, link, faults, table, fresh, out, rerun,
                 misused>>

\* A motion ends by itself, except a jog.
Finish ==
  /\ motions # <<>> /\ Head(motions).name # "JOG"
  /\ motions' = Tail(motions)
  /\ UNCHANGED <<node, todo, current_pos, driver>>

Next ==
  \/ \E r \in Requests : Receive(r)
  \/ HandlerStep
  \/ \E t \in Timers : TimerStep(t)
  \/ Crash
  \/ Take
  \/ Finish

Fairness ==
  /\ WF_vars(HandlerStep)
  /\ \A t \in Timers : WF_vars(TimerStep(t))
  /\ WF_vars(Take)
  /\ WF_vars(Finish)

Spec == Init /\ [][Next]_vars
FairSpec == Spec /\ Fairness

-----------------------------------------------------------------------------
(* Properties *)

Step == [kind : {"connect", "excite", "trigger", "input", "pose", "free", "close"}]
        \cup [kind : {"table"}, cmd : Command]
        \cup [kind : {"bit"}, pin : Pins, on : {0, 1}]

TypeOK ==
  /\ pc \in {"boot", "idle", "exec", "sleep", "poll", "pollout", "polldo", "check",
             "read", "exit"}
  /\ req \in Requests
  /\ served \in 0 .. MaxRequests
  /\ tpc \in [Timers -> {"off", "sleep", "lock", "locked", "do"}]
  /\ tpin \in [Timers -> Pins \cup {0}]
  /\ mutex \in Threads \cup {Free}
  /\ todo \in [Threads -> Seq(Step)]
  /\ digital_output \in Pins \cup {0}
  /\ arm_state \in 0 .. 2
  /\ command \in 0 .. MaxRequests
  /\ current_pos \in -1 .. MaxRequests
  /\ running \in BOOLEAN
  /\ ctx \in {"none", "open", "freed"}
  /\ link \in {"up", "desync", "lost"}
  /\ faults \in Nat
  /\ table \in Command
  /\ fresh \in BOOLEAN
  /\ inbox \in Seq(Command)
  /\ motions \in Seq(Command)
  /\ out \in [Pins -> {0, 1}]
  /\ misused \in BOOLEAN
  /\ rerun \in BOOLEAN
  /\ clash \in BOOLEAN

InDriver(th) == todo[th] # <<>> \/ (th = Handler /\ pc \in {"poll", "read"})

\* libmodbus contexts are not thread safe: the handler and the timers never make
\* calls of the driver at the same time, so no thread reads another's answer.
MutexProtectsContext ==
  \A th, u \in Threads : InDriver(th) /\ InDriver(u) => th = u

\* A held request is answered IDLE only when the robot has performed every command
\* triggered before, unless the hold loop itself, switching off a timed output,
\* triggered the command table again.  A failed read never ends the hold.
HeldMeansIdle ==
  pc = "check" /\ arm_state = 1 /\ ~rerun /\ ~misused => inbox = <<>> /\ motions = <<>>

\* When no call fails, every request's command reaches the robot in the order of
\* the requests, and once, unless a later request (a DO) triggered it again.
RunsOnce ==
  LET line == motions \o inbox IN
    faults = 0 => \A i, j \in DOMAIN line :
      i < j => \/ line[i].for < line[j].for
               \/ line[i] = line[j] /\ served > line[i].for

\* Every request is answered, unless a call failed, the context was freed, or a
\* jog, which only another request stops, keeps the hold loop polling.
Jogging == \E i \in DOMAIN motions : motions[i].name = "JOG"
AlwaysAnswers == pc = "exec" ~> (pc \in {"idle", "exit"} \/ Jogging \/ faults > 0 \/ misused)

\* A hold that polls a robot on a good connection ends, whatever becomes of the answer
\* to a read, if the connection is not lost: the node handles the errors of libmodbus.
HandlesErrors ==
  (pc = "poll" /\ ctx = "open" /\ link = "up") ~> (pc \in {"idle", "exit"} \/ link = "lost")

\* On a faultless line a timed output goes off after its time, unless two timers
\* met in digital_output.
TimedOff ==
  \A p \in Pins :
    (\E t \in Timers : tpc[t] = "lock" /\ tpin[t] = p)
      ~> (out[p] = 0 \/ clash \/ faults > 0 \/ pc = "exit")

\* No call uses a context that has been freed.
NoUseAfterFree == ~misused

\* The table that a SET_TOOL request leaves behind sets a tool.
ToolRequestSetsTool ==
  pc # "boot" /\ req.mode = "SET_TOOL" /\ table.for = served /\ served > 0
    => table.name = "SET_TOOL"

-----------------------------------------------------------------------------
(* The promise *)

\* The commands a request may write: its own goal, an earlier one if it names none,
\* for a FLANGE_MOVE any pose, which it reads first.
Writable(r, n) ==
  LET To(name, goals) == [name : {name}, goal : goals, for : {n}] IN
  CASE r.mode = "SET_TOOL"              -> To("SET_BASE", {n})
    [] r.mode \in {"PTP", "LINE"}       -> To(r.mode, IF r.valid THEN {n} ELSE 0 .. n)
    [] r.mode = "FLANGE_MOVE" /\ r.valid -> To("LINE", -1 .. n)
    [] r.mode \in {"CIRC", "HOME", "JOG", "MOTION_STOP", "SET_BASE"} -> To(r.mode, {n})
    [] OTHER                            -> {}

Nobody == [mode |-> "NONE", holding |-> FALSE, writes |-> {}, pin |-> 0, on |-> 0]

Serving ==
  CASE pc = "boot" -> [mode |-> "BOOT", holding |-> FALSE, writes |-> {Startup[2].cmd},
                       pin |-> 0, on |-> 0]
    [] pc = "idle" \/ (pc = "exit" /\ mutex # Handler) -> Nobody
    [] OTHER -> [mode |-> req.mode, holding |-> Holding, writes |-> Writable(req, served),
                 pin |-> req.pin, on |-> req.on]

Stage ==
  IF pc = "exit" THEN "dead"
  ELSE IF pc \notin {"boot", "exec"} \/ todo[Handler] = <<>> THEN "done"
  ELSE IF Head(todo[Handler]).kind = "trigger" THEN "trigger" ELSE "write"

Promise == INSTANCE ServiceContract WITH
  NoRequest <- Nobody,
  Faults <- {"refused", "late", "lost"},
  Timed <- \E r \in Requests : r.timer,
  serving <- Serving,
  stage <- Stage,
  moves <- motions \o inbox,
  link <- IF ctx = "freed" THEN "closed" ELSE link

\* Handler, timers, driver and controller do what the contract says, whatever
\* calls fail, and through start-up, CLOSE and a crash: a request writes its own
\* command, triggers it at most once, and is answered IDLE when nothing is left.
KeepsContract == Promise!Contract
=============================================================================
