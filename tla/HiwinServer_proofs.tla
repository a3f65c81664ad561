-------------------------- MODULE HiwinServer_proofs --------------------------
(* Proofs about HiwinServer for any number of timers, any requests and any      *)
(* number of failing calls: mutual exclusion, the hold, types, and at the end   *)
(* that every step of the node is a step of ServiceContract or none.           *)
EXTENDS HiwinServer, SequenceTheorems, TLAPS

-----------------------------------------------------------------------------
(* The inductive invariant of the mutex *)

NoTimers == \A t \in Timers : tpc[t] = "off"

Busy == {"exec", "sleep", "poll", "pollout", "polldo", "check", "read"}

Shape ==
  /\ DOMAIN todo = Threads
  /\ DOMAIN tpc = Timers

\* A timer past its Lock owns the mutex, and only there it makes calls.
TimerOwns ==
  \A t \in Timers : /\ tpc[t] \in {"locked", "do"} => mutex = t
                    /\ todo[t] # <<>> => tpc[t] = "do"

\* The handler owns the mutex from its first statement to its last; the calls of
\* main are made before any timer exists.
HandlerOwns ==
  /\ pc \in Busy => mutex = Handler
  /\ pc = "boot" => NoTimers
  /\ todo[Handler] # <<>> =>
       \/ pc \in {"exec", "polldo"}
       \/ pc = "boot"
       \/ pc = "exit" /\ (mutex = Handler \/ NoTimers)

Excl == Shape /\ TimerOwns /\ HandlerOwns

\* The handler, the timers and an unlocked mutex are different things.
LEMMA Distinct ==
  /\ Handler \in Threads /\ Handler \notin Timers
  /\ Handler # Free
  /\ \A t \in Timers : t \in Threads /\ t # Handler /\ t # Free
  BY ConstantsOK DEF Threads

\* The calls of main are made before any other thread exists.
LEMMA ExclInit == Init => Excl
  BY Distinct DEF Init, Excl, Shape, TimerOwns, HandlerOwns, NoTimers, Threads, Busy

\* A call of the driver takes one step off its thread's list and changes neither
\* the mutex nor where the threads are.
LEMMA ExclDriver ==
  ASSUME Excl, NEW th \in Threads, DriverStep(th)
  PROVE  Excl'
<1>1. /\ pc' = pc /\ tpc' = tpc /\ mutex' = mutex
      /\ todo[th] # <<>>
      /\ todo' = [todo EXCEPT ![th] = Tail(@)]
  BY DEF DriverStep, node
<1>2. /\ DOMAIN todo' = Threads
      /\ \A u \in Threads : todo'[u] # <<>> => todo[u] # <<>>
  BY <1>1 DEF Excl, Shape
<1>3. NoTimers' = NoTimers
  BY <1>1 DEF NoTimers
<1> QED
  BY <1>1, <1>2, <1>3, Distinct DEF Excl, Shape, TimerOwns, HandlerOwns

\* The handler takes the mutex first and leaves it last.
LEMMA ExclHandler ==
  ASSUME Excl,
         (\E r \in Requests : Receive(r)) \/ Spin \/ Dispatched \/ Slept \/ Poll
           \/ PollOutput \/ PollOutputDone \/ Check \/ ReadAndReply \/ Crash
  PROVE  Excl'
<1> USE Distinct DEF Excl, Shape, TimerOwns, HandlerOwns, Busy, NoTimers
<1>1. ASSUME NEW r \in Requests, Receive(r)
      PROVE  Excl'
  BY <1>1 DEF Receive
<1>2. CASE Spin
  BY <1>2 DEF Spin
<1>3. CASE Dispatched
  BY <1>3 DEF Dispatched
<1>4. CASE Slept
  BY <1>4 DEF Slept
<1>5. CASE Poll
  BY <1>5 DEF Poll
<1>6. CASE PollOutput
  BY <1>6 DEF PollOutput
<1>7. CASE PollOutputDone
  BY <1>7 DEF PollOutputDone
<1>8. CASE Check
  BY <1>8 DEF Check, Reply
<1>9. CASE ReadAndReply
  BY <1>9 DEF ReadAndReply, Reply
<1>10. CASE Crash
  BY <1>10 DEF Crash
<1> QED
  BY <1>1, <1>2, <1>3, <1>4, <1>5, <1>6, <1>7, <1>8, <1>9, <1>10

\* A timer takes the mutex only when it is free.
LEMMA ExclTimer ==
  ASSUME Excl, NEW t \in Timers, pc # "exit",
         Store(t) \/ Lock(t) \/ SwitchOff(t) \/ Unlock(t)
  PROVE  Excl'
<1> USE Distinct DEF Excl, Shape, TimerOwns, HandlerOwns, Busy, NoTimers, handler
<1>1. CASE Store(t)
  BY <1>1 DEF Store
<1>2. CASE Lock(t)
  BY <1>2 DEF Lock
<1>3. CASE SwitchOff(t)
  BY <1>3 DEF SwitchOff
<1>4. CASE Unlock(t)
  BY <1>4 DEF Unlock
<1> QED
  BY <1>1, <1>2, <1>3, <1>4

\* Excl is inductive.
LEMMA ExclStep == Excl /\ [Next]_vars => Excl'
<1> SUFFICES ASSUME Excl, [Next]_vars
             PROVE  Excl'
  OBVIOUS
<1>1. CASE Take \/ Finish \/ UNCHANGED vars
  BY <1>1 DEF Take, Finish, vars, node, Excl, Shape, TimerOwns, HandlerOwns, NoTimers
<1>2. CASE HandlerStep
  BY <1>2, ExclDriver, ExclHandler, Distinct DEF HandlerStep
<1>3. ASSUME NEW t \in Timers, TimerStep(t)
      PROVE  Excl'
  BY <1>3, ExclDriver, ExclTimer, Distinct DEF TimerStep
<1>4. CASE Crash \/ \E r \in Requests : Receive(r)
  BY <1>4, ExclHandler
<1> QED
  BY <1>1, <1>2, <1>3, <1>4 DEF Next

\* Excl is an invariant.
THEOREM ExclInvariant == Spec => []Excl
  BY ExclInit, ExclStep, PTL DEF Spec

\* The mutex keeps the handler and any number of timers from making calls of the
\* driver at the same time.
THEOREM MutualExclusion == Spec => []MutexProtectsContext
<1>1. Excl => MutexProtectsContext
  BY Distinct DEF Excl, TimerOwns, HandlerOwns, NoTimers, Busy, MutexProtectsContext,
                  InDriver, Threads
<1> QED
  BY <1>1, ExclInvariant, PTL

-----------------------------------------------------------------------------
(* What the end of a hold means *)

\* From the end of its sleep a hold that triggers nothing finds nothing left to
\* take, and from an IDLE reading nothing left to perform.
HoldInv ==
  /\ pc \in {"poll", "pollout", "polldo", "check"} /\ ~rerun => inbox = <<>>
  /\ (/\ pc \in {"pollout", "polldo", "check"} /\ arm_state = 1
      /\ ~rerun /\ ~misused) => motions = <<>>
  /\ rerun \in BOOLEAN /\ misused \in BOOLEAN

Hold == Excl /\ HoldInv

\* No hold has begun when the node starts.
LEMMA HoldInit == Init => Hold
  BY ExclInit DEF Init, Hold, HoldInv

\* While the handler polls, no other thread makes calls; its own can trigger a
\* command only by switching off an output, which sets rerun.
LEMMA HoldDriver ==
  ASSUME Hold, NEW th \in Threads, DriverStep(th)
  PROVE  HoldInv'
<1>1. /\ pc' = pc /\ arm_state' = arm_state /\ motions' = motions
      /\ todo[th] # <<>>
  BY DEF DriverStep, node
<1>2. misused' \in BOOLEAN /\ (misused => misused')
  <2>1. misused' = misused \/ misused' = TRUE \/ misused' = (misused \/ ctx = "freed")
    BY DEF DriverStep, Misuse, Call, Connect
  <2> QED
    BY <2>1 DEF Hold, HoldInv
<1>3. UNCHANGED <<inbox, rerun>> \/ (rerun' = (rerun \/ pc = "polldo"))
  BY DEF DriverStep, Misuse, Call, Connect, Effect, Trigger, controller
<1>4. CASE UNCHANGED <<inbox, rerun>>
  BY <1>1, <1>2, <1>4 DEF Hold, HoldInv
<1>5. CASE rerun' = (rerun \/ pc = "polldo")
  <2>1. pc \notin {"poll", "pollout", "check"}
    BY <1>1, Distinct DEF Hold, Excl, TimerOwns, HandlerOwns, Busy, Threads
  <2>2. rerun' \in BOOLEAN /\ (pc = "polldo" => rerun')
    BY <1>5 DEF Hold, HoldInv
  <2> QED
    BY <1>1, <1>2, <2>1, <2>2 DEF HoldInv
<1> QED
  BY <1>3, <1>4, <1>5

\* Between the sleep and the answer the handler triggers nothing, a switch-off apart.
LEMMA HoldHandler ==
  ASSUME Hold,
         (\E r \in Requests : Receive(r)) \/ Spin \/ Dispatched \/ Slept \/ Poll
           \/ PollOutput \/ PollOutputDone \/ Check \/ ReadAndReply \/ Crash
  PROVE  HoldInv'
<1> USE DEF Hold, HoldInv
<1>1. ASSUME NEW r \in Requests, Receive(r)
      PROVE  HoldInv'
  BY <1>1 DEF Receive
<1>2. CASE Spin
  BY <1>2 DEF Spin, driver, controller
<1>3. CASE Dispatched
  BY <1>3 DEF Dispatched, driver, controller
<1>4. CASE Slept
  BY <1>4 DEF Slept, driver, controller
<1>5. CASE Poll
  <2>1. /\ pc = "poll" /\ pc' = "pollout" /\ motions' = motions
        /\ ReadArmState
    BY <1>5 DEF Poll
  <2>2. UNCHANGED <<inbox, rerun>>
    BY <2>1 DEF ReadArmState, Misuse, Call, Effect, controller
  <2>3. CASE Misuse
    BY <2>1, <2>2, <2>3 DEF Misuse
  <2>4. CASE Call([kind |-> "input"])
    <3>1. misused' = misused /\ ctx = "open"
      BY <2>4 DEF Call
    <3>2. arm_state' = 1 => motions = <<>>
      BY <2>1, <3>1 DEF ReadArmState
    <3> QED
      BY <2>1, <2>2, <3>1, <3>2
  <2> QED
    BY <2>1, <2>3, <2>4 DEF ReadArmState
<1>6. CASE PollOutput
  BY <1>6 DEF PollOutput, driver, controller
<1>7. CASE PollOutputDone
  BY <1>7 DEF PollOutputDone, driver, controller
<1>8. CASE Check
  BY <1>8 DEF Check, Reply, driver, controller
<1>9. CASE ReadAndReply
  <2>1. pc' \in {"idle", "exit"}
    BY <1>9 DEF ReadAndReply, Reply
  <2>2. rerun' = rerun /\ misused' \in BOOLEAN
    BY <1>9 DEF ReadAndReply, ReadArmState, Misuse, Call, Effect, controller
  <2> QED
    BY <2>1, <2>2
<1>10. CASE Crash
  BY <1>10 DEF Crash, driver, controller
<1> QED
  BY <1>1, <1>2, <1>3, <1>4, <1>5, <1>6, <1>7, <1>8, <1>9, <1>10

\* The robot only empties what it has to do.
LEMMA HoldRobot ==
  ASSUME Hold, Take \/ Finish \/ UNCHANGED vars
  PROVE  HoldInv'
<1> USE DEF Hold, HoldInv
<1>1. CASE Take
  BY <1>1 DEF Take, node
<1>2. CASE Finish
  BY <1>2 DEF Finish, node, driver, controller
<1>3. CASE UNCHANGED vars
  BY <1>3 DEF vars, node, controller
<1> QED
  BY <1>1, <1>2, <1>3

\* Hold is inductive.
LEMMA HoldStep == Hold /\ [Next]_vars => Hold'
<1> SUFFICES ASSUME Hold, [Next]_vars
             PROVE  HoldInv'
  BY ExclStep DEF Hold
<1>1. CASE Take \/ Finish \/ UNCHANGED vars
  BY <1>1, HoldRobot
<1>2. CASE HandlerStep
  BY <1>2, HoldDriver, HoldHandler, Distinct DEF HandlerStep
<1>3. ASSUME NEW t \in Timers, TimerStep(t)
      PROVE  HoldInv'
  <2>1. CASE DriverStep(t)
    BY <2>1, HoldDriver, Distinct
  <2>2. CASE Store(t) \/ Lock(t) \/ SwitchOff(t) \/ Unlock(t)
    BY <2>2 DEF Store, Lock, SwitchOff, Unlock, handler, driver, controller, Hold, HoldInv
  <2> QED
    BY <1>3, <2>1, <2>2 DEF TimerStep
<1>4. CASE Crash \/ \E r \in Requests : Receive(r)
  BY <1>4, HoldHandler
<1> QED
  BY <1>1, <1>2, <1>3, <1>4 DEF Next

\* The IDLE that ends a hold is a reading of this hold, taken when the robot had
\* nothing left to take or perform, whatever calls fail and however many timers
\* run, as long as the hold loop itself triggers no command.
THEOREM HoldEndsIdle == Spec => []HeldMeansIdle
<1>1. Hold => HeldMeansIdle
  BY DEF Hold, HoldInv, HeldMeansIdle
<1> QED
  BY <1>1, HoldInit, HoldStep, PTL DEF Spec

-----------------------------------------------------------------------------
(* The types: every call the threads make is one the driver knows.            *)

\* What is assumed of the constants.
LEMMA Constants ==
  /\ Requests \subseteq Request /\ Pins \subseteq Nat \ {0} /\ MaxRequests \in Nat
  /\ Handler \in Threads /\ Timers \subseteq Threads
  BY ConstantsOK DEF Threads

-----------------------------------------------------------------------------
(* What the driver is asked to do *)

\* A command is two calls.
LEMMA WriteTyped ==
  ASSUME NEW name \in Modes, NEW goal \in Int, NEW n \in Nat
  PROVE  Write(name, goal, n) \in Seq(Step)
<1> DEFINE first == [kind |-> "table", cmd |-> [name |-> name, goal |-> goal, for |-> n]]
           second == [kind |-> "trigger"]
<1>1. first \in Step /\ second \in Step
  BY DEF Step, Command
<1>2. Write(name, goal, n) = <<first, second>>
  BY DEF Write
<1> HIDE DEF first, second
<1> QED
  BY <1>1, <1>2

\* An output is two calls.
LEMMA SetOutputTyped ==
  ASSUME NEW p \in Pins, NEW on \in {0, 1}
  PROVE  SetOutput(p, on) \in Seq(Step)
<1> DEFINE first == [kind |-> "bit", pin |-> p, on |-> on]
           second == [kind |-> "trigger"]
<1>1. first \in Step /\ second \in Step
  BY DEF Step
<1>2. SetOutput(p, on) = <<first, second>>
  BY DEF SetOutput
<1> HIDE DEF first, second
<1> QED
  BY <1>1, <1>2

\* The calls of main are calls.
LEMMA StartupTyped == Startup \in Seq(Step)
<1> DEFINE first == [kind |-> "connect"]
           second == [kind |-> "table", cmd |-> [name |-> "MOTION_STOP", goal |-> 0, for |-> 0]]
           third == [kind |-> "excite"]
<1>1. first \in Step /\ second \in Step /\ third \in Step
  BY DEF Step, Command, Modes, Motions, Settings
<1>2. Startup = <<first, second, third>>
  BY DEF Startup
<1> HIDE DEF first, second, third
<1> QED
  BY <1>1, <1>2

\* Every request makes calls of the driver.
LEMMA ScriptTyped ==
  ASSUME NEW r \in Request, NEW n \in Nat, command \in Nat
  PROVE  Script(r, n) \in Seq(Step)
<1> USE DEF Modes, Motions, Settings
<1>0. r.mode \in Modes /\ r.pin \in Pins /\ r.on \in {0, 1}
  BY DEF Request
<1>1. CASE r.mode \in {"PTP", "LINE"}
  <2>1. GoalOf(r, n) \in Int
    BY DEF GoalOf
  <2>2. Script(r, n) = Write(r.mode, GoalOf(r, n), n)
    BY <1>1 DEF Script
  <2> QED
    BY <1>0, <2>1, <2>2, WriteTyped
<1>2. CASE r.mode \in {"CIRC", "HOME", "JOG", "MOTION_STOP", "SET_BASE"}
  <2>1. Script(r, n) = Write(r.mode, n, n)
    BY <1>2 DEF Script
  <2>2. n \in Int
    OBVIOUS
  <2> QED
    BY <1>0, <2>1, <2>2, WriteTyped
<1>3. CASE r.mode = "SET_TOOL"
  <2>1. Script(r, n) = Write("SET_BASE", n, n)
    BY <1>3 DEF Script, ToolOverload
  <2> QED
    BY <2>1, WriteTyped
<1>4. CASE r.mode = "DO"
  <2>1. Script(r, n) = SetOutput(r.pin, r.on)
    BY <1>4 DEF Script
  <2> QED
    BY <1>0, <2>1, SetOutputTyped
<1>5. CASE r.mode \in {"EXCITE", "CHECK", "READ_DI"}
  <2>1. \E s \in {"excite", "pose", "input"} : Script(r, n) = <<[kind |-> s]>>
    BY <1>5 DEF Script
  <2>2. \A s \in {"excite", "pose", "input"} : [kind |-> s] \in Step
    BY DEF Step
  <2> QED
    BY <2>1, <2>2
<1>6. CASE r.mode = "CLOSE"
  <2>1. Script(r, n) = <<[kind |-> "free"], [kind |-> "close"]>>
    BY <1>6 DEF Script
  <2>2. [kind |-> "free"] \in Step /\ [kind |-> "close"] \in Step
    BY DEF Step
  <2> QED
    BY <2>1, <2>2
<1>7. CASE r.mode = "FLANGE_MOVE" /\ r.valid
  <2>1. Script(r, n) = <<[kind |-> "pose"]>> \o Write("LINE", -1, n)
    BY <1>7 DEF Script
  <2>2. [kind |-> "pose"] \in Step
    BY DEF Step
  <2>3. <<[kind |-> "pose"]>> \in Seq(Step)
    BY <2>2
  <2>4. Write("LINE", -1, n) \in Seq(Step)
    BY WriteTyped
  <2> QED
    BY <2>1, <2>3, <2>4, ConcatProperties
<1>8. CASE r.mode = "WAITING" \/ (r.mode = "FLANGE_MOVE" /\ ~r.valid)
  BY <1>8 DEF Script
<1> QED
  BY <1>0, <1>1, <1>2, <1>3, <1>4, <1>5, <1>6, <1>7, <1>8

-----------------------------------------------------------------------------
(* The inductive step *)

\* Every variable starts with its type.
LEMMA TypeInit == Init => TypeOK
<1> SUFFICES ASSUME Init
             PROVE  TypeOK
  OBVIOUS
<1>1. todo \in [Threads -> Seq(Step)]
  BY StartupTyped, EmptySeq DEF Init
<1>2. inbox \in Seq(Command) /\ motions \in Seq(Command)
  BY EmptySeq DEF Init
<1>3. table \in Command
  BY DEF Init, NoCommand, Command
<1>4. mutex \in Threads \cup {Free}
  BY DEF Init
<1>5. /\ tpc \in [Timers -> {"off", "sleep", "lock", "locked", "do"}]
      /\ tpin \in [Timers -> Pins \cup {0}]
      /\ out \in [Pins -> {0, 1}]
  BY DEF Init
<1>6. /\ req \in Requests
      /\ served \in 0 .. MaxRequests /\ command \in 0 .. MaxRequests
      /\ current_pos \in -1 .. MaxRequests
      /\ digital_output \in Pins \cup {0} /\ arm_state \in 0 .. 2 /\ faults \in Nat
  BY Constants DEF Init
<1>7. /\ pc \in {"boot", "idle", "exec", "sleep", "poll", "pollout", "polldo", "check",
                 "read", "exit"}
      /\ ctx \in {"none", "open", "freed"}
      /\ link \in {"up", "desync", "lost"}
      /\ running \in BOOLEAN /\ fresh \in BOOLEAN
      /\ misused \in BOOLEAN /\ rerun \in BOOLEAN /\ clash \in BOOLEAN
  BY DEF Init
<1> QED
  BY <1>1, <1>2, <1>3, <1>4, <1>5, <1>6, <1>7 DEF TypeOK

\* What a call makes of the controller and of the line.
LEMMA TypeEffect ==
  ASSUME TypeOK, NEW o \in Step, Effect(o)
  PROVE  /\ table' \in Command /\ fresh' \in BOOLEAN /\ inbox' \in Seq(Command)
         /\ out' \in [Pins -> {0, 1}] /\ rerun' \in BOOLEAN
<1> USE DEF TypeOK
<1>1. CASE o.kind = "table"
  <2>1. o.cmd \in Command
    BY <1>1 DEF Step
  <2>2. current_pos \in Int
    BY Constants
  <2>3. table' \in Command
    BY <1>1, <2>1, <2>2 DEF Effect, Command
  <2> QED
    BY <1>1, <2>3 DEF Effect
<1>2. CASE o.kind = "bit"
  <2>1. o.pin \in Pins /\ o.on \in {0, 1}
    BY <1>2 DEF Step
  <2> QED
    BY <1>2, <2>1 DEF Effect
<1>3. CASE o.kind = "trigger"
  <2>1. Trigger
    BY <1>3 DEF Effect
  <2>2. inbox' \in Seq(Command)
    <3>1. inbox \in Seq(Command) /\ table \in Command
      OBVIOUS
    <3>2. inbox' = inbox \/ inbox' = Append(inbox, table)
      BY <2>1 DEF Trigger
    <3> HIDE DEF TypeOK
    <3> QED
      BY <3>1, <3>2, AppendProperties
  <2>3. rerun' \in BOOLEAN
    BY <2>1 DEF Trigger
  <2> QED
    BY <2>1, <2>2, <2>3 DEF Trigger
<1>4. CASE o.kind \notin {"table", "bit", "trigger"}
  BY <1>4 DEF Effect, controller
<1> QED
  BY <1>1, <1>2, <1>3, <1>4

\* A call keeps the types, whatever comes of it.
LEMMA TypeCall ==
  ASSUME TypeOK, NEW o \in Step, Misuse \/ Call(o)
  PROVE  /\ table' \in Command /\ fresh' \in BOOLEAN /\ inbox' \in Seq(Command)
         /\ out' \in [Pins -> {0, 1}] /\ rerun' \in BOOLEAN
         /\ ctx' \in {"none", "open", "freed"} /\ link' \in {"up", "desync", "lost"}
         /\ faults' \in Nat /\ misused' \in BOOLEAN
<1>1. UNCHANGED controller \/ Effect(o)
  BY DEF Misuse, Call
<1>2. /\ table' \in Command /\ fresh' \in BOOLEAN /\ inbox' \in Seq(Command)
      /\ out' \in [Pins -> {0, 1}] /\ rerun' \in BOOLEAN
  BY <1>1, TypeEffect DEF TypeOK, controller
<1>3. /\ ctx' \in {"none", "open", "freed"} /\ link' \in {"up", "desync", "lost"}
      /\ faults' \in Nat /\ misused' \in BOOLEAN
  <2>1. ctx' = ctx /\ (misused' = misused \/ misused' = TRUE)
    BY DEF Misuse, Call
  <2>2. link' = link \/ link' \in {"up", "desync", "lost"}
    BY DEF Misuse, Call
  <2>3. faults' = faults \/ faults' = faults + 1
    BY DEF Misuse, Call, Fault
  <2>4. /\ ctx \in {"none", "open", "freed"} /\ link \in {"up", "desync", "lost"}
        /\ faults \in Nat /\ misused \in BOOLEAN
    BY DEF TypeOK
  <2>5. misused' \in BOOLEAN
    BY <2>1, <2>4
  <2> QED
    BY <2>1, <2>2, <2>3, <2>4, <2>5
<1> QED
  BY <1>2, <1>3

\* A step of the driver keeps the types.
LEMMA TypeDriver ==
  ASSUME TypeOK, NEW th \in Threads, DriverStep(th)
  PROVE  TypeOK'
<1> DEFINE o == Head(todo[th])
<1>1. /\ todo[th] \in Seq(Step) /\ todo[th] # <<>>
      /\ todo' = [todo EXCEPT ![th] = Tail(@)]
      /\ UNCHANGED <<node, motions>>
  BY DEF DriverStep, TypeOK
<1>2. o \in Step /\ Tail(todo[th]) \in Seq(Step)
  BY <1>1, HeadTailProperties
<1>3. todo' \in [Threads -> Seq(Step)]
  BY <1>1, <1>2 DEF TypeOK
<1>4. /\ table' \in Command /\ fresh' \in BOOLEAN /\ inbox' \in Seq(Command)
      /\ out' \in [Pins -> {0, 1}] /\ rerun' \in BOOLEAN
      /\ ctx' \in {"none", "open", "freed"} /\ link' \in {"up", "desync", "lost"}
      /\ faults' \in Nat /\ misused' \in BOOLEAN
      /\ current_pos' \in -1 .. MaxRequests
  <2>1. CASE Connect /\ UNCHANGED current_pos
    BY <2>1 DEF Connect, Fault, controller, TypeOK
  <2>2. CASE /\ ctx' = "freed"
             /\ misused' = (misused \/ ctx = "freed")
             /\ UNCHANGED <<link, faults, controller, current_pos>>
    BY <2>2 DEF controller, TypeOK
  <2>3. CASE (Misuse \/ Call(o)) /\ UNCHANGED current_pos
    BY <1>2, <2>3, TypeCall DEF TypeOK
  <2>4. CASE (Misuse \/ Call(o)) /\ ReadPose
    <3>1. current_pos' \in -1 .. MaxRequests
      BY <2>4, Constants DEF ReadPose, TypeOK
    <3> QED
      BY <1>2, <2>4, <3>1, TypeCall
  <2> QED
    BY <2>1, <2>2, <2>3, <2>4 DEF DriverStep
<1> QED
  BY <1>1, <1>3, <1>4 DEF TypeOK, node

\* Reading the arm's state keeps the types.
LEMMA TypeArmState ==
  ASSUME TypeOK, ReadArmState
  PROVE  /\ table' \in Command /\ fresh' \in BOOLEAN /\ inbox' \in Seq(Command)
         /\ out' \in [Pins -> {0, 1}] /\ rerun' \in BOOLEAN
         /\ ctx' \in {"none", "open", "freed"} /\ link' \in {"up", "desync", "lost"}
         /\ faults' \in Nat /\ misused' \in BOOLEAN
         /\ arm_state' \in 0 .. 2
<1>1. [kind |-> "input"] \in Step
  BY DEF Step
<1>2. Misuse \/ Call([kind |-> "input"])
  BY DEF ReadArmState
<1>3. arm_state' \in 0 .. 2
  BY DEF ReadArmState
<1> QED
  BY <1>1, <1>2, <1>3, TypeCall

\* The handler's steps keep the types.
LEMMA TypeHandler ==
  ASSUME TypeOK,
         (\E r \in Requests : Receive(r)) \/ Spin \/ Dispatched \/ Slept \/ Poll
           \/ PollOutput \/ PollOutputDone \/ Check \/ ReadAndReply \/ Crash
  PROVE  TypeOK'
<1>1. ASSUME NEW r \in Requests, Receive(r)
      PROVE  TypeOK'
  <2>1. r \in Request /\ served + 1 \in 0 .. MaxRequests
    BY <1>1, Constants DEF Receive, TypeOK
  <2>2. command' \in 0 .. MaxRequests
    BY <1>1, <2>1 DEF Receive, GoalOf, TypeOK
  <2>3. Script(r, served + 1) \in Seq(Step)
    BY <2>1, Constants, ScriptTyped DEF TypeOK
  <2>4. todo' \in [Threads -> Seq(Step)]
    BY <1>1, <2>3 DEF Receive, TypeOK
  <2> QED
    BY <1>1, <2>1, <2>2, <2>4, Constants DEF Receive, TypeOK
<1>2. CASE Spin
  BY <1>2 DEF Spin, TypeOK, driver, controller
<1>3. CASE Dispatched
  <2>1. /\ tpc' \in [Timers -> {"off", "sleep", "lock", "locked", "do"}]
        /\ tpin' \in [Timers -> Pins \cup {0}]
    <3>1. req.pin \in Pins
      BY Constants DEF TypeOK, Request
    <3> QED
      BY <1>3, <3>1 DEF Dispatched, TypeOK
  <2>2. running' \in BOOLEAN /\ pc' \in {"sleep", "read"}
    BY <1>3 DEF Dispatched, TypeOK
  <2> QED
    BY <1>3, <2>1, <2>2 DEF Dispatched, TypeOK, driver, controller
<1>4. CASE Slept
  BY <1>4 DEF Slept, TypeOK, driver, controller
<1>5. CASE Poll
  BY <1>5, TypeArmState DEF Poll, TypeOK
<1>6. CASE PollOutput
  <2>1. todo' \in [Threads -> Seq(Step)]
    BY <1>6, SetOutputTyped DEF PollOutput, TypeOK
  <2> QED
    BY <1>6, <2>1 DEF PollOutput, TypeOK, driver, controller
<1>7. CASE PollOutputDone
  <2>1. clash' \in BOOLEAN
    BY <1>7 DEF PollOutputDone
  <2> QED
    BY <1>7, <2>1 DEF PollOutputDone, TypeOK, driver, controller
<1>8. CASE Check
  BY <1>8 DEF Check, Reply, TypeOK, driver, controller
<1>9. CASE ReadAndReply
  BY <1>9, TypeArmState DEF ReadAndReply, Reply, TypeOK
<1>10. CASE Crash
  BY <1>10 DEF Crash, TypeOK, driver, controller
<1> QED
  BY <1>1, <1>2, <1>3, <1>4, <1>5, <1>6, <1>7, <1>8, <1>9, <1>10

\* A timer's steps keep the types.
LEMMA TypeTimer ==
  ASSUME TypeOK, NEW t \in Timers, Store(t) \/ Lock(t) \/ SwitchOff(t) \/ Unlock(t)
  PROVE  TypeOK'
<1>1. CASE Store(t)
  BY <1>1 DEF Store, TypeOK, handler, driver, controller
<1>2. CASE Lock(t)
  BY <1>2, Constants DEF Lock, TypeOK, handler, driver, controller
<1>3. CASE SwitchOff(t)
  <2>1. todo' \in [Threads -> Seq(Step)]
    BY <1>3, SetOutputTyped DEF SwitchOff, TypeOK
  <2> QED
    BY <1>3, <2>1 DEF SwitchOff, TypeOK, handler, driver, controller
<1>4. CASE Unlock(t)
  <2>1. clash' \in BOOLEAN /\ digital_output' \in Pins \cup {0}
    BY <1>4 DEF Unlock, TypeOK
  <2> QED
    BY <1>4, <2>1 DEF Unlock, TypeOK, handler, driver, controller
<1> QED
  BY <1>1, <1>2, <1>3, <1>4

\* The robot's steps keep the types.
LEMMA TypeRobot ==
  ASSUME TypeOK, Take \/ Finish \/ UNCHANGED vars
  PROVE  TypeOK'
<1>1. CASE Take
  <2>1. Head(inbox) \in Command /\ inbox' \in Seq(Command)
    BY <1>1, HeadTailProperties DEF Take, TypeOK
  <2>2. motions' \in Seq(Command)
    BY <1>1, <2>1, AppendProperties, EmptySeq DEF Take, TypeOK
  <2> QED
    BY <1>1, <2>1, <2>2 DEF Take, TypeOK, node
<1>2. CASE Finish
  <2>1. motions' \in Seq(Command)
    BY <1>2, HeadTailProperties DEF Finish, TypeOK
  <2> QED
    BY <1>2, <2>1 DEF Finish, TypeOK, node, driver, controller
<1>3. CASE UNCHANGED vars
  BY <1>3 DEF vars, node, controller, TypeOK
<1> QED
  BY <1>1, <1>2, <1>3

\* Every step keeps the types.
LEMMA TypeStep == TypeOK /\ [Next]_vars => TypeOK'
<1> SUFFICES ASSUME TypeOK, [Next]_vars
             PROVE  TypeOK'
  OBVIOUS
<1>1. CASE Take \/ Finish \/ UNCHANGED vars
  BY <1>1, TypeRobot
<1>2. CASE HandlerStep
  BY <1>2, TypeDriver, TypeHandler, Constants DEF HandlerStep
<1>3. ASSUME NEW t \in Timers, TimerStep(t)
      PROVE  TypeOK'
  BY <1>3, TypeDriver, TypeTimer, Constants DEF TimerStep
<1>4. CASE Crash \/ \E r \in Requests : Receive(r)
  BY <1>4, TypeHandler
<1> QED
  BY <1>1, <1>2, <1>3, <1>4 DEF Next

\* Every call in every thread's list is one the driver knows and every output
\* written is 0 or 1, for any requests, timers and failing calls.
THEOREM Typing == Spec => []TypeOK
  BY TypeInit, TypeStep, PTL DEF Spec

-----------------------------------------------------------------------------
(* What appending, taking and dropping do to two lists in a row, as the motions *)
(* a controller performs and the commands it has not taken.                   *)

\* A command appended to the second list is appended to both.
LEMMA ConcatAppend ==
  ASSUME NEW X, NEW s \in Seq(X), NEW t \in Seq(X), NEW e \in X
  PROVE  s \o Append(t, e) = Append(s \o t, e)
<1>1. Append(t, e) = t \o <<e>> /\ <<e>> \in Seq(X)
  BY AppendIsConcat
<1>2. s \o t \in Seq(X)
  BY ConcatProperties
<1>3. Append(s \o t, e) = (s \o t) \o <<e>>
  BY <1>2, AppendIsConcat
<1>4. (s \o t) \o <<e>> = s \o (t \o <<e>>)
  BY <1>1, ConcatAssociative
<1> QED
  BY <1>1, <1>3, <1>4

\* The first of the second list becomes the last of the first.
LEMMA ConcatMoves ==
  ASSUME NEW X, NEW s \in Seq(X), NEW t \in Seq(X), t # <<>>
  PROVE  Append(s, Head(t)) \o Tail(t) = s \o t
<1>1. Head(t) \in X /\ Tail(t) \in Seq(X) /\ Len(Tail(t)) = Len(t) - 1
  BY HeadTailProperties
<1>2. \A i \in 1 .. Len(Tail(t)) : Tail(t)[i] = t[i + 1]
  BY HeadTailProperties
<1>3. Head(t) = t[1] /\ Len(t) \in Nat \ {0} /\ Len(s) \in Nat
  BY EmptySeq, LenProperties
<1> DEFINE a == Append(s, Head(t))
<1>4. /\ a \in Seq(X) /\ Len(a) = Len(s) + 1
      /\ \A i \in 1 .. Len(s) : a[i] = s[i]
      /\ a[Len(s) + 1] = Head(t)
  BY <1>1, AppendProperties
<1> HIDE DEF a
<1>5. /\ a \o Tail(t) \in Seq(X)
      /\ Len(a \o Tail(t)) = Len(s) + Len(t)
      /\ \A i \in 1 .. Len(s) + Len(t) :
           (a \o Tail(t))[i] = IF i <= Len(s) + 1 THEN a[i] ELSE Tail(t)[i - (Len(s) + 1)]
  <2> DEFINE v == Tail(t)
  <2>1. v \in Seq(X) /\ Len(a) + Len(v) = Len(s) + Len(t)
    BY <1>1, <1>3, <1>4
  <2> HIDE DEF v
  <2>2. /\ a \o v \in Seq(X)
        /\ Len(a \o v) = Len(a) + Len(v)
        /\ \A i \in 1 .. Len(a) + Len(v) : (a \o v)[i] = IF i <= Len(a) THEN a[i] ELSE v[i - Len(a)]
    <3>1. a \in Seq(X) /\ v \in Seq(X)
      BY <1>4, <2>1
    <3> QED
      BY <3>1, ConcatProperties, Zenon
  <2> QED
    BY <1>4, <2>1, <2>2 DEF v
<1>6. /\ s \o t \in Seq(X) /\ Len(s \o t) = Len(s) + Len(t)
      /\ \A i \in 1 .. Len(s) + Len(t) : (s \o t)[i] = IF i <= Len(s) THEN s[i] ELSE t[i - Len(s)]
  BY ConcatProperties
<1>7. ASSUME NEW i \in 1 .. Len(s) + Len(t)
      PROVE  (a \o Tail(t))[i] = (s \o t)[i]
  <2>1. CASE i <= Len(s)
    BY <1>3, <1>4, <1>5, <1>6, <2>1
  <2>2. CASE i = Len(s) + 1
    BY <1>3, <1>4, <1>5, <1>6, <2>2
  <2>3. CASE i > Len(s) + 1
    <3> DEFINE j == i - (Len(s) + 1)
    <3>1. j \in 1 .. Len(Tail(t)) /\ j + 1 = i - Len(s)
      BY <1>1, <1>3, <2>3
    <3>2. Tail(t)[j] = t[j + 1]
      BY <1>2, <3>1
    <3>3. (a \o Tail(t))[i] = Tail(t)[j] /\ (s \o t)[i] = t[i - Len(s)]
      BY <1>3, <1>5, <1>6, <2>3
    <3> QED
      BY <3>1, <3>2, <3>3
  <2>4. \A j \in Int, n \in Int : j <= n \/ j = n + 1 \/ j > n + 1
    OBVIOUS
  <2>5. i \in Int /\ Len(s) \in Int
    BY <1>3
  <2>6. i <= Len(s) \/ i = Len(s) + 1 \/ i > Len(s) + 1
    BY <2>4, <2>5, Zenon
  <2> QED
    BY <2>1, <2>2, <2>3, <2>6
<1> QED
  BY <1>5, <1>6, <1>7, SeqEqual DEF a

\* The first of both lists is the first of the first.
LEMMA ConcatFirst ==
  ASSUME NEW X, NEW s \in Seq(X), NEW t \in Seq(X), s # <<>>
  PROVE  /\ s \o t # <<>>
         /\ Head(s \o t) = Head(s)
         /\ Tail(s \o t) = Tail(s) \o t
<1>1. /\ Head(s) = s[1] /\ Tail(s) \in Seq(X) /\ Len(Tail(s)) = Len(s) - 1
      /\ \A i \in 1 .. Len(Tail(s)) : Tail(s)[i] = s[i + 1]
  BY HeadTailProperties
<1>2. Len(s) \in Nat \ {0} /\ Len(t) \in Nat
  BY EmptySeq, LenProperties
<1>3. /\ s \o t \in Seq(X) /\ Len(s \o t) = Len(s) + Len(t)
      /\ \A i \in 1 .. Len(s) + Len(t) : (s \o t)[i] = IF i <= Len(s) THEN s[i] ELSE t[i - Len(s)]
  BY ConcatProperties
<1>4. s \o t # <<>> /\ Head(s \o t) = s[1]
  <2>1. s \o t # <<>>
    BY <1>2, <1>3, EmptySeq
  <2>2. Head(s \o t) = (s \o t)[1]
    BY <1>3, <2>1
  <2> QED
    BY <1>2, <1>3, <2>1, <2>2
<1> DEFINE m == s \o t
<1>5. /\ Tail(m) \in Seq(X) /\ Len(Tail(m)) = Len(m) - 1
      /\ \A i \in 1 .. Len(Tail(m)) : Tail(m)[i] = m[i + 1]
  BY <1>3, <1>4, HeadTailProperties
<1> DEFINE u == Tail(s)
<1> HIDE DEF u
<1>6. /\ u \o t \in Seq(X) /\ Len(u \o t) = Len(u) + Len(t)
      /\ \A i \in 1 .. Len(u) + Len(t) : (u \o t)[i] = IF i <= Len(u) THEN u[i] ELSE t[i - Len(u)]
  BY <1>1, ConcatProperties DEF u
<1>7. /\ Len(u) = Len(s) - 1
      /\ \A i \in 1 .. Len(u) : u[i] = s[i + 1]
  BY <1>1 DEF u
<1>8. Len(Tail(m)) = Len(u \o t) /\ Len(u \o t) = Len(s) + Len(t) - 1
  BY <1>2, <1>3, <1>5, <1>6, <1>7
<1>9. ASSUME NEW i \in 1 .. Len(s) + Len(t) - 1
      PROVE  Tail(m)[i] = (u \o t)[i]
  <2>1. Tail(m)[i] = m[i + 1]
    BY <1>5, <1>8
  <2>2. i + 1 \in 1 .. Len(s) + Len(t) /\ i \in 1 .. Len(u) + Len(t)
    BY <1>2, <1>7
  <2>3. m[i + 1] = IF i + 1 <= Len(s) THEN s[i + 1] ELSE t[i + 1 - Len(s)]
    BY <1>3, <2>2
  <2>4. (u \o t)[i] = IF i <= Len(u) THEN u[i] ELSE t[i - Len(u)]
    BY <1>6, <2>2
  <2>5. CASE i <= Len(u)
    BY <1>2, <1>7, <2>1, <2>3, <2>4, <2>5
  <2>6. CASE i > Len(u)
    <3>1. i - Len(u) = i + 1 - Len(s)
      BY <1>2, <1>7
    <3> QED
      BY <1>2, <1>7, <2>1, <2>3, <2>4, <2>6, <3>1
  <2> QED
    BY <1>2, <1>7, <2>5, <2>6
<1> HIDE DEF m
<1>10. Tail(m) = u \o t
  BY <1>5, <1>6, <1>8, <1>9, SeqEqual
<1> QED
  BY <1>1, <1>4, <1>10 DEF m, u

\* Where two lists meet.
LEMMA ConcatParts ==
  ASSUME NEW X, NEW s \in Seq(X), NEW t \in Seq(X), t # <<>>
  PROVE  LET m == s \o t
             i == Len(s) + 1
         IN /\ i \in DOMAIN m
            /\ m[i] = Head(t)
            /\ SubSeq(m, 1, i - 1) = s
            /\ SubSeq(m, i + 1, Len(m)) = Tail(t)
<1> DEFINE m == s \o t
           i == Len(s) + 1
<1>1. /\ Tail(t) \in Seq(X) /\ Len(Tail(t)) = Len(t) - 1
      /\ \A k \in 1 .. Len(Tail(t)) : Tail(t)[k] = t[k + 1]
      /\ Head(t) = t[1]
  BY HeadTailProperties
<1>2. Len(t) \in Nat \ {0} /\ Len(s) \in Nat
  BY EmptySeq, LenProperties
<1>3. /\ m \in Seq(X) /\ Len(m) = Len(s) + Len(t)
      /\ \A k \in 1 .. Len(s) + Len(t) : m[k] = IF k <= Len(s) THEN s[k] ELSE t[k - Len(s)]
  BY ConcatProperties
<1> HIDE DEF m
<1>4. DOMAIN m = 1 .. Len(s) + Len(t)
  BY <1>3, LenProperties
<1>5. i \in DOMAIN m /\ m[i] = Head(t)
  BY <1>1, <1>2, <1>3, <1>4
<1>6. SubSeq(m, 1, i - 1) = s
  <2> DEFINE p == SubSeq(m, 1, Len(s))
  <2>1. \A k \in 1 .. Len(s) : m[k] \in X /\ m[k] = s[k]
    <3>1. \A k \in 1 .. Len(s) : m[k] = s[k]
      BY <1>2, <1>3
    <3> QED
      BY <3>1, ElementOfSeq
  <2>2. /\ p \in Seq(X) /\ Len(p) = Len(s)
        /\ \A k \in 1 .. Len(s) : p[k] = m[k]
    <3>1. 1 \in Int /\ Len(s) \in Int
      BY <1>2
    <3>2. /\ p \in Seq(X)
          /\ Len(p) = IF 1 <= Len(s) THEN Len(s) - 1 + 1 ELSE 0
          /\ \A k \in 1 .. Len(s) - 1 + 1 : p[k] = m[1 + k - 1]
      BY <2>1, <3>1, SubSeqProperties
    <3> HIDE DEF p
    <3> QED
      BY <1>2, <3>2
  <2> HIDE DEF p
  <2>3. p = s
    BY <2>1, <2>2, SeqEqual
  <2>4. i - 1 = Len(s)
    BY <1>2
  <2> QED
    BY <2>3, <2>4 DEF p
<1>7. SubSeq(m, i + 1, Len(m)) = Tail(t)
  <2> DEFINE a == Len(s) + 2
             b == Len(s) + Len(t)
             p == SubSeq(m, a, b)
  <2>1. a \in Int /\ b \in Int /\ a = i + 1 /\ b = Len(m)
    BY <1>2, <1>3
  <2>2. \A k \in a .. b : m[k] \in X
    <3>1. \A k \in a .. b : k \in 1 .. Len(m)
      BY <1>2, <1>3
    <3> QED
      BY <1>3, <3>1, ElementOfSeq
  <2>3. /\ p \in Seq(X)
        /\ Len(p) = IF a <= b THEN b - a + 1 ELSE 0
        /\ \A k \in 1 .. b - a + 1 : p[k] = m[a + k - 1]
    BY <2>1, <2>2, SubSeqProperties
  <2> HIDE DEF p
  <2>4. Len(p) = Len(Tail(t))
    <3>1. b - a + 1 = Len(t) - 1 /\ (a <= b <=> Len(t) > 1)
      BY <1>2
    <3>2. Len(p) = IF Len(t) > 1 THEN Len(t) - 1 ELSE 0
      BY <2>3, <3>1
    <3>3. \A k \in Nat \ {0} : (IF k > 1 THEN k - 1 ELSE 0) = k - 1
      OBVIOUS
    <3> QED
      BY <1>1, <1>2, <3>2, <3>3, Zenon
  <2>5. ASSUME NEW k \in 1 .. Len(Tail(t))
        PROVE  p[k] = Tail(t)[k]
    <3>1. k \in 1 .. b - a + 1 /\ a + k - 1 \in 1 .. Len(s) + Len(t)
      BY <1>1, <1>2
    <3>2. p[k] = m[a + k - 1]
      BY <2>3, <3>1
    <3>3. m[a + k - 1] = t[a + k - 1 - Len(s)]
      BY <1>2, <1>3, <3>1
    <3>4. a + k - 1 - Len(s) = k + 1
      BY <1>2
    <3> QED
      BY <1>1, <3>2, <3>3, <3>4
  <2>6. p = Tail(t)
    BY <1>1, <2>3, <2>4, <2>5, SeqEqual
  <2> QED
    BY <2>1, <2>6 DEF p
<1> QED
  BY <1>5, <1>6, <1>7 DEF m

-----------------------------------------------------------------------------
(* Lists that lose some of their members *)

\* The members of m are members of l, in the order of l.
Thinned(m, l) ==
  \E f \in [DOMAIN m -> DOMAIN l] :
    /\ \A k \in DOMAIN m : m[k] = l[f[k]]
    /\ \A j, k \in DOMAIN m : j < k => f[j] < f[k]

\* A list without its first members.
LEMMA ThinnedRest ==
  ASSUME NEW X, NEW l \in Seq(X), NEW m \in Seq(X), NEW n \in Nat,
         Len(l) = Len(m) + n, \A k \in 1 .. Len(m) : m[k] = l[k + n]
  PROVE  Thinned(m, l)
<1> DEFINE f == [k \in 1 .. Len(m) |-> k + n]
<1>1. DOMAIN m = 1 .. Len(m) /\ DOMAIN l = 1 .. Len(l) /\ Len(m) \in Nat
  BY LenProperties
<1>2. \A k \in 1 .. Len(m) : k + n \in 1 .. Len(l)
  BY <1>1
<1>3. f \in [DOMAIN m -> DOMAIN l]
  BY <1>1, <1>2
<1>4. \A k \in DOMAIN m : m[k] = l[f[k]]
  BY <1>1
<1>5. \A j, k \in DOMAIN m : j < k => f[j] < f[k]
  BY <1>1
<1> HIDE DEF f
<1> QED
  BY <1>3, <1>4, <1>5 DEF Thinned

\* A list without its first member.
LEMMA ThinnedTail ==
  ASSUME NEW X, NEW l \in Seq(X), l # <<>>
  PROVE  Thinned(Tail(l), l)
<1>1. /\ Tail(l) \in Seq(X) /\ Len(Tail(l)) = Len(l) - 1
      /\ \A k \in 1 .. Len(Tail(l)) : Tail(l)[k] = l[k + 1]
  BY HeadTailProperties
<1>2. Len(l) = Len(Tail(l)) + 1
  BY <1>1, LenProperties
<1> QED
  BY <1>1, <1>2, ThinnedRest

\* Two lists in a row without the first of the second, with and without the first
\* list.
LEMMA ThinnedMiddle ==
  ASSUME NEW X, NEW s \in Seq(X), NEW t \in Seq(X), t # <<>>
  PROVE  /\ Thinned(s \o Tail(t), s \o t)
         /\ Thinned(Tail(t), s \o t)
<1> DEFINE l == s \o t
           u == Tail(t)
           m == s \o u
<1>1. /\ u \in Seq(X) /\ Len(u) = Len(t) - 1
      /\ \A k \in 1 .. Len(u) : u[k] = t[k + 1]
  BY HeadTailProperties
<1>2. Len(s) \in Nat /\ Len(t) \in Nat \ {0} /\ Len(u) \in Nat
  BY <1>1, EmptySeq, LenProperties
<1> HIDE DEF u
<1>3. /\ l \in Seq(X) /\ Len(l) = Len(s) + Len(t)
      /\ \A k \in 1 .. Len(s) + Len(t) : l[k] = IF k <= Len(s) THEN s[k] ELSE t[k - Len(s)]
  BY ConcatProperties
<1>4. /\ m \in Seq(X) /\ Len(m) = Len(s) + Len(u)
      /\ \A k \in 1 .. Len(s) + Len(u) : m[k] = IF k <= Len(s) THEN s[k] ELSE u[k - Len(s)]
  BY <1>1, ConcatProperties
<1> HIDE DEF l, m
<1>5. DOMAIN l = 1 .. Len(s) + Len(t) /\ DOMAIN m = 1 .. Len(s) + Len(u)
  BY <1>3, <1>4, LenProperties
<1> DEFINE f == [k \in 1 .. Len(s) + Len(u) |-> IF k <= Len(s) THEN k ELSE k + 1]
<1>6. f \in [DOMAIN m -> DOMAIN l]
  BY <1>1, <1>2, <1>5
<1>7. ASSUME NEW k \in DOMAIN m
      PROVE  m[k] = l[f[k]]
  <2>0. k \in 1 .. Len(s) + Len(u) /\ k \in Int
    BY <1>5
  <2>1. CASE k <= Len(s)
    <3>1. f[k] = k /\ k \in 1 .. Len(s) + Len(t)
      BY <1>1, <1>2, <2>0, <2>1
    <3>2. m[k] = s[k] /\ l[k] = s[k]
      BY <1>3, <1>4, <2>0, <2>1, <3>1
    <3> QED
      BY <3>1, <3>2
  <2>2. CASE ~(k <= Len(s))
    <3>1. /\ f[k] = k + 1 /\ k + 1 \in 1 .. Len(s) + Len(t)
          /\ k - Len(s) \in 1 .. Len(u) /\ ~(k + 1 <= Len(s))
          /\ k + 1 - Len(s) = (k - Len(s)) + 1
      BY <1>1, <1>2, <2>0, <2>2
    <3>2. m[k] = u[k - Len(s)] /\ l[k + 1] = t[k + 1 - Len(s)]
      BY <1>3, <1>4, <2>0, <2>2, <3>1
    <3>3. u[k - Len(s)] = t[(k - Len(s)) + 1]
      BY <1>1, <3>1
    <3> QED
      BY <3>1, <3>2, <3>3
  <2> QED
    BY <2>1, <2>2
<1>8. \A j, k \in DOMAIN m : j < k => f[j] < f[k]
  BY <1>2, <1>5
<1> HIDE DEF f
<1>9. Thinned(m, l)
  BY <1>6, <1>7, <1>8 DEF Thinned
<1>10. Thinned(u, l)
  <2>1. Len(l) = Len(u) + (Len(s) + 1) /\ Len(s) + 1 \in Nat
    BY <1>1, <1>2, <1>3
  <2>2. ASSUME NEW k \in 1 .. Len(u)
        PROVE  u[k] = l[k + (Len(s) + 1)]
    <3>1. /\ k + (Len(s) + 1) \in 1 .. Len(s) + Len(t)
          /\ ~(k + (Len(s) + 1) <= Len(s))
          /\ k + (Len(s) + 1) - Len(s) = k + 1
      BY <1>1, <1>2
    <3>2. l[k + (Len(s) + 1)] = t[k + (Len(s) + 1) - Len(s)]
      BY <1>3, <3>1
    <3> QED
      BY <1>1, <3>1, <3>2
  <2> QED
    BY <1>1, <1>3, <2>1, <2>2, ThinnedRest
<1> QED
  BY <1>9, <1>10 DEF l, m, u

-----------------------------------------------------------------------------
(* The inductive invariant: where the handler is in its request *)

AnyTimer == \E r \in Requests : r.timer

TableCall(c) == [kind |-> "table", cmd |-> c]
TriggerCall  == [kind |-> "trigger"]

\* What is left of the calls of main, which connects once and first.
Booting(q) ==
  \/ q = Startup /\ ctx # "freed"
  \/ q = <<Startup[2], Startup[3]>>
  \/ q = <<Startup[3]>>
  \/ q = <<>>

\* The calls of request r, the n-th.
Beginning(r, n, q) ==
  \/ q = <<>> /\ (r.mode = "WAITING" \/ (r.mode = "FLANGE_MOVE" /\ ~r.valid))
  \/ /\ r.mode # "FLANGE_MOVE"
     /\ \E c \in Writable(r, n) : q = <<TableCall(c), TriggerCall>>
  \/ /\ r.mode = "DO"
     /\ q = <<[kind |-> "bit", pin |-> r.pin, on |-> r.on], TriggerCall>>
  \/ /\ r.mode = "FLANGE_MOVE"
     /\ \E c \in Writable(r, n) : q = <<[kind |-> "pose"], TableCall(c), TriggerCall>>
  \/ /\ r.mode \in {"EXCITE", "CHECK", "READ_DI"}
     /\ \E k \in {"excite", "pose", "input"} : q = <<[kind |-> k]>>
  \/ r.mode = "CLOSE" /\ q = <<[kind |-> "free"], [kind |-> "close"]>>

\* What is left of them.
Remainder(r, n, q) ==
  \/ Beginning(r, n, q)
  \/ q = <<>>
  \/ q = <<TriggerCall>> /\ (Writable(r, n) # {} \/ r.mode = "DO")
  \/ \E c \in Writable(r, n) : q = <<TableCall(c), TriggerCall>>
  \/ r.mode = "CLOSE" /\ q = <<[kind |-> "close"]>> /\ ctx = "freed"

\* Calls that switch an output off.
OffCalls(q) ==
  \A i \in DOMAIN q : q[i].kind = "trigger" \/ (q[i].kind = "bit" /\ q[i].on = 0)

Calling ==
  /\ pc = "boot" => Booting(todo[Handler])
  /\ pc = "exec" => Remainder(req, served, todo[Handler])
  /\ pc = "polldo" => OffCalls(todo[Handler])
  /\ \A t \in Timers : OffCalls(todo[t])

\* Goals and poses belong to requests received; only motions are performed.
Goals ==
  /\ command <= served
  /\ current_pos <= served
  /\ motions \in Seq([name : Motions, goal : Int, for : Nat])

\* Without timed requests there are no timers and the hold loop triggers nothing.
Untimed ==
  (\/ \E t \in Timers : tpc[t] # "off"
   \/ digital_output # 0
   \/ pc = "polldo"
   \/ rerun) => AnyTimer

\* The branch the handler took and what it knows when it answers.
Answering ==
  /\ mutex = Handler => pc \in Busy \cup {"exit"}
  /\ pc \in {"boot", "idle", "exec"} => running
  /\ pc \in Busy \ {"exec"} => (running <=> req.mode # "CLOSE")
  /\ pc \in {"sleep", "poll", "pollout", "polldo", "check"} => Holding
  /\ pc = "read" => ~Holding
  /\ misused => ctx = "freed"
  /\ (pc \in {"pollout", "check"} /\ arm_state = 1 /\ ~AnyTimer /\ ctx # "freed")
       => link = "up"

Flow == Calling /\ Goals /\ Untimed /\ Answering

Inv == TypeOK /\ Hold /\ Flow

\* The calls left are calls of the driver.
LEMMA TodoTyped ==
  ASSUME TypeOK, NEW th \in Threads
  PROVE  todo[th] \in Seq(Step)
BY DEF TypeOK

\* A call less is still a list of calls that switch outputs off.
LEMMA OffTail ==
  ASSUME NEW q \in Seq(Step), q # <<>>, OffCalls(q)
  PROVE  OffCalls(Tail(q))
<1>1. /\ DOMAIN q = 1 .. Len(q) /\ Len(q) \in Nat
      /\ DOMAIN Tail(q) = 1 .. Len(Tail(q))
      /\ Len(Tail(q)) = Len(q) - 1
      /\ \A i \in 1 .. Len(Tail(q)) : Tail(q)[i] = q[i + 1]
  BY HeadTailProperties, LenProperties
<1>2. ASSUME NEW i \in 1 .. Len(Tail(q))
      PROVE  i + 1 \in DOMAIN q /\ Tail(q)[i] = q[i + 1]
  BY <1>1
<1> QED
  BY <1>1, <1>2 DEF OffCalls

\* No calls left switch nothing on.
LEMMA OffEmpty == OffCalls(<<>>)
  BY DEF OffCalls

\* A timer's calls switch its output off.
LEMMA OffOutput ==
  ASSUME NEW p \in Pins
  PROVE  OffCalls(SetOutput(p, 0))
<1> DEFINE first == [kind |-> "bit", pin |-> p, on |-> 0]
           second == [kind |-> "trigger"]
<1>1. SetOutput(p, 0) = <<first, second>>
  BY DEF SetOutput
<1>2. first.kind = "bit" /\ first.on = 0 /\ second.kind = "trigger"
  OBVIOUS
<1> HIDE DEF first, second
<1>3. \A i \in DOMAIN <<first, second>> : <<first, second>>[i] = first \/ <<first, second>>[i] = second
  OBVIOUS
<1> QED
  BY <1>1, <1>2, <1>3 DEF OffCalls

\* The first and the rest of lists as short as those of a request.
LEMMA ShortLists ==
  /\ \A a : Head(<<a>>) = a /\ Tail(<<a>>) = <<>> /\ <<a>> # <<>>
  /\ \A a, b : Head(<<a, b>>) = a /\ Tail(<<a, b>>) = <<b>> /\ <<a, b>> # <<>>
  /\ \A a, b, c : Head(<<a, b, c>>) = a /\ Tail(<<a, b, c>>) = <<b, c>> /\ <<a, b, c>> # <<>>
OBVIOUS

-----------------------------------------------------------------------------
(* Flow is preserved: calls *)

\* A call that begins keeps the calls already made out of the rest.
LEMMA FlowCalls ==
  ASSUME Inv, NEW th \in Threads, DriverStep(th)
  PROVE  Calling'
<1>1. /\ pc # "exit" /\ todo[th] # <<>> /\ todo[th] \in Seq(Step)
      /\ todo' = [todo EXCEPT ![th] = Tail(@)]
      /\ UNCHANGED <<pc, req, served>>
      /\ DOMAIN todo = Threads
  BY TodoTyped DEF DriverStep, node, Inv, Hold, Excl, Shape
<1>2. todo'[th] = Tail(todo[th]) /\ \A u \in Threads \ {th} : todo'[u] = todo[u]
  BY <1>1
<1>3. /\ pc = "boot" => Booting(todo[Handler])
      /\ pc = "exec" => Remainder(req, served, todo[Handler])
      /\ pc = "polldo" => OffCalls(todo[Handler])
      /\ \A t \in Timers : OffCalls(todo[t])
  BY DEF Inv, Flow, Calling
<1>4. \A t \in Timers : OffCalls(todo'[t])
  BY <1>1, <1>2, <1>3, OffTail, Distinct
<1>5. pc = "polldo" => OffCalls(todo'[Handler])
  BY <1>1, <1>2, <1>3, OffTail, Distinct
<1>6. ASSUME th # Handler
      PROVE  pc \notin {"boot", "exec"}
  BY <1>1, <1>6, Distinct DEF Inv, Hold, Excl, TimerOwns, HandlerOwns, NoTimers, Busy, Threads
<1>7. ASSUME pc = "boot", th = Handler
      PROVE  Booting(todo[Handler])'
  <2>1. CASE todo[Handler] = Startup
    BY <1>2, <1>7, <2>1, ShortLists DEF Booting, Startup
  <2>2. CASE todo[Handler] = <<Startup[2], Startup[3]>>
    BY <1>2, <1>7, <2>2, ShortLists DEF Booting
  <2>3. CASE todo[Handler] = <<Startup[3]>>
    BY <1>2, <1>7, <2>3, ShortLists DEF Booting
  <2> QED
    BY <1>1, <1>3, <1>7, <2>1, <2>2, <2>3 DEF Booting
<1>8. ASSUME pc = "exec", th = Handler
      PROVE  Remainder(req, served, todo[Handler])'
  <2> DEFINE q == todo[Handler]
  <2>0. todo'[Handler] = Tail(q) /\ q # <<>> /\ Remainder(req, served, q) /\ req' = req /\ served' = served
    BY <1>1, <1>2, <1>3, <1>8
  <2>1. CASE \E k : q = <<k>>
    BY <2>0, <2>1, ShortLists DEF Remainder, Beginning
  <2>2. CASE \E c \in Writable(req, served) : q = <<TableCall(c), TriggerCall>>
    BY <2>0, <2>2, ShortLists DEF Remainder, Beginning, Writable
  <2>3. CASE /\ req.mode = "DO"
             /\ q = <<[kind |-> "bit", pin |-> req.pin, on |-> req.on], TriggerCall>>
    BY <2>0, <2>3, ShortLists DEF Remainder, Beginning
  <2>4. CASE /\ req.mode = "FLANGE_MOVE"
             /\ \E c \in Writable(req, served) : q = <<[kind |-> "pose"], TableCall(c), TriggerCall>>
    BY <2>0, <2>4, ShortLists DEF Remainder, Beginning, Writable
  <2>5. CASE req.mode = "CLOSE" /\ q = <<[kind |-> "free"], [kind |-> "close"]>>
    <3>1. todo'[Handler] = <<[kind |-> "close"]>>
      BY <2>0, <2>5, ShortLists
    <3>2. Head(todo[th]).kind = "free"
      BY <1>8, <2>5, ShortLists
    <3>3. ctx' = "freed"
      BY <3>2 DEF DriverStep
    <3> QED
      BY <2>0, <2>5, <3>1, <3>3 DEF Remainder, Beginning
  <2> QED
    BY <2>0, <2>1, <2>2, <2>3, <2>4, <2>5 DEF Remainder, Beginning
<1> QED
  BY <1>1, <1>2, <1>4, <1>5, <1>6, <1>7, <1>8, <1>3 DEF Calling

\* A call leaves the context as it is and reaches the controller once or not at all.
LEMMA CallFacts ==
  ASSUME NEW o, Misuse \/ Call(o)
  PROVE  /\ ctx' = ctx
         /\ misused' = misused \/ (misused' = TRUE /\ ctx = "freed")
         /\ ctx = "freed" => UNCHANGED <<link, faults, controller>>
         /\ UNCHANGED controller \/ Effect(o)
<1>1. CASE Misuse
  BY <1>1 DEF Misuse
<1>2. CASE Call(o)
  BY <1>2 DEF Call
<1> QED
  BY <1>1, <1>2

\* A thread other than the handler calls only outside of requests.
LEMMA WhoCalls ==
  ASSUME Inv, NEW th \in Threads, DriverStep(th)
  PROVE  IF th = Handler THEN pc \in {"boot", "exec", "polldo"} ELSE pc = "idle"
<1>1. pc # "exit" /\ todo[th] # <<>>
  BY DEF DriverStep
<1>2. pc \in Busy \cup {"boot", "idle", "exit"}
  BY DEF Inv, TypeOK, Busy
<1>3. CASE th = Handler
  BY <1>1, <1>3 DEF Inv, Hold, Excl, HandlerOwns
<1>4. CASE th # Handler
  <2>1. th \in Timers /\ tpc[th] = "do" /\ mutex = th
    BY <1>1, <1>4 DEF Inv, Hold, Excl, TimerOwns, Threads
  <2>2. pc \notin Busy /\ pc # "boot"
    BY <2>1, <1>4 DEF Inv, Hold, Excl, HandlerOwns, NoTimers
  <2> QED
    BY <1>1, <1>2, <1>4, <2>2
<1> QED
  BY <1>3, <1>4

\* Only a request makes calls of its own; a timer and the hold loop switch outputs
\* off.
LEMMA OffHead ==
  ASSUME Inv, NEW th \in Threads, DriverStep(th), th # Handler \/ pc = "polldo"
  PROVE  \/ Head(todo[th]).kind = "trigger"
         \/ Head(todo[th]).kind = "bit" /\ Head(todo[th]).on = 0
<1>1. todo[th] \in Seq(Step) /\ todo[th] # <<>>
  BY TodoTyped DEF DriverStep, Inv
<1>2. Head(todo[th]) = todo[th][1] /\ 1 \in DOMAIN todo[th]
  BY <1>1
<1>3. OffCalls(todo[th])
  BY DEF Inv, Flow, Calling, Threads
<1> QED
  BY <1>2, <1>3 DEF OffCalls

\* main connects, and nobody connects again.
LEMMA ConnectsOnce ==
  ASSUME Inv, NEW th \in Threads, DriverStep(th), Head(todo[th]).kind = "connect"
  PROVE  th = Handler /\ pc = "boot" /\ todo[th] = Startup /\ ctx # "freed"
<1>1. th = Handler /\ pc \in {"boot", "exec"}
  BY OffHead, WhoCalls
<1>2. todo[Handler] # <<>>
  BY <1>1 DEF DriverStep
<1>3. ASSUME pc = "exec"
      PROVE  FALSE
  <2>1. Remainder(req, served, todo[Handler])
    BY <1>3 DEF Inv, Flow, Calling
  <2> DEFINE h == Head(todo[Handler])
  <2>2. \/ h = TriggerCall
        \/ \E c : h = TableCall(c)
        \/ h = [kind |-> "bit", pin |-> req.pin, on |-> req.on]
        \/ \E k \in {"excite", "pose", "input", "free", "close"} : h = [kind |-> k]
    BY <1>2, <2>1, ShortLists DEF Remainder, Beginning
  <2>3. h.kind # "connect"
    <3> HIDE DEF h
    <3>1. CASE h = TriggerCall
      BY <3>1 DEF TriggerCall
    <3>2. CASE \E c : h = TableCall(c)
      BY <3>2 DEF TableCall
    <3>3. CASE h = [kind |-> "bit", pin |-> req.pin, on |-> req.on]
      BY <3>3
    <3>4. CASE \E k \in {"excite", "pose", "input", "free", "close"} : h = [kind |-> k]
      BY <3>4
    <3> QED
      BY <2>2, <3>1, <3>2, <3>3, <3>4
  <2> QED
    BY <1>1, <2>3
<1>4. CASE pc = "boot"
  <2>1. Booting(todo[Handler])
    BY <1>4 DEF Inv, Flow, Calling
  <2>2. Startup[2].kind = "table" /\ Startup[3].kind = "excite"
    BY DEF Startup
  <2> QED
    BY <1>1, <1>2, <1>4, <2>1, <2>2, ShortLists DEF Booting
<1> QED
  BY <1>1, <1>3, <1>4

\* A call of the driver keeps Flow.
LEMMA FlowDriver ==
  ASSUME Inv, NEW th \in Threads, DriverStep(th)
  PROVE  Flow'
<1> DEFINE o == Head(todo[th])
<1>1. /\ UNCHANGED <<pc, req, served, tpc, mutex, digital_output, arm_state, command, running, motions>>
      /\ pc \in {"boot", "idle", "exec", "polldo"}
  BY WhoCalls DEF DriverStep, node, Inv
<1>2. Goals'
  <2>1. current_pos' = current_pos \/ current_pos' = served \/ current_pos' = -1
    BY DEF DriverStep, ReadPose
  <2>2. served \in Nat
    BY Constants DEF Inv, TypeOK
  <2>3. current_pos' <= served
    BY <2>1, <2>2 DEF Inv, Flow, Goals
  <2> QED
    BY <1>1, <2>3 DEF Inv, Flow, Goals
<1>3. Untimed'
  <2>1. rerun' = rerun \/ rerun' = (rerun \/ pc = "polldo")
    BY DEF DriverStep, Misuse, Call, Connect, Effect, Trigger, controller
  <2>2. rerun' => AnyTimer
    BY <2>1 DEF Inv, Flow, Untimed
  <2>3. AnyTimer' = AnyTimer
    BY DEF AnyTimer
  <2> QED
    BY <1>1, <2>2, <2>3 DEF Inv, Flow, Untimed
<1>4. Answering'
  <2>1. misused' => ctx' = "freed"
    <3>1. CASE o.kind = "connect" /\ Connect
      <4>1. ctx # "freed"
        BY <3>1, ConnectsOnce
      <4>2. misused' = misused
        BY <3>1 DEF Connect
      <4> QED
        BY <4>1, <4>2 DEF Inv, Flow, Answering
    <3>2. CASE ctx' = "freed"
      BY <3>2
    <3>3. CASE Misuse \/ Call(o)
      <4>1. ctx' = ctx /\ (misused' = misused \/ (misused' = TRUE /\ ctx = "freed"))
        BY <3>3, CallFacts
      <4> QED
        BY <4>1 DEF Inv, Flow, Answering
    <3> QED
      BY <3>1, <3>2, <3>3 DEF DriverStep
  <2>2. AnyTimer' = AnyTimer /\ Holding' = Holding
    BY <1>1 DEF AnyTimer, Holding
  <2> QED
    BY <1>1, <2>1, <2>2 DEF Inv, Flow, Answering, Busy
<1> QED
  BY <1>2, <1>3, <1>4, FlowCalls DEF Flow

-----------------------------------------------------------------------------
(* Flow is preserved: the handler, the timers and the robot *)

\* A command is a table and a trigger.
LEMMA WriteIs ==
  ASSUME NEW name, NEW goal, NEW n
  PROVE  Write(name, goal, n) = <<TableCall([name |-> name, goal |-> goal, for |-> n]), TriggerCall>>
BY DEF Write, TableCall, TriggerCall

\* One call before two.
LEMMA OneBefore ==
  ASSUME NEW a, NEW b, NEW c
  PROVE  <<a>> \o <<b, c>> = <<a, b, c>>
<1> DEFINE S == {a, b, c}
<1>1. <<a>> \in Seq(S) /\ <<b, c>> \in Seq(S) /\ <<a, b, c>> \in Seq(S)
  OBVIOUS
<1>2. Len(<<a>>) = 1 /\ Len(<<b, c>>) = 2 /\ Len(<<a, b, c>>) = 3
  OBVIOUS
<1>3. <<a>> \o <<b, c>> \in Seq(S) /\ Len(<<a>> \o <<b, c>>) = 3
  BY <1>1, <1>2, ConcatProperties
<1>4. \A i \in 1 .. 3 : (<<a>> \o <<b, c>>)[i] = IF i <= 1 THEN <<a>>[i] ELSE <<b, c>>[i - 1]
  BY <1>1, <1>2, ConcatProperties
<1>5. \A i \in 1 .. 3 : (<<a>> \o <<b, c>>)[i] = <<a, b, c>>[i]
  BY <1>4
<1> HIDE DEF S
<1> QED
  BY <1>1, <1>2, <1>3, <1>5, SeqEqual

\* The driver's part of each branch of the handler writes what the request may write.
LEMMA ScriptBegins ==
  ASSUME NEW r \in Request, NEW n \in Nat, command \in 0 .. n
  PROVE  Beginning(r, n, Script(r, n))
<1> USE DEF Modes, Motions, Settings
<1>0. r.mode \in Modes
  BY DEF Request
<1>1. CASE r.mode \in {"PTP", "LINE"}
  <2> DEFINE c == [name |-> r.mode, goal |-> GoalOf(r, n), for |-> n]
  <2>1. Script(r, n) = <<TableCall(c), TriggerCall>>
    BY <1>1, WriteIs DEF Script
  <2>2. IF r.valid THEN GoalOf(r, n) = n ELSE GoalOf(r, n) \in 0 .. n
    BY <1>1 DEF GoalOf
  <2>3. CASE r.valid
    <3>1. c \in Writable(r, n)
      BY <1>1, <2>2, <2>3 DEF Writable
    <3> QED
      BY <1>1, <2>1, <3>1 DEF Beginning
  <2>4. CASE ~r.valid
    <3> DEFINE g == GoalOf(r, n)
    <3>1. g \in 0 .. n
      BY <2>2, <2>4
    <3> HIDE DEF g
    <3>2. [name |-> r.mode, goal |-> g, for |-> n] \in Writable(r, n)
      <4>1. Writable(r, n) = [name : {r.mode}, goal : 0 .. n, for : {n}]
        BY <1>1, <2>4 DEF Writable
      <4> QED
        BY <3>1, <4>1
    <3> QED
      BY <1>1, <2>1, <3>2 DEF Beginning, g
  <2> QED
    BY <2>3, <2>4
<1>2. CASE r.mode \in {"CIRC", "HOME", "JOG", "MOTION_STOP", "SET_BASE"}
  <2> DEFINE c == [name |-> r.mode, goal |-> n, for |-> n]
  <2>1. Script(r, n) = <<TableCall(c), TriggerCall>>
    BY <1>2, WriteIs DEF Script
  <2>2. c \in Writable(r, n)
    BY <1>2 DEF Writable
  <2> QED
    BY <1>2, <2>1, <2>2 DEF Beginning
<1>3. CASE r.mode = "SET_TOOL"
  <2> DEFINE c == [name |-> "SET_BASE", goal |-> n, for |-> n]
  <2>1. Script(r, n) = <<TableCall(c), TriggerCall>>
    BY <1>3, WriteIs DEF Script, ToolOverload
  <2>2. c \in Writable(r, n)
    BY <1>3 DEF Writable
  <2> QED
    BY <1>3, <2>1, <2>2 DEF Beginning
<1>4. CASE r.mode = "DO"
  BY <1>4 DEF Script, SetOutput, Beginning, TriggerCall
<1>5. CASE r.mode \in {"EXCITE", "CHECK", "READ_DI"}
  BY <1>5 DEF Script, Beginning
<1>6. CASE r.mode = "CLOSE"
  BY <1>6 DEF Script, Beginning
<1>7. CASE r.mode = "FLANGE_MOVE" /\ r.valid
  <2> DEFINE c == [name |-> "LINE", goal |-> -1, for |-> n]
  <2>1. Script(r, n) = <<[kind |-> "pose"]>> \o <<TableCall(c), TriggerCall>>
    BY <1>7, WriteIs DEF Script
  <2>2. Script(r, n) = <<[kind |-> "pose"], TableCall(c), TriggerCall>>
    BY <2>1, OneBefore
  <2>3. c \in Writable(r, n)
    BY <1>7 DEF Writable
  <2> QED
    BY <1>7, <2>2, <2>3 DEF Beginning
<1>8. CASE r.mode = "WAITING" \/ (r.mode = "FLANGE_MOVE" /\ ~r.valid)
  BY <1>8 DEF Script, Beginning
<1> QED
  BY <1>0, <1>1, <1>2, <1>3, <1>4, <1>5, <1>6, <1>7, <1>8

\* A request received leaves the list of calls its mode has.
LEMMA FlowReceive ==
  ASSUME Inv, NEW r \in Requests, Receive(r)
  PROVE  Flow'
<1>1. /\ pc = "idle" /\ pc' = "exec" /\ running /\ running' = running
      /\ req' = r /\ served' = served + 1
      /\ mutex' = Handler
      /\ todo' = [todo EXCEPT ![Handler] = Script(r, served + 1)]
      /\ rerun' = FALSE
      /\ UNCHANGED <<tpc, digital_output, current_pos, motions, ctx, misused>>
  BY DEF Receive
<1>2. served \in Nat /\ command \in Nat /\ command <= served /\ current_pos <= served /\ current_pos \in Int
  BY Constants DEF Inv, TypeOK, Flow, Goals
<1>3. Calling'
  <2>1. r \in Request /\ served + 1 \in Nat /\ command \in 0 .. served + 1
    BY <1>2, Constants
  <2>2. Beginning(r, served + 1, Script(r, served + 1))
    BY <2>1, ScriptBegins
  <2>3. todo'[Handler] = Script(r, served + 1) /\ \A t \in Timers : todo'[t] = todo[t]
    BY <1>1, Distinct DEF Inv, Hold, Excl, Shape
  <2>4. Remainder(req, served, todo[Handler])'
    BY <1>1, <2>2, <2>3 DEF Remainder, Beginning
  <2> QED
    BY <1>1, <2>3, <2>4 DEF Inv, Flow, Calling, OffCalls
<1>4. Goals'
  <2>1. command' = command \/ command' = served + 1
    BY DEF Receive, GoalOf
  <2> QED
    BY <1>1, <1>2, <2>1 DEF Inv, Flow, Goals
<1>5. Untimed'
  BY <1>1 DEF Inv, Flow, Untimed, AnyTimer
<1>6. Answering'
  BY <1>1 DEF Inv, Flow, Answering, Busy
<1> QED
  BY <1>3, <1>4, <1>5, <1>6 DEF Flow

\* Reading the arm's state changes no more than the line, and a reading of IDLE
\* comes from a line in step, or from a freed context.
LEMMA ArmStateFacts ==
  ASSUME TypeOK, ReadArmState
  PROVE  /\ ctx' = ctx
         /\ misused' = misused \/ (misused' = TRUE /\ ctx = "freed")
         /\ UNCHANGED controller
         /\ arm_state' = 1 /\ ctx # "freed" => link' = "up"
<1>1. Misuse \/ Call([kind |-> "input"])
  BY DEF ReadArmState
<1>2. Effect([kind |-> "input"]) => UNCHANGED controller
  BY DEF Effect
<1>3. ASSUME arm_state' = 1, ctx # "freed"
      PROVE  link' = "up"
  <2>1. ctx = "open" /\ link = "up" /\ faults' = faults
    BY <1>3 DEF ReadArmState, Answered
  <2>2. Call([kind |-> "input"])
    BY <1>1, <2>1 DEF Misuse
  <2>3. UNCHANGED link \/ faults' = faults + 1
    BY <2>2 DEF Call, Fault
  <2>4. faults \in Nat
    BY DEF TypeOK
  <2> QED
    BY <2>1, <2>3, <2>4
<1> QED
  BY <1>1, <1>2, <1>3, CallFacts

\* What a step leaves alone keeps the parts of Flow that say nothing else.
LEMMA GoalsKept ==
  ASSUME Flow, UNCHANGED <<command, current_pos, served, motions>>
  PROVE  Goals'
BY DEF Flow, Goals

\* Timers appear only in steps that touch these fields.
LEMMA UntimedKept ==
  ASSUME Flow, UNCHANGED <<tpc, digital_output, rerun>>, pc' = "polldo" => pc = "polldo"
  PROVE  Untimed'
BY DEF Flow, Untimed, AnyTimer

\* Outside of start-up, a request and a switch-off there is nothing to keep.
LEMMA CallingKept ==
  ASSUME Flow, UNCHANGED todo, pc' \notin {"boot", "exec", "polldo"}
  PROVE  Calling'
BY DEF Flow, Calling, OffCalls

\* The handler's own steps keep Flow: the branch taken is the one the request asks for.
LEMMA FlowHandler ==
  ASSUME Inv,
         Spin \/ Dispatched \/ Slept \/ Poll
           \/ PollOutput \/ PollOutputDone \/ Check \/ ReadAndReply \/ Crash
  PROVE  Flow'
<1>0. Flow /\ TypeOK
  BY DEF Inv
<1>a. AnyTimer' = AnyTimer
  BY DEF AnyTimer
<1>b. UNCHANGED driver => UNCHANGED <<ctx, link, rerun, misused>>
  BY DEF driver, controller
<1>1. CASE Spin
  <2>1. /\ pc = "boot" /\ pc' = "idle"
        /\ UNCHANGED <<req, served, tpc, mutex, digital_output, arm_state, command,
                       running, todo, current_pos, motions, ctx, link, rerun, misused>>
    BY <1>1, <1>b DEF Spin
  <2>2. Answering'
    BY <1>0, <2>1 DEF Flow, Answering, Busy
  <2> QED
    BY <1>0, <2>1, <2>2, GoalsKept, UntimedKept, CallingKept DEF Flow
<1>2. CASE Dispatched
  <2>1. /\ pc = "exec" /\ pc' = (IF Holding THEN "sleep" ELSE "read")
        /\ running' = (running /\ req.mode # "CLOSE")
        /\ UNCHANGED <<req, served, mutex, digital_output, arm_state, command,
                       todo, current_pos, motions, ctx, link, rerun, misused>>
    BY <1>2, <1>b DEF Dispatched
  <2>2. Answering'
    <3>1. Holding' = Holding /\ running
      BY <1>0, <2>1 DEF Holding, Flow, Answering
    <3>2. running' <=> req.mode # "CLOSE"
      BY <2>1, <3>1
    <3> QED
      BY <1>0, <1>a, <2>1, <3>1, <3>2 DEF Flow, Answering, Busy
  <2>3. Untimed'
    <3>1. UNCHANGED tpc \/ req.timer
      BY <1>2 DEF Dispatched
    <3>2. req.timer => AnyTimer
      BY <1>0 DEF TypeOK, AnyTimer
    <3> QED
      BY <1>0, <1>a, <2>1, <3>1, <3>2 DEF Flow, Untimed
  <2> QED
    BY <1>0, <2>1, <2>2, <2>3, GoalsKept, CallingKept DEF Flow
<1>3. CASE Slept
  <2>1. /\ pc = "sleep" /\ pc' = "poll"
        /\ UNCHANGED <<req, served, tpc, mutex, digital_output, arm_state, command,
                       running, todo, current_pos, motions, ctx, link, rerun, misused>>
    BY <1>3, <1>b DEF Slept
  <2>2. Answering'
    BY <1>0, <2>1 DEF Flow, Answering, Busy, Holding
  <2> QED
    BY <1>0, <2>1, <2>2, GoalsKept, UntimedKept, CallingKept DEF Flow
<1>4. CASE Poll
  <2>1. /\ pc = "poll" /\ pc' = "pollout"
        /\ UNCHANGED <<req, served, tpc, mutex, digital_output, command,
                       running, todo, current_pos, motions>>
        /\ ReadArmState
    BY <1>4 DEF Poll
  <2>2. /\ ctx' = ctx
        /\ misused' = misused \/ (misused' = TRUE /\ ctx = "freed")
        /\ rerun' = rerun
        /\ arm_state' = 1 /\ ctx # "freed" => link' = "up"
    BY <1>0, <2>1, ArmStateFacts DEF controller
  <2>3. Answering'
    BY <1>0, <1>a, <2>1, <2>2 DEF Flow, Answering, Busy, Holding
  <2> QED
    BY <1>0, <2>1, <2>2, <2>3, GoalsKept, UntimedKept, CallingKept DEF Flow
<1>5. CASE PollOutput
  <2>1. /\ pc = "pollout"
        /\ UNCHANGED <<req, served, tpc, mutex, digital_output, arm_state, command,
                       running, current_pos, motions, ctx, link, rerun, misused>>
        /\ \/ pc' = "check" /\ UNCHANGED todo
           \/ /\ pc' = "polldo" /\ digital_output # 0
              /\ todo' = [todo EXCEPT ![Handler] = SetOutput(digital_output, 0)]
    BY <1>5, <1>b DEF PollOutput
  <2>2. Answering'
    BY <1>0, <1>a, <2>1 DEF Flow, Answering, Busy, Holding
  <2>3. Untimed'
    BY <1>0, <1>a, <2>1 DEF Flow, Untimed
  <2>4. CASE pc' = "check" /\ UNCHANGED todo
    BY <1>0, <2>1, <2>2, <2>3, <2>4, GoalsKept, CallingKept DEF Flow
  <2>5. CASE /\ pc' = "polldo" /\ digital_output # 0
             /\ todo' = [todo EXCEPT ![Handler] = SetOutput(digital_output, 0)]
    <3>1. digital_output \in Pins
      BY <1>0, <2>5 DEF TypeOK
    <3>2. todo'[Handler] = SetOutput(digital_output, 0) /\ \A t \in Timers : todo'[t] = todo[t]
      BY <2>5, Distinct DEF Inv, Hold, Excl, Shape
    <3>3. OffCalls(todo'[Handler])
      BY <3>1, <3>2, OffOutput
    <3>4. Calling'
      BY <1>0, <2>5, <3>2, <3>3 DEF Flow, Calling, OffCalls
    <3> QED
      BY <1>0, <2>1, <2>2, <2>3, <3>4, GoalsKept DEF Flow
  <2> QED
    BY <2>1, <2>4, <2>5
<1>6. CASE PollOutputDone
  <2>1. /\ pc = "polldo" /\ pc' = "check" /\ digital_output' = 0
        /\ UNCHANGED <<req, served, tpc, mutex, arm_state, command,
                       running, todo, current_pos, motions, ctx, link, rerun, misused>>
    BY <1>6, <1>b DEF PollOutputDone
  <2>2. Answering'
    BY <1>0, <1>a, <2>1 DEF Flow, Answering, Untimed, Busy, Holding
  <2>3. Untimed'
    BY <1>0, <1>a, <2>1 DEF Flow, Untimed
  <2> QED
    BY <1>0, <2>1, <2>2, <2>3, GoalsKept, CallingKept DEF Flow
<1>7. CASE Check
  <2>1. /\ pc = "check"
        /\ UNCHANGED <<req, served, tpc, digital_output, arm_state, command,
                       running, todo, current_pos, motions, ctx, link, rerun, misused>>
        /\ \/ pc' = (IF running THEN "idle" ELSE "exit") /\ mutex' = Free
           \/ pc' = "poll" /\ UNCHANGED mutex
    BY <1>7, <1>b DEF Check, Reply
  <2>2. Answering'
    BY <1>0, <1>a, <2>1, Distinct DEF Flow, Answering, Busy, Holding
  <2> QED
    BY <1>0, <2>1, <2>2, GoalsKept, UntimedKept, CallingKept DEF Flow
<1>8. CASE ReadAndReply
  <2>1. /\ pc = "read" /\ pc' = (IF running THEN "idle" ELSE "exit") /\ mutex' = Free
        /\ UNCHANGED <<req, served, tpc, digital_output, command,
                       running, todo, current_pos, motions>>
        /\ ReadArmState
    BY <1>8 DEF ReadAndReply, Reply
  <2>2. /\ ctx' = ctx
        /\ misused' = misused \/ (misused' = TRUE /\ ctx = "freed")
        /\ rerun' = rerun
    BY <1>0, <2>1, ArmStateFacts DEF controller
  <2>3. Answering'
    BY <1>0, <1>a, <2>1, <2>2, Distinct DEF Flow, Answering, Busy, Holding
  <2> QED
    BY <1>0, <2>1, <2>2, <2>3, GoalsKept, UntimedKept, CallingKept DEF Flow
<1>9. CASE Crash
  <2>1. /\ pc' = "exit"
        /\ UNCHANGED <<req, served, tpc, mutex, digital_output, arm_state, command,
                       running, todo, current_pos, motions, ctx, link, rerun, misused>>
    BY <1>9, <1>b DEF Crash
  <2>2. Answering'
    BY <1>0, <2>1 DEF Flow, Answering, Busy
  <2> QED
    BY <1>0, <2>1, <2>2, GoalsKept, UntimedKept, CallingKept DEF Flow
<1> QED
  BY <1>1, <1>2, <1>3, <1>4, <1>5, <1>6, <1>7, <1>8, <1>9

\* Only a timed request starts a timer, and only a timer stores a pin.
LEMMA FlowTimer ==
  ASSUME Inv, NEW t \in Timers, pc # "exit",
         Store(t) \/ Lock(t) \/ SwitchOff(t) \/ Unlock(t)
  PROVE  Flow'
<1>1. /\ UNCHANGED <<pc, req, served, arm_state, command, running, current_pos, motions,
                     ctx, link, rerun, misused>>
      /\ tpc[t] # "off"
      /\ mutex' \in {mutex, t, Free}
  BY DEF Store, Lock, SwitchOff, Unlock, handler, driver, controller
<1>2. Goals'
  BY <1>1, GoalsKept DEF Inv
<1>3. AnyTimer /\ AnyTimer'
  BY <1>1 DEF Inv, Flow, Untimed, AnyTimer
<1>4. Untimed'
  BY <1>3 DEF Untimed
<1>5. Answering'
  BY <1>1, <1>3, Distinct DEF Inv, Flow, Answering, Busy, Holding
<1>6. Calling'
  <2>1. CASE UNCHANGED todo
    BY <1>1, <2>1 DEF Inv, Flow, Calling, OffCalls, Booting, Remainder, Beginning
  <2>2. CASE SwitchOff(t)
    <3>1. digital_output \in Pins /\ todo' = [todo EXCEPT ![t] = SetOutput(digital_output, 0)]
      BY <2>2 DEF SwitchOff, Inv, TypeOK
    <3>2. /\ todo'[t] = SetOutput(digital_output, 0)
          /\ \A u \in Threads \ {t} : todo'[u] = todo[u]
      BY <3>1, Distinct DEF Inv, Hold, Excl, Shape
    <3>3. OffCalls(todo'[t])
      BY <3>1, <3>2, OffOutput
    <3>4. todo'[Handler] = todo[Handler] /\ \A u \in Timers : OffCalls(todo'[u])
      BY <3>2, <3>3, Distinct DEF Inv, Flow, Calling
    <3> QED
      BY <1>1, <3>4 DEF Inv, Flow, Calling, OffCalls, Booting, Remainder, Beginning
  <2> QED
    BY <2>1, <2>2 DEF Store, Lock, Unlock
<1> QED
  BY <1>2, <1>4, <1>5, <1>6 DEF Flow

\* The robot performs motions only, and knows nothing of the node.
LEMMA FlowRobot ==
  ASSUME Inv, Take \/ Finish \/ UNCHANGED vars
  PROVE  Flow'
<1>1. UNCHANGED <<pc, req, served, tpc, mutex, digital_output, arm_state, command, running,
                  todo, current_pos, ctx, link, rerun, misused>>
  BY DEF Take, Finish, vars, node, driver, controller
<1>2. motions' \in Seq([name : Motions, goal : Int, for : Nat])
  <2> DEFINE M == [name : Motions, goal : Int, for : Nat]
  <2>0. motions \in Seq(M) /\ inbox \in Seq(Command)
    BY DEF Inv, Flow, Goals, TypeOK
  <2>1. CASE Take
    <3>1. Head(inbox) \in Command
      BY <2>0, <2>1, HeadTailProperties DEF Take
    <3>2. Head(inbox).name \in Motions => Head(inbox) \in M
      BY <3>1 DEF Command
    <3> HIDE DEF M
    <3>3. \/ motions' = motions
          \/ motions' = <<>>
          \/ Head(inbox).name \in Motions /\ motions' = Append(motions, Head(inbox))
      BY <2>1 DEF Take
    <3>4. motions' \in Seq(M)
      <4>1. motions \in Seq(M)
        BY <2>0
      <4>2. CASE motions' = motions \/ motions' = <<>>
        BY <4>1, <4>2, EmptySeq
      <4>3. ASSUME NEW c \in M, motions' = Append(motions, c)
            PROVE  motions' \in Seq(M)
        BY <4>1, <4>3, AppendProperties
      <4> QED
        BY <3>2, <3>3, <4>2, <4>3
    <3> QED
      BY <3>4 DEF M
  <2>2. CASE Finish
    BY <2>0, <2>2, HeadTailProperties DEF Finish
  <2>3. CASE UNCHANGED vars
    BY <2>0, <2>3 DEF vars
  <2> QED
    BY <2>1, <2>2, <2>3
<1>3. Goals'
  BY <1>1, <1>2 DEF Inv, Flow, Goals
<1>4. Untimed'
  BY <1>1, UntimedKept DEF Inv
<1>5. Answering'
  BY <1>1 DEF Inv, Flow, Answering, Holding, AnyTimer
<1>6. Calling'
  BY <1>1 DEF Inv, Flow, Calling, OffCalls, Booting, Remainder, Beginning
<1> QED
  BY <1>3, <1>4, <1>5, <1>6 DEF Flow

\* The node starts with the calls of main before it.
LEMMA FlowInit == Init => Flow
<1> SUFFICES ASSUME Init
             PROVE  Flow
  OBVIOUS
<1>1. todo[Handler] = Startup /\ \A t \in Timers : todo[t] = <<>>
  BY Distinct DEF Init
<1>2. Calling
  BY <1>1, OffEmpty DEF Init, Calling, Booting
<1>3. Goals
  BY EmptySeq DEF Init, Goals
<1>4. Untimed
  BY DEF Init, Untimed
<1>5. Answering
  BY Distinct DEF Init, Answering, Busy
<1> QED
  BY <1>2, <1>3, <1>4, <1>5 DEF Flow

\* Inv is inductive.
LEMMA InvStep == Inv /\ [Next]_vars => Inv'
<1> SUFFICES ASSUME Inv, [Next]_vars
             PROVE  Flow'
  BY TypeStep, HoldStep DEF Inv
<1>1. CASE Take \/ Finish \/ UNCHANGED vars
  BY <1>1, FlowRobot
<1>2. CASE HandlerStep
  BY <1>2, FlowDriver, FlowHandler, Distinct DEF HandlerStep
<1>3. ASSUME NEW t \in Timers, TimerStep(t)
      PROVE  Flow'
  BY <1>3, FlowDriver, FlowTimer, Distinct DEF TimerStep
<1>4. CASE Crash \/ \E r \in Requests : Receive(r)
  BY <1>4, FlowHandler, FlowReceive
<1> QED
  BY <1>1, <1>2, <1>3, <1>4 DEF Next

\* Inv holds when the node starts.
LEMMA InvInit == Init => Inv
  BY TypeInit, HoldInit, FlowInit DEF Inv

-----------------------------------------------------------------------------
(* The contract's state, seen from the node's *)

Moves == motions \o inbox
Link  == IF ctx = "freed" THEN "closed" ELSE link

InRequest == pc \in Busy \/ (pc = "exit" /\ mutex = Handler)
Record    == [mode |-> req.mode, holding |-> Holding, writes |-> Writable(req, served),
              pin |-> req.pin, on |-> req.on]
Starting  == [mode |-> "BOOT", holding |-> FALSE, writes |-> {Startup[2].cmd},
              pin |-> 0, on |-> 0]

\* What the contract sees of the request, by where the handler is.
LEMMA ServingIs ==
  /\ pc = "boot" => Serving = Starting
  /\ pc = "idle" \/ (pc = "exit" /\ mutex # Handler) => Serving = Nobody
  /\ InRequest => Serving = Record
BY DEF Serving, Starting, InRequest, Record, Busy

\* The same after a step.
LEMMA ServingWillBe ==
  /\ pc' = "boot" => Serving' = Starting
  /\ pc' = "idle" \/ (pc' = "exit" /\ mutex' # Handler) => Serving' = Nobody
  /\ InRequest' => Serving' = Record'
BY DEF Serving, Starting, InRequest, Record, Busy

\* A request in progress and the start-up are not a free executor.
LEMMA SomebodyServed ==
  /\ Starting # Nobody
  /\ req \in Request => Record # Nobody
<1>1. Starting # Nobody
  BY DEF Starting, Nobody
<1>2. req \in Request => Record # Nobody
  BY DEF Record, Nobody, Request, Modes, Motions, Settings
<1> QED
  BY <1>1, <1>2

\* A call of the driver, seen on the contract's line.
LEMMA CallLine ==
  ASSUME TypeOK, NEW o, Misuse \/ Call(o)
  PROVE  \E effect \in BOOLEAN : /\ Promise!Line(effect)
                                 /\ effect => Effect(o)
                                 /\ ~effect => UNCHANGED controller
<1>1. CASE Misuse
  <2>1. Promise!Line(FALSE)
    BY <1>1 DEF Misuse, Promise!Line
  <2> QED
    BY <1>1, <2>1 DEF Misuse
<1>2. CASE Call(o)
  <2>0. ctx = "open" /\ ctx' = "open"
    BY <1>2 DEF Call
  <2>1. CASE link \in {"up", "desync"} /\ Effect(o) /\ UNCHANGED link
    <3>1. Promise!Line(TRUE)
      BY <2>0, <2>1 DEF Promise!Line
    <3> QED
      BY <2>1, <3>1
  <2>2. CASE link = "lost" /\ UNCHANGED <<controller, link>>
    <3>1. Promise!Line(FALSE)
      BY <2>0, <2>2 DEF Promise!Line
    <3> QED
      BY <2>2, <3>1
  <2>3. CASE link = "up" /\ link' = "up" /\ UNCHANGED controller
    <3>1. Promise!Line(FALSE)
      BY <2>0, <2>3 DEF Promise!Line
    <3> QED
      BY <2>3, <3>1
  <2>4. CASE link = "up" /\ link' = "desync" /\ Effect(o)
    <3>1. Promise!Line(TRUE)
      BY <2>0, <2>4 DEF Promise!Line
    <3> QED
      BY <2>4, <3>1
  <2>5. CASE link = "up" /\ link' = "lost" /\ (Effect(o) \/ UNCHANGED controller)
    <3>1. Promise!Line(TRUE) /\ Promise!Line(FALSE)
      BY <2>0, <2>5 DEF Promise!Line
    <3> QED
      BY <2>5, <3>1
  <2> QED
    BY <1>2, <2>1, <2>2, <2>3, <2>4, <2>5 DEF Call
<1> QED
  BY <1>1, <1>2

\* A line that stays as it is.
LEMMA LineKept ==
  ASSUME UNCHANGED Link
  PROVE  \E effect \in BOOLEAN : Promise!Line(effect)
<1> DEFINE e == Link \in {"up", "desync"}
<1>1. e \in BOOLEAN /\ Promise!Line(e)
  BY DEF Promise!Line, Link
<1> QED
  BY <1>1

\* How far the contract sees the request to be, by where the handler is.
LEMMA StageIs ==
  /\ pc = "exit" => Stage = "dead"
  /\ pc \in {"idle", "sleep", "poll", "pollout", "polldo", "check", "read"} => Stage = "done"
  /\ pc \in {"boot", "exec"} =>
       Stage = IF todo[Handler] = <<>> THEN "done"
               ELSE IF Head(todo[Handler]).kind = "trigger" THEN "trigger" ELSE "write"
BY DEF Stage

\* The same after a step.
LEMMA StageWillBe ==
  /\ pc' = "exit" => Stage' = "dead"
  /\ pc' \in {"idle", "sleep", "poll", "pollout", "polldo", "check", "read"} => Stage' = "done"
  /\ pc' \in {"boot", "exec"} =>
       Stage' = IF todo'[Handler] = <<>> THEN "done"
                ELSE IF Head(todo'[Handler]).kind = "trigger" THEN "trigger" ELSE "write"
BY DEF Stage

Simulated == Promise!ContractNext \/ UNCHANGED Promise!contract

\* A step that changes nothing of the contract's is none of it.
LEMMA Stutters ==
  ASSUME UNCHANGED <<Serving, Stage, table, fresh, Moves, out, Link>>
  PROVE  Simulated
BY DEF Simulated, Promise!contract, Moves, Link

\* The arm's state is polled.
LEMMA Polls ==
  ASSUME Serving # Nobody, Stage = "done",
         \E effect \in BOOLEAN : Promise!Line(effect),
         UNCHANGED <<Serving, Stage, table, fresh, Moves, out>>
  PROVE  Simulated
<1>1. Promise!Poll
  BY DEF Promise!Poll, Moves
<1> QED
  BY <1>1 DEF Simulated, Promise!ContractNext, Promise!Work

\* A request that need not be held is answered.
LEMMA AnswersFree ==
  ASSUME Serving # Nobody, Stage = "done", ~Serving.holding, Serving' = Nobody,
         Stage' = IF Serving.mode = "CLOSE" THEN "dead" ELSE "done",
         \E effect \in BOOLEAN : Promise!Line(effect),
         UNCHANGED <<table, fresh, Moves, out>>
  PROVE  Simulated
<1>1. Promise!Answer
  BY DEF Promise!Answer, Moves
<1> QED
  BY <1>1 DEF Simulated, Promise!ContractNext, Promise!Work

\* A request that is held is answered.
LEMMA AnswersHeld ==
  ASSUME Serving # Nobody, Stage = "done", Serving.holding, Serving' = Nobody,
         Stage' = IF Serving.mode = "CLOSE" THEN "dead" ELSE "done",
         (Link = "up" /\ Moves = <<>>) \/ Link = "closed" \/ AnyTimer,
         UNCHANGED <<table, fresh, Moves, out, Link>>
  PROVE  Simulated
<1>1. Promise!Answer
  BY DEF Promise!Answer, Moves, Link, AnyTimer
<1> QED
  BY <1>1 DEF Simulated, Promise!ContractNext, Promise!Work

-----------------------------------------------------------------------------
(* The handler's steps *)

\* The parts of Inv that the simulation uses most.
LEMMA InvFacts ==
  ASSUME Inv
  PROVE  /\ req \in Request
         /\ motions \in Seq(Command) /\ inbox \in Seq(Command)
         /\ served \in Nat /\ current_pos \in -1 .. served
         /\ pc \in Busy => mutex = Handler
         /\ pc = "boot" \/ pc = "idle" => mutex # Handler
<1>1. req \in Request
  BY Constants DEF Inv, TypeOK
<1>2. motions \in Seq(Command) /\ inbox \in Seq(Command) /\ served \in Nat
  BY Constants DEF Inv, TypeOK
<1>3. current_pos \in -1 .. served
  BY Constants DEF Inv, TypeOK, Flow, Goals
<1>4. pc \in Busy => mutex = Handler
  BY DEF Inv, Hold, Excl, HandlerOwns
<1>5. pc = "boot" \/ pc = "idle" => mutex # Handler
  BY DEF Inv, Flow, Answering, Busy
<1> QED
  BY <1>1, <1>2, <1>3, <1>4, <1>5

\* A step inside a request that the contract does not see.
LEMMA InsideStutters ==
  ASSUME Inv, UNCHANGED <<req, served, mutex, table, fresh, inbox, motions, out, ctx, link>>,
         pc \in Busy, pc' \in Busy \ {"exec"}, Stage = "done"
  PROVE  Simulated
<1>1. Serving = Record /\ Serving' = Record'
  BY ServingIs, ServingWillBe DEF InRequest
<1>2. Record' = Record
  BY DEF Record, Holding
<1>3. Stage' = "done"
  BY StageWillBe DEF Busy
<1>4. UNCHANGED <<Moves, Link>>
  BY DEF Moves, Link
<1> QED
  BY <1>1, <1>2, <1>3, <1>4, Stutters

\* The handler's own steps are answers, polls or none of the contract's.
LEMMA SimHandler ==
  ASSUME Inv,
         Spin \/ Dispatched \/ Slept \/ Poll
           \/ PollOutput \/ PollOutputDone \/ Check \/ ReadAndReply \/ Crash
  PROVE  Simulated
<1>a. UNCHANGED driver => UNCHANGED <<ctx, link, rerun, misused, table, fresh, inbox, out>>
  BY DEF driver, controller
<1>b. Starting # Nobody /\ Record # Nobody
  BY SomebodyServed, InvFacts
<1>1. CASE Spin
  <2>1. /\ pc = "boot" /\ pc' = "idle" /\ todo[Handler] = <<>>
        /\ UNCHANGED <<table, fresh, inbox, motions, out, ctx, link>>
    BY <1>1, <1>a DEF Spin
  <2>2. Serving = Starting /\ Serving' = Nobody /\ Stage = "done" /\ Stage' = "done"
    BY <2>1, ServingIs, ServingWillBe, StageIs, StageWillBe
  <2>3. UNCHANGED <<Moves, Link>>
    BY <2>1 DEF Moves, Link
  <2>4. \E effect \in BOOLEAN : Promise!Line(effect)
    BY <2>3, LineKept
  <2>5. ~Starting.holding /\ Starting.mode # "CLOSE"
    BY DEF Starting
  <2> QED
    BY <1>b, <2>1, <2>2, <2>3, <2>4, <2>5, AnswersFree
<1>2. CASE Dispatched \/ Slept \/ PollOutput \/ PollOutputDone
  <2>1. /\ UNCHANGED <<req, served, mutex, table, fresh, inbox, motions, out, ctx, link>>
        /\ pc \in Busy /\ pc' \in Busy \ {"exec"}
    BY <1>2, <1>a DEF Dispatched, Slept, PollOutput, PollOutputDone, Busy
  <2>2. Stage = "done"
    BY <1>2, StageIs DEF Dispatched, Slept, PollOutput, PollOutputDone
  <2> QED
    BY <2>1, <2>2, InsideStutters
<1>3. CASE Poll
  <2>1. /\ pc = "poll" /\ pc' = "pollout" /\ ReadArmState
        /\ UNCHANGED <<req, served, mutex, motions>>
    BY <1>3 DEF Poll
  <2>2. UNCHANGED controller
    BY <2>1, ArmStateFacts DEF Inv
  <2>3. \E effect \in BOOLEAN : Promise!Line(effect)
    BY <2>1, CallLine DEF ReadArmState, Inv
  <2>4. Serving = Record /\ Serving' = Record'
    BY <2>1, ServingIs, ServingWillBe DEF InRequest, Busy
  <2>5. Record' = Record /\ UNCHANGED <<table, fresh, Moves, out>>
    BY <2>1, <2>2 DEF Record, Holding, controller, Moves
  <2>6. Stage = "done" /\ Stage' = "done"
    BY <2>1, StageIs, StageWillBe
  <2> QED
    BY <1>b, <2>3, <2>4, <2>5, <2>6, Polls
<1>4. CASE Check
  <2>1. /\ pc = "check"
        /\ UNCHANGED <<req, served, running, table, fresh, inbox, motions, out, ctx, link>>
    BY <1>4, <1>a DEF Check
  <2>2. Serving = Record /\ Stage = "done"
    BY <2>1, ServingIs, StageIs DEF InRequest, Busy
  <2>3. UNCHANGED <<Moves, Link>>
    BY <2>1 DEF Moves, Link
  <2>4. CASE arm_state # 1
    BY <1>4, <2>1, <2>2, <2>4, InsideStutters DEF Check, Busy
  <2>5. CASE arm_state = 1
    <3>1. pc' = (IF running THEN "idle" ELSE "exit") /\ mutex' = Free
      BY <1>4, <2>5 DEF Check, Reply
    <3>2. (running <=> req.mode # "CLOSE") /\ Holding
      BY <2>1 DEF Inv, Flow, Answering, Busy
    <3>3. Serving' = Nobody
      BY <3>1, ServingWillBe, Distinct
    <3>4. Stage' = IF req.mode = "CLOSE" THEN "dead" ELSE "done"
      BY <3>1, <3>2, StageWillBe
    <3>5. (Link = "up" /\ Moves = <<>>) \/ Link = "closed" \/ AnyTimer
      <4>1. ASSUME ~AnyTimer, ctx # "freed"
            PROVE  Link = "up" /\ Moves = <<>>
        <5>1. link = "up" /\ ~rerun /\ ~misused
          BY <2>1, <2>5, <4>1 DEF Inv, Flow, Answering, Untimed
        <5>2. inbox = <<>> /\ motions = <<>>
          BY <2>1, <2>5, <5>1 DEF Inv, Hold, HoldInv
        <5> QED
          BY <4>1, <5>1, <5>2 DEF Link, Moves
      <4> QED
        BY <4>1 DEF Link
    <3>6. Record.holding /\ Record.mode = req.mode
      BY <3>2 DEF Record
    <3> QED
      BY <1>b, <2>1, <2>2, <2>3, <3>3, <3>4, <3>5, <3>6, AnswersHeld
  <2> QED
    BY <2>4, <2>5
<1>5. CASE ReadAndReply
  <2>1. /\ pc = "read" /\ pc' = (IF running THEN "idle" ELSE "exit") /\ mutex' = Free
        /\ UNCHANGED motions
        /\ ReadArmState
    BY <1>5 DEF ReadAndReply, Reply
  <2>2. UNCHANGED controller
    BY <2>1, ArmStateFacts DEF Inv
  <2>3. \E effect \in BOOLEAN : Promise!Line(effect)
    BY <2>1, CallLine DEF ReadArmState, Inv
  <2>4. Serving = Record /\ Stage = "done"
    BY <2>1, ServingIs, StageIs DEF InRequest, Busy
  <2>5. (running <=> req.mode # "CLOSE") /\ ~Holding
    BY <2>1 DEF Inv, Flow, Answering, Busy
  <2>6. Serving' = Nobody
    BY <2>1, ServingWillBe, Distinct
  <2>7. Stage' = IF req.mode = "CLOSE" THEN "dead" ELSE "done"
    BY <2>1, <2>5, StageWillBe
  <2>8. ~Record.holding /\ Record.mode = req.mode
    BY <2>5 DEF Record
  <2>9. UNCHANGED <<table, fresh, Moves, out>>
    BY <2>1, <2>2 DEF controller, Moves
  <2> QED
    BY <1>b, <2>3, <2>4, <2>6, <2>7, <2>8, <2>9, AnswersFree
<1>6. CASE Crash
  <2>1. /\ misused /\ pc # "exit" /\ pc' = "exit"
        /\ UNCHANGED <<req, served, mutex, table, fresh, inbox, motions, out, ctx, link>>
    BY <1>6, <1>a DEF Crash
  <2>2. ctx = "freed"
    BY <2>1 DEF Inv, Flow, Answering
  <2>3. Serving' \in {Serving, Nobody}
    <3>1. CASE pc \in Busy
      <4>1. Serving = Record /\ Serving' = Record'
        BY <2>1, <3>1, ServingIs, ServingWillBe, InvFacts DEF InRequest
      <4>2. Record' = Record
        BY <2>1 DEF Record, Holding
      <4> QED
        BY <4>1, <4>2
    <3>2. CASE pc \notin Busy
      <4>1. mutex' # Handler
        BY <2>1, <3>2, InvFacts DEF Inv, TypeOK, Busy
      <4> QED
        BY <2>1, <4>1, ServingWillBe
    <3> QED
      BY <3>1, <3>2
  <2>4. Stage' = "dead"
    BY <2>1, StageWillBe
  <2>5. Promise!Crash
    BY <2>1, <2>2, <2>3, <2>4 DEF Promise!Crash
  <2> QED
    BY <2>5 DEF Simulated, Promise!ContractNext, Promise!Work
<1> QED
  BY <1>1, <1>2, <1>3, <1>4, <1>5, <1>6

\* A request whose branch makes calls begins with one that is no trigger.
LEMMA BeginningStage ==
  ASSUME NEW r, NEW n \in Nat, NEW q, Beginning(r, n, q)
  PROVE  IF r.mode = "WAITING" \/ (r.mode = "FLANGE_MOVE" /\ Writable(r, n) = {})
           THEN q = <<>>
           ELSE q # <<>> /\ Head(q).kind # "trigger"
<1>1. r.mode = "FLANGE_MOVE" => (Writable(r, n) = {} <=> ~r.valid)
  <2>1. -1 \in -1 .. n
    OBVIOUS
  <2>2. r.mode = "FLANGE_MOVE" /\ r.valid => Writable(r, n) = [name : {"LINE"}, goal : -1 .. n, for : {n}]
    BY DEF Writable
  <2>3. r.mode = "FLANGE_MOVE" /\ r.valid => [name |-> "LINE", goal |-> -1, for |-> n] \in Writable(r, n)
    BY <2>1, <2>2
  <2>4. r.mode = "FLANGE_MOVE" /\ ~r.valid => Writable(r, n) = {}
    BY DEF Writable, Motions
  <2> QED
    BY <2>3, <2>4
<1>2. CASE q = <<>> /\ (r.mode = "WAITING" \/ (r.mode = "FLANGE_MOVE" /\ ~r.valid))
  BY <1>1, <1>2
<1>3. CASE r.mode # "FLANGE_MOVE" /\ \E c \in Writable(r, n) : q = <<TableCall(c), TriggerCall>>
  <2>1. r.mode # "WAITING"
    BY <1>3 DEF Writable
  <2>2. PICK c \in Writable(r, n) : q = <<TableCall(c), TriggerCall>>
    BY <1>3
  <2>3. q # <<>> /\ Head(q) = TableCall(c)
    BY <2>2, ShortLists
  <2>4. TableCall(c).kind = "table"
    BY DEF TableCall
  <2> QED
    BY <1>3, <2>1, <2>3, <2>4
<1>4. CASE r.mode = "DO" /\ q = <<[kind |-> "bit", pin |-> r.pin, on |-> r.on], TriggerCall>>
  <2>1. q # <<>> /\ Head(q).kind = "bit"
    BY <1>4, ShortLists
  <2> QED
    BY <1>4, <2>1
<1>5. CASE /\ r.mode = "FLANGE_MOVE"
           /\ \E c \in Writable(r, n) : q = <<[kind |-> "pose"], TableCall(c), TriggerCall>>
  <2>1. q # <<>> /\ Head(q) = [kind |-> "pose"]
    BY <1>5, ShortLists
  <2>2. Head(q).kind = "pose"
    BY <2>1
  <2> QED
    BY <1>5, <2>1, <2>2
<1>6. CASE /\ r.mode \in {"EXCITE", "CHECK", "READ_DI"}
           /\ \E k \in {"excite", "pose", "input"} : q = <<[kind |-> k]>>
  <2>1. PICK k \in {"excite", "pose", "input"} : q = <<[kind |-> k]>>
    BY <1>6
  <2>2. q # <<>> /\ Head(q).kind = k
    BY <2>1, ShortLists
  <2> QED
    BY <1>6, <2>1, <2>2
<1>7. CASE r.mode = "CLOSE" /\ q = <<[kind |-> "free"], [kind |-> "close"]>>
  <2>1. q # <<>> /\ Head(q).kind = "free"
    BY <1>7, ShortLists
  <2> QED
    BY <1>7, <2>1
<1> QED
  BY <1>2, <1>3, <1>4, <1>5, <1>6, <1>7 DEF Beginning

\* A request received is one the contract begins.
LEMMA SimReceive ==
  ASSUME Inv, NEW r \in Requests, Receive(r)
  PROVE  Simulated
<1>1. /\ pc = "idle" /\ pc' = "exec" /\ req' = r /\ served' = served + 1
      /\ todo' = [todo EXCEPT ![Handler] = Script(r, served + 1)]
      /\ UNCHANGED <<table, fresh, inbox, motions, out, ctx, link>>
  BY DEF Receive
<1>2. Serving = Nobody /\ Stage = "done" /\ Serving' = Record'
  BY <1>1, ServingIs, ServingWillBe, StageIs DEF InRequest, Busy
<1>3. r \in Request /\ served + 1 \in Nat /\ command \in 0 .. served + 1
  BY Constants DEF Inv, TypeOK, Flow, Goals
<1>4. Record' = [mode |-> r.mode, holding |-> (r.holding \/ r.mode = "WAITING"),
                 writes |-> Writable(r, served + 1), pin |-> r.pin, on |-> r.on]
  BY <1>1 DEF Record, Holding
<1>5. Record' # Nobody
  BY <1>3, <1>4 DEF Nobody, Request, Modes, Motions, Settings
<1>6. todo'[Handler] = Script(r, served + 1)
  BY <1>1, Distinct DEF Inv, Hold, Excl, Shape
<1>7. Stage' = IF r.mode = "WAITING" \/ (r.mode = "FLANGE_MOVE" /\ Writable(r, served + 1) = {})
                 THEN "done" ELSE "write"
  <2>1. Beginning(r, served + 1, Script(r, served + 1))
    BY <1>3, ScriptBegins
  <2> QED
    BY <1>1, <1>3, <1>6, <2>1, BeginningStage, StageWillBe
<1>8. Stage' = IF Promise!Calls(Record') THEN "write" ELSE "done"
  BY <1>4, <1>7 DEF Promise!Calls
<1>9. UNCHANGED <<Moves, Link>>
  BY <1>1 DEF Moves, Link
<1>10. Promise!Accept(Serving')
  BY <1>1, <1>2, <1>5, <1>8, <1>9 DEF Promise!Accept, Moves, Link
<1> QED
  BY <1>10 DEF Simulated, Promise!ContractNext

-----------------------------------------------------------------------------
(* The driver's calls *)

\* What a trigger makes of the commands.
LEMMA TriggerRuns ==
  ASSUME Inv, Trigger, UNCHANGED motions
  PROVE  /\ \/ table.name # "NONE" /\ Moves' = Append(Moves, table)
            \/ (table.name = "NONE" \/ ~fresh) /\ Moves' = Moves
         /\ fresh' = FALSE /\ UNCHANGED <<table, out>>
<1>1. table \in Command
  BY DEF Inv, TypeOK
<1>2. motions \o Append(inbox, table) = Append(motions \o inbox, table)
  BY <1>1, InvFacts, ConcatAppend
<1> QED
  BY <1>2 DEF Trigger, Moves

\* A timer, or the hold loop, makes one of the two calls that switch an output off.
LEMMA SimOff ==
  ASSUME Inv, NEW th \in Threads, DriverStep(th), th # Handler \/ pc = "polldo"
  PROVE  Simulated
<1> DEFINE o == Head(todo[th])
<1>1. /\ todo[th] \in Seq(Step) /\ todo[th] # <<>>
      /\ todo' = [todo EXCEPT ![th] = Tail(@)]
      /\ UNCHANGED <<pc, req, served, mutex, motions, tpc>>
  BY TodoTyped DEF DriverStep, node, Inv
<1>2. o \in Step /\ (o.kind = "trigger" \/ (o.kind = "bit" /\ o.on = 0))
  BY <1>1, HeadTailProperties, OffHead
<1>3. Misuse \/ Call(o)
  BY <1>2 DEF DriverStep
<1>4. AnyTimer
  <2>1. CASE pc = "polldo"
    BY <2>1 DEF Inv, Flow, Untimed
  <2>2. CASE th # Handler
    <3>1. th \in Timers /\ tpc[th] = "do"
      BY <1>1, <2>2 DEF Inv, Hold, Excl, TimerOwns, Threads
    <3> QED
      BY <3>1 DEF Inv, Flow, Untimed
  <2> QED
    BY <2>1, <2>2
<1>5. UNCHANGED <<Serving, Stage>>
  <2>1. pc \in {"idle", "polldo"}
    BY WhoCalls
  <2>2. Stage = "done" /\ Stage' = "done"
    BY <1>1, <2>1, StageIs, StageWillBe
  <2>3. CASE pc = "idle"
    BY <1>1, <2>2, <2>3, ServingIs, ServingWillBe
  <2>4. CASE pc = "polldo"
    <3>1. Serving = Record /\ Serving' = Record'
      BY <1>1, <2>4, ServingIs, ServingWillBe DEF InRequest, Busy
    <3> QED
      BY <1>1, <2>2, <3>1 DEF Record, Holding
  <2> QED
    BY <2>1, <2>3, <2>4
<1>6. PICK effect \in BOOLEAN : /\ Promise!Line(effect)
                                /\ effect => Effect(o)
                                /\ ~effect => UNCHANGED controller
  BY <1>3, CallLine DEF Inv
<1> HIDE DEF o
<1>7. CASE ~effect
  <2>1. UNCHANGED <<table, fresh, Moves, out>>
    BY <1>1, <1>6, <1>7 DEF controller, Moves
  <2>2. Promise!TimedOutput
    BY <1>4, <1>5, <1>6, <1>7, <2>1 DEF Promise!TimedOutput, Moves, AnyTimer
  <2> QED
    BY <2>2 DEF Simulated, Promise!ContractNext, Promise!Work
<1>8. CASE effect /\ o.kind = "trigger"
  <2>1. Trigger
    BY <1>6, <1>8 DEF Effect
  <2>2. /\ \/ table.name # "NONE" /\ Moves' = Append(Moves, table)
           \/ (table.name = "NONE" \/ ~fresh) /\ Moves' = Moves
        /\ fresh' = FALSE /\ UNCHANGED <<table, out>>
    BY <1>1, <2>1, TriggerRuns
  <2>3. Promise!RunTable
    BY <2>2 DEF Promise!RunTable, Moves
  <2>4. Promise!TimedOutput
    BY <1>4, <1>5, <1>6, <1>8, <2>2, <2>3 DEF Promise!TimedOutput, Moves, AnyTimer
  <2> QED
    BY <2>4 DEF Simulated, Promise!ContractNext, Promise!Work
<1>9. CASE effect /\ o.kind = "bit" /\ o.on = 0
  <2>1. o.pin \in Pins
    BY <1>2, <1>9 DEF Step
  <2>2. out' = [out EXCEPT ![o.pin] = 0] /\ UNCHANGED <<table, fresh, inbox>>
    BY <1>6, <1>9 DEF Effect
  <2>3. UNCHANGED Moves
    BY <1>1, <2>2 DEF Moves
  <2>4. Promise!TimedOutput
    BY <1>4, <1>5, <1>6, <1>9, <2>1, <2>2, <2>3 DEF Promise!TimedOutput, Moves, AnyTimer
  <2> QED
    BY <2>4 DEF Simulated, Promise!ContractNext, Promise!Work
<1> QED
  BY <1>2, <1>7, <1>8, <1>9

\* main connects, stops the motion and excites.
LEMMA SimBoot ==
  ASSUME Inv, DriverStep(Handler), pc = "boot"
  PROVE  Simulated
<1> DEFINE q == todo[Handler]
           o == Head(q)
           stop == [name |-> "MOTION_STOP", goal |-> 0, for |-> 0]
<1>1. /\ q # <<>> /\ todo'[Handler] = Tail(q)
      /\ UNCHANGED <<pc, req, served, mutex, motions>>
      /\ Booting(q)
  BY Distinct DEF DriverStep, node, Inv, Hold, Excl, Shape, Flow, Calling
<1>2. Serving = Starting /\ Serving' = Starting
  BY <1>1, ServingIs, ServingWillBe
<1>3. /\ Startup = <<[kind |-> "connect"], TableCall(stop), [kind |-> "excite"]>>
      /\ Startup[2] = TableCall(stop) /\ Startup[3] = [kind |-> "excite"]
  BY DEF Startup, TableCall
<1>4. Starting.writes = {stop} /\ Starting.mode = "BOOT" /\ Starting # Nobody
  BY <1>3, SomebodyServed DEF Starting, TableCall
<1> HIDE DEF stop
<1>5. CASE q = Startup /\ ctx # "freed"
  <2>1. o.kind = "connect" /\ Tail(q) = <<TableCall(stop), [kind |-> "excite"]>>
    BY <1>3, <1>5, ShortLists
  <2>2. Stage = "write"
    BY <1>1, <1>5, <2>1, StageIs
  <2>3. Head(todo'[Handler]) = TableCall(stop) /\ todo'[Handler] # <<>>
    <3>1. todo'[Handler] = <<TableCall(stop), [kind |-> "excite"]>>
      BY <1>1, <2>1
    <3> QED
      BY <3>1, ShortLists
  <2>4. Stage' = "write"
    BY <1>1, <1>5, <2>3, StageWillBe DEF TableCall
  <2>5. Connect
    BY <2>1 DEF DriverStep
  <2>6. UNCHANGED <<table, fresh, Moves, out>>
    BY <1>1, <2>5 DEF Connect, controller, Moves
  <2>7. Link' = "closed" \/ \E effect \in BOOLEAN : Promise!Line(effect)
    <3>1. Link' = "closed" \/ Link' = Link
      BY <1>5, <2>5 DEF Connect, Link
    <3> QED
      BY <3>1, LineKept
  <2>8. Promise!BootCall
    BY <1>2, <1>4, <2>2, <2>4, <2>6, <2>7 DEF Promise!BootCall, Moves, Link
  <2> QED
    BY <2>8 DEF Simulated, Promise!ContractNext, Promise!Work
<1>6. CASE q = <<TableCall(stop), [kind |-> "excite"]>>
  <2>1. o = TableCall(stop) /\ Tail(q) = <<[kind |-> "excite"]>>
    BY <1>6, ShortLists
  <2>2. Stage = "write"
    BY <1>1, <1>6, <2>1, StageIs DEF TableCall
  <2>3. Head(todo'[Handler]) = [kind |-> "excite"] /\ todo'[Handler] # <<>>
    BY <1>1, <2>1, ShortLists
  <2>4. Stage' = "write"
    BY <1>1, <1>6, <2>3, StageWillBe
  <2>5. Misuse \/ Call(o)
    BY <2>1 DEF DriverStep, TableCall
  <2>6. PICK effect \in BOOLEAN : /\ Promise!Line(effect)
                                  /\ effect => Effect(o)
                                  /\ ~effect => UNCHANGED controller
    BY <2>5, CallLine DEF Inv
  <2>7. Effect(o) => table' = stop /\ fresh' = TRUE /\ UNCHANGED <<inbox, out>>
    BY <2>1 DEF Effect, TableCall, stop
  <2>8. /\ UNCHANGED <<Moves, out>>
        /\ UNCHANGED <<table, fresh>> \/ (table' \in {stop} /\ fresh' = TRUE)
    BY <1>1, <2>6, <2>7 DEF Moves, controller
  <2>9. Promise!BootCall
    BY <1>2, <1>4, <2>2, <2>4, <2>6, <2>8 DEF Promise!BootCall, Moves, Link
  <2> QED
    BY <2>9 DEF Simulated, Promise!ContractNext, Promise!Work
<1>7. CASE q = <<[kind |-> "excite"]>>
  <2>1. o = [kind |-> "excite"] /\ Tail(q) = <<>>
    BY <1>7, ShortLists
  <2>2. Stage = "write" /\ Stage' = "done"
    BY <1>1, <1>7, <2>1, StageIs, StageWillBe
  <2>5. Misuse \/ Call(o)
    BY <2>1 DEF DriverStep
  <2>6. PICK effect \in BOOLEAN : /\ Promise!Line(effect)
                                  /\ effect => Effect(o)
                                  /\ ~effect => UNCHANGED controller
    BY <2>5, CallLine DEF Inv
  <2>7. UNCHANGED controller
    BY <2>1, <2>6 DEF Effect
  <2>8. UNCHANGED <<table, fresh, Moves, out>>
    BY <1>1, <2>7 DEF Moves, controller
  <2>9. Promise!BootCall
    BY <1>2, <1>4, <2>2, <2>6, <2>8 DEF Promise!BootCall, Moves, Link
  <2> QED
    BY <2>9 DEF Simulated, Promise!ContractNext, Promise!Work
<1> QED
  BY <1>1, <1>3, <1>5, <1>6, <1>7 DEF Booting

\* The command in the table is one the request may write: a FLANGE_MOVE's takes
\* the pose read before.
LEMMA WritesOwn ==
  ASSUME Inv, NEW c \in Writable(req, served)
  PROVE  (IF c.goal = -1 THEN [c EXCEPT !.goal = current_pos] ELSE c) \in Writable(req, served)
<1>1. served \in Nat /\ current_pos \in -1 .. served
  BY InvFacts
<1>2. CASE req.mode = "FLANGE_MOVE"
  <2>1. Writable(req, served) = [name : {"LINE"}, goal : -1 .. served, for : {served}]
    BY <1>2 DEF Writable, Motions
  <2> QED
    BY <1>1, <2>1
<1>3. CASE req.mode # "FLANGE_MOVE"
  <2>1. \A g : g \in {served} \/ g \in 0 .. served => g # -1
    BY <1>1
  <2>2. c.goal \in {served} \/ c.goal \in 0 .. served
    BY <1>1, <1>3 DEF Writable
  <2> QED
    BY <2>1, <2>2
<1> QED
  BY <1>2, <1>3

\* A request makes the next of its calls.
LEMMA SimExec ==
  ASSUME Inv, DriverStep(Handler), pc = "exec"
  PROVE  Simulated
<1> DEFINE q == todo[Handler]
           o == Head(q)
           W == Writable(req, served)
<1>1. /\ q # <<>> /\ todo'[Handler] = Tail(q)
      /\ UNCHANGED <<pc, req, served, mutex, motions>>
      /\ Remainder(req, served, q)
  BY Distinct DEF DriverStep, node, Inv, Hold, Excl, Shape, Flow, Calling
<1>2. Serving = Record /\ Serving' = Record
  <2>1. Serving = Record /\ Serving' = Record'
    BY <1>1, ServingIs, ServingWillBe DEF InRequest, Busy
  <2> QED
    BY <1>1, <2>1 DEF Record, Holding
<1>3. /\ Record.mode = req.mode /\ Record.writes = W /\ Record.pin = req.pin /\ Record.on = req.on
      /\ Record # Nobody /\ req.mode # "BOOT"
  BY InvFacts, SomebodyServed DEF Record, Request, Modes, Motions, Settings
<1>4. ASSUME Misuse \/ Call(o)
      PROVE  \E effect \in BOOLEAN : /\ Promise!Line(effect)
                                     /\ effect => Effect(o)
                                     /\ ~effect => UNCHANGED controller
  BY <1>4, CallLine DEF Inv
<1>5. CASE q = <<TriggerCall>>
  <2>1. o = TriggerCall /\ Tail(q) = <<>> /\ o.kind = "trigger"
    BY <1>5, ShortLists DEF TriggerCall
  <2>2. Stage = "trigger" /\ Stage' = "done"
    BY <1>1, <2>1, StageIs, StageWillBe
  <2>3. PICK effect \in BOOLEAN : /\ Promise!Line(effect)
                                  /\ effect => Effect(o)
                                  /\ ~effect => UNCHANGED controller
    BY <1>4, <2>1 DEF DriverStep
  <2>4. CASE effect
    <3>1. Trigger
      BY <2>1, <2>3, <2>4 DEF Effect
    <3>2. /\ \/ table.name # "NONE" /\ Moves' = Append(Moves, table)
             \/ (table.name = "NONE" \/ ~fresh) /\ Moves' = Moves
          /\ fresh' = FALSE /\ UNCHANGED <<table, out>>
      BY <1>1, <3>1, TriggerRuns
    <3>3. Promise!RunTable
      BY <3>2 DEF Promise!RunTable, Moves
    <3>4. Promise!Trigger
      BY <1>2, <1>3, <2>2, <2>3, <2>4, <3>2, <3>3 DEF Promise!Trigger
    <3> QED
      BY <3>4 DEF Simulated, Promise!ContractNext, Promise!Work
  <2>5. CASE ~effect
    <3>1. UNCHANGED <<table, fresh, Moves, out>>
      BY <1>1, <2>3, <2>5 DEF controller, Moves
    <3>2. Promise!Trigger
      BY <1>2, <1>3, <2>2, <2>3, <2>5, <3>1 DEF Promise!Trigger, Moves
    <3> QED
      BY <3>2 DEF Simulated, Promise!ContractNext, Promise!Work
  <2> QED
    BY <2>4, <2>5
<1>6. CASE \E c \in W : q = <<TableCall(c), TriggerCall>>
  <2>0. PICK c \in W : q = <<TableCall(c), TriggerCall>>
    BY <1>6
  <2>1. o = TableCall(c) /\ todo'[Handler] = <<TriggerCall>> /\ o.kind = "table" /\ o.cmd = c
    BY <1>1, <2>0, ShortLists DEF TableCall
  <2>2. Stage = "write" /\ Stage' = "trigger"
    <3>1. todo'[Handler] # <<>> /\ Head(todo'[Handler]) = TriggerCall
      BY <2>1, ShortLists
    <3>2. Head(todo'[Handler]).kind = "trigger"
      BY <3>1 DEF TriggerCall
    <3> QED
      BY <1>1, <2>1, <3>1, <3>2, StageIs, StageWillBe
  <2>3. PICK effect \in BOOLEAN : /\ Promise!Line(effect)
                                  /\ effect => Effect(o)
                                  /\ ~effect => UNCHANGED controller
    BY <1>4, <2>1 DEF DriverStep
  <2>4. effect => table' \in W /\ fresh' = TRUE /\ UNCHANGED <<inbox, out>>
    BY <2>1, <2>3, WritesOwn DEF Effect
  <2>5. ~effect => UNCHANGED <<table, fresh, inbox, out>>
    BY <2>3 DEF controller
  <2>6. UNCHANGED <<Moves, out>>
    BY <1>1, <2>4, <2>5 DEF Moves
  <2>7. W # {} /\ req.mode \notin {"CLOSE", "DO"}
    BY <2>0 DEF Writable, Motions
  <2>8. Promise!Acts(Record)
    BY <1>3, <2>7 DEF Promise!Acts
  <2>9. Promise!Write(effect)
    BY <1>2, <1>3, <2>2, <2>3, <2>4, <2>5, <2>6, <2>7, <2>8 DEF Promise!Write, Moves
  <2> QED
    BY <2>9 DEF Simulated, Promise!ContractNext, Promise!Work
<1>7. CASE req.mode = "DO" /\ q = <<[kind |-> "bit", pin |-> req.pin, on |-> req.on], TriggerCall>>
  <2>1. /\ o = [kind |-> "bit", pin |-> req.pin, on |-> req.on] /\ todo'[Handler] = <<TriggerCall>>
        /\ o.kind = "bit" /\ o.pin = req.pin /\ o.on = req.on
    BY <1>1, <1>7, ShortLists
  <2>2. Stage = "write" /\ Stage' = "trigger"
    <3>1. todo'[Handler] # <<>> /\ Head(todo'[Handler]) = TriggerCall
      BY <2>1, ShortLists
    <3>2. Head(todo'[Handler]).kind = "trigger"
      BY <3>1 DEF TriggerCall
    <3> QED
      BY <1>1, <2>1, <3>1, <3>2, StageIs, StageWillBe
  <2>3. PICK effect \in BOOLEAN : /\ Promise!Line(effect)
                                  /\ effect => Effect(o)
                                  /\ ~effect => UNCHANGED controller
    BY <1>4, <2>1 DEF DriverStep
  <2>4. effect => out' = [out EXCEPT ![req.pin] = req.on] /\ UNCHANGED <<table, fresh, inbox>>
    BY <2>1, <2>3 DEF Effect
  <2>5. ~effect => UNCHANGED <<table, fresh, inbox, out>>
    BY <2>3 DEF controller
  <2>6. UNCHANGED <<Moves, table, fresh>>
    BY <1>1, <2>4, <2>5 DEF Moves
  <2>7. W = {}
    BY <1>7 DEF Writable, Motions
  <2>8. Promise!Acts(Record)
    BY <1>3, <1>7 DEF Promise!Acts
  <2>9. Promise!Write(effect)
    BY <1>2, <1>3, <1>7, <2>2, <2>3, <2>4, <2>5, <2>6, <2>7, <2>8 DEF Promise!Write, Moves
  <2> QED
    BY <2>9 DEF Simulated, Promise!ContractNext, Promise!Work
<1>8. CASE req.mode = "FLANGE_MOVE" /\ \E c \in W : q = <<[kind |-> "pose"], TableCall(c), TriggerCall>>
  <2>0. PICK c \in W : q = <<[kind |-> "pose"], TableCall(c), TriggerCall>>
    BY <1>8
  <2>1. o = [kind |-> "pose"] /\ todo'[Handler] = <<TableCall(c), TriggerCall>> /\ o.kind = "pose"
    BY <1>1, <2>0, ShortLists
  <2>2. Stage = "write" /\ Stage' = "write"
    <3>1. todo'[Handler] # <<>> /\ Head(todo'[Handler]) = TableCall(c)
      BY <2>1, ShortLists
    <3>2. Head(todo'[Handler]).kind = "table"
      BY <3>1 DEF TableCall
    <3> QED
      BY <1>1, <2>1, <3>1, <3>2, StageIs, StageWillBe
  <2>3. PICK effect \in BOOLEAN : /\ Promise!Line(effect)
                                  /\ effect => Effect(o)
                                  /\ ~effect => UNCHANGED controller
    BY <1>4, <2>1 DEF DriverStep
  <2>4. UNCHANGED <<table, fresh, Moves, out>>
    BY <1>1, <2>1, <2>3 DEF Effect, controller, Moves
  <2>5. Promise!Prepare
    BY <1>2, <1>3, <1>8, <2>2, <2>3, <2>4 DEF Promise!Prepare, Moves
  <2> QED
    BY <2>5 DEF Simulated, Promise!ContractNext, Promise!Work
<1>9. CASE /\ req.mode \in {"EXCITE", "CHECK", "READ_DI"}
           /\ \E k \in {"excite", "pose", "input"} : q = <<[kind |-> k]>>
  <2>0. PICK k \in {"excite", "pose", "input"} : q = <<[kind |-> k]>>
    BY <1>9
  <2>1. o.kind = k /\ todo'[Handler] = <<>>
    BY <1>1, <2>0, ShortLists
  <2>2. Stage = "write" /\ Stage' = "done"
    BY <1>1, <2>1, StageIs, StageWillBe
  <2>3. PICK effect \in BOOLEAN : /\ Promise!Line(effect)
                                  /\ effect => Effect(o)
                                  /\ ~effect => UNCHANGED controller
    BY <1>4, <2>1 DEF DriverStep
  <2>4. UNCHANGED <<table, fresh, Moves, out>>
    BY <1>1, <2>1, <2>3 DEF Effect, controller, Moves
  <2>5. W = {}
    BY <1>9 DEF Writable, Motions
  <2>6. ~Promise!Acts(Record)
    BY <1>3, <1>9, <2>5 DEF Promise!Acts
  <2>7. Promise!Write(effect)
    BY <1>2, <1>3, <1>9, <2>2, <2>3, <2>4, <2>5, <2>6 DEF Promise!Write, Moves
  <2> QED
    BY <2>7 DEF Simulated, Promise!ContractNext, Promise!Work
<1>10. CASE req.mode = "CLOSE" /\ q = <<[kind |-> "free"], [kind |-> "close"]>>
  <2>1. o.kind = "free" /\ todo'[Handler] = <<[kind |-> "close"]>>
    BY <1>1, <1>10, ShortLists
  <2>2. Stage = "write" /\ Stage' = "write"
    <3>1. todo'[Handler] # <<>> /\ Head(todo'[Handler]) = [kind |-> "close"]
      BY <2>1, ShortLists
    <3>2. Head(todo'[Handler]).kind = "close"
      BY <3>1
    <3> QED
      BY <1>1, <2>1, <3>1, <3>2, StageIs, StageWillBe
  <2>3. ctx' = "freed" /\ UNCHANGED controller
    BY <2>1 DEF DriverStep
  <2>4. UNCHANGED <<table, fresh, Moves, out>>
    BY <1>1, <2>3 DEF controller, Moves
  <2>5. Promise!Prepare
    BY <1>2, <1>3, <1>10, <2>2, <2>3, <2>4 DEF Promise!Prepare, Moves
  <2> QED
    BY <2>5 DEF Simulated, Promise!ContractNext, Promise!Work
<1>11. CASE req.mode = "CLOSE" /\ q = <<[kind |-> "close"]>> /\ ctx = "freed"
  <2>1. o.kind = "close" /\ todo'[Handler] = <<>>
    BY <1>1, <1>11, ShortLists
  <2>2. Stage = "write" /\ Stage' = "done"
    BY <1>1, <2>1, StageIs, StageWillBe
  <2>3. Misuse
    BY <1>11, <2>1 DEF DriverStep, Call
  <2>4. UNCHANGED <<table, fresh, Moves, out>> /\ ctx' = "freed"
    BY <1>1, <1>11, <2>3 DEF Misuse, controller, Moves
  <2>5. W = {}
    BY <1>11 DEF Writable, Motions
  <2>6. ~Promise!Acts(Record)
    BY <1>3, <1>11, <2>5 DEF Promise!Acts
  <2>7. Promise!Write(FALSE)
    BY <1>2, <1>3, <1>11, <2>2, <2>4, <2>5, <2>6 DEF Promise!Write, Moves
  <2> QED
    BY <2>7 DEF Simulated, Promise!ContractNext, Promise!Work
<1> QED
  BY <1>1, <1>5, <1>6, <1>7, <1>8, <1>9, <1>10, <1>11 DEF Remainder, Beginning

-----------------------------------------------------------------------------
(* The robot, and the whole *)

\* The robot's steps are the contract's.
LEMMA SimRobot ==
  ASSUME Inv, Take \/ Finish \/ UNCHANGED vars
  PROVE  Simulated
<1>1. UNCHANGED <<pc, req, served, mutex, todo, ctx, link, table, fresh, out>>
  BY DEF Take, Finish, vars, node, driver, controller
<1>2. UNCHANGED <<Serving, Stage, Link>>
  BY <1>1 DEF Serving, Stage, Holding, Link
<1>3. motions \in Seq(Command) /\ inbox \in Seq(Command)
  BY InvFacts
<1>4. CASE Take
  <2> DEFINE c == Head(inbox)
             i == Len(motions) + 1
  <2>1. inbox # <<>> /\ inbox' = Tail(inbox)
    BY <1>4 DEF Take
  <2>2. /\ i \in DOMAIN Moves /\ Moves[i] = c
        /\ SubSeq(Moves, 1, i - 1) = motions
        /\ SubSeq(Moves, i + 1, Len(Moves)) = Tail(inbox)
    BY <1>3, <2>1, ConcatParts DEF Moves
  <2>3. CASE c.name \in Motions
    <3>1. motions' = Append(motions, c)
      BY <1>4, <2>3 DEF Take, Motions
    <3>2. Moves' = Moves
      BY <1>3, <2>1, <3>1, ConcatMoves DEF Moves
    <3> QED
      BY <1>1, <1>2, <3>2, Stutters
  <2>4. CASE c.name = "MOTION_STOP"
    <3>1. motions' = <<>>
      BY <1>4, <2>4 DEF Take, Motions
    <3>2. Tail(inbox) \in Seq(Command)
      BY <1>3, <2>1, HeadTailProperties
    <3>3. Moves' = Tail(inbox)
      BY <2>1, <3>1, <3>2, ConcatEmptySeq DEF Moves
    <3>4. Promise!TakeSetting
      BY <1>1, <1>2, <2>2, <2>4, <3>3 DEF Promise!TakeSetting, Moves, Link
    <3> QED
      BY <3>4 DEF Simulated, Promise!ContractNext, Promise!Work
  <2>5. CASE c.name \notin Motions \cup {"MOTION_STOP"}
    <3>1. motions' = motions
      BY <1>4, <2>5 DEF Take
    <3>2. Moves' = SubSeq(Moves, 1, i - 1) \o SubSeq(Moves, i + 1, Len(Moves))
      BY <2>1, <2>2, <3>1 DEF Moves
    <3>3. c.name \notin Promise!Motions \cup {"MOTION_STOP"}
      BY <2>5 DEF Motions, Promise!Motions
    <3>4. Promise!TakeSetting
      BY <1>1, <1>2, <2>2, <3>2, <3>3 DEF Promise!TakeSetting, Moves, Link
    <3> QED
      BY <3>4 DEF Simulated, Promise!ContractNext, Promise!Work
  <2> QED
    BY <2>3, <2>4, <2>5
<1>5. CASE Finish
  <2>1. motions # <<>> /\ Head(motions).name # "JOG" /\ motions' = Tail(motions) /\ inbox' = inbox
    BY <1>5 DEF Finish, driver, controller
  <2>2. Head(motions).name \in Motions
    <3>1. motions \in Seq([name : Motions, goal : Int, for : Nat])
      BY DEF Inv, Flow, Goals
    <3>2. Head(motions) \in [name : Motions, goal : Int, for : Nat]
      BY <2>1, <3>1, HeadTailProperties
    <3> QED
      BY <3>2
  <2>3. Moves # <<>> /\ Head(Moves) = Head(motions) /\ Moves' = Tail(Moves)
    BY <1>3, <2>1, ConcatFirst DEF Moves
  <2>4. Head(Moves).name \in Promise!Motions \ {"JOG"}
    BY <2>1, <2>2, <2>3 DEF Motions, Promise!Motions
  <2>5. Promise!Perform
    BY <1>1, <1>2, <2>3, <2>4 DEF Promise!Perform, Moves, Link
  <2> QED
    BY <2>5 DEF Simulated, Promise!ContractNext, Promise!Work
<1>6. CASE UNCHANGED vars
  <2>1. UNCHANGED Moves
    BY <1>6 DEF vars, controller, Moves
  <2> QED
    BY <1>1, <1>2, <2>1, Stutters
<1> QED
  BY <1>4, <1>5, <1>6

\* A timer's other steps are its own.
LEMMA SimTimer ==
  ASSUME Inv, NEW t \in Timers, pc # "exit",
         Store(t) \/ Lock(t) \/ SwitchOff(t) \/ Unlock(t)
  PROVE  Simulated
<1>1. UNCHANGED <<pc, req, served, motions, inbox, table, fresh, out, ctx, link>>
  BY DEF Store, Lock, SwitchOff, Unlock, handler, driver, controller
<1>2. todo'[Handler] = todo[Handler]
  BY Distinct DEF Store, Lock, SwitchOff, Unlock, Inv, Hold, Excl, Shape
<1>3. UNCHANGED <<Serving, Stage>>
  BY <1>1, <1>2 DEF Serving, Stage, Holding
<1>4. UNCHANGED <<Moves, Link>>
  BY <1>1 DEF Moves, Link
<1> QED
  BY <1>1, <1>3, <1>4, Stutters

\* Every step of the node is a step of the contract or none.
LEMMA SimStep == Inv /\ [Next]_vars => Simulated
<1> SUFFICES ASSUME Inv, [Next]_vars
             PROVE  Simulated
  OBVIOUS
<1>1. ASSUME NEW th \in Threads, DriverStep(th)
      PROVE  Simulated
  <2>1. th = Handler => pc \in {"boot", "exec", "polldo"}
    BY <1>1, WhoCalls
  <2> QED
    BY <1>1, <2>1, SimBoot, SimExec, SimOff
<1>2. CASE Take \/ Finish \/ UNCHANGED vars
  BY <1>2, SimRobot
<1>3. CASE HandlerStep
  BY <1>1, <1>3, SimHandler, Distinct DEF HandlerStep
<1>4. ASSUME NEW t \in Timers, TimerStep(t)
      PROVE  Simulated
  BY <1>1, <1>4, SimTimer, Distinct DEF TimerStep
<1>5. CASE Crash \/ \E r \in Requests : Receive(r)
  BY <1>5, SimHandler, SimReceive
<1> QED
  BY <1>2, <1>3, <1>4, <1>5 DEF Next

\* The node starts as the contract does.
LEMMA SimInit == Init => Promise!ContractInit
<1> SUFFICES ASSUME Init
             PROVE  Promise!ContractInit
  OBVIOUS
<1>1. pc = "boot" /\ todo[Handler] = Startup /\ ctx = "none"
  BY Distinct DEF Init
<1>2. Serving = Starting
  BY <1>1, ServingIs
<1>3. Startup # <<>> /\ Head(Startup).kind = "connect"
  BY ShortLists DEF Startup
<1>4. Stage = "write"
  BY <1>1, <1>3, StageIs
<1>5. motions \o inbox = <<>>
  BY EmptySeq, ConcatEmptySeq DEF Init
<1>6. table.name = "NONE"
  BY DEF Init, NoCommand
<1>7. Starting.mode = "BOOT" /\ Starting.holding = FALSE
  BY DEF Starting
<1> QED
  BY <1>1, <1>2, <1>4, <1>5, <1>6, <1>7 DEF Init, Promise!ContractInit

\* The service node keeps its contract for any requests, any number of timers and
\* any calls that fail: a request writes its own command and triggers it at most
\* once, whoever else runs, and a held one is answered when the line is in step
\* and nothing is left to perform, timed outputs and a freed context apart.
THEOREM NodeKeepsContract == Spec => KeepsContract
<1>1. Inv /\ [Next]_vars => [Promise!ContractNext]_(Promise!contract)
  BY SimStep DEF Simulated
<1> QED
  BY <1>1, InvInit, InvStep, SimInit, PTL DEF Spec, KeepsContract, Promise!Contract

-----------------------------------------------------------------------------
(* On a faultless line the commands of untimed requests reach the robot in the *)
(* order of the requests.                                                    *)

\* A command on its way is older than the table's, or is the table's, triggered.
Entries(m) ==
  \A i \in DOMAIN m : m[i].for < table.for \/ (m[i] = table /\ ~fresh)

\* One command is older than the next, or is the same, triggered again by a later
\* request.
Pairs(m) ==
  \A i, j \in DOMAIN m :
    i < j => m[i].for < m[j].for \/ (m[i] = m[j] /\ served > m[i].for)

\* The handler writes its request's table over an older one and then triggers it.
Pending ==
  pc = "exec" /\ todo[Handler] # <<>> /\ ctx = "open" =>
    \/ table.for < served
    \/ todo[Handler] = <<TriggerCall>> /\ fresh /\ table.for = served

Order ==
  faults = 0 => /\ link = "up"
                /\ table.for <= served
                /\ Entries(Moves)
                /\ Pairs(Moves)
                /\ pc = "boot" => Moves = <<>>
                /\ Pending

\* Fewer commands on their way are still in order.
LEMMA OrderThinned ==
  ASSUME NEW l, NEW m, Thinned(m, l), Entries(l), Pairs(l)
  PROVE  Entries(m) /\ Pairs(m)
<1>1. PICK f \in [DOMAIN m -> DOMAIN l] :
        /\ \A i \in DOMAIN m : m[i] = l[f[i]]
        /\ \A i, j \in DOMAIN m : i < j => f[i] < f[j]
  BY DEF Thinned
<1>2. \A i \in DOMAIN m : f[i] \in DOMAIN l
  OBVIOUS
<1>3. Entries(m)
  BY <1>1, <1>2 DEF Entries
<1>4. Pairs(m)
  BY <1>1, <1>2 DEF Pairs
<1> QED
  BY <1>3, <1>4

\* Another command goes behind the ones on their way.
LEMMA OrderAppended ==
  ASSUME NEW m \in Seq(Command), table \in Command, served \in Nat, fresh \in BOOLEAN,
         Entries(m), Pairs(m),
         table.for < served \/ (fresh /\ table.for = served)
  PROVE  LET l == Append(m, table)
         IN /\ \A i \in DOMAIN l : l[i].for < table.for \/ l[i] = table
            /\ Pairs(l)
<1> DEFINE l == Append(m, table)
           n == Len(m)
<1>1. /\ n \in Nat /\ DOMAIN m = 1 .. n /\ DOMAIN l = 1 .. n + 1
      /\ \A i \in 1 .. n : l[i] = m[i]
      /\ l[n + 1] = table
  BY AppendProperties, LenProperties
<1> HIDE DEF l, n
<1>2. \A i \in 1 .. n + 1 : i \in 1 .. n \/ i = n + 1
  BY <1>1
<1>3. \A i \in DOMAIN l : l[i].for < table.for \/ l[i] = table
  BY <1>1, <1>2 DEF Entries
<1>4. ASSUME NEW i \in DOMAIN l, NEW j \in DOMAIN l, i < j
      PROVE  l[i].for < l[j].for \/ (l[i] = l[j] /\ served > l[i].for)
  <2>1. i \in 1 .. n
    BY <1>1, <1>4
  <2>2. CASE j \in 1 .. n
    BY <1>1, <1>4, <2>1, <2>2 DEF Pairs
  <2>3. CASE j = n + 1
    <3>1. m[i].for < table.for \/ (m[i] = table /\ ~fresh)
      BY <1>1, <2>1 DEF Entries
    <3>2. l[i] = m[i] /\ l[j] = table
      BY <1>1, <2>1, <2>3
    <3>3. table.for \in Nat
      BY DEF Command
    <3> QED
      BY <3>1, <3>2, <3>3
  <2> QED
    BY <1>1, <1>2, <2>2, <2>3
<1>5. Pairs(l)
  BY <1>4 DEF Pairs
<1> QED
  BY <1>3, <1>5 DEF l

\* A step that leaves the controller and the handler's calls alone keeps Order.
LEMMA OrderKept ==
  ASSUME Inv, Order, faults' = 0 => faults = 0, UNCHANGED <<table, fresh, Moves>>,
         served' \in Nat, served' >= served,
         faults' = 0 => link' = link,
         pc' = "boot" => pc = "boot",
         faults' = 0 => Pending'
  PROVE  Order'
<1> SUFFICES ASSUME faults' = 0
             PROVE  /\ link' = "up" /\ table'.for <= served'
                    /\ Entries(Moves)' /\ Pairs(Moves)'
                    /\ pc' = "boot" => Moves' = <<>>
                    /\ Pending'
  BY DEF Order
<1>1. /\ link = "up" /\ table.for <= served /\ Entries(Moves) /\ Pairs(Moves)
      /\ pc = "boot" => Moves = <<>>
  BY DEF Order
<1>2. served \in Nat /\ table.for \in Nat /\ Moves \in Seq(Command)
  BY InvFacts, ConcatProperties DEF Inv, TypeOK, Command, Moves
<1>3. table'.for <= served'
  BY <1>1, <1>2
<1>4. Entries(Moves)'
  BY <1>1 DEF Entries
<1>5. Pairs(Moves)'
  <2>1. ASSUME NEW i \in DOMAIN Moves, NEW j \in DOMAIN Moves, i < j
        PROVE  Moves[i].for < Moves[j].for \/ (Moves[i] = Moves[j] /\ served' > Moves[i].for)
    <3>1. Moves[i] \in Command
      BY <1>2, ElementOfSeq
    <3>2. Moves[i].for \in Nat
      BY <3>1 DEF Command
    <3> QED
      BY <1>1, <1>2, <2>1, <3>2 DEF Pairs
  <2> QED
    BY <2>1 DEF Pairs
<1> QED
  BY <1>1, <1>3, <1>4, <1>5

-----------------------------------------------------------------------------
(* Order is preserved *)

\* Without timed requests no thread but the handler runs, and no hold loop calls.
LEMMA NoTimersRun ==
  ASSUME Inv, ~AnyTimer
  PROVE  /\ \A t \in Timers : tpc[t] = "off" /\ todo[t] = <<>>
         /\ pc # "polldo" /\ digital_output = 0
<1>1. /\ \A t \in Timers : tpc[t] = "off"
      /\ pc # "polldo" /\ digital_output = 0
  BY DEF Inv, Flow, Untimed
<1> QED
  BY <1>1 DEF Inv, Hold, Excl, TimerOwns

\* The handler's own steps, and a crash, leave the commands alone.
LEMMA OrderHandler ==
  ASSUME Inv, Order, ~AnyTimer,
         (\E r \in Requests : Receive(r)) \/ Spin \/ Dispatched \/ Slept \/ Poll
           \/ PollOutput \/ PollOutputDone \/ Check \/ ReadAndReply \/ Crash
  PROVE  Order'
<1>a. served \in Nat /\ faults \in Nat
  BY InvFacts DEF Inv, TypeOK
<1>b. UNCHANGED driver => UNCHANGED <<faults, link, table, fresh, inbox>>
  BY DEF driver, controller
<1>1. ASSUME NEW r \in Requests, Receive(r)
      PROVE  Order'
  <2>1. /\ served' = served + 1 /\ pc' = "exec"
        /\ UNCHANGED <<faults, link, table, fresh, inbox, motions>>
    BY <1>1 DEF Receive
  <2>2. faults = 0 => table.for < served'
    <3>1. table.for \in Nat
      BY DEF Inv, TypeOK, Command
    <3> QED
      BY <1>a, <2>1, <3>1 DEF Order
  <2>3. faults' = 0 => Pending'
    BY <2>1, <2>2 DEF Pending
  <2> QED
    BY <1>a, <2>1, <2>3, OrderKept DEF Moves
<1>2. CASE Poll \/ ReadAndReply
  <2>1. ReadArmState /\ pc' # "exec" /\ pc' # "boot" /\ UNCHANGED <<served, motions>>
    BY <1>2 DEF Poll, ReadAndReply, Reply
  <2>2. UNCHANGED controller
    BY <2>1, ArmStateFacts DEF Inv
  <2>3. (faults' = faults /\ link' = link) \/ faults' = faults + 1
    BY <2>1 DEF ReadArmState, Misuse, Call, Fault
  <2>4. faults' = 0 => faults = 0 /\ link' = link
    BY <1>a, <2>3
  <2>5. Pending'
    BY <2>1 DEF Pending
  <2> QED
    BY <1>a, <2>1, <2>2, <2>4, <2>5, OrderKept DEF controller, Moves
<1>3. CASE Spin \/ Dispatched \/ Slept \/ PollOutput \/ PollOutputDone \/ Check \/ Crash
  <2>1. pc' # "exec" /\ pc' # "boot" /\ UNCHANGED <<served, motions, driver>>
    BY <1>3 DEF Spin, Dispatched, Slept, PollOutput, PollOutputDone, Check, Crash, Reply
  <2>2. Pending'
    BY <2>1 DEF Pending
  <2> QED
    BY <1>a, <1>b, <2>1, <2>2, OrderKept DEF Moves
<1> QED
  BY <1>1, <1>2, <1>3

\* The robot performs the first command or loses the one it takes.
LEMMA OrderRobot ==
  ASSUME Inv, Order, Take \/ Finish \/ UNCHANGED vars
  PROVE  Order'
<1>1. UNCHANGED <<pc, served, todo, ctx, link, faults, table, fresh>>
  BY DEF Take, Finish, vars, node, driver, controller
<1>2. motions \in Seq(Command) /\ inbox \in Seq(Command)
  BY InvFacts
<1>3. Moves' = Moves \/ (Moves # <<>> /\ Thinned(Moves', Moves))
  <2>1. CASE Take
    <3> DEFINE c == Head(inbox)
    <3>1. inbox # <<>> /\ inbox' = Tail(inbox)
      BY <2>1 DEF Take
    <3>2. CASE c.name \in Motions
      <4>1. motions' = Append(motions, c)
        BY <2>1, <3>2 DEF Take, Motions
      <4> QED
        BY <1>2, <3>1, <4>1, ConcatMoves DEF Moves
    <3>3. CASE c.name \notin Motions
      <4>1. motions' = motions \/ motions' = <<>>
        BY <2>1, <3>3 DEF Take
      <4>2. Tail(inbox) \in Seq(Command)
        BY <1>2, <3>1, HeadTailProperties
      <4>3. Moves' = motions \o Tail(inbox) \/ Moves' = Tail(inbox)
        BY <3>1, <4>1, <4>2, ConcatEmptySeq DEF Moves
      <4>4. Moves # <<>>
        BY <1>2, <3>1, ConcatParts DEF Moves
      <4> QED
        BY <1>2, <3>1, <4>3, <4>4, ThinnedMiddle DEF Moves
    <3> QED
      BY <3>2, <3>3
  <2>2. CASE Finish
    <3>1. motions # <<>> /\ motions' = Tail(motions) /\ inbox' = inbox
      BY <2>2 DEF Finish, driver, controller
    <3>2. Moves # <<>> /\ Moves' = Tail(Moves) /\ Moves \in Seq(Command)
      BY <1>2, <3>1, ConcatFirst, ConcatProperties DEF Moves
    <3> QED
      BY <3>2, ThinnedTail
  <2>3. CASE UNCHANGED vars
    BY <2>3 DEF vars, controller, Moves
  <2> QED
    BY <2>1, <2>2, <2>3
<1>4. Pending => Pending'
  BY <1>1 DEF Pending
<1>5. CASE faults = 0
  <2>1. Entries(Moves') /\ Pairs(Moves')
    BY <1>3, <1>5, OrderThinned DEF Order
  <2>2. Entries(Moves)' /\ Pairs(Moves)'
    BY <1>1, <2>1 DEF Entries, Pairs
  <2>3. pc = "boot" => Moves' = <<>>
    BY <1>3, <1>5 DEF Order
  <2> QED
    BY <1>1, <1>4, <1>5, <2>2, <2>3 DEF Order
<1> QED
  BY <1>1, <1>5 DEF Order

\* Without a fault a call of an open context in step does what it asks.
LEMMA CallClean ==
  ASSUME NEW o, Misuse \/ Call(o), faults \in Nat, faults' = 0
  PROVE  /\ faults = 0 /\ ctx' = ctx /\ link' = link
         /\ ctx = "open" /\ link = "up" => Effect(o)
         /\ ctx # "open" => UNCHANGED controller
<1>1. CASE Misuse
  BY <1>1 DEF Misuse
<1>2. CASE Call(o)
  <2>1. ~Fault
    BY DEF Fault
  <2> QED
    BY <1>2, <2>1 DEF Call
<1> QED
  BY <1>1, <1>2

\* The calls of main write one table and trigger nothing.
LEMMA OrderBoot ==
  ASSUME Inv, Order, DriverStep(Handler), pc = "boot"
  PROVE  Order'
<1> SUFFICES ASSUME faults' = 0
             PROVE  Order'
  BY DEF Order
<1> DEFINE q == todo[Handler]
           o == Head(q)
           stop == [name |-> "MOTION_STOP", goal |-> 0, for |-> 0]
<1>1. /\ q # <<>> /\ UNCHANGED <<pc, served, motions>>
      /\ served \in Nat /\ faults \in Nat
  BY InvFacts DEF DriverStep, node, Inv, TypeOK
<1>2. Pending'
  BY <1>1 DEF Pending
<1>3. \/ o.kind \in {"connect", "excite"}
      \/ o.kind = "table" /\ o.cmd = stop
  <2>1. Booting(q)
    BY DEF Inv, Flow, Calling
  <2>2. /\ Startup[1].kind = "connect"
        /\ Startup[2].kind = "table" /\ Startup[2].cmd = stop
        /\ Startup[3].kind = "excite"
        /\ Head(Startup) = Startup[1]
    BY DEF Startup
  <2> QED
    BY <1>1, <2>1, <2>2, ShortLists DEF Booting
<1> HIDE DEF o
<1>4. CASE o.kind = "connect"
  <2>1. Connect
    BY <1>4 DEF DriverStep, o
  <2>2. faults' = faults /\ link' = link /\ UNCHANGED controller
    BY <1>1, <2>1 DEF Connect, Fault
  <2> QED
    BY <1>1, <1>2, <2>2, OrderKept DEF controller, Moves
<1>5. CASE o.kind # "connect"
  <2>1. Misuse \/ Call(o)
    BY <1>3, <1>5 DEF DriverStep, o
  <2>2. faults = 0 /\ ctx' = ctx /\ link' = link /\ link = "up" /\ Moves = <<>>
    BY <1>1, <2>1, CallClean DEF Order
  <2>3. Effect(o) \/ UNCHANGED controller
    BY <2>1, CallFacts
  <2>4. CASE UNCHANGED controller
    BY <1>1, <1>2, <2>2, <2>4, OrderKept DEF controller, Moves
  <2>5. CASE Effect(o) /\ o.kind = "excite"
    <3>1. UNCHANGED controller
      BY <2>5 DEF Effect
    <3> QED
      BY <2>4, <3>1
  <2>6. CASE Effect(o) /\ o.kind = "table" /\ o.cmd = stop
    <3>1. table' = stop /\ UNCHANGED inbox
      BY <2>6 DEF Effect
    <3>2. Moves' = <<>>
      BY <1>1, <2>2, <3>1 DEF Moves
    <3>3. Entries(Moves)' /\ Pairs(Moves)'
      <4>1. DOMAIN <<>> = {}
        OBVIOUS
      <4> QED
        BY <3>2, <4>1 DEF Entries, Pairs
    <3>4. table'.for = 0
      BY <3>1
    <3> QED
      BY <1>1, <1>2, <2>2, <3>2, <3>3, <3>4 DEF Order
  <2> QED
    BY <1>3, <1>5, <2>3, <2>4, <2>5, <2>6
<1> QED
  BY <1>4, <1>5

\* A request writes its table and triggers it behind the commands before it.
LEMMA OrderExec ==
  ASSUME Inv, Order, DriverStep(Handler), pc = "exec"
  PROVE  Order'
<1> SUFFICES ASSUME faults' = 0
             PROVE  Order'
  BY DEF Order
<1> DEFINE q == todo[Handler]
           o == Head(q)
           W == Writable(req, served)
<1>1. /\ q # <<>> /\ todo'[Handler] = Tail(q)
      /\ UNCHANGED <<pc, req, served, motions>>
      /\ Remainder(req, served, q)
  BY Distinct DEF DriverStep, node, Inv, Hold, Excl, Shape, Flow, Calling
<1>2. /\ served \in Nat /\ faults \in Nat /\ fresh \in BOOLEAN
      /\ table \in Command /\ table.for \in Nat
      /\ Moves \in Seq(Command)
  BY InvFacts, ConcatProperties DEF Inv, TypeOK, Command, Moves
<1>3. /\ o.kind # "connect"
      /\ o.kind = "free" \/ Misuse \/ Call(o)
      /\ o.kind = "free" => ctx' = "freed" /\ UNCHANGED <<link, faults, controller>>
  <2>1. o.kind # "connect"
    BY ConnectsOnce, Distinct
  <2> QED
    BY <2>1 DEF DriverStep
<1>4. /\ faults = 0 /\ link' = link
      /\ o.kind # "free" => ctx' = ctx
      /\ link = "up" /\ table.for <= served /\ Entries(Moves) /\ Pairs(Moves) /\ Pending
  BY <1>2, <1>3, CallClean DEF Order
<1>5. ASSUME UNCHANGED controller,
             ctx' # "open" \/ Tail(q) = <<>> \/ (ctx = "open" /\ q # <<TriggerCall>>)
      PROVE  Order'
  <2>1. table' = table
    BY <1>5 DEF controller
  <2>2. Pending'
    BY <1>1, <1>4, <1>5, <2>1 DEF Pending
  <2> QED
    BY <1>1, <1>2, <1>4, <1>5, <2>2, OrderKept DEF controller, Moves
<1>6. CASE ctx # "open" \/ o.kind = "free"
  <2>1. ctx' # "open" /\ UNCHANGED controller
    BY <1>2, <1>3, <1>6, CallClean
  <2> QED
    BY <1>5, <2>1
<1>7. CASE ctx = "open" /\ o.kind # "free"
  <2>0. Effect(o)
    BY <1>2, <1>3, <1>4, <1>7, CallClean
  <2>1. CASE q = <<TriggerCall>>
    <3>1. o.kind = "trigger" /\ Tail(q) = <<>>
      BY <2>1, ShortLists DEF TriggerCall
    <3>2. Trigger
      BY <2>0, <3>1 DEF Effect
    <3>3. /\ Moves' = Append(Moves, table) \/ Moves' = Moves
          /\ fresh' = FALSE /\ UNCHANGED <<table, out>>
      BY <1>1, <3>2, TriggerRuns
    <3>4. table.for < served \/ (fresh /\ table.for = served)
      BY <1>1, <1>4, <1>7 DEF Pending
    <3>5. /\ \A i \in DOMAIN Moves' : Moves'[i].for < table.for \/ Moves'[i] = table
          /\ Pairs(Moves')
      <4>1. CASE Moves' = Append(Moves, table)
        BY <1>2, <1>4, <3>4, <4>1, OrderAppended
      <4>2. CASE Moves' = Moves
        BY <1>4, <4>2 DEF Entries
      <4> QED
        BY <3>3, <4>1, <4>2
    <3>6. Entries(Moves)' /\ Pairs(Moves)'
      BY <1>1, <3>3, <3>5 DEF Entries, Pairs
    <3>7. Pending'
      BY <1>1, <3>1 DEF Pending
    <3> QED
      BY <1>1, <1>4, <3>3, <3>6, <3>7 DEF Order
  <2>2. CASE \E c \in W : q = <<TableCall(c), TriggerCall>>
    <3>0. PICK c \in W : q = <<TableCall(c), TriggerCall>>
      BY <2>2
    <3>1. o.kind = "table" /\ o.cmd = c /\ Tail(q) = <<TriggerCall>> /\ q # <<TriggerCall>>
      BY <3>0, ShortLists DEF TableCall, TriggerCall
    <3>2. table' \in W /\ fresh' = TRUE /\ UNCHANGED inbox
      BY <2>0, <3>1, WritesOwn DEF Effect
    <3>3. table'.for = served
      BY <3>2 DEF Writable
    <3>4. table.for < served
      BY <1>1, <1>4, <1>7, <3>1 DEF Pending
    <3>5. Moves' = Moves
      BY <1>1, <3>2 DEF Moves
    <3>6. Entries(Moves)'
      <4>1. ASSUME NEW i \in DOMAIN Moves
            PROVE  Moves[i].for < served
        <5>1. Moves[i] \in Command
          BY <1>2, ElementOfSeq
        <5>2. Moves[i].for \in Nat
          BY <5>1 DEF Command
        <5> QED
          BY <1>2, <1>4, <3>4, <5>2 DEF Entries
      <4> QED
        BY <3>3, <3>5, <4>1 DEF Entries
    <3>7. Pairs(Moves)'
      BY <1>1, <1>4, <3>5 DEF Pairs
    <3>8. Pending'
      BY <1>1, <3>1, <3>2, <3>3 DEF Pending
    <3> QED
      BY <1>1, <1>2, <1>4, <3>3, <3>5, <3>6, <3>7, <3>8 DEF Order
  <2>3. CASE q = <<[kind |-> "bit", pin |-> req.pin, on |-> req.on], TriggerCall>>
    <3>1. o.kind = "bit" /\ q # <<TriggerCall>>
      BY <2>3, ShortLists DEF TriggerCall
    <3>2. UNCHANGED <<table, fresh, inbox>>
      BY <2>0, <3>1 DEF Effect
    <3>3. Pending'
      BY <1>1, <1>4, <1>7, <3>1, <3>2 DEF Pending
    <3> QED
      BY <1>1, <1>2, <1>4, <3>2, <3>3, OrderKept DEF Moves
  <2>4. CASE o.kind \in {"pose", "excite", "input", "close"} /\ q # <<TriggerCall>>
    <3>1. UNCHANGED controller
      BY <2>0, <2>4 DEF Effect
    <3> QED
      BY <1>5, <1>7, <2>4, <3>1
  <2>5. \/ q = <<TriggerCall>> \/ \E c \in W : q = <<TableCall(c), TriggerCall>>
        \/ q = <<[kind |-> "bit", pin |-> req.pin, on |-> req.on], TriggerCall>>
        \/ o.kind \in {"pose", "excite", "input", "close"} /\ q # <<TriggerCall>>
    <3>1. ASSUME NEW k, q = <<[kind |-> k]>>, k # "trigger"
          PROVE  o.kind = k /\ q # <<TriggerCall>>
      <4>1. o.kind = k
        BY <3>1, ShortLists
      <4>2. Head(<<TriggerCall>>).kind = "trigger"
        BY ShortLists DEF TriggerCall
      <4> QED
        BY <3>1, <4>1, <4>2
    <3>2. ASSUME NEW c, q = <<[kind |-> "pose"], TableCall(c), TriggerCall>>
          PROVE  o.kind = "pose" /\ q # <<TriggerCall>>
      <4>1. o.kind = "pose"
        BY <3>2, ShortLists
      <4>2. Head(<<TriggerCall>>).kind = "trigger"
        BY ShortLists DEF TriggerCall
      <4> QED
        BY <4>1, <4>2
    <3>3. q # <<[kind |-> "free"], [kind |-> "close"]>>
      BY <1>7, ShortLists
    <3> QED
      BY <1>1, <3>1, <3>2, <3>3 DEF Remainder, Beginning
  <2> QED
    BY <2>1, <2>2, <2>3, <2>4, <2>5
<1> QED
  BY <1>6, <1>7

\* Nothing is on its way when the node starts.
LEMMA OrderInit == Init => Order
<1> SUFFICES ASSUME Init
             PROVE  Order
  OBVIOUS
<1>1. Moves = <<>>
  BY EmptySeq, ConcatEmptySeq DEF Init, Moves
<1>2. DOMAIN <<>> = {}
  OBVIOUS
<1>3. Entries(Moves) /\ Pairs(Moves)
  BY <1>1, <1>2 DEF Entries, Pairs
<1>4. table.for = 0 /\ served = 0 /\ link = "up" /\ pc = "boot"
  BY DEF Init, NoCommand
<1> QED
  BY <1>1, <1>3, <1>4 DEF Order, Pending

\* Order is inductive, relative to Inv, without timed requests.
LEMMA OrderStep == Inv /\ Order /\ ~AnyTimer /\ [Next]_vars => Order'
<1> SUFFICES ASSUME Inv, Order, ~AnyTimer, [Next]_vars
             PROVE  Order'
  OBVIOUS
<1>1. CASE Take \/ Finish \/ UNCHANGED vars
  BY <1>1, OrderRobot
<1>2. CASE HandlerStep
  <2>1. CASE DriverStep(Handler)
    <3>1. pc \in {"boot", "exec"}
      BY <2>1, WhoCalls, NoTimersRun, Distinct
    <3> QED
      BY <2>1, <3>1, OrderBoot, OrderExec
  <2> QED
    BY <1>2, <2>1, OrderHandler DEF HandlerStep
<1>3. ASSUME NEW t \in Timers, TimerStep(t)
      PROVE  FALSE
  <2>1. tpc[t] = "off" /\ todo[t] = <<>>
    BY NoTimersRun
  <2> QED
    BY <1>3, <2>1 DEF TimerStep, DriverStep, Store, Lock, SwitchOff, Unlock
<1>4. CASE Crash \/ \E r \in Requests : Receive(r)
  BY <1>4, OrderHandler
<1> QED
  BY <1>1, <1>2, <1>3, <1>4 DEF Next

\* When no request times an output and no call fails, the commands of the requests
\* reach the robot in the order of the requests, each once, unless a later request
\* (a DO, whose trigger runs the table again) triggered it again.
THEOREM RunsInOrder ==
  ASSUME \A r \in Requests : ~r.timer
  PROVE  Spec => []RunsOnce
<1>1. ~AnyTimer
  BY DEF AnyTimer
<1>2. Init => Order
  BY OrderInit
<1>3. Inv /\ Order /\ [Next]_vars => Order'
  BY <1>1, OrderStep
<1>4. Order => RunsOnce
  BY DEF Order, Pairs, RunsOnce, Moves
<1> QED
  BY <1>2, <1>3, <1>4, InvInit, InvStep, PTL DEF Spec
=============================================================================
