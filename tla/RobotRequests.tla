---------------------------- MODULE RobotRequests ----------------------------
(* Requests of RobotCommand as the programs of hiwin_example build them: a     *)
(* motion to a goal, an output, or one that writes no command.                *)
EXTENDS Integers, Sequences

VacuumPin == 1

Motion(mode, goal, holding) ==
  [mode |-> mode, holding |-> holding, writes |-> {[name |-> mode, goal |-> goal]},
   pin |-> VacuumPin, on |-> 0]
\* Mutant: pin and value change places.
OutputSwapped(pin, value) ==
  [mode |-> "DO", holding |-> FALSE, writes |-> {}, pin |-> value, on |-> pin]

Output(pin, value) ==
  [mode |-> "DO", holding |-> FALSE, writes |-> {}, pin |-> pin, on |-> value]
Plain(mode, holding) ==
  [mode |-> mode, holding |-> holding, writes |-> {}, pin |-> VacuumPin, on |-> 0]

\* What a handler sends, and the state it returns.  A request's answer is awaited,
\* not awaited, or read before it is there, which fails.
Step(requests, next) == [send |-> requests, next |-> next]
Awaited(r)   == [req |-> r, how |-> "await"]
Unawaited(r) == [req |-> r, how |-> "async"]
Failing(r)   == [req |-> r, how |-> "fail"]
=============================================================================
