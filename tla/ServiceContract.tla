--------------------------- MODULE ServiceContract ---------------------------
(***************************************************************************)
(* What hiwinmodbus_service promises: one request at a time; the first call   *)
(* of a request writes its command or its output, the second triggers; a      *)
(* held request is answered only when the line is in step and nothing         *)
(* commanded is left; a call may be refused, answered late or lost, and       *)
(* nobody is told.  HiwinServer implements it, the strategies use it.         *)
(***************************************************************************)
EXTENDS Integers, Sequences

CONSTANTS
  NoRequest,    \* no request: the executor is free
  Pins,         \* digital outputs
  Faults,       \* what may go wrong with a call
  Timed         \* whether requests may ask for timed outputs

ASSUME ContractConstants ==
  /\ Faults \subseteq {"refused", "late", "lost"}
  /\ Timed \in BOOLEAN

VARIABLES
  serving,      \* the request the handler executes
  stage,        \* its next call: "write", "trigger", or "done"; "dead" after exit
  table, fresh, \* the command registers; written since the last trigger
  moves,        \* commands triggered and not carried out
  out,          \* digital outputs
  link          \* "up", "desync", "lost", "closed"

contract == <<serving, stage, table, fresh, moves, out, link>>

Motions == {"PTP", "LINE", "CIRC", "HOME", "JOG"}

\* A request is a record: its mode, holding, the commands it may write, and the
\* output pin it sets to on.
Acts(r)  == r.mode # "BOOT" /\ (r.writes # {} \/ r.mode = "DO")
Calls(r) == r.mode # "WAITING" /\ ~(r.mode = "FLANGE_MOVE" /\ r.writes = {})

\* Whether a call takes effect, and what becomes of the line.
Line(effect) ==
  \/ effect = (link \in {"up", "desync"}) /\ UNCHANGED link
  \/ /\ link = "up"
     /\ \/ "refused" \in Faults /\ ~effect /\ link' = "up"
        \/ "late" \in Faults /\ effect /\ link' = "desync"
        \/ "lost" \in Faults /\ link' = "lost"

\* The process starts and has not connected yet.
ContractInit ==
  /\ serving.mode = "BOOT" /\ serving.holding = FALSE
  /\ stage = "write"
  /\ table.name = "NONE" /\ fresh = FALSE
  /\ moves = <<>>
  /\ out = [p \in Pins |-> 0]
  /\ link = "up"

Accept(r) ==
  /\ serving = NoRequest /\ r # NoRequest /\ stage # "dead"
  /\ serving' = r
  /\ stage' = IF Calls(r) THEN "write" ELSE "done"
  /\ UNCHANGED <<table, fresh, moves, out, link>>

\* Start-up connects, writes MOTION_STOP and excites the motors, untriggered.
BootCall ==
  /\ serving # NoRequest /\ serving.mode = "BOOT" /\ stage = "write"
  /\ stage' \in {"write", "done"}
  /\ link' = "closed" \/ \E effect \in BOOLEAN : Line(effect)
  /\ \/ UNCHANGED <<table, fresh>>
     \/ table' \in serving.writes /\ fresh' = TRUE
  /\ UNCHANGED <<serving, moves, out>>

\* FLANGE_MOVE reads the pose before it writes, CLOSE frees before it closes.
Prepare ==
  /\ serving # NoRequest /\ stage = "write"
  /\ \/ serving.mode = "FLANGE_MOVE" /\ \E effect \in BOOLEAN : Line(effect)
     \/ serving.mode = "CLOSE" /\ link' = "closed"
  /\ UNCHANGED <<serving, stage, table, fresh, moves, out>>

Write(effect) ==
  /\ serving # NoRequest /\ serving.mode # "BOOT" /\ stage = "write"
  /\ IF serving.mode = "CLOSE" THEN ~effect /\ link' = "closed" ELSE Line(effect)
  /\ IF effect /\ serving.writes # {}
       THEN table' \in serving.writes /\ fresh' = TRUE
       ELSE UNCHANGED <<table, fresh>>
  /\ out' = IF effect /\ serving.mode = "DO" THEN [out EXCEPT ![serving.pin] = serving.on]
                                             ELSE out
  /\ stage' = IF Acts(serving) THEN "trigger" ELSE "done"
  /\ UNCHANGED <<serving, moves>>

\* The controller runs the table; one it has run before it may run again or not.
RunTable ==
  /\ \/ table.name # "NONE" /\ moves' = Append(moves, table)
     \/ (table.name = "NONE" \/ ~fresh) /\ moves' = moves
  /\ fresh' = FALSE

Trigger ==
  /\ serving # NoRequest /\ stage = "trigger"
  /\ \E effect \in BOOLEAN :
       Line(effect) /\ IF effect THEN RunTable ELSE UNCHANGED <<moves, fresh>>
  /\ stage' = "done"
  /\ UNCHANGED <<serving, table, out>>

\* A timed output is switched off, at any time, by its timer or by a hold.
TimedOutput ==
  /\ Timed
  /\ \E effect \in BOOLEAN :
       /\ Line(effect)
       /\ \/ ~effect /\ UNCHANGED <<moves, fresh, out>>
          \/ effect /\ RunTable /\ UNCHANGED out
          \/ /\ effect
             /\ \E p \in Pins : out' = [out EXCEPT ![p] = 0]
             /\ UNCHANGED <<moves, fresh>>
  /\ UNCHANGED <<serving, stage, table>>

\* A hold reads the arm's state.
Poll ==
  /\ serving # NoRequest /\ stage = "done"
  /\ \E effect \in BOOLEAN : Line(effect)
  /\ UNCHANGED <<serving, stage, table, fresh, moves, out>>

\* Mutant: a held request is answered at once.
AnswerAtOnce ==
  /\ serving # NoRequest /\ stage = "done"
  /\ serving' = NoRequest
  /\ UNCHANGED <<stage, table, fresh, moves, out, link>>

\* Timed outputs may trigger the table between the arm's IDLE and the answer.
\* After CLOSE nothing is known of the state, and the process exits.
Answer ==
  /\ serving # NoRequest /\ stage = "done"
  /\ IF serving.holding
       THEN ((link = "up" /\ moves = <<>>) \/ link = "closed" \/ Timed) /\ UNCHANGED link
       ELSE \E effect \in BOOLEAN : Line(effect)
  /\ serving' = NoRequest
  /\ stage' = IF serving.mode = "CLOSE" THEN "dead" ELSE "done"
  /\ UNCHANGED <<table, fresh, moves, out>>

\* A call through a closed context may end the process.
Crash ==
  /\ link = "closed"
  /\ stage' = "dead"
  /\ serving' \in {serving, NoRequest}
  /\ UNCHANGED <<table, fresh, moves, out, link>>

\* A motion ends by itself, except a jog.
Perform ==
  /\ moves # <<>> /\ Head(moves).name \in Motions \ {"JOG"}
  /\ moves' = Tail(moves)
  /\ UNCHANGED <<serving, stage, table, fresh, out, link>>

\* A stop drops what came before it; a setting is made.
TakeSetting ==
  /\ \E i \in DOMAIN moves :
       \/ moves[i].name = "MOTION_STOP" /\ moves' = SubSeq(moves, i + 1, Len(moves))
       \/ /\ moves[i].name \notin Motions \cup {"MOTION_STOP"}
          /\ moves' = SubSeq(moves, 1, i - 1) \o SubSeq(moves, i + 1, Len(moves))
  /\ UNCHANGED <<serving, stage, table, fresh, out, link>>

Work ==
  \/ BootCall \/ Prepare \/ (\E effect \in BOOLEAN : Write(effect)) \/ Trigger
  \/ TimedOutput \/ Poll \/ Answer \/ Crash \/ Perform \/ TakeSetting

ContractNext == Work \/ \E r \in {serving'} : Accept(r)

Contract == ContractInit /\ [][ContractNext]_contract
=============================================================================
