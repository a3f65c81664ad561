---------------------------- MODULE MCHiwinServer ----------------------------
(* HiwinServer with a few kinds of requests at a time.                        *)
EXTENDS HiwinServer, TLC

CONSTANTS t1, t2

OneTimer == {t1}
TwoTimers == {t1, t2}

Plain(mode, holding) ==
  [mode |-> mode, holding |-> holding, valid |-> TRUE, pin |-> 300, on |-> 0,
   timer |-> FALSE]
Output(p, on, timer) ==
  [mode |-> "DO", holding |-> FALSE, valid |-> TRUE, pin |-> p, on |-> on,
   timer |-> timer]

OnePin == {300}
TwoPins == {300, 301}

\* Every mode; the outputs are not timed.
MotionRequests ==
  {Plain(m, TRUE) : m \in {"PTP", "LINE", "CIRC", "JOG", "FLANGE_MOVE"}} \cup
  {Plain(m, FALSE) : m \in {"PTP", "HOME", "JOG", "FLANGE_MOVE", "MOTION_STOP", "EXCITE",
                            "CHECK", "READ_DI", "WAITING", "SET_BASE", "SET_TOOL"}} \cup
  {[Plain("FLANGE_MOVE", FALSE) EXCEPT !.valid = FALSE], Plain("CLOSE", TRUE),
   Output(300, 1, FALSE)}

OutputRequests ==
  {Plain("PTP", TRUE), Plain("MOTION_STOP", FALSE), Plain("CLOSE", FALSE),
   Output(300, 1, TRUE), Output(301, 1, TRUE)}

FaultRequests == {Plain("PTP", TRUE)}
CloseRequests == {Plain("PTP", TRUE), Plain("CLOSE", FALSE)}
=============================================================================
