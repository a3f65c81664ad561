---------------------------- MODULE ServiceClient ----------------------------
(***************************************************************************)
(* HiwinmodbusClient of hiwin_service_client/scripts/Hiwin_service_client.py. *)
(* Every method sends one request and reads the result of its future at once. *)
(* The future is not done, its result is None, and None has no arm_state: the *)
(* exception ends main.                                                      *)
(***************************************************************************)
EXTENDS RobotRequests

ClientPin == 3

\* It names neither tool nor base: the message's fields stay 0.
Goal(kind) == [kind |-> kind, at |-> <<>>, tool |-> 0, base |-> 0]

generate_robot_request(mode, kind, holding) == Motion(mode, Goal(kind), holding)

call_motor_excite(holding)    == Plain("EXCITE", holding)
call_ptp(kind, holding)       == generate_robot_request("PTP", kind, holding)
call_line(kind, holding)      == generate_robot_request("LINE", kind, holding)
call_circ(holding)            == generate_robot_request("CIRC", "pose", holding)
call_do(on, holding)          == [Output(ClientPin, on) EXCEPT !.holding = holding]
call_home(holding)            == generate_robot_request("HOME", "pose", holding)
call_jog(holding)             == generate_robot_request("JOG", "pose", holding)
call_modbus_close             == Plain("CLOSE", TRUE)

Methods ==
  {call_modbus_close} \cup
  UNION {{call_motor_excite(h), call_ptp("joints", h), call_ptp("pose", h),
          call_line("joints", h), call_line("pose", h), call_circ(h), call_do(0, h),
          call_do(1, h), call_home(h), call_jog(h)} : h \in BOOLEAN}

call_hiwin(r) == Step(<<Failing(r)>>, "NONE")
=============================================================================
