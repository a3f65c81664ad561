---------------------------- MODULE ModbusClient ----------------------------
(***************************************************************************)
(* One libmodbus context used as a Modbus/TCP client: the request and       *)
(* confirmation path of libmodbus/src/modbus.c and modbus-tcp.c, the byte   *)
(* stream to the robot controller, and the controller itself, which         *)
(* answers the requests it receives in their order.                         *)
(*                                                                         *)
(* A confirmation is delivered whole: the eight bytes of its header and its *)
(* data travel in one segment.  Its age is a history field: the number of   *)
(* requests the client has built since the one it answers.                  *)
(***************************************************************************)
EXTENDS Integers, Sequences

CONSTANTS
  Ops,        \* what requests ask for; any two differ in their function code
  TidMod,     \* the number of transaction identifiers, UINT16_MAX + 1
  Recoveries, \* what modbus_set_error_recovery may have set
  SockBuf,    \* bound: unread requests the socket buffers hold
  MaxAge,     \* bound: the age of the oldest message of the connection
  MaxFaults   \* bound: late answers, lost connections, refused connects

ASSUME ConstantsOK ==
  /\ TidMod \in Nat \ {0}
  /\ Recoveries \subseteq SUBSET {"LINK", "PROTOCOL"}
  /\ SockBuf \in Nat
  /\ MaxAge \in Nat
  /\ MaxFaults \in Nat

VARIABLES
  t_id,       \* ctx_tcp->t_id
  op,         \* what the request in progress asks
  conn,       \* "up", "lost" (socket open, peer gone), "down" (ctx->s = -1)
  c2s,        \* requests the controller has not read
  s2c,        \* confirmations the client has not read
  error_recovery, \* of the context
  pc,         \* where the caller's thread is in the library
  rc,         \* how the last request ended
  acceptedAge,\* history: age of the confirmation accepted last
  faults      \* faults so far

vars == <<t_id, op, conn, c2s, s2c, error_recovery, pc, rc, acceptedAge, faults>>
ctl  == <<acceptedAge, op, t_id, error_recovery>>

Message  == [tid : 0 .. TidMod - 1, op : Ops, age : Nat]
Response == [tid : 0 .. TidMod - 1, op : Ops, age : Nat, exception : BOOLEAN]
Errors   == {"exception", "mismatch", "timeout", "reset", "sendfail"}

TypeOK ==
  /\ t_id \in 0 .. TidMod - 1
  /\ op \in Ops
  /\ conn \in {"up", "lost", "down"}
  /\ c2s \in Seq(Message)
  /\ s2c \in Seq(Response)
  /\ error_recovery \in Recoveries
  /\ pc \in {"idle", "send", "sendflush", "relink", "wait", "flush"}
  /\ rc \in {"none", "ok"} \cup Errors
  /\ acceptedAge \in Nat
  /\ faults \in Nat

Fault == faults < MaxFaults /\ faults' = faults + 1

Init ==
  /\ t_id = 0
  /\ op \in Ops
  /\ conn \in {"up", "down"}
  /\ c2s = <<>>
  /\ s2c = <<>>
  /\ error_recovery \in Recoveries
  /\ pc = "idle"
  /\ rc = "none"
  /\ acceptedAge = 0
  /\ faults = 0

-----------------------------------------------------------------------------
(* The client *)

\* Mutant: the identifier is not kept to its width.
NextTidTooWide(t) == t + 1

NextTid(t) == IF t < TidMod - 1 THEN t + 1 ELSE 0

Older(s) == [i \in DOMAIN s |-> [s[i] EXCEPT !.age = @ + 1]]

Young(s) == \A i \in DOMAIN s : s[i].age < MaxAge

\* A library call builds its request under the next transaction identifier.
Request(o) ==
  /\ pc = "idle"
  /\ Young(c2s) /\ Young(s2c)
  /\ t_id' = NextTid(t_id)
  /\ op' = o
  /\ c2s' = Older(c2s)
  /\ s2c' = Older(s2c)
  /\ pc' = "send"
  /\ UNCHANGED <<conn, error_recovery, rc, acceptedAge, faults>>

\* send() takes the whole request; on a lost connection the kernel may still
\* take the bytes, which no one will read.
Send ==
  /\ pc = "send"
  /\ \/ conn = "up" /\ Len(c2s) < SockBuf
        /\ c2s' = Append(c2s, [tid |-> t_id, op |-> op, age |-> 0])
     \/ conn = "lost" /\ c2s' = c2s
  /\ pc' = "wait"
  /\ UNCHANGED <<conn, s2c, rc, faults, ctl>>

\* send() fails: EBADF, ECONNRESET or EPIPE make recovery close and connect
\* again, any other error makes it sleep, flush and send again.
SendFail ==
  /\ pc = "send"
  /\ \/ conn # "up"
     \/ Len(c2s) = SockBuf
  /\ IF "LINK" \in error_recovery
       THEN /\ pc' = IF conn = "up" THEN "sendflush" ELSE "relink"
            /\ UNCHANGED rc
       ELSE /\ pc' = "idle"
            /\ rc' = "sendfail"
  /\ UNCHANGED <<conn, c2s, s2c, faults, ctl>>

\* modbus_connect() on a fresh socket: what the old one held is gone.
Connect ==
  /\ c2s' = <<>>
  /\ s2c' = <<>>
  /\ \/ conn' = "up" /\ UNCHANGED faults
     \/ conn' = "down" /\ Fault

Relink ==
  /\ pc = "relink"
  /\ Connect
  /\ pc' = "send"
  /\ UNCHANGED <<rc, ctl>>

\* _sleep_response_timeout() has passed: modbus_flush() drops what has arrived.
\* Requests still unanswered after the sleep are one more fault.
FlushInput ==
  /\ s2c' = <<>>
  /\ IF c2s = <<>> THEN UNCHANGED faults ELSE Fault
  /\ UNCHANGED <<conn, c2s, rc, ctl>>

SendFlush == pc = "sendflush" /\ FlushInput /\ pc' = "send"

Flush == pc = "flush" /\ FlushInput /\ pc' = "idle"

\* check_confirmation() on the oldest unread confirmation.
\*
\* Mutant: the mismatch leaves the input as it is.
OnMismatchNoFlush == rc' = "mismatch" /\ pc' = "idle" /\ UNCHANGED acceptedAge

OnMismatch ==
  /\ rc' = "mismatch"
  /\ pc' = IF "PROTOCOL" \in error_recovery THEN "flush" ELSE "idle"
  /\ UNCHANGED acceptedAge

\* Mutant: the transaction identifier is not compared.
ConfirmAnyTid ==
  /\ pc = "wait"
  /\ s2c # <<>>
  /\ \/ Head(s2c).op # op /\ OnMismatch
     \/ /\ Head(s2c).op = op
        /\ rc' = IF Head(s2c).exception THEN "exception" ELSE "ok"
        /\ acceptedAge' = Head(s2c).age
        /\ pc' = "idle"
  /\ s2c' = Tail(s2c)
  /\ UNCHANGED <<conn, c2s, error_recovery, t_id, op, faults>>

Confirm ==
  /\ pc = "wait"
  /\ s2c # <<>>
  /\ LET rsp == Head(s2c) IN
       \/ rsp.tid # t_id /\ OnMismatch
       \/ /\ rsp.tid = t_id
          /\ rsp.op # op
          /\ \/ ~rsp.exception /\ OnMismatch
             \/ /\ rsp.exception
                /\ rc' = "mismatch"
                /\ pc' = "idle"
                /\ UNCHANGED acceptedAge
       \/ /\ rsp.tid = t_id
          /\ rsp.op = op
          /\ rc' = IF rsp.exception THEN "exception" ELSE "ok"
          /\ acceptedAge' = rsp.age
          /\ pc' = "idle"
  /\ s2c' = Tail(s2c)
  /\ UNCHANGED <<conn, c2s, error_recovery, t_id, op, faults>>

\* Mutant: the timeout always flushes.
TimeoutFlushes ==
  /\ pc = "wait"
  /\ conn = "up"
  /\ s2c = <<>>
  /\ IF c2s = <<>> THEN UNCHANGED faults ELSE Fault
  /\ rc' = "timeout"
  /\ pc' = "flush"
  /\ UNCHANGED <<conn, c2s, s2c, ctl>>

\* select() reports nothing to read within the response timeout.  It is a
\* fault when the controller still owes the answer.
Timeout ==
  /\ pc = "wait"
  /\ conn = "up"
  /\ s2c = <<>>
  /\ IF c2s = <<>> THEN UNCHANGED faults ELSE Fault
  /\ rc' = "timeout"
  /\ pc' = IF "LINK" \in error_recovery THEN "flush" ELSE "idle"
  /\ UNCHANGED <<conn, c2s, s2c, ctl>>

\* recv() returns 0 or ECONNRESET; link recovery connects again, once.
ConnReset ==
  /\ pc = "wait"
  /\ conn = "lost"
  /\ s2c = <<>>
  /\ IF "LINK" \in error_recovery
       THEN Connect
       ELSE UNCHANGED <<conn, c2s, s2c, faults>>
  /\ rc' = "reset"
  /\ pc' = "idle"
  /\ UNCHANGED ctl

Client ==
  \/ Send \/ SendFail \/ Relink \/ SendFlush \/ Flush
  \/ Confirm \/ Timeout \/ ConnReset

-----------------------------------------------------------------------------
(* The controller and the network *)

Serve ==
  /\ conn = "up"
  /\ c2s # <<>>
  /\ \E e \in BOOLEAN :
       s2c' = Append(s2c, [tid |-> Head(c2s).tid, op |-> Head(c2s).op,
                           age |-> Head(c2s).age, exception |-> e])
  /\ c2s' = Tail(c2s)
  /\ UNCHANGED <<conn, pc, rc, faults, ctl>>

\* The peer closes; what it has already sent may still be readable.
Drop ==
  /\ conn = "up"
  /\ Fault
  /\ conn' = "lost"
  /\ c2s' = <<>>
  /\ s2c' \in {s2c, <<>>}
  /\ UNCHANGED <<pc, rc, ctl>>

Next ==
  \/ \E o \in Ops : Request(o)
  \/ Client
  \/ Serve
  \/ Drop

\* The caller keeps calling, its thread runs, and the controller serves what
\* it has received.
Fairness ==
  /\ WF_vars(\E o \in Ops : Request(o))
  /\ WF_vars(Client)
  /\ WF_vars(Serve)

Spec == Init /\ [][Next]_vars
FairSpec == Spec /\ Fairness

-----------------------------------------------------------------------------
(* Properties *)

\* check_confirmation never takes a late answer for the answer to the request
\* in progress, unless the late one is at least TidMod requests old: the
\* 16-bit identifier of _modbus_tcp_build_request_basis has then come round.
StaleOnlyAfterWrap == acceptedAge = 0 \/ acceptedAge >= TidMod

\* Answers of earlier requests that are still to be read.
Leftover ==
  Len(c2s) + Len(s2c) - (IF pc = "wait" THEN 1 ELSE 0)

\* With the default MODBUS_ERROR_RECOVERY_NONE, an answer left behind by a
\* timeout is never removed: each later request reads its predecessor's answer.
LeftoverNeverShrinks ==
  [][error_recovery = {} /\ conn = "up" /\ conn' = "up" => Leftover' >= Leftover]_vars

\* While an answer is left behind, a request of that connection succeeds only
\* by taking one that is at least TidMod requests old, never by its own answer.
LeftoverBlocksSuccess ==
  [][(/\ conn = "up" /\ Leftover > 0
      /\ pc = "wait" /\ pc' # "wait" /\ rc' = "ok") => acceptedAge' >= TidMod]_vars

\* With both recovery modes, after the last fault every request gets its own
\* answer: the flush after a mismatch or a timeout puts the stream in step.
Resynchronises ==
  error_recovery = {"LINK", "PROTOCOL"} => <>[](pc = "idle" => rc \in {"ok", "exception"})
=============================================================================
