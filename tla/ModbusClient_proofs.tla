------------------------- MODULE ModbusClient_proofs -------------------------
(* Proofs of the safety properties of ModbusClient, for every set of         *)
(* requests, recovery mode, number of identifiers and bound.                 *)
EXTENDS ModbusClient, TLAPS

-----------------------------------------------------------------------------
(* The inductive invariant *)

\* Every message of the connection carries the identifier the client had when
\* it built the request: one identifier back for each request built since.
TracksAge(s) ==
  \A i \in DOMAIN s : s[i].age <= TidMod =>
     s[i].tid + s[i].age \in {t_id, t_id + TidMod}

TidTracksAge == TracksAge(c2s) /\ TracksAge(s2c)

\* The stream keeps the order of the requests: ages fall from the oldest
\* confirmation to the newest request, and before a send all are older than
\* the request about to leave.
Falling(s) == \A i, j \in DOMAIN s : i < j => s[i].age > s[j].age

OldestFirst ==
  /\ Falling(c2s)
  /\ Falling(s2c)
  /\ \A i \in DOMAIN s2c, j \in DOMAIN c2s : s2c[i].age > c2s[j].age
  /\ pc \in {"send", "sendflush", "relink"} =>
       /\ \A i \in DOMAIN c2s : c2s[i].age > 0
       /\ \A i \in DOMAIN s2c : s2c[i].age > 0

\* A context without recovery never sleeps, flushes or connects again.
RecoveryUsed == pc \in {"sendflush", "relink", "flush"} => error_recovery # {}

IndInv ==
  TypeOK /\ TidTracksAge /\ OldestFirst /\ StaleOnlyAfterWrap /\ RecoveryUsed

-----------------------------------------------------------------------------
(* What the operators of the model do to a sequence of messages *)

\* The next identifier is one more, or starts again.
LEMMA NextTidRange ==
  ASSUME NEW t \in 0 .. TidMod - 1
  PROVE  /\ NextTid(t) \in 0 .. TidMod - 1
         /\ NextTid(t) \in {t + 1, t + 1 - TidMod}
  BY ConstantsOK DEF NextTid

\* A request makes every message one request older.
LEMMA OlderMessages ==
  ASSUME NEW s \in Seq(Message)
  PROVE  /\ Older(s) \in Seq(Message)
         /\ DOMAIN Older(s) = DOMAIN s
         /\ \A i \in DOMAIN s : /\ Older(s)[i].tid = s[i].tid
                                /\ Older(s)[i].age = s[i].age + 1
<1>1. s \in [1 .. Len(s) -> Message] /\ DOMAIN s = 1 .. Len(s) /\ Len(s) \in Nat
  OBVIOUS
<1>2. ASSUME NEW i \in DOMAIN s
      PROVE  [s[i] EXCEPT !.age = @ + 1] \in Message
  <2>1. s[i] \in Message
    BY <1>1
  <2>2. s[i].age + 1 \in Nat
    BY <2>1 DEF Message
  <2> QED
    BY <2>1, <2>2 DEF Message
<1>3. Older(s) \in [1 .. Len(s) -> Message]
  BY <1>1, <1>2 DEF Older
<1>4. \A i \in DOMAIN s : /\ Older(s)[i].tid = s[i].tid
                          /\ Older(s)[i].age = s[i].age + 1
  BY <1>1 DEF Older, Message
<1> QED
  BY <1>1, <1>3, <1>4

\* The same of answers.
LEMMA OlderResponses ==
  ASSUME NEW s \in Seq(Response)
  PROVE  /\ Older(s) \in Seq(Response)
         /\ DOMAIN Older(s) = DOMAIN s
         /\ \A i \in DOMAIN s : /\ Older(s)[i].tid = s[i].tid
                                /\ Older(s)[i].age = s[i].age + 1
<1>1. s \in [1 .. Len(s) -> Response] /\ DOMAIN s = 1 .. Len(s) /\ Len(s) \in Nat
  OBVIOUS
<1>2. ASSUME NEW i \in DOMAIN s
      PROVE  [s[i] EXCEPT !.age = @ + 1] \in Response
  <2>1. s[i] \in Response
    BY <1>1
  <2>2. s[i].age + 1 \in Nat
    BY <2>1 DEF Response
  <2> QED
    BY <2>1, <2>2 DEF Response
<1>3. Older(s) \in [1 .. Len(s) -> Response]
  BY <1>1, <1>2 DEF Older
<1>4. \A i \in DOMAIN s : /\ Older(s)[i].tid = s[i].tid
                          /\ Older(s)[i].age = s[i].age + 1
  BY <1>1 DEF Older, Response
<1> QED
  BY <1>1, <1>3, <1>4

\* What is left of a stream when its first message is taken.
LEMMA TailElements ==
  ASSUME NEW S, NEW s \in Seq(S), s # <<>>
  PROVE  /\ Tail(s) \in Seq(S)
         /\ \A i \in DOMAIN Tail(s) : i \in Nat /\ i + 1 \in DOMAIN s /\ Tail(s)[i] = s[i + 1]
         /\ 1 \in DOMAIN s /\ Head(s) = s[1]
         /\ \A i \in DOMAIN Tail(s) : 1 < i + 1
  OBVIOUS

\* Ages still fall along what is left.
LEMMA TailFalls ==
  ASSUME NEW S, NEW s \in Seq(S), s # <<>>, Falling(s)
  PROVE  Falling(Tail(s))
<1> SUFFICES ASSUME NEW i \in DOMAIN Tail(s), NEW j \in DOMAIN Tail(s), i < j
             PROVE  Tail(s)[i].age > Tail(s)[j].age
  BY DEF Falling
<1>1. /\ i + 1 \in DOMAIN s /\ Tail(s)[i] = s[i + 1] /\ i \in Nat
      /\ j + 1 \in DOMAIN s /\ Tail(s)[j] = s[j + 1] /\ j \in Nat
  BY TailElements
<1>2. i + 1 < j + 1
  BY <1>1
<1> QED
  BY <1>1, <1>2 DEF Falling

-----------------------------------------------------------------------------
(* Typing *)

\* Every variable of the client and the stream starts with its type.
LEMMA TypeInit == Init => TypeOK
  BY ConstantsOK DEF Init, TypeOK

\* Every step keeps the types.
LEMMA TypeStep == TypeOK /\ [Next]_vars => TypeOK'
<1> SUFFICES ASSUME TypeOK, [Next]_vars
             PROVE  TypeOK'
  OBVIOUS
<1> USE ConstantsOK DEF TypeOK
<1>1. ASSUME NEW o \in Ops, Request(o)
      PROVE  TypeOK'
  BY <1>1, NextTidRange, OlderMessages, OlderResponses DEF Request
<1>2. CASE Send
  <2>1. [tid |-> t_id, op |-> op, age |-> 0] \in Message
    BY DEF Message
  <2> QED
    BY <1>2, <2>1 DEF Send, ctl
<1>3. CASE SendFail
  BY <1>3 DEF SendFail, ctl, Errors
<1>4. CASE Relink
  BY <1>4 DEF Relink, Connect, Fault, ctl
<1>5. CASE SendFlush
  BY <1>5 DEF SendFlush, FlushInput, Fault, ctl
<1>6. CASE Flush
  BY <1>6 DEF Flush, FlushInput, Fault, ctl
<1>7. CASE Confirm
  <2>1. Head(s2c) \in Response /\ Tail(s2c) \in Seq(Response)
    BY <1>7 DEF Confirm
  <2>2. Head(s2c).age \in Nat
    BY <2>1 DEF Response
  <2> QED
    BY <1>7, <2>1, <2>2 DEF Confirm, OnMismatch, Errors
<1>8. CASE Timeout
  BY <1>8 DEF Timeout, Fault, ctl, Errors
<1>9. CASE ConnReset
  <2>1. <<>> \in Seq(Message) /\ <<>> \in Seq(Response)
    OBVIOUS
  <2>2. c2s' \in Seq(Message) /\ s2c' \in Seq(Response)
    BY <1>9, <2>1 DEF ConnReset, Connect
  <2>3. conn' \in {"up", "lost", "down"} /\ faults' \in Nat
    BY <1>9 DEF ConnReset, Connect, Fault
  <2> QED
    BY <1>9, <2>2, <2>3 DEF ConnReset, ctl, Errors
<1>10. CASE Serve
  <2>1. PICK e \in BOOLEAN :
          s2c' = Append(s2c, [tid |-> Head(c2s).tid, op |-> Head(c2s).op,
                              age |-> Head(c2s).age, exception |-> e])
    BY <1>10 DEF Serve
  <2>2. Head(c2s) \in Message /\ Tail(c2s) \in Seq(Message)
    BY <1>10 DEF Serve
  <2>3. [tid |-> Head(c2s).tid, op |-> Head(c2s).op,
         age |-> Head(c2s).age, exception |-> e] \in Response
    BY <2>2 DEF Message, Response
  <2> QED
    BY <1>10, <2>1, <2>2, <2>3 DEF Serve, ctl
<1>11. CASE Drop
  <2>1. <<>> \in Seq(Message) /\ <<>> \in Seq(Response)
    OBVIOUS
  <2>2. c2s' \in Seq(Message) /\ s2c' \in Seq(Response)
    BY <1>11, <2>1 DEF Drop
  <2> QED
    BY <1>11, <2>2 DEF Drop, Fault, ctl
<1>12. CASE UNCHANGED vars
  BY <1>12 DEF vars
<1> QED
  BY <1>1, <1>2, <1>3, <1>4, <1>5, <1>6, <1>7, <1>8, <1>9, <1>10, <1>11, <1>12
  DEF Next, Client

\* Every variable keeps its type.
THEOREM Typing == Spec => []TypeOK
  BY TypeInit, TypeStep, PTL DEF Spec

-----------------------------------------------------------------------------
(* The identifiers and the order of the messages *)

\* The stream starts empty.
LEMMA IndInit == Init => IndInv
<1>1. Init => TidTracksAge /\ OldestFirst /\ StaleOnlyAfterWrap /\ RecoveryUsed
  BY DEF Init, TidTracksAge, TracksAge, OldestFirst, Falling, StaleOnlyAfterWrap,
         RecoveryUsed
<1> QED
  BY <1>1, TypeInit DEF IndInv

\* A request makes every message one older and moves the identifier by one.
LEMMA TracksStep ==
  ASSUME NEW t \in 0 .. TidMod - 1, NEW tid \in 0 .. TidMod - 1, NEW age \in Nat,
         age <= TidMod => tid + age \in {t, t + TidMod},
         age + 1 <= TidMod
  PROVE  tid + (age + 1) \in {NextTid(t), NextTid(t) + TidMod}
  BY ConstantsOK DEF NextTid

\* A new request keeps identifiers and ages together.
LEMMA RequestStep ==
  ASSUME IndInv, NEW o \in Ops, Request(o)
  PROVE  TidTracksAge' /\ OldestFirst' /\ StaleOnlyAfterWrap'
<1>0. TypeOK /\ TidTracksAge /\ OldestFirst /\ StaleOnlyAfterWrap
  BY DEF IndInv
<1>1. c2s' = Older(c2s) /\ s2c' = Older(s2c) /\ t_id' = NextTid(t_id)
  BY DEF Request
<1>2. /\ DOMAIN c2s' = DOMAIN c2s
      /\ \A i \in DOMAIN c2s : /\ c2s'[i].tid = c2s[i].tid
                               /\ c2s'[i].age = c2s[i].age + 1
                               /\ c2s[i] \in Message
  BY <1>0, <1>1, OlderMessages DEF TypeOK
<1>3. /\ DOMAIN s2c' = DOMAIN s2c
      /\ \A i \in DOMAIN s2c : /\ s2c'[i].tid = s2c[i].tid
                               /\ s2c'[i].age = s2c[i].age + 1
                               /\ s2c[i] \in Response
  BY <1>0, <1>1, OlderResponses DEF TypeOK
<1>4. TracksAge(c2s)'
  <2> SUFFICES ASSUME NEW i \in DOMAIN c2s, c2s[i].age + 1 <= TidMod
               PROVE  c2s[i].tid + (c2s[i].age + 1) \in {t_id', t_id' + TidMod}
    BY <1>1, <1>2 DEF TracksAge
  <2>1. c2s[i].tid \in 0 .. TidMod - 1 /\ c2s[i].age \in Nat
    BY <1>2 DEF Message
  <2>2. c2s[i].age <= TidMod => c2s[i].tid + c2s[i].age \in {t_id, t_id + TidMod}
    BY <1>0 DEF TidTracksAge, TracksAge
  <2>3. t_id \in 0 .. TidMod - 1
    BY <1>0 DEF TypeOK
  <2> QED
    BY <1>1, <2>1, <2>2, <2>3, TracksStep
<1>5. TracksAge(s2c)'
  <2> SUFFICES ASSUME NEW i \in DOMAIN s2c, s2c[i].age + 1 <= TidMod
               PROVE  s2c[i].tid + (s2c[i].age + 1) \in {t_id', t_id' + TidMod}
    BY <1>1, <1>3 DEF TracksAge
  <2>1. s2c[i].tid \in 0 .. TidMod - 1 /\ s2c[i].age \in Nat
    BY <1>3 DEF Response
  <2>2. s2c[i].age <= TidMod => s2c[i].tid + s2c[i].age \in {t_id, t_id + TidMod}
    BY <1>0 DEF TidTracksAge, TracksAge
  <2>3. t_id \in 0 .. TidMod - 1
    BY <1>0 DEF TypeOK
  <2> QED
    BY <1>1, <2>1, <2>2, <2>3, TracksStep
<1>6. /\ \A i \in DOMAIN c2s : c2s[i].age \in Nat
      /\ \A i \in DOMAIN s2c : s2c[i].age \in Nat
  BY <1>2, <1>3 DEF Message, Response
<1>7. OldestFirst'
  <2>1. Falling(c2s)'
    BY <1>0, <1>2, <1>6 DEF OldestFirst, Falling
  <2>2. Falling(s2c)'
    BY <1>0, <1>3, <1>6 DEF OldestFirst, Falling
  <2>3. \A i \in DOMAIN s2c', j \in DOMAIN c2s' : s2c'[i].age > c2s'[j].age
    BY <1>0, <1>2, <1>3, <1>6 DEF OldestFirst
  <2>4. /\ \A i \in DOMAIN c2s' : c2s'[i].age > 0
        /\ \A i \in DOMAIN s2c' : s2c'[i].age > 0
    BY <1>2, <1>3, <1>6
  <2> QED
    BY <2>1, <2>2, <2>3, <2>4 DEF OldestFirst
<1>8. StaleOnlyAfterWrap'
  BY <1>0 DEF Request, StaleOnlyAfterWrap
<1> QED
  BY <1>4, <1>5, <1>7, <1>8 DEF TidTracksAge

\* The request appended by a send is younger than all before it.
LEMMA SendStep ==
  ASSUME IndInv, Send
  PROVE  TidTracksAge' /\ OldestFirst' /\ StaleOnlyAfterWrap'
<1>0. TypeOK /\ TidTracksAge /\ OldestFirst /\ StaleOnlyAfterWrap
  BY DEF IndInv
<1> DEFINE m == [tid |-> t_id, op |-> op, age |-> 0]
<1>1. pc = "send" /\ pc' = "wait" /\ s2c' = s2c /\ t_id' = t_id
      /\ acceptedAge' = acceptedAge
  BY DEF Send, ctl
<1>2. CASE c2s' = c2s
  BY <1>0, <1>1, <1>2 DEF TidTracksAge, TracksAge, OldestFirst, Falling,
                           StaleOnlyAfterWrap
<1>3. CASE c2s' = Append(c2s, m)
  <2>1. /\ DOMAIN c2s' = 1 .. Len(c2s) + 1
        /\ \A i \in 1 .. Len(c2s) : c2s'[i] = c2s[i]
        /\ c2s'[Len(c2s) + 1] = m
        /\ DOMAIN c2s = 1 .. Len(c2s) /\ Len(c2s) \in Nat
    BY <1>0, <1>3 DEF TypeOK
  <2>a. t_id \in 0 .. TidMod - 1
    BY <1>0 DEF TypeOK
  <2>2. m.tid = t_id /\ m.age = 0
    OBVIOUS
  <2>3. /\ \A i \in 1 .. Len(c2s) : c2s[i].age > 0
        /\ \A i \in DOMAIN s2c : s2c[i].age > 0
    BY <1>0, <1>1, <2>1 DEF OldestFirst
  <2> HIDE DEF m
  <2>4. TracksAge(c2s)'
    BY <1>0, <1>1, <2>a, <2>1, <2>2, ConstantsOK DEF TidTracksAge, TracksAge
  <2>5. Falling(c2s)'
    BY <1>0, <2>1, <2>2, <2>3 DEF OldestFirst, Falling
  <2>6. \A i \in DOMAIN s2c, j \in DOMAIN c2s' : s2c[i].age > c2s'[j].age
    BY <1>0, <2>1, <2>2, <2>3 DEF OldestFirst
  <2>7. OldestFirst'
    BY <1>0, <1>1, <2>5, <2>6 DEF OldestFirst, Falling
  <2> QED
    BY <1>0, <1>1, <2>4, <2>7 DEF TidTracksAge, TracksAge, StaleOnlyAfterWrap
<1> QED
  BY <1>2, <1>3 DEF Send

\* The controller moves the oldest request to the end of the confirmations.
LEMMA ServeStep ==
  ASSUME IndInv, Serve
  PROVE  TidTracksAge' /\ OldestFirst' /\ StaleOnlyAfterWrap'
<1>0. TypeOK /\ TidTracksAge /\ OldestFirst /\ StaleOnlyAfterWrap
  BY DEF IndInv
<1>1. /\ c2s # <<>> /\ c2s' = Tail(c2s)
      /\ pc' = pc /\ t_id' = t_id /\ acceptedAge' = acceptedAge
  BY DEF Serve, ctl
<1>2. PICK e \in BOOLEAN :
        s2c' = Append(s2c, [tid |-> Head(c2s).tid, op |-> Head(c2s).op,
                            age |-> Head(c2s).age, exception |-> e])
  BY DEF Serve
<1> DEFINE r == [tid |-> Head(c2s).tid, op |-> Head(c2s).op,
                 age |-> Head(c2s).age, exception |-> e]
<1>3. r.tid = c2s[1].tid /\ r.age = c2s[1].age
  BY <1>0, <1>1 DEF TypeOK
<1>4. /\ DOMAIN s2c' = 1 .. Len(s2c) + 1
      /\ \A i \in 1 .. Len(s2c) : s2c'[i] = s2c[i]
      /\ s2c'[Len(s2c) + 1] = r
      /\ DOMAIN s2c = 1 .. Len(s2c) /\ Len(s2c) \in Nat
  BY <1>0, <1>2 DEF TypeOK
<1> HIDE DEF r
<1>5. /\ \A i \in DOMAIN c2s' : i + 1 \in DOMAIN c2s /\ c2s'[i] = c2s[i + 1] /\ 1 < i + 1
      /\ 1 \in DOMAIN c2s
  BY <1>0, <1>1, TailElements DEF TypeOK
<1>6. TidTracksAge'
  BY <1>0, <1>1, <1>3, <1>4, <1>5 DEF TidTracksAge, TracksAge
<1>7. Falling(c2s)'
  <2>1. Falling(Tail(c2s))
    BY <1>0, <1>1, TailFalls DEF OldestFirst, TypeOK
  <2> QED
    BY <1>1, <2>1 DEF Falling
<1>8. Falling(s2c)'
  BY <1>0, <1>3, <1>4, <1>5 DEF OldestFirst, Falling
<1>9. ASSUME NEW i \in DOMAIN s2c', NEW j \in DOMAIN c2s'
      PROVE  s2c'[i].age > c2s'[j].age
  <2>1. c2s'[j] = c2s[j + 1] /\ j + 1 \in DOMAIN c2s /\ 1 < j + 1
    BY <1>5
  <2>2. CASE i \in DOMAIN s2c
    BY <1>0, <1>4, <2>1, <2>2 DEF OldestFirst
  <2>3. CASE i = Len(s2c) + 1
    BY <1>0, <1>3, <1>4, <1>5, <2>1, <2>3 DEF OldestFirst, Falling
  <2> QED
    BY <1>4, <2>2, <2>3
<1>10. ASSUME pc \in {"send", "sendflush", "relink"}
       PROVE  /\ \A i \in DOMAIN c2s' : c2s'[i].age > 0
              /\ \A i \in DOMAIN s2c' : s2c'[i].age > 0
  <2>1. /\ \A i \in DOMAIN c2s : c2s[i].age > 0
        /\ \A i \in DOMAIN s2c : s2c[i].age > 0
    BY <1>0, <1>10 DEF OldestFirst
  <2> QED
    BY <1>3, <1>4, <1>5, <2>1
<1> QED
  BY <1>0, <1>1, <1>6, <1>7, <1>8, <1>9, <1>10 DEF OldestFirst, StaleOnlyAfterWrap

\* check_confirmation takes the oldest confirmation and accepts its age only
\* under the identifier of the request in progress.
LEMMA ConfirmStep ==
  ASSUME IndInv, Confirm
  PROVE  TidTracksAge' /\ OldestFirst' /\ StaleOnlyAfterWrap'
<1>0. TypeOK /\ TidTracksAge /\ OldestFirst /\ StaleOnlyAfterWrap
  BY DEF IndInv
<1>1. /\ s2c # <<>> /\ s2c' = Tail(s2c) /\ c2s' = c2s /\ t_id' = t_id
      /\ pc = "wait" /\ pc' \in {"idle", "flush"}
  BY DEF Confirm, OnMismatch
<1>2. /\ \A i \in DOMAIN s2c' : i + 1 \in DOMAIN s2c /\ s2c'[i] = s2c[i + 1]
      /\ 1 \in DOMAIN s2c /\ Head(s2c) = s2c[1]
  BY <1>0, <1>1, TailElements DEF TypeOK
<1>3. TidTracksAge'
  BY <1>0, <1>1, <1>2 DEF TidTracksAge, TracksAge
<1>4. Falling(s2c)'
  <2>1. Falling(Tail(s2c))
    BY <1>0, <1>1, TailFalls DEF OldestFirst, TypeOK
  <2> QED
    BY <1>1, <2>1 DEF Falling
<1>5. OldestFirst'
  BY <1>0, <1>1, <1>2, <1>4 DEF OldestFirst, Falling
<1>6. StaleOnlyAfterWrap'
  <2>1. CASE acceptedAge' = acceptedAge
    BY <1>0, <2>1 DEF StaleOnlyAfterWrap
  <2>2. CASE s2c[1].tid = t_id /\ acceptedAge' = s2c[1].age
    <3>1. s2c[1].age \in Nat /\ s2c[1].tid \in 0 .. TidMod - 1
      <4>1. s2c[1] \in Response
        BY <1>0, <1>2 DEF TypeOK
      <4> QED
        BY <4>1 DEF Response
    <3>2. s2c[1].age <= TidMod => s2c[1].tid + s2c[1].age \in {t_id, t_id + TidMod}
      BY <1>0, <1>2 DEF TidTracksAge, TracksAge
    <3>3. s2c[1].age = 0 \/ s2c[1].age >= TidMod
      BY <2>2, <3>1, <3>2, ConstantsOK
    <3> QED
      BY <2>2, <3>3 DEF StaleOnlyAfterWrap
  <2>3. acceptedAge' = acceptedAge \/ (s2c[1].tid = t_id /\ acceptedAge' = s2c[1].age)
    BY <1>2 DEF Confirm, OnMismatch
  <2> QED
    BY <2>1, <2>2, <2>3
<1> QED
  BY <1>3, <1>5, <1>6

\* The other steps leave the identifier and the accepted age alone and leave each
\* direction as it is or empty it.
LEMMA OtherStep ==
  ASSUME IndInv,
         SendFail \/ Relink \/ SendFlush \/ Flush \/ Timeout \/ ConnReset \/ Drop
           \/ UNCHANGED vars
  PROVE  TidTracksAge' /\ OldestFirst' /\ StaleOnlyAfterWrap'
<1>0. TypeOK /\ TidTracksAge /\ OldestFirst /\ StaleOnlyAfterWrap
  BY DEF IndInv
<1>1. /\ t_id' = t_id /\ acceptedAge' = acceptedAge
      /\ c2s' \in {c2s, <<>>}
      /\ s2c' \in {s2c, <<>>}
  BY DEF SendFail, Relink, SendFlush, Flush, Timeout, ConnReset, Drop, vars, ctl,
         Connect, FlushInput
<1>2. \/ pc' \notin {"send", "sendflush", "relink"}
      \/ pc \in {"send", "sendflush", "relink"}
  BY DEF SendFail, Relink, SendFlush, Flush, Timeout, ConnReset, Drop, vars, ctl
<1>3. DOMAIN <<>> = {}
  OBVIOUS
<1>4. TracksAge(c2s)' /\ TracksAge(s2c)'
  BY <1>0, <1>1, <1>3 DEF TidTracksAge, TracksAge
<1>5. OldestFirst'
  BY <1>0, <1>1, <1>2, <1>3 DEF OldestFirst, Falling
<1> QED
  BY <1>0, <1>1, <1>4, <1>5 DEF TidTracksAge, StaleOnlyAfterWrap

\* IndInv is inductive.
LEMMA IndStep == IndInv /\ [Next]_vars => IndInv'
<1> SUFFICES ASSUME IndInv, [Next]_vars
             PROVE  IndInv'
  OBVIOUS
<1>1. TypeOK'
  BY TypeStep DEF IndInv
<1>2. TidTracksAge' /\ OldestFirst' /\ StaleOnlyAfterWrap'
  BY RequestStep, SendStep, ServeStep, ConfirmStep, OtherStep DEF Next, Client
<1>3. RecoveryUsed'
  BY DEF IndInv, RecoveryUsed, Next, Client, Request, Send, SendFail, Relink,
         SendFlush, Flush, Confirm, OnMismatch, Timeout, ConnReset, Serve, Drop, vars,
         ctl
<1> QED
  BY <1>1, <1>2, <1>3 DEF IndInv

\* The strengthened invariant holds in every state.
THEOREM Invariance == Spec => []IndInv
  BY IndInit, IndStep, PTL DEF Spec

\* No late answer is ever taken for the answer to the request in progress, short
\* of TidMod requests later: the comparison of identifiers in
\* _modbus_tcp_pre_check_confirmation is enough, whatever is lost or late.
THEOREM NoStaleAnswer == Spec => []StaleOnlyAfterWrap
<1>1. IndInv => StaleOnlyAfterWrap
  BY DEF IndInv
<1> QED
  BY <1>1, Invariance, PTL

-----------------------------------------------------------------------------
(* What a late answer does to a context without error recovery *)

\* Without recovery a step of an open connection leaves leftovers in the stream.
LEMMA LeftoverStep ==
  ASSUME IndInv, [Next]_vars, error_recovery = {}, conn = "up", conn' = "up"
  PROVE  Leftover' >= Leftover
<1>0. TypeOK
  BY DEF IndInv
<1>1. ASSUME NEW o \in Ops, Request(o)
      PROVE  Leftover' >= Leftover
  <2>1. Len(c2s') = Len(c2s) /\ Len(s2c') = Len(s2c)
    BY <1>0, <1>1 DEF TypeOK, Request, Older
  <2>2. pc = "idle" /\ pc' = "send"
    BY <1>1 DEF Request
  <2> QED
    BY <1>0, <2>1, <2>2 DEF Leftover, TypeOK
<1>2. CASE Send
  <2>1. Len(c2s') = Len(c2s) + 1 /\ s2c' = s2c /\ pc = "send" /\ pc' = "wait"
    BY <1>0, <1>2 DEF TypeOK, Send
  <2> QED
    BY <1>0, <2>1 DEF Leftover, TypeOK
<1>3. CASE SendFail \/ Timeout
  <2>1. c2s' = c2s /\ s2c' = s2c /\ pc' # "wait"
    BY <1>3 DEF SendFail, Timeout
  <2> QED
    BY <1>0, <2>1 DEF Leftover, TypeOK
<1>4. CASE Confirm
  <2>1. c2s' = c2s /\ Len(s2c') = Len(s2c) - 1 /\ pc = "wait" /\ pc' # "wait"
    BY <1>0, <1>4 DEF TypeOK, Confirm, OnMismatch
  <2> QED
    BY <1>0, <2>1 DEF Leftover, TypeOK
<1>5. CASE Serve
  <2>1. Len(c2s') = Len(c2s) - 1 /\ Len(s2c') = Len(s2c) + 1 /\ pc' = pc
    BY <1>0, <1>5 DEF TypeOK, Serve
  <2> QED
    BY <1>0, <2>1 DEF Leftover, TypeOK
<1>6. CASE UNCHANGED vars
  BY <1>0, <1>6 DEF Leftover, TypeOK, vars
<1>7. pc \notin {"relink", "sendflush", "flush"}
  BY DEF IndInv, RecoveryUsed
<1> QED
  BY <1>1, <1>2, <1>3, <1>4, <1>5, <1>6, <1>7
  DEF Next, Client, Relink, SendFlush, Flush, ConnReset, Drop

\* With MODBUS_ERROR_RECOVERY_NONE, which the driver keeps, no step of a
\* connection removes an answer that an earlier timeout has left behind.
THEOREM LeftoverStays == Spec => LeftoverNeverShrinks
<1>1. IndInv /\ [Next]_vars
        => [error_recovery = {} /\ conn = "up" /\ conn' = "up" => Leftover' >= Leftover]_vars
  BY LeftoverStep
<1> QED
  BY <1>1, Invariance, PTL DEF Spec, LeftoverNeverShrinks

\* While a leftover is there, the first answer belongs to an earlier request.
LEMMA LeftoverIsOlder ==
  ASSUME IndInv, s2c # <<>>, pc = "wait", Leftover > 0
  PROVE  Head(s2c).age > 0
<1>0. TypeOK /\ OldestFirst
  BY DEF IndInv
<1>1. /\ Head(s2c) = s2c[1] /\ 1 \in DOMAIN s2c
      /\ DOMAIN s2c = 1 .. Len(s2c) /\ DOMAIN c2s = 1 .. Len(c2s)
      /\ Len(s2c) \in Nat /\ Len(c2s) \in Nat
      /\ \A i \in DOMAIN s2c : s2c[i] \in Response
      /\ \A i \in DOMAIN c2s : c2s[i] \in Message
  BY <1>0 DEF TypeOK
<1>2. /\ \A i \in DOMAIN s2c : s2c[i].age \in Nat
      /\ \A i \in DOMAIN c2s : c2s[i].age \in Nat
  BY <1>1 DEF Response, Message
<1>3. CASE Len(s2c) > 1
  <2>1. 2 \in DOMAIN s2c
    BY <1>1, <1>3
  <2> QED
    BY <1>0, <1>1, <1>2, <2>1 DEF OldestFirst, Falling
<1>4. CASE Len(c2s) > 0
  <2>1. 1 \in DOMAIN c2s
    BY <1>1, <1>4
  <2> QED
    BY <1>0, <1>1, <1>2, <2>1 DEF OldestFirst
<1> QED
  BY <1>1, <1>3, <1>4 DEF Leftover

\* While an answer is left behind, a request can succeed only with an answer
\* that is at least TidMod requests old.
THEOREM LeftoverBlocks == Spec => LeftoverBlocksSuccess
<1> DEFINE A == (/\ conn = "up" /\ Leftover > 0
                 /\ pc = "wait" /\ pc' # "wait" /\ rc' = "ok") => acceptedAge' >= TidMod
<1>1. IndInv /\ [Next]_vars => A
  <2> SUFFICES ASSUME IndInv, [Next]_vars, conn = "up", Leftover > 0,
                      pc = "wait", pc' # "wait", rc' = "ok"
               PROVE  acceptedAge' >= TidMod
    OBVIOUS
  <2>1. Confirm
    BY DEF Next, Client, Request, Send, SendFail, Relink, SendFlush, Flush, Timeout,
           ConnReset, Serve, Drop, vars
  <2>2. s2c # <<>> /\ acceptedAge' = Head(s2c).age
    BY <2>1 DEF Confirm, OnMismatch
  <2>3. acceptedAge' > 0
    BY <2>2, LeftoverIsOlder
  <2>4. StaleOnlyAfterWrap'
    BY <2>1, ConfirmStep
  <2> QED
    BY <2>3, <2>4 DEF StaleOnlyAfterWrap
<1> QED
  BY <1>1, Invariance, PTL DEF Spec, LeftoverBlocksSuccess
=============================================================================
