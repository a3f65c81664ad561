------------------------- MODULE CommandService_proofs -------------------------
(* What a program may rely on between two answers of the service, whatever the  *)
(* other parts of the program are: one leg of the arm, from a pose at which it   *)
(* stands to the one of the request that is awaited, with an output that is      *)
(* switched before it and not awaited.                                         *)
EXTENDS CommandService, SequenceTheorems, TLAPS

\* No call fails unseen: a line whose calls are refused stays in step, and the arm
\* skips a motion.
NothingUnseen == "refused" \notin Faults /\ ~Timed

MotionsTo(p) == [name : {"PTP", "LINE"}, goal : {p}]

\* A motion that is awaited, by the command it writes.
Ordered(c) == Motion(c.name, c.goal, TRUE)

\* The arm stands at p; an output may have triggered the motion to p once more.
Standing(p) ==
  /\ arm = p
  /\ moves = <<>> \/ \E d \in MotionsTo(p) : moves = <<d>>

\* The motion c has been triggered, and may be complete.
UnderWay(c, p) ==
  \/ arm = p /\ (moves = <<c>> \/ \E d \in MotionsTo(p) : moves = <<d, c>>)
  \/ arm = c.goal /\ moves = <<>>

\* The output is sent before what is asked.
Before(o, asked) == IF asked = <<>> THEN <<o>> ELSE <<o, asked[1]>>

\* The output was sent and is not switched yet.
Ahead(asked, from, grip) ==
  /\ link = "up" /\ moves = <<>> /\ arm = from
  /\ \/ serving = NoRequest /\ requests = Before(Output(VacuumPin, grip), asked)
     \/ /\ serving = Output(VacuumPin, grip) /\ serving # NoRequest
        /\ requests = asked /\ stage = "write"

\* It is switched, or there is none, and what is asked has not moved the arm.
Behind(switch, asked, from, grip) ==
  /\ Standing(from)
  /\ link # "lost" => vacuum = grip
  /\ ~switch => moves = <<>> /\ link = "up"
  /\ link \in {"up", "desync", "lost"}
  /\ \/ /\ switch /\ serving = Output(VacuumPin, grip) /\ serving # NoRequest
        /\ requests = asked
        /\ stage = "done" \/ (stage = "trigger" /\ moves = <<>>)
     \/ serving = NoRequest /\ requests = asked
     \/ asked = <<serving>> /\ serving # NoRequest /\ requests = <<>> /\ stage = "write"

\* The motion asked for is in the table, and not triggered.
Tabled(c, from, grip) ==
  /\ stage = "trigger"
  /\ Standing(from)
  /\ link \in {"up", "desync", "lost"}
  /\ link # "lost" => table = c /\ fresh /\ vacuum = grip

\* It was triggered, unless the line was lost.
Triggered(c, from, grip) ==
  /\ stage = "done"
  /\ link \in {"up", "desync", "lost"}
  /\ \/ link = "lost" /\ Standing(from)
     \/ vacuum = grip /\ UnderWay(c, from)
  /\ link # "lost" => table = c

\* Nothing is left to do.
Quiet(p, grip) ==
  /\ requests = <<>> /\ serving = NoRequest
  /\ link = "up" /\ moves = <<>> /\ arm = p /\ vacuum = grip

CheckPose == Plain("CHECK_POSE", TRUE)

\* CHECK_POSE was executed: on a line in step it shows where the arm stands.
Checked(from, grip) ==
  /\ stage = "done"
  /\ link \in {"up", "desync", "lost"}
  /\ moves = <<>> /\ arm = from
  /\ link = "up" => shown = from /\ vacuum = grip

Asking(r) == requests = <<>> /\ serving = r /\ serving # NoRequest

\* A motion that is awaited, from its trigger on.
Moving(asked, from, grip, back) ==
  asked # <<>> /\ \E c \in asked[1].writes :
    /\ asked[1] = Ordered(c)
    /\ \/ /\ Asking(asked[1])
          /\ Tabled(c, from, grip) \/ Triggered(c, from, grip)
          /\ table \in back \cup {c}
       \/ Quiet(c.goal, grip) /\ table = c

\* A CHECK_POSE that is awaited, from its execution on.
Showing(asked, from, grip, back) ==
  /\ asked = <<CheckPose>>
  /\ \/ Asking(CheckPose) /\ Checked(from, grip)
     \/ Quiet(from, grip) /\ shown = from
  /\ table \in back

\* One leg.  asked is what is awaited, if anything; from is where the arm stood when
\* the last answer came; grip is what the vacuum was told last, and switch whether
\* that was on this leg; back is what the table may have held.
Leg(switch, asked, from, grip, back) ==
  /\ out \in [Pins -> {0, 1}] /\ stage \in {"write", "trigger", "done"}
  /\ \/ switch /\ Ahead(asked, from, grip) /\ table \in back
     \/ Behind(switch, asked, from, grip) /\ table \in back
     \/ Moving(asked, from, grip, back)
     \/ Showing(asked, from, grip, back)

\* What may be awaited: nothing, a motion, or the pose.
Askable(asked) ==
  \/ asked = <<>> \/ asked = <<CheckPose>>
  \/ \E n \in {"PTP", "LINE"} : \E g : asked = <<Motion(n, g, TRUE)>>

\* Legs of the programs: an output is switched where a motion has ended, and before
\* another motion.
Possible(switch, asked, from, grip, back) ==
  /\ switch \in BOOLEAN /\ grip \in {0, 1} /\ Askable(asked)
  /\ switch => back \subseteq MotionsTo(from) /\ asked # <<CheckPose>>

-----------------------------------------------------------------------------
(* The calls *)

\* As long as the line is not lost its calls take effect.
LEMMA LineFacts ==
  ASSUME NothingUnseen, NEW effect \in BOOLEAN, Line(effect), link \in {"up", "desync", "lost"}
  PROVE  /\ link' \in {"up", "desync", "lost"}
         /\ link' # "lost" => effect /\ link # "lost"
         /\ link' = "up" => link = "up"
         /\ link = "lost" => ~effect
  BY DEF NothingUnseen, Line

\* The fields of the requests the programs build.
LEMMA RequestFields ==
  /\ \A on : /\ Output(VacuumPin, on).mode = "DO" /\ Output(VacuumPin, on).holding = FALSE
             /\ Output(VacuumPin, on).writes = {} /\ Output(VacuumPin, on).pin = VacuumPin
             /\ Output(VacuumPin, on).on = on
             /\ Acts(Output(VacuumPin, on)) /\ Calls(Output(VacuumPin, on))
  /\ \A n \in {"PTP", "LINE"} : \A g :
       /\ Motion(n, g, TRUE).mode = n /\ Motion(n, g, TRUE).holding = TRUE
       /\ Motion(n, g, TRUE).writes = {[name |-> n, goal |-> g]}
       /\ Acts(Motion(n, g, TRUE)) /\ Calls(Motion(n, g, TRUE))
  /\ CheckPose.mode = "CHECK_POSE" /\ CheckPose.holding = TRUE /\ CheckPose.writes = {}
  /\ ~Acts(CheckPose) /\ Calls(CheckPose)
  BY DEF Output, Motion, Plain, CheckPose, Acts, Calls, VacuumPin

\* What is awaited is one request, a held one.
LEMMA AskedOne ==
  ASSUME NEW asked, Askable(asked), asked # <<>>
  PROVE  /\ asked = <<asked[1]>>
         /\ asked[1].mode \in {"PTP", "LINE", "CHECK_POSE"} /\ asked[1].holding = TRUE
<1>1. ASSUME NEW r, asked = <<r>>
      PROVE  asked = <<asked[1]>> /\ asked[1] = r
  BY <1>1
<1>2. CASE asked = <<CheckPose>>
  BY <1>1, <1>2, RequestFields
<1>3. ASSUME NEW n \in {"PTP", "LINE"}, NEW g, asked = <<Motion(n, g, TRUE)>>
      PROVE  /\ asked = <<asked[1]>>
             /\ asked[1].mode \in {"PTP", "LINE", "CHECK_POSE"} /\ asked[1].holding = TRUE
  BY <1>1, <1>3, RequestFields
<1> QED
  BY <1>2, <1>3 DEF Askable

\* The output comes first.
LEMMA OutputFirst ==
  ASSUME NEW asked, Askable(asked), NEW o
  PROVE  /\ Before(o, asked) # <<>>
         /\ Head(Before(o, asked)) = o
         /\ Tail(Before(o, asked)) = asked
<1>1. CASE asked = <<>>
  BY <1>1 DEF Before
<1>2. ASSUME NEW r, asked = <<r>>
      PROVE  Before(o, asked) = <<o, r>>
  BY <1>2 DEF Before
<1>3. \A r : Head(<<o, r>>) = o /\ Tail(<<o, r>>) = <<r>> /\ <<o, r>> # <<>>
  OBVIOUS
<1> QED
  BY <1>1, <1>2, <1>3 DEF Askable

\* A pending output is taken and switched.
LEMMA AheadStep ==
  ASSUME NothingUnseen, NEW switch, NEW asked, NEW from, NEW grip, NEW back,
         Possible(switch, asked, from, grip, back),
         out \in [Pins -> {0, 1}], stage \in {"write", "trigger", "done"},
         switch, Ahead(asked, from, grip), table \in back, ServiceStep
  PROVE  Leg(switch, asked, from, grip, back)'
<1> DEFINE o == Output(VacuumPin, grip)
<1>1. CASE Dispatch
  <2>1. /\ serving = NoRequest /\ requests = Before(o, asked)
        /\ serving' = Head(requests) /\ serving' # NoRequest /\ requests' = Tail(requests)
        /\ stage' = IF Calls(Head(requests)) THEN "write" ELSE "done"
        /\ UNCHANGED <<table, fresh, moves, out, link, arm>>
    BY <1>1 DEF Dispatch, Accept, Ahead
  <2>2. serving' = o /\ requests' = asked
    BY <2>1, OutputFirst DEF Possible
  <2>3. stage' = "write"
    BY <2>1, <2>2, RequestFields
  <2>4. Ahead(asked, from, grip)'
    BY <2>1, <2>2, <2>3 DEF Ahead
  <2> QED
    BY <2>1, <2>3, <2>4 DEF Leg
<1>2. CASE Execute
  BY <1>2, RequestFields, LineFacts, ServiceConstants DEF Execute, Write, Prepare, Trigger, Poll,
     Ahead, Behind, Standing, Leg, Possible, vacuum
<1>3. CASE Reply \/ Move \/ Halt \/ Die
  BY <1>3, RequestFields DEF Reply, Answer, Move, Perform, Halt, TakeSetting, Die, Crash, Ahead
<1> QED
  BY <1>1, <1>2, <1>3 DEF ServiceStep

-----------------------------------------------------------------------------
(* What the arm does by itself *)

\* Where the arm stands it stays: the motion an output triggers again leads there.
LEMMA StandingMoves ==
  ASSUME NEW p, Standing(p), Move
  PROVE  Standing(p)' /\ moves # <<>> /\ moves' = <<>>
<1>1. PICK d \in MotionsTo(p) : moves = <<d>>
  BY DEF Standing, Move, Perform
<1>2. Head(<<d>>) = d /\ Tail(<<d>>) = <<>> /\ d.goal = p
  BY DEF MotionsTo
<1> QED
  BY <1>1, <1>2 DEF Standing, Move, Perform

\* On a leg there is nothing but motions, which no stop ends.
LEMMA StandingStops ==
  ASSUME NEW p, Standing(p)
  PROVE  ~Halt
<1>1. CASE moves = <<>>
  BY <1>1 DEF Halt, TakeSetting
<1>2. ASSUME NEW d \in MotionsTo(p), moves = <<d>>
      PROVE  ~Halt
  <2>1. \A i \in DOMAIN moves : moves[i] = d /\ d.name \in {"PTP", "LINE"}
    BY <1>2 DEF MotionsTo
  <2> QED
    BY <2>1 DEF Halt, TakeSetting, Motions
<1> QED
  BY <1>1, <1>2 DEF Standing

\* A motion under way comes to its goal.
LEMMA UnderWayMoves ==
  ASSUME NEW c, NEW p, UnderWay(c, p), Move
  PROVE  UnderWay(c, p)' /\ moves # <<>>
<1>1. moves # <<>> /\ arm' = Head(moves).goal /\ moves' = Tail(moves)
  BY DEF Move, Perform
<1>2. CASE moves = <<c>>
  BY <1>1, <1>2 DEF UnderWay
<1>3. ASSUME NEW d \in MotionsTo(p), moves = <<d, c>>
      PROVE  UnderWay(c, p)'
  <2>1. Head(<<d, c>>) = d /\ Tail(<<d, c>>) = <<c>> /\ d.goal = p
    BY DEF MotionsTo
  <2> QED
    BY <1>1, <1>3, <2>1 DEF UnderWay
<1> QED
  BY <1>1, <1>2, <1>3 DEF UnderWay

\* No stop ends it.
LEMMA UnderWayStops ==
  ASSUME NEW c, c.name \in {"PTP", "LINE"}, NEW p, UnderWay(c, p)
  PROVE  ~Halt
<1>1. CASE moves = <<>> \/ moves = <<c>>
  BY <1>1 DEF Halt, TakeSetting, Motions
<1>2. ASSUME NEW d \in MotionsTo(p), moves = <<d, c>>
      PROVE  ~Halt
  <2>1. \A i \in DOMAIN moves : moves[i] \in {c, d}
    BY <1>2
  <2>2. d.name \in {"PTP", "LINE"}
    BY DEF MotionsTo
  <2> QED
    BY <2>1, <2>2 DEF Halt, TakeSetting, Motions
<1> QED
  BY <1>1, <1>2 DEF UnderWay

-----------------------------------------------------------------------------
(* The service keeps a leg *)

\* An output is triggered, and what is asked is taken and written.
LEMMA BehindStep ==
  ASSUME NothingUnseen, NEW switch, NEW asked, NEW from, NEW grip, NEW back,
         Possible(switch, asked, from, grip, back),
         out \in [Pins -> {0, 1}], stage \in {"write", "trigger", "done"},
         Behind(switch, asked, from, grip), table \in back, ServiceStep
  PROVE  Leg(switch, asked, from, grip, back)'
<1> DEFINE o == Output(VacuumPin, grip)
<1> USE DEF Possible
<1>1. CASE Dispatch
  <2>1. /\ serving = NoRequest /\ requests = asked /\ asked # <<>>
        /\ serving' = Head(requests) /\ serving' # NoRequest /\ requests' = Tail(requests)
        /\ stage' = IF Calls(Head(requests)) THEN "write" ELSE "done"
        /\ UNCHANGED <<table, fresh, moves, out, link, arm>>
    BY <1>1 DEF Dispatch, Accept, Behind
  <2>2. PICK r : asked = <<r>> /\ Calls(r)
    BY <2>1, RequestFields DEF Askable
  <2>3. serving' = r /\ requests' = <<>> /\ stage' = "write"
    BY <2>1, <2>2
  <2>4. Behind(switch, asked, from, grip)'
    BY <2>1, <2>2, <2>3 DEF Behind, Standing, vacuum
  <2> QED
    BY <2>1, <2>3, <2>4 DEF Leg
<1>2. CASE Execute
  <2>1. serving # NoRequest /\ UNCHANGED <<requests, arm>> /\ UNCHANGED serving
    BY <1>2 DEF Execute, Write, Prepare, Trigger, Poll
  <2>2. CASE switch /\ serving = o /\ requests = asked /\ stage = "trigger" /\ moves = <<>>
    <3>1. PICK effect \in BOOLEAN : Line(effect) /\ IF effect THEN RunTable
                                                    ELSE UNCHANGED <<moves, fresh>>
      BY <1>2, <2>2, RequestFields DEF Execute, Trigger, Write, Prepare, Poll
    <3>2. stage' = "done" /\ UNCHANGED <<table, out>>
      BY <1>2, <2>2, RequestFields DEF Execute, Trigger, Write, Prepare, Poll
    <3>3. moves' = <<>> \/ moves' = <<table>>
      BY <2>2, <3>1 DEF RunTable
    <3>4. table \in MotionsTo(from)
      BY <2>2
    <3> QED
      BY <2>1, <2>2, <3>1, <3>2, <3>3, <3>4, LineFacts DEF Leg, Behind, Standing, vacuum
  <2>3. CASE switch /\ serving = o /\ requests = asked /\ stage = "done"
    <3>1. PICK effect \in BOOLEAN : Line(effect)
      BY <1>2, <2>3, RequestFields DEF Execute, Trigger, Write, Prepare, Poll
    <3>2. UNCHANGED <<stage, table, moves, out>>
      BY <1>2, <2>3, RequestFields DEF Execute, Trigger, Write, Prepare, Poll
    <3> QED
      BY <2>1, <2>3, <3>1, <3>2, LineFacts DEF Leg, Behind, Standing, vacuum
  <2>4. CASE asked = <<serving>> /\ requests = <<>> /\ stage = "write"
    <3>1. /\ serving = CheckPose /\ ~switch
          \/ \E n \in {"PTP", "LINE"} : \E g : serving = Motion(n, g, TRUE)
      BY <2>4 DEF Askable
    <3>0. serving.mode \in {"CHECK_POSE", "PTP", "LINE"}
      <4>1. ASSUME NEW n \in {"PTP", "LINE"}, NEW g, serving = Motion(n, g, TRUE)
            PROVE  serving.mode \in {"CHECK_POSE", "PTP", "LINE"}
        BY <4>1 DEF Motion
      <4> QED
        BY <3>1, <4>1, RequestFields
    <3>2. PICK effect \in BOOLEAN : Write(effect) /\ Read(effect)
      BY <1>2, <2>4, <3>0 DEF Execute, Trigger, Prepare, Poll
    <3>3. CASE serving = CheckPose /\ ~switch
      <4>1. Line(effect) /\ UNCHANGED <<table, fresh, moves, out>> /\ stage' = "done"
        BY <3>2, <3>3, RequestFields DEF Write
      <4>2. moves = <<>> /\ link = "up" /\ arm = from /\ vacuum = grip
        BY <3>3 DEF Behind, Standing
      <4>3. link' = "up" => shown' = from
        BY <3>2, <3>3, <4>1, <4>2, LineFacts, RequestFields DEF Read, Behind
      <4>4. Asking(CheckPose)' /\ Checked(from, grip)'
        BY <2>1, <2>4, <3>3, <4>1, <4>2, <4>3, LineFacts DEF Asking, Checked, vacuum
      <4>5. asked = <<CheckPose>>
        BY <2>4, <3>3
      <4> QED
        BY <4>1, <4>4, <4>5 DEF Leg, Showing
    <3>4. ASSUME NEW n \in {"PTP", "LINE"}, NEW g, serving = Motion(n, g, TRUE)
          PROVE  Leg(switch, asked, from, grip, back)'
      <4> DEFINE c == [name |-> n, goal |-> g]
      <4>0. serving.mode \in {"PTP", "LINE"} /\ serving.writes = {c} /\ Acts(serving)
        BY <3>4, RequestFields
      <4>1. /\ Line(effect) /\ UNCHANGED <<moves, out>> /\ stage' = "trigger"
            /\ IF effect THEN table' = c /\ fresh' = TRUE ELSE UNCHANGED <<table, fresh>>
        <5> HIDE DEF c
        <5> QED
          BY <3>2, <4>0 DEF Write
      <4>2. c \in asked[1].writes /\ asked[1] = Ordered(c) /\ asked # <<>>
        BY <2>4, <3>4, RequestFields DEF Ordered
      <4>3. Tabled(c, from, grip)'
        BY <2>1, <4>1, LineFacts DEF Behind, Tabled, Standing, vacuum
      <4>4. Asking(asked[1])'
        BY <2>1, <2>4 DEF Asking
      <4>5. table' \in back \cup {c}
        BY <4>1
      <4> HIDE DEF c
      <4>6. Moving(asked, from, grip, back)'
        BY <4>2, <4>3, <4>4, <4>5 DEF Moving
      <4> QED
        BY <4>1, <4>6 DEF Leg
    <3> QED
      BY <3>1, <3>3, <3>4
  <2> QED
    BY <2>1, <2>2, <2>3, <2>4 DEF Behind
<1>3. CASE Reply
  <2>1. /\ switch /\ serving = o /\ requests = asked /\ stage = "done"
        /\ serving' = NoRequest /\ stage' = "done"
        /\ UNCHANGED <<requests, arm, table, moves, out>>
        /\ \E effect \in BOOLEAN : Line(effect)
    BY <1>3, RequestFields DEF Reply, Answer, Behind
  <2> QED
    BY <2>1, LineFacts DEF Leg, Behind, Standing, vacuum
<1>4. CASE Move
  <2>1. Standing(from)' /\ moves # <<>> /\ moves' = <<>>
    BY <1>4, StandingMoves DEF Behind
  <2>2. UNCHANGED <<serving, stage, table, fresh, out, link, requests>>
    BY <1>4 DEF Move, Perform
  <2> QED
    BY <2>1, <2>2 DEF Leg, Behind, vacuum
<1>5. CASE Halt \/ Die
  BY <1>5, StandingStops DEF Behind, Die, Crash
<1> QED
  BY <1>1, <1>2, <1>3, <1>4, <1>5 DEF ServiceStep

\* With nothing left to do the service does nothing.
LEMMA QuietStays ==
  ASSUME NEW p, NEW grip, Quiet(p, grip)
  PROVE  ~ServiceStep
  BY DEF Quiet, ServiceStep, Dispatch, Execute, Write, Prepare, Trigger, Poll, Reply, Answer,
         Move, Perform, Halt, TakeSetting, Die, Crash

\* The command of the motion that is awaited.
LEMMA OrderedCommand ==
  ASSUME NEW asked, Askable(asked), asked # <<>>, NEW c \in asked[1].writes,
         asked[1] = Ordered(c)
  PROVE  /\ c.name \in {"PTP", "LINE"} /\ asked[1].mode = c.name /\ asked[1].holding = TRUE
         /\ asked[1].writes = {c} /\ asked = <<asked[1]>>
<1>0. asked # <<CheckPose>>
  <2>1. asked = <<CheckPose>> => asked[1] = CheckPose
    OBVIOUS
  <2> QED
    BY <2>1, RequestFields
<1>1. PICK n \in {"PTP", "LINE"} : \E g : asked = <<Motion(n, g, TRUE)>>
  BY <1>0 DEF Askable
<1>2. PICK g : asked = <<Motion(n, g, TRUE)>>
  BY <1>1
<1>3. asked[1] = Motion(n, g, TRUE)
  BY <1>2
<1>4. c = [name |-> n, goal |-> g]
  BY <1>3 DEF Motion
<1> QED
  BY <1>2, <1>3, <1>4, RequestFields

\* A trigger appends the command to what is left.
LEMMA AppendOne ==
  ASSUME NEW c, NEW d
  PROVE  Append(<<>>, c) = <<c>> /\ Append(<<d>>, c) = <<d, c>>
<1> DEFINE s == <<d>>
           t == <<d, c>>
<1>1. s \in Seq({c, d}) /\ t \in Seq({c, d}) /\ Len(s) = 1 /\ Len(t) = 2
      /\ s[1] = d /\ t[1] = d /\ t[2] = c
  OBVIOUS
<1> HIDE DEF s, t
<1>2. Append(s, c) \in Seq({c, d}) /\ Len(Append(s, c)) = 2
      /\ Append(s, c)[1] = d /\ Append(s, c)[2] = c
  <2> DEFINE S == {c, d}
  <2>1. s \in Seq(S) /\ c \in S
    BY <1>1
  <2> HIDE DEF S
  <2>2. /\ Append(s, c) \in Seq(S) /\ Len(Append(s, c)) = Len(s) + 1
        /\ \A i \in 1 .. Len(s) : Append(s, c)[i] = s[i]
        /\ Append(s, c)[Len(s) + 1] = c
    BY <2>1, AppendProperties
  <2> QED
    BY <1>1, <2>2 DEF S
<1>3. \A i \in 1 .. 2 : i = 1 \/ i = 2
  OBVIOUS
<1>4. Append(s, c) = t
  BY <1>1, <1>2, <1>3, SeqEqual
<1>5. Append(<<>>, c) = <<c>>
  OBVIOUS
<1> QED
  BY <1>4, <1>5 DEF s, t

\* A motion that is still awaited keeps its leg.
LEMMA MovingLeg ==
  ASSUME NEW switch, NEW asked, asked # <<>>, NEW from, NEW grip, NEW back,
         out \in [Pins -> {0, 1}], stage' \in {"write", "trigger", "done"},
         NEW c \in asked[1].writes, asked[1] = Ordered(c),
         serving = asked[1], serving # NoRequest, requests = <<>>, table \in back \cup {c},
         UNCHANGED <<serving, requests, table, out>>,
         Tabled(c, from, grip)' \/ Triggered(c, from, grip)'
  PROVE  Leg(switch, asked, from, grip, back)'
<1>1. Asking(asked[1])' /\ table' \in back \cup {c}
  BY DEF Asking
<1>2. Moving(asked, from, grip, back)'
  BY <1>1 DEF Moving
<1> QED
  BY <1>2 DEF Leg

\* The motion is triggered, comes to its end, and is answered.
LEMMA MovingStep ==
  ASSUME NothingUnseen, NEW switch, NEW asked, NEW from, NEW grip, NEW back,
         Possible(switch, asked, from, grip, back),
         out \in [Pins -> {0, 1}], stage \in {"write", "trigger", "done"},
         Moving(asked, from, grip, back), ServiceStep
  PROVE  Leg(switch, asked, from, grip, back)'
<1>1. PICK c \in asked[1].writes :
        /\ asked[1] = Ordered(c)
        /\ \/ /\ Asking(asked[1])
              /\ Tabled(c, from, grip) \/ Triggered(c, from, grip)
              /\ table \in back \cup {c}
           \/ Quiet(c.goal, grip) /\ table = c
  BY DEF Moving
<1>2. /\ c.name \in {"PTP", "LINE"} /\ asked # <<>>
      /\ asked[1].mode \in {"PTP", "LINE"} /\ asked[1].holding = TRUE
  BY <1>1, OrderedCommand DEF Possible, Moving
<1>3. Asking(asked[1]) /\ (Tabled(c, from, grip) \/ Triggered(c, from, grip))
      /\ table \in back \cup {c}
  BY <1>1, QuietStays
<1>4. /\ serving = asked[1] /\ serving # NoRequest /\ requests = <<>>
      /\ serving.mode \in {"PTP", "LINE"} /\ serving.holding = TRUE
  BY <1>2, <1>3 DEF Asking
<1>5. ~Dispatch /\ ~Die
  BY <1>3, <1>4 DEF Dispatch, Die, Crash, Tabled, Triggered
<1>6. CASE Execute
  <2>1. UNCHANGED <<requests, arm, serving, table, out>> /\ stage' = "done"
    BY <1>3, <1>4, <1>6 DEF Execute, Write, Prepare, Trigger, Poll, Tabled, Triggered
  <2>2. CASE Tabled(c, from, grip)
    <3>1. PICK effect \in BOOLEAN : Line(effect) /\ IF effect THEN RunTable
                                                    ELSE UNCHANGED <<moves, fresh>>
      BY <1>4, <1>6, <2>2 DEF Execute, Write, Prepare, Trigger, Poll, Tabled
    <3>2. ASSUME ~effect PROVE Triggered(c, from, grip)'
      <4>1. link' = "lost" /\ UNCHANGED moves
        BY <2>2, <3>1, <3>2, LineFacts DEF Tabled
      <4> QED
        BY <2>1, <2>2, <4>1 DEF Triggered, Tabled, Standing, vacuum
    <3>3. ASSUME effect PROVE Triggered(c, from, grip)'
      <4>1. table = c /\ vacuum = grip /\ moves' = Append(moves, c) /\ Standing(from)
        BY <1>2, <2>2, <3>1, <3>3, LineFacts DEF Tabled, RunTable
      <4>3. UnderWay(c, from)'
        BY <2>1, <4>1, AppendOne DEF Standing, UnderWay
      <4>4. link' \in {"up", "desync", "lost"}
        BY <2>2, <3>1, LineFacts DEF Tabled
      <4> QED
        BY <2>1, <4>1, <4>3, <4>4 DEF Triggered, vacuum
    <3>4. Triggered(c, from, grip)'
      BY <3>2, <3>3
    <3> QED
      BY <1>1, <1>2, <1>3, <1>4, <2>1, <3>4, MovingLeg
  <2>3. CASE Triggered(c, from, grip)
    <3>1. /\ UNCHANGED moves
          /\ \E effect \in BOOLEAN : Line(effect)
      BY <1>4, <1>6, <2>3 DEF Execute, Write, Prepare, Trigger, Poll, Triggered
    <3>2. /\ Standing(from) => Standing(from)'
          /\ UnderWay(c, from) => UnderWay(c, from)'
          /\ vacuum' = vacuum
      BY <2>1, <3>1 DEF Standing, UnderWay, vacuum
    <3>3. Triggered(c, from, grip)'
      <4>1. link' \in {"up", "desync", "lost"} /\ (link' # "lost" => link # "lost")
            /\ (link = "lost" => link' = "lost")
        BY <2>3, <3>1, LineFacts DEF Triggered
      <4> QED
        BY <2>1, <2>3, <3>2, <4>1 DEF Triggered
    <3> QED
      BY <1>1, <1>2, <1>3, <1>4, <2>1, <3>3, MovingLeg
  <2> QED
    BY <1>3, <2>2, <2>3
<1>7. CASE Reply
  <2>1. Triggered(c, from, grip)
    BY <1>3, <1>7 DEF Reply, Answer, Tabled
  <2>2. /\ link = "up" /\ moves = <<>>
        /\ serving' = NoRequest /\ stage' = "done"
        /\ UNCHANGED <<requests, arm, shown, table, fresh, moves, out, link>>
    BY <1>4, <1>7, <2>1 DEF Reply, Answer, Triggered, NothingUnseen
  <2>3. arm = c.goal /\ vacuum = grip /\ table = c
    BY <2>1, <2>2 DEF Triggered, UnderWay
  <2>4. Quiet(c.goal, grip)'
    BY <1>4, <2>2, <2>3 DEF Quiet, vacuum
  <2> QED
    BY <1>1, <1>2, <2>2, <2>3, <2>4 DEF Leg, Moving
<1>8. CASE Move
  <2>1. UNCHANGED <<serving, stage, table, fresh, out, link, requests>>
    BY <1>8 DEF Move, Perform
  <2>2. Standing(from) => Standing(from)'
    BY <1>8, StandingMoves
  <2>3. UnderWay(c, from) => UnderWay(c, from)'
    BY <1>8, UnderWayMoves
  <2>4. Tabled(c, from, grip)' \/ Triggered(c, from, grip)'
    BY <1>3, <2>1, <2>2, <2>3 DEF Tabled, Triggered, vacuum
  <2> QED
    BY <1>1, <1>2, <1>3, <1>4, <2>1, <2>4, MovingLeg
<1>9. ~Halt
  BY <1>2, <1>3, StandingStops, UnderWayStops DEF Tabled, Triggered
<1> QED
  BY <1>5, <1>6, <1>7, <1>8, <1>9 DEF ServiceStep

\* The pose is read again, or answered.
LEMMA ShowingStep ==
  ASSUME NothingUnseen, NEW switch, NEW asked, NEW from, NEW grip, NEW back,
         Possible(switch, asked, from, grip, back),
         out \in [Pins -> {0, 1}], stage \in {"write", "trigger", "done"},
         Showing(asked, from, grip, back), ServiceStep
  PROVE  Leg(switch, asked, from, grip, back)'
<1>1. /\ asked = <<CheckPose>> /\ table \in back
      /\ requests = <<>> /\ serving = CheckPose /\ serving # NoRequest
      /\ Checked(from, grip)
  BY QuietStays DEF Showing, Asking
<1>2. CASE Execute
  <2>1. /\ UNCHANGED <<requests, arm, shown, serving, stage, table, moves, out>>
        /\ \E effect \in BOOLEAN : Line(effect)
    BY <1>1, <1>2, RequestFields DEF Execute, Write, Prepare, Trigger, Poll, Checked
  <2>2. Checked(from, grip)'
    BY <1>1, <2>1, LineFacts DEF Checked, vacuum
  <2> QED
    BY <1>1, <2>1, <2>2 DEF Leg, Showing, Asking
<1>3. CASE Reply
  <2>1. /\ link = "up" /\ serving' = NoRequest /\ stage' = "done"
        /\ UNCHANGED <<requests, arm, shown, table, moves, out, link>>
    BY <1>1, <1>3, RequestFields DEF Reply, Answer, Checked, NothingUnseen
  <2> QED
    BY <1>1, <2>1 DEF Leg, Showing, Quiet, Checked, vacuum
<1>4. ~Dispatch /\ ~Move /\ ~Halt /\ ~Die
  BY <1>1 DEF Dispatch, Move, Perform, Halt, TakeSetting, Die, Crash, Checked
<1> QED
  BY <1>2, <1>3, <1>4 DEF ServiceStep

\* Whatever the service and the arm do, the leg stays the same.
LEMMA LegStep ==
  ASSUME NothingUnseen, NEW switch, NEW asked, NEW from, NEW grip, NEW back,
         Possible(switch, asked, from, grip, back),
         Leg(switch, asked, from, grip, back), ServiceStep
  PROVE  Leg(switch, asked, from, grip, back)'
  BY AheadStep, BehindStep, MovingStep, ShowingStep DEF Leg

-----------------------------------------------------------------------------
(* What the outside sees of a leg *)

\* The arm leaves where it stood only for the goal of the motion that is awaited, with
\* the vacuum as it was told last.
LEMMA LegMoves ==
  ASSUME NEW switch, NEW asked, NEW from, NEW grip, NEW back,
         Possible(switch, asked, from, grip, back),
         Leg(switch, asked, from, grip, back), ServiceStep, arm' # arm
  PROVE  /\ asked # <<>>
         /\ \E c \in asked[1].writes :
              /\ asked[1] = Ordered(c) /\ moves # <<>> /\ Head(moves) = c
              /\ arm = from /\ arm' = c.goal
         /\ vacuum = grip
<1>1. Move \/ Halt
  BY DEF ServiceStep, Dispatch, Execute, Reply, Die
<1>2. ~Standing(from)
  BY <1>1, StandingMoves, StandingStops DEF Standing
<1>3. Moving(asked, from, grip, back)
  <2>1. ~Ahead(asked, from, grip)
    BY <1>2 DEF Ahead, Standing
  <2>2. ~Showing(asked, from, grip, back)
    BY <1>2, QuietStays DEF Showing, Checked, Standing
  <2> QED
    BY <1>2, <2>1, <2>2 DEF Leg, Behind
<1>4. PICK c \in asked[1].writes :
        asked[1] = Ordered(c) /\ (Tabled(c, from, grip) \/ Triggered(c, from, grip))
  BY <1>3, QuietStays DEF Moving
<1>5. vacuum = grip /\ UnderWay(c, from)
  BY <1>2, <1>4 DEF Tabled, Triggered
<1>6. c.name \in {"PTP", "LINE"} /\ asked # <<>>
  BY <1>3, <1>4, OrderedCommand DEF Possible, Moving
<1>7. Move
  BY <1>1, <1>5, <1>6, UnderWayStops
<1>8. moves # <<>> /\ arm' = Head(moves).goal
  BY <1>7 DEF Move, Perform
<1>9. CASE moves = <<c>>
  BY <1>4, <1>5, <1>6, <1>8, <1>9 DEF UnderWay
<1>10. ASSUME NEW d \in MotionsTo(from), moves = <<d, c>>
       PROVE  FALSE
  <2>1. Head(moves) = d /\ d.goal = from /\ moves # <<>>
    BY <1>10 DEF MotionsTo
  <2> QED
    BY <1>5, <1>8, <2>1 DEF UnderWay
<1> QED
  BY <1>5, <1>8, <1>9, <1>10 DEF UnderWay

\* The vacuum changes as it was told last, with the arm at rest where it stood.
LEMMA LegSwitches ==
  ASSUME NEW switch, NEW asked, NEW from, NEW grip, NEW back,
         Possible(switch, asked, from, grip, back),
         Leg(switch, asked, from, grip, back), ServiceStep, vacuum' # vacuum
  PROVE  switch /\ arm = from /\ moves = <<>> /\ vacuum' = grip
<1>1. out' # out
  BY DEF vacuum
<1>2. /\ serving # NoRequest /\ serving.mode = "DO" /\ stage = "write"
      /\ out' = [out EXCEPT ![serving.pin] = serving.on]
  BY <1>1 DEF ServiceStep, Dispatch, Accept, Execute, Write, Prepare, Trigger, Poll, Reply, Answer,
     Move, Perform, Halt, TakeSetting, Die, Crash
<1>3. asked # <<>> => asked = <<asked[1]>> /\ asked[1].mode # "DO"
  BY AskedOne DEF Possible
<1>5. ~Behind(switch, asked, from, grip) /\ ~Moving(asked, from, grip, back)
      /\ ~Showing(asked, from, grip, back)
  BY <1>2, <1>3 DEF Behind, Moving, Showing, Tabled, Triggered, Checked, Quiet
<1>6. switch /\ Ahead(asked, from, grip)
  BY <1>5 DEF Leg
<1>7. serving = Output(VacuumPin, grip) /\ arm = from /\ moves = <<>>
  BY <1>2, <1>6 DEF Ahead
<1> QED
  BY <1>2, <1>6, <1>7, RequestFields, ServiceConstants DEF Leg, vacuum

-----------------------------------------------------------------------------
(* From one leg to the next *)

\* Between two legs the service has nothing to do.
LEMMA RestingLeg ==
  ASSUME NEW from, NEW grip, NEW back, Leg(FALSE, <<>>, from, grip, back)
  PROVE  Quiet(from, grip) /\ table \in back
  BY DEF Leg, Ahead, Behind, Standing, Moving, Showing, Quiet

\* An output is sent, and not awaited.
LEMMA SendOutput ==
  ASSUME NEW from, NEW grip, NEW back, NEW g \in {0, 1},
         Leg(FALSE, <<>>, from, grip, back),
         requests' = Append(requests, Output(VacuumPin, g)),
         UNCHANGED <<contract, arm, shown>>
  PROVE  Leg(TRUE, <<>>, from, g, back)'
<1>1. Quiet(from, grip) /\ table \in back
  BY RestingLeg
<1>2. requests' = <<Output(VacuumPin, g)>>
  BY <1>1, AppendOne DEF Quiet
<1>3. Ahead(<<>>, from, g)'
  BY <1>1, <1>2 DEF Ahead, Before, Quiet, contract
<1> QED
  BY <1>1, <1>3 DEF Leg, contract

\* A request is sent that is awaited.
LEMMA SendAwaited ==
  ASSUME NEW switch, NEW from, NEW grip, NEW back, NEW r,
         Leg(switch, <<>>, from, grip, back),
         requests' = Append(requests, r),
         UNCHANGED <<contract, arm, shown>>
  PROVE  Leg(switch, <<r>>, from, grip, back)'
<1>1. \A o : Before(o, <<>>) = <<o>> /\ Before(o, <<r>>) = <<o, r>>
  BY DEF Before
<1>2. CASE switch /\ Ahead(<<>>, from, grip) /\ table \in back
  BY <1>1, <1>2, AppendOne DEF Leg, Ahead, contract
<1>3. CASE Behind(switch, <<>>, from, grip) /\ table \in back
  BY <1>3, AppendOne DEF Leg, Behind, Standing, contract, vacuum
<1> QED
  BY <1>2, <1>3 DEF Leg, Moving, Showing

\* The answer of a motion finds the arm at its goal.
LEMMA AnsweredMotion ==
  ASSUME NEW switch, NEW n \in {"PTP", "LINE"}, NEW g, NEW from, NEW grip, NEW back,
         Leg(switch, <<Motion(n, g, TRUE)>>, from, grip, back),
         requests = <<>>, serving = NoRequest
  PROVE  Quiet(g, grip) /\ Leg(FALSE, <<>>, g, grip, MotionsTo(g))
<1> DEFINE r == Motion(n, g, TRUE)
           asked == <<r>>
<1>1. asked # <<>> /\ asked[1] = r /\ r # CheckPose /\ asked # <<CheckPose>>
      /\ r.writes = {[name |-> n, goal |-> g]}
  BY DEF Motion, CheckPose, Plain
<1> HIDE DEF r, asked
<1>2. Moving(asked, from, grip, back)
  BY <1>1 DEF Leg, Ahead, Behind, Before, Showing, asked, r
<1>3. Quiet(g, grip) /\ table = [name |-> n, goal |-> g]
  BY <1>1, <1>2 DEF Moving, Asking
<1>4. table \in MotionsTo(g)
  BY <1>3 DEF MotionsTo
<1> QED
  BY <1>3, <1>4 DEF Leg, Behind, Standing, Quiet

\* The answer of CHECK_POSE shows where the arm stands.
LEMMA AnsweredPose ==
  ASSUME NEW switch, NEW from, NEW grip, NEW back,
         Leg(switch, <<CheckPose>>, from, grip, back),
         requests = <<>>, serving = NoRequest
  PROVE  shown = from /\ Leg(FALSE, <<>>, from, grip, back)
<1>1. Showing(<<CheckPose>>, from, grip, back)
  <2>1. <<CheckPose>>[1].writes = {} /\ <<CheckPose>> # <<>>
    BY RequestFields
  <2> QED
    BY <2>1 DEF Leg, Ahead, Behind, Before, Moving
<1>2. Quiet(from, grip) /\ shown = from /\ table \in back
  BY <1>1 DEF Showing, Asking
<1> QED
  BY <1>2 DEF Leg, Behind, Standing, Quiet

\* A leg on which the service does nothing stays the same.
LEMMA LegKept ==
  ASSUME NEW switch, NEW asked, NEW from, NEW grip, NEW back,
         Leg(switch, asked, from, grip, back), UNCHANGED service
  PROVE  Leg(switch, asked, from, grip, back)'
<1> USE DEF service, contract, vacuum
<1>1. Ahead(asked, from, grip) => Ahead(asked, from, grip)'
  BY DEF Ahead
<1>2. Behind(switch, asked, from, grip) => Behind(switch, asked, from, grip)'
  BY DEF Behind, Standing
<1>3. Moving(asked, from, grip, back) => Moving(asked, from, grip, back)'
  BY DEF Moving, Asking, Tabled, Triggered, Quiet, Standing, UnderWay
<1>4. Showing(asked, from, grip, back) => Showing(asked, from, grip, back)'
  BY DEF Showing, Asking, Checked, Quiet
<1> QED
  BY <1>1, <1>2, <1>3, <1>4 DEF Leg

-----------------------------------------------------------------------------
(* The types of a leg *)

\* The requests of a leg are in R, their commands and the table's in C, the poses in P.
Within(asked, from, grip, back, R, C, P) ==
  /\ Output(VacuumPin, grip) \in R
  /\ asked # <<>> => asked[1] \in R /\ asked[1].writes \subseteq C
  /\ MotionsTo(from) \subseteq C /\ back \subseteq C
  /\ from \in P /\ \A c \in C : c.name \in {"PTP", "LINE"} => c.goal \in P

\* What the service holds is among what was sent and what the arm was told.
LEMMA LegTyped ==
  ASSUME NEW switch, NEW asked, NEW from, NEW grip, NEW back,
         Possible(switch, asked, from, grip, back),
         Leg(switch, asked, from, grip, back),
         NEW R, NEW C, NEW P, Within(asked, from, grip, back, R, C, P)
  PROVE  /\ requests \in Seq(R) /\ serving \in R \cup {NoRequest}
         /\ table \in C /\ moves \in Seq(C) /\ arm \in P
         /\ link \in {"up", "desync", "lost"}
         /\ out \in [Pins -> {0, 1}] /\ stage \in {"write", "trigger", "done"}
<1> USE DEF Within
<1>1. asked \in Seq(R)
  <2>1. \A r \in R : <<r>> \in Seq(R)
    OBVIOUS
  <2>2. <<>> \in Seq(R)
    OBVIOUS
  <2>3. asked = <<>> \/ asked = <<asked[1]>>
    BY AskedOne DEF Possible
  <2> QED
    BY <2>1, <2>2, <2>3
<1>2. Before(Output(VacuumPin, grip), asked) \in Seq(R)
  <2>1. \A r \in R : <<r>> \in Seq(R)
    OBVIOUS
  <2>2. \A q, r \in R : <<q, r>> \in Seq(R)
    OBVIOUS
  <2> QED
    BY <2>1, <2>2 DEF Before
<1>3. \A r : asked = <<r>> => r \in R
  BY <1>1
<1>4. <<>> \in Seq(R) /\ <<>> \in Seq(C)
  OBVIOUS
<1>5. \A d \in C : <<d>> \in Seq(C)
  OBVIOUS
<1>6. \A d, c \in C : <<d, c>> \in Seq(C)
  OBVIOUS
<1>7. Standing(from) => moves \in Seq(C) /\ arm \in P
  BY <1>4, <1>5 DEF Standing
<1>8. ASSUME NEW c \in C, c.name \in {"PTP", "LINE"}, UnderWay(c, from)
      PROVE  moves \in Seq(C) /\ arm \in P
  BY <1>4, <1>5, <1>6, <1>8 DEF UnderWay
<1>9. CASE switch /\ Ahead(asked, from, grip) /\ table \in back
  BY <1>1, <1>2, <1>4, <1>9 DEF Ahead, Leg
<1>10. CASE Behind(switch, asked, from, grip) /\ table \in back
  BY <1>1, <1>3, <1>4, <1>7, <1>10 DEF Behind, Leg
<1>11. CASE Showing(asked, from, grip, back)
  BY <1>3, <1>4, <1>11 DEF Showing, Asking, Checked, Quiet, Leg
<1>12. CASE Moving(asked, from, grip, back)
  <2>1. PICK c \in asked[1].writes :
          /\ asked[1] = Ordered(c)
          /\ \/ /\ Asking(asked[1])
                /\ Tabled(c, from, grip) \/ Triggered(c, from, grip)
                /\ table \in back \cup {c}
             \/ Quiet(c.goal, grip) /\ table = c
    BY <1>12 DEF Moving
  <2>2. asked # <<>> /\ c \in C /\ c.name \in {"PTP", "LINE"} /\ c.goal \in P
    BY <1>12, <2>1, OrderedCommand DEF Possible, Moving
  <2>3. CASE Quiet(c.goal, grip) /\ table = c
    BY <1>4, <2>2, <2>3 DEF Quiet, Leg
  <2>4. CASE Asking(asked[1]) /\ table \in back \cup {c} /\ Tabled(c, from, grip)
    BY <1>4, <1>7, <2>2, <2>4 DEF Asking, Tabled, Leg
  <2>5. CASE Asking(asked[1]) /\ table \in back \cup {c} /\ Triggered(c, from, grip)
    BY <1>4, <1>7, <1>8, <2>2, <2>5 DEF Asking, Triggered, Leg
  <2> QED
    BY <2>1, <2>3, <2>4, <2>5
<1> QED
  BY <1>9, <1>10, <1>11, <1>12 DEF Leg

\* Whether the table is fresh stays a truth value; a pose that is shown is the arm's, was
\* shown before, or is a mixture.
LEMMA ServiceReads ==
  ASSUME ServiceStep, fresh \in BOOLEAN
  PROVE  fresh' \in BOOLEAN /\ shown' \in {shown, arm, Elsewhere}
<1>1. fresh' \in BOOLEAN
  BY DEF ServiceStep, Dispatch, Accept, Execute, Write, Prepare, Trigger, RunTable, Poll, Reply,
         Answer, Move, Perform, Halt, TakeSetting, Die, Crash
<1>2. shown' \in {shown, arm, Elsewhere}
  BY DEF ServiceStep, Dispatch, Execute, Read, Reply, Move, Halt, Die
<1> QED
  BY <1>1, <1>2
-----------------------------------------------------------------------------
(* The types of the service *)

\* The requests are in R, the commands in C, and the poses in P.
Kinds(R, C, P) ==
  /\ requests \in Seq(R) /\ serving \in R \cup {NoRequest}
  /\ stage \in {"write", "trigger", "done", "dead"}
  /\ table \in C /\ fresh \in BOOLEAN /\ moves \in Seq(C)
  /\ arm \in P /\ shown \in P
  /\ out \in [Pins -> {0, 1}] /\ link \in {"up", "desync", "lost", "closed"}

\* A request writes commands and sets an output, a motion goes to a pose.
Fit(R, C, P) ==
  /\ \A r \in R : r.writes \subseteq C /\ (r.mode = "DO" => r.pin \in Pins /\ r.on \in {0, 1})
  /\ \A c \in C : c.name \in Motions => c.goal \in P
  /\ Elsewhere \in P

\* A sequence over a set is one over a larger set.
LEMMA SeqWider ==
  ASSUME NEW X, NEW Y, X \subseteq Y, NEW s \in Seq(X)
  PROVE  s \in Seq(Y)
<1>1. \A i \in 1 .. Len(s) : s[i] \in Y
  OBVIOUS
<1> QED
  BY <1>1

\* A stop or a setting leaves some of the commands.
LEMMA SomeLeft ==
  ASSUME NEW C, NEW s \in Seq(C), NEW i \in DOMAIN s
  PROVE  /\ SubSeq(s, i + 1, Len(s)) \in Seq(C)
         /\ SubSeq(s, 1, i - 1) \o SubSeq(s, i + 1, Len(s)) \in Seq(C)
<1>1. i \in 1 .. Len(s) /\ Len(s) \in Nat
  OBVIOUS
<1>2. SubSeq(s, i + 1, Len(s)) \in Seq(C)
  BY <1>1, SubSeqProperties
<1>3. SubSeq(s, 1, i - 1) \in Seq(C)
  BY <1>1, SubSeqProperties
<1> QED
  BY <1>2, <1>3, ConcatProperties

\* Every step of the service keeps the types, also on a line whose calls are refused.
LEMMA KindsStep ==
  ASSUME NEW R, NEW C, NEW P, Fit(R, C, P), Kinds(R, C, P), ServiceStep
  PROVE  Kinds(R, C, P)'
<1> USE DEF Kinds
<1>0. ASSUME NEW effect \in BOOLEAN, Line(effect)
      PROVE  link' \in {"up", "desync", "lost", "closed"}
  BY <1>0 DEF Line
<1>1. CASE Dispatch
  <2>1. Head(requests) \in R /\ Tail(requests) \in Seq(R)
    BY <1>1, HeadTailProperties DEF Dispatch
  <2> QED
    BY <1>1, <2>1 DEF Dispatch, Accept
<1>2. CASE Execute
  <2>1. UNCHANGED <<requests, arm, serving>>
    BY <1>2 DEF Execute, Write, Prepare, Trigger, Poll
  <2>2. shown' \in P
    BY <1>2 DEF Execute, Read, Fit
  <2>3. ASSUME NEW effect \in BOOLEAN, Write(effect)
        PROVE  Kinds(R, C, P)'
    <3>1. serving \in R
      BY <2>3 DEF Write
    <3>2. table' \in C /\ fresh' \in BOOLEAN /\ moves' = moves
      BY <2>3, <3>1 DEF Write, Fit
    <3>3. out' \in [Pins -> {0, 1}]
      BY <2>3, <3>1 DEF Write, Fit
    <3>4. stage' \in {"write", "trigger", "done", "dead"}
      BY <2>3 DEF Write
    <3>5. link' \in {"up", "desync", "lost", "closed"}
      BY <1>0, <2>3 DEF Write
    <3> QED
      BY <2>1, <2>2, <3>2, <3>3, <3>4, <3>5
  <2>4. CASE Prepare \/ Poll
    <3>1. link' \in {"up", "desync", "lost", "closed"}
      BY <1>0, <2>4 DEF Prepare, Poll
    <3> QED
      BY <2>1, <2>2, <2>4, <3>1 DEF Prepare, Poll
  <2>5. CASE Trigger
    <3>1. link' \in {"up", "desync", "lost", "closed"}
      BY <1>0, <2>5 DEF Trigger
    <3>2. fresh' \in BOOLEAN /\ moves' \in Seq(C)
      <4>1. Append(moves, table) \in Seq(C)
        BY AppendProperties
      <4> QED
        BY <2>5, <4>1 DEF Trigger, RunTable
    <3> QED
      BY <2>1, <2>2, <2>5, <3>1, <3>2 DEF Trigger
  <2> QED
    BY <1>2, <2>3, <2>4, <2>5 DEF Execute
<1>3. CASE Reply
  <2>1. link' \in {"up", "desync", "lost", "closed"}
    BY <1>0, <1>3 DEF Reply, Answer
  <2> QED
    BY <1>3, <2>1 DEF Reply, Answer
<1>4. CASE Move
  <2>1. Head(moves) \in C /\ Tail(moves) \in Seq(C) /\ Head(moves).name \in Motions
    BY <1>4, HeadTailProperties DEF Move, Perform
  <2> QED
    BY <1>4, <2>1 DEF Move, Perform, Fit
<1>5. CASE Halt
  <2>1. moves' \in Seq(C)
    <3>1. PICK i \in DOMAIN moves :
            \/ moves' = SubSeq(moves, i + 1, Len(moves))
            \/ moves' = SubSeq(moves, 1, i - 1) \o SubSeq(moves, i + 1, Len(moves))
      BY <1>5 DEF Halt, TakeSetting
    <3>2. moves \in Seq(C)
      OBVIOUS
    <3> HIDE DEF Kinds
    <3> QED
      BY <3>1, <3>2, SomeLeft
  <2> QED
    BY <1>5, <2>1 DEF Halt, TakeSetting, Fit
<1>6. CASE Die
  BY <1>6 DEF Die, Crash
<1> QED
  BY <1>1, <1>2, <1>3, <1>4, <1>5, <1>6 DEF ServiceStep
=============================================================================
