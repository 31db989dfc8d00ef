---------------------------- MODULE AiBizProofs -----------------------------
(***************************************************************************)
(* The keepalive and the session of the AI client, for any length of the   *)
(* back-off table, any number of lost pings, of packets on their way, of   *)
(* pings queued and of slots.                                              *)
(***************************************************************************)
EXTENDS AiBiz, TLAPS

\* The keepalive has not counted enough losses unless the timer thread is closing.
Counted == pc["T"] \in {"rest", "count", "drop", "idle"} => lost_cnt < MaxLost

\* What the place of the client thread says of the state: the case it works for, unless
\* the timer thread has set IDLE under it.
StateOf ==
    /\ next # "RUNNING"
    /\ pc["C"] \in States => state \in {pc["C"], "IDLE"}
    /\ pc["C"] = "atop" => state \in {"SETUP", "IDLE"}
    /\ pc["C"] = "up" => state \in {"AUTH_RESP", "IDLE"}
    /\ pc["C"] \in {"run", "store", "online", "conn_close", "session_close",
                    "close", "stop", "drop", "idle"} => state \in {"RUNNING", "IDLE"}

\* From the set-up to the connection nothing of an earlier one is left.
BeforeConnect ==
    \/ pc["C"] \in {"atop", "CONNECT"}
    \/ pc["C"] = "set" /\ next = "CONNECT"
    \/ pc["C"] = "rest" /\ state = "CONNECT"

Fresh == BeforeConnect => sock = "none" /\ inq = <<>> /\ asked = {} /\ ~connected

\* The authentication was answered and the client has not turned to a new connection.
Live ==
    \/ pc["C"] \in {"up", "run", "store", "online", "RUNNING", "session_close", "conn_close"}
    \/ pc["C"] = "rest" /\ state = "RUNNING"

Authenticated == Live \/ "auth" \in InFlight => sock \notin {"none", "fresh"}

\* A ping is to come or under way, or its answer is, or the work queue had no room for it.
PingGoesOn ==
    \/ work \/ queued > 0 \/ pc["W"] = "send" \/ "ping" \in asked \/ "pong" \in InFlight
    \/ dropped

Kept == connected /\ sock = "good" /\ Live /\ pc["T"] # "drop" => PingGoesOn

\* How far the agent's session has come over a connection nobody is closing.
Ready ==
    connected /\ sock = "good" /\ pc["T"] \notin {"stop", "drop"} =>
        /\ pc["C"] \in {"store", "online"} => known
        /\ pc["C"] = "online" => stored
        /\ pc["C"] \in {"RUNNING", "session_close"} \/ (pc["C"] = "rest" /\ state = "RUNNING")
               => online /\ stored /\ known

NotYet == pc["C"] = "store" => ~stored

\* The slots that are or will be taken before the table is emptied: the sessions in it,
\* the ones the client may add, and one more where the timer thread, having published
\* the close event, will set IDLE and have the client begin again.
InRun ==
    /\ state = "RUNNING"
    /\ pc["C"] \in {"rest", "RUNNING", "online", "err", "close", "conn_close", "session_close"}

ToCome ==
    IF pc["C"] \in {"run", "store"} THEN IF state = "RUNNING" THEN 1 ELSE 2
    ELSE IF InRun THEN 0 ELSE 1

Closing == IF pc["T"] \in {"stop", "drop", "idle"} THEN 1 ELSE 0

LeftBehind == InUse + ToCome + Closing <= 3

AInv ==
    /\ TypeOK /\ Counted /\ StateOf /\ Fresh /\ Authenticated /\ Kept /\ Ready /\ NotYet
    /\ LeftBehind

\* The packets of a queue.
LEMMA PacketsOf ==
    ASSUME NEW S, NEW q \in Seq(S)
    PROVE  /\ {q[i] : i \in DOMAIN q} \subseteq S
           /\ q = <<>> => {q[i] : i \in DOMAIN q} = {}
           /\ \A x \in S : {Append(q, x)[i] : i \in DOMAIN Append(q, x)}
                               = {q[i] : i \in DOMAIN q} \cup {x}
           /\ q # <<>> => /\ Head(q) \in {q[i] : i \in DOMAIN q}
                          /\ {q[i] : i \in DOMAIN q}
                               = {Tail(q)[i] : i \in DOMAIN Tail(q)} \cup {Head(q)}
  <1>1. {q[i] : i \in DOMAIN q} \subseteq S /\ (q = <<>> => {q[i] : i \in DOMAIN q} = {})
    OBVIOUS
  <1>2. ASSUME NEW x \in S
        PROVE  {Append(q, x)[i] : i \in DOMAIN Append(q, x)} = {q[i] : i \in DOMAIN q} \cup {x}
    <2>1. \A i \in DOMAIN q : i \in DOMAIN Append(q, x) /\ Append(q, x)[i] = q[i]
      OBVIOUS
    <2>2. Len(q) + 1 \in DOMAIN Append(q, x) /\ Append(q, x)[Len(q) + 1] = x
      OBVIOUS
    <2>3. \A i \in DOMAIN Append(q, x) : i \in DOMAIN q \/ i = Len(q) + 1
      OBVIOUS
    <2> QED
      BY <2>1, <2>2, <2>3
  <1>3. ASSUME q # <<>>
        PROVE  /\ Head(q) \in {q[i] : i \in DOMAIN q}
               /\ {q[i] : i \in DOMAIN q} = {Tail(q)[i] : i \in DOMAIN Tail(q)} \cup {Head(q)}
    <2>1. 1 \in DOMAIN q /\ q[1] = Head(q)
      BY <1>3
    <2>2. \A i \in DOMAIN Tail(q) : i + 1 \in DOMAIN q /\ q[i + 1] = Tail(q)[i]
      BY <1>3
    <2>3. \A i \in DOMAIN q : i # 1 => i - 1 \in DOMAIN Tail(q) /\ Tail(q)[i - 1] = q[i]
      BY <1>3
    <2> QED
      BY <2>1, <2>2, <2>3
  <1> QED
    BY <1>1, <1>2, <1>3

\* What the peer may be asked, and its answers.
LEMMA Answers ==
    /\ DOMAIN AnswerTo = {"auth", "ping"}
    /\ AnswerTo["auth"] = "auth" /\ AnswerTo["ping"] = "pong"
  BY DEF AnswerTo

\* The client starts with nothing.
LEMMA InitInv == BInit => AInv
  <1> SUFFICES ASSUME BInit PROVE AInv
    OBVIOUS
  <1> USE ReconnAssumption, LostAssumption, BoundAssumption, SlotsAssumption DEF BInit, Init
  <1>1. TypeOK
    <2>1. Flags
      BY DEF Flags
    <2>2. pc \in [Threads -> Labels]
      BY DEF Labels
    <2>3. inq \in Seq(Packets) /\ Len(inq) <= MaxIn
      OBVIOUS
    <2> QED
      BY <2>1, <2>2, <2>3 DEF TypeOK, States, Sockets, InUse
  <1>2. Counted /\ StateOf /\ Fresh /\ Kept /\ Ready /\ NotYet
    BY DEF Counted, StateOf, States, Fresh, BeforeConnect, Kept, Ready, NotYet, Threads
  <1>3. Authenticated
    BY DEF Authenticated, Live, InFlight, Threads
  <1>4. LeftBehind
    BY DEF LeftBehind, InUse, ToCome, InRun, Closing, Threads
  <1> QED
    BY <1>1, <1>2, <1>3, <1>4 DEF AInv

\* The cases of the client thread up to the request of the authentication.
LEMMA SetUpInv ==
    ASSUME AInv, Flags', UNCHANGED biz,
           Switch \/ SetState \/ IdleUp \/ IdleDown \/ SetupAnswered \/ SetupFails
           \/ Connect \/ ConnectFails \/ Hello \/ AuthReq
    PROVE  AInv'
  <1> USE ReconnAssumption, LostAssumption, BoundAssumption, SlotsAssumption
      DEF AInv, TypeOK, Counted, StateOf, Fresh, BeforeConnect, Authenticated, Live, Kept,
          PingGoesOn, Ready, NotYet, LeftBehind, InUse, ToCome, InRun, Closing,
          States, Labels, Threads, Sockets, Through, timers, link, biz, Crashed, At, Goto, Set,
          SendOk, Sent, Plan, Unplan
  <1>0. UNCHANGED inq /\ UNCHANGED InFlight
    BY DEF InFlight, Switch, SetState, IdleUp, IdleDown, SetupAnswered, SetupFails,
           Connect, ConnectFails, Hello, AuthReq
  <1>1. CASE Switch
    BY <1>0, <1>1 DEF Switch
  <1>2. CASE SetState
    BY <1>0, <1>2 DEF SetState
  <1>3. CASE IdleUp
    BY <1>0, <1>3 DEF IdleUp
  <1>4. CASE IdleDown
    BY <1>0, <1>4 DEF IdleDown
  <1>5. CASE SetupAnswered
    BY <1>0, <1>5 DEF SetupAnswered
  <1>6. CASE SetupFails
    BY <1>0, <1>6 DEF SetupFails
  <1>7. CASE Connect
    BY <1>0, <1>7 DEF Connect
  <1>8. CASE ConnectFails
    BY <1>0, <1>8 DEF ConnectFails
  <1>9. CASE Hello
    BY <1>0, <1>9 DEF Hello
  <1>10. CASE AuthReq
    BY <1>0, <1>10, Answers DEF AuthReq
  <1> QED
    BY <1>1, <1>2, <1>3, <1>4, <1>5, <1>6, <1>7, <1>8, <1>9, <1>10

\* Reading.
LEMMA ReadInv ==
    ASSUME AInv, Flags', UNCHANGED biz,
           ReadTimeout \/ ReadEnd \/ ReadFails \/ ReadFragment \/ ReadOutOfPlace
           \/ AuthResp \/ Up \/ HandlePong \/ HandleData \/ HandleControl
    PROVE  AInv'
  <1> USE ReconnAssumption, LostAssumption, BoundAssumption, SlotsAssumption
      DEF AInv, TypeOK, Counted, StateOf, Fresh, BeforeConnect, Authenticated, Live, Kept,
          PingGoesOn, Ready, NotYet, LeftBehind, InUse, ToCome, InRun, Closing,
          States, Labels, Threads, Sockets, Through, timers, link, biz, Crashed, At, Goto, Set,
          SendOk, Sent, Plan, Unplan
  <1>0. CASE ReadTimeout \/ ReadEnd \/ ReadFails \/ Up
    <2>0. UNCHANGED inq /\ UNCHANGED InFlight
      BY <1>0 DEF InFlight, ReadTimeout, ReadEnd, ReadFails, Up
    <2>1. CASE ReadTimeout
      BY <2>0, <2>1 DEF ReadTimeout, Reading
    <2>2. CASE ReadEnd
      BY <2>0, <2>2 DEF ReadEnd, Reading
    <2>3. CASE ReadFails
      BY <2>0, <2>3 DEF ReadFails, Reading
    <2>4. CASE Up
      BY <2>0, <2>4 DEF Up
    <2> QED
      BY <1>0, <2>1, <2>2, <2>3, <2>4
  <1>1. CASE ~(ReadTimeout \/ ReadEnd \/ ReadFails \/ Up)
    <2>0. inq # <<>> /\ inq' = Tail(inq)
      BY <1>1 DEF ReadFragment, ReadOutOfPlace, AuthResp, Readable, Take, HandlePong,
         HandleData, HandleControl, Got
    <2>1. inq' \in Seq(Packets) /\ Len(inq') <= MaxIn /\ Head(inq) \in Packets
      BY <2>0
    <2>2. Head(inq) \in InFlight /\ InFlight = InFlight' \cup {Head(inq)}
      BY ONLY <2>0, inq \in Seq(Packets), PacketsOf DEF InFlight
    <2>3. CASE ReadFragment
      BY <2>0, <2>1, <2>2, <2>3 DEF ReadFragment, Reading
    <2>4. CASE ReadOutOfPlace
      BY <2>0, <2>1, <2>2, <2>4 DEF ReadOutOfPlace, Reading
    <2>5. CASE AuthResp
      BY <2>0, <2>1, <2>2, <2>5 DEF AuthResp, Readable, Take
    <2>6. CASE HandlePong
      BY <2>0, <2>1, <2>2, <2>6 DEF HandlePong, Got, Readable, Take
    <2>7. CASE HandleData
      BY <2>0, <2>1, <2>2, <2>7 DEF HandleData, Got, Readable, Take
    <2>8. CASE HandleControl
      BY <2>0, <2>1, <2>2, <2>8 DEF HandleControl, Got, Readable, Take
    <2> QED
      BY <1>1, <2>3, <2>4, <2>5, <2>6, <2>7, <2>8
  <1> QED
    BY <1>0, <1>1

\* Errors, and the close of a connection on either thread.
LEMMA CloseInv ==
    ASSUME AInv, Flags', UNCHANGED biz,
           \/ ErrSetup \/ ErrConnect \/ ErrRunning \/ ErrOther
           \/ \E t \in {"C", "T"} : StopPing(t) \/ Drop(t) \/ SetIdle(t)
    PROVE  AInv'
  <1> USE ReconnAssumption, LostAssumption, BoundAssumption, SlotsAssumption
      DEF AInv, TypeOK, Counted, StateOf, Fresh, BeforeConnect, Authenticated, Live, Kept,
          PingGoesOn, Ready, NotYet, LeftBehind, InUse, ToCome, InRun, Closing,
          States, Labels, Threads, Sockets, Through, timers, link, biz, Crashed, At, Goto, Set,
          Unplan
  <1>0. UNCHANGED inq /\ UNCHANGED InFlight
    BY DEF InFlight, ErrSetup, ErrConnect, ErrRunning, ErrOther, StopPing, Drop, SetIdle
  <1>1. CASE ErrSetup
    BY <1>0, <1>1 DEF ErrSetup
  <1>2. CASE ErrConnect
    BY <1>0, <1>2 DEF ErrConnect
  <1>3. CASE ErrRunning
    BY <1>0, <1>3 DEF ErrRunning
  <1>4. CASE ErrOther
    BY <1>0, <1>4 DEF ErrOther
  <1>5. CASE StopPing("C")
    BY <1>0, <1>5 DEF StopPing
  <1>6. CASE StopPing("T")
    BY <1>0, <1>6 DEF StopPing
  <1>7. CASE Drop("C")
    BY <1>0, <1>7 DEF Drop
  <1>8. CASE Drop("T")
    BY <1>0, <1>8 DEF Drop
  <1>9. CASE SetIdle("C")
    BY <1>0, <1>9 DEF SetIdle
  <1>10. CASE SetIdle("T")
    BY <1>0, <1>10 DEF SetIdle
  <1> QED
    BY <1>1, <1>2, <1>3, <1>4, <1>5, <1>6, <1>7, <1>8, <1>9, <1>10

\* The keepalive: the timer thread and the work queue's.
LEMMA KeepaliveInv ==
    ASSUME AInv, Flags', UNCHANGED biz,
           AliveFires \/ AliveTimeout \/ WorkFires \/ Ping \/ PingSend
    PROVE  AInv'
  <1> USE ReconnAssumption, LostAssumption, BoundAssumption, SlotsAssumption
      DEF AInv, TypeOK, Counted, StateOf, Fresh, BeforeConnect, Authenticated, Live, Kept,
          PingGoesOn, Ready, NotYet, LeftBehind, InUse, ToCome, InRun, Closing,
          States, Labels, Threads, Sockets, Through, timers, link, biz, Crashed, At, Goto, Sent,
          Plan
  <1>0. UNCHANGED inq /\ UNCHANGED InFlight
    BY DEF InFlight, AliveFires, AliveTimeout, WorkFires, Ping, PingSend
  <1>1. CASE AliveFires
    BY <1>0, <1>1 DEF AliveFires
  <1>2. CASE AliveTimeout
    BY <1>0, <1>2 DEF AliveTimeout
  <1>3. CASE WorkFires
    BY <1>0, <1>3 DEF WorkFires
  <1>4. CASE Ping
    BY <1>0, <1>4 DEF Ping
  <1>5. CASE PingSend
    BY <1>0, <1>5, Answers DEF PingSend
  <1> QED
    BY <1>1, <1>2, <1>3, <1>4, <1>5

\* The sessions.
LEMMA SessionInv ==
    ASSUME AInv, Flags',
           \/ Reinit \/ RunEvent \/ Store \/ Online \/ SessionClosed \/ SessionUnknown
           \/ (HandleClose \/ PublishClose("C") \/ PublishClose("T")) /\ CloseEvent
    PROVE  AInv'
  <1> USE ReconnAssumption, LostAssumption, BoundAssumption, SlotsAssumption
      DEF AInv, TypeOK, Counted, StateOf, Fresh, BeforeConnect, Authenticated, Live, Kept,
          PingGoesOn, Ready, NotYet, LeftBehind, InUse, ToCome, InRun, Closing,
          States, Labels, Threads, Sockets, Through, timers, link, Crashed, At, Goto, Set,
          SendOk
  <1>1. CASE Reinit
    BY <1>1 DEF Reinit, SetupReinit, InFlight
  <1>2. CASE ~Reinit
    <2>0. UNCHANGED inq /\ UNCHANGED InFlight
      BY <1>2 DEF InFlight, RunEvent, Store, Online, SessionClosed, SessionUnknown, NewSession,
         HandleClose, PublishClose
    <2>1. CASE RunEvent
      <3>1. connected /\ sock = "good" => known'
        BY <2>1 DEF RunEvent, NewSession
      <3> QED
        BY <2>0, <2>1, <3>1 DEF RunEvent, NewSession
    <2>2. CASE Store
      <3>1. CASE InUse < Slots
        <4>1. stored'
          BY <2>2, <3>1 DEF Store
        <4> QED
          BY <2>0, <2>2, <3>1, <4>1 DEF Store
      <3>2. CASE ~(InUse < Slots)
        <4>1. ~stored'
          BY <2>2, <3>2 DEF Store
        <4> QED
          BY <2>0, <2>2, <3>2, <4>1 DEF Store
      <3> QED
        BY <3>1, <3>2
    <2>3. CASE Online
      BY <2>0, <2>3 DEF Online
    <2>4. CASE SessionClosed
      <3>1. connected /\ sock = "good" => known'
        BY <2>4 DEF SessionClosed, NewSession
      <3> QED
        BY <2>0, <2>4, <3>1 DEF SessionClosed, NewSession
    <2>5. CASE SessionUnknown
      BY <2>0, <2>5 DEF SessionUnknown
    <2>6. CASE HandleClose /\ CloseEvent
      BY <2>0, <2>6 DEF HandleClose, CloseEvent
    <2>7. CASE PublishClose("C") /\ CloseEvent
      BY <2>0, <2>7 DEF PublishClose, CloseEvent
    <2>8. CASE PublishClose("T") /\ CloseEvent
      BY <2>0, <2>8 DEF PublishClose, CloseEvent
    <2> QED
      BY <1>2, <2>1, <2>2, <2>3, <2>4, <2>5, <2>6, <2>7, <2>8
  <1> QED
    BY <1>1, <1>2

\* What the peer sends, and what happens to the connection.
LEMMA PeerInv ==
    ASSUME AInv, Flags', Peer \/ Lost
    PROVE  AInv'
  <1> USE ReconnAssumption, LostAssumption, BoundAssumption, SlotsAssumption
      DEF AInv, TypeOK, Counted, StateOf, Fresh, BeforeConnect, Authenticated, Live, Kept,
          PingGoesOn, Ready, NotYet, LeftBehind, InUse, ToCome, InRun, Closing,
          States, Labels, Threads, Sockets, Through, timers, link, biz, Crashed
  <1>0. (Peer => UNCHANGED biz) /\ (Lost => UNCHANGED <<stored, others, online>>)
    BY DEF Peer, Lost
  <1>1. ASSUME NEW p \in Packets, inq' = Append(inq, p), Len(inq) < MaxIn
        PROVE  /\ inq' \in Seq(Packets) /\ Len(inq') <= MaxIn /\ inq' # <<>>
               /\ InFlight' = InFlight \cup {p}
    <2>1. InFlight' = InFlight \cup {p}
      BY ONLY <1>1, inq \in Seq(Packets), PacketsOf DEF InFlight
    <2> QED
      BY <1>1, <2>1
  <1>2. CASE Answer /\ UNCHANGED biz
    <2>1. PICK p \in asked : /\ asked' = asked \ {p} /\ inq' = Append(inq, AnswerTo[p])
                             /\ (p # "auth" => sock = "good") /\ sock' = "good"
      BY <1>2 DEF Answer
    <2>2. AnswerTo[p] \in Packets /\ (AnswerTo[p] = "auth" \/ AnswerTo[p] = "pong")
      BY Answers DEF Packets
    <2>3. /\ inq' \in Seq(Packets) /\ Len(inq') <= MaxIn
          /\ InFlight' = InFlight \cup {AnswerTo[p]}
      BY <1>1, <1>2, <2>1, <2>2 DEF Answer
    <2> QED
      BY <1>0, <1>2, <2>1, <2>2, <2>3, Answers DEF Answer
  <1>3. ASSUME NEW p \in Packets \ {"auth"}, Push(p), UNCHANGED biz
        PROVE  AInv'
    <2>1. /\ inq' \in Seq(Packets) /\ Len(inq') <= MaxIn
          /\ InFlight' = InFlight \cup {p}
      BY <1>1, <1>3 DEF Push
    <2> QED
      BY <1>0, <1>3, <2>1 DEF Push
  <1>4. CASE Lost
    <2>1. UNCHANGED inq => UNCHANGED InFlight
      BY DEF InFlight
    <2>2. "part" \in Packets
      BY DEF Packets
    <2>3. CASE PeerCloses
      BY <1>4, <2>1, <2>3 DEF Lost, PeerCloses
    <2>4. CASE LinkDies
      <3>1. /\ inq' \in Seq(Packets) /\ Len(inq') <= MaxIn
            /\ InFlight' = InFlight \/ InFlight' = InFlight \cup {"part"}
        BY <1>1, <2>1, <2>2, <2>4 DEF LinkDies
      <3> QED
        BY <1>4, <2>4, <3>1 DEF Lost, LinkDies
    <2>5. CASE LinkBreaks
      <3>1. inq' = <<>> /\ inq' \in Seq(Packets) /\ Len(inq') <= MaxIn
        BY <2>5 DEF LinkBreaks
      <3>2. InFlight' = {}
        BY <3>1 DEF InFlight
      <3> QED
        BY <1>4, <2>5, <3>1, <3>2 DEF Lost, LinkBreaks
    <2> QED
      BY <1>4, <2>3, <2>4, <2>5 DEF Lost
  <1> QED
    BY <1>0, <1>2, <1>3, <1>4 DEF Peer, Packets

\* Flags stay flags.
LEMMA FlagsInv ==
    ASSUME AInv, Next
    PROVE  Flags'
  <1> USE DEF AInv, TypeOK, Flags, timers, link, biz
  <1>1. CASE ClientThread
    <2>1. CASE Reinit \/ RunEvent \/ Store \/ Online \/ SessionClosed \/ SessionUnknown
      <3>1. CASE Reinit \/ Online \/ SessionUnknown
        BY <3>1 DEF Reinit, SetupReinit, Online, SessionUnknown
      <3>2. CASE Store
        BY <3>2 DEF Store
      <3>3. CASE RunEvent \/ SessionClosed
        <4>1. known' \in BOOLEAN
          BY <3>3 DEF RunEvent, SessionClosed, NewSession
        <4> QED
          BY <3>3, <4>1 DEF RunEvent, SessionClosed, NewSession
      <3> QED
        BY <2>1, <3>1, <3>2, <3>3
    <2>2. CASE (HandleClose \/ PublishClose("C")) /\ CloseEvent
      BY <2>2 DEF HandleClose, PublishClose, CloseEvent
    <2>3. CASE UNCHANGED biz /\ (Switch \/ SetState \/ IdleUp \/ IdleDown \/ SetupAnswered \/
               SetupFails \/ Connect \/ ConnectFails \/ Hello \/ AuthReq \/ Up)
      BY <2>3 DEF Switch, SetState, IdleUp, IdleDown, SetupAnswered, SetupFails, Connect,
         ConnectFails, Hello, AuthReq, Up, Unplan
    <2>4. CASE UNCHANGED biz /\ (ReadTimeout \/ ReadEnd \/ ReadFails \/ ReadFragment \/
               ReadOutOfPlace \/ AuthResp \/ HandlePong \/ HandleData \/ HandleControl)
      BY <2>4 DEF ReadTimeout, ReadEnd, ReadFails, ReadFragment, ReadOutOfPlace, AuthResp,
         HandlePong, HandleData, HandleControl, Got, Take, Plan
    <2>5. CASE UNCHANGED biz /\ (ErrSetup \/ ErrConnect \/ ErrRunning \/ ErrOther \/
               StopPing("C") \/ Drop("C") \/ SetIdle("C"))
      BY <2>5 DEF ErrSetup, ErrConnect, ErrRunning, ErrOther, StopPing, Drop, SetIdle, Unplan
    <2> QED
      BY <1>1, <2>1, <2>2, <2>3, <2>4, <2>5 DEF ClientThread
  <1>2. CASE TimerThread \/ WorkThread
    BY <1>2 DEF TimerThread, WorkThread, AliveFires, AliveTimeout, WorkFires, StopPing, Drop,
       SetIdle, PublishClose, CloseEvent, Ping, PingSend, Plan, Unplan
  <1>3. CASE Peer \/ Lost
    BY <1>3 DEF Peer, Lost, Answer, PeerCloses, Push, LinkDies, LinkBreaks
  <1> QED
    BY <1>1, <1>2, <1>3 DEF Next

LEMMA NextInv == AInv /\ [Next]_bvars => AInv'
  <1>1. ASSUME AInv, UNCHANGED bvars
        PROVE  AInv'
    BY <1>1 DEF AInv, TypeOK, Flags, Counted, StateOf, Fresh, BeforeConnect, Authenticated,
       Live, Kept, PingGoesOn, Ready, NotYet, LeftBehind, InUse, ToCome, InRun, Closing,
       InFlight, bvars, vars, timers, link, biz
  <1>2. ASSUME AInv, Next
        PROVE  AInv'
    <2>0. Flags'
      BY <1>2, FlagsInv
    <2>1. CASE ClientThread
      BY <1>2, <2>0, <2>1, SetUpInv, ReadInv, CloseInv, SessionInv DEF ClientThread
    <2>2. CASE TimerThread \/ WorkThread
      BY <1>2, <2>0, <2>2, KeepaliveInv, CloseInv, SessionInv DEF TimerThread, WorkThread
    <2>3. CASE Peer \/ Lost
      BY <1>2, <2>0, <2>3, PeerInv
    <2> QED
      BY <1>2, <2>1, <2>2, <2>3 DEF Next
  <1> QED
    BY <1>1, <1>2

LEMMA InvAlways == Spec => []AInv
  BY InitInv, NextInv, PTL DEF Spec

\* In every behaviour the back-off index stays inside its table, the lost pings within
\* what closes the connection, the sessions within the slots, and whoever may send has a
\* socket.
THEOREM AiTypeCorrect == Spec => []TypeOK
  <1>1. AInv => TypeOK
    BY DEF AInv
  <1> QED
    BY InvAlways, <1>1, PTL

\* Over a good connection a running client is never without its keepalive, however the
\* client, the timer and the work queue's thread interleave, unless the ping planned last
\* was dropped because others had filled the work queue.
THEOREM KeepaliveGoesOn == Spec => []Watched
  <1>1. AInv => Watched
    <2>1. AInv /\ Settled => Live
      BY DEF AInv, Settled, Live
    <2> QED
      BY <2>1 DEF AInv, Kept, PingGoesOn, Watched, Guarded
  <1> QED
    BY InvAlways, <1>1, PTL

\* A client that runs over a good connection nobody is closing has its agent online, in a
\* session that its own table and the peer both know, if the table has three slots.
THEOREM RunningAgentReady == Spec => []AgentReady
  <1>1. AInv => AgentReady
    BY DEF AInv, Ready, AgentReady, Settled
  <1> QED
    BY InvAlways, <1>1, PTL
=============================================================================
