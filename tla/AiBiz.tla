------------------------------- MODULE AiBiz --------------------------------
(***************************************************************************)
(* The sessions over the AI connection (tuya_ai_biz.c) and the agent of    *)
(* the demo that lives in one (ai_agent.c), composed with AiClient.        *)
(*                                                                         *)
(* The events of the client run the subscribers on the thread that         *)
(* publishes: EVENT_AI_CLIENT_CLOSE on the client or the timer thread,     *)
(* EVENT_AI_CLIENT_RUN on the client thread, where the agent then creates  *)
(* its session in three steps: the request is sent, the session stored in  *)
(* the table, the agent is online.  The table's mutex is held in each of   *)
(* the steps that use the table and never from one step to the next.       *)
(***************************************************************************)
EXTENDS AiClient

CONSTANT Slots        \* AI_SESSION_MAX_NUM

\* The agent's own session and two that earlier connections may have left behind: with
\* fewer slots the agent may find the table full (AgentReady).  The code has six.
ASSUME SlotsAssumption == Slots \in Nat /\ Slots >= 3

(***************************************************************************)
(* Sessions are told apart by a uuid.  The agent knows the one it created  *)
(* last; of the others only how many slots they take matters: the peer     *)
(* knows at most the last session of this connection.                      *)
(***************************************************************************)
VARIABLES stored,     \* the agent's session (sg_ai.session_id) is in the table
          others,     \* sessions in the table that are not the agent's any more
          known,      \* the peer, over this connection, was told of the agent's session
          online      \* sg_ai.is_online

InFlight == {inq[i] : i \in DOMAIN inq}

biz == <<stored, others, known, online>>
bvars == <<vars, biz>>

InUse == others + (IF stored THEN 1 ELSE 0)

BInit ==
    /\ Init
    /\ stored = FALSE /\ others = 0 /\ known = FALSE /\ online = FALSE

\* __ai_clt_close_evt: every session is closed and the agent told of it.
CloseEvent ==
    /\ stored' = FALSE /\ others' = 0
    /\ online' = (online /\ InUse = 0)
    /\ UNCHANGED known

\* tuya_ai_biz_crt_session from the agent's handler of EVENT_AI_SESSION_NEW: the new id
\* takes the place of the agent's old one and is sent; a send that fails ends it.
NewSession ==
    /\ stored' = FALSE
    /\ known' = (connected /\ sock \in Through)
    /\ Goto("C", IF SendOk THEN "store" ELSE "rest")
    /\ UNCHANGED <<state, next, reconn_cnt, timers, link>>

RunEvent ==
    /\ At("C", "run")
    /\ NewSession
    /\ others' = InUse
    /\ UNCHANGED online

\* The first free slot; a full table keeps nothing and OPRT_OK is returned all the same.
Store ==
    /\ At("C", "store")
    /\ stored' = (InUse < Slots)
    /\ Goto("C", "online")
    /\ UNCHANGED <<state, next, reconn_cnt, timers, link, others, known, online>>

Online ==
    /\ At("C", "online")
    /\ online' = TRUE
    /\ Goto("C", "rest")
    /\ UNCHANGED <<state, next, reconn_cnt, timers, link, stored, others, known>>

\* Mutant: the agent is told that its session is gone, and not to open another.
SessionClosedForGood ==
    /\ At("C", "session_close")
    /\ stored
    /\ stored' = FALSE /\ known' = FALSE /\ online' = FALSE
    /\ Goto("C", "rest")
    /\ UNCHANGED <<state, next, reconn_cnt, timers, link, others>>

\* __ai_biz_session_destory for the session the peer closes: it leaves the table, the
\* agent is told, and asked to open another.
SessionClosed ==
    /\ At("C", "session_close")
    /\ stored
    /\ NewSession
    /\ online' = FALSE
    /\ UNCHANGED others

\* It is not in the table any more: the timer thread's close event was faster.
SessionUnknown ==
    /\ At("C", "session_close")
    /\ ~stored
    /\ known' = FALSE
    /\ Goto("C", "rest")
    /\ UNCHANGED <<state, next, reconn_cnt, timers, link, stored, others, online>>

Reinit == SetupReinit /\ known' = FALSE /\ UNCHANGED <<stored, others, online>>

ClientThread ==
    \/ /\ \/ Switch \/ SetState \/ IdleUp \/ IdleDown \/ SetupAnswered \/ SetupFails
          \/ Connect \/ ConnectFails \/ Hello \/ AuthReq
          \/ ReadTimeout \/ ReadEnd \/ ReadFails \/ ReadFragment \/ ReadOutOfPlace
          \/ AuthResp \/ Up
          \/ HandlePong \/ HandleData \/ HandleControl
          \/ ErrSetup \/ ErrConnect \/ ErrRunning \/ ErrOther
          \/ StopPing("C") \/ Drop("C") \/ SetIdle("C")
       /\ UNCHANGED biz
    \/ Reinit \/ RunEvent \/ Store \/ Online \/ SessionClosed \/ SessionUnknown
    \/ (HandleClose \/ PublishClose("C")) /\ CloseEvent

TimerThread ==
    \/ /\ \/ AliveFires \/ AliveTimeout \/ WorkFires
          \/ StopPing("T") \/ Drop("T") \/ SetIdle("T")
       /\ UNCHANGED biz
    \/ PublishClose("T") /\ CloseEvent

WorkThread == (Ping \/ PingSend) /\ UNCHANGED biz

Peer ==
    /\ \/ Answer
       \/ \E p \in {"conn_close", "data", "start", "more", "end"} : Push(p)
       \/ known /\ "session_close" \notin InFlight /\ Push("session_close")
    /\ UNCHANGED biz

\* The peer's side of a session ends with the connection.
Lost == (PeerCloses \/ LinkDies \/ LinkBreaks) /\ known' = FALSE /\ UNCHANGED <<stored, others, online>>

Next == ClientThread \/ TimerThread \/ WorkThread \/ Peer \/ Lost

Spec == BInit /\ [][Next]_bvars

\* The three threads run on; timers that stay armed fire.  Nothing is asked of the
\* peer or of the network.
FairSpec ==
    /\ Spec
    /\ WF_bvars(ClientThread)
    /\ WF_bvars(TimerThread)
    /\ WF_bvars(WorkThread)
\* ... and a network that is looked for again and again is found up.
NetSpec == FairSpec /\ SF_bvars(IdleUp /\ UNCHANGED biz)
-----------------------------------------------------------------------------
Labels == States \cup
          {"rest", "set", "err", "atop", "conn_close", "session_close", "up", "run", "store", "online",
           "close", "stop", "drop", "idle", "count", "send", "crashed"}

Flags == {work, dropped, alive, frag, connected, stored, known, online} \subseteq BOOLEAN

\* The type invariant: the back-off index stays inside its table and the count of lost
\* pings within what closes the connection; whoever may send has a socket.
TypeOK ==
    /\ state \in States /\ next \in States
    /\ pc \in [Threads -> Labels]
    /\ reconn_cnt \in 0 .. ReconnNum - 1
    /\ lost_cnt \in 0 .. MaxLost /\ count \in 0 .. MaxLost
    /\ Flags
    /\ queued \in 0 .. MaxQueued
    /\ sock \in Sockets /\ (connected => sock # "none")
    /\ asked \subseteq DOMAIN AnswerTo
    /\ inq \in Seq(Packets) /\ Len(inq) <= MaxIn
    /\ others \in 0 .. Slots /\ InUse <= Slots

\* Something will look after the connection: a ping to come or an answer awaited, or
\* the timer thread is about to act.
Guarded == work \/ queued > 0 \/ alive \/ pc["T"] # "rest"

\* The client thread is in RUNNING and between two packets.
Settled == state = "RUNNING" /\ pc["C"] \in {"rest", "RUNNING"}

\* Over a good connection a running client is never without its keepalive: a ping is
\* to come, one is awaited, or its answer is on the way, whatever packets came between.
\* The one way to lose it is a ping that found the work queue full: nothing plans it
\* again.
Watched ==
    Settled /\ connected /\ sock = "good" =>
        \/ Guarded \/ pc["W"] = "send"
        \/ "ping" \in asked
        \/ "pong" \in InFlight
        \/ dropped

\* Whenever the client is running over a good connection nobody is closing, the agent
\* is online and both its own table and the peer know its session.
AgentReady ==
    Settled /\ connected /\ sock = "good" /\ pc["T"] = "rest" =>
        online /\ stored /\ known

\* A running client leaves a connection that fails: at once when reading fails, and
\* through the lost pings when it is silent, be it in the middle of a packet, and the
\* keepalive was still armed, unless a full work queue has put an end to the pings.
LossIsNoticed ==
    (/\ state = "RUNNING"
     /\ \/ sock = "broken"
        \/ sock \in {"eof", "dead"} /\ inq \in {<<>>, <<"part">>} /\ Guarded)
        ~> state # "RUNNING" \/ (dropped /\ ~Guarded)

\* tuya_ai_client.c:7: "It implements automatic reconnection mechanisms and ping-pong
\* keepalive for stable connections."  A connection that is lost is given up and set
\* up again.
Reconnects == sock \in {"eof", "dead", "broken"} ~> sock \in {"none", "fresh"}
=============================================================================
