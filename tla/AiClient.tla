------------------------------ MODULE AiClient ------------------------------
(***************************************************************************)
(* The connection to the AI service: tuya_ai_client.c over                 *)
(* tuya_ai_protocol.c and the TCP transporter.                             *)
(*                                                                         *)
(* Three threads share the client without a lock of its own: the client    *)
(* thread "C" (__ai_client_thread_cb), the timer thread "T" and the work   *)
(* queue's thread "W", on which the ping runs.  A send is one step: it is  *)
(* made under the protocol's mutex.  Everything else is a step per shared  *)
(* variable written, so that the timer thread can close the connection     *)
(* while the client thread is already setting up the next one.             *)
(*                                                                         *)
(* Time is not measured: a timer that is armed may fire.  The work queue   *)
(* is shared, so others may have filled it whenever a ping is to be        *)
(* queued.  Allocation succeeds.  The peer answers what reached it, sends  *)
(* data, fragmented or not, and may close; the link may die silently, also *)
(* in the middle of a packet, or with an error.  The timer that refreshes  *)
(* the credential only sends a request, and is left out; the answer is     *)
(* data.                                                                   *)
(***************************************************************************)
EXTENDS Integers, Sequences

CONSTANTS ReconnNum,   \* AI_RECONN_TIME_NUM: entries of the back-off table
          MaxLost,     \* lost pings after which the connection is closed (3)
          MaxQueued,   \* bound: pings the work queue can hold
          MaxIn        \* bound: packets on their way to the device

ASSUME ReconnAssumption == ReconnNum \in Nat \ {0}
ASSUME LostAssumption == MaxLost \in Nat \ {0}
ASSUME BoundAssumption == MaxQueued \in Nat \ {0} /\ MaxIn \in Nat \ {0}

VARIABLES
    state,        \* ai_basic_client->state
    pc, next,     \* where each thread is; the state the client thread will set
    reconn_cnt,   \* index into the back-off table
    lost_cnt,     \* heartbeat_lost_cnt
    count,        \* the timer thread's copy of it, in the middle of the increment
    work, queued, \* alive_work: its timer is armed; pings in the work queue
    dropped,      \* history: the ping planned last found the work queue full, and none
                  \* has run since
    alive,        \* alive_timeout_timer is armed
    connected,    \* ai_basic_proto->connected
    sock,         \* the transporter's socket
    asked,        \* requests that reached the peer and are not answered
    inq,          \* packets on their way, or in the socket's buffer
    frag          \* a fragmented packet is being put together (recv_frag_mng)

timers == <<lost_cnt, count, work, queued, dropped, alive>>
link == <<connected, sock, asked, inq, frag>>
vars == <<state, pc, next, reconn_cnt, timers, link>>

States == {"IDLE", "SETUP", "CONNECT", "CLIENT_HELLO", "AUTH_REQ", "AUTH_RESP", "RUNNING"}

\* "fresh": connected, not authenticated yet; "eof": the peer has closed in order;
\* "dead": nothing passes and nobody is told; "broken": reading and writing fail.
Sockets == {"none", "fresh", "good", "eof", "dead", "broken"}

Through == {"fresh", "good"}

\* "start", "more" and "end" are the fragments of a packet that is data; "part" is the
\* beginning of a packet whose rest will never come.
Packets == {"auth", "pong", "conn_close", "data", "session_close",
            "start", "more", "end", "part"}

Threads == {"C", "T", "W"}

Init ==
    /\ state = "IDLE"
    /\ pc = [t \in Threads |-> "rest"]
    /\ next = "IDLE"
    /\ reconn_cnt = 0
    /\ lost_cnt = 0 /\ count = 0
    /\ work = FALSE /\ queued = 0 /\ dropped = FALSE /\ alive = FALSE
    /\ connected = FALSE /\ sock = "none"
    /\ asked = {} /\ inq = <<>> /\ frag = FALSE

Crashed == pc["C"] = "crashed"

At(t, label) == pc[t] = label /\ ~Crashed

Goto(t, label) == pc' = [pc EXCEPT ![t] = label]

\* __ai_client_set_state, a step of its own at the end of a case.
Set(s) == Goto("C", "set") /\ next' = s

\* tal_workq_start_delayed and tal_workq_stop_delayed of alive_work: a ping is planned,
\* or none.
Plan == work' = TRUE /\ dropped' = FALSE

Unplan == work' = FALSE /\ dropped' = FALSE
-----------------------------------------------------------------------------
(* Sending: tuya_ai_basic_pkt_send.                                        *)

SendOk == connected /\ sock \in Through \cup {"eof", "dead"}

\* The peer hears of it only over a good link.
Sent(p) == asked' = IF connected /\ sock \in Through THEN asked \cup {p} ELSE asked
-----------------------------------------------------------------------------
(* The client thread.                                                      *)

Switch ==
    /\ At("C", "rest")
    /\ Goto("C", state)
    /\ UNCHANGED <<state, next, reconn_cnt, timers, link>>

SetState ==
    /\ At("C", "set")
    /\ state' = next /\ next' = "IDLE"
    /\ Goto("C", "rest")
    /\ UNCHANGED <<reconn_cnt, timers, link>>

\* __ai_idle: the network is up or it is not.
IdleUp ==
    /\ At("C", "IDLE")
    /\ Set("SETUP")
    /\ UNCHANGED <<state, reconn_cnt, timers, link>>

IdleDown ==
    /\ At("C", "IDLE")
    /\ Goto("C", "err")
    /\ UNCHANGED <<state, next, reconn_cnt, timers, link>>

\* __ai_basic_proto_init: what is left of the old connection goes.
SetupReinit ==
    /\ At("C", "SETUP")
    /\ connected' = FALSE /\ sock' = "none"
    /\ asked' = {} /\ inq' = <<>> /\ frag' = FALSE
    /\ Goto("C", "atop")
    /\ UNCHANGED <<state, next, reconn_cnt, timers>>

\* The answer names the hosts.
SetupAnswered ==
    /\ At("C", "atop")
    /\ Unplan
    /\ Set("CONNECT")
    /\ UNCHANGED <<state, reconn_cnt, lost_cnt, count, queued, alive, link>>

SetupFails ==
    /\ At("C", "atop")
    /\ Goto("C", "err")
    /\ UNCHANGED <<state, next, reconn_cnt, timers, link>>

Connect ==
    /\ At("C", "CONNECT")
    /\ sock' = "fresh" /\ connected' = TRUE
    /\ reconn_cnt' = 0
    /\ Set("CLIENT_HELLO")
    /\ UNCHANGED <<state, timers, asked, inq, frag>>

ConnectFails ==
    /\ At("C", "CONNECT")
    /\ Goto("C", "err")
    /\ UNCHANGED <<state, next, reconn_cnt, timers, link>>

Hello ==
    /\ At("C", "CLIENT_HELLO")
    /\ \/ SendOk /\ Set("AUTH_REQ")
       \/ ~SendOk /\ Goto("C", "err") /\ UNCHANGED next
    /\ UNCHANGED <<state, reconn_cnt, timers, link>>

AuthReq ==
    /\ At("C", "AUTH_REQ")
    /\ Sent("auth")
    /\ \/ SendOk /\ Set("AUTH_RESP")
       \/ ~SendOk /\ Goto("C", "err") /\ UNCHANGED next
    /\ UNCHANGED <<state, reconn_cnt, timers, connected, sock, inq, frag>>
-----------------------------------------------------------------------------
(* Reading: tuya_ai_basic_pkt_read, in AUTH_RESP and in RUNNING.           *)

Reading == At("C", "AUTH_RESP") \/ At("C", "RUNNING")

\* Nothing comes within AI_DEFAULT_TIMEOUT_MS.  Between two fragments, or while the
\* authentication is awaited, that is an error.  Inside a packet ("part") the same result
\* makes the loops read on: no step leads out of there before the link breaks.
ReadTimeout ==
    /\ Reading
    /\ inq = <<>> /\ sock \in Through \cup {"dead"}
    /\ frag' = FALSE
    /\ Goto("C", IF frag \/ pc["C"] = "AUTH_RESP" THEN "err" ELSE "rest")
    /\ UNCHANGED <<state, next, reconn_cnt, timers, connected, sock, asked, inq>>

\* The peer has closed: 0 is returned, which is OPRT_OK, and no packet.  __ai_running
\* tests for that, tuya_ai_auth_resp reads through the NULL pointer.
ReadEnd ==
    /\ Reading
    /\ inq = <<>> /\ sock = "eof"
    /\ frag' = FALSE
    /\ Goto("C", IF pc["C"] = "AUTH_RESP" THEN "crashed" ELSE "rest")
    /\ UNCHANGED <<state, next, reconn_cnt, timers, connected, sock, asked, inq>>

ReadFails ==
    /\ Reading
    /\ sock = "broken"
    /\ frag' = FALSE
    /\ Goto("C", "err")
    /\ UNCHANGED <<state, next, reconn_cnt, timers, connected, sock, asked, inq>>

\* A fragment is kept and the next packet read at once; out of place it is an error.
ReadFragment ==
    /\ Reading
    /\ inq # <<>> /\ Head(inq) \in {"start", "more"}
    /\ inq' = Tail(inq)
    /\ \/ frag = (Head(inq) = "more") /\ frag' = TRUE /\ UNCHANGED pc
       \/ frag # (Head(inq) = "more") /\ frag' = FALSE /\ Goto("C", "err")
    /\ UNCHANGED <<state, next, reconn_cnt, timers, connected, sock, asked>>

\* A whole packet inside a fragmented one, or a last fragment without a first.
ReadOutOfPlace ==
    /\ Reading
    /\ inq # <<>> /\ Head(inq) \notin {"start", "more", "part"}
    /\ frag # (Head(inq) = "end")
    /\ inq' = Tail(inq) /\ frag' = FALSE
    /\ Goto("C", "err")
    /\ UNCHANGED <<state, next, reconn_cnt, timers, connected, sock, asked>>

Readable ==
    /\ inq # <<>> /\ Head(inq) \notin {"start", "more", "part"}
    /\ frag = (Head(inq) = "end")

Take == inq' = Tail(inq) /\ frag' = FALSE

\* __ai_auth_resp: the answer to the request starts the keepalive; anything else that
\* comes is an error.
AuthResp ==
    /\ At("C", "AUTH_RESP")
    /\ Readable /\ Take
    /\ \/ /\ Head(inq) = "auth"
          /\ lost_cnt' = 0 /\ Plan
          /\ Goto("C", "up")
       \/ /\ Head(inq) # "auth"
          /\ Goto("C", "err")
          /\ UNCHANGED <<lost_cnt, work, dropped>>
    /\ UNCHANGED <<state, next, reconn_cnt, count, queued, alive, connected, sock, asked>>

Up ==
    /\ At("C", "up")
    /\ state' = "RUNNING"
    /\ Goto("C", "run")
    /\ UNCHANGED <<next, reconn_cnt, timers, link>>

\* __ai_running with a packet: __ai_stop_alive_time first, whatever it is.
Got(kinds) ==
    /\ At("C", "RUNNING")
    /\ Readable /\ Take
    /\ Head(inq) \in kinds
    /\ lost_cnt' = 0 /\ alive' = FALSE
    /\ UNCHANGED <<state, reconn_cnt, count, queued, connected, sock, asked>>

\* Mutant: the answer to a ping plans no other ping.
HandlePongOnce ==
    /\ Got({"pong"})
    /\ Goto("C", "rest")
    /\ UNCHANGED <<next, work, dropped>>

HandlePong ==
    /\ Got({"pong"})
    /\ Plan
    /\ Goto("C", "rest")
    /\ UNCHANGED <<next>>

\* The registered callback, a refreshed credential, or a conn_close without attributes,
\* which is only logged: nothing modelled changes.
HandleData ==
    /\ Got({"data", "end", "auth"})
    /\ Goto("C", "rest")
    /\ UNCHANGED <<next, work, dropped>>

\* Packets that change the sessions: see AiBiz.
HandleControl ==
    /\ Got({"conn_close", "session_close"})
    /\ Goto("C", Head(inq))
    /\ UNCHANGED <<next, work, dropped>>

\* tal_event_publish(EVENT_AI_CLIENT_CLOSE), then a new connection.
HandleClose ==
    /\ At("C", "conn_close")
    /\ Set("SETUP")
    /\ UNCHANGED <<state, reconn_cnt, timers, link>>
-----------------------------------------------------------------------------
(* Errors: __ai_client_handle_err looks at the state as it is by now.      *)

\* Mutant: the cap is the number of entries.
ErrSetupOffByOne ==
    /\ At("C", "err") /\ state = "SETUP"
    /\ reconn_cnt' = IF reconn_cnt >= ReconnNum THEN ReconnNum ELSE reconn_cnt + 1
    /\ Goto("C", "rest")
    /\ UNCHANGED <<state, next, timers, link>>

ErrSetup ==
    /\ At("C", "err") /\ state = "SETUP"
    /\ reconn_cnt' = IF reconn_cnt >= ReconnNum - 1 THEN ReconnNum - 1 ELSE reconn_cnt + 1
    /\ Goto("C", "rest")
    /\ UNCHANGED <<state, next, timers, link>>

ErrConnect ==
    /\ At("C", "err") /\ state \in {"CONNECT", "AUTH_RESP"}
    /\ Set("SETUP")
    /\ UNCHANGED <<state, reconn_cnt, timers, link>>

ErrRunning ==
    /\ At("C", "err") /\ state = "RUNNING"
    /\ Goto("C", "close")
    /\ UNCHANGED <<state, next, reconn_cnt, timers, link>>

ErrOther ==
    /\ At("C", "err") /\ state \in {"IDLE", "CLIENT_HELLO", "AUTH_REQ"}
    /\ Goto("C", "rest")
    /\ UNCHANGED <<state, next, reconn_cnt, timers, link>>
-----------------------------------------------------------------------------
(* __ai_conn_close, on the client thread or on the timer thread.           *)

\* tal_event_publish(EVENT_AI_CLIENT_CLOSE): see AiBiz.
PublishClose(t) ==
    /\ At(t, "close")
    /\ Goto(t, "stop")
    /\ UNCHANGED <<state, next, reconn_cnt, timers, link>>

\* tuya_ai_client_stop_ping
StopPing(t) ==
    /\ At(t, "stop")
    /\ Unplan /\ lost_cnt' = 0 /\ alive' = FALSE
    /\ Goto(t, "drop")
    /\ UNCHANGED <<state, next, reconn_cnt, count, queued, link>>

\* tuya_ai_basic_conn_close: the peer is told, if it can be, and nothing more is sent;
\* the socket stays open until the next set-up.
Drop(t) ==
    /\ At(t, "drop")
    /\ connected' = FALSE
    /\ Goto(t, "idle")
    /\ UNCHANGED <<state, next, reconn_cnt, timers, sock, asked, inq, frag>>

SetIdle(t) ==
    /\ At(t, "idle")
    /\ state' = "IDLE"
    /\ Goto(t, "rest")
    /\ UNCHANGED <<next, reconn_cnt, timers, link>>
-----------------------------------------------------------------------------
(* The timer thread and the work queue's thread.                           *)

\* alive_timeout_timer fires: __ai_alive_timeout, whose increment can be torn.
AliveFires ==
    /\ At("T", "rest") /\ alive
    /\ alive' = FALSE
    /\ count' = lost_cnt + 1
    /\ Goto("T", "count")
    /\ UNCHANGED <<state, next, reconn_cnt, lost_cnt, work, queued, dropped, link>>

\* Mutant: after a lost ping the next one is left to its interval, which nobody starts.
AliveTimeoutWaits ==
    /\ At("T", "count")
    /\ lost_cnt' = count /\ count' = 0
    /\ Goto("T", IF count >= MaxLost THEN "close" ELSE "rest")
    /\ UNCHANGED <<state, next, reconn_cnt, work, queued, dropped, alive, link>>

\* Enough pings are lost, or the next one follows at once.
AliveTimeout ==
    /\ At("T", "count")
    /\ lost_cnt' = count /\ count' = 0
    /\ \/ count >= MaxLost /\ Goto("T", "close") /\ UNCHANGED <<work, dropped>>
       \/ count < MaxLost /\ Goto("T", "rest") /\ Plan
    /\ UNCHANGED <<state, next, reconn_cnt, queued, alive, link>>

\* __delayed_work_cb, once: the ping enters the work queue, unless what others have put
\* there fills it; the result is not looked at, and the timer fires only this once.
WorkFires ==
    /\ At("T", "rest") /\ work
    /\ work' = FALSE
    /\ \/ queued < MaxQueued /\ queued' = queued + 1 /\ UNCHANGED dropped
       \/ dropped' = TRUE /\ UNCHANGED queued
    /\ UNCHANGED <<state, pc, next, reconn_cnt, lost_cnt, count, alive, link>>

\* __ai_ping: the timer first, then the packet; its result is only logged.
Ping ==
    /\ At("W", "rest") /\ queued > 0
    /\ queued' = queued - 1
    /\ alive' = TRUE /\ dropped' = FALSE
    /\ Goto("W", "send")
    /\ UNCHANGED <<state, next, reconn_cnt, lost_cnt, count, work, link>>

PingSend ==
    /\ At("W", "send")
    /\ Sent("ping")
    /\ Goto("W", "rest")
    /\ UNCHANGED <<state, next, reconn_cnt, timers, connected, sock, inq, frag>>
-----------------------------------------------------------------------------
(* The peer and the network.                                               *)

AnswerTo == [auth |-> "auth", ping |-> "pong"]

Answer ==
    /\ ~Crashed /\ sock \in Through /\ Len(inq) < MaxIn
    /\ \E p \in asked :
           /\ asked' = asked \ {p} /\ inq' = Append(inq, AnswerTo[p])
           /\ p # "auth" => sock = "good"
           /\ sock' = "good"
    /\ UNCHANGED <<state, pc, next, reconn_cnt, timers, connected, frag>>

\* Packets of its own, after the authentication, or the refusal of it; fragments come
\* in any order, for the device checks it.
Push(p) ==
    /\ ~Crashed /\ Len(inq) < MaxIn
    /\ sock = "good" \/ (sock = "fresh" /\ p = "conn_close")
    /\ inq' = Append(inq, p)
    /\ UNCHANGED <<state, pc, next, reconn_cnt, timers, connected, sock, asked, frag>>

PeerCloses ==
    /\ ~Crashed /\ sock \in Through
    /\ sock' = "eof" /\ asked' = {}
    /\ UNCHANGED <<state, pc, next, reconn_cnt, timers, connected, inq, frag>>

\* ... between two packets, or inside one.
LinkDies ==
    /\ ~Crashed /\ sock \in Through
    /\ sock' = "dead" /\ asked' = {}
    /\ \/ UNCHANGED inq
       \/ Len(inq) < MaxIn /\ inq' = Append(inq, "part")
    /\ UNCHANGED <<state, pc, next, reconn_cnt, timers, connected, frag>>

\* What was not read by then is not read any more.
LinkBreaks ==
    /\ ~Crashed /\ sock \in Through \cup {"eof", "dead"}
    /\ sock' = "broken" /\ asked' = {} /\ inq' = <<>>
    /\ UNCHANGED <<state, pc, next, reconn_cnt, timers, connected, frag>>

=============================================================================
