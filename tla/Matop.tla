------------------------------- MODULE Matop --------------------------------
(***************************************************************************)
(* The requests to the cloud over MQTT, matop_service.c, on the session of *)
(* MqttService.  A request has a number, counted from the start of the     *)
(* connection, and waits in message_list for the answer with that number   *)
(* or for its timeout.  Callbacks may send requests themselves.            *)
(*                                                                         *)
(* Requests come from the main thread (an upgrade notice) and from the     *)
(* timer thread (the daily upgrade check), which sends first and links its *)
(* entry to the unlocked list afterwards.  The cloud answers when it has   *)
(* done its work, perhaps on a later connection.                           *)
(***************************************************************************)
EXTENDS MqttService

CONSTANTS Reqs, NoReq

ASSUME NoReqIsNone == NoReq \notin Reqs
ASSUME ReqsFinite == IsFiniteSet(Reqs)

VARIABLES
    message_list,   \* requests that wait for their answer
    id_cnt,
    answers,        \* answers on their way: the number, and the request it is for
    overdue,        \* requests whose time is over
    begun,          \* requests that were made
    kept,           \* (history) of those, the ones accepted on this connection
    timer,          \* the timer thread's request
    responses,      \* what each callback was called with: an answer, or failure
    astray          \* dropped from the list by a thread that did not know of them

mvars == <<message_list, id_cnt, answers, overdue, begun, kept, timer, responses, astray>>
vars == <<pvars, mvars>>

NoTimer == [at |-> "idle", r |-> NoReq, id |-> 0, tail |-> NoReq]

Init ==
    /\ PInit
    /\ message_list = <<>>
    /\ id_cnt = 0
    /\ answers = {}
    /\ overdue = {}
    /\ begun = {} /\ kept = {}
    /\ timer = NoTimer
    /\ responses = [r \in Reqs |-> <<>>]
    /\ astray = {}

Waiting == {message_list[i].r : i \in DOMAIN message_list}
-----------------------------------------------------------------------------
(* Requests of the main thread: matop_service_request_async.               *)

\* What a request does to the list, the number and the answers; it is sent, or
\* mqtt_client_publish fails.
Sends(r, list, old) ==
    /\ r \notin begun
    /\ begun' = begun \cup {r}
    /\ id_cnt' = id_cnt + 1
    /\ \/ /\ is_connected
          /\ message_list' = Append(list, [r |-> r, id |-> id_cnt + 1])
          /\ answers' = old \cup {[id |-> id_cnt + 1, r |-> r]}
          /\ kept' = kept \cup {r}
       \/ /\ message_list' = list
          /\ answers' = old
          /\ UNCHANGED kept

\* A callback sends a request, or it does not.
MaySend(list, old) ==
    \/ \E r \in Reqs : Sends(r, list, old)
    \/ /\ message_list' = list
       /\ answers' = old
       /\ UNCHANGED <<begun, id_cnt, kept>>

\* mqtt_service_upgrade_notify_on, for a message that came in mqtt_client_yield
Request(r) ==
    /\ at = "yield"
    /\ Sends(r, message_list, answers)
    /\ at' = "matop"
    /\ UNCHANGED <<is_connected, publish_list, pos, publisher, lastid, acks, expired,
                   notices, lost, overdue, timer, responses, astray>>
-----------------------------------------------------------------------------
(* The timer thread's request: check_auto_upgrade_timeout_on.  The number  *)
(* is read and written, the list read and linked to, without a lock.       *)

\* Mutant: id = matop->id_cnt++
TimerCountPost(r) ==
    /\ timer = NoTimer
    /\ is_connected
    /\ r \notin begun
    /\ begun' = begun \cup {r}
    /\ timer' = [at |-> "send", r |-> r, id |-> id_cnt, tail |-> NoReq]
    /\ UNCHANGED <<pvars, message_list, id_cnt, answers, overdue, kept, responses, astray>>

TimerCount(r) ==
    /\ timer = NoTimer
    /\ is_connected
    /\ r \notin begun
    /\ begun' = begun \cup {r}
    /\ timer' = [at |-> "send", r |-> r, id |-> id_cnt + 1, tail |-> NoReq]
    /\ UNCHANGED <<pvars, message_list, id_cnt, answers, overdue, kept, responses, astray>>

TimerSend ==
    /\ timer.at = "send"
    /\ id_cnt' = timer.id
    /\ \/ /\ is_connected
          /\ answers' = answers \cup {[id |-> timer.id, r |-> timer.r]}
          /\ kept' = kept \cup {timer.r}
          /\ timer' = [timer EXCEPT !.at = "find"]
       \/ /\ timer' = NoTimer
          /\ UNCHANGED <<answers, kept>>
    /\ UNCHANGED <<pvars, message_list, overdue, begun, responses, astray>>

TimerFind ==
    /\ timer.at = "find"
    /\ timer' = [timer EXCEPT !.at = "link",
                     !.tail = IF message_list = <<>> THEN NoReq ELSE Last(message_list).r]
    /\ UNCHANGED <<pvars, message_list, id_cnt, answers, overdue, begun, kept, responses,
                   astray>>

\* What it found may be stale: the head is set over what was added meanwhile, and an
\* entry is linked behind one that was freed.
TimerLink ==
    /\ timer.at = "link"
    /\ LET e == [r |-> timer.r, id |-> timer.id]
       IN  CASE timer.tail = NoReq ->
                    /\ message_list' = <<e>>
                    /\ astray' = astray \cup Waiting
             [] timer.tail \in Waiting ->
                    \E i \in DOMAIN message_list :
                        /\ message_list[i].r = timer.tail
                        /\ message_list' = Append(SubSeq(message_list, 1, i), e)
                        /\ astray' = astray \cup
                               {message_list[j].r : j \in i + 1 .. Len(message_list)}
             [] OTHER ->
                    /\ astray' = astray \cup {timer.r}
                    /\ UNCHANGED message_list
    /\ timer' = NoTimer
    /\ UNCHANGED <<pvars, id_cnt, answers, overdue, begun, kept, responses>>
-----------------------------------------------------------------------------
(* Answers and timeouts.                                                   *)

Respond(r, what) == responses' = [responses EXCEPT ![r] = Append(@, what)]

\* The entry an answer is for: the first with its number.
IsTarget(i, ans) ==
    /\ message_list[i].id = ans.id
    /\ \A j \in 1 .. i - 1 : message_list[j].id # ans.id

\* Mutant: the entry stays in the list.
ReceiveKeeps(ans) ==
    /\ at = "yield"
    /\ ans \in answers
    /\ \E i \in DOMAIN message_list :
           /\ IsTarget(i, ans)
           /\ Respond(message_list[i].r, ans.r)
    /\ MaySend(message_list, answers \ {ans})
    /\ at' = "matop"
    /\ UNCHANGED <<is_connected, publish_list, pos, publisher, lastid, acks, expired,
                   notices, lost, overdue, timer, astray>>

\* matop_service_data_receive_cb, and its twin for file data: the callback runs and may
\* send a request; then the entry is removed.
Receive(ans) ==
    /\ at = "yield"
    /\ ans \in answers
    /\ \E i \in DOMAIN message_list :
           /\ IsTarget(i, ans)
           /\ Respond(message_list[i].r, ans.r)
           /\ MaySend(RemoveAt(message_list, i), answers \ {ans})
    /\ at' = "matop"
    /\ UNCHANGED <<is_connected, publish_list, pos, publisher, lastid, acks, expired,
                   notices, lost, overdue, timer, astray>>

ReceiveUnknown(ans) ==
    /\ at = "yield"
    /\ ans \in answers
    /\ \A i \in DOMAIN message_list : message_list[i].id # ans.id
    /\ answers' = answers \ {ans}
    /\ at' = "matop"
    /\ UNCHANGED <<is_connected, publish_list, pos, publisher, lastid, acks, expired,
                   notices, lost, message_list, id_cnt, overdue, begun, kept, timer,
                   responses, astray>>

Overdue(r) ==
    /\ r \in Waiting \ overdue
    /\ overdue' = overdue \cup {r}
    /\ UNCHANGED <<pvars, message_list, id_cnt, answers, begun, kept, timer, responses, astray>>

\* Mutant: the comparison the other way round.
LateNot(e) == e.r \notin overdue

Late(e) == e.r \in overdue

\* Mutant: the list goes on where it went before the callback.
YieldTimeoutStale ==
    /\ at = "matop"
    /\ \E i \in DOMAIN message_list :
           /\ Late(message_list[i]) /\ \A j \in 1 .. i - 1 : ~Late(message_list[j])
           /\ Respond(message_list[i].r, "FAIL")
           /\ \E r \in Reqs \ begun :
                  /\ begun' = begun \cup {r} /\ kept' = kept \cup {r}
                  /\ answers' = answers \cup {[id |-> id_cnt + 1, r |-> r]}
           /\ id_cnt' = id_cnt + 1
           /\ message_list' = RemoveAt(message_list, i)
    /\ at' = "loop"
    /\ UNCHANGED <<is_connected, publish_list, pos, publisher, lastid, acks, expired,
                   notices, lost, overdue, timer, astray>>

\* matop_serice_yield: the first entry that is late is told and removed; one each time.
YieldTimeout ==
    /\ at = "matop"
    /\ \E i \in DOMAIN message_list :
           /\ Late(message_list[i]) /\ \A j \in 1 .. i - 1 : ~Late(message_list[j])
           /\ Respond(message_list[i].r, "FAIL")
           /\ MaySend(RemoveAt(message_list, i), answers)
    /\ at' = "loop"
    /\ UNCHANGED <<is_connected, publish_list, pos, publisher, lastid, acks, expired,
                   notices, lost, overdue, timer, astray>>

YieldOk ==
    /\ at = "matop"
    /\ \A i \in DOMAIN message_list : ~Late(message_list[i])
    /\ at' = "loop"
    /\ UNCHANGED <<is_connected, publish_list, pos, publisher, lastid, acks, expired,
                   notices, lost, mvars>>
-----------------------------------------------------------------------------
(* The callbacks of the connection.                                        *)

\* mqtt_client_connected_on calls matop_serice_init, which clears the context: also of
\* what the timer thread has linked since is_connected was set.
ConnectedOn ==
    /\ OnConnected
    /\ message_list' = <<>>
    /\ id_cnt' = 0
    /\ astray' = astray \cup Waiting
    /\ UNCHANGED <<answers, overdue, begun, kept, timer, responses>>

\* mqtt_client_disconnect_on calls matop_serice_destory: nobody is told.
DisconnectOn ==
    /\ Disconnected
    /\ message_list' = <<>>
    /\ kept' = {}
    /\ UNCHANGED <<id_cnt, answers, overdue, begun, timer, responses, astray>>
-----------------------------------------------------------------------------
MainThread ==
    \/ (PublishLoop \/ Connected \/ ConnectFailed) /\ UNCHANGED mvars
    \/ ConnectedOn \/ DisconnectOn
    \/ \E r \in Reqs : Request(r)
    \/ \E ans \in answers : Receive(ans) \/ ReceiveUnknown(ans)
    \/ YieldTimeout \/ YieldOk

TimerThread ==
    \/ \E r \in Reqs : TimerCount(r)
    \/ TimerSend \/ TimerFind \/ TimerLink

Time ==
    \/ \E m \in Msgs : Expire(m) /\ UNCHANGED mvars
    \/ \E r \in Reqs : Overdue(r)

Next == MainThread \/ TimerThread \/ Time \/ (Publisher /\ UNCHANGED mvars)

Spec == Init /\ [][Next]_vars

\* The main thread runs on and time passes; a broker that is tried again and again is
\* reached in the end.
FairSpec ==
    /\ Spec
    /\ WF_vars(MainThread)
    /\ SF_vars(Connected /\ UNCHANGED mvars)
    /\ \A m \in Msgs : WF_vars(Expire(m) /\ UNCHANGED mvars)
    /\ \A r \in Reqs : WF_vars(Overdue(r))
-----------------------------------------------------------------------------
Ids == 1 .. Cardinality(Reqs)

\* The type invariant of the session and of its requests: no entry, answer or request
\* under way has the number 0, from which id_cnt is counted.
TypeOK ==
    /\ PTypeOK
    /\ message_list \in Seq([r : Reqs, id : Ids])
    /\ id_cnt \in 0 .. Cardinality(Reqs)
    /\ answers \subseteq [id : Ids, r : Reqs]
    /\ overdue \subseteq Reqs /\ begun \subseteq Reqs /\ kept \subseteq begun
    /\ astray \subseteq Reqs
    /\ timer = NoTimer \/ timer \in [at : {"send", "find", "link"}, r : Reqs, id : Ids,
                                     tail : Reqs \cup {NoReq}]
    /\ responses \in [Reqs -> Seq(Reqs \cup {"FAIL"})]

\* A request's callback is called at most once, with an answer or with the failure of a
\* timeout, and after that the request is in the list no more.
AnsweredOnce ==
    \A r \in Reqs : Len(responses[r]) <= 1 /\ (responses[r] # <<>> => r \notin Waiting)

\* A request that was sent on this connection and whose callback has not been called
\* is in the list, also when a callback sent it while its own entry was being removed;
\* but for the timer thread's, not linked yet, and for what went astray: lost by that
\* thread's unlocked linking, or linked between the flag of a new connection and the
\* clearing of the context.
RequestsKept ==
    \A r \in kept : responses[r] = <<>> => r \in Waiting \cup {timer.r} \cup astray

\* Every request leaves the list: it is answered, times out (one in each round), the
\* connection ends or a new one clears the list; unless the main thread crashed.
RequestsEnd == \A r \in Reqs : r \in Waiting ~> r \notin Waiting \/ at = "crashed"
=============================================================================
