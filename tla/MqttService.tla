---------------------------- MODULE MqttService -----------------------------
(***************************************************************************)
(* The MQTT session of mqtt_service.c while the client is in its MQTT      *)
(* loop: the connection and the list of publishes whose callers wait to be *)
(* told of the PUBACK or of a timeout.                                     *)
(*                                                                         *)
(* The main thread runs tuya_mqtt_loop: it walks the list, sends what is   *)
(* unsent, drops what timed out, and then processes one packet.  An        *)
(* application thread publishes.  The list has no lock (the LOCK comments  *)
(* in the code stand for none), so that appending is two steps: find the   *)
(* last entry, link the new one behind it.  (The main thread never adds to *)
(* it, so that finding it empty and setting the head can be one step.)     *)
(***************************************************************************)
EXTENDS Naturals, Sequences, FiniteSets, SequencesExt

CONSTANTS Msgs,     \* publishes with a callback
          NoMsg,
          MaxId     \* bound: packet identifiers that can be used

ASSUME NoMsgIsNone == NoMsg \notin Msgs
ASSUME MaxIdNatural == MaxId \in Nat

VARIABLES
    is_connected,
    publish_list,   \* entries, with msgid 0 if not sent
    at,             \* where the main thread is: "loop", "up", "walk", "yield", "matop"
    pos,            \* next_handle: the position it points to
    publisher,      \* the application's call
    lastid,         \* the last packet identifier MQTT_GetPacketId gave
    acks,           \* PUBACKs on their way
    expired,        \* publishes whose time is over
    notices,        \* what each callback was called with
    lost            \* linked behind an entry that was freed meanwhile

pvars == <<is_connected, publish_list, at, pos, publisher, lastid, acks, expired,
           notices, lost>>

NoCall == [at |-> "idle", m |-> NoMsg, msgid |-> 0, tail |-> NoMsg]

PInit ==
    /\ is_connected = TRUE
    /\ publish_list = <<>>
    /\ at = "loop"
    /\ pos = 1
    /\ publisher = NoCall
    /\ lastid = 0
    /\ acks = {}
    /\ expired = {}
    /\ notices = [m \in Msgs |-> <<>>]
    /\ lost = {}

Entry(m, msgid) == [m |-> m, msgid |-> msgid]

Listed == {publish_list[i].m : i \in DOMAIN publish_list}

Fresh == {m \in Msgs : m \notin Listed /\ notices[m] = <<>> /\ m \notin lost
                       /\ m # publisher.m}
-----------------------------------------------------------------------------
(* The application thread: tuya_mqtt_client_publish_common.                *)

\* The packet goes out, with a new identifier, or it does not.
Sent(msgid) ==
    /\ msgid = lastid + 1 /\ msgid <= MaxId
    /\ lastid' = msgid
    /\ acks' = acks \cup {msgid}

NotSent(msgid) == msgid = 0 /\ UNCHANGED <<lastid, acks>>

\* Mutant: the msgid of the new entry is not set.
PublishAsyncUnset(m) ==
    /\ is_connected
    /\ publisher = NoCall
    /\ m \in Fresh
    /\ publisher' = [at |-> "find", m |-> m, msgid |-> MaxId + 1, tail |-> NoMsg]
    /\ UNCHANGED <<is_connected, publish_list, at, pos, lastid, acks, expired, notices, lost>>

\* async: the main loop will send it
PublishAsync(m) ==
    /\ is_connected
    /\ publisher = NoCall
    /\ m \in Fresh
    /\ publisher' = [at |-> "find", m |-> m, msgid |-> 0, tail |-> NoMsg]
    /\ UNCHANGED <<is_connected, publish_list, at, pos, lastid, acks, expired, notices, lost>>

\* otherwise it is sent here, before it is in the list
PublishNow(m) ==
    /\ is_connected
    /\ publisher = NoCall
    /\ m \in Fresh
    /\ \E msgid \in {0, lastid + 1} :
           /\ Sent(msgid) \/ NotSent(msgid)
           /\ publisher' = [at |-> "find", m |-> m, msgid |-> msgid, tail |-> NoMsg]
    /\ UNCHANGED <<is_connected, publish_list, at, pos, expired, notices, lost>>

FindLast ==
    /\ publisher.at = "find"
    /\ IF publish_list = <<>>
       THEN /\ publish_list' = <<Entry(publisher.m, publisher.msgid)>>
            /\ publisher' = NoCall
       ELSE /\ publisher' = [publisher EXCEPT !.at = "link", !.tail = Last(publish_list).m]
            /\ UNCHANGED publish_list
    /\ UNCHANGED <<is_connected, at, pos, lastid, acks, expired, notices, lost>>

LinkLast ==
    /\ publisher.at = "link"
    /\ IF publisher.tail \in Listed
       THEN /\ publish_list' = Append(publish_list, Entry(publisher.m, publisher.msgid))
            /\ UNCHANGED lost
       ELSE /\ lost' = lost \cup {publisher.m}
            /\ UNCHANGED publish_list
    /\ publisher' = NoCall
    /\ UNCHANGED <<is_connected, at, pos, lastid, acks, expired, notices>>

Expire(m) ==
    /\ m \in Listed \ expired
    /\ expired' = expired \cup {m}
    /\ UNCHANGED <<is_connected, publish_list, at, pos, publisher, lastid, acks, notices, lost>>
-----------------------------------------------------------------------------
(* The main thread: tuya_mqtt_loop.                                        *)

\* Mutant: what has been sent waits for its PUBACK only.
TimedOutUnsent(e) == e.m \in expired /\ e.msgid = 0

TimedOut(e) == e.m \in expired

Notify(m, rt) == notices' = [notices EXCEPT ![m] = Append(@, rt)]

\* mqtt_client_connected_cb, up to the flag: other threads may send from here on
Connected ==
    /\ at = "loop"
    /\ ~is_connected
    /\ is_connected' = TRUE
    /\ at' = "up"
    /\ UNCHANGED <<publish_list, pos, publisher, lastid, acks, expired, notices, lost>>

\* context->on_connected; what it does is left to the modules built on this one
OnConnected ==
    /\ at = "up"
    /\ at' = "matop"
    /\ UNCHANGED <<is_connected, publish_list, pos, publisher, lastid, acks, expired,
                   notices, lost>>

ConnectFailed ==
    /\ at = "loop"
    /\ ~is_connected
    /\ at' = "matop"
    /\ UNCHANGED <<is_connected, publish_list, pos, publisher, lastid, acks, expired,
                   notices, lost>>

WalkBegin ==
    /\ at = "loop"
    /\ is_connected
    /\ at' = "walk"
    /\ pos' = 1
    /\ UNCHANGED <<is_connected, publish_list, publisher, lastid, acks, expired, notices, lost>>

\* An entry that timed out is told and removed; next_handle then moves on from the
\* entry that took its place, and from NULL if there is none.
WalkTimeout ==
    /\ at = "walk"
    /\ pos <= Len(publish_list)
    /\ TimedOut(publish_list[pos])
    /\ Notify(publish_list[pos].m, "TIMEOUT")
    /\ publish_list' = RemoveAt(publish_list, pos)
    /\ at' = IF pos = Len(publish_list) THEN "crashed" ELSE "walk"
    /\ pos' = pos + 1
    /\ UNCHANGED <<is_connected, publisher, lastid, acks, expired, lost>>

WalkSend ==
    /\ at = "walk"
    /\ pos <= Len(publish_list)
    /\ ~TimedOut(publish_list[pos])
    /\ publish_list[pos].msgid = 0
    /\ \E msgid \in {0, lastid + 1} :
           /\ Sent(msgid) \/ NotSent(msgid)
           /\ publish_list' = [publish_list EXCEPT ![pos].msgid = msgid]
    /\ pos' = pos + 1
    /\ UNCHANGED <<is_connected, at, publisher, expired, notices, lost>>

WalkPass ==
    /\ at = "walk"
    /\ pos <= Len(publish_list)
    /\ ~TimedOut(publish_list[pos])
    /\ publish_list[pos].msgid # 0
    /\ pos' = pos + 1
    /\ UNCHANGED <<is_connected, publish_list, at, publisher, lastid, acks, expired,
                   notices, lost>>

WalkEnd ==
    /\ at = "walk"
    /\ pos > Len(publish_list)
    /\ at' = "yield"
    /\ UNCHANGED <<is_connected, publish_list, pos, publisher, lastid, acks, expired,
                   notices, lost>>

\* Mutant: the entry stays in the list.
PubackKeeps(msgid) ==
    /\ at = "yield"
    /\ msgid \in acks
    /\ acks' = acks \ {msgid}
    /\ \/ \E i \in DOMAIN publish_list :
              /\ publish_list[i].msgid = msgid
              /\ Notify(publish_list[i].m, "OK")
       \/ /\ \A i \in DOMAIN publish_list : publish_list[i].msgid # msgid
          /\ UNCHANGED notices
    /\ at' = "matop"
    /\ UNCHANGED <<is_connected, publish_list, pos, publisher, lastid, expired, lost>>

\* mqtt_client_puback_cb; a PUBACK nobody waits for is dropped.
Puback(msgid) ==
    /\ at = "yield"
    /\ msgid \in acks
    /\ acks' = acks \ {msgid}
    /\ \/ \E i \in DOMAIN publish_list :
              /\ publish_list[i].msgid = msgid
              /\ Notify(publish_list[i].m, "OK")
              /\ publish_list' = RemoveAt(publish_list, i)
       \/ /\ \A i \in DOMAIN publish_list : publish_list[i].msgid # msgid
          /\ UNCHANGED <<publish_list, notices>>
    /\ at' = "matop"
    /\ UNCHANGED <<is_connected, pos, publisher, lastid, expired, lost>>

YieldNothing ==
    /\ at = "yield"
    /\ at' = "matop"
    /\ UNCHANGED <<is_connected, publish_list, pos, publisher, lastid, acks, expired,
                   notices, lost>>

\* The connection is gone, and with it the PUBACKs on their way.
Disconnected ==
    /\ at = "yield"
    /\ is_connected' = FALSE
    /\ acks' = {}
    /\ at' = "matop"
    /\ UNCHANGED <<publish_list, pos, publisher, lastid, expired, notices, lost>>
-----------------------------------------------------------------------------
Publisher ==
    \/ \E m \in Msgs : PublishAsync(m) \/ PublishNow(m)
    \/ FindLast \/ LinkLast

PublishLoop ==
    \/ WalkBegin \/ WalkTimeout \/ WalkSend \/ WalkPass \/ WalkEnd
    \/ \E msgid \in 1 .. MaxId : Puback(msgid)
    \/ YieldNothing

\* The rest of the round of tuya_iot_yield, for which this module has no state.
Round ==
    /\ at = "matop"
    /\ at' = "loop"
    /\ UNCHANGED <<is_connected, publish_list, pos, publisher, lastid, acks, expired,
                   notices, lost>>

PMain ==
    PublishLoop \/ Connected \/ OnConnected \/ ConnectFailed \/ Disconnected \/ Round

PNext == PMain \/ Publisher \/ \E m \in Msgs : Expire(m)

PSpec == PInit /\ [][PNext]_pvars

\* The main thread runs on and time passes; a broker that is tried again and again is
\* reached in the end.
PFairSpec ==
    /\ PSpec
    /\ WF_pvars(PMain)
    /\ SF_pvars(Connected)
    /\ \A m \in Msgs : WF_pvars(Expire(m))
-----------------------------------------------------------------------------
\* The type invariant of the session.
PTypeOK ==
    /\ is_connected \in BOOLEAN
    /\ publish_list \in Seq([m : Msgs, msgid : 0 .. MaxId])
    /\ at \in {"loop", "up", "walk", "yield", "matop", "crashed"}
    /\ pos \in Nat \ {0}
    /\ publisher \in [at : {"idle", "find", "link"}, m : Msgs \cup {NoMsg},
                      msgid : 0 .. MaxId, tail : Msgs \cup {NoMsg}]
    /\ lastid \in 0 .. MaxId /\ acks \subseteq 1 .. MaxId
    /\ expired \subseteq Msgs /\ lost \subseteq Msgs
    /\ notices \in [Msgs -> Seq({"OK", "TIMEOUT"})]

\* A publish is answered to its caller at most once, by its PUBACK or by the timeout,
\* also when both come about in the same round or the connection was made anew between.
NotifiedOnce == \A m \in Msgs : Len(notices[m]) <= 1 /\ (notices[m] # <<>> => m \notin Listed)

\* Every publish in the list is answered in the end: the walk, which skips the entry
\* behind one it removes, starves none; unless the walk crashed.
PublishEnds == \A m \in Msgs : m \in Listed ~> m \notin Listed \/ at = "crashed"
=============================================================================
