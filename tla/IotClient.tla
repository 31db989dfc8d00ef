----------------------------- MODULE IotClient ------------------------------
(***************************************************************************)
(* The device's cloud client, tuya_iot.c: the state machine the main loop  *)
(* drives with tuya_iot_yield, from pairing and activation to the MQTT     *)
(* session and back through a reset.                                       *)
(*                                                                         *)
(* The main thread takes `nextstate' over into `state' and then runs that  *)
(* state's case, which as a rule ends by writing `nextstate'.  It shares   *)
(* the client structure, without any lock, with                            *)
(*   - an application thread that calls start, stop, reset and reconnect,  *)
(*   - whoever publishes EVENT_LINK_ACTIVATE (BLE, AP or MQTT pairing),    *)
(*   - the upgrade check, a callback on the timer thread.                  *)
(* The power may fail at any time; `kv' is what flash keeps.  Of the       *)
(* mqtt_service context the flags and the client pointer are kept.         *)
(***************************************************************************)
EXTENDS Naturals, FiniteSets

CONSTANTS MaxCalls,    \* bound: calls of the application between two boots
          MaxTokens,   \* bound: activation events between two boots
          MaxBoots     \* bound: how often the power fails

ASSUME BoundsNatural == MaxCalls \in Nat /\ MaxTokens \in Nat /\ MaxBoots \in Nat

States == {"IDLE", "START", "DATA_LOAD", "TOKEN_PENDING", "NETWORK_CHECK",
           "ENDPOINT_GET", "ENDPOINT_UPDATE", "ACTIVATING", "STARTUP_UPDATE",
           "MQTT_CONNECT_START", "MQTT_CONNECTING", "MQTT_YIELD", "MQTT_RECONNECT",
           "NETWORK_RECONNECT", "RESTART", "RESET", "STOP"}

\* What activation writes to flash: the schema, and the record that names it.  A reset
\* writes "devid", the name the cloud is to know the device by when it activates again.
Keys == {"schema", "activate"}

VARIABLES
    state, nextstate,
    at,            \* where the main thread is in tuya_iot_yield
    is_activated,
    schema,        \* client->schema is there
    binding,       \* client->binding: NULL, allocated, or with a token
    subscribed,    \* "iot" is subscribed to EVENT_LINK_ACTIVATE
    sem, result,   \* client->token_get
    is_inited, mqtt_client, is_connected, manual_disconnect,  \* client->mqctx
    kv,            \* keys in flash
    erased,        \* (history) RESET_COMPLETE was announced; no activation stored since,
                   \* no other reset begun
    unremoved,     \* (history) keys the last reset could not remove
    call, calls,   \* the application's call, how many it has begun
    tokens,        \* activation events so far
    timer,         \* the upgrade check: "off", "on" or "send"
    boots

main == <<state, nextstate, at>>
identity == <<is_activated, schema, kv, erased, unremoved>>
token_get == <<binding, subscribed, sem, result>>
mqctx == <<is_inited, mqtt_client, is_connected, manual_disconnect>>
others == <<call, calls, tokens, timer, boots>>
vars == <<main, identity, token_get, mqctx, others>>

Complete(keys) == Keys \subseteq keys

\* tuya_iot_init on a new device
Init ==
    /\ state = "IDLE" /\ nextstate = "IDLE" /\ at = "enter"
    /\ is_activated = FALSE /\ schema = FALSE
    /\ binding = "NULL" /\ subscribed = FALSE /\ sem = 0 /\ result = "OK"
    /\ is_inited = FALSE /\ mqtt_client = FALSE
    /\ is_connected = FALSE /\ manual_disconnect = FALSE
    /\ kv = {} /\ erased = FALSE /\ unremoved = {}
    /\ call = "idle" /\ calls = 0 /\ tokens = 0 /\ timer = "off"
    /\ boots = 0
-----------------------------------------------------------------------------
(* Steps of the main thread.                                               *)

In(s) == at = "body" /\ state = s

Goto(s) == nextstate' = s /\ at' = "enter" /\ UNCHANGED state

\* break without a new nextstate
Stay == at' = "enter" /\ UNCHANGED <<state, nextstate>>

Proceed(place) == at' = place /\ UNCHANGED <<state, nextstate>>

Enter ==
    /\ at = "enter"
    /\ state' = nextstate
    /\ at' = "body"
    /\ UNCHANGED <<nextstate, identity, token_get, mqctx, others>>

Idle ==
    /\ In("IDLE")
    /\ Stay
    /\ UNCHANGED <<identity, token_get, mqctx, others>>

Start ==
    /\ In("START")
    /\ Goto(IF is_activated THEN "NETWORK_CHECK" ELSE "DATA_LOAD")
    /\ UNCHANGED <<identity, token_get, mqctx, others>>

\* An activated device does not get here.  A new binding replaces the old pointer;
\* subscribing again changes nothing.
DataLoad ==
    /\ In("DATA_LOAD")
    /\ ~is_activated
    /\ binding' = "empty"
    /\ subscribed' = TRUE
    /\ Goto("TOKEN_PENDING")
    /\ UNCHANGED <<identity, sem, result, mqctx, others>>

DataLoadNoMemory ==
    /\ In("DATA_LOAD")
    /\ ~is_activated
    /\ binding' = "NULL"
    /\ Stay
    /\ UNCHANGED <<identity, subscribed, sem, result, mqctx, others>>

\* tuya_iot_token_get_pending: start the pairing methods and wait for the semaphore ...
TokenPending ==
    /\ In("TOKEN_PENDING")
    /\ Proceed("wait")
    /\ UNCHANGED <<identity, token_get, mqctx, others>>

\* Mutant: the wait ends without a token.
TokenWakeEarly ==
    /\ at = "wait"
    /\ sem' = sem - 1
    /\ Proceed("woken")
    /\ UNCHANGED <<identity, binding, subscribed, result, mqctx, others>>

TokenWake ==
    /\ at = "wait"
    /\ sem > 0
    /\ sem' = sem - 1
    /\ Proceed("woken")
    /\ UNCHANGED <<identity, binding, subscribed, result, mqctx, others>>

\* ... and read the result after it.
TokenGot ==
    /\ at = "woken"
    /\ result = "OK"
    /\ binding # "NULL"
    /\ Goto("NETWORK_CHECK")
    /\ UNCHANGED <<identity, token_get, mqctx, others>>

TokenFailed ==
    /\ at = "woken"
    /\ result # "OK"
    /\ binding' = "NULL"
    /\ Stay
    /\ UNCHANGED <<identity, subscribed, sem, result, mqctx, others>>

NetworkUp ==
    /\ \/ In("NETWORK_CHECK")
          /\ Goto(IF is_activated THEN "ENDPOINT_GET" ELSE "ENDPOINT_UPDATE")
       \/ In("NETWORK_RECONNECT") /\ Goto("MQTT_CONNECT_START")
    /\ UNCHANGED <<identity, token_get, mqctx, others>>

NetworkDown ==
    /\ In("NETWORK_CHECK") \/ In("NETWORK_RECONNECT")
    /\ Stay
    /\ UNCHANGED <<identity, token_get, mqctx, others>>

\* Mutant: without a stored endpoint the network is checked again.
EndpointGetAgain ==
    /\ In("ENDPOINT_GET")
    /\ Goto("STARTUP_UPDATE") \/ Goto("NETWORK_CHECK")
    /\ UNCHANGED <<identity, token_get, mqctx, others>>

EndpointGet ==
    /\ In("ENDPOINT_GET")
    /\ Goto("STARTUP_UPDATE") \/ Goto("ENDPOINT_UPDATE")
    /\ UNCHANGED <<identity, token_get, mqctx, others>>

EndpointUpdated ==
    /\ In("ENDPOINT_UPDATE")
    /\ Goto(IF is_activated THEN "STARTUP_UPDATE" ELSE "ACTIVATING")
    /\ UNCHANGED <<identity, token_get, mqctx, others>>

EndpointFails ==
    /\ In("ENDPOINT_UPDATE")
    /\ Stay
    /\ UNCHANGED <<identity, token_get, mqctx, others>>
-----------------------------------------------------------------------------
(* Activation: the answer is stored, schema first, and read back.          *)

Activating == In("ACTIVATING") /\ binding # "NULL"

\* client_activate_process: the request fails; the binding is left as it is.
ActivateNoAnswer ==
    /\ Activating
    /\ Goto("RESTART")
    /\ UNCHANGED <<identity, token_get, mqctx, others>>

\* The answer is a refusal, or flash takes one of the two records not.
ActivateRefused ==
    /\ Activating \/ at = "act_data"
    /\ Stay
    /\ UNCHANGED <<identity, token_get, mqctx, others>>

ActivateSchema ==
    /\ Activating
    /\ kv' = kv \cup {"schema"}
    /\ erased' = FALSE /\ unremoved' = {}
    /\ Proceed("act_data")
    /\ UNCHANGED <<is_activated, schema, token_get, mqctx, others>>

ActivateData ==
    /\ at = "act_data"
    /\ kv' = kv \cup {"activate"}
    /\ Proceed("act_read")
    /\ UNCHANGED <<is_activated, schema, erased, unremoved, token_get, mqctx, others>>

\* Mutant: activated although the schema was not made.
ActivateUnread ==
    /\ at = "act_read"
    /\ binding' = "NULL"
    /\ is_activated' = TRUE
    /\ schema' \in BOOLEAN
    /\ Goto(IF schema' THEN "STARTUP_UPDATE" ELSE "RESET")
    /\ UNCHANGED <<kv, erased, unremoved, subscribed, sem, result, mqctx, others>>

\* What was stored is read back and the schema is made; either may fail.
ActivateRead ==
    /\ at = "act_read"
    /\ binding' = "NULL"
    /\ schema' \in BOOLEAN
    /\ is_activated' = schema'
    /\ Goto(IF schema' THEN "STARTUP_UPDATE" ELSE "RESET")
    /\ UNCHANGED <<kv, erased, unremoved, subscribed, sem, result, mqctx, others>>
-----------------------------------------------------------------------------
(* The MQTT session.                                                       *)

\* tuya_mqtt_init clears the context and fails or succeeds; the result is ignored.
StartupUpdate ==
    /\ In("STARTUP_UPDATE")
    /\ is_inited' \in BOOLEAN
    /\ mqtt_client' = is_inited'
    /\ is_connected' = FALSE
    /\ manual_disconnect' = is_inited'
    /\ Goto("MQTT_CONNECT_START")
    /\ UNCHANGED <<identity, token_get, others>>

\* mqtt_client_connected_on starts the upgrade check unless it runs.
OnConnected ==
    /\ is_connected' = TRUE
    /\ timer' = IF timer = "off" THEN "on" ELSE timer

\* tuya_mqtt_start
NotInited ==
    /\ In("MQTT_CONNECT_START")
    /\ ~is_inited
    /\ Stay
    /\ UNCHANGED <<identity, token_get, mqctx, others>>

Connect ==
    /\ In("MQTT_CONNECT_START")
    /\ is_inited /\ mqtt_client
    /\ manual_disconnect' = FALSE
    /\ OnConnected
    /\ Goto("MQTT_CONNECTING")
    /\ UNCHANGED <<identity, token_get, is_inited, mqtt_client, call, calls, tokens, boots>>

ConnectFails ==
    /\ In("MQTT_CONNECT_START")
    /\ is_inited /\ mqtt_client
    /\ manual_disconnect' = FALSE
    /\ Stay
    /\ UNCHANGED <<identity, token_get, is_inited, mqtt_client, is_connected, others>>

Connecting ==
    /\ In("MQTT_CONNECTING")
    /\ IF is_connected THEN Goto("MQTT_YIELD") ELSE Stay
    /\ UNCHANGED <<identity, token_get, mqctx, others>>

\* tuya_mqtt_loop does nothing without a context, or after tuya_mqtt_stop; the MQTT
\* loop is not entered that way.
Looping == In("MQTT_YIELD") /\ is_inited /\ ~manual_disconnect

YieldReconnect ==
    /\ Looping /\ ~is_connected /\ mqtt_client
    /\ OnConnected
    /\ Stay
    /\ UNCHANGED <<identity, token_get, is_inited, mqtt_client, manual_disconnect,
                   call, calls, tokens, boots>>

\* Mutant: the case ends by choosing itself as the next state.
YieldQuietAgain ==
    /\ Looping /\ mqtt_client
    /\ Goto("MQTT_YIELD")
    /\ UNCHANGED <<identity, token_get, mqctx, others>>

\* Nothing came, or the connection could not be made.
YieldQuiet ==
    /\ Looping /\ mqtt_client
    /\ Stay
    /\ UNCHANGED <<identity, token_get, mqctx, others>>

\* Mutant: a lost connection is taken for one stopped by hand.
YieldLostByHand ==
    /\ Looping /\ is_connected /\ mqtt_client
    /\ is_connected' = FALSE
    /\ manual_disconnect' = TRUE
    /\ Stay
    /\ UNCHANGED <<identity, token_get, is_inited, mqtt_client, others>>

\* mqtt_client_yield fails and disconnects.
YieldLost ==
    /\ Looping /\ is_connected /\ mqtt_client
    /\ is_connected' = FALSE
    /\ Stay
    /\ UNCHANGED <<identity, token_get, is_inited, mqtt_client, manual_disconnect, others>>

\* The cloud ends the binding: it refuses the connection (mqtt_client_unbind_on) or
\* sends PRO_GW_RESET (mqtt_service_reset_cmd_on).
Unbound ==
    /\ \/ In("MQTT_CONNECT_START") /\ is_inited /\ mqtt_client /\ manual_disconnect' = FALSE
       \/ Looping /\ mqtt_client /\ UNCHANGED manual_disconnect
    /\ Goto("RESET")
    /\ UNCHANGED <<identity, token_get, is_inited, mqtt_client, is_connected, others>>

\* tuya_mqtt_stop
StopMqtt ==
    /\ is_inited => mqtt_client
    /\ is_connected' = (is_connected /\ ~is_inited)
    /\ manual_disconnect' = (manual_disconnect \/ is_inited)

Reconnect ==
    /\ In("MQTT_RECONNECT")
    /\ StopMqtt
    /\ Goto("MQTT_CONNECT_START") \/ Goto("NETWORK_RECONNECT")
    /\ UNCHANGED <<identity, token_get, is_inited, mqtt_client, others>>

Restart ==
    /\ In("RESTART")
    /\ Goto("START")
    /\ UNCHANGED <<identity, token_get, mqctx, others>>

\* Stop and tuya_mqtt_destory, which leaves is_inited set.
Stop ==
    /\ In("STOP")
    /\ StopMqtt
    /\ mqtt_client' = FALSE
    /\ Goto("IDLE")
    /\ UNCHANGED <<identity, token_get, is_inited, others>>
-----------------------------------------------------------------------------
(* run_state_reset.                                                        *)

\* Mutant: the session is not ended first.
ResetNoStop ==
    /\ In("RESET")
    /\ mqtt_client' = FALSE
    /\ Proceed("reset_devid")
    /\ UNCHANGED <<identity, token_get, is_inited, is_connected, manual_disconnect, others>>

ResetMqtt ==
    /\ In("RESET")
    /\ IF is_activated /\ is_connected
       THEN StopMqtt
       ELSE UNCHANGED <<is_connected, manual_disconnect>>
    /\ mqtt_client' = FALSE
    /\ Proceed("reset_devid")
    /\ UNCHANGED <<identity, token_get, is_inited, others>>

\* client->activate.devid is stored; it stays in client->activate, too.  The result of
\* tal_kv_set is not looked at.
ResetDevid ==
    /\ at = "reset_devid"
    /\ kv' \in {kv, kv \cup {"devid"}}
    /\ Proceed("reset_schema")
    /\ UNCHANGED <<is_activated, schema, erased, unremoved, token_get, mqctx, others>>

\* tal_kv_del: it may fail, and nobody looks at the result.  (A key that is not there is
\* as good as removed.)
Remove(key) ==
    \/ kv' = kv \ {key} /\ unremoved' = unremoved \ {key}
    \/ key \in kv /\ kv' = kv /\ unremoved' = unremoved \cup {key}

\* tuya_iot_activated_data_remove has nothing to do ...
ResetNothing ==
    /\ at = "reset_schema"
    /\ ~is_activated
    /\ Goto("RESTART")
    /\ UNCHANGED <<identity, token_get, mqctx, others>>

\* Mutant: the schema is removed from memory only.
ResetSchemaKept ==
    /\ at = "reset_schema"
    /\ is_activated
    /\ schema' = FALSE
    /\ unremoved' = unremoved \ {"schema"}
    /\ erased' = FALSE
    /\ Proceed("reset_data")
    /\ UNCHANGED <<is_activated, kv, token_get, mqctx, others>>

\* ... or removes the schema, then the activation record.
ResetSchema ==
    /\ at = "reset_schema"
    /\ is_activated
    /\ schema' = FALSE
    /\ Remove("schema")
    /\ erased' = FALSE
    /\ Proceed("reset_data")
    /\ UNCHANGED <<is_activated, token_get, mqctx, others>>

ResetData ==
    /\ at = "reset_data"
    /\ Remove("activate")
    /\ is_activated' = FALSE
    /\ erased' = TRUE
    /\ Goto("RESTART")
    /\ UNCHANGED <<schema, token_get, mqctx, others>>
-----------------------------------------------------------------------------
(* A NULL pointer is used: the program dies.                               *)

MainUsesClient ==
    \/ In("MQTT_CONNECT_START") /\ is_inited
    \/ Looping
    \/ (In("MQTT_RECONNECT") \/ In("STOP")) /\ is_inited
    \/ In("RESET") /\ is_activated /\ is_connected /\ is_inited

Die ==
    /\ at' = "crashed"
    /\ UNCHANGED <<state, nextstate, identity, token_get, mqctx, others>>

MainDies ==
    /\ \/ MainUsesClient /\ ~mqtt_client
       \/ at = "woken" /\ result = "OK" /\ binding = "NULL"
       \/ In("ACTIVATING") /\ binding = "NULL"
    /\ Die
-----------------------------------------------------------------------------
(* The other threads.                                                      *)

Running == at # "crashed"

Begin == Running /\ call = "idle" /\ calls < MaxCalls /\ calls' = calls + 1

\* tuya_iot_start and tuya_iot_reconnect test `state' and then write.
CallChecked ==
    /\ Begin
    /\ \/ state = "IDLE" /\ call' = "START"
       \/ state = "MQTT_YIELD" /\ call' = "MQTT_RECONNECT"
    /\ UNCHANGED <<main, identity, token_get, mqctx, tokens, timer, boots>>

CallWrites ==
    /\ Running
    /\ call \in {"START", "MQTT_RECONNECT"}
    /\ nextstate' = call
    /\ call' = "idle"
    /\ UNCHANGED <<state, at, identity, token_get, mqctx, calls, tokens, timer, boots>>

\* tuya_iot_stop
CallStop ==
    /\ Begin
    /\ nextstate' = "STOP"
    /\ UNCHANGED <<state, at, identity, token_get, mqctx, call, tokens, timer, boots>>

\* tuya_iot_reset: tells the cloud if it can ...
CallReset ==
    /\ Begin
    /\ call' = IF state = "MQTT_YIELD" /\ is_activated THEN "reset_send" ELSE "reset"
    /\ UNCHANGED <<main, identity, token_get, mqctx, tokens, timer, boots>>

CallResetSend ==
    /\ Running
    /\ call = "reset_send"
    /\ mqtt_client
    /\ call' = "reset"
    /\ UNCHANGED <<main, identity, token_get, mqctx, calls, tokens, timer, boots>>

\* ... asks for the state ...
CallResetWrites ==
    /\ Running
    /\ call = "reset"
    /\ nextstate' = "RESET"
    /\ call' = "reset_post"
    /\ UNCHANGED <<state, at, identity, token_get, mqctx, calls, tokens, timer, boots>>

\* ... and ends a wait for a token.
CallResetPosts ==
    /\ Running
    /\ call = "reset_post"
    /\ IF state = "TOKEN_PENDING" THEN result' = "COM_ERROR" /\ sem' = sem + 1
                                  ELSE UNCHANGED <<result, sem>>
    /\ call' = "idle"
    /\ UNCHANGED <<main, identity, binding, subscribed, mqctx, calls, tokens, timer, boots>>

\* EVENT_LINK_ACTIVATE reaches tuya_iot_token_activate_evt, subscribed for one time.
TokenArrives ==
    /\ Running
    /\ tokens < MaxTokens
    /\ tokens' = tokens + 1
    /\ subscribed
    /\ binding # "NULL"
    /\ binding' = "token"
    /\ result' = "OK"
    /\ sem' = sem + 1
    /\ subscribed' = FALSE
    /\ UNCHANGED <<main, identity, mqctx, call, calls, timer, boots>>

\* check_auto_upgrade_timeout_on tests the connection and then uses the client.
UpgradeCheck ==
    /\ Running
    /\ timer = "on"
    /\ is_connected
    /\ timer' = "send"
    /\ UNCHANGED <<main, identity, token_get, mqctx, call, calls, tokens, boots>>

UpgradeSend ==
    /\ Running
    /\ timer = "send"
    /\ mqtt_client
    /\ timer' = "on"
    /\ UNCHANGED <<main, identity, token_get, mqctx, call, calls, tokens, boots>>

OtherDies ==
    /\ Running
    /\ \/ (timer = "send" \/ call = "reset_send") /\ ~mqtt_client
       \/ tokens < MaxTokens /\ subscribed /\ binding = "NULL"
    /\ Die

\* Everything but flash is lost; tuya_iot_init takes a stored identity over if it is all
\* there.
PowerFails ==
    /\ boots < MaxBoots
    /\ boots' = boots + 1
    /\ state' = "IDLE" /\ nextstate' = "IDLE" /\ at' = "enter"
    /\ is_activated' = Complete(kv) /\ schema' = Complete(kv)
    /\ binding' = "NULL" /\ subscribed' = FALSE /\ sem' = 0 /\ result' = "OK"
    /\ is_inited' = FALSE /\ mqtt_client' = FALSE
    /\ is_connected' = FALSE /\ manual_disconnect' = FALSE
    /\ call' = "idle" /\ calls' = 0 /\ tokens' = 0 /\ timer' = "off"
    /\ UNCHANGED <<kv, erased, unremoved>>
-----------------------------------------------------------------------------
MainStep ==
    \/ Enter \/ Idle \/ Start \/ DataLoad \/ DataLoadNoMemory
    \/ TokenPending \/ TokenWake \/ TokenGot \/ TokenFailed
    \/ NetworkUp \/ NetworkDown \/ EndpointGet \/ EndpointUpdated \/ EndpointFails
    \/ ActivateNoAnswer \/ ActivateRefused \/ ActivateSchema \/ ActivateData \/ ActivateRead
    \/ StartupUpdate \/ NotInited \/ Connect \/ ConnectFails \/ Connecting
    \/ YieldReconnect \/ YieldQuiet \/ YieldLost \/ Unbound
    \/ Reconnect \/ Restart \/ Stop
    \/ ResetMqtt \/ ResetDevid \/ ResetNothing \/ ResetSchema \/ ResetData \/ MainDies

AppStep ==
    \/ CallChecked \/ CallWrites \/ CallStop
    \/ CallReset \/ CallResetSend \/ CallResetWrites \/ CallResetPosts

Next ==
    \/ MainStep \/ AppStep \/ TokenArrives \/ UpgradeCheck \/ UpgradeSend
    \/ OtherDies \/ PowerFails

Spec == Init /\ [][Next]_vars

\* The main loop keeps calling tuya_iot_yield.  An attempt that is repeated without end
\* succeeds once: the network comes up, memory is found, the servers answer.  Storing the
\* activation data is asked for by itself, for each attempt at it begins with one, of
\* storing the schema, that did succeed.
Attempt ==
    \/ NetworkUp \/ DataLoad \/ EndpointUpdated \/ ActivateSchema
    \/ Connect \/ YieldReconnect

FairSpec ==
    /\ Spec
    /\ WF_vars(MainStep)
    /\ SF_vars(Attempt)
    /\ SF_vars(ActivateData)
-----------------------------------------------------------------------------
Places == {"enter", "body", "wait", "woken", "act_data", "act_read", "reset_devid",
           "reset_schema", "reset_data", "crashed"}

ClientTypes ==
    /\ state \in States /\ nextstate \in States /\ at \in Places
    /\ is_activated \in BOOLEAN /\ schema \in BOOLEAN
    /\ binding \in {"NULL", "empty", "token"}
    /\ subscribed \in BOOLEAN
    /\ sem \in Nat /\ result \in {"OK", "COM_ERROR"}
    /\ is_inited \in BOOLEAN /\ mqtt_client \in BOOLEAN
    /\ is_connected \in BOOLEAN /\ manual_disconnect \in BOOLEAN
    /\ kv \subseteq Keys \cup {"devid"} /\ unremoved \subseteq Keys
    /\ erased \in BOOLEAN

OtherTypes ==
    /\ call \in {"idle", "START", "MQTT_RECONNECT", "reset_send", "reset", "reset_post"}
    /\ calls \in 0 .. MaxCalls /\ tokens \in 0 .. MaxTokens
    /\ timer \in {"off", "on", "send"}
    /\ boots \in 0 .. MaxBoots

\* The type invariant: of the client structure, and of the other threads.
TypeOK == ClientTypes /\ OtherTypes

\* A device that is activated has its schema and finds its whole identity in flash when
\* the power fails now; only the reset, once it has begun to remove it, is excepted
\* (tuya_iot_init, activate_response_parse, tuya_iot_activated_data_remove).
ActivationDurable ==
    is_activated /\ at # "reset_data" /\ ~(at = "crashed" /\ state = "RESET")
        => schema /\ Complete(kv)

\* Once TUYA_EVENT_RESET_COMPLETE is announced flash holds, beside the device's name, only
\* what tal_kv_del failed to remove, and one of the two removals is enough: a boot brings
\* the old identity back only if both failed, however often the power failed before or
\* after, and whatever an earlier reset that was cut off had left.
ResetDurable ==
    erased => /\ kv \subseteq {"devid"} \cup unremoved
              /\ is_activated => unremoved = Keys

\* A session belongs to an activated device and to a client that exists: what
\* tuya_mqtt_connected tells the other threads is never left over from before a stop
\* or a reset.
ConnectedIsLive == is_connected => is_inited /\ mqtt_client /\ is_activated

\* When the application and the pairing methods have become quiet the client comes to
\* rest: idle, waiting for a token, or in the MQTT loop; unless it died or its context
\* could not be made.
Settled ==
    \/ state = "IDLE" /\ nextstate = "IDLE"
    \/ at = "wait"
    \/ state = "MQTT_YIELD" /\ nextstate = "MQTT_YIELD"
    \/ at = "crashed"
    \/ state = "MQTT_CONNECT_START" /\ ~is_inited
Settles == <>[]Settled

\* While the MQTT loop runs no request of another thread is lost: what it wrote to
\* nextstate is there when the loop's round ends, unless the cloud asks for a reset.
YieldKeepsRequests ==
    [][state = "MQTT_YIELD" /\ at = "body" /\ at' = "enter" /\ boots' = boots
           => nextstate' \in {nextstate, "RESET"}]_vars

\* A connection lost in the MQTT loop is made again (tuya_mqtt_loop).
OnlineAgain == state = "MQTT_YIELD" ~> is_connected \/ state # "MQTT_YIELD" \/ at = "crashed"
=============================================================================
