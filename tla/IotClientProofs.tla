-------------------------- MODULE IotClientProofs ---------------------------
(***************************************************************************)
(* The cloud client's safety, for any number of calls, activation events   *)
(* and power failures.                                                     *)
(***************************************************************************)
EXTENDS IotClient, TLAPS

\* What the places of the main thread say of the identity and of the MQTT client: the
\* facts that make the three invariants inductive.
Stages ==
    /\ at \in {"act_data", "act_read"} =>
           state = "ACTIVATING" /\ ~is_activated /\ ~erased /\ "schema" \in kv
    /\ at = "act_read" => Complete(kv)
    /\ at \in {"reset_devid", "reset_schema", "reset_data"} => state = "RESET" /\ ~mqtt_client
    /\ at = "reset_data" => ~erased /\ ("schema" \in kv => "schema" \in unremoved)
    /\ In("ACTIVATING") \/ nextstate = "ACTIVATING" => ~is_activated
    /\ \A s \in {"ENDPOINT_GET", "STARTUP_UPDATE"} :
           In(s) \/ nextstate = s => is_activated
    /\ mqtt_client => is_inited /\ is_activated

IInv == TypeOK /\ ActivationDurable /\ ResetDurable /\ ConnectedIsLive /\ Stages

\* A new device satisfies the invariant.
LEMMA InitInv == Init => IInv
  <1> SUFFICES ASSUME Init PROVE IInv
    OBVIOUS
  <1> USE DEF Init
  <1>0. ClientTypes
    BY DEF ClientTypes, States, Places
  <1>1. OtherTypes
    BY BoundsNatural DEF OtherTypes
  <1>2. ActivationDurable /\ ResetDurable /\ ConnectedIsLive
    BY DEF ActivationDurable, ResetDurable, ConnectedIsLive
  <1>3. Stages
    BY DEF Stages, In
  <1> QED
    BY <1>0, <1>1, <1>2, <1>3 DEF IInv, TypeOK

\* The steps from boot to activation, or to the session.
LEMMA BootInv ==
    ASSUME IInv, Enter \/ Idle \/ Start \/ DataLoad \/ DataLoadNoMemory \/ TokenPending
           \/ TokenWake \/ TokenGot \/ TokenFailed \/ NetworkUp \/ NetworkDown \/
           EndpointGet \/ EndpointUpdated \/ EndpointFails \/ Restart
    PROVE  IInv'
  <1> USE BoundsNatural DEF IInv, TypeOK, ClientTypes, OtherTypes, States, Places, Keys,
          ActivationDurable, ResetDurable, ConnectedIsLive, Stages, In, Complete, Goto, Stay,
          Proceed, main, identity, token_get, mqctx, others
  <1>1. CASE Enter
    BY <1>1 DEF Enter
  <1>2. CASE Idle
    BY <1>2 DEF Idle
  <1>3. CASE Start
    BY <1>3 DEF Start
  <1>4. CASE DataLoad
    BY <1>4 DEF DataLoad
  <1>5. CASE DataLoadNoMemory
    BY <1>5 DEF DataLoadNoMemory
  <1>6. CASE TokenPending
    BY <1>6 DEF TokenPending
  <1>7. CASE TokenWake
    BY <1>7 DEF TokenWake
  <1>8. CASE TokenGot
    BY <1>8 DEF TokenGot
  <1>9. CASE TokenFailed
    BY <1>9 DEF TokenFailed
  <1>10. CASE NetworkUp
    BY <1>10 DEF NetworkUp
  <1>11. CASE NetworkDown
    BY <1>11 DEF NetworkDown
  <1>12. CASE EndpointGet
    BY <1>12 DEF EndpointGet
  <1>13. CASE EndpointUpdated
    BY <1>13 DEF EndpointUpdated
  <1>14. CASE EndpointFails
    BY <1>14 DEF EndpointFails
  <1>15. CASE Restart
    BY <1>15 DEF Restart
  <1> QED
    BY <1>1, <1>2, <1>3, <1>4, <1>5, <1>6, <1>7, <1>8, <1>9, <1>10, <1>11, <1>12, <1>13,
       <1>14, <1>15

\* Activation stores the schema, then the record, then reads both.
LEMMA ActivationInv ==
    ASSUME IInv, ActivateNoAnswer \/ ActivateRefused \/ ActivateSchema \/ ActivateData
           \/ ActivateRead
    PROVE  IInv'
  <1> USE BoundsNatural DEF IInv, TypeOK, ClientTypes, OtherTypes, States, Places, Keys,
          ActivationDurable, ResetDurable, ConnectedIsLive, Stages, In, Complete, Goto, Stay,
          Proceed, main, identity, token_get, mqctx, others, Activating
  <1>1. CASE ActivateNoAnswer
    BY <1>1 DEF ActivateNoAnswer
  <1>2. CASE ActivateRefused
    BY <1>2 DEF ActivateRefused
  <1>3. CASE ActivateSchema
    <2> USE <1>3 DEF ActivateSchema
    <2>0. kv' \subseteq Keys \cup {"devid"} /\ unremoved' \subseteq Keys
      BY ONLY ClientTypes, ActivateSchema DEF ClientTypes, ActivateSchema, Keys
    <2>1. ClientTypes'
      <3>1. at' \in Places /\ UNCHANGED <<state, nextstate>>
        BY ONLY ActivateSchema DEF ActivateSchema, Proceed, Places
      <3>2. schema' \in BOOLEAN /\ erased' \in BOOLEAN
        BY ONLY ClientTypes, ActivateSchema DEF ClientTypes, ActivateSchema
      <3>3. UNCHANGED <<is_activated, binding, subscribed, sem, result>>
        BY ONLY ActivateSchema DEF ActivateSchema, token_get
      <3>4. UNCHANGED mqctx
        BY ONLY ActivateSchema DEF ActivateSchema
      <3> QED
        BY ONLY ClientTypes, <3>1, <3>2, <3>3, <3>4, <2>0 DEF ClientTypes, mqctx
    <2>2. OtherTypes'
      OBVIOUS
    <2>3. ActivationDurable'
      OBVIOUS
    <2>4. ResetDurable'
      OBVIOUS
    <2>5. ConnectedIsLive'
      OBVIOUS
    <2>6. Stages'
      OBVIOUS
    <2> QED
      BY ONLY <2>1, <2>2, <2>3, <2>4, <2>5, <2>6 DEF IInv, TypeOK
  <1>4. CASE ActivateData
    <2> USE <1>4 DEF ActivateData
    <2>1. ClientTypes'
      OBVIOUS
    <2>2. OtherTypes'
      OBVIOUS
    <2>3. ActivationDurable'
      OBVIOUS
    <2>4. ResetDurable'
      OBVIOUS
    <2>5. ConnectedIsLive'
      OBVIOUS
    <2>6. Stages'
      OBVIOUS
    <2> QED
      BY ONLY <2>1, <2>2, <2>3, <2>4, <2>5, <2>6 DEF IInv, TypeOK
  <1>5. CASE ActivateRead
    BY <1>5 DEF ActivateRead
  <1> QED
    BY <1>1, <1>2, <1>3, <1>4, <1>5

\* The MQTT session.
LEMMA SessionInv ==
    ASSUME IInv, StartupUpdate \/ NotInited \/ Connect \/ ConnectFails \/ Connecting \/
           YieldReconnect \/ YieldQuiet \/ YieldLost \/ Unbound \/ Reconnect \/
           Stop
    PROVE  IInv'
  <1> USE BoundsNatural DEF IInv, TypeOK, ClientTypes, OtherTypes, States, Places, Keys,
          ActivationDurable, ResetDurable, ConnectedIsLive, Stages, In, Complete, Goto, Stay,
          Proceed, main, identity, token_get, mqctx, others, Looping, OnConnected, StopMqtt
  <1>1. CASE StartupUpdate
    <2> USE <1>1 DEF StartupUpdate
    <2>1. ClientTypes'
      OBVIOUS
    <2>2. OtherTypes'
      OBVIOUS
    <2>3. ActivationDurable'
      OBVIOUS
    <2>4. ResetDurable'
      OBVIOUS
    <2>5. ConnectedIsLive'
      OBVIOUS
    <2>6. Stages'
      OBVIOUS
    <2> QED
      BY ONLY <2>1, <2>2, <2>3, <2>4, <2>5, <2>6 DEF IInv, TypeOK
  <1>2. CASE NotInited
    BY <1>2 DEF NotInited
  <1>3. CASE Connect
    <2> USE <1>3 DEF Connect
    <2>1. ClientTypes'
      OBVIOUS
    <2>2. OtherTypes'
      OBVIOUS
    <2>3. ActivationDurable'
      OBVIOUS
    <2>4. ResetDurable'
      OBVIOUS
    <2>5. ConnectedIsLive'
      OBVIOUS
    <2>6. Stages'
      OBVIOUS
    <2> QED
      BY ONLY <2>1, <2>2, <2>3, <2>4, <2>5, <2>6 DEF IInv, TypeOK
  <1>4. CASE ConnectFails
    <2> USE <1>4 DEF ConnectFails
    <2>1. ClientTypes'
      <3>1. at' \in Places /\ manual_disconnect' \in BOOLEAN
        BY ONLY ConnectFails DEF ConnectFails, Stay, Places
      <3>2. UNCHANGED <<state, nextstate, is_inited, mqtt_client, is_connected>>
        BY ONLY ConnectFails DEF ConnectFails, Stay
      <3>3. UNCHANGED <<is_activated, schema, kv, erased, unremoved>>
        BY ONLY ConnectFails DEF ConnectFails, identity
      <3>4. UNCHANGED <<binding, subscribed, sem, result>>
        BY ONLY ConnectFails DEF ConnectFails, token_get
      <3> QED
        BY ONLY ClientTypes, <3>1, <3>2, <3>3, <3>4 DEF ClientTypes
    <2>2. OtherTypes'
      OBVIOUS
    <2>3. ActivationDurable'
      OBVIOUS
    <2>4. ResetDurable'
      OBVIOUS
    <2>5. ConnectedIsLive'
      OBVIOUS
    <2>6. Stages'
      OBVIOUS
    <2> QED
      BY ONLY <2>1, <2>2, <2>3, <2>4, <2>5, <2>6 DEF IInv, TypeOK
  <1>5. CASE Connecting
    BY <1>5 DEF Connecting
  <1>6. CASE YieldReconnect
    BY <1>6 DEF YieldReconnect
  <1>7. CASE YieldQuiet
    BY <1>7 DEF YieldQuiet
  <1>8. CASE YieldLost
    <2> USE <1>8 DEF YieldLost
    <2>1. ClientTypes'
      OBVIOUS
    <2>2. OtherTypes'
      OBVIOUS
    <2>3. ActivationDurable'
      OBVIOUS
    <2>4. ResetDurable'
      OBVIOUS
    <2>5. ConnectedIsLive'
      OBVIOUS
    <2>6. Stages'
      OBVIOUS
    <2> QED
      BY ONLY <2>1, <2>2, <2>3, <2>4, <2>5, <2>6 DEF IInv, TypeOK
  <1>9. CASE Unbound
    <2> USE <1>9 DEF Unbound
    <2>1. ClientTypes'
      OBVIOUS
    <2>2. OtherTypes'
      OBVIOUS
    <2>3. ActivationDurable'
      OBVIOUS
    <2>4. ResetDurable'
      OBVIOUS
    <2>5. ConnectedIsLive'
      OBVIOUS
    <2>6. Stages'
      OBVIOUS
    <2> QED
      BY ONLY <2>1, <2>2, <2>3, <2>4, <2>5, <2>6 DEF IInv, TypeOK
  <1>10. CASE Reconnect
    BY <1>10 DEF Reconnect
  <1>11. CASE Stop
    <2> USE <1>11 DEF Stop
    <2>1. ClientTypes'
      OBVIOUS
    <2>2. OtherTypes'
      OBVIOUS
    <2>3. ActivationDurable'
      OBVIOUS
    <2>4. ResetDurable'
      OBVIOUS
    <2>5. ConnectedIsLive'
      OBVIOUS
    <2>6. Stages'
      OBVIOUS
    <2> QED
      BY ONLY <2>1, <2>2, <2>3, <2>4, <2>5, <2>6 DEF IInv, TypeOK
  <1> QED
    BY <1>1, <1>2, <1>3, <1>4, <1>5, <1>6, <1>7, <1>8, <1>9, <1>10, <1>11

\* The reset, and the main thread's end.
LEMMA ResetInv ==
    ASSUME IInv, ResetMqtt \/ ResetDevid \/ ResetNothing \/ ResetSchema \/ ResetData \/ MainDies
    PROVE  IInv'
  <1> USE BoundsNatural DEF IInv, TypeOK, ClientTypes, OtherTypes, States, Places, Keys,
          ActivationDurable, ResetDurable, ConnectedIsLive, Stages, In, Complete, Goto, Stay,
          Proceed, main, identity, token_get, mqctx, others, StopMqtt, Die, MainUsesClient,
          Remove
  <1>1. CASE ResetMqtt
    <2> USE <1>1 DEF ResetMqtt
    <2>0. is_connected' \in BOOLEAN /\ manual_disconnect' \in BOOLEAN
      BY ONLY ClientTypes, ResetMqtt DEF ClientTypes, ResetMqtt, StopMqtt
    <2>1. ClientTypes'
      <3>1. at' \in Places /\ UNCHANGED <<state, nextstate>>
        BY ONLY ResetMqtt DEF ResetMqtt, Proceed, Places
      <3>2. mqtt_client' \in BOOLEAN /\ UNCHANGED <<identity, token_get, is_inited>>
        BY ONLY ResetMqtt DEF ResetMqtt
      <3> QED
        BY ONLY ClientTypes, <3>1, <3>2, <2>0 DEF ClientTypes, identity, token_get
    <2>2. OtherTypes'
      OBVIOUS
    <2>3. ActivationDurable'
      OBVIOUS
    <2>4. ResetDurable'
      OBVIOUS
    <2>5. ConnectedIsLive'
      OBVIOUS
    <2>6. Stages'
      OBVIOUS
    <2> QED
      BY ONLY <2>1, <2>2, <2>3, <2>4, <2>5, <2>6 DEF IInv, TypeOK
  <1>2. CASE ResetNothing
    BY <1>2 DEF ResetNothing
  <1>3. CASE ResetSchema
    <2> USE <1>3 DEF ResetSchema
    <2>0. kv' \subseteq Keys \cup {"devid"} /\ unremoved' \subseteq Keys
      BY ONLY ClientTypes, ResetSchema DEF ClientTypes, ResetSchema, Keys, Remove
    <2>1. ClientTypes'
      <3>1. at' \in Places /\ UNCHANGED <<state, nextstate>>
        BY ONLY ResetSchema DEF ResetSchema, Proceed, Places
      <3>2. schema' \in BOOLEAN /\ erased' \in BOOLEAN
        BY ONLY ClientTypes, ResetSchema DEF ClientTypes, ResetSchema
      <3>3. UNCHANGED <<is_activated, binding, subscribed, sem, result>>
        BY ONLY ResetSchema DEF ResetSchema, token_get
      <3>4. UNCHANGED mqctx
        BY ONLY ResetSchema DEF ResetSchema
      <3> QED
        BY ONLY ClientTypes, <3>1, <3>2, <3>3, <3>4, <2>0 DEF ClientTypes, mqctx
    <2>2. OtherTypes'
      OBVIOUS
    <2>3. ActivationDurable'
      OBVIOUS
    <2>4. ResetDurable'
      OBVIOUS
    <2>5. ConnectedIsLive'
      OBVIOUS
    <2>6. Stages'
      OBVIOUS
    <2> QED
      BY ONLY <2>1, <2>2, <2>3, <2>4, <2>5, <2>6 DEF IInv, TypeOK
  <1>4. CASE ResetData
    <2> USE <1>4 DEF ResetData
    <2>1. ClientTypes'
      OBVIOUS
    <2>2. OtherTypes'
      OBVIOUS
    <2>3. ActivationDurable'
      OBVIOUS
    <2>4. ResetDurable'
      <3>1. "schema" \in kv => "schema" \in unremoved
        BY DEF Stages
      <3>2. kv \subseteq {"schema", "activate", "devid"}
        BY DEF ClientTypes, Keys
      <3>3. \/ kv' = kv \ {"activate"} /\ unremoved' = unremoved \ {"activate"}
            \/ kv' = kv /\ unremoved' = unremoved \cup {"activate"}
        BY ONLY ResetData DEF ResetData, Remove
      <3>4. kv' \subseteq {"devid"} \cup unremoved'
        <4>1. CASE kv' = kv \ {"activate"} /\ unremoved' = unremoved \ {"activate"}
          BY ONLY <3>1, <3>2, <4>1
        <4>2. CASE kv' = kv /\ unremoved' = unremoved \cup {"activate"}
          BY ONLY <3>1, <3>2, <4>2
        <4> QED
          BY ONLY <3>3, <4>1, <4>2
      <3>5. is_activated' = FALSE
        BY ONLY ResetData DEF ResetData
      <3> QED
        BY ONLY <3>4, <3>5 DEF ResetDurable
    <2>5. ConnectedIsLive'
      OBVIOUS
    <2>6. Stages'
      OBVIOUS
    <2> QED
      BY ONLY <2>1, <2>2, <2>3, <2>4, <2>5, <2>6 DEF IInv, TypeOK
  <1>5. CASE MainDies
    BY <1>5 DEF MainDies
  <1>6. CASE ResetDevid
    <2> USE <1>6 DEF ResetDevid
    <2>1. ClientTypes'
      OBVIOUS
    <2>2. OtherTypes'
      OBVIOUS
    <2>3. ActivationDurable'
      OBVIOUS
    <2>4. ResetDurable'
      OBVIOUS
    <2>5. ConnectedIsLive'
      OBVIOUS
    <2>6. Stages'
      OBVIOUS
    <2> QED
      BY ONLY <2>1, <2>2, <2>3, <2>4, <2>5, <2>6 DEF IInv, TypeOK
  <1> QED
    BY <1>1, <1>2, <1>3, <1>4, <1>5, <1>6

\* The application, the pairing methods, the upgrade check and the power.
LEMMA OthersInv ==
    ASSUME IInv, CallChecked \/ CallWrites \/ CallStop \/ CallReset \/ CallResetSend \/
           CallResetWrites \/ CallResetPosts \/ TokenArrives \/ UpgradeCheck \/
           UpgradeSend \/ OtherDies \/ PowerFails
    PROVE  IInv'
  <1> USE BoundsNatural DEF IInv, TypeOK, ClientTypes, OtherTypes, States, Places, Keys,
          ActivationDurable, ResetDurable, ConnectedIsLive, Stages, In, Complete, Goto, Stay,
          Proceed, main, identity, token_get, mqctx, others, Begin, Running, Die
  <1>1. CASE CallChecked
    BY <1>1 DEF CallChecked
  <1>2. CASE CallWrites
    BY <1>2 DEF CallWrites
  <1>3. CASE CallStop
    BY <1>3 DEF CallStop
  <1>4. CASE CallReset
    BY <1>4 DEF CallReset
  <1>5. CASE CallResetSend
    BY <1>5 DEF CallResetSend
  <1>6. CASE CallResetWrites
    BY <1>6 DEF CallResetWrites
  <1>7. CASE CallResetPosts
    BY <1>7 DEF CallResetPosts
  <1>8. CASE TokenArrives
    <2> USE <1>8 DEF TokenArrives
    <2>1. ClientTypes'
      <3>1. UNCHANGED <<main, identity, mqctx>>
        BY ONLY TokenArrives DEF TokenArrives
      <3>2. /\ binding' \in {"NULL", "empty", "token"}
            /\ result' \in {"OK", "COM_ERROR"}
            /\ subscribed' \in BOOLEAN
        BY ONLY TokenArrives DEF TokenArrives
      <3>3. sem' \in Nat
        BY ONLY ClientTypes, TokenArrives DEF ClientTypes, TokenArrives
      <3> QED
        BY ONLY ClientTypes, <3>1, <3>2, <3>3 DEF ClientTypes, main, identity, mqctx
    <2>2. OtherTypes'
      OBVIOUS
    <2>3. ActivationDurable'
      OBVIOUS
    <2>4. ResetDurable'
      OBVIOUS
    <2>5. ConnectedIsLive'
      OBVIOUS
    <2>6. Stages'
      OBVIOUS
    <2> QED
      BY ONLY <2>1, <2>2, <2>3, <2>4, <2>5, <2>6 DEF IInv, TypeOK
  <1>9. CASE UpgradeCheck
    BY <1>9 DEF UpgradeCheck
  <1>10. CASE UpgradeSend
    BY <1>10 DEF UpgradeSend
  <1>11. CASE OtherDies
    BY <1>11 DEF OtherDies
  <1>12. CASE PowerFails
    <2> USE <1>12 DEF PowerFails
    <2>1. ClientTypes'
      OBVIOUS
    <2>2. OtherTypes'
      OBVIOUS
    <2>3. ActivationDurable'
      OBVIOUS
    <2>4. ResetDurable'
      OBVIOUS
    <2>5. ConnectedIsLive'
      OBVIOUS
    <2>6. Stages'
      OBVIOUS
    <2> QED
      BY ONLY <2>1, <2>2, <2>3, <2>4, <2>5, <2>6 DEF IInv, TypeOK
  <1> QED
    BY <1>1, <1>2, <1>3, <1>4, <1>5, <1>6, <1>7, <1>8, <1>9, <1>10, <1>11, <1>12

\* A step that changes nothing keeps the invariant.
LEMMA StutterInv == ASSUME IInv, UNCHANGED vars PROVE IInv'
  BY DEF IInv, TypeOK, ClientTypes, OtherTypes, ActivationDurable, ResetDurable,
     ConnectedIsLive, Stages, In, Complete, vars, main, identity, token_get, mqctx, others

\* The invariant holds whatever the application, the pairing methods, the timer thread
\* and the power supply do.
THEOREM Invariance == Spec => []IInv
  <1>1. IInv /\ [Next]_vars => IInv'
    BY BootInv, ActivationInv, SessionInv, ResetInv, OthersInv, StutterInv
       DEF Next, MainStep, AppStep
  <1> QED
    BY InitInv, <1>1, PTL DEF Spec

\* Every variable of the client keeps its type.
THEOREM TypeCorrect == Spec => []TypeOK
  <1>1. IInv => TypeOK
    BY DEF IInv
  <1> QED
    BY Invariance, <1>1, PTL

\* An activated device has its schema and its whole identity in flash, until the reset
\* begins to remove it.
THEOREM ActivationIsDurable == Spec => []ActivationDurable
  <1>1. IInv => ActivationDurable
    BY DEF IInv
  <1> QED
    BY Invariance, <1>1, PTL

\* After RESET_COMPLETE flash holds nothing but the device's name and what could not be
\* removed, and a boot finds the old identity only if neither record could be.
THEOREM ResetIsDurable == Spec => []ResetDurable
  <1>1. IInv => ResetDurable
    BY DEF IInv
  <1> QED
    BY Invariance, <1>1, PTL

\* A connected session belongs to an activated device and an existing client.
THEOREM SessionIsLive == Spec => []ConnectedIsLive
  <1>1. IInv => ConnectedIsLive
    BY DEF IInv
  <1> QED
    BY Invariance, <1>1, PTL

\* A round of the MQTT loop leaves what other threads wrote to nextstate, unless the
\* cloud asks for a reset.
THEOREM LoopKeepsRequests == Spec => YieldKeepsRequests
  <1> DEFINE Kept == state = "MQTT_YIELD" /\ at = "body" /\ at' = "enter" /\ boots' = boots
                         => nextstate' \in {nextstate, "RESET"}
  <1>1. MainStep => Kept
    <2> SUFFICES ASSUME MainStep, state = "MQTT_YIELD", at = "body", at' = "enter"
                 PROVE  nextstate' \in {nextstate, "RESET"}
      OBVIOUS
    <2> USE DEF In, Goto, Stay, Proceed
    <2>1. CASE YieldReconnect \/ YieldQuiet \/ YieldLost
      BY <2>1 DEF YieldReconnect, YieldQuiet, YieldLost
    <2>2. CASE Unbound
      BY <2>2 DEF Unbound
    <2> QED
      BY <2>1, <2>2 DEF MainStep, Enter, Idle, Start, DataLoad, DataLoadNoMemory,
         TokenPending, TokenWake, TokenGot, TokenFailed, NetworkUp, NetworkDown,
         EndpointGet, EndpointUpdated, EndpointFails, ActivateNoAnswer, ActivateRefused,
         ActivateSchema, ActivateData, ActivateRead, Activating, StartupUpdate, NotInited,
         Connect, ConnectFails, Connecting, Reconnect, Restart, Stop, ResetMqtt,
         ResetDevid, ResetNothing, ResetSchema, ResetData, MainDies, Die
  <1>2. AppStep \/ TokenArrives \/ UpgradeCheck \/ UpgradeSend \/ OtherDies => Kept
    BY DEF AppStep, CallChecked, CallWrites, CallStop, CallReset, CallResetSend,
       CallResetWrites, CallResetPosts, TokenArrives, UpgradeCheck, UpgradeSend, OtherDies,
       Die, main
  <1>3. PowerFails /\ TypeOK => Kept
    BY DEF PowerFails, TypeOK, OtherTypes
  <1>4. [Next]_vars /\ TypeOK => [Kept]_vars
    BY <1>1, <1>2, <1>3 DEF Next
  <1> QED
    BY TypeCorrect, <1>4, PTL DEF Spec, YieldKeepsRequests
=============================================================================
