---------------------------- MODULE StationProofs ----------------------------
(***************************************************************************)
(* What the start of the station rests on, for every limit of attempts and *)
(* any number of failures, restarts and crashes.                           *)
(*                                                                         *)
(* The three invariants need each other and three facts more: before the   *)
(* radio is started nothing of an earlier start is left (Early), the bit   *)
(* for the connection to the broker outlives the connection only together  *)
(* with the bit that says it failed (Lost), and what the server is about   *)
(* to answer it has saved (Saved). The retry counter stays in its range    *)
(* because its limit switches the radio off.                               *)
(***************************************************************************)
EXTENDS Station, TLAPS

Early ==
    /\ pc \in {"boot", "console", "no_console", "create", "peripherals",
               "tasks", "radio"}
          => bits = {} /\ wifi = "off" /\ client = "stopped"
    /\ pc \in {"wifi", "sntp"} => client = "stopped"

Lost ==
    EVT_MQTT_CONNECTED \in bits \/ pc = "subscribe"
        => client = "connected" \/ EVT_MQTT_FAIL \in bits

Saved == server = "saved" => known

IInv == TypeOK /\ FailureExplained /\ StartedIsKnown /\ Early /\ Lost /\ Saved

(* The parts of TypeOK that are proved apart: counts, truth values, rest.  *)
Counts ==
    faults \in [wifi : 0 .. MaxWifiFailures, mqtt : 0 .. MaxMqttFailures,
                chip : 0 .. MaxChipFailures, server : 0 .. MaxServerCrashes,
                restart : 0 .. MaxRestarts]

Flags ==
    /\ subscribed \in BOOLEAN
    /\ request \in BOOLEAN /\ known \in BOOLEAN /\ answer \in BOOLEAN

Places ==
    /\ mac \in Macs
    /\ nvs \subseteq Properties
    /\ pc \in {"boot", "console", "no_console", "create", "peripherals",
               "tasks", "radio", "wifi", "sntp", "mqtt", "subscribe",
               "register", "config", "started", "failed"}
    /\ bits \subseteq EventBits
    /\ wifi \in {"off", "connecting", "associated", "up"}
    /\ retry_counter \in 0 .. WIFI_RECONNECT_ATTEMPTS + 1
    /\ client \in {"stopped", "connecting", "connected"}
    /\ outbox \in {"empty", "queued", "sent"}
    /\ server \in {"listening", "saved"}

LEMMA TypeParts == TypeOK <=> Counts /\ Flags /\ Places
  BY DEF TypeOK, Counts, Flags, Places

LEMMA InitInv == ASSUME StationAssumption, Init PROVE IInv
<1> USE DEF StationAssumption, Init, EVT_WIFI_FAIL, EVT_MQTT_CONNECTED,
            EVT_CONFIG_RECEIVED
<1>1. Counts BY DEF Counts
<1>2. Flags BY DEF Flags
<1>3. Places BY DEF Places, EventBits, Properties
<1>4. FailureExplained BY DEF FailureExplained
<1>5. StartedIsKnown BY DEF StartedIsKnown
<1>6. Early /\ Lost /\ Saved BY DEF Early, Lost, Saved
<1> QED BY <1>1, <1>2, <1>3, <1>4, <1>5, <1>6, TypeParts DEF IInv

(* The steps are proved once for each part, over all actions.              *)
USE DEF Next, vars, deviceVars, netVars, mqttVars, serverVars, Main, Boot,
        create_console, station_create, peripherals_initialize, create_tasks,
        Advance, wifi_connect, WaitWifi, Await, SyncTime, WaitMqtt, Subscribe,
        Register, WaitConfig, EraseNvs, CallFails, StaConnected, StaGotIp,
        StaDisconnected, Mqtt, MqttConnected, SendRegistration, Confirm,
        DeliverAnswer, MqttDisconnected, Server, RegisterStation,
        SendConfiguration, sendConfigurationMessage, ServerCrash, Set, Restart
USE DEF EVT_WIFI_CONNECTED, EVT_WIFI_FAIL, EVT_MQTT_CONNECTED, EVT_MQTT_FAIL,
        EVT_CONFIG_RECEIVED

(* Only faults are counted, within their bounds, and never downwards.      *)
LEMMA CountsStep ==
    ASSUME StationAssumption, Counts, [Next]_vars
    PROVE  Counts' /\ faults'.chip >= faults.chip
<1> USE DEF StationAssumption, Counts, Faulty
<1>1. CASE UNCHANGED faults
  BY <1>1
<1>2. CASE \/ Faulty("wifi", MaxWifiFailures)
           \/ Faulty("mqtt", MaxMqttFailures)
           \/ Faulty("chip", MaxChipFailures)
           \/ Faulty("server", MaxServerCrashes)
           \/ Faulty("restart", MaxRestarts)
  BY <1>2
<1> QED BY <1>1, <1>2

LEMMA FlagsStep == ASSUME Flags, [Next]_vars PROVE Flags'
  BY DEF Flags

(* The counter goes up only while the radio is not off, hence below the    *)
(* limit.                                                                  *)
LEMMA PlacesStep ==
    ASSUME StationAssumption, Places, FailureExplained, [Next]_vars
    PROVE  Places'
<1>1. retry_counter' \in 0 .. WIFI_RECONNECT_ATTEMPTS + 1
  BY DEF StationAssumption, Places, FailureExplained
<1>2. nvs' \subseteq Properties /\ bits' \subseteq EventBits
  BY DEF Places, Properties, Selected, EventBits
<1> QED BY <1>1, <1>2 DEF Places

(* Every step to "failed" has its reason: a counted call, a bit that was   *)
(* seen, a client that lost its connection and set the bit (Lost), or an   *)
(* incomplete NVS, before anything was started (Early).                    *)
LEMMA FailureStep ==
    ASSUME StationAssumption, Counts, Places, Early, Lost, FailureExplained,
           [Next]_vars
    PROVE  FailureExplained'
  BY DEF StationAssumption, Counts, Places, Early, Lost, FailureExplained,
         Faulty

(* An answer is sent only after the save, and nothing removes a station.   *)
LEMMA StartedStep ==
    ASSUME StartedIsKnown, Early, Saved, [Next]_vars PROVE StartedIsKnown'
  BY DEF StartedIsKnown, Early, Saved

(* No handler runs before the radio is started, and no answer is delivered *)
(* as nothing is subscribed.                                               *)
LEMMA EarlyStep ==
    ASSUME StartedIsKnown, Early, [Next]_vars PROVE Early'
  BY DEF StartedIsKnown, Early

(* The two bits are set in the handler that changes the connection.        *)
LEMMA LostStep ==
    ASSUME Lost, Early, Places, [Next]_vars PROVE Lost'
  BY DEF Lost, Early, Places

LEMMA SavedStep ==
    ASSUME Saved, [Next]_vars PROVE Saved'
  BY DEF Saved

HIDE DEF Next, vars

LEMMA NextInv == ASSUME StationAssumption, IInv, [Next]_vars PROVE IInv'
<1>1. Counts /\ Flags /\ Places
  BY TypeParts DEF IInv
<1>2. Counts' /\ Flags' /\ Places'
  BY <1>1, CountsStep, FlagsStep, PlacesStep DEF IInv
<1>3. TypeOK'
  BY <1>2 DEF TypeOK, Counts, Flags, Places
<1>4. FailureExplained' /\ StartedIsKnown'
  BY <1>1, FailureStep, StartedStep DEF IInv
<1>5. Early' /\ Lost' /\ Saved'
  BY <1>1, EarlyStep, LostStep, SavedStep DEF IInv
<1> QED BY <1>3, <1>4, <1>5 DEF IInv

LEMMA StationInvariant == Spec => []IInv
<1>1. Init => IInv
  BY InitInv, StationAssumption
<1>2. IInv /\ [Next]_vars => IInv'
  BY NextInv, StationAssumption
<1> QED BY <1>1, <1>2, PTL DEF Spec

(* Type correctness of the start, in particular that the retry counter     *)
(* never exceeds its limit by more than one.                               *)
THEOREM StationTyped == Spec => []TypeOK
  BY StationInvariant, PTL DEF IInv

(* A start is given up for one of the stated reasons only, and the bit of  *)
(* the radio means that it is off for good.                                *)
THEOREM FailureTheorem == Spec => []FailureExplained
  BY StationInvariant, PTL DEF IInv

(* A station that has started is in the server's repository, whatever is   *)
(* lost, sent again or crashes on the way.                                 *)
THEOREM StartedTheorem == Spec => []StartedIsKnown
  BY StationInvariant, PTL DEF IInv
=============================================================================
