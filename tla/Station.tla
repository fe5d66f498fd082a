------------------------------- MODULE Station -------------------------------
(***************************************************************************)
(* From power-on to operation: app_main and station_start of the firmware, *)
(* the handlers of the Wi-Fi and MQTT events they wait for, and the server *)
(* that answers the registration (MosquittoRegisterListener).              *)
(*                                                                         *)
(* station_start only sees an event group: it waits for a "connected" bit, *)
(* which a successful wait clears, and looks at the "fail" bit afterwards, *)
(* which nothing clears. The access point, the driver of the radio, the    *)
(* MQTT client and the broker are modelled from how the code uses them.    *)
(***************************************************************************)
EXTENDS Naturals

CONSTANTS
    WIFI_RECONNECT_ATTEMPTS,
    Macs,                \* forms of MAC the station may register with
    MaxWifiFailures,     \* bound: disconnections of the radio
    MaxMqttFailures,     \* bound: attempts or connections lost to the broker
    MaxChipFailures,     \* bound: failing calls of the chip's own drivers
    MaxRestarts,         \* bound: restarts of the station
    MaxServerCrashes     \* bound: crashes and failed answers of the server

(* The firmware's own form is XX-XX-XX-XX-XX-XX, "hyphens" (station.c:97). *)
(* "digits" is a decimal number, as the server and its tests take it.      *)
MacForms == {"hyphens", "digits"}

ASSUME StationAssumption ==
    /\ WIFI_RECONNECT_ATTEMPTS \in Nat
    /\ Macs \subseteq MacForms
    /\ MaxWifiFailures \in Nat
    /\ MaxMqttFailures \in Nat
    /\ MaxChipFailures \in Nat
    /\ MaxRestarts \in Nat
    /\ MaxServerCrashes \in Nat

VARIABLES
    mac,              \* the form of the station's MAC, constant
    nvs,              \* the properties stored in the NVS
    pc,               \* where app_main and station_start are
    bits,             \* the event group
    wifi,             \* the radio
    retry_counter,    \* static of wifi_event_handler
    client,           \* the MQTT client
    subscribed,       \* the broker has the subscription of this connection
    outbox,           \* the registration in the client's outbox
    request,          \* the registration is with the server
    known,            \* the station is in the server's repository
    server,           \* where the register listener is
    answer,           \* the configuration is with the broker
    faults            \* counts behind the bounds

deviceVars == <<mac, nvs>>
netVars    == <<wifi, retry_counter>>
mqttVars   == <<client, subscribed, outbox>>
serverVars == <<request, known, server, answer>>
vars == <<deviceVars, pc, bits, netVars, mqttVars, serverVars, faults>>

EVT_WIFI_CONNECTED == "EVT_WIFI_CONNECTED"
EVT_WIFI_FAIL == "EVT_WIFI_FAIL"
EVT_MQTT_CONNECTED == "EVT_MQTT_CONNECTED"
EVT_MQTT_FAIL == "EVT_MQTT_FAIL"
EVT_CONFIG_RECEIVED == "EVT_CONFIG_RECEIVED"

EventBits == {EVT_WIFI_CONNECTED, EVT_WIFI_FAIL, EVT_MQTT_CONNECTED,
              EVT_MQTT_FAIL, EVT_CONFIG_RECEIVED}

Properties == {"mqtt_port", "mqtt_host", "wifi_ssid", "wifi_password"}

Faulty(kind, bound) ==
    /\ faults[kind] < bound
    /\ faults' = [faults EXCEPT ![kind] = @ + 1]

-----------------------------------------------------------------------------
(* app_main, station_create and station_start. *)

(* read_configuration gives up at the first property it cannot read.       *)
read_configuration_ok == Properties \subseteq nvs

Advance(from, to) ==
    /\ pc = from
    /\ pc' = to
    /\ UNCHANGED <<deviceVars, bits, netVars, mqttVars, serverVars, faults>>

(* nvs_flash_init; an NVS without a free page is erased, which loses the   *)
(* properties. Another error aborts, and the chip starts again.            *)
Boot == Advance("boot", "console")

EraseNvs ==
    /\ pc = "boot"
    /\ Faulty("chip", MaxChipFailures)
    /\ nvs' = {}
    /\ pc' = "console"
    /\ UNCHANGED <<mac, bits, netVars, mqttVars, serverVars>>

create_console == Advance("console", "create")

HasConsole == pc \notin {"boot", "console", "no_console"}

(* station_create fails when a property is missing in the NVS.             *)
station_create ==
    Advance("create", IF read_configuration_ok THEN "peripherals" ELSE "failed")

peripherals_initialize == Advance("peripherals", "tasks")

create_tasks == Advance("tasks", "radio")

(* The radio starts and its first event makes it try to connect.           *)
wifi_connect ==
    /\ pc = "radio"
    /\ pc' = "wifi"
    /\ wifi' = "connecting"
    /\ UNCHANGED <<deviceVars, bits, retry_counter, mqttVars, serverVars,
                   faults>>

(* A call fails for want of memory or an error of a driver: app_main ends, *)
(* except in wifi_connect, where ESP_ERROR_CHECK restarts the chip.        *)
CallFails ==
    /\ Faulty("chip", MaxChipFailures)
    /\ \/ pc = "console" /\ pc' = "no_console"
       \/ pc \in {"create", "peripherals", "tasks", "sntp", "register"}
             /\ pc' = "failed"
       \/ pc = "radio" /\ pc' = "boot"
    /\ UNCHANGED <<deviceVars, bits, netVars, mqttVars, serverVars>>

(* Mutant: one timeout is a failure.                                       *)
Await_once(connected, fail, next) ==
    /\ bits' = bits \ {connected}
    /\ pc' = IF connected \in bits THEN next ELSE "failed"

(* xEventGroupWaitBits for one bit, cleared on success; after a timeout    *)
(* the caller goes on only if the fail bit is there.                       *)
Await(connected, fail, next) ==
    /\ bits \cap {connected, fail} # {}
    /\ bits' = bits \ {connected}
    /\ pc' = IF fail \in bits THEN "failed" ELSE next

WaitWifi ==
    /\ pc = "wifi"
    /\ Await(EVT_WIFI_CONNECTED, EVT_WIFI_FAIL, "sntp")
    /\ UNCHANGED <<deviceVars, netVars, mqttVars, serverVars, faults>>

(* The wait for the time is repeated without a limit.                      *)
SyncTime ==
    /\ pc = "sntp"
    /\ wifi = "up"
    /\ client' = "connecting"
    /\ pc' = "mqtt"
    /\ UNCHANGED <<deviceVars, bits, netVars, subscribed, outbox, serverVars,
                   faults>>

WaitMqtt ==
    /\ pc = "mqtt"
    /\ Await(EVT_MQTT_CONNECTED, EVT_MQTT_FAIL, "subscribe")
    /\ UNCHANGED <<deviceVars, netVars, mqttVars, serverVars, faults>>

(* A client that is not connected any more refuses to subscribe.           *)
Subscribe ==
    /\ pc = "subscribe"
    /\ IF client = "connected" THEN subscribed' = TRUE /\ pc' = "register"
                               ELSE pc' = "failed" /\ UNCHANGED subscribed
    /\ UNCHANGED <<deviceVars, bits, netVars, client, outbox, serverVars,
                   faults>>

(* Published with QoS 2: stored even if the connection is lost by now.     *)
Register ==
    /\ pc = "register"
    /\ outbox' = "queued"
    /\ pc' = "config"
    /\ UNCHANGED <<deviceVars, bits, netVars, client, subscribed, serverVars,
                   faults>>

(* Mutant: the wait for the configuration is not repeated.                 *)
WaitConfig_once ==
    /\ pc = "config"
    /\ pc' = "started"
    /\ UNCHANGED <<deviceVars, bits, netVars, mqttVars, serverVars, faults>>

WaitConfig ==
    /\ pc = "config"
    /\ EVT_CONFIG_RECEIVED \in bits
    /\ pc' = "started"
    /\ UNCHANGED <<deviceVars, bits, netVars, mqttVars, serverVars, faults>>

Main ==
    \/ Boot \/ create_console \/ station_create
    \/ peripherals_initialize \/ create_tasks \/ wifi_connect
    \/ WaitWifi \/ SyncTime \/ WaitMqtt
    \/ Subscribe \/ Register \/ WaitConfig

-----------------------------------------------------------------------------
(* wifi_event_handler, one action for each event. *)

StaConnected ==
    /\ wifi = "connecting"
    /\ wifi' = "associated"
    /\ retry_counter' = 0
    /\ UNCHANGED <<deviceVars, pc, bits, mqttVars, serverVars, faults>>

StaGotIp ==
    /\ wifi = "associated"
    /\ wifi' = "up"
    /\ bits' = bits \cup {EVT_WIFI_CONNECTED}
    /\ UNCHANGED <<deviceVars, pc, retry_counter, mqttVars, serverVars,
                   faults>>

(* Mutant: the radio tries again although the limit is reached.            *)
StaDisconnected_always ==
    /\ wifi \in {"connecting", "associated", "up"}
    /\ Faulty("wifi", MaxWifiFailures)
    /\ retry_counter' = retry_counter + 1
    /\ bits' = IF retry_counter' > WIFI_RECONNECT_ATTEMPTS
               THEN bits \cup {EVT_WIFI_FAIL} ELSE bits
    /\ wifi' = "connecting"
    /\ UNCHANGED <<deviceVars, pc, mqttVars, serverVars>>

StaDisconnected ==
    /\ wifi \in {"connecting", "associated", "up"}
    /\ Faulty("wifi", MaxWifiFailures)
    /\ retry_counter' = retry_counter + 1
    /\ IF retry_counter' > WIFI_RECONNECT_ATTEMPTS
       THEN bits' = bits \cup {EVT_WIFI_FAIL} /\ wifi' = "off"
       ELSE wifi' = "connecting" /\ UNCHANGED bits
    /\ UNCHANGED <<deviceVars, pc, mqttVars, serverVars>>

-----------------------------------------------------------------------------
(* mqtt_event_handler. The client reconnects by itself, with a clean       *)
(* session: the broker then has no subscription of the station.            *)

MqttConnected ==
    /\ client = "connecting"
    /\ wifi = "up"
    /\ client' = "connected"
    /\ bits' = bits \cup {EVT_MQTT_CONNECTED}
    /\ UNCHANGED <<deviceVars, pc, netVars, subscribed, outbox, serverVars,
                   faults>>

MqttDisconnected ==
    /\ client \in {"connecting", "connected"}
    /\ \/ wifi # "up" /\ UNCHANGED faults
       \/ Faulty("mqtt", MaxMqttFailures)
    /\ client' = "connecting"
    /\ subscribed' = FALSE
    /\ outbox' = IF outbox = "sent" THEN "queued" ELSE outbox
    /\ bits' = bits \cup {EVT_MQTT_FAIL}
    /\ UNCHANGED <<deviceVars, pc, netVars, serverVars>>

(* The registration leaves the outbox when the broker has confirmed it; a  *)
(* connection lost in between sends it again.                              *)
SendRegistration ==
    /\ outbox = "queued"
    /\ client = "connected"
    /\ outbox' = "sent"
    /\ request' = TRUE
    /\ UNCHANGED <<deviceVars, pc, bits, netVars, client, subscribed, known,
                   server, answer, faults>>

Confirm ==
    /\ outbox = "sent"
    /\ outbox' = "empty"
    /\ UNCHANGED <<deviceVars, pc, bits, netVars, client, subscribed,
                   serverVars, faults>>

(* The configuration goes to whoever is subscribed now, and is not kept.   *)
DeliverAnswer ==
    /\ answer
    /\ answer' = FALSE
    /\ bits' = IF subscribed THEN bits \cup {EVT_CONFIG_RECEIVED} ELSE bits
    /\ UNCHANGED <<deviceVars, pc, netVars, mqttVars, request, known, server,
                   faults>>

Mqtt == MqttConnected \/ SendRegistration \/ Confirm \/ DeliverAnswer

-----------------------------------------------------------------------------
(* The server's listener: a station that is not in the repository is saved *)
(* and then sent its first configuration. Nothing is sent to a station     *)
(* that is known. Long.parseLong throws on a MAC in the firmware's form:   *)
(* such a station is neither saved nor answered.                           *)

(* Mutant: the answer of the repository is read the wrong way round.       *)
NewStation_inverted == mac = "digits" /\ known

NewStation == mac = "digits" /\ ~known

RegisterStation ==
    /\ server = "listening"
    /\ request
    /\ request' = FALSE
    /\ IF NewStation THEN known' = TRUE /\ server' = "saved"
                     ELSE UNCHANGED <<known, server>>
    /\ UNCHANGED <<deviceVars, pc, bits, netVars, mqttVars, answer, faults>>

(* A publication that throws is only logged.                               *)
sendConfigurationMessage ==
    \/ answer' = TRUE /\ UNCHANGED faults
    \/ Faulty("server", MaxServerCrashes) /\ UNCHANGED answer

SendConfiguration ==
    /\ server = "saved"
    /\ sendConfigurationMessage
    /\ server' = "listening"
    /\ UNCHANGED <<deviceVars, pc, bits, netVars, mqttVars, request, known>>

(* Between the save and the answer, or with a request it has not read yet. *)
ServerCrash ==
    /\ server = "saved" \/ request
    /\ Faulty("server", MaxServerCrashes)
    /\ server' = "listening"
    /\ request' = FALSE
    /\ UNCHANGED <<deviceVars, pc, bits, netVars, mqttVars, known, answer>>

Server == RegisterStation \/ SendConfiguration

-----------------------------------------------------------------------------
(* The console. The index of the property stays 0 for a name that is none  *)
(* of the four, so that its value is written as the port.                  *)
Selected(name) == IF name \in Properties THEN name ELSE "mqtt_port"

(* "set" with a value in the property's limits; others change nothing. It  *)
(* takes effect with the next start.                                       *)
Set ==
    /\ HasConsole
    /\ \E name \in Properties \cup {"another"} : nvs' = nvs \cup {Selected(name)}
    /\ UNCHANGED <<mac, pc, bits, netVars, mqttVars, serverVars, faults>>

(* "restart", like a power cycle, loses everything but the NVS.            *)
Restart ==
    /\ Faulty("restart", MaxRestarts)
    /\ pc' = "boot"
    /\ bits' = {}
    /\ wifi' = "off" /\ retry_counter' = 0
    /\ client' = "stopped" /\ subscribed' = FALSE /\ outbox' = "empty"
    /\ UNCHANGED <<deviceVars, serverVars>>

-----------------------------------------------------------------------------
Init ==
    /\ mac \in Macs
    /\ nvs \in SUBSET Properties
    /\ pc = "boot"
    /\ bits = {}
    /\ wifi = "off" /\ retry_counter = 0
    /\ client = "stopped" /\ subscribed = FALSE /\ outbox = "empty"
    /\ request = FALSE /\ known = FALSE /\ server = "listening" /\ answer = FALSE
    /\ faults = [wifi |-> 0, mqtt |-> 0, chip |-> 0, server |-> 0, restart |-> 0]

Next ==
    \/ Main \/ EraseNvs \/ CallFails
    \/ StaConnected \/ StaGotIp \/ StaDisconnected
    \/ Mqtt \/ MqttDisconnected
    \/ Server \/ ServerCrash
    \/ Set \/ Restart

Spec == Init /\ [][Next]_vars

(* Tasks and event loops run; the radio and the client, while they try to  *)
(* connect, succeed unless they fail, which the bounds allow a number of   *)
(* times; the broker and the server are up. Nobody must set or restart.    *)
FairSpec ==
    /\ Spec
    /\ WF_vars(Main) /\ WF_vars(Mqtt) /\ WF_vars(Server)
    /\ WF_vars(StaConnected \/ StaGotIp)

-----------------------------------------------------------------------------
(* The stages of app_main and station_start, the event group and the retry *)
(* counter, which exceeds its limit by one at most.                        *)
TypeOK ==
    /\ mac \in Macs
    /\ nvs \subseteq Properties
    /\ pc \in {"boot", "console", "no_console", "create", "peripherals",
               "tasks", "radio", "wifi", "sntp", "mqtt", "subscribe",
               "register", "config", "started", "failed"}
    /\ bits \subseteq EventBits
    /\ wifi \in {"off", "connecting", "associated", "up"}
    /\ retry_counter \in 0 .. WIFI_RECONNECT_ATTEMPTS + 1
    /\ client \in {"stopped", "connecting", "connected"}
    /\ subscribed \in BOOLEAN
    /\ outbox \in {"empty", "queued", "sent"}
    /\ request \in BOOLEAN /\ known \in BOOLEAN /\ answer \in BOOLEAN
    /\ server \in {"listening", "saved"}
    /\ faults \in [wifi : 0 .. MaxWifiFailures, mqtt : 0 .. MaxMqttFailures,
                   chip : 0 .. MaxChipFailures, server : 0 .. MaxServerCrashes,
                   restart : 0 .. MaxRestarts]

(* The start is given up for a reason only: a call of the chip failed, the *)
(* NVS was incomplete (and no radio was started), the radio failed more    *)
(* often in a row than the limit allows, or a connection to the broker     *)
(* failed. The bit of the radio says that it is off for good.              *)
FailureExplained ==
    /\ pc = "failed" =>
          \/ faults.chip > 0
          \/ bits \cap {EVT_WIFI_FAIL, EVT_MQTT_FAIL} # {}
          \/ wifi = "off" /\ client = "stopped"
    /\ EVT_WIFI_FAIL \in bits <=> retry_counter > WIFI_RECONNECT_ATTEMPTS
    /\ EVT_WIFI_FAIL \in bits => wifi = "off"

(* A subscription belongs to a live connection, and a station that has     *)
(* started was answered by a server that has it in its repository, over    *)
(* restarts, repeated registrations and crashes of the server.             *)
StartedIsKnown ==
    /\ subscribed => client = "connected"
    /\ EVT_CONFIG_RECEIVED \in bits \/ pc = "started" \/ answer => known

(* A provisioned station whose connections and calls do not fail hands its *)
(* registration over and waits for its first configuration, unless it or   *)
(* the server restarts. With a MAC the server can parse it gets it and     *)
(* starts. With the MAC the firmware itself sends (station.c:97) the       *)
(* server's parser throws (MosquittoRegisterProcessorImpl.java:25), and    *)
(* the station waits for good and is never known.                          *)
StartsUnlessFailed ==
    ( /\ read_configuration_ok
      /\ [](/\ bits \cap {EVT_WIFI_FAIL, EVT_MQTT_FAIL} = {}
           /\ faults.chip = 0 /\ faults.restart = 0 /\ faults.server = 0) )
        => /\ mac = "digits" => <>(pc = "started")
           /\ mac = "hyphens" => <>[](pc = "config" /\ ~known)

(* diagram_stanow.uxf leaves the state of registration when "Serwer        *)
(* odpowiedział na wiadomość rejestracyjną": every registration a station  *)
(* with a working connection makes is answered.                            *)
RegistrationAnswered ==
    pc = "config" ~> pc # "config" \/ EVT_MQTT_FAIL \in bits
=============================================================================
