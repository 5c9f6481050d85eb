------------------------------- MODULE Broker -------------------------------
(***************************************************************************)
(* The client of the MQTT broker (mqtt.c) and the topics the broker        *)
(* forwards to it.  The session is clean: what the client has subscribed   *)
(* to is forgotten with the link, and app_connect_callback subscribes to   *)
(* nothing.  The result of mosquitto_subscribe is not looked at.           *)
(***************************************************************************)

CONSTANT Devices

VARIABLES
    link,       \* what the client knows of its link; "dead": not yet noticed
    packets,    \* SUBSCRIBEs on their way to the broker
    subs,       \* the app2dev topics the broker forwards
    missed      \* devices whose last subscription was refused or forgotten

broker == <<link, packets, subs, missed>>

Links == {"none", "connecting", "up", "dead", "down"}

BrokerInit == link = "none" /\ packets = {} /\ subs = {} /\ missed = {}

Forgets == missed' = missed \cup packets \cup subs /\ packets' = {} /\ subs' = {}

(* Without a client, env.mosq is NULL for the whole life of the process.   *)
mqtt_login ==
    /\ link' \in {"none", "connecting"}
    /\ UNCHANGED <<packets, subs, missed>>

(* CONNACK: accepted, or refused and the broker closes the link.           *)
app_connect_callback ==
    /\ link = "connecting"
    /\ \/ link' = "up" /\ UNCHANGED <<packets, subs, missed>>
       \/ link' = "down" /\ Forgets

(* mosquitto_subscribe: refused without a client (MOSQ_ERR_INVAL) and      *)
(* without a link (MOSQ_ERR_NO_CONN); behind a dead one the packet is lost.*)
SubscribeOnce(d) ==                                              \* mutant
    IF d \in subs \cup missed THEN UNCHANGED broker
    ELSE packets' = packets \cup {d} /\ UNCHANGED <<link, subs, missed>>
NotSubscribed(d) == UNCHANGED broker                             \* mutant
app_subscribe(d) ==
    /\ IF link \in {"connecting", "up"}
       THEN packets' = packets \cup {d} /\ missed' = missed \ {d}
       ELSE missed' = missed \cup {d} /\ UNCHANGED packets
    /\ UNCHANGED <<link, subs>>

app_subscribe_callback(d) ==
    /\ link = "up" /\ d \in packets
    /\ packets' = packets \ {d}
    /\ subs' = subs \cup {d}
    /\ UNCHANGED <<link, missed>>

(* The link breaks, or the broker ends the session.                        *)
Break ==
    /\ link \in {"connecting", "up"}
    /\ link' = "dead"
    /\ Forgets

app_disconnect_callback ==
    /\ link = "dead"
    /\ link' = "down"
    /\ UNCHANGED <<packets, subs, missed>>

(* The thread of libmosquitto tries again, every 10 to 120 seconds.        *)
Reconnect ==
    /\ link = "down"
    /\ link' = "connecting"
    /\ UNCHANGED <<packets, subs, missed>>

(* env_cleanup: mosquitto_disconnect and mosquitto_destroy.                *)
mosquitto_destroy == link' = "none" /\ Forgets

ThreadM ==
    \/ app_connect_callback
    \/ \E d \in Devices : app_subscribe_callback(d)
    \/ Break
    \/ app_disconnect_callback
    \/ Reconnect

BrokerTypeOK ==
    /\ link \in Links
    /\ packets \subseteq Devices /\ subs \subseteq Devices /\ missed \subseteq Devices
    /\ link # "up" => subs = {}

=============================================================================
