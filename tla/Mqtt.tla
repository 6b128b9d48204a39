-------------------------------- MODULE Mqtt --------------------------------
(***************************************************************************)
(* The connection to the MQTT broker (mqtt.cpp, mqtt_discovery.h) with the *)
(* broker and the link as environment.  A step is one call of mqttTask()   *)
(* or mqttConfigure().  A link that breaks swallows what is written to it  *)
(* until one end notices; the broker then publishes the last will.  Time   *)
(* is counted in units of 10 s; timers saturate at the longest wait.       *)
(***************************************************************************)
EXTENDS Integers, FiniteSets

CONSTANTS Topics,      \* values of Mqtt.BaseTopic an operator may apply
          Discovery,   \* values of Mqtt.DiscoveryEnabled
          SensorCount, \* MqttSensorCount; the fault sensor comes after them
          Interval,    \* IntervalSeconds, in units
          MaxEnergy    \* bound: the meter's energy

\* What the constants must satisfy.
ConstantsOK ==
  /\ Topics # {} /\ "none" \notin Topics
  /\ Discovery # {} /\ Discovery \subseteq BOOLEAN
  /\ {SensorCount, Interval, MaxEnergy} \subseteq Nat

VARIABLES
  mqttCfg,            \* the section of config: enabled, topic, discovery
  connected, named,   \* mq.connected(); mqttAddrValid
  pub, idx,           \* discoveryPublished; discoveryIdx
  sinceAttempt, backoff, sincePublish,
  dark,               \* pwmOutputInhibited()
  energy, highWater,  \* the meter's energy; energyHighWaterMwh
  link,               \* "ok", or "broken" and not noticed by both ends
  will,               \* the broker's session: the topic of its will, or "none"
  retained,           \* what the broker keeps under each availability topic
  told,               \* the energy last published, and the highest so far
  sent, fails         \* history: configs sent in this connection; failed attempts in a row

settingVars == <<mqttCfg, dark, energy>>
deviceVars  == <<connected, named, pub, idx, highWater>>
timerVars   == <<sinceAttempt, backoff, sincePublish>>
brokerVars  == <<link, will, retained, told>>
mqVars      == <<settingVars, deviceVars, timerVars, brokerVars, sent, fails>>

LongestWait == 6   \* 60 s

Init ==
  /\ mqttCfg \in [enabled : BOOLEAN, topic : Topics, discovery : Discovery]
  /\ connected = FALSE /\ named = FALSE /\ pub = FALSE /\ idx = 0
  /\ sinceAttempt = LongestWait /\ backoff = 1 /\ sincePublish = 0
  /\ dark = TRUE /\ energy = 0 /\ highWater = 0
  /\ link = "ok" /\ will = "none" /\ retained = [t \in Topics |-> "none"]
  /\ told = [now |-> 0, peak |-> 0]
  /\ sent = {} /\ fails = 0
-----------------------------------------------------------------------------
\* What reaches the broker of a retained availability message.
Available(t, value) == retained' = IF link = "ok" THEN [retained EXCEPT ![t] = value] ELSE retained

\* mutant: nothing is published before the clean disconnect, which suppresses the will
DisconnectSilently(topic) ==
  /\ connected' = FALSE
  /\ will' = IF link = "ok" THEN "none" ELSE will
  /\ UNCHANGED <<retained, link, told>>

\* mqttConfigure(): "offline" under the topic of the settings, then a clean disconnect, which
\* makes the broker forget the will.
Disconnect(topic) ==
  /\ connected' = FALSE
  /\ will' = IF link = "ok" THEN "none" ELSE will
  /\ Available(topic, "offline")
  /\ UNCHANGED <<link, told>>

MqttConfigure(topic) ==
  /\ IF connected THEN Disconnect(topic) ELSE UNCHANGED <<connected, brokerVars>>
  /\ pub' = FALSE /\ named' = FALSE
  /\ sinceAttempt' = LongestWait
  /\ UNCHANGED <<idx, highWater, backoff, sincePublish, sent, fails>>

\* Settings that differ are applied: config holds the new section when mqttConfigure runs.
Apply(c) ==
  /\ c # mqttCfg
  /\ mqttCfg' = c
  /\ MqttConfigure(c.topic)
  /\ UNCHANGED <<dark, energy>>

Telling(e) == [now |-> e, peak |-> IF e > told.peak THEN e ELSE told.peak]

\* publishState(): the energy never goes down; "ok" is what publish() returned.
PublishState ==
  /\ highWater' = IF energy > highWater THEN energy ELSE highWater
  /\ told' \in {told, IF link = "ok" THEN Telling(highWater') ELSE told}

\* mqttTask() with MQTT switched off.
TaskDisabled ==
  /\ ~mqttCfg.enabled /\ connected
  /\ MqttConfigure(mqttCfg.topic)
  /\ UNCHANGED settingVars

\* The time for an attempt has come; discovery starts over.
AttemptDue == mqttCfg.enabled /\ ~connected /\ sinceAttempt >= backoff

\* mutant: the wait does not stop growing at 60 s but starts over
NextBackoffWraps(b) == IF b >= 3 THEN 1 ELSE b * 2

NextBackoff(b) == IF b >= 3 THEN LongestWait ELSE b * 2

\* mqttConnect() fails: no name (DNS only while outputs are inhibited), outputs live, or the
\* broker does not answer in 2.5 s.
TaskConnectFails ==
  /\ AttemptDue
  /\ sinceAttempt' = 0 /\ backoff' = NextBackoff(backoff)
  /\ pub' = FALSE /\ idx' = 0
  /\ named' \in IF dark THEN BOOLEAN ELSE {named}
  /\ named => named'
  /\ fails' = IF fails < 3 THEN fails + 1 ELSE fails
  /\ UNCHANGED <<settingVars, connected, highWater, sincePublish, brokerVars, sent>>

\* mutant: an attempt that succeeds keeps the backoff of the failures before it
BackoffKept == /\ backoff' = backoff

BackoffReset == /\ backoff' = 1

\* mqttConnect() succeeds: the broker ends an earlier session of the same client, with its
\* will, takes the new will and "online".  Without discovery the state follows at once.
TaskConnects ==
  /\ AttemptDue /\ dark
  /\ sinceAttempt' = 0 /\ BackoffReset /\ fails' = 0
  /\ connected' = TRUE /\ named' = TRUE /\ link' = "ok"
  /\ LET closed == IF will # "none" THEN [retained EXCEPT ![will] = "offline"] ELSE retained
     IN retained' = [closed EXCEPT ![mqttCfg.topic] = "online"]
  /\ will' = mqttCfg.topic
  /\ idx' = 0 /\ pub' = FALSE /\ sent' = {}
  /\ IF mqttCfg.discovery
     THEN UNCHANGED <<highWater, told, sincePublish>>
     ELSE /\ highWater' = IF energy > highWater THEN energy ELSE highWater
          /\ told' \in {told, Telling(highWater')} /\ sincePublish' = 0
  /\ UNCHANGED settingVars

Maintained == mqttCfg.enabled /\ connected

\* mutant: a config that could not be published is not tried again
DiscoverSensorSkipping ==
  /\ Maintained /\ ~pub /\ mqttCfg.discovery /\ idx < SensorCount
  /\ \E ok \in BOOLEAN : /\ idx' = idx + 1
                         /\ sent' = IF ok THEN sent \cup {idx} ELSE sent
  /\ UNCHANGED <<settingVars, connected, named, pub, highWater, timerVars, brokerVars, fails>>

\* publishDiscoveryStep(): one retained config a pass; one that failed is tried again.
DiscoverSensor ==
  /\ Maintained /\ ~pub /\ mqttCfg.discovery /\ idx < SensorCount
  /\ idx' = idx + 1 /\ sent' = sent \cup {idx}
  /\ UNCHANGED <<settingVars, connected, named, pub, highWater, timerVars, brokerVars, fails>>

\* The last config; the first state follows immediately.
DiscoverFault ==
  /\ Maintained /\ ~pub /\ mqttCfg.discovery /\ idx = SensorCount
  /\ pub' = TRUE /\ sent' = sent \cup {idx}
  /\ PublishState /\ sincePublish' = 0
  /\ UNCHANGED <<settingVars, connected, named, idx, sinceAttempt, backoff, link, will,
                 retained, fails>>

\* The state every Interval; a pass that also publishes a config is two steps.
PublishDue ==
  /\ Maintained /\ Interval # 0 /\ sincePublish >= Interval
  /\ sincePublish' = 0
  /\ PublishState
  /\ UNCHANGED <<settingVars, connected, named, pub, idx, sinceAttempt, backoff, link, will,
                 retained, sent, fails>>
-----------------------------------------------------------------------------
(* The environment. *)

Saturated(n, most) == IF n < most THEN n + 1 ELSE n

Tick ==
  /\ sinceAttempt' = Saturated(sinceAttempt, LongestWait)
  /\ sincePublish' = Saturated(sincePublish, Interval)
  /\ <<sinceAttempt', sincePublish'>> # <<sinceAttempt, sincePublish>>
  /\ UNCHANGED <<settingVars, deviceVars, backoff, brokerVars, sent, fails>>

\* The network fails between the two.
LinkBreaks ==
  /\ link = "ok" /\ connected
  /\ link' = "broken"
  /\ UNCHANGED <<settingVars, deviceVars, timerVars, will, retained, told, sent, fails>>

\* The device notices: connected() is false from now on.
LinkNoticed ==
  /\ link = "broken" /\ connected
  /\ connected' = FALSE
  /\ UNCHANGED <<settingVars, named, pub, idx, highWater, timerVars, brokerVars, sent, fails>>

\* The broker's keep-alive expires: the will is published.
BrokerDrops ==
  /\ link = "broken" /\ will # "none"
  /\ retained' = [retained EXCEPT ![will] = "offline"] /\ will' = "none"
  /\ UNCHANGED <<settingVars, deviceVars, timerVars, link, told, sent, fails>>

\* Outputs are released or inhibited, and the meter counts (reverse flow counts down).
GateChanges == dark' = ~dark /\ UNCHANGED <<mqttCfg, energy, deviceVars, timerVars, brokerVars,
                                            sent, fails>>
MeterMoves ==
  /\ energy' \in 0..MaxEnergy /\ energy' \in {energy - 1, energy + 1}
  /\ UNCHANGED <<mqttCfg, dark, deviceVars, timerVars, brokerVars, sent, fails>>
-----------------------------------------------------------------------------
Next ==
  \/ \E c \in [enabled : BOOLEAN, topic : Topics, discovery : Discovery] : Apply(c)
  \/ TaskDisabled \/ TaskConnectFails \/ TaskConnects
  \/ DiscoverSensor \/ DiscoverFault \/ PublishDue
  \/ Tick \/ LinkBreaks \/ LinkNoticed \/ BrokerDrops \/ GateChanges \/ MeterMoves

Spec == Init /\ [][Next]_mqVars
-----------------------------------------------------------------------------
TypeOK ==
  /\ mqttCfg \in [enabled : BOOLEAN, topic : Topics, discovery : Discovery]
  /\ {connected, named, pub, dark} \subseteq BOOLEAN
  /\ idx \in 0..SensorCount /\ sent \subseteq 0..SensorCount
  /\ sinceAttempt \in 0..LongestWait /\ sincePublish \in 0..Interval
  /\ backoff \in {1, 2, 4, 6} /\ fails \in 0..3
  /\ {energy, highWater, told.now, told.peak} \subseteq 0..MaxEnergy
  /\ link \in {"ok", "broken"} /\ will \in Topics \cup {"none"}
  /\ retained \in [Topics -> {"none", "online", "offline"}]

\* The device is shown as online only under a topic whose last will a session of the broker
\* still holds: whoever is gone, by a clean disconnect or a dead link, is shown as gone at the
\* latest when the broker notices (mqtt.cpp:64, "publish the will manually").
OnlineHasAWill == \A t \in Topics : retained[t] = "online" => will = t

\* Discovery is finished only when every config of this connection was accepted, whatever
\* reconnects, new settings and refused publishes came between.
DiscoveryIsWhole == connected /\ pub => sent = 0..SensorCount

\* Energy as the subscribers see it never goes down, though the meter's does (mqtt.cpp:150).
EnergyNeverDips == told.now = told.peak

\* What the broker was told is sound: presence, discovery and energy.
BrokerViewIsSound == OnlineHasAWill /\ DiscoveryIsWhole /\ EnergyNeverDips

\* Waits are 10, 20, 40 and then 60 s, by the failures since the last success, whatever
\* settings were applied or switched off meanwhile (mqtt.cpp:203).
BackoffFollowsFailures == backoff = CASE fails = 0 -> 1 [] fails = 1 -> 2 [] fails = 2 -> 4
                                      [] OTHER -> LongestWait
=============================================================================
