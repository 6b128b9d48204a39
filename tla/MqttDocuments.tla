---------------------------- MODULE MqttDocuments ----------------------------
(***************************************************************************)
(* What the device publishes (mqtt_discovery.h): the topics, one retained  *)
(* discovery config for each entity, and the state document that all of    *)
(* them read.  A topic is a sequence of its levels; of a number only its   *)
(* presence is kept.                                                       *)
(***************************************************************************)
EXTENDS Naturals, Sequences, FiniteSets

\* mqttStateTopic(), mqttAvailabilityTopic(), mqttDiscoveryTopic()
StateTopic(base, node) == base \o <<node, "state">>
AvailabilityTopic(base, node) == base \o <<node, "availability">>
DiscoveryTopic(prefix, component, node, object) == prefix \o <<component, node, object, "config">>

Entity(object, class, counts, key) ==
  [object |-> object, class |-> class, counts |-> counts, key |-> key]
Shown(object, class, key) == Entity(object, class, "measurement", key)

\* MqttSensors: object, device class, state class, key.
Sensors == <<
  Shown("power", "power", "power_w"), Shown("vrms", "voltage", "vrms_v"),
  Shown("irms", "current", "irms_a"), Shown("pf", "power_factor", "pf"),
  Entity("energy", "energy", "total_increasing", "energy_wh"),
  Shown("frequency", "frequency", "freq_hz"), Shown("index", "none", "index"),
  Shown("hot", "temperature", "hot_c"), Shown("cold", "temperature", "cold_c"),
  Shown("die", "temperature", "die_c"), Shown("derate", "none", "derate_pct"),
  Entity("pll", "none", "none", "pll"),
  Shown("aux_power", "power", "aux_power_w"), Shown("aux_voltage", "voltage", "aux_voltage_v"),
  Shown("aux_current", "current", "aux_current_a"),
  Entity("aux_energy", "energy", "total_increasing", "aux_energy_wh") >>

\* mqttBuildSensorDiscovery(), mqttBuildFaultDiscovery()
SensorConfig(s, base, node) ==
  [id |-> <<node, s.object>>, key |-> s.key, absent |-> "None", class |-> s.class,
   counts |-> s.counts, state |-> StateTopic(base, node),
   availability |-> AvailabilityTopic(base, node)]
FaultConfig(base, node) ==
  [id |-> <<node, "fault">>, key |-> "fault", absent |-> "OFF", class |-> "problem",
   counts |-> "none", state |-> StateTopic(base, node),
   availability |-> AvailabilityTopic(base, node)]

\* What publishDiscovery() sends on each topic.
Retained(prefix, base, node) ==
  {[topic |-> DiscoveryTopic(prefix, "sensor", node, Sensors[i].object),
    config |-> SensorConfig(Sensors[i], base, node)] : i \in DOMAIN Sensors}
  \union {[topic |-> DiscoveryTopic(prefix, "binary_sensor", node, "fault"),
           config |-> FaultConfig(base, node)]}

\* mqttBuildState(): the keys there are when the meter, the probes and the monitor have, or
\* have not, a reading.
Readings == [meter : BOOLEAN, hot : BOOLEAN, cold : BOOLEAN, die : BOOLEAN, aux : BOOLEAN]
StateKeys(v) ==
  {"freq_hz", "index", "derate_pct", "fault", "pll"}
  \union (IF v.meter THEN {"power_w", "vrms_v", "irms_a", "pf", "energy_wh"} ELSE {})
  \union (IF v.hot THEN {"hot_c"} ELSE {}) \union (IF v.cold THEN {"cold_c"} ELSE {})
  \union (IF v.die THEN {"die_c"} ELSE {})
  \union (IF v.aux THEN {"aux_power_w", "aux_voltage_v", "aux_current_a", "aux_energy_wh",
                         "aux_alert"} ELSE {})
-----------------------------------------------------------------------------
\* What a subscriber shows for an entity whose config it retained, from one state document.
Rendered(c, v) == IF c.key \in StateKeys(v) THEN "value" ELSE c.absent

\* Every entity ever announced can show a value and shows "None" for a reading that is away,
\* never an old one; identities and topics are distinct, and distinct from those of a second
\* device under the same broker; and no key of the document but the alert of the monitor lacks
\* an entity (mqtt_discovery.h 8-18, 33-55, 151-181).
EntitiesAreServed(v) ==
  LET mine == Retained(<<"homeassistant">>, <<"teg">>, "n1")
      other == Retained(<<"homeassistant">>, <<"teg">>, "n2")
      all == mine \union other
      full == [meter |-> TRUE, hot |-> TRUE, cold |-> TRUE, die |-> TRUE, aux |-> TRUE]
  IN /\ Cardinality(all) = 2 * (Len(Sensors) + 1)
     /\ Cardinality({r.topic : r \in all}) = Cardinality(all)
     /\ Cardinality({r.config.id : r \in all}) = Cardinality(all)
     /\ StateKeys(v) \ {r.config.key : r \in mine} \subseteq {"aux_alert"}
     /\ \A r \in mine :
          /\ Rendered(r.config, full) = "value" /\ Rendered(r.config, v) \in {"value", "None"}
          /\ r.config.state \notin {o.config.state : o \in other}
          /\ r.config.availability \notin {r.config.state}
                                            \union {o.config.availability : o \in other}
          /\ r.config.class = "energy" <=> r.config.counts = "total_increasing"
=============================================================================
