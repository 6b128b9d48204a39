---------------------------- MODULE PowerMonitor ----------------------------
(***************************************************************************)
(* The auxiliary power monitor (power_monitor.cpp): an INA226 that may be  *)
(* unplugged at any time, a power-good pin and the chip's alert pin whose  *)
(* edges an interrupt remembers, and the energy summed between readings.   *)
(* A pass takes the edges, then reads the pins and, when something is due, *)
(* the chip; edges come at any point.  One power-good pin stands for two.  *)
(***************************************************************************)
EXTENDS FiniteSets

VARIABLES
  enabled, online,   \* enabled, inaOnline
  chip,              \* the INA226: "absent", "fresh" (reset), "programmed"; its alert latch
  pins,              \* the levels: power good, alert (active low)
  pinEvents,         \* the edges the interrupts remembered
  events, passing,   \* those the running pass took
  last,              \* lastReadings: valid, good, alert
  mark,              \* lastEnergyMs is set
  owed,              \* history: edges no pass has reported yet
  gap,               \* history: something went unobserved since the last reading
  added              \* history: energy was added across such an outage

pmVars == <<enabled, online, chip, pins, pinEvents, events, passing, last, mark, owed, gap, added>>

NoReadings == [valid |-> FALSE, good |-> FALSE, alert |-> FALSE]

Init ==
  /\ enabled \in BOOLEAN /\ online = FALSE
  /\ chip = [is |-> "absent", latched |-> FALSE]
  /\ pins = [good |-> TRUE, alert |-> FALSE]
  /\ pinEvents = {} /\ events = {} /\ passing = FALSE
  /\ last = NoReadings /\ mark = FALSE /\ owed = {} /\ gap = TRUE /\ added = FALSE
-----------------------------------------------------------------------------
(* The board: power good changes, the load exceeds the limit, the loom is  *)
(* pulled or plugged.                                                      *)

\* The interrupts of an edge, and what it leaves to report, while they are attached.
Edge(kind) ==
  IF enabled THEN pinEvents' = pinEvents \union {kind} /\ owed' = owed \union {kind}
             ELSE UNCHANGED <<pinEvents, owed>>

GoodChanges ==
  /\ pins' = [pins EXCEPT !.good = ~@] /\ Edge("good")
  /\ UNCHANGED <<enabled, online, chip, events, passing, last, mark, gap, added>>

Overcurrent ==
  /\ chip.is = "programmed" /\ ~chip.latched
  /\ chip' = [chip EXCEPT !.latched = TRUE]
  /\ pins' = [pins EXCEPT !.alert = TRUE] /\ Edge("alert")
  /\ UNCHANGED <<enabled, online, events, passing, last, mark, gap, added>>

Unplugged ==
  /\ chip.is # "absent"
  /\ chip' = [is |-> "absent", latched |-> FALSE] /\ pins' = [pins EXCEPT !.alert = FALSE]
  /\ UNCHANGED <<enabled, online, pinEvents, events, passing, last, mark, owed, gap, added>>

Plugged ==
  /\ chip.is = "absent"
  /\ chip' = [is |-> "fresh", latched |-> FALSE]
  /\ UNCHANGED <<enabled, online, pins, pinEvents, events, passing, last, mark, owed, gap, added>>
-----------------------------------------------------------------------------
\* inaProgram() succeeds with a chip on the bus: it is reset, and its alert with it.
Programmed(ok) ==
  /\ ok => chip.is # "absent"
  /\ chip' = IF ok THEN [is |-> "programmed", latched |-> FALSE] ELSE chip
  /\ pins' = IF ok THEN [pins EXCEPT !.alert = FALSE] ELSE pins
  /\ online' = ok

\* powerMonitorConfigure(): start afresh; between two passes.
Configure(on) ==
  /\ ~passing
  /\ enabled' = on /\ last' = NoReadings
  /\ pinEvents' = {} /\ owed' = {}
  /\ gap' = TRUE
  /\ IF on THEN \E ok \in BOOLEAN : Programmed(ok) /\ mark' = FALSE
           ELSE online' = FALSE /\ UNCHANGED <<chip, pins, mark>>
  /\ UNCHANGED <<events, passing, added>>

\* samplePins(): take the remembered edges, with interrupts off.
TakeEvents ==
  /\ enabled /\ ~passing
  /\ passing' = TRUE /\ events' = pinEvents /\ pinEvents' = {}
  /\ UNCHANGED <<enabled, online, chip, pins, last, mark, owed, gap, added>>

\* What the pass reports: an edge it took, or a level that is not the last.
Reported ==
  events \union (IF pins.good # last.good THEN {"good"} ELSE {})

Sampled == [valid |-> last.valid, good |-> pins.good,
            alert |-> last.alert \/ pins.alert \/ "alert" \in events]

\* No answer: readings and the energy interval end here.
Lost ==
  online' = FALSE /\ last' = [Sampled EXCEPT !.valid = FALSE] /\ mark' = FALSE /\ gap' = TRUE

Offline ==
  /\ ~online
  /\ last' = [Sampled EXCEPT !.valid = FALSE] /\ mark' = FALSE /\ gap' = TRUE
  /\ \/ UNCHANGED <<chip, pins, online>>             \* no probe is due
     \/ \E ok \in BOOLEAN : Programmed(ok)           \* a probe after ProbeRetryMs
  /\ UNCHANGED added

NotDue ==
  /\ online
  /\ last' = Sampled
  /\ UNCHANGED <<online, chip, pins, mark, gap, added>>

CommsLost ==
  /\ online
  /\ Lost
  /\ UNCHANGED <<chip, pins, added>>

\* A reading; the alert register is read and its latch cleared.
Reading ==
  /\ online /\ chip.is # "absent"
  /\ last' = [valid |-> TRUE, good |-> pins.good, alert |-> chip.latched]
  /\ chip' = [chip EXCEPT !.latched = FALSE] /\ pins' = [pins EXCEPT !.alert = FALSE]
  /\ mark' = TRUE /\ gap' = FALSE /\ added' = (added \/ (mark /\ gap))
  /\ UNCHANGED online

\* mutant: the remembered edges are cleared when the pass is done with them
PassClearing ==
  /\ passing
  /\ passing' = FALSE /\ events' = {} /\ pinEvents' = {}
  /\ owed' = owed \ Reported
  /\ Offline \/ NotDue \/ CommsLost \/ Reading
  /\ UNCHANGED enabled

\* The rest of powerMonitorTask().
Pass ==
  /\ passing
  /\ passing' = FALSE /\ events' = {}
  /\ owed' = owed \ Reported
  /\ Offline \/ NotDue \/ CommsLost \/ Reading
  /\ UNCHANGED <<enabled, pinEvents>>

Next ==
  \/ GoodChanges \/ Overcurrent \/ Unplugged \/ Plugged
  \/ \E on \in BOOLEAN : Configure(on)
  \/ TakeEvents \/ Pass

Spec == Init /\ [][Next]_pmVars
-----------------------------------------------------------------------------
\* Levels, edges and readings are of their types.
TypeOK ==
  /\ enabled \in BOOLEAN /\ online \in BOOLEAN /\ passing \in BOOLEAN
  /\ chip \in [is : {"absent", "fresh", "programmed"}, latched : BOOLEAN]
  /\ pins \in [good : BOOLEAN, alert : BOOLEAN]
  /\ last \in [valid : BOOLEAN, good : BOOLEAN, alert : BOOLEAN]
  /\ pinEvents \subseteq {"good", "alert"} /\ events \subseteq {"good", "alert"}
  /\ mark \in BOOLEAN

\* An edge is reported however long the loop is away: what no pass has reported is
\* remembered, or in the hands of the running one (power_monitor.cpp 162-198).
EdgesAreNotLost == owed \subseteq pinEvents \union events

\* Energy is summed between readings of one unbroken stretch, and a reading that is
\* called valid comes from a chip that answered the last time (207-238, 286-291).
EnergyIsObserved == ~added /\ (last.valid => online)

MonitorIsHonest == EdgesAreNotLost /\ EnergyIsObserved
=============================================================================
