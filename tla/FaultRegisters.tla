--------------------------- MODULE FaultRegisters ---------------------------
(***************************************************************************)
(* The registers of the current limit (acmp.cpp, acmp_math.h): one         *)
(* comparator, fanned out by two selectors to fault 0 of the first two PWM *)
(* modules, whose other faults and whose filter belong to others.  Between *)
(* any two steps of an arming the comparator may rise or fall and another  *)
(* fault may latch its flag; a selector may stop obeying.  What the output *)
(* gate does with a trip is OutputGate's.                                  *)
(***************************************************************************)
EXTENDS Integers, FiniteSets

CONSTANTS
  Modes,        \* settings of CurrentLimit: "off", "latched", "cycle", "incapable" (the pin)
  Thresholds,   \* ThresholdMillivolts that pass validation
  MaxTrips      \* bound: trips counted

ConstantsOK ==
  /\ Modes \subseteq {"off", "latched", "cycle", "incapable"}
  /\ Thresholds \subseteq 100..3300 /\ MaxTrips \in Nat

VARIABLES
  mode, wanted,        \* config.CurrentLimit: the mode, ThresholdMillivolts
  pc,                  \* where acmpConfigure(), acmpClearLatch() or acmpCbcTick() is
  stuck,               \* selectors that no longer move
  foreign,             \* a filter set up, or fault 0 mapped, by somebody else
  sel,                 \* XBARA1: "low" or "cmp", by module
  stretch, map,        \* FFILT0[GSTR]; DISMAP0 of the targeted submodules, fault 0
  control, recovery,   \* FCTRL0 of fault 0; FSTS0[FFULL, FHALF]
  flag, other,         \* FSTS0[FFLAG]: fault 0, another fault
  active, threshold,   \* activeCmp, actualThresholdMv
  source,              \* the comparator's output when it is on
  armed, ready, irq,   \* vLatchedArmed or vCbcEnabled, vProtectionReady, the fault interrupt
  tripped,             \* vFaultTripped, with the outputs masked
  trips, snap,         \* vCbcTrips; the flags acmpCbcTick() has read
  uncounted, raised    \* history: flags of fault 0 set and not counted; other flags set

config == <<mode, wanted>>
bits == <<stretch, map, control, recovery>>
frVars == <<config, pc, stuck, foreign, sel, bits, flag, other, active, threshold, source,
            armed, ready, irq, tripped, trips, snap, uncounted, raised>>

Modules == {1, 2}
IrqOwner == 2
-----------------------------------------------------------------------------
\* mutant: rounded down instead of to the nearest
DacCodeFloored(mv) == LET code == (mv * 64) \div 3300 - 1
                      IN IF code < 0 THEN 0 ELSE IF code > 63 THEN 63 ELSE code

\* acmpThresholdToDacCode(), acmpDacCodeToMv(): a 6-bit DAC on 3300 mV.
DacCode(mv) == LET code == (mv * 64 + 1650) \div 3300 - 1
               IN IF code < 0 THEN 0 ELSE IF code > 63 THEN 63 ELSE code
DacMv(code) == ((code + 1) * 3300) \div 64

\* acmpFault0Control()
FaultControl(c, cycle, owner) ==
  (c \ {"FIE", "FSAFE", "FAUTO"}) \union {"FLVL"}
    \union IF cycle THEN {"FAUTO"} ELSE {"FSAFE"} \union IF owner THEN {"FIE"} ELSE {}

RecoveryBits(cycle) == IF cycle THEN {"FULL", "HALF"} ELSE {"FULL"}

\* mutant: FSTS0 is written back as it was read, which clears every flag that is set
WriteFstsPlainly(ms, bitsOf) ==
  /\ recovery' = [m \in Modules |-> IF m \in ms THEN bitsOf ELSE recovery[m]]
  /\ flag' = [m \in Modules |-> m \notin ms /\ flag[m]]
  /\ other' = [m \in Modules |-> m \notin ms /\ other[m]]

\* writeFsts() with the flag of fault 0, which is cleared by writing 1.
WriteFsts(ms, bitsOf) ==
  /\ recovery' = [m \in Modules |-> IF m \in ms THEN bitsOf ELSE recovery[m]]
  /\ flag' = [m \in Modules |-> m \notin ms /\ flag[m]]
  /\ UNCHANGED other

\* connectXbarVerified(): the selector reads back what was written, or it does not.
Connected(m, input) == IF m \in stuck THEN sel[m] ELSE input

\* mutant: parking gives up at the first selector that does not obey
ParkInTurn == [m \in Modules |-> IF 1 \in stuck THEN sel[m] ELSE Connected(m, "low")]

\* parkFaultRoutes(): both, whatever becomes of the first.
Parked == [m \in Modules |-> Connected(m, "low")]

\* prepareParkedFaultControls()
ParkedControl(now) == [m \in Modules |-> (now[m] \union {"FLVL"}) \ {"FIE"}]

Disarmed == armed' = "no" /\ ready' = FALSE /\ irq' = FALSE /\ active' = FALSE

Init ==
  /\ mode = "off" /\ wanted \in Thresholds /\ pc = "boot"
  /\ stuck = {} /\ foreign \in [filter : SUBSET Modules, map : BOOLEAN]
  /\ sel = [m \in Modules |-> "low"] /\ stretch = [m \in Modules |-> FALSE]
  /\ map = [m \in Modules |-> "none"] /\ control = [m \in Modules |-> {"FLVL"}]
  /\ recovery = [m \in Modules |-> {}]
  /\ flag = [m \in Modules |-> FALSE] /\ other = [m \in Modules |-> FALSE]
  /\ active = FALSE /\ threshold = 0 /\ source = FALSE
  /\ armed = "no" /\ ready = FALSE /\ irq = FALSE /\ tripped = FALSE
  /\ trips = 0 /\ snap = {}
  /\ uncounted = [m \in Modules |-> FALSE] /\ raised = [m \in Modules |-> FALSE]

\* The hardware between two steps.  A flag is set by the edge at the fault input.
SetFlags(ms) ==
  /\ flag' = [m \in Modules |-> flag[m] \/ m \in ms]
  /\ uncounted' = [m \in Modules |-> uncounted[m] \/ (m \in ms /\ ~flag[m])]

SourceMoves ==
  /\ active
  /\ source' = ~source
  /\ SetFlags(IF source THEN {} ELSE {m \in Modules : sel[m] = "cmp"})
  /\ UNCHANGED <<config, pc, stuck, foreign, sel, bits, other, active, threshold, armed, ready,
                 irq, tripped, trips, snap, raised>>

OtherFault(m) ==
  /\ ~other[m] /\ other' = [other EXCEPT ![m] = TRUE] /\ raised' = [raised EXCEPT ![m] = TRUE]
  /\ UNCHANGED <<config, pc, stuck, foreign, sel, bits, flag, active, threshold, source, armed,
                 ready, irq, tripped, trips, snap, uncounted>>

Sticks(m) ==
  /\ stuck = {} /\ stuck' = {m}
  /\ UNCHANGED <<config, pc, foreign, sel, bits, flag, other, active, threshold, source, armed,
                 ready, irq, tripped, trips, snap, uncounted, raised>>
-----------------------------------------------------------------------------
\* failCurrentLimitArm(): everything off and parked, the outputs masked.
FailArm(now) ==
  /\ Disarmed /\ source' = FALSE
  /\ control' = ParkedControl(now) /\ sel' = Parked
  /\ tripped' = TRUE /\ pc' = "idle"

\* acmpConfigure(), teardown: both selectors are parked and stale flags cleared.
TearDown(m, mv) ==
  /\ pc \in {"boot", "idle"}
  /\ mode' = m /\ wanted' = mv
  /\ Disarmed /\ source' = FALSE
  /\ control' = ParkedControl(control) /\ sel' = Parked
  /\ WriteFsts(Modules, {"FULL"})
  /\ uncounted' = [k \in Modules |-> FALSE]
  /\ pc' = "parked"
  /\ UNCHANGED <<stuck, foreign, stretch, map, threshold, tripped, trips, snap, raised>>

IsParked == \A m \in Modules : sel[m] = "low" /\ "FIE" \notin control[m]

\* Nothing can be armed: a selector was not parked, or the pin reaches no comparator.
CannotArm ==
  /\ pc = "parked" /\ (IsParked => mode = "incapable")
  /\ FailArm(control)
  /\ UNCHANGED <<config, stuck, foreign, stretch, map, recovery, flag, other, threshold, trips,
                 snap, uncounted, raised>>

NoLimit ==
  /\ pc = "parked" /\ IsParked /\ mode = "off"
  /\ ready' = TRUE /\ pc' = "idle"
  /\ UNCHANGED <<config, stuck, foreign, sel, bits, flag, other, active, threshold, source, armed,
                 irq, tripped, trips, snap, uncounted, raised>>

\* configureFaultTarget() of both modules: a filter of somebody else is left alone, and so
\* is a submodule that is not ours but listens to fault 0.
Ours(m) == m \notin foreign.filter /\ ~(m = 1 /\ foreign.map)
OurControl(m) == FaultControl(control[m], mode = "cycle", m = IrqOwner /\ mode = "latched")
ConfigureTargets ==
  LET mine == {m \in Modules : Ours(m)}
  IN /\ stretch' = [m \in Modules |-> stretch[m] \/ m \notin foreign.filter]
     /\ map' = [m \in Modules |-> IF m \in mine THEN "AB" ELSE map[m]]
     /\ WriteFsts(mine, RecoveryBits(mode = "cycle"))
     /\ uncounted' = [m \in Modules |-> uncounted[m] /\ m \notin mine]

\* A foreign use, or fault states that are not safe with the polarity configured.
TargetsRefused ==
  /\ pc = "parked" /\ IsParked /\ mode \in {"latched", "cycle"}
  /\ ConfigureTargets
  /\ FailArm([m \in Modules |-> IF Ours(m) THEN OurControl(m) ELSE control[m]])
  /\ UNCHANGED <<config, stuck, foreign, threshold, trips, snap, raised>>

TargetsReady ==
  /\ pc = "parked" /\ IsParked /\ mode \in {"latched", "cycle"}
  /\ \A m \in Modules : Ours(m)
  /\ ConfigureTargets
  /\ control' = [m \in Modules |-> OurControl(m)]
  /\ pc' = "route1"
  /\ active' = TRUE /\ threshold' = DacMv(DacCode(wanted))    \* the comparator is on
  /\ UNCHANGED <<config, stuck, foreign, sel, source, armed, ready, irq, tripped, trips, snap,
                 raised>>

\* The comparator's output reaches the modules one after the other.
Route(m, here, next) ==
  /\ pc = here /\ pc' = next
  /\ sel' = [sel EXCEPT ![m] = Connected(m, "cmp")]
  /\ SetFlags(IF source /\ sel[m] # "cmp" /\ sel'[m] = "cmp" THEN {m} ELSE {})
  /\ UNCHANGED <<config, stuck, foreign, bits, other, active, threshold, source, armed, ready,
                 irq, tripped, trips, snap, raised>>

RouteRefused ==
  /\ pc = "arm" /\ \E m \in Modules : sel[m] # "cmp"
  /\ FailArm(control)
  /\ UNCHANGED <<config, stuck, foreign, stretch, map, recovery, flag, other, threshold, trips,
                 snap, uncounted, raised>>

\* Armed.  A pulse that fell between the two routes has latched: it is a trip.
Arm ==
  /\ pc = "arm" /\ \A m \in Modules : sel[m] = "cmp"
  /\ armed' = mode /\ ready' = TRUE /\ trips' = 0 /\ pc' = "idle"
  /\ IF mode = "latched"
     THEN LET latched == \E m \in Modules : flag[m]
          IN tripped' = (tripped \/ latched) /\ irq' = ~latched
     ELSE UNCHANGED <<tripped, irq>>
  /\ UNCHANGED <<config, stuck, foreign, sel, bits, flag, other, active, threshold, source, snap,
                 uncounted, raised>>

\* acmpFaultIsr()
FaultIsr ==
  /\ irq /\ flag[IrqOwner] /\ "FIE" \in control[IrqOwner]
  /\ tripped' = TRUE /\ irq' = FALSE
  /\ UNCHANGED <<config, pc, stuck, foreign, sel, bits, flag, other, active, threshold, source,
                 armed, ready, trips, snap, uncounted, raised>>

\* acmpClearLatch() in the acknowledgement of a trip: the module that owns the interrupt last.
ClearLatch(m, here, next) ==
  /\ pc = here /\ pc' = next
  /\ armed = "latched" /\ tripped /\ (here = "idle" => ~source)
  /\ WriteFsts({m}, {"FULL"})
  /\ uncounted' = [uncounted EXCEPT ![m] = FALSE]
  /\ UNCHANGED <<config, stuck, foreign, sel, stretch, map, control, active, threshold, source,
                 armed, ready, irq, tripped, trips, snap, raised>>

\* acmpRearmFaultIrq(), last in the acknowledgement of a trip.
Rearm ==
  /\ pc = "idle" /\ tripped /\ armed = "latched" /\ ~source /\ \A m \in Modules : ~flag[m]
  /\ tripped' = FALSE /\ irq' = TRUE
  /\ UNCHANGED <<config, pc, stuck, foreign, sel, bits, flag, other, active, threshold, source,
                 armed, ready, trips, snap, uncounted, raised>>

\* acmpCbcTick() reads both modules and counts once ...
TickCounts ==
  /\ pc = "idle" /\ armed = "cycle" /\ \E m \in Modules : flag[m]
  /\ trips < MaxTrips
  /\ trips' = trips + 1 /\ snap' = {m \in Modules : flag[m]} /\ pc' = "tick"
  /\ uncounted' = [m \in Modules |-> uncounted[m] /\ m \notin snap']
  /\ UNCHANGED <<config, stuck, foreign, sel, bits, flag, other, active, threshold, source, armed,
                 ready, irq, tripped, raised>>

\* mutant: both flags are cleared, the one seen and the one that was set since
TickClearsBoth ==
  /\ pc = "tick" /\ pc' = "idle" /\ snap' = {}
  /\ flag' = [m \in Modules |-> FALSE]
  /\ UNCHANGED <<config, stuck, foreign, sel, bits, other, active, threshold, source, armed, ready,
                 irq, tripped, trips, uncounted, raised>>

\* ... and then clears the flags it has read, and no other.
TickClears ==
  /\ pc = "tick" /\ pc' = "idle" /\ snap' = {}
  /\ flag' = [m \in Modules |-> flag[m] /\ m \notin snap]
  /\ UNCHANGED <<config, stuck, foreign, sel, bits, other, active, threshold, source, armed, ready,
                 irq, tripped, trips, uncounted, raised>>

Next ==
  \/ SourceMoves
  \/ \E m \in Modules : OtherFault(m) \/ Sticks(m)
  \/ \E m \in Modes, mv \in Thresholds : TearDown(m, mv)
  \/ CannotArm \/ NoLimit \/ TargetsRefused \/ TargetsReady
  \/ Route(1, "route1", "route2") \/ Route(2, "route2", "arm")
  \/ RouteRefused \/ Arm \/ FaultIsr
  \/ ClearLatch(1, "idle", "clear2") \/ ClearLatch(2, "clear2", "idle") \/ Rearm
  \/ TickCounts \/ TickClears

Spec == Init /\ [][Next]_frVars
-----------------------------------------------------------------------------
\* Type invariant.
TypeOK ==
  /\ pc \in {"boot", "idle", "parked", "route1", "route2", "arm", "clear2", "tick"}
  /\ sel \in [Modules -> {"low", "cmp"}] /\ flag \in [Modules -> BOOLEAN]
  /\ armed \in {"no", "latched", "cycle"} /\ trips \in 0..MaxTrips

\* What says it is ready is whole on both modules, as its mode needs it, whatever stuck or
\* belonged to others on the way; and what is not ready has masked the outputs
\* and parked every selector that still obeys (acmp.cpp 150-244, 260-400).
ReadyIsWhole ==
  /\ ready /\ mode = "off" => IsParked
  /\ ready /\ mode # "off" =>
       /\ armed = mode /\ active
       /\ \A m \in Modules :
            /\ sel[m] = "cmp" /\ map[m] = "AB" /\ stretch[m] /\ m \notin foreign.filter
            /\ control[m] = FaultControl({}, mode = "cycle", m = IrqOwner /\ mode = "latched")
            /\ recovery[m] = RecoveryBits(mode = "cycle")
       /\ 2 * (threshold - wanted) \in -54..52
  /\ ~ready /\ pc = "idle" => tripped /\ \A m \in Modules \ stuck : sel[m] = "low"

\* The other faults of a module keep their flags through every arming, clearing and
\* counting, and a flag of fault 0 goes only when it has been counted, acknowledged or
\* disarmed (acmp.cpp 104-115, 408-428).
FlagsAreNotSwallowed ==
  \A m \in Modules : (raised[m] => other[m]) /\ (uncounted[m] => flag[m])

\* A latched limit that has fired on either module is a trip, or about to be one
\* (acmp.cpp 378-394, 444-464).
LatchIsATrip ==
  armed = "latched" /\ pc = "idle" /\ (\E m \in Modules : flag[m]) =>
    tripped \/ (irq /\ flag[IrqOwner])

\* All of these.
LimitIsArmed == ReadyIsWhole /\ FlagsAreNotSwallowed /\ LatchIsATrip
=============================================================================
