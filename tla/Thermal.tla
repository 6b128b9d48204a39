------------------------------ MODULE Thermal ------------------------------
(***************************************************************************)
(* The probes of thermal.cpp: which of two DS18B20s are cached, when a     *)
(* conversion is requested and harvested, and the derating that follows.   *)
(* The bus is only touched while the outputs are inhibited; a probe keeps  *)
(* its last conversion until the next.  A temperature is 0 (at or below    *)
(* the start of derating) or 1 (at or above its end); the die is a third   *)
(* sensor that always answers.  Which probes are connected, and what they  *)
(* feel, may have changed whenever the bus is used.                        *)
(***************************************************************************)
EXTENDS Integers, FiniteSets

CONSTANTS Buses,        \* pins the OneWire bus may be on
          RequestTicks, \* requestMs
          HarvestTicks, \* 800 ms
          RescanTicks   \* 30 s

\* What the constants must satisfy.
ConstantsOK ==
  /\ RequestTicks \in Nat /\ HarvestTicks \in Nat /\ RescanTicks \in Nat
  /\ HarvestTicks < RequestTicks

VARIABLES
  on, inhibited,             \* Thermal.Enabled, pwmOutputInhibited()
  scratch,                   \* what each probe of the active bus would answer
  applied, active, pending,  \* thermalEnabledApplied, activePin, conversionPending
  sinceRequest, sinceRescan, \* the timers, as far as they matter
  cached, reading, valid, derate,
  ran, old                   \* history: the outputs ran since the request, before the reading

thVars == <<on, inhibited, scratch, applied, active, pending, sinceRequest, sinceRescan,
            cached, reading, valid, derate, ran, old>>

Probes == {"lower", "higher"}     \* by ROM
Sensors == Probes \union {"die"}
Nothing == -1
PowerUp == 1                      \* 85 degrees: a probe's answer before any conversion

\* thermalDerateMilli(): 1 full output, 0 none.
Derate(t) == 1 - t

\* mutant: of the two probes, only the one with the lower ROM is looked at
WorstOfLower(r) == IF r["lower"] > r["die"] THEN r["lower"] ELSE r["die"]

\* worstValidTempC()
Worst(r) == CHOOSE t \in {r[s] : s \in Sensors} : \A s \in Sensors : r[s] <= t

Init ==
  /\ on = FALSE /\ inhibited = TRUE
  /\ scratch = [p \in Probes |-> PowerUp]
  /\ applied = FALSE /\ active = "none" /\ pending = FALSE
  /\ sinceRequest = 0 /\ sinceRescan = 0
  /\ cached = {} /\ reading = [s \in Sensors |-> Nothing] /\ valid = TRUE /\ derate = 1
  /\ ran = FALSE /\ old = FALSE
-----------------------------------------------------------------------------
Least(a, b) == IF a < b THEN a ELSE b

Tick ==
  /\ sinceRequest' = Least(sinceRequest + 1, RequestTicks)
  /\ sinceRescan' = Least(sinceRescan + 1, RescanTicks)
  /\ UNCHANGED <<on, inhibited, scratch, applied, active, pending, cached, reading, valid,
                 derate, ran, old>>

\* The outputs run only with thermalAllowsPwmRelease(); anything may stop them.
Release ==
  /\ inhibited /\ (~on \/ valid)
  /\ inhibited' = FALSE /\ ran' = TRUE
  /\ UNCHANGED <<on, scratch, applied, active, pending, sinceRequest, sinceRescan, cached,
                 reading, valid, derate, old>>

Stop ==
  /\ ~inhibited
  /\ inhibited' = TRUE
  /\ UNCHANGED <<on, scratch, applied, active, pending, sinceRequest, sinceRescan, cached,
                 reading, valid, derate, ran, old>>
-----------------------------------------------------------------------------
\* thermalConfigure() with the settings of an apply.
ConfigureOff ==
  /\ on' = FALSE
  /\ derate' = 1 /\ valid' = TRUE /\ applied' = FALSE /\ pending' = FALSE
  /\ reading' = [s \in Sensors |-> Nothing] /\ old' = FALSE
  /\ UNCHANGED <<inhibited, scratch, active, sinceRequest, sinceRescan, cached, ran>>

\* mutant: an apply that keeps the sample on another pin
KeepsAnyPin(b) == applied /\ valid

\* The last sample stays in force only for an apply that changes neither the pin nor the switch.
KeepsSample(b) == applied /\ b = active /\ valid

ConfigureOn(b) ==
  /\ on' = TRUE /\ active' = b /\ applied' = TRUE
  /\ IF b # active
     THEN /\ pending' = FALSE /\ cached' \in SUBSET Probes
          /\ scratch' = [p \in Probes |-> PowerUp]
     ELSE UNCHANGED <<pending, cached, scratch>>
  /\ inhibited' = IF KeepsSample(b) THEN inhibited ELSE TRUE
  /\ valid' = KeepsSample(b)
  /\ derate' = IF KeepsSample(b) THEN Derate(Worst(reading)) ELSE 0
  /\ UNCHANGED <<sinceRequest, sinceRescan, reading, ran, old>>

\* thermalTask(), requesting: the probes connected convert what they feel.
Request ==
  /\ on /\ inhibited /\ ~pending /\ sinceRequest >= RequestTicks
  /\ pending' = TRUE /\ sinceRequest' = 0 /\ ran' = FALSE
  /\ scratch' \in [Probes -> 0..1]
  /\ UNCHANGED <<on, inhibited, applied, active, sinceRescan, cached, reading, valid, derate,
                 old>>

\* thermalTask(), harvesting: a search while something is missing, then by address.
Harvest ==
  /\ on /\ inhibited /\ pending /\ sinceRequest >= HarvestTicks
  /\ \E there \in SUBSET Probes, die \in 0..1 :
       LET search == cached # Probes /\ sinceRescan >= RescanTicks
           known == IF search THEN there ELSE cached \intersect there
       IN /\ sinceRescan' = IF search THEN 0 ELSE sinceRescan
          /\ reading' = [s \in Sensors |-> IF s = "die" THEN die
                                           ELSE IF s \in known THEN scratch[s] ELSE Nothing]
          /\ cached' = known
  /\ valid' = (cached' # {})
  /\ derate' = IF valid' THEN Derate(Worst(reading')) ELSE 0
  /\ pending' = FALSE /\ old' = ran
  /\ UNCHANGED <<on, inhibited, scratch, applied, active, sinceRequest, ran>>

Next ==
  \/ Tick \/ Release \/ Stop
  \/ ConfigureOff \/ (\E b \in Buses : ConfigureOn(b))
  \/ Request \/ Harvest

Spec == Init /\ [][Next]_thVars
-----------------------------------------------------------------------------
\* Readings and derating are of their types.
TypeOK ==
  /\ reading \in [Sensors -> -1..1] /\ derate \in 0..1 /\ cached \subseteq Probes
  /\ sinceRequest \in 0..RequestTicks /\ sinceRescan \in 0..RescanTicks

\* Outputs run under the derating of the hottest part that answered, whichever probe it
\* is on, and never without a probe (thermal.cpp 85-97, 202-210).
DerateCoversEveryProbe ==
  on => /\ \A s \in Sensors : reading[s] # Nothing /\ valid => derate <= Derate(reading[s])
        /\ ~valid => derate = 0
        /\ ~inhibited => valid

\* A pin that was changed is released only by a sample converted on the new bus: no step
\* takes the pin elsewhere and leaves the outputs running or the sample in force.
NewBusIsDark == [][active' # active => inhibited' /\ ~valid' /\ derate' = 0]_thVars

\* A reading shows the parts as they were after the outputs last ran.
SampleFollowsTheRun == on /\ valid => ~old
=============================================================================
