------------------------------ MODULE Tracker ------------------------------
(***************************************************************************)
(* The maximum power point tracker: mppt.cpp, mppt_math.h and the one      *)
(* actuator they share with the thermal supervisor, the index target of    *)
(* pwm_utils.cpp.  A measurement is what it says of the last perturbation: *)
(* a change within the noise, for the better, for the worse, or a jump.    *)
(* Indices count in steps of the least perturbation.                       *)
(***************************************************************************)
EXTENDS Integers, FiniteSets

CONSTANTS Configured,        \* Tm2.ModulationIndexMilli
          SchemeMost,        \* MaxModulationIndexMilli
          Lowest, Highest,   \* MinIndexMilli, MaxIndexMilli
          StepMost, StepLeast, \* StepMilli, MinStepMilli
          FlatCap,           \* MpptFlatCap
          Ceilings           \* what derating may leave of SchemeMost

\* What the constants must satisfy.
ConstantsOK ==
  /\ {Configured, SchemeMost, Lowest, Highest, StepMost, StepLeast} \subseteq Nat
  /\ 0 < Lowest /\ Lowest < Highest /\ Highest <= SchemeMost /\ Configured <= SchemeMost
  /\ 0 < StepLeast /\ StepLeast <= StepMost /\ StepMost <= Highest
  /\ FlatCap \in Nat \ {0}
  /\ Ceilings \subseteq 0..SchemeMost /\ SchemeMost \in Ceilings

VARIABLES
  enabled, active, metered,             \* Mppt.Enabled, spwmActive(), meterReadings().valid
  ceiling, target,                      \* vThermalDerateMilli, vIndexTargetQ15
  index, dir, step, grow, flat, primed, \* MpptState
  stepping,                             \* mpptActive()
  entry                                 \* history: where the gradient was last seen

trVars == <<enabled, active, metered, ceiling, target, index, dir, step, grow, flat, primed,
            stepping, entry>>
state == <<index, dir, step, grow, flat, primed>>

Within(n, least, most) == IF n < least THEN least ELSE IF n > most THEN most ELSE n
Least(a, b) == IF a < b THEN a ELSE b

\* mutant: the setter knows only the scheme's maximum
SetTargetUncapped(n) == target' = Least(n, SchemeMost)

\* setModulationIndexTargetQ15()
SetTarget(n) == target' = Least(n, ceiling)

Init ==
  /\ enabled = FALSE /\ active \in BOOLEAN /\ metered = FALSE
  /\ ceiling = SchemeMost /\ target = Configured
  /\ index = Lowest /\ dir = 1 /\ step = StepMost /\ grow = 0 /\ flat = 0 /\ primed = FALSE
  /\ stepping = FALSE /\ entry = Lowest
-----------------------------------------------------------------------------
\* setThermalDerateMilli(): a lower ceiling is applied at once, a higher one waits.
Derating(c) ==
  /\ ceiling' = c
  /\ target' = Least(target, c)
  /\ UNCHANGED <<enabled, active, metered, index, dir, step, grow, flat, primed, stepping, entry>>

\* thermalTask(), open loop: the configured index is pushed again.
PushOpenLoop ==
  /\ ~enabled /\ active
  /\ SetTarget(Configured)
  /\ UNCHANGED <<enabled, active, metered, ceiling, index, dir, step, grow, flat, primed,
                 stepping, entry>>

\* captureConfigure() and the meter's drain: a reading appears and goes.
MeterChanges ==
  /\ metered' = ~metered
  /\ UNCHANGED <<enabled, active, ceiling, target, index, dir, step, grow, flat, primed,
                 stepping, entry>>

\* applyPwmConfig() with a change of the Mppt section: mpptConfigure().
Enable ==
  /\ enabled' = TRUE /\ stepping' = FALSE
  /\ index' = Within(target, Lowest, Highest) /\ entry' = index'
  /\ dir' = 1 /\ step' = StepMost /\ grow' = 0 /\ flat' = 0 /\ primed' = FALSE
  /\ UNCHANGED <<active, metered, ceiling, target>>

Disable ==
  /\ enabled /\ enabled' = FALSE /\ stepping' = FALSE
  /\ IF stepping THEN SetTarget(Configured) ELSE UNCHANGED target
  /\ UNCHANGED <<active, metered, ceiling, entry>> /\ UNCHANGED state

\* applyPwmConfig() with a change of Tm2: the table is rebuilt, then mpptConfigure().
ApplyTm2 ==
  /\ active' \in BOOLEAN
  /\ IF active' THEN SetTarget(Configured) ELSE UNCHANGED target
  /\ stepping' = FALSE
  /\ IF enabled
     THEN /\ index' = Within(target', Lowest, Highest) /\ entry' = index'
          /\ dir' = 1 /\ step' = StepMost /\ grow' = 0 /\ flat' = 0 /\ primed' = FALSE
     ELSE UNCHANGED <<index, dir, step, grow, flat, primed, entry>>
  /\ UNCHANGED <<enabled, metered, ceiling>>

\* applyPwmConfig() with a change of another timer: the table is rebuilt all the same.
ApplyOtherTimer ==
  /\ IF active THEN SetTarget(Configured) ELSE UNCHANGED target
  /\ UNCHANGED <<enabled, active, metered, ceiling, stepping, entry>> /\ UNCHANGED state

\* mpptTask() when there is nothing to track or to track by.
Hold ==
  /\ ~enabled \/ ~active \/ ~metered
  /\ stepping' = FALSE /\ primed' = FALSE
  /\ UNCHANGED <<enabled, active, metered, ceiling, target, index, dir, step, grow, flat, entry>>
-----------------------------------------------------------------------------
Deltas == {"flat", "better", "worse", "jumpUp", "jumpDown"}

\* mutant: the plateau is walked on without turning around
TurnedNever(d) == IF d \in {"worse", "jumpDown"} THEN -dir ELSE dir

\* mpptStep(): the direction, the size of the step and the two counters.
Turned(d) ==
  IF \/ d \in {"worse", "jumpDown"}
     \/ d = "flat" /\ flat + 1 >= FlatCap
  THEN -dir ELSE dir
Sized(d) ==
  CASE d \in {"jumpUp", "jumpDown"} -> StepMost
    [] d = "better" /\ grow + 1 >= 2 -> Least(2 * step, StepMost)
    [] d = "worse" -> IF step \div 2 < StepLeast THEN StepLeast ELSE step \div 2
    [] OTHER -> step
Grown(d) == IF d = "better" /\ grow + 1 < 2 THEN grow + 1 ELSE 0
Flattened(d) == IF d = "flat" /\ flat + 1 < FlatCap THEN flat + 1 ELSE 0

\* mpptTask() at the end of an interval: a step of the search, capped by the derating.
Evaluate(d) ==
  /\ enabled /\ active /\ metered
  /\ LET way == IF primed THEN Turned(d) ELSE dir
         reach == index + way * (IF primed THEN Sized(d) ELSE step)
         next == Within(reach, Lowest, Highest)
         walled == IF next = Highest THEN -1 ELSE IF next = Lowest THEN 1 ELSE way
     IN /\ index' = Least(next, ceiling)
        /\ dir' = IF next > ceiling THEN -1 ELSE walled
        /\ entry' = IF next > ceiling THEN index'
                    ELSE IF primed /\ d = "flat" THEN entry ELSE index
  /\ step' = IF primed THEN Sized(d) ELSE step
  /\ grow' = IF primed THEN Grown(d) ELSE grow
  /\ flat' = IF primed THEN Flattened(d) ELSE flat
  /\ primed' = TRUE /\ stepping' = TRUE
  /\ SetTarget(index')
  /\ UNCHANGED <<enabled, active, metered, ceiling>>

Next ==
  \/ \E c \in Ceilings : Derating(c)
  \/ PushOpenLoop \/ MeterChanges
  \/ Enable \/ Disable \/ ApplyTm2 \/ ApplyOtherTimer
  \/ Hold
  \/ \E d \in Deltas : Evaluate(d)

Spec == Init /\ [][Next]_trVars
-----------------------------------------------------------------------------
\* Every variable is of its type.
TypeOK ==
  /\ {enabled, active, metered, primed, stepping} \subseteq BOOLEAN
  /\ ceiling \in Ceilings /\ target \in 0..SchemeMost
  /\ index \in 0..Highest /\ dir \in {-1, 1} /\ step \in StepLeast..StepMost
  /\ grow \in 0..1 /\ flat \in 0..FlatCap - 1

Away(a, b) == IF a > b THEN a - b ELSE b - a

\* On a plateau of the power the search stays within a few steps of where the gradient
\* disappeared, whichever walls and ceilings it meets (mppt_math.h 42-50).
WanderIsBounded ==
  enabled /\ index >= Lowest /\ entry >= Lowest =>
    Away(index, entry) <= FlatCap * step

\* The output never exceeds the derated ceiling: not between two evaluations, and not
\* when a controller, an apply or a recovery writes the target (pwm_utils.cpp 813-841).
DeratedAtOnce == target <= ceiling

TrackerIsBounded == WanderIsBounded /\ DeratedAtOnce

\* The search and the output stay together: whatever an apply does to the target, the next
\* step does not yank the output back to where the search was (pwm_utils.cpp 659-665).
SearchFollowsTheOutput == enabled /\ stepping => target <= index

\* Disabled, the tracker leaves the output at the configured index (mppt.cpp 38-48).
HandsBack == [][enabled /\ ~enabled' => target' = Least(Configured, ceiling)]_trVars
=============================================================================
