------------------------------ MODULE Inverter ------------------------------
(***************************************************************************)
(* Module 2 as an inverter: what configureModule2() programs into its four *)
(* cells, and what the carrier interrupt then writes every cycle, by the   *)
(* schemes of modulation.h.  Amplitudes are scaled: the unit reference     *)
(* spans -Unit..Unit, a duty 0..Full, the index One is full modulation.    *)
(* The dead times are those of pwm_pair.h in units of its floor.           *)
(***************************************************************************)
EXTENDS Integers, Sequences, FiniteSets, FiniteSetsExt

CONSTANTS
  Configs,    \* settings of Tm2: [scheme, disposition, cells, near, variant, source, comp, pairs]
  Again,      \* those of them an apply changes to while a scheme runs (a bound)
  Sine, Flat, \* the unit tables, one period: sine, and sine with a third harmonic
  Segments,   \* the uploaded sequence: <<[level, cycles], ...>>
  Samples,    \* the uploaded reference, played a sample a cycle
  Unit, One, Fraction,  \* scales: reference, index, and index within a ramp
  RampCycles,           \* SoftStartMs in carrier cycles
  Advance,              \* entries of the table per carrier cycle
  CompModeSet           \* cells whose write-once COMPMODE is set

VARIABLES
  cfg,                          \* config.Pwm.Tm2
  plan, scheme, cells,          \* cellPlan, vModScheme, vModCells
  denied,                       \* vDeniedCellMask
  indep, gap, low, faultHigh,   \* INDEP, DTCNT, LowTrue, fault state 1: registers of a cell
  duty,
  phase, accum, target, stepQ,  \* vPhase, vIndexAccum, vIndexTarget, vIndexStep
  seqIndex, seqRemaining, waveIndex,
  shown, played, since          \* history: the last cycle's rendering; cycles since the reference
                                \* was built, and since a ramp from zero began

invVars == <<cfg, plan, scheme, cells, denied, indep, gap, low, faultHigh, duty, phase, accum,
             target, stepQ, seqIndex, seqRemaining, waveIndex, shown, played, since>>

Cells == 0..3
Full == 2 * (Unit + 1) - 1
Half == Unit + 1
Steps == Len(Sine)
None == [scheme |-> "none"]
Unseen == [phase |-> 0, unit |-> 0, index |-> -1]

\* The cycles of the first i segments, and of all.
Before[i \in 0..Len(Segments)] == IF i = 0 THEN 0 ELSE Before[i - 1] + Segments[i].cycles
Total == Before[Len(Segments)]
-----------------------------------------------------------------------------
\* pwm_pair.h: pair modes, and the one cell of module 2 without a channel B.
Complementary(mode) == mode \in {"half", "differential"}
HasChannelB(k) == k # 2
SanitisedForScheme(mode, k, inversion) ==
  IF Complementary(mode) /\ (inversion \/ ~HasChannelB(k)) THEN "independent" ELSE mode

\* pairDeadTimeNs(): floored for a half bridge, none for the other two.
DeadTime(mode, wanted) ==
  IF mode # "half" THEN 0 ELSE IF wanted < 1 THEN 1 ELSE wanted

ThreePhase(s) == s \in {"svpwm", "dpwm", "svpwm3d"}

\* effectiveModulationCells()
EffectiveCells(c) ==
  CASE c.scheme \in {"svpwm", "dpwm"} -> 3
    [] c.scheme = "svpwm3d" -> 4
    [] OTHER -> c.cells

\* mutant: an odd leg of phase-shifted cells has its carrier moved but not its duty
PlanWithoutComplement(s, disposition, k, n) ==
  LET odd == k % 2 = 1 IN
    [inverted |-> s \in {"bipolar", "phase"} /\ odd,
     complement |-> s \in {"unipolar", "thipwm"} /\ odd]

\* modulationCellPlan()
Plan(s, disposition, k, n) ==
  LET odd == k % 2 = 1
      opposed == \/ disposition = "pod" /\ k < n \div 2
                 \/ disposition = "apod" /\ odd
  IN [inverted |-> \/ s \in {"bipolar", "phase"} /\ odd
                   \/ s = "level" /\ opposed,
      complement |-> \/ s \in {"unipolar", "thipwm", "phase"} /\ odd
                     \/ s = "level" /\ opposed]

\* schemeRequiresPolarityInversion()
NeedsInversion(c) ==
  \E k \in 0..EffectiveCells(c) - 1 : Plan(c.scheme, c.disposition, k, EffectiveCells(c)).inverted

Active(c) == c # None /\ c.scheme # "fixed"
-----------------------------------------------------------------------------
\* (a * b) >> n of signed integers rounds down.
Scaled(unit, index) == (unit * index) \div One

\* dutyFromScaled(): compensation by the sign of the reference, saturation.
Saturated(v) == IF v > Unit THEN Unit ELSE IF v < -Unit THEN -Unit ELSE v
Compensated(v, comp, sign) ==
  IF sign > 0 THEN v + comp ELSE IF sign < 0 THEN v - comp ELSE v
DutyOf(v, comp, sign) == Half + Saturated(Compensated(v, comp, sign))

\* lsCellDuty(): one band of the stacked carriers, snapped to a rail if near is set.
BandDuty(ref, k, n, near) ==
  LET d == ref * n - k * (Full + 1) IN
    CASE d <= 0 -> 0
      [] d > 0 /\ near -> IF d >= Half THEN Full ELSE 0
      [] OTHER -> IF d >= Full THEN Full ELSE d

CellDuty(s, ref, k, n, near) == IF s = "level" THEN BandDuty(ref, k, n, near) ELSE ref
FinalDuty(d, p) == IF p.complement THEN Full - d ELSE d

\* refFromPhase() at an entry of the table.
At(table, p) == table[(p % Steps) + 1]

\* threePhaseScaledRefs()
Legs(p, index) == [k \in 0..2 |-> Scaled(At(Sine, p + 3 * Steps - k * (Steps \div 3)), index)]

MaxOf(v) == Max({v[k] : k \in 0..2})
MinOf(v) == Min({v[k] : k \in 0..2})
Magnitude(n) == IF n < 0 THEN -n ELSE n
Truncated(n) == IF n < 0 THEN -((-n) \div 2) ELSE n \div 2

\* continuousSvmZss()
SvmZss(v) == Truncated(-(MaxOf(v) + MinOf(v)))

\* The first of 0..2 at which f is greatest: the loops of dpwmZss().
FirstGreatest(f) == Min({k \in 0..2 : \A j \in 0..2 : f[j] <= f[k]})

\* mutant: equal magnitudes leave one past the last leg
IntermediatePast(mags) ==
  3 - FirstGreatest(mags) - FirstGreatest([k \in 0..2 |-> -mags[k]])

\* dpwmZss(), Dpwm3: the leg of intermediate magnitude, the first when they are all equal.
Intermediate(mags) ==
  LET hi == FirstGreatest(mags)
      lo == FirstGreatest([k \in 0..2 |-> -mags[k]])
  IN IF hi = lo THEN hi ELSE 3 - hi - lo

\* dpwmZss(): the leg that stops switching, and the rail it goes to.
Clamped(v, p, variant) ==
  CASE variant = "min" -> FirstGreatest([k \in 0..2 |-> -v[k]])
    [] variant = "max" -> FirstGreatest(v)
    [] variant = "3" -> Intermediate([k \in 0..2 |-> Magnitude(v[k])])
    [] OTHER -> FirstGreatest([k \in 0..2 |-> Magnitude(Legs(p, One)[k])])
DpwmZss(v, p, variant) ==
  LET sel == Clamped(v, p, variant) IN
    IF sel \notin 0..2 THEN 0
    ELSE IF variant = "max" \/ (variant # "min" /\ v[sel] >= 0)
         THEN Unit - v[sel] ELSE -Unit - v[sel]

\* The settings a configuration can hold, and what the constants must satisfy.
Settings ==
  [scheme : {"fixed", "unipolar", "bipolar", "thipwm", "level", "phase", "svpwm", "dpwm",
             "svpwm3d"},
   disposition : {"pd", "pod", "apod"}, cells : 1..4, near : BOOLEAN,
   variant : {"min", "max", "wide", "3"}, source : {"table", "sequence", "samples"},
   comp : Nat, index : Nat, dead : Nat, duty : 0..Full,
   pairs : [Cells -> {"independent", "half", "differential"}]]
ConstantsOK ==
  /\ {Unit, One, Fraction, RampCycles, Advance} \subseteq Nat \ {0}
  /\ Sine \in Seq(Int) \ {<<>>} /\ Flat \in Seq(Int) /\ Len(Sine) = Len(Flat)
  /\ Len(Sine) % 3 = 0
  /\ Segments \in Seq([level : Int, cycles : Nat \ {0}]) \ {<<>>}
  /\ Samples \in Seq(Int) \ {<<>>}
  /\ CompModeSet \subseteq Cells /\ Configs \subseteq Settings /\ Again \subseteq Configs

\* The indices a ramp passes.
Indices == UNION {0..c.index : c \in Configs}

\* Within the indices allowed, the line voltages of a three-phase scheme fit the bus, and so
\* do its legs around the one that is clamped where that is not the highest or the lowest
\* (MaxModulationIndexMilli, modulation.h 69).
ReferencesFit ==
  LET used == {c \in Configs : ThreePhase(c.scheme)}
      clamps == {c.variant : c \in {d \in used : d.scheme = "dpwm"}}
  IN used # {} =>
     \A i \in Indices, p \in 0..Steps - 1 :
       LET v == Legs(p, i) IN
         /\ MaxOf(v) - MinOf(v) <= 2 * Unit
         /\ MaxOf(v) + MinOf(v) \in -2 * Unit..2 * Unit
         /\ \A variant \in clamps \intersect {"wide", "3"}, k \in 0..2 :
              v[k] + DpwmZss(v, p, variant) \in -Unit..Unit

\* modulationCycleDuties()
TableDuties(p, index) ==
  IF ThreePhase(scheme)
  THEN LET v == Legs(p, index)
           zss == IF scheme = "dpwm" THEN DpwmZss(v, p, cfg.variant) ELSE SvmZss(v)
       IN [k \in 0..cells - 1 |-> IF k = 3 THEN DutyOf(zss, 0, 0)
                                  ELSE DutyOf(v[k] + zss, cfg.comp, v[k])]
  ELSE LET unit == At(IF scheme = "thipwm" THEN Flat ELSE Sine, p)
           ref == DutyOf(Scaled(unit, index), IF scheme = "level" THEN 0 ELSE cfg.comp, unit)
       IN [k \in 0..cells - 1 |-> FinalDuty(CellDuty(scheme, ref, k, cells, cfg.near), plan[k])]

\* The stepped path of IsrOverflowSm20(): one reference for every cell.
SteppedDuties(unit, index) ==
  LET ref == DutyOf(Scaled(unit, index), IF scheme = "level" THEN 0 ELSE cfg.comp, unit)
  IN [k \in 0..cells - 1 |-> FinalDuty(CellDuty(scheme, ref, k, cells, cfg.near), plan[k])]
-----------------------------------------------------------------------------
\* softStartStepQ24(): rounded up, so that the ramp is never longer than asked for.
\* mutant: rounded down
RampStepFloored(goal) == (goal * Fraction) \div RampCycles
RampStep(goal) == (goal * Fraction + RampCycles - 1) \div RampCycles

\* rampIndexQ24()
Ramped(a, goal, by) ==
  LET end == goal * Fraction IN
    CASE a < end -> IF end - a > by THEN a + by ELSE end
      [] a > end -> IF a - end > by THEN a - by ELSE end
      [] OTHER -> a

\* buildSpwmLut(): the reference, the plans and the ramp of these settings.
BuildLut(c) ==
  /\ scheme' = c.scheme /\ cells' = EffectiveCells(c)
  /\ plan' = [k \in Cells |-> Plan(c.scheme, c.disposition, k, EffectiveCells(c))]
  /\ seqIndex' = IF c.source = "sequence" THEN 1 ELSE seqIndex
  /\ seqRemaining' = IF c.source = "sequence" THEN Segments[1].cycles ELSE seqRemaining
  /\ waveIndex' = IF c.source = "samples" THEN 1 ELSE waveIndex
  /\ phase' = 0
  /\ target' = c.index /\ stepQ' = RampStep(c.index)
  /\ played' = 0

Init ==
  /\ cfg = None /\ scheme = "unipolar" /\ cells = 2
  /\ plan = [k \in Cells |-> [inverted |-> FALSE, complement |-> FALSE]]
  /\ denied = {} /\ indep = [k \in Cells |-> TRUE] /\ gap = [k \in Cells |-> 0]
  /\ low = [k \in Cells |-> FALSE] /\ faultHigh = [k \in Cells |-> FALSE]
  /\ duty = [k \in Cells |-> 0]
  /\ phase = 0 /\ accum = 0 /\ target = 0 /\ stepQ = 1
  /\ seqIndex = 1 /\ seqRemaining = 0 /\ waveIndex = 1
  /\ shown = Unseen /\ played = 0 /\ since = 0

\* setupSubmodule() of the four cells: the dead time, the duties, and INDEP last; a leg that
\* was to be a pair and is not one stays off.
SetupSubmodules(c, mode) ==
  LET real == [k \in Cells |-> Complementary(mode[k]) /\ k \notin CompModeSet]
      off == {k \in Cells : Complementary(c.pairs[k]) /\ ~real[k]}
  IN /\ gap' = [k \in Cells |-> DeadTime(mode[k], c.dead)]
     /\ duty' = [k \in Cells |-> IF k \in off THEN 0 ELSE c.duty]
     /\ indep' = [k \in Cells |-> ~real[k]]

\* configureModule2(); the outputs are disconnected and the carrier interrupt is disabled
\* until it is done.
Configure(c) ==
  LET mode == [k \in Cells |-> SanitisedForScheme(c.pairs[k], k, NeedsInversion(c))]
  IN /\ cfg' = c
     /\ IF Active(c) THEN BuildLut(c)
        ELSE /\ played' = 0
             /\ UNCHANGED <<scheme, cells, plan, seqIndex, seqRemaining, waveIndex, phase, target,
                            stepQ>>
     /\ denied' = {k \in Cells : Complementary(c.pairs[k]) /\ ~Complementary(mode[k])}
     /\ low' = [k \in Cells |-> /\ k \notin denied' /\ Active(c)
                                /\ k < cells' /\ plan'[k].inverted]
     /\ faultHigh' = low'
     /\ SetupSubmodules(c, mode)
     /\ shown' = Unseen
     /\ since' = IF accum = 0 THEN 0 ELSE RampCycles + 1
     /\ UNCHANGED accum

\* mutant: the refused cells are modulated again by the next carrier cycle
WrittenAll == 0..cells - 1

\* The cells the interrupt writes.
Written == (0..cells - 1) \ denied

\* The segment player: the next segment when this one has had its cycles.
NextSegment == IF seqIndex + 1 > Len(Segments) THEN 1 ELSE seqIndex + 1

Render(duties, unit) ==
  /\ duty' = [k \in Cells |-> IF k \in Written THEN duties[k] ELSE duty[k]]
  /\ shown' = [phase |-> phase, unit |-> unit, index |-> accum' \div Fraction]

\* IsrOverflowSm20() while a scheme is modulated.
Carrier ==
  /\ Active(cfg)
  /\ accum' = Ramped(accum, target, stepQ)
  /\ phase' = (phase + Advance) % Steps
  /\ since' = IF since < RampCycles THEN since + 1 ELSE since
  /\ \/ /\ cfg.source = "table"
        /\ Render(TableDuties(phase, accum' \div Fraction), 0)
        /\ UNCHANGED <<seqIndex, seqRemaining, waveIndex, played>>
     \/ /\ cfg.source = "sequence"
        /\ seqIndex' = IF seqRemaining = 0 THEN NextSegment ELSE seqIndex
        /\ seqRemaining' = (IF seqRemaining = 0 THEN Segments[seqIndex'].cycles
                                                 ELSE seqRemaining) - 1
        /\ Render(SteppedDuties(Segments[seqIndex'].level, accum' \div Fraction),
                  Segments[seqIndex'].level)
        /\ played' = (played % Total) + 1
        /\ UNCHANGED waveIndex
     \/ /\ cfg.source = "samples"
        /\ waveIndex' = IF waveIndex + 1 > Len(Samples) THEN 1 ELSE waveIndex + 1
        /\ Render(SteppedDuties(Samples[waveIndex], accum' \div Fraction), Samples[waveIndex])
        /\ played' = (played % Len(Samples)) + 1
        /\ UNCHANGED <<seqIndex, seqRemaining>>
  /\ UNCHANGED <<cfg, plan, scheme, cells, denied, indep, gap, low, faultHigh, target, stepQ>>

Next ==
  \/ \E c \in IF cfg = None THEN Configs ELSE Again : Configure(c)
  \/ Carrier

Spec == Init /\ [][Next]_invVars
-----------------------------------------------------------------------------
\* Registers and indices are of their types.
TypeOK ==
  /\ duty \in [Cells -> 0..Full] /\ cells \in 1..4 /\ phase \in 0..Steps - 1
  /\ denied \subseteq Cells /\ {low[k] : k \in Cells} \subseteq BOOLEAN
  /\ seqIndex \in 1..Len(Segments) /\ waveIndex \in 1..Len(Samples) /\ accum \in Nat

\* A leg that was to be a half bridge and is not one stays off, both pins low, whatever
\* the carrier interrupt does; a pair is never inverted, a half bridge has its dead time,
\* and a fault leaves every pin low (pwm_utils.cpp 456-477, 899-964; pwm_pair.h).
LegsAreSafe ==
  cfg # None =>
    \A k \in Cells :
      /\ Complementary(cfg.pairs[k]) /\ indep[k] => duty[k] = 0 /\ ~low[k]
      /\ ~indep[k] => ~low[k] /\ (cfg.pairs[k] = "half" => gap[k] >= 1)
      /\ faultHigh[k] = low[k]

\* The average level of a pin: an inverted cell shows the complement of its duty.
Pin(k) == IF low[k] THEN Full - duty[k] ELSE duty[k]

ShownRef == LET unit == IF cfg.source # "table" THEN shown.unit
                        ELSE At(IF scheme = "thipwm" THEN Flat ELSE Sine, shown.phase)
            IN DutyOf(Scaled(unit, shown.index), IF scheme = "level" THEN 0 ELSE cfg.comp, unit)

SumOfPins == LET part(k) == IF k < cells THEN Pin(k) ELSE 0
             IN part(0) + part(1) + part(2) + part(3)

\* Whatever the carriers' geometry, the pins carry the reference: opposed legs mirror each
\* other, stacked bands add up to it with one cell switching at a time, and the legs of a
\* three-phase scheme keep its line voltages (modulation.h 162-225, 327-372, 405-410).
PinsCarryTheReference ==
  LET n == cells
      v == Legs(shown.phase, shown.index)
  IN shown # Unseen /\ denied \intersect (0..n - 1) = {} =>
     CASE scheme \in {"unipolar", "thipwm", "bipolar"} ->
            \A k \in 0..n - 1 : Pin(k) = IF k % 2 = 0 THEN ShownRef ELSE Full - ShownRef
       [] scheme = "phase" -> \A k \in 0..n - 1 : Pin(k) = ShownRef
       [] scheme = "level" /\ ~cfg.near ->
            /\ n * ShownRef - SumOfPins \in 0..n
            /\ Cardinality({k \in 0..n - 1 : Pin(k) \notin {0, Full}}) <= 1
       [] scheme = "level" /\ cfg.near ->
            /\ \A k \in 0..n - 1 : Pin(k) \in {0, Full}
            /\ Magnitude(n * ShownRef - SumOfPins) <= Half + n
       [] ThreePhase(scheme) /\ cfg.source = "table" /\ cfg.comp = 0 ->
            /\ \A j, k \in 0..2 : Pin(j) - Pin(k) = v[j] - v[k]
            /\ scheme = "svpwm3d" => \A k \in 0..2 : Pin(k) - Pin(3) = v[k]
            /\ scheme = "dpwm" => \E k \in 0..2 : Pin(k) \in {1, Full}
       [] OTHER -> TRUE

\* A sequence holds each level for its cycles, samples follow one another, both wrap
\* without a gap, and a soft start is at its target when its time is over
\* (pwm_utils.cpp 1316-1332, modulation.h 293-319).
LevelAt(n) == Segments[Max({i \in 1..Len(Segments) : Before[i - 1] <= n})].level
InverterPlaysInTime ==
  /\ shown # Unseen /\ played > 0 =>
    /\ cfg.source = "sequence" => shown.unit = LevelAt(played - 1)
    /\ cfg.source = "samples" => shown.unit = Samples[played]
  /\ Active(cfg) /\ since = RampCycles => accum = target * Fraction
=============================================================================
