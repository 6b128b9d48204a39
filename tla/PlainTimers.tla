----------------------------- MODULE PlainTimers -----------------------------
(***************************************************************************)
(* The timers that play no modulation (pwm_utils.cpp, pwm_timing.h): Sm13  *)
(* and Sm31, Sm40 and Sm41 without a channel B, and Sm42 with its          *)
(* asymmetric mode.  Registers are staged, and the hardware loads them at  *)
(* a reload of its own after LDOK, or never; the pair bit acts at once.    *)
(* The timer of the modulation, FlexPWM2, is one more load here, its cells *)
(* are Inverter's; who may release the outputs is OutputGate's.            *)
(***************************************************************************)
EXTENDS Integers, FiniteSets

CONSTANTS
  Settings,     \* settings of the timers that pass validation
  BusClock,     \* F_BUS_ACTUAL
  MaxCounter,   \* MAX_COUNTER_VALUE
  FullDuty,     \* 2^16, the scale of a duty
  Second,       \* 10^9, nanoseconds in a second
  CompModeSet   \* submodules whose write-once COMPMODE is set

ConstantsOK ==
  /\ {BusClock, MaxCounter, FullDuty, Second} \subseteq Nat \ {0} /\ FullDuty > 1
  /\ CompModeSet \subseteq {"Sm13", "Sm31"}
  /\ \A c \in Settings, s \in {"Sm40", "Sm41", "Sm42"} : c[s].pair = "independent"

VARIABLES
  ptCfg,            \* config.Pwm and config.AsymmetricInduction
  ptPc,             \* where configurePwm() is: at rest, or which module stages or waits
  staged, active,   \* the buffered registers of each submodule, those the hardware uses
  complementary,    \* CTRL2[INDEP] clear, which is not buffered
  ldok,             \* modules whose MCTRL[LDOK] is set
  ptValid,          \* vPwmConfigurationValid
  ptTripped,        \* vFaultTripped
  outen             \* the output drivers are connected

ptVars == <<ptCfg, ptPc, staged, active, complementary, ldok, ptValid, ptTripped, outen>>

Submodules == {"Sm13", "Sm31", "Sm40", "Sm41", "Sm42"}
Of(m) == CASE m = 1 -> {"Sm13"} [] m = 3 -> {"Sm31"} [] m = 4 -> {"Sm40", "Sm41", "Sm42"}
           [] OTHER -> {}
HasChannelB(s) == s \notin {"Sm40", "Sm41"}
NoDuty == FullDuty - 1   \* UINT16_MAX, which stands for "no channel B"
-----------------------------------------------------------------------------
(* Timing. *)

\* bestPrescalerIndex(): the smallest of 2^0..2^7 that fits one period into the counter.
Prescaler(f) ==
  LET fits == {i \in 0..7 : (BusClock \div 2^i) \div f <= MaxCounter}
  IN IF fits = {} THEN 7 ELSE CHOOSE i \in fits : \A j \in fits : i <= j

\* Rounded away from zero at a half, by the integer division of C.
Nearest(product) == IF product >= 0 THEN (product + Second \div 2) \div Second
                                    ELSE -((-product + Second \div 2) \div Second)

NoTimings == [valid |-> FALSE]

\* mutant: the last edge may equal the number of ticks, which the counter never reaches
TimingsLate(f, duty, pre, post) ==
  LET clock == BusClock \div 2^Prescaler(f)
      period == (clock + f \div 2) \div f
      stopA == (period * duty + FullDuty \div 2) \div FullDuty
      startB == stopA - Nearest(pre * clock)
      stopB == period - Nearest(post * clock)
  IN IF stopA <= 0 \/ stopA > period \/ startB < 0 \/ startB >= stopB \/ stopB > period
     THEN NoTimings
     ELSE [valid |-> TRUE, prescaler |-> Prescaler(f), last |-> period - 1,
           a |-> <<0, stopA>>, b |-> <<startB, stopB>>]

\* computeAsymmetricTimings(): A from the start of the period; B from a shift before or after
\* the end of A to a shift before or after the end of the period.
Timings(f, duty, pre, post) ==
  IF f = 0 THEN NoTimings
  ELSE LET clock == BusClock \div 2^Prescaler(f)
           period == (clock + f \div 2) \div f
           last == period - 1
           stopA == (period * duty + FullDuty \div 2) \div FullDuty
           startB == stopA - Nearest(pre * clock)
           stopB == last - Nearest(post * clock)
       IN IF \/ period < 2 \/ period > MaxCounter + 1
             \/ stopA <= 0 \/ stopA > last
             \/ startB < 0 \/ startB >= stopB \/ stopB > last
          THEN NoTimings
          ELSE [valid |-> TRUE, prescaler |-> Prescaler(f), last |-> last,
                a |-> <<0, stopA>>, b |-> <<startB, stopB>>]
-----------------------------------------------------------------------------
(* One apply of settings. *)

IsPair(mode) == mode \in {"half", "differential"}
DrivesPair(c, s) == IsPair(c[s].pair) /\ s \notin CompModeSet
Denied(c, s) == IsPair(c[s].pair) /\ ~DrivesPair(c, s)
Asymmetric(c, s) == s = "Sm42" /\ c.asymmetric.enabled
EdgesOf(c) == Timings(c.Sm42.frequency, c.Sm42.dutyA, c.asymmetric.pre, c.asymmetric.post)

\* What setupSubmodule() or the asymmetric branch stages over what there was.
Staged(c, s) ==
  LET dutyB == IF Denied(c, s) THEN 0 ELSE c[s].dutyB
  IN IF Asymmetric(c, s)
     THEN [frequency |-> c[s].frequency, gap |-> c[s].dead, edges |-> EdgesOf(c),
           a |-> staged[s].a, b |-> staged[s].b]
     ELSE [frequency |-> c[s].frequency, gap |-> IF c[s].pair = "half" THEN c[s].dead ELSE 0,
           edges |-> NoTimings,
           a |-> IF Denied(c, s) THEN 0 ELSE c[s].dutyA,
           b |-> IF HasChannelB(s) /\ dutyB # NoDuty THEN dutyB ELSE staged[s].b]

AtReset == [frequency |-> 0, gap |-> 0, edges |-> NoTimings, a |-> 0, b |-> 0]

Init ==
  /\ ptCfg \in Settings /\ ptPc = [at |-> "stage", module |-> 1]    \* setup() configures
  /\ staged = [s \in Submodules |-> AtReset] /\ active = staged
  /\ complementary = {} /\ ldok = {}
  /\ ptValid = TRUE /\ ptTripped = FALSE /\ outen = FALSE

\* mutant: the outputs stay connected while the timers are configured
ApplyLive(c) ==
  /\ ptPc.at = "rest" /\ c # ptCfg
  /\ ptCfg' = c /\ ptValid' = TRUE
  /\ ptPc' = [at |-> "stage", module |-> 1]
  /\ UNCHANGED <<staged, active, complementary, ldok, ptTripped, outen>>

\* applyPwmConfig() with changed timing: masked first, then one module after the other.
Apply(c) ==
  /\ ptPc.at = "rest" /\ c # ptCfg
  /\ ptCfg' = c /\ ptValid' = TRUE /\ outen' = FALSE
  /\ ptPc' = [at |-> "stage", module |-> 1]
  /\ UNCHANGED <<staged, active, complementary, ldok, ptTripped>>

After(m) == IF m = 4 THEN [at |-> "release", module |-> 0] ELSE [at |-> "stage", module |-> m + 1]

\* mutant: a module that succeeds makes the configuration valid
JudgedByTheLast(ok) == ptValid' = ok

Judged(ok) == ptValid' = (ptValid /\ ok)

\* configureModule1..4(): every submodule is staged even when one before it is refused, by a
\* frequency that cannot be represented or an edge outside of the period; the pair bit of one
\* that is staged changes at once.  Only a module that is whole asks to be loaded.
Stage(m, refused) ==
  /\ ptPc = [at |-> "stage", module |-> m]
  /\ refused \subseteq Of(m)
  /\ "Sm42" \in Of(m) /\ Asymmetric(ptCfg, "Sm42") /\ ~EdgesOf(ptCfg).valid => "Sm42" \in refused
  /\ Asymmetric(ptCfg, "Sm42") /\ refused \intersect {"Sm40", "Sm41"} # {} => "Sm42" \in refused
  /\ LET done == Of(m) \ refused
         told == {s \in refused : ~Asymmetric(ptCfg, s)}    \* its duties, then refused
     IN /\ staged' = [s \in Submodules |->
                        IF s \in done THEN Staged(ptCfg, s)
                        ELSE IF s \in told THEN [staged[s] EXCEPT !.a = Staged(ptCfg, s).a,
                                                                 !.b = Staged(ptCfg, s).b]
                        ELSE staged[s]]
        /\ complementary' = (complementary \ {s \in done : ~Asymmetric(ptCfg, s)})
                              \union {s \in done : DrivesPair(ptCfg, s)}
  /\ IF refused = {}
     THEN /\ ldok' = ldok \union {m} /\ ptPc' = [at |-> "load", module |-> m]
          /\ UNCHANGED ptValid
     ELSE /\ ldok' = ldok \ {m} /\ Judged(FALSE) /\ ptPc' = After(m)
  /\ UNCHANGED <<ptCfg, active, ptTripped, outen>>

\* The hardware loads at a reload of the module.
Reload(m) ==
  /\ m \in ldok /\ ldok' = ldok \ {m}
  /\ active' = [s \in Submodules |-> IF s \in Of(m) THEN staged[s] ELSE active[s]]
  /\ UNCHANGED <<ptCfg, ptPc, staged, complementary, ptValid, ptTripped, outen>>

\* waitForLdok(), in commitBufferedSettings()
Loaded(m) ==
  /\ ptPc = [at |-> "load", module |-> m] /\ m \notin ldok
  /\ Judged(TRUE) /\ ptPc' = After(m)
  /\ UNCHANGED <<ptCfg, staged, active, complementary, ldok, ptTripped, outen>>

LoadTimesOut(m) ==
  /\ ptPc = [at |-> "load", module |-> m] /\ m \in ldok
  /\ ldok' = ldok \ {m} /\ outen' = FALSE
  /\ Judged(FALSE) /\ ptPc' = After(m)
  /\ UNCHANGED <<ptCfg, staged, active, complementary, ptTripped>>

\* The end of the apply: released only when everything was loaded.
Release ==
  /\ ptPc.at = "release" /\ ptPc' = [at |-> "rest", module |-> 0]
  /\ outen' = (ptValid /\ ~ptTripped)
  /\ UNCHANGED <<ptCfg, staged, active, complementary, ldok, ptValid, ptTripped>>

\* A fault masks at any time; its acknowledgement releases what is valid.
Trip ==
  /\ ~ptTripped /\ ptTripped' = TRUE /\ outen' = FALSE
  /\ UNCHANGED <<ptCfg, ptPc, staged, active, complementary, ldok, ptValid>>

Clear ==
  /\ ptPc.at = "rest" /\ ptTripped /\ ptTripped' = ~ptValid
  /\ outen' = ptValid
  /\ UNCHANGED <<ptCfg, ptPc, staged, active, complementary, ldok, ptValid>>

Next ==
  \/ \E c \in Settings : Apply(c)
  \/ \E m \in 1..4 : \/ \E refused \in SUBSET Of(m) : Stage(m, refused)
                     \/ Reload(m) \/ Loaded(m) \/ LoadTimesOut(m)
  \/ Release \/ Trip \/ Clear

Spec == Init /\ [][Next]_ptVars
-----------------------------------------------------------------------------
\* Type invariant.
TypeOK ==
  /\ ptCfg \in Settings
  /\ ptPc \in [at : {"rest", "stage", "load", "release"}, module : 0..4]
  /\ DOMAIN staged = Submodules /\ DOMAIN active = Submodules
  /\ complementary \subseteq Submodules /\ ldok \subseteq 1..4
  /\ {ptValid, ptTripped, outen} \subseteq BOOLEAN

\* What a submodule must do under settings c, whatever was applied before.
Follows(r, c, s) ==
  /\ r.frequency = c[s].frequency
  /\ IF Asymmetric(c, s) THEN r.edges = EdgesOf(c) /\ r.edges.valid
     ELSE /\ ~r.edges.valid
          /\ r.a = IF Denied(c, s) THEN 0 ELSE c[s].dutyA
          /\ HasChannelB(s) /\ (c[s].dutyB # NoDuty \/ Denied(c, s)) =>
               r.b = IF Denied(c, s) THEN 0 ELSE c[s].dutyB

\* Connected outputs run the settings in force on every timer, none a mixture of two sets, and
\* no leg of a pair can conduct through both its switches: it is complementary with its dead
\* time, or off (pwm_utils.cpp 416-543, 620-682, 872-888, 1056-1186).
TimersFollow ==
  outen => \A s \in Submodules :
    /\ Follows(active[s], ptCfg, s)
    /\ IsPair(ptCfg[s].pair) =>
         \/ s \in complementary /\ (ptCfg[s].pair = "half" => active[s].gap = ptCfg[s].dead)
         \/ s \notin complementary /\ active[s].a = 0 /\ active[s].b = 0
    /\ ~IsPair(ptCfg[s].pair) => s \notin complementary

\* Every compare of the asymmetric mode is reached by the counter in its order, and the period
\* is the frequency asked for to the nearest tick of the fastest clock that fits
\* (pwm_timing.h 63-68).
EdgesAreReached(f, duty, pre, post) ==
  LET t == Timings(f, duty, pre, post)  clock == BusClock \div 2^t.prescaler
  IN t.valid =>
       /\ t.last <= MaxCounter
       /\ 0 = t.a[1] /\ t.a[1] < t.a[2] /\ t.a[2] <= t.last
       /\ 0 <= t.b[1] /\ t.b[1] < t.b[2] /\ t.b[2] <= t.last
       /\ 2 * ((t.last + 1) * f - clock) \in -f..f
       /\ \A faster \in 0..(t.prescaler - 1) : (BusClock \div 2^faster) \div f > MaxCounter
=============================================================================
