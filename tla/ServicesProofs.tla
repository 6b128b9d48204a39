--------------------------- MODULE ServicesProofs ---------------------------
(***************************************************************************)
(* What the services of loop() promise, for every value of the constants   *)
(* of their modules.  A step moves one service, so the proof about one is  *)
(* an inductive invariant of its module, carried through the composition.  *)
(* Here: the monitor, the thermal supervisor and the tracker, the clock    *)
(* and the configuration store, which is also explored and proved on its   *)
(* own (Spec of ConfigStore).                                              *)
(*                                                                         *)
(* The theorems of the store assume SafeFaults: writing, keeping the old   *)
(* file and the swap may fail at any time.  Without it they are false: a   *)
(* promotion, a removal or a restoration that fails can cost the last good *)
(* document (run store_promote; see README).                               *)
(***************************************************************************)
EXTENDS Services, TLAPS, SequenceTheorems, FiniteSetTheorems

\* A step of the composition.
Step == [ServicesNext]_servicesVars

\* No step changes which service moves.
LEMMA FocusStays == Step => focus' = focus
BY Zenon DEF Step, ServicesNext, Rest, servicesVars

\* The input a pure function is tried with stays the one it was at first.
LEMMA InputStays == Step => input' = input
BY Zenon DEF Step, ServicesNext, Rest, servicesVars

-----------------------------------------------------------------------------
\* Division with remainder.
LEMMA Remainder ==
  ASSUME NEW s \in Nat \ {0}, NEW x \in Nat
  PROVE  (x % s \in 0..(s - 1)) /\ \E q \in Nat : x = s * q + (x % s)
<1>1. x = s * (x \div s) + (x % s) /\ x \div s \in Nat /\ x % s \in 0..(s - 1) BY SMTT(20)
<1>2. QED BY <1>1, Zenon

\* A remainder of a number below the modulus is the number.
LEMMA SmallRemainder ==
  ASSUME NEW n \in Int, NEW w \in Nat \ {0}
  PROVE  n % w \in 0..w-1 /\ (n \in 0..w-1 => n % w = n)
BY SMT

\* A set of numbers from 1 to n that is not empty has a smallest one: otherwise the step to
\* the next number would map what lies above the set onto itself, and not one to one.
LEMMA Smallest ==
  ASSUME NEW n \in Nat, NEW T \in SUBSET (1..n), T # {}
  PROVE  \E x \in T : \A y \in T : x <= y
<1> DEFINE U == {x \in 1..n : \E t \in T : t <= x}
           f == [x \in U |-> IF x = n THEN n ELSE x + 1]
<1>1. SUFFICES ASSUME \A x \in T : \E y \in T : y < x PROVE FALSE OBVIOUS
<1>2. PICK t \in T : TRUE OBVIOUS
<1>3. ASSUME NEW x \in U PROVE x - 1 \in U
  <2>1. PICK s \in T : s <= x OBVIOUS
  <2>2. PICK r \in T : r < s BY <1>1
  <2>3. r \in 1..n /\ s \in 1..n OBVIOUS
  <2>4. x - 1 \in 1..n /\ r <= x - 1 BY <2>1, <2>2, <2>3
  <2>5. QED BY <2>4
<1>4. n \in U BY <1>2
<1>5. n - 1 \in U BY <1>3, <1>4
<1>6. f \in [U -> U]
  <2>1. ASSUME NEW x \in U, x # n PROVE x + 1 \in U
    <3>1. PICK s \in T : s <= x OBVIOUS
    <3>2. x + 1 \in 1..n /\ s <= x + 1 BY <2>1, <3>1
    <3>3. QED BY <3>2
  <2>2. QED BY <1>4, <2>1
<1>7. \A y \in U : \E x \in U : f[x] = y
  <2>1. SUFFICES ASSUME NEW y \in U PROVE \E x \in U : f[x] = y OBVIOUS
  <2>2. y - 1 \in U /\ y \in 1..n BY <1>3
  <2>3. f[y - 1] = y BY <2>2
  <2>4. QED BY <2>2, <2>3
<1>8. f[n] = n /\ f[n - 1] = n BY <1>4, <1>5
<1> HIDE DEF f
<1>9. f \in Surjection(U, U) BY <1>6, <1>7, Zenon DEF Surjection
<1>10. IsFiniteSet(U)
  <2>1. IsFiniteSet(1..n) BY FS_Interval
  <2>2. U \subseteq 1..n OBVIOUS
  <2> HIDE DEF U
  <2>3. QED BY <2>1, <2>2, FS_Subset, Zenon
<1> HIDE DEF U
<1>11. f \in Injection(U, U) BY <1>9, <1>10, FS_SurjSameCardinalityImpliesInj, Zenon
<1>12. n = n - 1
  BY <1>4, <1>5, <1>8, <1>11, Zenon DEF Injection, IsInjective
<1>13. QED BY <1>12

(* The power monitor.                                                      *)

\* Edges are in the hands of a pass only while it runs, it runs only on an enabled monitor,
\* and energy has a starting point only when nothing went unobserved since.
PassesInv ==
  /\ pmGap \in BOOLEAN
  /\ IF passing THEN pmEnabled ELSE events = {}
  /\ pmEnabled /\ mark => ~pmGap

\* What every step of the monitor keeps.
MonitorInv == Monitor!TypeOK /\ PassesInv /\ Monitor!MonitorIsHonest

\* When the power monitor is in focus, a step is one of its own.
LEMMA MonitorMoves == Step /\ focus = "monitor" => [Monitor!Next]_monitorAll
BY Zenon DEF Step, ServicesNext, Rest, servicesVars

\* What the chip and the readings are set to.
LEMMA MonitorRecords ==
  /\ \A w \in {"absent", "fresh", "programmed"}, l \in BOOLEAN :
       [is |-> w, latched |-> l] \in [is : {"absent", "fresh", "programmed"}, latched : BOOLEAN]
  /\ Monitor!NoReadings \in [valid : BOOLEAN, good : BOOLEAN, alert : BOOLEAN]
  /\ Monitor!NoReadings.valid = FALSE
BY DEF Monitor!NoReadings

\* At boot no pass runs and no sample is marked.
LEMMA MonitorStarts == Monitor!Init => MonitorInv
<1> SUFFICES ASSUME Monitor!Init PROVE MonitorInv OBVIOUS
<1>1. /\ chip \in [is : {"absent", "fresh", "programmed"}, latched : BOOLEAN]
      /\ last \in [valid : BOOLEAN, good : BOOLEAN, alert : BOOLEAN] /\ last.valid = FALSE
  BY MonitorRecords DEF Monitor!Init
<1>2. pins \in [good : BOOLEAN, alert : BOOLEAN] BY DEF Monitor!Init
<1>3. Monitor!TypeOK BY <1>1, <1>2 DEF Monitor!Init, Monitor!TypeOK
<1>4. PassesInv BY Zenon DEF Monitor!Init, PassesInv
<1>5. Monitor!MonitorIsHonest
  BY <1>1 DEF Monitor!Init, Monitor!MonitorIsHonest, Monitor!EdgesAreNotLost,
     Monitor!EnergyIsObserved
<1>6. QED BY <1>3, <1>4, <1>5 DEF MonitorInv

\* What programming the chip leaves.
LEMMA Programming ==
  ASSUME Monitor!TypeOK, NEW ok \in BOOLEAN, Monitor!Programmed(ok)
  PROVE  /\ online' \in BOOLEAN
         /\ chip' \in [is : {"absent", "fresh", "programmed"}, latched : BOOLEAN]
         /\ pins' \in [good : BOOLEAN, alert : BOOLEAN]
<1>1. CASE ok BY <1>1, MonitorRecords DEF Monitor!TypeOK, Monitor!Programmed
<1>2. CASE ~ok BY <1>2 DEF Monitor!TypeOK, Monitor!Programmed
<1>3. QED BY <1>1, <1>2

\* What the end of a pass does with the chip and the readings, whatever it finds.
LEMMA PassEnds ==
  ASSUME MonitorInv, pmEnabled,
         Monitor!Offline \/ Monitor!NotDue \/ Monitor!CommsLost \/ Monitor!Reading
  PROVE  /\ online' \in BOOLEAN /\ mark' \in BOOLEAN /\ pmGap' \in BOOLEAN /\ ~added'
         /\ chip' \in [is : {"absent", "fresh", "programmed"}, latched : BOOLEAN]
         /\ pins' \in [good : BOOLEAN, alert : BOOLEAN]
         /\ last' \in [valid : BOOLEAN, good : BOOLEAN, alert : BOOLEAN]
         /\ mark' => ~pmGap'
         /\ last'.valid => online'
<1> USE DEF MonitorInv, Monitor!TypeOK, PassesInv, Monitor!MonitorIsHonest,
        Monitor!EnergyIsObserved, Monitor!Sampled
<1>1. CASE Monitor!Offline
  <2>1. /\ last' = [Monitor!Sampled EXCEPT !.valid = FALSE] /\ mark' = FALSE /\ pmGap' = TRUE
        /\ added' = added
    BY <1>1, Zenon DEF Monitor!Offline
  <2>2. last' \in [valid : BOOLEAN, good : BOOLEAN, alert : BOOLEAN] /\ ~last'.valid
    BY <2>1
  <2>3. UNCHANGED <<chip, pins, online>> \/ \E ok \in BOOLEAN : Monitor!Programmed(ok)
    BY <1>1, Zenon DEF Monitor!Offline
  <2>4. /\ online' \in BOOLEAN
        /\ chip' \in [is : {"absent", "fresh", "programmed"}, latched : BOOLEAN]
        /\ pins' \in [good : BOOLEAN, alert : BOOLEAN]
    BY <2>3, Programming
  <2>5. QED BY <2>1, <2>2, <2>4
<1>2. CASE Monitor!NotDue BY <1>2 DEF Monitor!NotDue
<1>3. CASE Monitor!CommsLost BY <1>3 DEF Monitor!CommsLost, Monitor!Lost
<1>4. CASE Monitor!Reading BY <1>4 DEF Monitor!Reading
<1>5. QED BY <1>1, <1>2, <1>3, <1>4

\* Every step of the board and of the task keeps the invariant.
LEMMA MonitorStep == MonitorInv /\ [Monitor!Next]_monitorAll => MonitorInv'
<1> SUFFICES ASSUME MonitorInv, [Monitor!Next]_monitorAll PROVE MonitorInv'
  OBVIOUS
<1> USE DEF MonitorInv, Monitor!TypeOK, PassesInv, Monitor!MonitorIsHonest,
        Monitor!EdgesAreNotLost, Monitor!EnergyIsObserved
<1>1. CASE UNCHANGED monitorAll BY <1>1 DEF monitorAll
<1>2. CASE Monitor!GoodChanges BY <1>2 DEF Monitor!GoodChanges, Monitor!Edge
<1>3. CASE Monitor!Overcurrent BY <1>3 DEF Monitor!Overcurrent, Monitor!Edge
<1>4. CASE Monitor!Unplugged \/ Monitor!Plugged
  <2>1. chip' \in [is : {"absent", "fresh", "programmed"}, latched : BOOLEAN]
        /\ pins' \in [good : BOOLEAN, alert : BOOLEAN]
    BY <1>4, MonitorRecords DEF Monitor!Unplugged, Monitor!Plugged
  <2>2. QED BY <1>4, <2>1 DEF Monitor!Unplugged, Monitor!Plugged
<1>5. ASSUME NEW en \in BOOLEAN, Monitor!Configure(en) PROVE MonitorInv'
  <2>1. /\ passing = FALSE /\ pmEnabled' = en /\ last' = Monitor!NoReadings /\ pinEvents' = {}
        /\ owed' = {} /\ pmGap' = TRUE /\ UNCHANGED <<events, passing, added>>
        /\ \/ mark' = FALSE /\ \E ok \in BOOLEAN : Monitor!Programmed(ok)
           \/ ~en /\ online' = FALSE /\ UNCHANGED <<chip, pins, mark>>
    BY <1>5 DEF Monitor!Configure
  <2>2. /\ online' \in BOOLEAN /\ mark' \in BOOLEAN
        /\ chip' \in [is : {"absent", "fresh", "programmed"}, latched : BOOLEAN]
        /\ pins' \in [good : BOOLEAN, alert : BOOLEAN]
    BY <2>1, Programming
  <2>3. last' \in [valid : BOOLEAN, good : BOOLEAN, alert : BOOLEAN] /\ last'.valid = FALSE
    BY <2>1, MonitorRecords
  <2>4. Monitor!TypeOK' BY <1>5, <2>1, <2>2, <2>3
  <2>5. PassesInv' BY <2>1
  <2>6. Monitor!MonitorIsHonest' BY <2>1, <2>3
  <2>7. QED BY <2>4, <2>5, <2>6
<1>6. CASE Monitor!TakeEvents BY <1>6 DEF Monitor!TakeEvents
<1>7. CASE Monitor!Pass
  <2>1. /\ passing /\ pmEnabled /\ ~passing' /\ passing' \in BOOLEAN /\ events' = {}
        /\ owed' = owed \ Monitor!Reported /\ UNCHANGED <<pmEnabled, pinEvents>>
    BY <1>7 DEF Monitor!Pass
  <2>2. Monitor!Offline \/ Monitor!NotDue \/ Monitor!CommsLost \/ Monitor!Reading
    BY <1>7, Zenon DEF Monitor!Pass
  <2>3. owed' \subseteq pinEvents' BY <2>1 DEF Monitor!Reported
  <2> HIDE DEF MonitorInv
  <2>4. /\ online' \in BOOLEAN /\ mark' \in BOOLEAN /\ pmGap' \in BOOLEAN /\ ~added'
        /\ chip' \in [is : {"absent", "fresh", "programmed"}, latched : BOOLEAN]
        /\ pins' \in [good : BOOLEAN, alert : BOOLEAN]
        /\ last' \in [valid : BOOLEAN, good : BOOLEAN, alert : BOOLEAN]
        /\ mark' => ~pmGap'
        /\ last'.valid => online'
    BY <2>1, <2>2, PassEnds
  <2>5. QED BY <2>1, <2>3, <2>4 DEF MonitorInv
<1>8. QED BY <1>1, <1>2, <1>3, <1>4, <1>5, <1>6, <1>7, Zenon DEF Monitor!Next

\* However long the loop is away and whatever is unplugged, no edge is lost before a pass
\* reports it, no energy is added over a time nobody measured, and a valid reading is one of
\* a chip that answered (powerMonitorTask, samplePins).
THEOREM MonitorStaysHonest == ServicesSpec => []MonitorIsHonest
<1> DEFINE Inv == focus = "monitor" => MonitorInv
<1>1. ServicesInit => Inv BY MonitorStarts, Zenon DEF ServicesInit
<1>2. Inv /\ Step => Inv' BY FocusStays, MonitorMoves, MonitorStep, Zenon
<1>3. Inv => MonitorIsHonest BY Zenon DEF MonitorIsHonest, MonitorInv
<1> HIDE DEF Inv
<1>4. QED BY <1>1, <1>2, <1>3, PTL DEF ServicesSpec, Step

-----------------------------------------------------------------------------
(* The probes and the derating.                                            *)

\* A sample in force is a sample of an enabled supervisor, with a reading of the die, and
\* sets the derating.
HeatInv ==
  /\ Heat!TypeOK /\ Heat!DerateCoversEveryProbe
  /\ scratch \in [Heat!Probes -> 0..1]
  /\ on \in BOOLEAN /\ inhibited \in BOOLEAN /\ valid \in BOOLEAN /\ thApplied = on
  /\ on /\ valid => reading["die"] # Heat!Nothing /\ derate = Heat!Derate(Heat!Worst(reading))

\* When the supervisor is in focus, a step is one of its own.
LEMMA HeatMoves == Step /\ focus = "heat" => [Heat!Next]_heatAll
BY Zenon DEF Step, ServicesNext, Rest, servicesVars

\* The worst reading is one of them, and none is above it.
LEMMA WorstIsHottest ==
  ASSUME NEW r \in [Heat!Sensors -> -1..1]
  PROVE  /\ \A s \in Heat!Sensors : r[s] <= Heat!Worst(r)
         /\ \E s \in Heat!Sensors : Heat!Worst(r) = r[s]
<1> DEFINE Top(t) == t \in {r[s] : s \in Heat!Sensors} /\ \A s \in Heat!Sensors : r[s] <= t
<1>1. Heat!Sensors = {"lower", "higher", "die"} BY DEF Heat!Sensors, Heat!Probes
<1>2. r["lower"] \in -1..1 /\ r["higher"] \in -1..1 /\ r["die"] \in -1..1 BY <1>1
<1>3. \E s \in Heat!Sensors : \A u \in Heat!Sensors : r[u] <= r[s] BY <1>1, <1>2
<1>4. \E t : Top(t) BY <1>3
<1>5. Heat!Worst(r) = CHOOSE t : Top(t) BY Zenon DEF Heat!Worst
<1>6. Top(Heat!Worst(r)) BY <1>4, <1>5, Zenon
<1>7. QED BY <1>6

\* A derating taken from readings, the die among them, covers each of them.
LEMMA DeratingCovers ==
  ASSUME NEW r \in [Heat!Sensors -> -1..1], r["die"] # Heat!Nothing
  PROVE  /\ Heat!Derate(Heat!Worst(r)) \in 0..1
         /\ \A s \in Heat!Sensors : Heat!Derate(Heat!Worst(r)) <= Heat!Derate(r[s])
<1>1. "die" \in Heat!Sensors /\ \A s \in Heat!Sensors : r[s] \in -1..1
  BY DEF Heat!Sensors
<1>2. Heat!Worst(r) \in 0..1 BY <1>1, WorstIsHottest DEF Heat!Nothing
<1>3. QED BY <1>1, <1>2, WorstIsHottest DEF Heat!Derate

\* At boot the supervisor trusts no probe.
LEMMA HeatStarts == Heat!ConstantsOK /\ Heat!Init => HeatInv
<1> SUFFICES ASSUME Heat!ConstantsOK, Heat!Init PROVE HeatInv OBVIOUS
<1>1. Heat!TypeOK
  BY DEF Heat!ConstantsOK, Heat!Init, Heat!TypeOK, Heat!Sensors, Heat!Nothing
<1>2. Heat!DerateCoversEveryProbe BY Zenon DEF Heat!Init, Heat!DerateCoversEveryProbe
<1>3. scratch \in [Heat!Probes -> 0..1] BY DEF Heat!Init, Heat!PowerUp
<1>4. on = FALSE /\ inhibited = TRUE /\ valid = TRUE /\ thApplied = FALSE BY DEF Heat!Init
<1>5. QED BY <1>1, <1>2, <1>3, <1>4, Zenon DEF HeatInv

\* Time, releases, applies, requests and harvests keep the invariant.
LEMMA HeatStep == Heat!ConstantsOK /\ HeatInv /\ [Heat!Next]_heatAll => HeatInv'
<1> SUFFICES ASSUME Heat!ConstantsOK, HeatInv, [Heat!Next]_heatAll PROVE HeatInv'
  OBVIOUS
<1> USE DEF HeatInv, Heat!TypeOK, Heat!DerateCoversEveryProbe
<1>1. CASE UNCHANGED heatAll BY <1>1 DEF heatAll
<1>2. CASE Heat!Tick BY <1>2 DEF Heat!Tick, Heat!Least, Heat!ConstantsOK
<1>3. CASE Heat!Release \/ Heat!Stop
  <2>1. Heat!TypeOK' BY <1>3 DEF Heat!Release, Heat!Stop
  <2>2. Heat!DerateCoversEveryProbe' BY <1>3, Zenon DEF Heat!Release, Heat!Stop
  <2>3. inhibited' \in BOOLEAN /\ UNCHANGED <<on, valid, thApplied, reading, derate, scratch>>
    BY <1>3 DEF Heat!Release, Heat!Stop
  <2>4. QED BY <2>1, <2>2, <2>3 DEF Heat!Derate
<1>4. CASE Heat!ConfigureOff
  <2>1. Heat!TypeOK' BY <1>4 DEF Heat!ConfigureOff, Heat!Sensors, Heat!Nothing
  <2>2. Heat!DerateCoversEveryProbe' BY <1>4, Zenon DEF Heat!ConfigureOff
  <2>3. on' = FALSE /\ thApplied' = FALSE /\ valid' = TRUE /\ UNCHANGED <<inhibited, scratch>>
    BY <1>4 DEF Heat!ConfigureOff
  <2>4. QED BY <2>1, <2>2, <2>3, Zenon
<1>5. ASSUME NEW b \in Buses, Heat!ConfigureOn(b) PROVE HeatInv'
  <2>1. /\ on' = TRUE /\ thApplied' = TRUE /\ UNCHANGED <<sinceRequest, sinceRescan, reading>>
        /\ cached' \subseteq Heat!Probes /\ scratch' \in [Heat!Probes -> 0..1]
    BY <1>5 DEF Heat!ConfigureOn, Heat!PowerUp
  <2>2. CASE Heat!KeepsSample(b)
    <3>1. /\ inhibited' = inhibited /\ valid' = TRUE /\ on /\ valid
          /\ derate' = Heat!Derate(Heat!Worst(reading))
      BY <1>5, <2>2 DEF Heat!ConfigureOn, Heat!KeepsSample
    <3>2. derate' = derate BY <3>1
    <3>3. QED BY <2>1, <3>1, <3>2
  <2>3. CASE ~Heat!KeepsSample(b)
    <3>1. inhibited' = TRUE /\ valid' = FALSE /\ derate' = 0
      BY <1>5, <2>3 DEF Heat!ConfigureOn
    <3>2. Heat!TypeOK' BY <2>1, <3>1
    <3>3. Heat!DerateCoversEveryProbe' BY <3>1, Zenon
    <3>4. QED BY <2>1, <3>1, <3>2, <3>3, Zenon
  <2>4. QED BY <2>2, <2>3
<1>6. CASE Heat!Request BY <1>6 DEF Heat!Request, Heat!ConstantsOK
<1>7. CASE Heat!Harvest
  <2>1. PICK there \in SUBSET Heat!Probes, die \in 0..1 :
          LET search == cached # Heat!Probes /\ sinceRescan >= RescanTicks
              known == IF search THEN there ELSE cached \intersect there
          IN /\ sinceRescan' = IF search THEN 0 ELSE sinceRescan
             /\ reading' = [s \in Heat!Sensors |-> IF s = "die" THEN die
                                              ELSE IF s \in known THEN scratch[s] ELSE Heat!Nothing]
             /\ cached' = known
    BY <1>7, Zenon DEF Heat!Harvest
  <2>2. PICK known \in SUBSET Heat!Probes :
          /\ cached' = known
          /\ reading' = [s \in Heat!Sensors |-> IF s = "die" THEN die
                                           ELSE IF s \in known THEN scratch[s] ELSE Heat!Nothing]
    <3>1. cached \intersect there \in SUBSET Heat!Probes OBVIOUS
    <3>2. QED BY <2>1, <3>1
  <2>3. reading' \in [Heat!Sensors -> -1..1] /\ reading'["die"] # Heat!Nothing
    BY <2>2 DEF Heat!Sensors, Heat!Nothing
  <2>4. PICK r \in [Heat!Sensors -> -1..1] : r = reading' BY <2>3
  <2>5. /\ Heat!Derate(Heat!Worst(r)) \in 0..1
        /\ \A s \in Heat!Sensors : Heat!Derate(Heat!Worst(r)) <= Heat!Derate(r[s])
    BY <2>3, <2>4, DeratingCovers
  <2>6. /\ valid' = (cached' # {})
        /\ derate' = IF valid' THEN Heat!Derate(Heat!Worst(r)) ELSE 0
        /\ on /\ inhibited /\ UNCHANGED <<on, inhibited, scratch, thApplied, sinceRequest>>
    BY <1>7, <2>4 DEF Heat!Harvest
  <2>7. sinceRescan' \in 0..RescanTicks BY <2>1 DEF Heat!ConstantsOK
  <2>8. QED BY <2>2, <2>3, <2>4, <2>5, <2>6, <2>7
<1>8. QED BY <1>1, <1>2, <1>3, <1>4, <1>5, <1>6, <1>7, Zenon DEF Heat!Next

-----------------------------------------------------------------------------
(* The search for the maximum power point.                                 *)

\* How far a side of the plateau has been walked: x from where the gradient was last seen,
\* with a wall of the range that far from there, f flat intervals since the last turn.  A
\* wall near enough bounds the walk; walking away, every interval was one of the f; walking
\* back, the turn comes after the way back.
Walked(x, ahead, away, f, s) ==
  \/ ahead <= FlatCap * s
  \/ away /\ x <= (f + 1) * s
  \/ ~away /\ (x = 0 \/ x + f * s <= (FlatCap - 1) * s)

\* While the tracker runs above its floor, where it is follows from where its walk began.
WalkInv ==
  /\ entry \in 0..Highest
  /\ trEnabled /\ entry >= Lowest =>
       /\ index >= Lowest
       /\ index >= entry => Walked(index - entry, Highest - entry, dir = 1, flat, step)
       /\ index <= entry => Walked(entry - index, entry - Lowest, dir = -1, flat, step)

\* What every step of the tracker keeps.
SearchInv == Search!TypeOK /\ Search!DeratedAtOnce /\ WalkInv

\* When the tracker is in focus, a step is one of its own.
LEMMA SearchMoves == Step /\ focus = "search" => [Search!Next]_searchAll
BY Zenon DEF Step, ServicesNext, Rest, servicesVars

\* What a count of intervals is worth in index.
LEMMA Intervals ==
  ASSUME FlatCap \in Nat \ {0}, NEW f \in 0..(FlatCap - 1), NEW s \in Nat
  PROVE  /\ f * s \in Nat /\ FlatCap * s \in Nat
         /\ (f + 1) * s = f * s + s /\ (FlatCap - 1) * s = FlatCap * s - s
         /\ f * s + s <= FlatCap * s
         /\ f + 1 = FlatCap => f * s + s = FlatCap * s
         /\ f + 1 < FlatCap => f * s + 2 * s <= FlatCap * s /\ (f + 1 + 1) * s = f * s + 2 * s
         /\ (0 + 1) * s = s /\ 0 * s = 0
<1>1. f * s \in Nat /\ FlatCap * s \in Nat BY SMTT(20)
<1>2. (f + 1) * s = f * s + s /\ (FlatCap - 1) * s = FlatCap * s - s
      /\ (f + 1 + 1) * s = f * s + 2 * s
  BY SMTT(20)
<1>3. ASSUME NEW n \in Nat, n <= FlatCap PROVE n * s <= FlatCap * s
  BY <1>3, SMTT(20)
<1>4. (f + 1) * s <= FlatCap * s BY <1>3
<1>5. f + 1 < FlatCap => (f + 1 + 1) * s <= FlatCap * s BY <1>3
<1>6. f + 1 = FlatCap => f * s + s = FlatCap * s BY <1>2
<1>7. (0 + 1) * s = s /\ 0 * s = 0 BY SMTT(20)
<1>8. QED BY <1>1, <1>2, <1>4, <1>5, <1>6, <1>7

\* The walk is bounded.
LEMMA WalkIsBounded == Search!ConstantsOK /\ SearchInv => Search!WanderIsBounded
<1> SUFFICES ASSUME Search!ConstantsOK, SearchInv, trEnabled, index >= Lowest, entry >= Lowest
             PROVE  Search!Away(index, entry) <= FlatCap * step
  BY DEF Search!WanderIsBounded
<1>1. /\ FlatCap \in Nat \ {0} /\ flat \in 0..(FlatCap - 1) /\ step \in Nat /\ index \in Nat
      /\ index <= Highest /\ Highest \in Nat /\ Lowest \in Nat
  BY DEF Search!ConstantsOK, SearchInv, Search!TypeOK
<1>2. PICK f \in 0..(FlatCap - 1), s \in Nat : f = flat /\ s = step BY <1>1
<1>3. /\ f * s \in Nat /\ FlatCap * s \in Nat
      /\ (f + 1) * s = f * s + s /\ (FlatCap - 1) * s = FlatCap * s - s
      /\ f * s + s <= FlatCap * s
  BY <1>1, Intervals
<1>4. entry \in Int BY <1>1 DEF SearchInv, WalkInv
<1>5. QED BY <1>1, <1>2, <1>3, <1>4 DEF SearchInv, WalkInv, Walked, Search!Away

-----------------------------------------------------------------------------
\* An interval of s on the plateau takes the search from x to y on a side with a wall that far
\* from where the gradient was last seen, and another behind: it heads on or turns, walls turn
\* it around, and it may come out on the other side.
Moves(x, y, ahead, behind, head, out, f, f2, s) ==
  LET way == IF f + 1 >= FlatCap THEN -head ELSE head
      reach == IF way = 1 THEN x + s ELSE x - s
  IN /\ x <= ahead /\ 0 < ahead + behind
     /\ f2 = IF f + 1 < FlatCap THEN f + 1 ELSE 0
     /\ y = IF reach > ahead THEN ahead ELSE IF reach < -behind THEN -behind ELSE reach
     /\ out = IF y = ahead THEN -1 ELSE IF y = -behind THEN 1 ELSE way

\* It has not walked too far on either side.
LEMMA FlatMove ==
  ASSUME FlatCap \in Nat \ {0}, NEW f \in 0..(FlatCap - 1), NEW f2, NEW s \in Nat,
         NEW x \in Nat, NEW y \in Int, NEW ahead \in Nat, NEW behind \in Nat,
         NEW head \in {-1, 1}, NEW out \in {-1, 1},
         Moves(x, y, ahead, behind, head, out, f, f2, s), Walked(x, ahead, head = 1, f, s)
  PROVE  /\ y >= 0 => Walked(y, ahead, out = 1, f2, s)
         /\ y <= 0 => Walked(-y, behind, out = -1, f2, s)
<1> DEFINE way == IF f + 1 >= FlatCap THEN -head ELSE head
<1> DEFINE reach == IF way = 1 THEN x + s ELSE x - s
<1>0. /\ x <= ahead /\ 0 < ahead + behind
      /\ f2 = IF f + 1 < FlatCap THEN f + 1 ELSE 0
      /\ y = IF reach > ahead THEN ahead ELSE IF reach < -behind THEN -behind ELSE reach
      /\ out = IF y = ahead THEN -1 ELSE IF y = -behind THEN 1 ELSE way
  BY Zenon DEF Moves
<1> HIDE DEF way, reach
<1>w. way \in {-1, 1} /\ way = (IF f + 1 >= FlatCap THEN -head ELSE head) BY DEF way
<1>r. reach \in Int /\ reach = IF way = 1 THEN x + s ELSE x - s BY DEF reach
<1>1. /\ f * s \in Nat /\ FlatCap * s \in Nat
      /\ (f + 1) * s = f * s + s /\ (FlatCap - 1) * s = FlatCap * s - s
      /\ f * s + s <= FlatCap * s
      /\ f + 1 = FlatCap => f * s + s = FlatCap * s
      /\ f + 1 < FlatCap => f * s + 2 * s <= FlatCap * s /\ (f + 1 + 1) * s = f * s + 2 * s
      /\ (0 + 1) * s = s /\ 0 * s = 0
  BY Intervals
<1>2. PICK p \in Nat, q \in Nat : p = f * s /\ q = FlatCap * s BY <1>1
<1>3. \/ ahead <= q
      \/ head = 1 /\ x <= p + s
      \/ head = -1 /\ (x = 0 \/ x + p <= q - s)
  BY <1>1, <1>2 DEF Walked
<1>4. ASSUME NEW z \in Int, NEW w \in Int, NEW o \in {-1, 1}
      PROVE  Walked(z, w, out = o, f2, s) <=>
               \/ w <= q
               \/ out = o /\ z <= (f2 + 1) * s
               \/ out # o /\ (z = 0 \/ z + f2 * s <= q - s)
  BY <1>1, <1>2 DEF Walked
<1>5. CASE f + 1 = FlatCap
  <2>1. f2 = 0 /\ (f2 + 1) * s = s /\ f2 * s = 0 /\ p + s = q /\ way = -head
    BY <1>0, <1>1, <1>2, <1>5, <1>w
  <2>2. y >= 0 => Walked(y, ahead, out = 1, f2, s) BY <1>0, <1>3, <1>4, <1>w, <1>r, <2>1
  <2>3. y <= 0 => Walked(-y, behind, out = -1, f2, s) BY <1>0, <1>3, <1>4, <1>w, <1>r, <2>1
  <2>4. QED BY <2>2, <2>3
<1>6. CASE f + 1 < FlatCap
  <2>1. f2 = f + 1 /\ (f2 + 1) * s = p + 2 * s /\ f2 * s = p + s /\ p + 2 * s <= q /\ way = head
    BY <1>0, <1>1, <1>2, <1>6, <1>w
  <2>2. y >= 0 => Walked(y, ahead, out = 1, f2, s) BY <1>0, <1>3, <1>4, <1>w, <1>r, <2>1
  <2>3. y <= 0 => Walked(-y, behind, out = -1, f2, s) BY <1>0, <1>3, <1>4, <1>w, <1>r, <2>1
  <2>4. QED BY <2>2, <2>3
<1>7. QED BY <1>5, <1>6

\* An interval that does not lie on the plateau, or that is cut off by the ceiling, starts
\* the walk over: at most one step from where the gradient is seen now.
LEMMA FreshWalk ==
  ASSUME Search!ConstantsOK, NEW f \in 0..(FlatCap - 1), NEW s \in Nat,
         NEW e \in Lowest..Highest, NEW i \in Lowest..Highest, NEW d \in {-1, 1},
         \/ i = e
         \/ i > e /\ i - e <= s /\ (d = 1 \/ i = Highest)
         \/ i < e /\ e - i <= s /\ (d = -1 \/ i = Lowest)
  PROVE  /\ i >= e => Walked(i - e, Highest - e, d = 1, f, s)
         /\ i <= e => Walked(e - i, e - Lowest, d = -1, f, s)
<1>1. /\ FlatCap \in Nat \ {0} /\ Lowest \in Nat /\ Highest \in Nat BY DEF Search!ConstantsOK
<1>2. /\ f * s \in Nat /\ FlatCap * s \in Nat
      /\ (f + 1) * s = f * s + s /\ (FlatCap - 1) * s = FlatCap * s - s
      /\ f * s + s <= FlatCap * s
  BY <1>1, Intervals
<1>3. QED BY <1>1, <1>2 DEF Walked

\* At boot the tracker is off.
LEMMA SearchStarts == Search!ConstantsOK /\ Search!Init => SearchInv
<1> SUFFICES ASSUME Search!ConstantsOK, Search!Init PROVE SearchInv OBVIOUS
<1>1. {trEnabled, trActive, metered, primed, stepping} \subseteq BOOLEAN
  <2>1. /\ trEnabled \in BOOLEAN /\ trActive \in BOOLEAN /\ metered \in BOOLEAN
        /\ primed \in BOOLEAN /\ stepping \in BOOLEAN
    BY DEF Search!Init
  <2>2. QED BY <2>1
<1>4. Search!TypeOK /\ Search!DeratedAtOnce
  BY <1>1 DEF Search!ConstantsOK, Search!Init, Search!TypeOK, Search!DeratedAtOnce
<1>2. WalkInv BY DEF Search!ConstantsOK, Search!Init, WalkInv
<1>3. QED BY <1>4, <1>2 DEF SearchInv

\* A search that starts where the output is has walked nowhere.
LEMMA SearchRestarts ==
  ASSUME Search!ConstantsOK, Search!TypeOK', WalkInv,
         \/ index' = entry' /\ entry' \in 0..Highest
         \/ ~trEnabled' /\ entry' = entry
  PROVE  WalkInv'
<1>1. CASE ~trEnabled' /\ entry' = entry BY <1>1 DEF WalkInv
<1>2. CASE index' = entry' /\ entry' \in 0..Highest
  <2>1. SUFFICES ASSUME entry' >= Lowest
                 PROVE  /\ Walked(0, Highest - entry', dir' = 1, flat', step')
                        /\ Walked(0, entry' - Lowest, dir' = -1, flat', step')
    BY <1>2 DEF WalkInv, Search!ConstantsOK
  <2>2. PICK f \in 0..(FlatCap - 1), s \in Nat : f = flat' /\ s = step'
    BY DEF Search!TypeOK, Search!ConstantsOK
  <2>3. FlatCap \in Nat \ {0} /\ dir' \in {-1, 1} BY DEF Search!ConstantsOK, Search!TypeOK
  <2>4. f * s \in Nat /\ (f + 1) * s = f * s + s BY <2>3, Intervals
  <2>5. 0 <= (f + 1) * s BY <2>4
  <2>6. 0 <= (flat' + 1) * step' BY <2>2, <2>5, Zenon
  <2>7. QED BY <2>3, <2>6, Zenon DEF Walked
<1>3. QED BY <1>1, <1>2

\* The step of the search and its counters stay in their ranges.
LEMMA SearchCounters ==
  ASSUME Search!ConstantsOK, Search!TypeOK, NEW d \in Search!Deltas
  PROVE  /\ Search!Turned(d) \in {-1, 1} /\ Search!Sized(d) \in StepLeast..StepMost
         /\ Search!Grown(d) \in 0..1 /\ Search!Flattened(d) \in 0..(FlatCap - 1)
         /\ d # "flat" => Search!Flattened(d) = 0
         /\ d = "flat" => /\ Search!Sized(d) = step
                          /\ Search!Turned(d) = IF flat + 1 >= FlatCap THEN -dir ELSE dir
                          /\ Search!Flattened(d) = IF flat + 1 < FlatCap THEN flat + 1 ELSE 0
<1>1. /\ dir \in {-1, 1} /\ step \in StepLeast..StepMost /\ grow \in 0..1
      /\ flat \in 0..(FlatCap - 1) /\ FlatCap \in Nat \ {0}
      /\ StepLeast \in Nat /\ StepMost \in Nat /\ StepLeast <= StepMost
  BY DEF Search!ConstantsOK, Search!TypeOK
<1>2. Search!Turned(d) \in {-1, 1} BY <1>1 DEF Search!Turned
<1>3. Search!Sized(d) \in StepLeast..StepMost
  <2>1. CASE d \in {"jumpUp", "jumpDown"} BY <1>1, <2>1 DEF Search!Sized
  <2>2. CASE d = "better" /\ grow + 1 >= 2
    BY <1>1, <2>2 DEF Search!Sized, Search!Least
  <2>3. CASE d = "worse"
    <3>1. step \div 2 <= step /\ step \div 2 \in Nat BY <1>1
    <3>2. Search!Sized(d) = IF step \div 2 < StepLeast THEN StepLeast ELSE step \div 2
      BY <2>3 DEF Search!Sized
    <3>3. QED BY <1>1, <3>1, <3>2
  <2>4. CASE d \notin {"jumpUp", "jumpDown", "worse"} /\ ~(d = "better" /\ grow + 1 >= 2)
    <3>1. Search!Sized(d) = step BY <2>4 DEF Search!Sized
    <3>2. QED BY <1>1, <3>1
  <2>5. QED BY <2>1, <2>2, <2>3, <2>4
<1>4. Search!Grown(d) \in 0..1 BY <1>1 DEF Search!Grown
<1>5. Search!Flattened(d) \in 0..(FlatCap - 1) BY <1>1 DEF Search!Flattened
<1>6. d # "flat" => Search!Flattened(d) = 0 BY DEF Search!Flattened
<1>7. ASSUME d = "flat"
      PROVE  /\ Search!Sized(d) = step
             /\ Search!Turned(d) = IF flat + 1 >= FlatCap THEN -dir ELSE dir
             /\ Search!Flattened(d) = IF flat + 1 < FlatCap THEN flat + 1 ELSE 0
  BY <1>7 DEF Search!Sized, Search!Turned, Search!Flattened
<1>8. QED BY <1>2, <1>3, <1>4, <1>5, <1>6, <1>7

\* Turning round keeps a direction one.
LEMMA Opposite == \A d \in {-1, 1} : -d \in {-1, 1}
OBVIOUS

\* What an interval on the plateau does with index, direction and count.
OnPlateau(i, j, d, d2, f, f2, s) ==
  LET way == IF f + 1 >= FlatCap THEN -d ELSE d
  IN /\ f2 = IF f + 1 < FlatCap THEN f + 1 ELSE 0
     /\ j = Search!Within(IF way = 1 THEN i + s ELSE i - s, Lowest, Highest)
     /\ d2 = IF j = Highest THEN -1 ELSE IF j = Lowest THEN 1 ELSE way

\* The same interval, seen from both sides.
LEMMA PlateauStep ==
  ASSUME Search!ConstantsOK, NEW f \in 0..(FlatCap - 1), NEW s \in StepLeast..StepMost,
         NEW e \in Lowest..Highest, NEW i \in Lowest..Highest, NEW d \in {-1, 1},
         i >= e => Walked(i - e, Highest - e, d = 1, f, s),
         i <= e => Walked(e - i, e - Lowest, d = -1, f, s),
         NEW f2, NEW j \in Int, NEW d2 \in {-1, 1}, OnPlateau(i, j, d, d2, f, f2, s)
  PROVE  /\ j >= e => Walked(j - e, Highest - e, d2 = 1, f2, s)
         /\ j <= e => Walked(e - j, e - Lowest, d2 = -1, f2, s)
<1>1. /\ FlatCap \in Nat \ {0} /\ Lowest \in Nat /\ Highest \in Nat /\ Lowest < Highest
      /\ StepLeast \in Nat /\ StepMost \in Nat
  BY DEF Search!ConstantsOK
<1>2. CASE i >= e
  <2>1. PICK x \in Nat, ahead \in Nat, behind \in Nat :
          x = i - e /\ ahead = Highest - e /\ behind = e - Lowest
    BY <1>1, <1>2
  <2>2. PICK y \in Int : y = j - e BY <1>1
  <2>3. Moves(x, y, ahead, behind, d, d2, f, f2, s)
    BY <1>1, <2>1, <2>2 DEF Moves, OnPlateau, Search!Within
  <2>4. Walked(x, ahead, d = 1, f, s) BY <1>2, <2>1
  <2>5. /\ y >= 0 => Walked(y, ahead, d2 = 1, f2, s)
        /\ y <= 0 => Walked(-y, behind, d2 = -1, f2, s)
    BY <1>1, <2>3, <2>4, FlatMove
  <2>6. QED BY <1>1, <2>1, <2>2, <2>5
<1>3. CASE i <= e
  <2>1. PICK x \in Nat, ahead \in Nat, behind \in Nat :
          x = e - i /\ ahead = e - Lowest /\ behind = Highest - e
    BY <1>1, <1>3
  <2>2. PICK y \in Int : y = e - j BY <1>1
  <2>3. PICK h \in {-1, 1} : h = -d BY Opposite, Zenon
  <2>4. PICK o \in {-1, 1} : o = -d2 BY Opposite, Zenon
  <2>5. Moves(x, y, ahead, behind, h, o, f, f2, s)
    BY <1>1, <2>1, <2>2, <2>3, <2>4 DEF Moves, OnPlateau, Search!Within
  <2>6. Walked(x, ahead, h = 1, f, s)
    <3>1. (h = 1) <=> (d = -1) BY <2>3
    <3>2. Walked(x, ahead, d = -1, f, s) BY <1>3, <2>1
    <3>3. QED BY <3>1, <3>2, Zenon DEF Walked
  <2>7. /\ y >= 0 => Walked(y, ahead, o = 1, f2, s)
        /\ y <= 0 => Walked(-y, behind, o = -1, f2, s)
    BY <1>1, <2>5, <2>6, FlatMove
  <2>8. (o = 1 <=> d2 = -1) /\ (o = -1 <=> d2 = 1) BY <2>4
  <2>9. /\ y >= 0 => Walked(y, ahead, d2 = -1, f2, s)
        /\ y <= 0 => Walked(-y, behind, d2 = 1, f2, s)
    BY <2>7, <2>8, Zenon DEF Walked
  <2>10. QED BY <1>1, <2>1, <2>2, <2>9
<1>4. QED BY <1>1, <1>2, <1>3

\* The end of an interval keeps the walk and the ranges.
LEMMA EvaluateStep ==
  ASSUME Search!ConstantsOK, SearchInv, NEW d \in Search!Deltas, Search!Evaluate(d)
  PROVE  SearchInv'
<1>1. /\ FlatCap \in Nat \ {0} /\ Lowest \in Nat /\ Highest \in Nat /\ Lowest < Highest
      /\ StepLeast \in Nat /\ StepMost \in Nat /\ 0 < StepLeast /\ StepLeast <= StepMost
      /\ SchemeMost \in Nat /\ Ceilings \subseteq 0..SchemeMost /\ Highest <= SchemeMost
  BY DEF Search!ConstantsOK
<1>2. /\ dir \in {-1, 1} /\ step \in StepLeast..StepMost /\ grow \in 0..1
      /\ flat \in 0..(FlatCap - 1) /\ index \in 0..Highest /\ ceiling \in Ceilings
      /\ trTarget \in 0..SchemeMost
  BY DEF SearchInv, Search!TypeOK
<1>3. /\ Search!Turned(d) \in {-1, 1} /\ Search!Sized(d) \in StepLeast..StepMost
      /\ Search!Grown(d) \in 0..1 /\ Search!Flattened(d) \in 0..(FlatCap - 1)
      /\ d # "flat" => Search!Flattened(d) = 0
      /\ d = "flat" => /\ Search!Sized(d) = step
                       /\ Search!Turned(d) = IF flat + 1 >= FlatCap THEN -dir ELSE dir
                       /\ Search!Flattened(d) = IF flat + 1 < FlatCap THEN flat + 1 ELSE 0
  BY SearchCounters DEF SearchInv
<1> DEFINE way == IF primed THEN Search!Turned(d) ELSE dir
           size == IF primed THEN Search!Sized(d) ELSE step
           reach == index + way * size
           next == Search!Within(reach, Lowest, Highest)
           walled == IF next = Highest THEN -1 ELSE IF next = Lowest THEN 1 ELSE way
<1>4. /\ index' = Search!Least(next, ceiling)
      /\ dir' = IF next > ceiling THEN -1 ELSE walled
      /\ entry' = IF next > ceiling THEN index' ELSE IF primed /\ d = "flat" THEN entry ELSE index
      /\ step' = size
      /\ grow' = IF primed THEN Search!Grown(d) ELSE grow
      /\ flat' = IF primed THEN Search!Flattened(d) ELSE flat
      /\ trTarget' = Search!Least(index', ceiling)
  BY Zenon DEF Search!Evaluate, Search!SetTarget
<1>5. /\ primed' = TRUE /\ stepping' = TRUE
      /\ UNCHANGED <<trEnabled, trActive, metered, ceiling>> /\ trEnabled
  BY Zenon DEF Search!Evaluate
<1> HIDE DEF way, size
<1>6. way \in {-1, 1} /\ size \in StepLeast..StepMost
  BY <1>2, <1>3 DEF way, size
<1>7. reach = IF way = 1 THEN index + size ELSE index - size
  BY <1>2, <1>6, <1>1, SMTT(20)
<1> HIDE DEF reach
<1>8. next \in Lowest..Highest BY <1>1, <1>2, <1>6, <1>7 DEF Search!Within
<1>9. walled \in {-1, 1} BY <1>6, Zenon
<1>10. Search!TypeOK'
  <2>1. {trEnabled', trActive', metered', primed', stepping'} \subseteq BOOLEAN
    BY <1>5, Zenon DEF SearchInv, Search!TypeOK
  <2>2. /\ index' \in 0..Highest /\ trTarget' \in 0..SchemeMost /\ dir' \in {-1, 1}
        /\ ceiling' \in Ceilings
    BY <1>1, <1>2, <1>4, <1>5, <1>8, <1>9 DEF Search!Least
  <2>3. step' \in StepLeast..StepMost /\ grow' \in 0..1 /\ flat' \in 0..FlatCap - 1
    BY <1>2, <1>3, <1>4, <1>6
  <2>4. QED BY <2>1, <2>2, <2>3 DEF Search!TypeOK
<1>11. Search!DeratedAtOnce'
  <2>1. index' \in Int /\ ceiling \in Int BY <1>1, <1>2, <1>4, <1>8 DEF Search!Least
  <2>2. QED BY <1>4, <1>5, <2>1 DEF Search!DeratedAtOnce, Search!Least
<1>12. WalkInv'
  <2>1. CASE next > ceiling
    <3>1. index' = entry' /\ entry' \in 0..Highest
      BY <1>1, <1>2, <1>4, <1>8, <2>1 DEF Search!Least
    <3>2. QED BY <1>10, <3>1, SearchRestarts DEF SearchInv
  <2>2. CASE ~(next > ceiling) /\ primed /\ d = "flat"
    <3>1. /\ index' = next /\ dir' = walled /\ entry' = entry /\ step' = step
          /\ size = step /\ way = IF flat + 1 >= FlatCap THEN -dir ELSE dir
          /\ flat' = IF flat + 1 < FlatCap THEN flat + 1 ELSE 0
      BY <1>1, <1>2, <1>3, <1>4, <1>8, <2>2 DEF Search!Least, way, size
    <3>2. entry \in 0..Highest BY DEF SearchInv, WalkInv
    <3>3. CASE entry >= Lowest
      <4>1. /\ index >= Lowest
            /\ index >= entry => Walked(index - entry, Highest - entry, dir = 1, flat, step)
            /\ index <= entry => Walked(entry - index, entry - Lowest, dir = -1, flat, step)
        BY <1>5, <3>3 DEF SearchInv, WalkInv
      <4>2. PICK f \in 0..(FlatCap - 1), s \in StepLeast..StepMost : f = flat /\ s = step
        BY <1>2
      <4>3. PICK e \in Lowest..Highest, i \in Lowest..Highest : e = entry /\ i = index
        BY <1>1, <1>2, <3>2, <3>3, <4>1
      <4>4. PICK h \in {-1, 1}, w \in {-1, 1} : h = dir /\ w = way BY <1>2, <1>6
      <4>5. PICK j \in Int : j = next BY <1>1, <1>8
      <4>6. PICK o \in {-1, 1} : o = walled BY <1>9
      <4>7. PICK f2 : f2 = flat' OBVIOUS
      <4>8. /\ i >= e => Walked(i - e, Highest - e, h = 1, f, s)
            /\ i <= e => Walked(e - i, e - Lowest, h = -1, f, s)
        BY <4>1, <4>2, <4>3, <4>4, Zenon
      <4>9. /\ w = IF f + 1 >= FlatCap THEN -h ELSE h
            /\ f2 = IF f + 1 < FlatCap THEN f + 1 ELSE 0
            /\ o = IF j = Highest THEN -1 ELSE IF j = Lowest THEN 1 ELSE w
        BY <3>1, <4>2, <4>4, <4>5, <4>6, <4>7, Zenon
      <4>10. j = Search!Within(IF w = 1 THEN i + s ELSE i - s, Lowest, Highest)
        BY <1>7, <3>1, <4>2, <4>3, <4>4, <4>5, Zenon
      <4>14. OnPlateau(i, j, h, o, f, f2, s) BY <4>9, <4>10, Zenon DEF OnPlateau
      <4>11. /\ j >= e => Walked(j - e, Highest - e, o = 1, f2, s)
             /\ j <= e => Walked(e - j, e - Lowest, o = -1, f2, s)
        BY <4>8, <4>14, PlateauStep
      <4>12. index' = j /\ entry' = e /\ dir' = o /\ flat' = f2 /\ step' = s /\ j >= Lowest
        BY <1>1, <1>8, <3>1, <4>2, <4>3, <4>5, <4>6, <4>7
      <4>13. QED BY <3>2, <4>3, <4>11, <4>12, Zenon DEF WalkInv
    <3>4. CASE ~(entry >= Lowest) BY <3>1, <3>2, <3>4, Zenon DEF WalkInv
    <3>5. QED BY <3>3, <3>4
  <2>3. CASE ~(next > ceiling) /\ ~(primed /\ d = "flat")
    <3>1. index' = next /\ dir' = walled /\ entry' = index /\ step' = size
      BY <1>1, <1>2, <1>4, <1>8, <2>3 DEF Search!Least
    <3>2. CASE index >= Lowest
      <4>1. PICK f \in 0..(FlatCap - 1), s \in Nat : f = flat' /\ s = step'
        BY <1>1, <1>2, <1>3, <1>4, <1>6
      <4>2. PICK e \in Lowest..Highest, i \in Lowest..Highest : e = index /\ i = next
        BY <1>1, <1>2, <1>8, <3>2
      <4>3. PICK o \in {-1, 1} : o = walled BY <1>9
      <4>4. \/ i = e
            \/ i > e /\ i - e <= s /\ (o = 1 \/ i = Highest)
            \/ i < e /\ e - i <= s /\ (o = -1 \/ i = Lowest)
        BY <1>1, <1>6, <1>7, <3>1, <4>1, <4>2, <4>3 DEF Search!Within
      <4>5. /\ i >= e => Walked(i - e, Highest - e, o = 1, f, s)
            /\ i <= e => Walked(e - i, e - Lowest, o = -1, f, s)
        BY <4>4, FreshWalk
      <4>6. index' = i /\ entry' = e /\ dir' = o /\ i >= Lowest /\ e \in 0..Highest
        BY <1>1, <1>2, <1>8, <3>1, <4>2, <4>3
      <4>7. QED BY <4>1, <4>5, <4>6, Zenon DEF WalkInv
    <3>3. CASE ~(index >= Lowest)
      <4>1. index \in 0..Highest BY <1>2
      <4>2. QED BY <3>1, <3>3, <4>1, Zenon DEF WalkInv
    <3>4. QED BY <3>2, <3>3
  <2>4. QED BY <2>1, <2>2, <2>3
<1>13. QED BY <1>10, <1>11, <1>12 DEF SearchInv

\* Deratings, applies and recoveries keep the invariant as well.
LEMMA SearchStep == Search!ConstantsOK /\ SearchInv /\ [Search!Next]_searchAll => SearchInv'
<1> SUFFICES ASSUME Search!ConstantsOK, SearchInv, [Search!Next]_searchAll PROVE SearchInv'
  OBVIOUS
<1> USE DEF SearchInv
<1>0. /\ Lowest \in Nat /\ Highest \in Nat /\ Lowest < Highest /\ FlatCap \in Nat \ {0}
      /\ StepLeast \in Nat /\ StepMost \in Nat /\ StepLeast <= StepMost /\ Configured \in Nat
      /\ SchemeMost \in Nat /\ Ceilings \subseteq 0..SchemeMost /\ Configured <= SchemeMost
  BY DEF Search!ConstantsOK
<1>t. /\ {trEnabled, trActive, metered, primed, stepping} \subseteq BOOLEAN
      /\ dir \in {-1, 1} /\ step \in StepLeast..StepMost /\ grow \in 0..1
      /\ flat \in 0..FlatCap - 1 /\ index \in 0..Highest /\ ceiling \in Ceilings
      /\ trTarget \in 0..SchemeMost /\ trTarget <= ceiling /\ entry \in 0..Highest
  BY DEF Search!TypeOK, Search!DeratedAtOnce, WalkInv
<1>1. CASE UNCHANGED searchAll
  BY <1>1 DEF searchAll, Search!TypeOK, Search!DeratedAtOnce, WalkInv
<1>2. ASSUME NEW c \in Ceilings, Search!Derating(c) PROVE SearchInv'
  <2>1. /\ ceiling' = c /\ trTarget' = Search!Least(trTarget, c)
        /\ UNCHANGED <<trEnabled, trActive, metered, index, dir, step, grow, flat, primed,
                       stepping, entry>>
    BY <1>2 DEF Search!Derating
  <2>2. trTarget' \in 0..SchemeMost /\ trTarget' <= ceiling'
    BY <1>0, <1>t, <2>1 DEF Search!Least
  <2>3. QED BY <2>1, <2>2 DEF Search!TypeOK, Search!DeratedAtOnce, WalkInv
<1>3. CASE Search!PushOpenLoop \/ Search!ApplyOtherTimer
  <2>1. /\ trTarget' = trTarget \/ trTarget' = Search!Least(Configured, ceiling)
        /\ UNCHANGED <<trEnabled, trActive, metered, ceiling, index, dir, step, grow, flat,
                       primed, stepping, entry>>
    BY <1>3 DEF Search!PushOpenLoop, Search!ApplyOtherTimer, Search!SetTarget, Search!state
  <2>2. trTarget' \in 0..SchemeMost /\ trTarget' <= ceiling'
    BY <1>0, <1>t, <2>1 DEF Search!Least
  <2>3. QED BY <2>1, <2>2 DEF Search!TypeOK, Search!DeratedAtOnce, WalkInv
<1>4. CASE Search!MeterChanges \/ Search!Hold
  <2>1. /\ metered' \in BOOLEAN /\ stepping' \in BOOLEAN /\ primed' \in BOOLEAN
        /\ UNCHANGED <<trEnabled, trActive, ceiling, trTarget, index, dir, step, grow, flat,
                       entry>>
    BY <1>4, <1>t DEF Search!MeterChanges, Search!Hold
  <2>2. {trEnabled', trActive', metered', primed', stepping'} \subseteq BOOLEAN
    BY <1>t, <2>1, Zenon
  <2>3. QED BY <2>1, <2>2 DEF Search!TypeOK, Search!DeratedAtOnce, WalkInv
<1>5. CASE Search!Enable
  <2>1. /\ trEnabled' = TRUE /\ stepping' = FALSE /\ primed' = FALSE
        /\ index' = Search!Within(trTarget, Lowest, Highest) /\ entry' = index'
        /\ dir' = 1 /\ step' = StepMost /\ grow' = 0 /\ flat' = 0
        /\ UNCHANGED <<trActive, metered, ceiling, trTarget>>
    BY <1>5 DEF Search!Enable
  <2>2. index' \in 0..Highest BY <1>0, <1>t, <2>1 DEF Search!Within
  <2>3. {trEnabled', trActive', metered', primed', stepping'} \subseteq BOOLEAN
    BY <1>t, <2>1, Zenon
  <2>4. Search!TypeOK' BY <1>0, <1>t, <2>1, <2>2, <2>3 DEF Search!TypeOK
  <2>5. WalkInv' BY <2>1, <2>2, <2>4, SearchRestarts
  <2>6. QED BY <2>1, <2>4, <2>5 DEF Search!DeratedAtOnce
<1>6. CASE Search!Disable
  <2>1. /\ trEnabled' = FALSE /\ stepping' = FALSE
        /\ trTarget' = trTarget \/ trTarget' = Search!Least(Configured, ceiling)
        /\ UNCHANGED <<trActive, metered, ceiling, entry, index, dir, step, grow, flat, primed>>
    BY <1>6 DEF Search!Disable, Search!SetTarget, Search!state
  <2>2. trTarget' \in 0..SchemeMost /\ trTarget' <= ceiling'
    BY <1>0, <1>t, <2>1 DEF Search!Least
  <2>3. {trEnabled', trActive', metered', primed', stepping'} \subseteq BOOLEAN
    BY <1>t, <2>1, Zenon
  <2>4. Search!TypeOK' BY <1>0, <1>t, <2>1, <2>2, <2>3 DEF Search!TypeOK
  <2>5. WalkInv' BY <2>1, <2>4, SearchRestarts
  <2>6. QED BY <2>2, <2>4, <2>5 DEF Search!DeratedAtOnce
<1>7. CASE Search!ApplyTm2
  <2>1. /\ trActive' \in BOOLEAN /\ stepping' = FALSE
        /\ trTarget' = trTarget \/ trTarget' = Search!Least(Configured, ceiling)
        /\ UNCHANGED <<trEnabled, metered, ceiling>>
        /\ \/ /\ index' = Search!Within(trTarget', Lowest, Highest) /\ entry' = index'
              /\ dir' = 1 /\ step' = StepMost /\ grow' = 0 /\ flat' = 0 /\ primed' = FALSE
           \/ ~trEnabled /\ UNCHANGED <<index, dir, step, grow, flat, primed, entry>>
    BY <1>7 DEF Search!ApplyTm2, Search!SetTarget
  <2>2. trTarget' \in 0..SchemeMost /\ trTarget' <= ceiling'
    BY <1>0, <1>t, <2>1 DEF Search!Least
  <2>3. primed' \in BOOLEAN BY <1>t, <2>1, Zenon
  <2>4. {trEnabled', trActive', metered', primed', stepping'} \subseteq BOOLEAN
    BY <1>t, <2>1, <2>3, Zenon
  <2>5. index' \in 0..Highest /\ dir' \in {-1, 1} /\ step' \in StepLeast..StepMost
        /\ grow' \in 0..1 /\ flat' \in 0..FlatCap - 1
    BY <1>0, <1>t, <2>1, <2>2 DEF Search!Within
  <2>6. Search!TypeOK' BY <1>t, <2>1, <2>2, <2>4, <2>5 DEF Search!TypeOK
  <2>7. WalkInv' BY <2>1, <2>5, <2>6, SearchRestarts
  <2>8. QED BY <2>2, <2>6, <2>7 DEF Search!DeratedAtOnce
<1>8. ASSUME NEW d \in Search!Deltas, Search!Evaluate(d) PROVE SearchInv'
  BY <1>8, EvaluateStep
<1>9. QED
  BY <1>1, <1>2, <1>3, <1>4, <1>5, <1>6, <1>7, <1>8, Zenon DEF Search!Next

\* The output is derated for the hottest probe that answered, whatever is unplugged, and never
\* runs without one; and on a plateau the search stays within a few steps of where the power
\* last told it something, below the ceiling, whichever walls, deratings and applies come
\* between (thermalTask, thermalConfigure; mpptStep, setModulationIndexTargetQ15).
THEOREM DeratingStaysObeyed == ServicesSpec => []DeratingIsObeyed
<1> DEFINE Inv == (focus = "heat" => HeatInv) /\ (focus = "search" => SearchInv)
<1>1. Heat!ConstantsOK /\ Search!ConstantsOK BY ServicesAssumption
<1>2. ServicesInit => Inv BY <1>1, HeatStarts, SearchStarts, Zenon DEF ServicesInit
<1>3. Inv /\ Step => Inv'
  BY <1>1, FocusStays, HeatMoves, HeatStep, SearchMoves, SearchStep, Zenon
<1>4. Inv => DeratingIsObeyed
  BY <1>1, WalkIsBounded, Zenon
     DEF DeratingIsObeyed, HeatInv, SearchInv, Search!TrackerIsBounded
<1> HIDE DEF Inv
<1>5. QED BY <1>2, <1>3, <1>4, PTL DEF ServicesSpec, Step

-----------------------------------------------------------------------------
(* The clock.                                                              *)

\* What the server is known to have said: to the pending request, nothing, that it has no
\* time, or a time since the request left; to one not sent yet, nothing.
AnswersInv ==
  /\ sentWall <= wall /\ ntBoot <= wall
  /\ awaiting => token # 0
  /\ token # 0 => answers[token] \in {Time!Unanswered, 0} \cup sentWall..wall
  /\ \A t \in 1..MaxRequests : t > token => answers[t] = Time!Unanswered

\* What waits at the socket with a request's token is what the server answered it.
InboxInv ==
  inbox.sound /\ inbox.token # 0 =>
    /\ inbox.token \in 1..MaxRequests
    /\ inbox.stamp = answers[inbox.token] /\ inbox.stamp # Time!Unanswered

\* The last sync of this boot, as long as millis() has not wrapped since the boot.
SyncInv ==
  ntClock.synced /\ wall - ntBoot < Wrap =>
    /\ ntClock.base >= 1 /\ ntClock.valid /\ ntClock.at <= wall - ntBoot
    /\ ntBoot + ntClock.at + rtc - ntClock.base \in -RtcTolerance..RtcTolerance

\* What every step of the clock and the network keeps.
TimeInv ==
  Time!TypeOK /\ sentWall \in 0..MaxWall /\ AnswersInv /\ InboxInv /\ SyncInv /\ exact

\* When the clock is in focus, a step is one of its own.
LEMMA TimeMoves == Step /\ focus = "time" => [Time!Next]_timeAll
BY Zenon DEF Step, ServicesNext, Rest, servicesVars

\* What the proofs about the clock use of its constants.
LEMMA TimeConstants ==
  /\ Wrap \in Nat \ {0} /\ UpSince \in 0..Wrap-1
  /\ RtcTolerance \in Nat /\ MaxWall \in Nat \ {0} /\ MaxRequests \in Nat
BY ServicesAssumption DEF Time!ConstantsOK

\* At boot no request is out and nothing was ever synchronised.
LEMMA TimeStarts == Time!Init => TimeInv
<1> SUFFICES ASSUME Time!Init PROVE TimeInv OBVIOUS
<1> USE TimeConstants
<1>1. /\ ntClock.valid = FALSE /\ ntClock.synced = FALSE /\ ntClock.at = 0
      /\ ntClock \in [valid : BOOLEAN, synced : BOOLEAN, base : Nat, at : 0..Wrap-1]
  <2>1. (0 >= 1) = FALSE OBVIOUS
  <2>2. ntClock = [valid |-> FALSE, synced |-> FALSE, base |-> 0, at |-> 0]
    BY <2>1, Zenon DEF Time!Init, Time!BootClock
  <2>3. QED BY <2>2
<1>2. Time!NoDatagram.token = 0 /\ Time!NoDatagram.sound = FALSE BY DEF Time!NoDatagram
<1>3. Time!TypeOK
  <2>1. {awaiting, everAttempted, ntNamed, exact} \subseteq BOOLEAN BY Zenon DEF Time!Init
  <2>2. rtc \in Int BY DEF Time!Init, Time!FlatRtc
  <2>3. /\ wall \in 1..MaxWall /\ ntBoot \in 1-UpSince..MaxWall /\ token \in 0..MaxRequests
        /\ {sentAt, lastAttempt} \subseteq 0..Wrap-1
        /\ inbox \in Time!Datagrams \cup {Time!NoDatagram}
        /\ answers \in [1..MaxRequests -> {Time!Unanswered} \cup 0..MaxWall]
    BY DEF Time!Init
  <2>4. QED BY <1>1, <2>1, <2>2, <2>3, Zenon DEF Time!TypeOK
<1>4. AnswersInv /\ InboxInv /\ SyncInv
  BY <1>1, <1>2 DEF Time!Init, AnswersInv, InboxInv, SyncInv
<1>5. QED BY <1>3, <1>4 DEF Time!Init, TimeInv

\* Adopting a time starts the clock from it and leaves the RTC within its tolerance.
LEMMA Adopting ==
  ASSUME TimeInv, NEW epoch \in 0..MaxWall, Time!Synced(epoch)
  PROVE  /\ ntClock' \in [valid : BOOLEAN, synced : BOOLEAN, base : Nat, at : 0..Wrap-1]
         /\ rtc' \in Int
         /\ epoch < 1 => UNCHANGED <<ntClock, rtc>>
         /\ epoch >= 1 => /\ ntClock'.valid /\ ntClock'.base = epoch /\ ntClock'.at = Time!Now
                          /\ wall + rtc' - epoch \in -RtcTolerance..RtcTolerance
<1> USE TimeConstants DEF TimeInv, Time!TypeOK
<1>1. CASE epoch < 1 BY <1>1 DEF Time!Synced
<1>2. CASE epoch >= 1
  <2>1. Time!Now \in 0..Wrap-1 BY SmallRemainder DEF Time!Now, Time!Millis
  <2>2. ntClock' = [valid |-> TRUE, synced |-> TRUE, base |-> epoch, at |-> Time!Now]
    BY <1>2, Zenon DEF Time!Synced
  <2>3. rtc' = IF Time!RtcReads - epoch \in -RtcTolerance..RtcTolerance
               THEN rtc ELSE epoch - wall
    BY <1>2, Zenon DEF Time!Synced
  <2>4. /\ ntClock' \in [valid : BOOLEAN, synced : BOOLEAN, base : Nat, at : 0..Wrap-1]
        /\ ntClock'.valid /\ ntClock'.base = epoch /\ ntClock'.at = Time!Now
    BY <2>1, <2>2
  <2>5. rtc' \in Int /\ wall + rtc' - epoch \in -RtcTolerance..RtcTolerance
    BY <2>3, SMTT(30) DEF Time!RtcReads
  <2>6. ~(epoch < 1) BY <1>2
  <2>7. QED BY <2>4, <2>5, <2>6, Zenon
<1>3. QED BY <1>1, <1>2

\* The datagrams that can come are datagrams, and the server's repeat what it answered.
LEMMA Arriving ==
  ASSUME TimeInv, NEW d \in Time!Replies \cup Time!Invented
  PROVE  /\ d \in Time!Datagrams \cup {Time!NoDatagram}
         /\ d.sound /\ d.token # 0 =>
              /\ d.token \in 1..MaxRequests
              /\ d.stamp = answers[d.token] /\ d.stamp # Time!Unanswered
<1> USE TimeConstants DEF TimeInv, Time!TypeOK
<1>1. CASE d \in Time!Replies
  <2>1. PICK t \in 1..MaxRequests :
          answers[t] # Time!Unanswered /\ d = [token |-> t, sound |-> TRUE, stamp |-> answers[t]]
    BY <1>1, Zenon DEF Time!Replies
  <2>2. answers[t] \in 0..MaxWall BY <2>1
  <2>3. QED BY <2>1, <2>2 DEF Time!Datagrams
<1>2. CASE d \in Time!Invented BY <1>2 DEF Time!Invented, Time!Datagrams
<1>3. QED BY <1>1, <1>2

\* Until millis() wraps, it is the time since the boot.
LEMMA Elapsed ==
  ASSUME TimeInv, wall - ntBoot < Wrap
  PROVE  Time!Now = wall - ntBoot
<1>1. wall - ntBoot \in 0..Wrap-1
  BY TimeConstants DEF TimeInv, Time!TypeOK, AnswersInv
<1>2. Time!Now = (wall - ntBoot) % Wrap BY Zenon DEF Time!Now, Time!Millis
<1>3. PICK n \in 0..Wrap-1 : n = wall - ntBoot BY <1>1
<1>4. n \in Int /\ Wrap \in Nat \ {0} BY TimeConstants
<1>5. n % Wrap = n BY <1>4, SmallRemainder
<1>6. QED BY <1>2, <1>3, <1>5

\* What a step that adopts no time may do to what the answers and the sync are judged by.
LEMMA SyncKept ==
  ASSUME TimeInv, wall' \in {wall, wall + 1}, UNCHANGED <<ntBoot, ntClock, rtc>>
  PROVE  SyncInv'
<1>1. SUFFICES ASSUME ntClock.synced, wall' - ntBoot < Wrap
               PROVE  /\ ntClock.base >= 1 /\ ntClock.valid /\ ntClock.at <= wall' - ntBoot
                      /\ ntBoot + ntClock.at + rtc - ntClock.base
                            \in -RtcTolerance..RtcTolerance
  BY Zenon DEF SyncInv
<1>0. wall \in Int /\ ntBoot \in Int /\ Wrap \in Int
  BY TimeConstants DEF TimeInv, Time!TypeOK
<1>2. CASE wall' = wall
  BY <1>1, <1>2, Zenon DEF TimeInv, SyncInv
<1>4. CASE wall' = wall + 1
  <2>1. PICK n \in Int : n = wall - ntBoot BY <1>0
  <2>2. wall' - ntBoot = n + 1 BY <1>0, <1>4, <2>1
  <2>0. n + 1 < Wrap BY <1>1, <2>2, Zenon
  <2>3. wall - ntBoot < Wrap
    <3>1. n < Wrap BY <1>0, <2>0
    <3>2. QED BY <2>1, <3>1, Zenon
  <2>4. /\ ntClock.base >= 1 /\ ntClock.valid /\ ntClock.at <= wall - ntBoot
        /\ ntBoot + ntClock.at + rtc - ntClock.base \in -RtcTolerance..RtcTolerance
    BY <1>1, <2>3, Zenon DEF TimeInv, SyncInv
  <2>5. ntClock.at \in Int BY TimeConstants DEF TimeInv, Time!TypeOK
  <2>6. ntClock.at <= wall' - ntBoot BY <2>1, <2>2, <2>4, <2>5
  <2>7. QED BY <2>4, <2>6, Zenon
<1>5. QED BY <1>2, <1>4

\* Every step of the task, the network and the device keeps the invariant.
LEMMA TimeStep == TimeInv /\ [Time!Next]_timeAll => TimeInv'
<1> SUFFICES ASSUME TimeInv, [Time!Next]_timeAll PROVE TimeInv' OBVIOUS
<1> USE TimeConstants
<1>a. Time!Now \in 0..Wrap-1 BY SmallRemainder DEF Time!Now, Time!Millis, TimeInv, Time!TypeOK
<1>b. Time!NoDatagram.sound = FALSE BY DEF Time!NoDatagram
<1>c. SUFFICES /\ ({awaiting, everAttempted, ntNamed} \subseteq BOOLEAN)' /\ exact' = TRUE
               /\ wall' \in 1..MaxWall /\ ntBoot' \in 1-UpSince..MaxWall
               /\ token' \in 0..MaxRequests /\ rtc' \in Int
               /\ ntClock' \in [valid : BOOLEAN, synced : BOOLEAN, base : Nat, at : 0..Wrap-1]
               /\ {sentAt', lastAttempt'} \subseteq 0..Wrap-1
               /\ inbox' \in Time!Datagrams \cup {Time!NoDatagram}
               /\ answers' \in [1..MaxRequests -> {Time!Unanswered} \cup 0..MaxWall]
               /\ sentWall' \in 0..MaxWall
               /\ AnswersInv' /\ InboxInv' /\ SyncInv'
  BY Zenon DEF TimeInv, Time!TypeOK
<1> USE DEF TimeInv, Time!TypeOK, AnswersInv, InboxInv
<1>0. exact = TRUE /\ awaiting \in BOOLEAN /\ everAttempted \in BOOLEAN /\ ntNamed \in BOOLEAN
  BY Zenon
<1>1. CASE UNCHANGED timeAll BY <1>0, <1>1, SyncKept DEF timeAll
<1>2. CASE Time!RejectReply \/ Time!StopAwaiting \/ Time!AttemptWithoutName
  <2>1. UNCHANGED <<wall, ntBoot, ntClock, rtc, token, sentAt, sentWall, answers, exact>>
        /\ inbox' \in {inbox, Time!NoDatagram} /\ lastAttempt' \in {lastAttempt, Time!Now}
    BY <1>2 DEF Time!RejectReply, Time!StopAwaiting, Time!AttemptWithoutName, Time!reqVars
  <2>2. /\ awaiting' \in {awaiting, FALSE} /\ everAttempted' \in {everAttempted, TRUE}
        /\ ntNamed' = ntNamed
    BY <1>2, Zenon DEF Time!RejectReply, Time!StopAwaiting, Time!AttemptWithoutName,
       Time!reqVars
  <2>3. (awaiting' => awaiting) /\ ({awaiting, everAttempted, ntNamed} \subseteq BOOLEAN)'
    <3>1. awaiting' = awaiting \/ awaiting' = FALSE BY <2>2, Zenon
    <3>2. everAttempted' = everAttempted \/ everAttempted' = TRUE BY <2>2, Zenon
    <3>3. awaiting' \in BOOLEAN /\ everAttempted' \in BOOLEAN /\ ntNamed' \in BOOLEAN
      BY <1>0, <2>2, <3>1, <3>2, Zenon
    <3>4. awaiting' => awaiting BY <3>1, Zenon
    <3>5. QED BY <3>3, <3>4, Zenon
  <2>4. AnswersInv' BY <2>1, <2>3
  <2>5. InboxInv' BY <2>1, <1>b
  <2>6. SyncInv' BY <2>1, SyncKept
  <2>7. QED BY <1>0, <1>a, <2>1, <2>3, <2>4, <2>5, <2>6
<1>3. CASE Time!TakeReply
  <2>1. /\ awaiting' = FALSE /\ inbox' = Time!NoDatagram
        /\ inbox.sound /\ inbox.token = token /\ token # 0
        /\ UNCHANGED <<wall, ntBoot, token, sentAt, lastAttempt, everAttempted, ntNamed,
                       sentWall, answers>>
    BY <1>3, Zenon DEF Time!TakeReply, Time!Associated, Time!reqVars
  <2>2. inbox.stamp \in 0..MaxWall /\ inbox.stamp \in {0} \cup sentWall..wall BY <2>1
  <2>3. Time!Synced(inbox.stamp) BY <1>3, Zenon DEF Time!TakeReply
  <2>4. exact' = (exact /\ (ntClock' # ntClock => inbox.stamp \in sentWall..wall))
    BY <1>3, Zenon DEF Time!TakeReply
  <2> DEFINE e == inbox.stamp
  <2>5. /\ ntClock' \in [valid : BOOLEAN, synced : BOOLEAN, base : Nat, at : 0..Wrap-1]
        /\ rtc' \in Int
        /\ e < 1 => UNCHANGED <<ntClock, rtc>>
        /\ e >= 1 => /\ ntClock'.valid /\ ntClock'.base = e /\ ntClock'.at = Time!Now
                     /\ wall + rtc' - e \in -RtcTolerance..RtcTolerance
    BY <2>2, <2>3, Adopting
  <2>6. e < 1 \/ e \in sentWall..wall BY <2>2
  <2>7. exact' = TRUE BY <1>0, <2>4, <2>5, <2>6, Zenon
  <2>8. SyncInv'
    <3>1. CASE e < 1 BY <2>1, <2>5, <3>1, SyncKept
    <3>2. CASE e >= 1
      <4>1. wall - ntBoot < Wrap => ntClock'.at = wall - ntBoot
        BY <2>5, <3>2, Elapsed
      <4>2. ntClock'.base >= 1 /\ ntClock'.valid BY <2>5, <3>2, Zenon
      <4>3. wall - ntBoot < Wrap =>
              ntBoot + ntClock'.at + rtc' - ntClock'.base \in -RtcTolerance..RtcTolerance
        <5>1. e \in Int /\ wall \in Int /\ ntBoot \in Int /\ rtc' \in Int
          BY <2>2, <2>5, SMTT(30)
        <5>2. ntClock'.base = e /\ wall + rtc' - e \in -RtcTolerance..RtcTolerance
          BY <2>5, <3>2
        <5> HIDE DEF e, TimeInv
        <5>3. SUFFICES ASSUME wall - ntBoot < Wrap
                       PROVE  ntBoot + ntClock'.at + rtc' - ntClock'.base
                                 \in -RtcTolerance..RtcTolerance
          OBVIOUS
        <5>4. ntBoot + ntClock'.at + rtc' - ntClock'.base = wall + rtc' - e
          BY <4>1, <5>1, <5>2, <5>3
        <5>5. QED BY <5>2, <5>4, Zenon
      <4>4. QED BY <2>1, <4>1, <4>2, <4>3, SMTT(30) DEF SyncInv
    <3>3. QED BY <2>2, <3>1, <3>2
  <2>9. AnswersInv' BY <2>1, SMTT(30)
  <2>10. InboxInv' BY <1>b, <2>1, SMTT(30)
  <2>11. ({awaiting, everAttempted, ntNamed} \subseteq BOOLEAN)' BY <1>0, <2>1, Zenon
  <2>12. QED BY <2>1, <2>5, <2>7, <2>8, <2>9, <2>10, <2>11
<1>4. CASE Time!SendRequest
  <2>1. /\ awaiting' = TRUE /\ everAttempted' = TRUE /\ ntNamed' = TRUE /\ exact' = exact
        /\ token < MaxRequests /\ token' = token + 1 /\ inbox' = Time!NoDatagram
        /\ sentAt' = Time!Now /\ lastAttempt' = Time!Now /\ sentWall' = wall
        /\ UNCHANGED <<wall, ntBoot, ntClock, rtc, answers>>
    BY <1>4, Zenon DEF Time!SendRequest, Time!NewToken
  <2>2. AnswersInv' BY <2>1, SMTT(30)
  <2>3. InboxInv' BY <2>1, <1>b, SMTT(30)
  <2>4. SyncInv' BY <2>1, SyncKept
  <2>5. ({awaiting, everAttempted, ntNamed} \subseteq BOOLEAN)' BY <2>1, Zenon
  <2>6. QED BY <1>0, <1>a, <2>1, <2>2, <2>3, <2>4, <2>5
<1>5. ASSUME NEW t \in 1..MaxRequests, Time!ServerAnswers(t) PROVE TimeInv'
  <2>1. /\ t <= token /\ answers[t] = Time!Unanswered
        /\ UNCHANGED <<wall, ntBoot, ntClock, rtc, awaiting, token, sentAt, lastAttempt,
                       everAttempted, ntNamed, sentWall, inbox, exact>>
    BY <1>5, Zenon DEF Time!ServerAnswers, Time!reqVars
  <2>2. PICK s \in {0, wall} : answers' = [answers EXCEPT ![t] = s]
    BY <1>5, Zenon DEF Time!ServerAnswers
  <2>3. s \in 0..MaxWall /\ answers'[t] = s
        /\ \A u \in 1..MaxRequests : u # t => answers'[u] = answers[u]
    BY <2>2
  <2>4. answers' \in [1..MaxRequests -> {Time!Unanswered} \cup 0..MaxWall] BY <2>2, <2>3
  <2>5. AnswersInv' BY <2>1, <2>2, <2>3, SMTT(30)
  <2>6. InboxInv' BY <2>1, <2>3
  <2>7. SyncInv' BY <2>1, SyncKept
  <2>8. ({awaiting, everAttempted, ntNamed} \subseteq BOOLEAN)' BY <1>0, <2>1, Zenon
  <2>9. QED BY <1>0, <1>c, <2>1, <2>4, <2>5, <2>6, <2>7, <2>8
<1>6. ASSUME NEW d \in Time!Replies \cup Time!Invented, Time!Arrives(d) PROVE TimeInv'
  <2>1. /\ d \in Time!Datagrams \cup {Time!NoDatagram}
        /\ d.sound /\ d.token # 0 =>
             /\ d.token \in 1..MaxRequests
             /\ d.stamp = answers[d.token] /\ d.stamp # Time!Unanswered
    BY Arriving
  <2>2. /\ inbox' = d
        /\ UNCHANGED <<wall, ntBoot, ntClock, rtc, awaiting, token, sentAt, lastAttempt,
                       everAttempted, ntNamed, sentWall, answers, exact>>
    BY <1>6, Zenon DEF Time!Arrives, Time!reqVars
  <2>3. AnswersInv' BY <2>2
  <2>4. InboxInv' BY <2>1, <2>2, Zenon
  <2>5. SyncInv' BY <2>2, SyncKept
  <2>6. ({awaiting, everAttempted, ntNamed} \subseteq BOOLEAN)' BY <1>0, <2>2, Zenon
  <2>7. QED BY <1>0, <1>c, <2>1, <2>2, <2>3, <2>4, <2>5, <2>6
<1>7. CASE Time!Tick
  <2>1. /\ wall < MaxWall /\ wall' = wall + 1
        /\ UNCHANGED <<ntBoot, ntClock, rtc, awaiting, token, sentAt, lastAttempt,
                       everAttempted, ntNamed, sentWall, inbox, answers, exact>>
    BY <1>7, Zenon DEF Time!Tick, Time!reqVars
  <2>2. wall' \in 1..MaxWall BY <2>1
  <2>3. AnswersInv' BY <2>1
  <2>4. InboxInv' BY <2>1
  <2>5. SyncInv' BY <2>1, SyncKept
  <2>6. ({awaiting, everAttempted, ntNamed} \subseteq BOOLEAN)' BY <1>0, <2>1, Zenon
  <2>7. QED BY <1>0, <1>c, <2>1, <2>2, <2>3, <2>4, <2>5, <2>6
<1>8. CASE Time!Restart
  <2>1. /\ ntBoot' = wall /\ ntClock' = Time!BootClock(Time!RtcReads)
        /\ awaiting' = FALSE /\ sentAt' = 0 /\ lastAttempt' = 0 /\ everAttempted' = FALSE
        /\ ntNamed' = FALSE /\ inbox' = Time!NoDatagram
        /\ UNCHANGED <<wall, rtc, token, sentWall, answers, exact>>
    BY <1>8, Zenon DEF Time!Restart
  <2>2. /\ ntClock' \in [valid : BOOLEAN, synced : BOOLEAN, base : Nat, at : 0..Wrap-1]
        /\ ntClock'.synced = FALSE
    BY <2>1 DEF Time!BootClock, Time!RtcReads
  <2>3. AnswersInv' BY <2>1
  <2>4. InboxInv' BY <2>1, <1>b
  <2>5. SyncInv' BY <2>2, Zenon DEF SyncInv
  <2>6. ({awaiting, everAttempted, ntNamed} \subseteq BOOLEAN)' BY <2>1, Zenon
  <2>7. QED BY <1>0, <2>1, <2>2, <2>3, <2>4, <2>5, <2>6, SMTT(30)
<1>9. QED
  BY <1>1, <1>2, <1>3, <1>4, <1>5, <1>6, <1>7, <1>8, Zenon DEF Time!Next

\* In focus or not, the clock is what the server said: a time adopted is one it had between
\* the request and the adoption, and the battery-backed clock stays within its tolerance of
\* it, whatever the network loses, repeats or invents (ntpTask, eventClockSynced).
THEOREM ClockStaysDisciplined == ServicesSpec => []ClockIsDisciplined
<1> DEFINE Inv == focus = "time" => TimeInv
<1>1. ServicesInit => Inv BY TimeStarts, Zenon DEF ServicesInit
<1>2. Inv /\ Step => Inv' BY FocusStays, TimeMoves, TimeStep, Zenon
<1>3. TimeInv => Time!TypeOK /\ Time!ClockIsDisciplined
  <2> SUFFICES ASSUME TimeInv PROVE Time!RtcFollowsClock
    BY Zenon DEF TimeInv, Time!ClockIsDisciplined, Time!ClockIsAnAnswer
  <2>1. SUFFICES ASSUME ntClock.synced, wall - ntBoot < Wrap
                 PROVE  /\ ntClock.base >= 1
                        /\ Time!RtcReads - Time!NowEpoch \in -RtcTolerance..RtcTolerance
    BY Zenon DEF Time!RtcFollowsClock
  <2>2. /\ ntClock.base >= 1 /\ ntClock.valid /\ ntClock.at <= wall - ntBoot
        /\ ntBoot + ntClock.at + rtc - ntClock.base \in -RtcTolerance..RtcTolerance
    BY <2>1, Zenon DEF TimeInv, SyncInv
  <2>3. PICK n \in 0..Wrap-1 : n = wall - ntBoot - ntClock.at
    BY <2>1, <2>2, TimeConstants DEF TimeInv, Time!TypeOK, AnswersInv
  <2>4. n % Wrap = n BY SmallRemainder, TimeConstants
  <2>5. Time!Now - ntClock.at = n
    BY <2>1, <2>3, Elapsed, TimeConstants DEF TimeInv, Time!TypeOK
  <2>6. Time!NowEpoch = ntClock.base + n BY <2>2, <2>4, <2>5, Zenon DEF Time!NowEpoch
  <2>a. /\ wall \in Int /\ ntBoot \in Int /\ rtc \in Int
        /\ ntClock.at \in Int /\ ntClock.base \in Int
    BY TimeConstants DEF TimeInv, Time!TypeOK
  <2>7. Time!RtcReads - Time!NowEpoch = ntBoot + ntClock.at + rtc - ntClock.base
    BY <2>3, <2>6, <2>a DEF Time!RtcReads
  <2>8. QED BY <2>2, <2>7, Zenon
<1>4. Inv => ClockIsDisciplined BY <1>3, Zenon DEF ClockIsDisciplined
<1> HIDE DEF Inv
<1>5. QED BY <1>1, <1>2, <1>4, PTL DEF ServicesSpec, Step

-----------------------------------------------------------------------------
(* The configuration store.  The inductive invariant StoreInv orders the   *)
(* documents of the card into a chain, .tmp after the live file after      *)
(* .bak, whose generations stay close enough to compare over the wrap of   *)
(* the counter, and says at every point of a save which of them is still   *)
(* the one last acknowledged.                                              *)

\* What is assumed of the constants, in one place.
Sizes == MaxEdits \in Nat /\ Generations \in Nat /\ Generations > 2 * (MaxEdits + 3)

\* Which card operations may fail.
SafeFaults == Faults \subseteq {"write", "keep", "swap"}

USE DEF vars, ramVars, taskVars, history

-----------------------------------------------------------------------------
(* Generations and the documents that follow one another.                  *)

\* How far generation a is ahead of b on the circle of the counter.
Ahead(a, b) == (a + Generations - b) % Generations
Bit(p) == IF p THEN 1 ELSE 0

\* Document n was saved after o: nothing of o is newer, and every generation in between
\* is accounted for by an edit, by the generated PIN or by the value the wrap skips.
Chain(n, o) ==
  /\ o.val <= n.val /\ (o.pin => n.pin)
  /\ Ahead(n.gen, o.gen) \in 1..((n.val - o.val) + Bit(n.pin /\ ~o.pin) + Bit(n.gen < o.gen))

\* Of the card operations, the ones SafeFaults leaves out always succeed.
LEMMA Reliable == ASSUME SafeFaults
  PROVE Outcome("remove") = {TRUE} /\ Outcome("promote") = {TRUE} /\ Outcome("restore") = {TRUE}
  BY DEF SafeFaults, Outcome

\* The distance on the circle, without the modulus.
LEMMA AheadIs == ASSUME Sizes, NEW a \in 0..(Generations - 1), NEW b \in 0..(Generations - 1)
  PROVE Ahead(a, b) = IF a >= b THEN a - b ELSE a + Generations - b
  BY SMTT(20) DEF Sizes, Ahead

\* generationNewer() orders two documents of a chain as they were saved, over the wrap of
\* the counter, and their generations differ.
LEMMA ChainIsNewer ==
  ASSUME Sizes, NEW n \in Documents, NEW o \in Documents, Chain(n, o)
  PROVE  Newer(n.gen, o.gen) /\ ~Newer(o.gen, n.gen) /\ n.gen # o.gen
<1>1. /\ n.gen \in 0..(Generations - 1) /\ o.gen \in 0..(Generations - 1)
      /\ n.val \in 0..MaxEdits /\ o.val \in 0..MaxEdits
  BY DEF Documents, Values
<1> DEFINE d == Ahead(n.gen, o.gen)
           e == Ahead(o.gen, n.gen)
<1>2. d \in 1..(MaxEdits + 2)
  <2>1. Bit(n.pin /\ ~o.pin) \in 0..1 /\ Bit(n.gen < o.gen) \in 0..1 BY DEF Bit
  <2>2. QED BY <1>1, <2>1 DEF Sizes, Chain
<1>3. d = (IF n.gen >= o.gen THEN n.gen - o.gen ELSE n.gen + Generations - o.gen)
      /\ e = (IF o.gen >= n.gen THEN o.gen - n.gen ELSE o.gen + Generations - n.gen)
  BY <1>1, AheadIs
<1> HIDE DEF d, e
<1>4. Generations \div 2 \in Nat /\ 2 * (Generations \div 2) <= Generations
      /\ Generations <= 2 * (Generations \div 2) + 1
  BY SMTT(20) DEF Sizes
<1>5. 0 < d /\ d < Generations \div 2 /\ n.gen # o.gen
  BY <1>1, <1>2, <1>3, <1>4 DEF Sizes
<1>6. ~(e < Generations \div 2)
  BY <1>1, <1>2, <1>3, <1>4 DEF Sizes
<1>7. QED BY <1>5, <1>6 DEF Newer, Ahead, d, e

\* NextGeneration, of any generation.
Next1(g) == IF g + 1 = Generations THEN 1 ELSE g + 1

\* The document a save writes, one generation on and with an edit or a PIN more, follows
\* the one it was made from and every document that one follows.
LEMMA ChainGrows ==
  ASSUME Sizes, NEW n \in Documents, NEW m \in Documents,
         m.gen = Next1(n.gen), n.pin => m.pin,
         n.val < m.val \/ (n.val = m.val /\ m.pin /\ ~n.pin)
  PROVE  /\ Chain(m, n)
         /\ \A o \in Documents : Chain(n, o) => Chain(m, o)
<1>1. /\ n.gen \in 0..(Generations - 1) /\ m.gen \in 0..(Generations - 1)
      /\ n.val \in 0..MaxEdits /\ m.val \in 0..MaxEdits /\ n.pin \in BOOLEAN /\ m.pin \in BOOLEAN
  BY DEF Documents, Values
<1>2. Chain(m, n)
  <2>1. Ahead(m.gen, n.gen) = IF m.gen >= n.gen THEN m.gen - n.gen ELSE m.gen + Generations - n.gen
    BY <1>1, AheadIs
  <2>2. QED BY <1>1, <2>1 DEF Chain, Bit, Next1, Sizes
<1>3. ASSUME NEW o \in Documents, Chain(n, o) PROVE Chain(m, o)
  <2>1. o.gen \in 0..(Generations - 1) /\ o.val \in 0..MaxEdits /\ o.pin \in BOOLEAN
    BY DEF Documents, Values
  <2>2. Ahead(m.gen, o.gen) = IF m.gen >= o.gen THEN m.gen - o.gen ELSE m.gen + Generations - o.gen
    BY <1>1, <2>1, AheadIs
  <2>3. Ahead(n.gen, o.gen) = IF n.gen >= o.gen THEN n.gen - o.gen ELSE n.gen + Generations - o.gen
    BY <1>1, <2>1, AheadIs
  <2>4. QED BY <1>1, <1>3, <2>1, <2>2, <2>3, SMTT(30) DEF Chain, Bit, Next1, Sizes
<1>4. QED BY <1>2, <1>3

-----------------------------------------------------------------------------
(* The invariant.                                                          *)

Follows(n, o) == Complete(n) /\ Complete(o) => Chain(file[n], file[o])

\* The card: a chain of documents, none from the future and none torn but .tmp.
CardInv ==
  /\ \A n \in Names : file[n].val <= edits
  /\ ram <= edits
  /\ file["live"] # Broken /\ file["bak"] # Broken
  /\ Follows("tmp", "live") /\ Follows("tmp", "bak") /\ Follows("live", "bak")

\* A board that is off, or whose card does not answer, lifts no interlock.
RestInv ==
  /\ pc = "off" => ~card
  /\ ~card => /\ source = "none" /\ ~provisioned /\ pc \in {"off", "ensure", "idle"}
              /\ pc \in {"off", "ensure"} => ~pin /\ ~saveNeeded /\ ram = 0
              /\ acked = {} => ~Exists("live") /\ ~Exists("bak")

\* A boot that puts the document it found back under the live name.
Booting == pc \in {"bootBad", "bootAside", "bootPromote"}
BootInv == Booting =>
  /\ \/ source = "tmp"
     \/ source = "bak" /\ ~Exists("live") /\ ~Complete("tmp")
  /\ Complete(source)
  /\ file[source].val = ram /\ file[source].pin = pin /\ file[source].gen = generation
  /\ acked = {ram} /\ tried = {}
  /\ pc = "bootAside" => ~Exists("bad")
  /\ pc = "bootPromote" => ~Exists("live")
  /\ ~saveNeeded /\ ~provisioned

\* The points of a save; from the swap on, the document acknowledged is .bak.
Saving == pc \in {"open", "fill", "verify", "dropBak", "keep", "swap", "restore"}
Swapping == pc \in {"swap", "restore"}
Running == card /\ ~Booting
Base == IF Swapping THEN "bak" ELSE "live"

\* The document acknowledged is complete, and a save that is owed would change it.
Kept ==
  /\ Complete(Base) /\ file[Base].gen = generation /\ acked = {file[Base].val}
  /\ file[Base].val <= ram /\ (file[Base].pin => pin)
  /\ saveNeeded \/ Saving => file[Base].val < ram \/ (pin /\ ~file[Base].pin)

\* A board that runs from its card.
RunInv == Running =>
  /\ acked = {} => ~Exists("live") /\ ~Exists("bak")
  /\ acked # {} => Kept
  /\ Complete("tmp") => file["tmp"].gen = NextGeneration /\ file["tmp"].val \in tried
  /\ Swapping => ~Exists("live") /\ (hadLive <=> acked # {})
  /\ pc = "ensure" =>
       /\ ~Complete("tmp") /\ ~saveNeeded /\ ~provisioned
       /\ (source # "none" <=> acked # {}) /\ (pin => source # "none")
       /\ acked # {} => ram = file["live"].val /\ pin = file["live"].pin
  /\ Saving => ram \in tried
  /\ pc = "open" => ~Exists("tmp")
  /\ pc = "fill" => ~Complete("tmp") /\ Exists("tmp")
  /\ pc = "verify" /\ Complete("tmp") => file["tmp"].val = ram /\ file["tmp"].pin = pin
  /\ pc \in {"dropBak", "keep", "swap", "restore"} =>
       Complete("tmp") /\ file["tmp"].val = ram /\ file["tmp"].pin = pin
  /\ pc = "keep" => ~Exists("bak")
  /\ provisioned => acked # {} /\ file[Base].pin

\* What the next boot would find: .tmp, the live file or .bak.
FoundInv ==
  /\ acked # {} => Complete("tmp") \/ Complete("live") \/ Complete("bak")
  /\ Complete("tmp") => file["tmp"].val \in acked \cup tried
  /\ Complete("live") /\ ~Complete("tmp") => file["live"].val \in acked \cup tried
  /\ Complete("bak") /\ ~Complete("tmp") /\ ~Complete("live")
       => file["bak"].val \in acked \cup tried

StoreInv == TypeOK /\ CardInv /\ RestInv /\ BootInv /\ RunInv /\ FoundInv

-----------------------------------------------------------------------------
(* The card.                                                               *)

\* A document, a fragment and an absent file are told apart by their kind.
LEMMA Kinds == ASSUME Sizes
  PROVE /\ Absent.kind = "absent" /\ Broken.kind = "broken" /\ Absent # Broken
        /\ 0 \in Values /\ 0 \in 0..(Generations - 1)
        /\ \A d \in Documents : d.kind = "doc" /\ d.gen \in 0..(Generations - 1)
                                /\ d.val \in Values /\ d.pin \in BOOLEAN
        /\ Absent.val = 0 /\ Broken.val = 0
  BY DEF Absent, Broken, Documents, Values, Sizes

\* What a name of the card may hold.
Files == Documents \cup {Absent, Broken}

\* A name holds a document, a fragment or nothing, and Complete and Exists say which.
LEMMA FileIs == ASSUME Sizes, TypeOK, NEW n \in Names
  PROVE /\ file[n] \in Files
        /\ Complete(n) <=> file[n] \in Documents
        /\ Exists(n) <=> file[n] # Absent
  <1>1. file[n] \in Documents \cup {Absent, Broken} BY DEF TypeOK
  <1>2. QED BY <1>1, Kinds, Zenon DEF Files, Complete, Exists

\* Removing and renaming leave every name with something it may hold.
LEMMA FilesMoved == ASSUME TypeOK
  PROVE /\ \A n \in Names : Without(n) \in [Names -> Files]
        /\ \A m, n \in Names : Renamed(m, n) \in [Names -> Files]
  BY DEF TypeOK, Without, Renamed, Files

\* A removal empties one name.
LEMMA WithoutIs == ASSUME TypeOK, NEW n \in Names, NEW m \in Names
  PROVE Without(n)[m] = IF m = n THEN Absent ELSE file[m]
  BY DEF TypeOK, Without

\* A rename empties its source, fills its target and leaves the other names.
LEMMA RenamedIs == ASSUME TypeOK, NEW n \in Names, NEW m \in Names, NEW k \in Names, m # n
  PROVE Renamed(m, n)[k] = IF k = m THEN Absent ELSE IF k = n THEN file[m] ELSE file[k]
  BY DEF TypeOK, Renamed

\* loadConfiguration() chooses one of the three names.
LEMMA NewestName == Newest \in {"live", "tmp", "bak"} BY DEF Newest, Better

\* Every step keeps the types.
LEMMA TypeStep == Sizes /\ SafeFaults /\ TypeOK /\ BootInv /\ [Next]_vars => TypeOK'
<1> SUFFICES ASSUME Sizes, SafeFaults, TypeOK, BootInv, [Next]_vars PROVE TypeOK' OBVIOUS
<1>a. 0 \in Values /\ 0 \in 0..(Generations - 1) /\ NextGeneration \in 0..(Generations - 1)
  BY DEF Values, Sizes, NextGeneration, TypeOK
<1>b. "live" \in Names /\ "tmp" \in Names /\ "bak" \in Names /\ "bad" \in Names BY DEF Names
<1>e. /\ Without("tmp") \in [Names -> Files] /\ Without("bak") \in [Names -> Files]
      /\ Without("bad") \in [Names -> Files] /\ file \in [Names -> Files]
      /\ Renamed("live", "bad") \in [Names -> Files] /\ Renamed("live", "bak") \in [Names -> Files]
      /\ Renamed("tmp", "live") \in [Names -> Files] /\ Renamed("bak", "live") \in [Names -> Files]
  BY <1>b, FilesMoved, Zenon DEF TypeOK, Files
<1>c. TmpRemoved => file' \in [Names -> Files]
  BY <1>e, Zenon DEF TmpRemoved
<1>d. ASSUME NEW ok, SaveReturns(ok), ok \in BOOLEAN
      PROVE pc' \in PcSet /\ saveNeeded' \in BOOLEAN /\ provisioned' \in BOOLEAN
  BY <1>d, Zenon DEF SaveReturns, TypeOK, PcSet
<1>1. CASE BootLoad
  <2>1. CASE card' /\ Complete(Newest)
    <3>1. Newest \in Names BY NewestName DEF Names
    <3>2. file[Newest] \in Documents BY <2>1, <3>1, FileIs, Zenon
    <3>3. /\ ram' = file[Newest].val /\ pin' = file[Newest].pin
          /\ generation' = file[Newest].gen /\ source' = Newest
          /\ pc' = IF Newest = "live" THEN "ensure" ELSE "bootBad"
          /\ acked' = {ram'} /\ tried' = {} /\ card' \in BOOLEAN
          /\ UNCHANGED <<hadLive, file, taskVars, edits>>
      BY <1>1, <2>1, Zenon DEF BootLoad
    <3>4. ram' \in Values /\ pin' \in BOOLEAN /\ generation' \in 0..(Generations - 1)
      BY <3>2, <3>3, Kinds, Zenon
    <3>5. pc' \in PcSet BY <3>3 DEF PcSet
    <3>6. QED BY <3>3, <3>4, <3>5, NewestName DEF TypeOK
  <2>2. CASE ~(card' /\ Complete(Newest))
    <3>1. /\ ram' = 0 /\ pin' = FALSE /\ generation' = 0 /\ source' = "none"
          /\ pc' = "ensure" /\ card' \in BOOLEAN
          /\ UNCHANGED <<hadLive, file, taskVars, edits, acked, tried>>
      BY <1>1, <2>2, Zenon DEF BootLoad
    <3>2. QED BY <3>1, <1>a DEF TypeOK, PcSet
  <2>3. QED BY <2>1, <2>2
<1>2. CASE BootDropBad \/ BootAside \/ BootPromote
  <2>1. source \in Names BY <1>2 DEF BootInv, Booting, Names, BootDropBad, BootAside, BootPromote
  <2>2. file' \in [Names -> Files]
    <3>1. CASE BootDropBad
      BY <3>1, <1>e, Zenon DEF BootDropBad
    <3>2. CASE BootAside
      BY <3>2, <1>b, FilesMoved, ZenonT(40) DEF BootAside, TypeOK, Files
    <3>3. CASE BootPromote
      <4>1. Renamed(source, "live") \in [Names -> Files] BY <1>b, <2>1, FilesMoved, Zenon
      <4>2. QED BY <3>3, <4>1, <1>e, Zenon DEF BootPromote
    <3>4. QED BY <1>2, <3>1, <3>2, <3>3
  <2>3. pc' \in PcSet BY <1>2 DEF BootDropBad, BootAside, BootPromote, PcSet
  <2>4. UNCHANGED <<hadLive, card, ramVars, taskVars, history>>
    BY <1>2, Zenon DEF BootDropBad, BootAside, BootPromote
  <2>5. QED BY <2>2, <2>3, <2>4, Zenon DEF TypeOK, Files
<1>3. CASE EnsureLoadedPin \/ EnsureNoEntropy
  BY <1>3 DEF EnsureLoadedPin, EnsureNoEntropy, TypeOK, PcSet
<1>4. CASE EnsureGeneratePin
  <2>1. file' \in [Names -> Files] /\ tried' \subseteq Values /\ pc' \in PcSet
    BY <1>4, <1>c, Zenon DEF EnsureGeneratePin, TypeOK, Files, PcSet
  <2>2. /\ pin' = TRUE /\ saveNeeded' = TRUE
        /\ UNCHANGED <<hadLive, card, ram, generation, source, provisioned, edits, acked>>
    BY <1>4, Zenon DEF EnsureGeneratePin
  <2>3. QED BY <2>1, <2>2, Zenon DEF TypeOK, Files
<1>5. CASE SaveTask
  <2>1. file' \in [Names -> Files] /\ tried' \subseteq Values /\ pc' \in PcSet
    BY <1>5, <1>c, Zenon DEF SaveTask, SaveBegins, TypeOK, Files, PcSet
  <2>2. UNCHANGED <<hadLive, card, ramVars, taskVars, edits, acked>>
    BY <1>5, Zenon DEF SaveTask, SaveBegins
  <2>3. QED BY <2>1, <2>2, Zenon DEF TypeOK, Files
<1>6. CASE SaveOpen \/ SaveFill
  <2>1. Broken \in Files
        /\ [kind |-> "doc", gen |-> NextGeneration, val |-> ram, pin |-> pin] \in Files
    BY <1>a, Zenon DEF Files, Documents, TypeOK
  <2>2. file' \in [Names -> Files]
    BY <1>6, <2>1, Zenon DEF SaveOpen, SaveFill, TypeOK, Files
  <2>3. pc' \in PcSet /\ saveNeeded' \in BOOLEAN /\ provisioned' \in BOOLEAN
    <3>1. CASE SaveOpen
      BY <3>1, <1>d, Zenon DEF SaveOpen, TypeOK, PcSet
    <3>2. CASE SaveFill
      BY <3>2, Zenon DEF SaveFill, TypeOK, PcSet
    <3>3. QED BY <1>6, <3>1, <3>2
  <2>4. UNCHANGED <<hadLive, card, ramVars, history>> BY <1>6, Zenon DEF SaveOpen, SaveFill
  <2>5. QED BY <2>2, <2>3, <2>4, Zenon DEF TypeOK, Files
<1>7. CASE SaveVerified
  BY <1>7 DEF SaveVerified, TypeOK, PcSet
<1>8. CASE SaveAbandoned
  <2>1. file' \in [Names -> Files] BY <1>8, <1>c DEF SaveAbandoned
  <2>2. pc' \in PcSet /\ saveNeeded' \in BOOLEAN /\ provisioned' \in BOOLEAN
    BY <1>8, <1>d, Zenon DEF SaveAbandoned
  <2>3. UNCHANGED <<hadLive, card, ramVars, history>> BY <1>8 DEF SaveAbandoned
  <2>4. QED BY <2>1, <2>2, <2>3, Zenon DEF TypeOK, Files
<1>9. CASE SaveDropBak
  <2>1. file' \in [Names -> Files]
    BY <1>9, <1>e, Zenon DEF SaveDropBak
  <2>2. pc' \in PcSet /\ UNCHANGED <<hadLive, card, ramVars, taskVars, history>>
    BY <1>9 DEF SaveDropBak, PcSet
  <2>3. QED BY <2>1, <2>2, Zenon DEF TypeOK, Files
<1>10. CASE SaveKeepPrevious
  <2>1. file' \in [Names -> Files]
    BY <1>10, <1>b, FilesMoved, Zenon DEF SaveKeepPrevious, TypeOK, Files
  <2>2. pc' \in PcSet /\ saveNeeded' \in BOOLEAN /\ provisioned' \in BOOLEAN
    BY <1>10, <1>d, Zenon DEF SaveKeepPrevious, TypeOK, PcSet
  <2>3. hadLive' \in BOOLEAN BY <1>10, Zenon DEF SaveKeepPrevious, Exists
  <2>4. UNCHANGED <<card, ramVars, history>> BY <1>10 DEF SaveKeepPrevious
  <2>5. QED BY <2>1, <2>2, <2>3, <2>4, Zenon DEF TypeOK, Files
<1>11. CASE SaveSwap
  <2>1. file' \in [Names -> Files]
    BY <1>11, <1>e, Zenon DEF SaveSwap
  <2>2. pc' \in PcSet /\ saveNeeded' \in BOOLEAN /\ provisioned' \in BOOLEAN
    BY <1>11, <1>d, Zenon DEF SaveSwap, TypeOK, PcSet
  <2>3. generation' \in 0..(Generations - 1) /\ acked' \subseteq Values /\ tried' \subseteq Values
    BY <1>11, <1>a, Zenon DEF SaveSwap, TypeOK
  <2>4. UNCHANGED <<hadLive, card, ram, pin, source, edits>> BY <1>11 DEF SaveSwap
  <2>5. QED BY <2>1, <2>2, <2>3, <2>4, Zenon DEF TypeOK, Files
<1>12. CASE SaveRestore
  <2>1. file' \in [Names -> Files]
    BY <1>12, <1>e, Zenon DEF SaveRestore, Restored
  <2>2. pc' \in PcSet /\ saveNeeded' \in BOOLEAN /\ provisioned' \in BOOLEAN
    BY <1>12, <1>d, Zenon DEF SaveRestore
  <2>3. UNCHANGED <<hadLive, card, ramVars, history>> BY <1>12 DEF SaveRestore
  <2>4. QED BY <2>1, <2>2, <2>3, Zenon DEF TypeOK, Files
<1>13. CASE Edit
  <2>1. edits' \in Values BY <1>13 DEF Edit, TypeOK, Values, Sizes
  <2>2. QED BY <1>13, <2>1 DEF Edit, TypeOK
<1>14. CASE PowerLoss BY <1>14, <1>a DEF PowerLoss, TypeOK, PcSet
<1>15. CASE UNCHANGED vars BY <1>15 DEF TypeOK
<1>16. QED
  BY <1>1, <1>2, <1>3, <1>4, <1>5, <1>6, <1>7, <1>8, <1>9, <1>10, <1>11, <1>12, <1>13, <1>14,
     <1>15, Zenon DEF Next, Boot, Ensure, Save

\* The boot takes .tmp if it is complete, else the live file, else .bak: the generations
\* never decide otherwise.
LEMMA NewestIs == ASSUME Sizes, TypeOK, CardInv
  PROVE  Newest = IF Complete("tmp") THEN "tmp"
                  ELSE IF Complete("live") \/ ~Complete("bak") THEN "live" ELSE "bak"
<1>1. ASSUME NEW n \in Names, NEW o \in Names, Follows(n, o), Complete(n), Complete(o)
      PROVE Newer(file[n].gen, file[o].gen) /\ ~Newer(file[o].gen, file[n].gen)
  <2>1. file[n] \in Documents /\ file[o] \in Documents BY <1>1, FileIs
  <2>2. QED BY <1>1, <2>1, ChainIsNewer DEF Follows
<1>2. "live" \in Names /\ "tmp" \in Names /\ "bak" \in Names BY DEF Names
<1>3. Follows("tmp", "live") /\ Follows("tmp", "bak") /\ Follows("live", "bak") BY DEF CardInv
<1>4. Better("live", "tmp") = IF Complete("tmp") THEN "tmp" ELSE "live"
  BY <1>1, <1>2, <1>3, Zenon DEF Better
<1>5. CASE Complete("tmp")
  <2>1. Better("tmp", "bak") = "tmp" BY <1>1, <1>2, <1>3, <1>5, Zenon DEF Better
  <2>2. QED BY <1>4, <1>5, <2>1 DEF Newest
<1>6. CASE ~Complete("tmp")
  <2>1. Better("live", "bak") = IF Complete("live") \/ ~Complete("bak") THEN "live" ELSE "bak"
    BY <1>1, <1>2, <1>3, <1>6, Zenon DEF Better
  <2>2. QED BY <1>4, <1>6, <2>1 DEF Newest
<1>7. QED BY <1>5, <1>6

-----------------------------------------------------------------------------
(* The steps.                                                              *)

\* What every step may use.
Context == Sizes /\ SafeFaults /\ StoreInv /\ TypeOK'
Others == CardInv' /\ RestInv' /\ BootInv' /\ RunInv' /\ FoundInv'

\* Reading the card at boot keeps the invariant.
LEMMA ByBootLoad == Context /\ BootLoad => Others
<1> SUFFICES ASSUME Context, BootLoad PROVE Others OBVIOUS
<1> USE DEF Context, StoreInv
<1>1. CASE card' /\ Complete(Newest)
  <2>1. Newest \in Names BY NewestName DEF Names
  <2>3. /\ ram' = file[Newest].val /\ pin' = file[Newest].pin
        /\ generation' = file[Newest].gen /\ source' = Newest
        /\ pc' = IF Newest = "live" THEN "ensure" ELSE "bootBad"
        /\ acked' = {ram'} /\ tried' = {} /\ card'
        /\ UNCHANGED <<hadLive, file, taskVars, edits>>
    BY <1>1, Zenon DEF BootLoad
  <2>4. ~card /\ ~provisioned /\ ~saveNeeded /\ pc = "off"
    BY DEF BootLoad, RestInv
  <2>5. CardInv'
    BY <2>1, <2>3 DEF CardInv, Follows, Complete
  <2>6. CASE Newest = "live"
    <3>1. Complete("live") /\ ~Complete("tmp") BY <2>6, <1>1, NewestIs
    <3>2. pc' = "ensure" /\ source' = "live" BY <2>3, <2>6
    <3>3. RestInv' BY <2>3, <3>2 DEF RestInv
    <3>4. BootInv' BY <3>2 DEF BootInv, Booting
    <3>5. RunInv'
      <4>1. ~Saving' /\ ~Swapping' /\ Base' = "live" /\ ~saveNeeded' /\ ~provisioned'
        BY <2>3, <2>4, <3>2 DEF Saving, Swapping, Base
      <4>2. /\ file' = file /\ acked' = {ram'} /\ acked' # {} /\ ram' = file["live"].val
            /\ pin' = file["live"].pin /\ generation' = file["live"].gen
        BY <2>3, <2>6
      <4>3. file["live"].val \in Nat BY <3>1, FileIs, Kinds DEF Names, Values, Sizes
      <4>4. Kept' BY <3>1, <4>1, <4>2, <4>3 DEF Kept, Complete
      <4>5. ~Complete("tmp")' BY <3>1, <4>2 DEF Complete
      <4>6. QED BY <3>2, <4>1, <4>2, <4>4, <4>5, Zenon DEF RunInv
    <3>6. FoundInv' BY <2>3, <2>6, <3>1 DEF FoundInv, Complete
    <3>7. QED BY <2>5, <3>3, <3>4, <3>5, <3>6, Zenon DEF Others
  <2>7. CASE Newest # "live"
    <3>1. \/ Newest = "tmp" /\ Complete("tmp")
          \/ Newest = "bak" /\ Complete("bak") /\ ~Complete("live") /\ ~Complete("tmp")
      BY <2>7, <1>1, NewestIs
    <3>2. pc' = "bootBad" /\ source' = Newest BY <2>3, <2>7
    <3>3. RestInv' BY <2>3, <3>2 DEF RestInv
    <3>4. BootInv'
      <4>1. ~Complete("live") => ~Exists("live")
        BY FileIs, Kinds DEF Names, Files, CardInv
      <4>2. QED BY <2>3, <2>4, <3>1, <3>2, <4>1, <1>1 DEF BootInv, Complete, Exists
    <3>5. RunInv' BY <3>2 DEF RunInv, Running, Booting
    <3>6. FoundInv' BY <2>3, <3>1 DEF FoundInv, Complete
    <3>7. QED BY <2>5, <3>3, <3>4, <3>5, <3>6, Zenon DEF Others
  <2>8. QED BY <2>6, <2>7
<1>2. CASE ~(card' /\ Complete(Newest))
  <2>1. /\ ram' = 0 /\ pin' = FALSE /\ generation' = 0 /\ source' = "none"
        /\ pc' = "ensure" /\ UNCHANGED <<hadLive, file, taskVars, edits, acked, tried>>
    BY <1>2, Zenon DEF BootLoad
  <2>2. ~card /\ ~provisioned /\ ~saveNeeded /\ pc = "off"
    BY DEF BootLoad, RestInv
  <2>5. CardInv'
    BY <2>1 DEF CardInv, Follows, Complete, TypeOK, Values, Sizes
  <2>6. card' => acked = {} /\ ~Complete("tmp")
    BY <1>2, NewestIs DEF FoundInv
  <2>7. QED BY <2>1, <2>2, <2>5, <2>6 DEF Others, RestInv, BootInv, RunInv, FoundInv,
         Complete, Exists, Booting, Running, Saving, Swapping, Kept, Base
<1>3. QED BY <1>1, <1>2

\* A boot that repairs the card: only .bad is lost, and the document found takes its place.
LEMMA ByBootRepair == Context /\ (BootDropBad \/ BootAside \/ BootPromote) => Others
<1> SUFFICES ASSUME Context, BootDropBad \/ BootAside \/ BootPromote PROVE Others OBVIOUS
<1> USE DEF Context, StoreInv
<1>1. /\ Booting /\ card /\ card' /\ ~saveNeeded /\ ~provisioned
      /\ UNCHANGED <<hadLive, card, ramVars, taskVars, history>>
  BY DEF BootDropBad, BootAside, BootPromote, Booting, BootInv, RestInv
<1>2. /\ \/ source = "tmp"
         \/ source = "bak" /\ ~Exists("live") /\ ~Complete("tmp")
      /\ Complete(source) /\ acked = {ram} /\ tried = {}
      /\ file[source].val = ram /\ file[source].pin = pin /\ file[source].gen = generation
  BY <1>1 DEF BootInv
<1>3. "live" \in Names /\ "tmp" \in Names /\ "bak" \in Names /\ "bad" \in Names BY DEF Names
<1>4. RestInv' BY <1>1 DEF RestInv, BootDropBad, BootAside, BootPromote
<1>5. CASE BootDropBad
  <2>1. pc' = "bootAside" /\ file' = Without("bad")
    <3>1. PICK ok \in Outcome("remove") : file' = IF ok THEN Without("bad") ELSE file
      BY <1>5, Zenon DEF BootDropBad
    <3>2. ok = TRUE BY Reliable
    <3>3. QED BY <1>5, <3>1, <3>2 DEF BootDropBad
  <2>2. /\ file'["live"] = file["live"] /\ file'["tmp"] = file["tmp"]
        /\ file'["bak"] = file["bak"] /\ file'["bad"] = Absent
    BY <1>3, <2>1, WithoutIs
  <2>3. CardInv'
    <3>1. \A n \in Names : file'[n].val <= edits'
      BY <1>1, <2>2, Kinds DEF Names, CardInv, TypeOK, Values, Sizes
    <3>2. QED BY <1>1, <2>2, <3>1, Zenon DEF CardInv, Follows, Complete
  <2>4. BootInv'
    BY <1>1, <1>2, <2>1, <2>2, Kinds DEF BootInv, Booting, Complete, Exists
  <2>5. RunInv' BY <2>1 DEF RunInv, Running, Booting
  <2>6. FoundInv' BY <1>1, <2>2, Zenon DEF FoundInv, Complete
  <2>7. QED BY <1>4, <2>3, <2>4, <2>5, <2>6, Zenon DEF Others
<1>6. CASE BootAside
  <2>1. pc' = "bootPromote"
        /\ file' = IF CanRename("live", "bad") THEN Renamed("live", "bad") ELSE file
    <3>1. PICK ok \in Outcome("promote") :
            file' = IF ok /\ CanRename("live", "bad") THEN Renamed("live", "bad") ELSE file
      BY <1>6, Zenon DEF BootAside
    <3>2. ok = TRUE BY Reliable
    <3>3. QED BY <1>6, <3>1, <3>2 DEF BootAside
  <2>2. ~Exists("bad") BY <1>6 DEF BootAside, BootInv, Booting
  <2>3. /\ file'["live"] = Absent /\ file'["tmp"] = file["tmp"] /\ file'["bak"] = file["bak"]
        /\ file'["bad"] \in {file["live"], Absent}
    <3>1. CASE Exists("live")
      BY <1>3, <2>1, <2>2, <3>1, RenamedIs DEF CanRename
    <3>2. CASE ~Exists("live")
      <4>1. file' = file /\ file["live"] = Absent /\ file["bad"] = Absent
        BY <1>3, <2>1, <2>2, <3>2, FileIs, Zenon DEF CanRename
      <4>2. QED BY <4>1
    <3>3. QED BY <3>1, <3>2
  <2>4. CardInv'
    <3>1. \A n \in Names : file'[n].val <= edits'
      BY <1>1, <2>3, Kinds DEF Names, CardInv, TypeOK, Values, Sizes
    <3>2. QED BY <1>1, <2>3, <3>1, Kinds DEF CardInv, Follows, Complete
  <2>5. BootInv'
    BY <1>1, <1>2, <2>1, <2>3, Kinds DEF BootInv, Booting, Complete, Exists
  <2>6. RunInv' BY <2>1 DEF RunInv, Running, Booting
  <2>7. FoundInv' BY <1>1, <1>2, <2>3, Kinds DEF FoundInv, Complete
  <2>8. QED BY <1>4, <2>4, <2>5, <2>6, <2>7, Zenon DEF Others
<1>7. CASE BootPromote
  <2>1. ~Exists("live") /\ pc = "bootPromote" BY <1>7 DEF BootPromote, BootInv, Booting
  <2>2. Exists(source) /\ source \in Names /\ source # "live" BY <1>2, <1>3 DEF Complete, Exists
  <2>3. pc' = "ensure" /\ file' = Renamed(source, "live")
    <3>1. PICK ok \in Outcome("promote") :
            file' = IF ok /\ CanRename(source, "live") THEN Renamed(source, "live") ELSE file
      BY <1>7, Zenon DEF BootPromote
    <3>2. ok = TRUE BY Reliable
    <3>3. QED BY <1>7, <2>1, <2>2, <3>1, <3>2 DEF BootPromote, CanRename
  <2>4. /\ file'["live"] = file[source] /\ file'[source] = Absent
        /\ \A n \in Names \ {"live", source} : file'[n] = file[n]
    BY <1>3, <2>2, <2>3, RenamedIs
  <2>5. ~Complete("tmp")' /\ file'["tmp"] \in {file["tmp"], Absent}
    BY <1>2, <1>3, <2>4, Kinds DEF Complete
  <2>6. file'["bak"] \in {file["bak"], Absent} /\ Follows("live", "bak")'
    BY <1>2, <1>3, <2>4, Kinds DEF Complete, CardInv, Follows
  <2>7. CardInv'
    <3>1. \A n \in Names : file'[n].val <= edits'
      BY <1>1, <2>2, <2>4, Kinds DEF Names, CardInv, TypeOK, Values, Sizes
    <3>2. file'["live"] # Broken /\ file'["bak"] # Broken
      BY <1>2, <2>4, <2>6, Kinds DEF CardInv, Complete
    <3>3. ram' <= edits' BY <1>1 DEF CardInv
    <3>4. QED BY <2>5, <2>6, <3>1, <3>2, <3>3, Zenon DEF CardInv, Follows
  <2>8. BootInv' BY <2>3 DEF BootInv, Booting
  <2>9. RunInv'
    <3>1. ~Saving' /\ ~Swapping' /\ Base' = "live" /\ ~saveNeeded' /\ ~provisioned'
      BY <1>1, <2>3 DEF Saving, Swapping, Base
    <3>2. /\ acked' = {ram'} /\ acked' # {} /\ ram' = file'["live"].val
          /\ pin' = file'["live"].pin /\ generation' = file'["live"].gen /\ Complete("live")'
      BY <1>1, <1>2, <2>4 DEF Complete
    <3>3. file'["live"].val \in Nat BY <1>2, <2>2, <2>4, FileIs, Kinds DEF Values, Sizes
    <3>4. Kept' BY <3>1, <3>2, <3>3 DEF Kept
    <3>5. source' # "none" BY <1>1, <1>2
    <3>6. QED BY <2>3, <2>5, <3>1, <3>2, <3>4, <3>5, Zenon DEF RunInv
  <2>10. FoundInv' BY <1>1, <1>2, <2>4, <2>5 DEF FoundInv, Complete
  <2>11. QED BY <1>4, <2>7, <2>8, <2>9, <2>10, Zenon DEF Others
<1>8. QED BY <1>5, <1>6, <1>7

\* A removal of .tmp takes nothing else.
LEMMA TmpGone ==
  Context /\ TmpRemoved => /\ file' = Without("tmp") /\ file'["tmp"] = Absent
                           /\ \A n \in Names \ {"tmp"} : file'[n] = file[n]
<1> SUFFICES ASSUME Context, TmpRemoved
             PROVE  /\ file' = Without("tmp") /\ file'["tmp"] = Absent
                    /\ \A n \in Names \ {"tmp"} : file'[n] = file[n]
  OBVIOUS
<1>1. PICK ok \in Outcome("remove") : file' = IF ok THEN Without("tmp") ELSE file
  BY Zenon DEF TmpRemoved
<1>2. ok = TRUE BY Reliable DEF Context
<1>3. TypeOK /\ "tmp" \in Names BY DEF Context, StoreInv, Names
<1>4. QED BY <1>1, <1>2, <1>3, WithoutIs

\* The conditions under which a save begins, for SaveTask and for EnsureGeneratePin.
Begins ==
  /\ pc \in {"idle", "ensure"} /\ card /\ TmpRemoved /\ tried' = tried \cup {ram}
  /\ pc' = "open" /\ saveNeeded' = TRUE /\ (pin => pin')
  /\ acked # {} => file["live"].val < ram \/ (pin' /\ ~file["live"].pin)
  /\ UNCHANGED <<hadLive, card, ram, generation, source, provisioned, edits, acked>>

\* A save that begins keeps the invariant.
LEMMA ByBeginning == Context /\ Begins => Others
<1> SUFFICES ASSUME Context, Begins PROVE Others OBVIOUS
<1> USE DEF Context, StoreInv
<1>1. /\ pc' = "open" /\ saveNeeded' = TRUE /\ (pin => pin') /\ tried' = tried \cup {ram}
      /\ card /\ TmpRemoved /\ pc \in {"idle", "ensure"}
      /\ acked # {} => file["live"].val < ram \/ (pin' /\ ~file["live"].pin)
      /\ UNCHANGED <<hadLive, card, ram, generation, source, provisioned, edits, acked>>
  BY Zenon DEF Begins
<1>2. /\ file'["tmp"] = Absent /\ file'["live"] = file["live"]
      /\ file'["bak"] = file["bak"] /\ file'["bad"] = file["bad"]
  BY <1>1, TmpGone DEF Names
<1>3. Running /\ Base = "live" /\ Base' = "live" /\ Saving' /\ ~Swapping'
  BY <1>1 DEF Running, Booting, Base, Swapping, Saving
<1>4. CardInv'
  <2>1. \A n \in Names : file'[n].val <= edits'
    BY <1>1, <1>2, Kinds DEF Names, CardInv, TypeOK, Values, Sizes
  <2>2. QED BY <1>1, <1>2, <2>1, Kinds DEF CardInv, Follows, Complete
<1>5. RestInv' BY <1>1 DEF RestInv
<1>6. BootInv' BY <1>1 DEF BootInv, Booting
<1>7. acked # {} => Kept'
  BY <1>1, <1>2, <1>3 DEF RunInv, Kept, Complete
<1>8. RunInv'
  <2>1. ~Exists("tmp")' /\ ~Complete("tmp")' BY <1>2, Kinds DEF Complete, Exists
  <2>2. provisioned' => acked' # {} /\ file'["live"].pin
    BY <1>1, <1>2, <1>3 DEF RunInv
  <2>3. acked' = {} => ~Exists("live")' /\ ~Exists("bak")'
    BY <1>1, <1>2, <1>3 DEF RunInv, Exists
  <2>4. ram' \in tried' BY <1>1
  <2>5. QED BY <1>1, <1>3, <1>7, <2>1, <2>2, <2>3, <2>4 DEF RunInv
<1>9. FoundInv'
  <2>1. ~Complete("tmp")' BY <1>2, Kinds DEF Complete
  <2>2. acked' # {} => Complete("live")' /\ acked' = {file'["live"].val}
    BY <1>1, <1>3, <1>7 DEF Kept
  <2>3. acked' = {} => ~Complete("live")' /\ ~Complete("bak")'
    BY <1>1, <1>2, <1>3 DEF RunInv, Exists, Complete
  <2>4. QED BY <2>1, <2>2, <2>3 DEF FoundInv
<1>10. QED BY <1>4, <1>5, <1>6, <1>8, <1>9, Zenon DEF Others

\* The save that loop() starts is such a beginning.
LEMMA BySaveTask == Context /\ SaveTask => Others
<1> SUFFICES ASSUME Context, SaveTask PROVE Others OBVIOUS
<1>1. /\ pc = "idle" /\ card /\ saveNeeded /\ TmpRemoved /\ tried' = tried \cup {ram}
      /\ pc' = "open" /\ UNCHANGED <<hadLive, card, ramVars, taskVars, edits, acked>>
  BY Zenon DEF SaveTask, SaveBegins
<1>2. Running /\ Base = "live" BY <1>1 DEF Running, Booting, Base, Swapping
<1>3. acked # {} => file["live"].val < ram \/ (pin /\ ~file["live"].pin)
  BY <1>1, <1>2 DEF Context, StoreInv, RunInv, Kept
<1>4. saveNeeded' = TRUE BY <1>1 DEF Context, StoreInv, TypeOK
<1>5. Begins BY <1>1, <1>3, <1>4, Zenon DEF Begins
<1>6. QED BY <1>5, ByBeginning

\* writePinEnsure() keeps the invariant, whether a PIN is loaded, generated or neither.
LEMMA ByEnsure == Context /\ Ensure => Others
<1> SUFFICES ASSUME Context, Ensure PROVE Others OBVIOUS
<1> USE DEF Context, StoreInv
<1>1. pc = "ensure" /\ ~Booting /\ ~Saving /\ ~Swapping /\ Base = "live"
  BY DEF Ensure, EnsureLoadedPin, EnsureGeneratePin, EnsureNoEntropy, Booting, Saving, Swapping,
         Base
<1>2. CASE EnsureLoadedPin
  <2>1. card /\ source # "none" /\ acked # {} /\ file["live"].pin
    BY <1>1, <1>2 DEF EnsureLoadedPin, RestInv, RunInv, Running
  <2>2. /\ pc' = "idle" /\ provisioned' = TRUE /\ saveNeeded' = FALSE
        /\ UNCHANGED <<hadLive, file, card, ramVars, history>>
    BY <1>2, <2>1 DEF EnsureLoadedPin
  <2>3. ~Booting' /\ ~Saving' /\ ~Swapping' /\ Base' = "live"
    BY <2>2 DEF Booting, Saving, Swapping, Base
  <2>4. CardInv' /\ FoundInv' BY <2>2 DEF CardInv, FoundInv, Follows, Complete
  <2>5. RestInv' /\ BootInv' BY <2>1, <2>2, <2>3 DEF RestInv, BootInv
  <2>6. Kept' BY <1>1, <2>1, <2>2, <2>3 DEF RunInv, Running, Kept, Complete
  <2>7. RunInv'
    BY <1>1, <2>1, <2>2, <2>3, <2>6 DEF RunInv, Running, Complete, Exists, NextGeneration
  <2>8. QED BY <2>4, <2>5, <2>7, Zenon DEF Others
<1>3. CASE EnsureNoEntropy
  <2>2. /\ pc' = "idle" /\ UNCHANGED <<hadLive, file, card, ramVars, taskVars, history>>
    BY <1>3 DEF EnsureNoEntropy
  <2>3. ~Booting' /\ ~Saving' /\ ~Swapping' /\ Base' = "live"
    BY <2>2 DEF Booting, Saving, Swapping, Base
  <2>4. CardInv' /\ FoundInv' BY <2>2 DEF CardInv, FoundInv, Follows, Complete
  <2>5. RestInv' /\ BootInv' BY <1>1, <2>2, <2>3 DEF RestInv, BootInv, Exists
  <2>6. card /\ acked # {} => Kept' BY <1>1, <2>2, <2>3 DEF RunInv, Running, Kept, Complete
  <2>7. RunInv'
    BY <1>1, <2>2, <2>3, <2>6 DEF RunInv, Running, Complete, Exists, NextGeneration
  <2>8. QED BY <2>4, <2>5, <2>7, Zenon DEF Others
<1>4. CASE EnsureGeneratePin
  <2>1. /\ ~pin /\ pin' = TRUE /\ saveNeeded' = TRUE
        /\ UNCHANGED <<hadLive, card, ram, generation, source, provisioned, edits, acked>>
    BY <1>4, Zenon DEF EnsureGeneratePin
  <2>2. CASE card
    <3>1. TmpRemoved /\ tried' = tried \cup {ram} /\ pc' = "open"
      BY <1>4, <2>2, Zenon DEF EnsureGeneratePin
    <3>2. acked # {} => ~file["live"].pin
      BY <1>1, <2>1, <2>2 DEF RunInv, Running
    <3>3. Begins BY <1>1, <2>1, <2>2, <3>1, <3>2, Zenon DEF Begins
    <3>4. QED BY <3>3, ByBeginning
  <2>3. CASE ~card
    <3>1. pc' = "idle" /\ UNCHANGED <<file, tried>>
      BY <1>4, <2>3, Zenon DEF EnsureGeneratePin
    <3>2. ~Running' /\ ~Booting' BY <2>1, <2>3, <3>1 DEF Running, Booting
    <3>3. CardInv' /\ FoundInv' BY <2>1, <3>1 DEF CardInv, FoundInv, Follows, Complete
    <3>4. RestInv' BY <1>1, <2>1, <2>3, <3>1 DEF RestInv, Exists
    <3>5. QED BY <3>2, <3>3, <3>4, Zenon DEF Others, BootInv, RunInv
  <2>4. QED BY <2>2, <2>3
<1>5. QED BY <1>2, <1>3, <1>4 DEF Ensure

\* What holds in the middle of a save.
LEMMA InSave ==
  Context /\ Saving =>
    /\ card /\ Running /\ ~Booting /\ pc \notin {"off", "ensure", "idle"} /\ ram \in tried
    /\ acked # {} => Kept
    /\ acked = {} => ~Exists("live") /\ ~Exists("bak")
    /\ provisioned => acked # {} /\ file[Base].pin
BY DEF Context, StoreInv, Saving, RestInv, RunInv, Running, Booting

\* A save that gives up with the base document in place: nothing is lost, and the save is
\* owed again.
GivesUp ==
  /\ Saving /\ ~Swapping /\ SaveReturns(FALSE)
  /\ file'["live"] = file["live"] /\ file'["bak"] \in {file["bak"], Absent}
  /\ file'["tmp"] \in {file["tmp"], Absent} /\ file'["bad"] = file["bad"]
  /\ Complete("tmp") => file["tmp"].val \in tried
  /\ UNCHANGED <<card, ramVars, history>>

\* Giving up keeps the invariant.
LEMMA ByGivingUp == Context /\ GivesUp => Others
<1> SUFFICES ASSUME Context, GivesUp PROVE Others OBVIOUS
<1> USE DEF Context, StoreInv
<1>1. /\ pc' = "idle" /\ saveNeeded' = TRUE /\ provisioned' = provisioned
      /\ UNCHANGED <<card, ramVars, history>>
  BY DEF GivesUp, SaveReturns, TypeOK
<1>2. /\ file'["live"] = file["live"] /\ file'["bak"] \in {file["bak"], Absent}
      /\ file'["tmp"] \in {file["tmp"], Absent} /\ file'["bad"] = file["bad"]
      /\ Saving /\ ~Swapping
  BY DEF GivesUp
<1>3. /\ card /\ Base = "live" /\ Base' = "live" /\ ~Saving' /\ ~Swapping'
      /\ acked # {} => Kept
      /\ acked = {} => ~Exists("live") /\ ~Exists("bak")
      /\ provisioned => acked # {} /\ file["live"].pin
  BY <1>1, <1>2, InSave DEF Base, Swapping, Saving
<1>4. CardInv'
  <2>1. \A n \in Names : file'[n].val <= edits'
    BY <1>1, <1>2, Kinds DEF Names, CardInv, TypeOK, Values, Sizes
  <2>2. QED BY <1>1, <1>2, <2>1, Kinds DEF CardInv, Follows, Complete
<1>5. RestInv' /\ BootInv' BY <1>1, <1>3 DEF RestInv, BootInv, Booting
<1>6. acked # {} => Kept' BY <1>1, <1>2, <1>3 DEF Kept, Complete
<1>7. Complete("tmp")' => /\ Complete("tmp") /\ file'["tmp"] = file["tmp"]
                          /\ file["tmp"].val \in tried /\ file["tmp"].gen = NextGeneration
  BY <1>2, <1>3, Kinds, InSave DEF GivesUp, Complete, RunInv
<1>8. acked = {} => ~Exists("live")' /\ ~Exists("bak")'
  BY <1>2, <1>3, Kinds DEF Exists
<1>9. RunInv'
  <2>1. NextGeneration' = NextGeneration BY <1>1 DEF NextGeneration
  <2>2. QED BY <1>1, <1>2, <1>3, <1>6, <1>7, <1>8, <2>1 DEF RunInv
<1>10. FoundInv'
  <2>1. acked # {} => Complete("live")' /\ acked = {file'["live"].val}
    BY <1>2, <1>3, <1>6 DEF Kept, Complete
  <2>2. acked = {} => ~Complete("live")' /\ ~Complete("bak")'
    BY <1>8 DEF Exists, Complete
  <2>3. QED BY <1>1, <1>7, <2>1, <2>2 DEF FoundInv
<1>11. QED BY <1>4, <1>5, <1>9, <1>10, Zenon DEF Others

\* Opening .tmp keeps the invariant, or gives up.
LEMMA BySaveOpen == Context /\ SaveOpen => Others
<1> SUFFICES ASSUME Context, SaveOpen PROVE Others OBVIOUS
<1> USE DEF Context, StoreInv
<1>1. pc = "open" /\ Saving /\ ~Swapping /\ UNCHANGED <<hadLive, card, ramVars, history>>
  BY DEF SaveOpen, Saving, Swapping
<1>2. ~Exists("tmp") /\ ~Complete("tmp")
  BY <1>1, InSave DEF RunInv, Exists, Complete
<1>3. PICK ok \in Outcome("write") :
        IF ok THEN /\ file' = IF Exists("tmp") THEN file ELSE [file EXCEPT !["tmp"] = Broken]
                   /\ pc' = IF Exists("tmp") THEN "verify" ELSE "fill"
                   /\ UNCHANGED taskVars
              ELSE SaveReturns(FALSE) /\ UNCHANGED file
  BY Zenon DEF SaveOpen
<1>4. CASE ~ok
  <2>1. SaveReturns(FALSE) /\ file' = file BY <1>3, <1>4, Zenon
  <2>2. GivesUp BY <1>1, <1>2, <2>1, Zenon DEF GivesUp
  <2>3. QED BY <2>2, ByGivingUp
<1>5. CASE ok
  <2>1. file' = [file EXCEPT !["tmp"] = Broken] /\ pc' = "fill" /\ UNCHANGED taskVars
    BY <1>2, <1>3, <1>5, Zenon
  <2>2. /\ file'["tmp"] = Broken /\ file'["live"] = file["live"]
        /\ file'["bak"] = file["bak"] /\ file'["bad"] = file["bad"]
    BY <2>1 DEF TypeOK, Names
  <2>3. ~Complete("tmp")' /\ Exists("tmp")' BY <2>2, Kinds DEF Complete, Exists
  <2>4. Base = "live" /\ Base' = "live" /\ Saving' /\ ~Swapping'
    BY <1>1, <2>1 DEF Base, Swapping, Saving
  <2>5. CardInv'
    <3>1. \A n \in Names : file'[n].val <= edits'
      BY <1>1, <2>2, Kinds DEF Names, CardInv, TypeOK, Values, Sizes
    <3>2. QED BY <1>1, <2>2, <2>3, <3>1 DEF CardInv, Follows, Complete
  <2>6. RestInv' /\ BootInv' BY <1>1, <2>1, InSave DEF RestInv, BootInv, Booting
  <2>7. acked # {} => Kept' BY <1>1, <2>1, <2>2, <2>4, InSave DEF Kept, Complete
  <2>8. RunInv'
    <3>1. acked = {} => ~Exists("live")' /\ ~Exists("bak")'
      BY <1>1, <2>2, InSave DEF Exists
    <3>2. provisioned' => acked' # {} /\ file'["live"].pin
      BY <1>1, <2>1, <2>2, <2>4, InSave
    <3>3. ram' \in tried' BY <1>1, InSave
    <3>4. QED BY <1>1, <2>1, <2>3, <2>4, <2>7, <3>1, <3>2, <3>3 DEF RunInv
  <2>9. FoundInv'
    BY <1>1, <1>2, <2>2, <2>3 DEF FoundInv, Complete
  <2>10. QED BY <2>5, <2>6, <2>8, <2>9, Zenon DEF Others
<1>6. QED BY <1>4, <1>5

\* The document a save writes follows every complete document on the card.
LEMMA BySaveFill == Context /\ SaveFill => Others
<1> SUFFICES ASSUME Context, SaveFill PROVE Others OBVIOUS
<1> USE DEF Context, StoreInv
<1> DEFINE new == [kind |-> "doc", gen |-> NextGeneration, val |-> ram, pin |-> pin]
<1>1. /\ pc = "fill" /\ Saving /\ ~Swapping /\ pc' = "verify" /\ Saving' /\ ~Swapping'
      /\ Base = "live" /\ Base' = "live"
      /\ UNCHANGED <<hadLive, card, ramVars, taskVars, history>>
  BY DEF SaveFill, Saving, Swapping, Base
<1>2. ~Complete("tmp") /\ Exists("tmp") BY <1>1, InSave DEF RunInv
<1>3. PICK ok \in Outcome("write") :
        file' = IF ok THEN [file EXCEPT !["tmp"] = new] ELSE file
  BY Zenon DEF SaveFill
<1>4. new \in Documents /\ new.gen = NextGeneration /\ new.val = ram /\ new.pin = pin
      /\ new.kind = "doc"
  BY DEF Documents, TypeOK, Values, NextGeneration, Sizes
<1>5. /\ file'["live"] = file["live"] /\ file'["bak"] = file["bak"] /\ file'["bad"] = file["bad"]
      /\ file'["tmp"] = IF ok THEN new ELSE file["tmp"]
  BY <1>3 DEF TypeOK, Names
<1>6. acked # {} => /\ Chain(new, file["live"])
                    /\ Complete("bak") => Chain(new, file["bak"])
  <2> SUFFICES ASSUME acked # {} PROVE /\ Chain(new, file["live"])
                                       /\ Complete("bak") => Chain(new, file["bak"])
    OBVIOUS
  <2>1. Kept BY <1>1, InSave
  <2>2. Complete("live") /\ file["live"] \in Documents /\ file["live"].gen = generation
        /\ (file["live"].pin => pin)
        /\ (file["live"].val < ram \/ (pin /\ ~file["live"].pin)) /\ file["live"].val <= ram
    BY <1>1, <2>1, FileIs DEF Kept, Names
  <2>3. file["live"].val \in Nat /\ ram \in Nat BY <2>2, Kinds DEF TypeOK, Values, Sizes
  <2>4. new.gen = Next1(file["live"].gen) BY <1>4, <2>2 DEF Next1, NextGeneration
  <2>5. Chain(new, file["live"])
        /\ \A o \in Documents : Chain(file["live"], o) => Chain(new, o)
    <3>1. file["live"].val < new.val \/ (file["live"].val = new.val /\ new.pin /\ ~file["live"].pin)
      BY <1>4, <2>2, <2>3
    <3>2. file["live"].pin => new.pin BY <1>4, <2>2
    <3> HIDE DEF new
    <3>3. QED BY <1>4, <2>2, <2>4, <3>1, <3>2, ChainGrows
  <2>6. Complete("bak") => file["bak"] \in Documents /\ Chain(file["live"], file["bak"])
    BY <2>2, FileIs DEF Names, CardInv, Follows
  <2>7. QED BY <2>5, <2>6
<1> HIDE DEF new
<1>7. acked = {} => ~Complete("live") /\ ~Complete("bak")
  BY <1>1, InSave DEF Complete, Exists
<1>8. CardInv'
  <2>1. ram <= edits BY DEF CardInv
  <2>2. \A n \in Names : file'[n].val <= edits'
    BY <1>1, <1>4, <1>5, <2>1 DEF Names, CardInv
  <2>3. Follows("tmp", "live")' /\ Follows("tmp", "bak")'
    BY <1>2, <1>5, <1>6, <1>7 DEF Follows, Complete, CardInv
  <2>4. QED BY <1>1, <1>5, <2>2, <2>3 DEF CardInv, Follows, Complete
<1>9. RestInv' /\ BootInv' BY <1>1, InSave DEF RestInv, BootInv, Booting
<1>10. acked # {} => Kept' BY <1>1, <1>5, InSave DEF Kept, Complete
<1>11. Complete("tmp")' => file'["tmp"].gen = NextGeneration /\ file'["tmp"].val = ram
                           /\ file'["tmp"].pin = pin
  BY <1>2, <1>4, <1>5 DEF Complete
<1>12. RunInv'
  <2>1. acked = {} => ~Exists("live")' /\ ~Exists("bak")'
    BY <1>1, <1>5, InSave DEF Exists
  <2>2. provisioned' => acked' # {} /\ file'["live"].pin BY <1>1, <1>5, InSave
  <2>3. ram' \in tried' BY <1>1, InSave
  <2>4. NextGeneration' = NextGeneration BY <1>1 DEF NextGeneration
  <2>5. QED BY <1>1, <1>10, <1>11, <2>1, <2>2, <2>3, <2>4 DEF RunInv
<1>13. FoundInv'
  BY <1>1, <1>2, <1>5, <1>11, InSave DEF FoundInv, Complete
<1>14. QED BY <1>8, <1>9, <1>12, <1>13, Zenon DEF Others

\* Reading .tmp back keeps the invariant.
LEMMA BySaveVerified == Context /\ SaveVerified => Others
<1> SUFFICES ASSUME Context, SaveVerified PROVE Others OBVIOUS
<1> USE DEF Context, StoreInv
<1>1. /\ pc = "verify" /\ Saving /\ ~Swapping /\ pc' = "dropBak" /\ Saving' /\ ~Swapping'
      /\ Base = "live" /\ Base' = "live" /\ Complete("tmp")
      /\ UNCHANGED <<hadLive, file, card, ramVars, taskVars, history>>
  BY DEF SaveVerified, Verified, Saving, Swapping, Base
<1>2. CardInv' /\ FoundInv' BY <1>1 DEF CardInv, FoundInv, Follows, Complete
<1>3. RestInv' /\ BootInv' BY <1>1, InSave DEF RestInv, BootInv, Booting
<1>4. acked # {} => Kept' BY <1>1, InSave DEF Kept, Complete
<1>5. /\ Complete("tmp")' /\ file'["tmp"].gen = NextGeneration' /\ file'["tmp"].val \in tried'
      /\ file'["tmp"].val = ram' /\ file'["tmp"].pin = pin'
  BY <1>1, InSave DEF RunInv, Complete, NextGeneration
<1>6. acked = {} => ~Exists("live")' /\ ~Exists("bak")' BY <1>1, InSave DEF Exists
<1>7. provisioned' => acked' # {} /\ file'["live"].pin BY <1>1, InSave
<1>8. RunInv' BY <1>1, <1>4, <1>5, <1>6, <1>7, InSave DEF RunInv
<1>9. QED BY <1>2, <1>3, <1>8, Zenon DEF Others

\* A .tmp that does not read back is given up.
LEMMA BySaveAbandoned == Context /\ SaveAbandoned => Others
<1> SUFFICES ASSUME Context, SaveAbandoned PROVE Others OBVIOUS
<1>1. /\ pc = "verify" /\ TmpRemoved /\ SaveReturns(FALSE)
      /\ UNCHANGED <<hadLive, card, ramVars, history>>
  BY Zenon DEF SaveAbandoned
<1>2. Saving /\ ~Swapping BY <1>1 DEF Saving, Swapping
<1>3. Complete("tmp") => file["tmp"].val \in tried
  BY <1>2, InSave DEF Context, StoreInv, RunInv
<1>4. /\ file'["live"] = file["live"] /\ file'["bak"] = file["bak"] /\ file'["tmp"] = Absent
      /\ file'["bad"] = file["bad"]
  BY <1>1, TmpGone DEF Names
<1>5. GivesUp BY <1>1, <1>2, <1>3, <1>4 DEF GivesUp
<1>6. QED BY <1>5, ByGivingUp

\* What the last steps of a save rely on: the new document, complete in .tmp.
Written == /\ Complete("tmp") /\ file["tmp"].gen = NextGeneration /\ file["tmp"].val = ram
           /\ file["tmp"].pin = pin

\* The last steps of a save have that document.
LEMMA InMove ==
  Context /\ pc \in {"dropBak", "keep", "swap", "restore"} => Saving /\ Written
BY InSave DEF Context, StoreInv, Saving, RunInv, Written

\* Dropping the old backup keeps the invariant: the live file is still there.
LEMMA BySaveDropBak == Context /\ SaveDropBak => Others
<1> SUFFICES ASSUME Context, SaveDropBak PROVE Others OBVIOUS
<1> USE DEF Context, StoreInv
<1>1. /\ pc = "dropBak" /\ Saving /\ ~Swapping /\ pc' = "keep" /\ Saving' /\ ~Swapping'
      /\ Base = "live" /\ Base' = "live"
      /\ UNCHANGED <<hadLive, card, ramVars, taskVars, history>>
  BY DEF SaveDropBak, Saving, Swapping, Base
<1>2. file' = Without("bak")
  <2>1. PICK ok \in Outcome("remove") : file' = IF ok THEN Without("bak") ELSE file
    BY Zenon DEF SaveDropBak
  <2>2. ok = TRUE BY Reliable
  <2>3. QED BY <2>1, <2>2
<1>3. /\ file'["live"] = file["live"] /\ file'["tmp"] = file["tmp"]
      /\ file'["bak"] = Absent /\ file'["bad"] = file["bad"]
  BY <1>2, WithoutIs DEF Names
<1>4. CardInv'
  <2>1. \A n \in Names : file'[n].val <= edits'
    BY <1>1, <1>3, Kinds DEF Names, CardInv, TypeOK, Values, Sizes
  <2>2. QED BY <1>1, <1>3, <2>1, Kinds DEF CardInv, Follows, Complete
<1>5. RestInv' /\ BootInv' BY <1>1, InSave DEF RestInv, BootInv, Booting
<1>6. acked # {} => Kept' BY <1>1, <1>3, InSave DEF Kept, Complete
<1>7. Written' BY <1>1, <1>3, InMove DEF Written, NextGeneration, Complete
<1>8. acked = {} => ~Exists("live")' BY <1>1, <1>3, InSave DEF Exists
<1>9. provisioned' => acked' # {} /\ file'["live"].pin BY <1>1, <1>3, InSave
<1>10. ~Exists("bak")' /\ ~Complete("bak")' BY <1>3, Kinds DEF Exists, Complete
<1>11. RunInv' BY <1>1, <1>6, <1>7, <1>8, <1>9, <1>10, InSave DEF RunInv, Written
<1>12. FoundInv' BY <1>1, <1>7, <1>10, InSave DEF FoundInv, Written
<1>13. QED BY <1>4, <1>5, <1>11, <1>12, Zenon DEF Others

\* Moving the live file to .bak keeps the invariant, or gives up.
LEMMA BySaveKeepPrevious == Context /\ SaveKeepPrevious => Others
<1> SUFFICES ASSUME Context, SaveKeepPrevious PROVE Others OBVIOUS
<1> USE DEF Context, StoreInv
<1>1. /\ pc = "keep" /\ Saving /\ ~Swapping /\ Base = "live" /\ hadLive' = Exists("live")
      /\ UNCHANGED <<card, ramVars, history>>
  BY DEF SaveKeepPrevious, Saving, Swapping, Base
<1>2. ~Exists("bak") /\ Written BY <1>1, InSave, InMove DEF RunInv
<1>3. PICK ok \in Outcome("keep") :
        LET moved == ok /\ CanRename("live", "bak")
        IN  /\ file' = IF moved THEN Renamed("live", "bak") ELSE file
            /\ IF hadLive' /\ ~moved THEN SaveReturns(FALSE)
                                     ELSE pc' = "swap" /\ UNCHANGED taskVars
  BY Zenon DEF SaveKeepPrevious
<1>4. CASE Exists("live") /\ ~ok
  <2>1. SaveReturns(FALSE) /\ file' = file BY <1>1, <1>3, <1>4, Zenon
  <2>2. Complete("tmp") => file["tmp"].val \in tried BY <1>1, InSave DEF RunInv
  <2>3. GivesUp BY <1>1, <2>1, <2>2 DEF GivesUp
  <2>4. QED BY <2>3, ByGivingUp
<1>5. CASE Exists("live") /\ ok
  <2>1. file' = Renamed("live", "bak") /\ pc' = "swap" /\ UNCHANGED taskVars
    BY <1>1, <1>2, <1>3, <1>5, Zenon DEF CanRename
  <2>2. /\ file'["live"] = Absent /\ file'["tmp"] = file["tmp"]
        /\ file'["bak"] = file["live"] /\ file'["bad"] = file["bad"]
    BY <2>1, RenamedIs DEF Names
  <2>3. Saving' /\ Swapping' /\ Base' = "bak" /\ hadLive' = TRUE /\ acked # {}
    BY <1>1, <1>5, <2>1, InSave DEF Saving, Swapping, Base
  <2>4. CardInv'
    <3>1. \A n \in Names : file'[n].val <= edits'
      BY <1>1, <2>2, Kinds DEF Names, CardInv, TypeOK, Values, Sizes
    <3>2. QED BY <1>1, <2>2, <3>1, Kinds DEF CardInv, Follows, Complete
  <2>5. RestInv' /\ BootInv' BY <1>1, <2>1, InSave DEF RestInv, BootInv, Booting
  <2>6. Kept' BY <1>1, <2>1, <2>2, <2>3, InSave DEF Kept, Complete
  <2>7. Written' BY <1>1, <1>2, <2>2 DEF Written, NextGeneration, Complete
  <2>8. ~Exists("live")' /\ ~Complete("live")' BY <2>2, Kinds DEF Exists, Complete
  <2>9. provisioned' => acked' # {} /\ file'["bak"].pin BY <1>1, <2>1, <2>2, InSave
  <2>10. RunInv' BY <1>1, <2>1, <2>3, <2>6, <2>7, <2>8, <2>9, InSave DEF RunInv, Written
  <2>11. FoundInv' BY <1>1, <2>7, InSave DEF FoundInv, Written
  <2>12. QED BY <2>4, <2>5, <2>10, <2>11, Zenon DEF Others
<1>6. CASE ~Exists("live")
  <2>1. file' = file /\ pc' = "swap" /\ UNCHANGED taskVars
    BY <1>1, <1>3, <1>6, Zenon DEF CanRename
  <2>2. acked = {} /\ ~provisioned
    BY <1>1, <1>6, InSave DEF Kept, Complete, Exists
  <2>3. Saving' /\ Swapping' /\ Base' = "bak" /\ hadLive' = FALSE
    BY <1>1, <1>6, <2>1 DEF Saving, Swapping, Base
  <2>4. CardInv' /\ FoundInv' BY <1>1, <2>1 DEF CardInv, FoundInv, Follows, Complete
  <2>5. RestInv' /\ BootInv' BY <1>1, <2>1, InSave DEF RestInv, BootInv, Booting
  <2>6. Written' BY <1>1, <1>2, <2>1 DEF Written, NextGeneration, Complete
  <2>7. ~Exists("live")' /\ ~Exists("bak")' BY <1>2, <1>6, <2>1 DEF Exists
  <2>8. RunInv' BY <1>1, <2>1, <2>2, <2>3, <2>6, <2>7, InSave DEF RunInv, Written
  <2>9. QED BY <2>4, <2>5, <2>8, Zenon DEF Others
<1>7. QED BY <1>4, <1>5, <1>6

\* Moving .tmp to the live name acknowledges it; if it fails, .bak still is acknowledged.
LEMMA BySaveSwap == Context /\ SaveSwap => Others
<1> SUFFICES ASSUME Context, SaveSwap PROVE Others OBVIOUS
<1> USE DEF Context, StoreInv
<1>1. /\ pc = "swap" /\ Saving /\ Swapping /\ Base = "bak" /\ card
      /\ UNCHANGED <<hadLive, card, ram, pin, source, edits>>
  BY InSave DEF SaveSwap, Saving, Swapping, Base
<1>2. ~Exists("live") /\ ~Complete("live") /\ Exists("tmp") /\ Written
  BY <1>1, InSave, InMove DEF RunInv, Exists, Complete, Written
<1>3. PICK ok \in Outcome("swap") :
        IF ok /\ CanRename("tmp", "live")
          THEN /\ file' = Renamed("tmp", "live")
               /\ generation' = NextGeneration
               /\ acked' = {ram} /\ tried' = {}
               /\ SaveReturns(TRUE)
          ELSE /\ pc' = "restore"
               /\ UNCHANGED <<file, generation, acked, tried, taskVars>>
  BY <1>1, Zenon DEF SaveSwap
<1>4. CASE ok
  <2>1. /\ file' = Renamed("tmp", "live") /\ generation' = NextGeneration
        /\ acked' = {ram} /\ tried' = {} /\ SaveReturns(TRUE)
    BY <1>2, <1>3, <1>4, Zenon DEF CanRename
  <2>2. pc' = "idle" /\ saveNeeded' = FALSE /\ provisioned' = (provisioned \/ pin)
    <3>1. pc' = "idle" /\ saveNeeded' = ~TRUE /\ provisioned' = (provisioned \/ (TRUE /\ pin))
      BY <2>1, Zenon DEF SaveReturns
    <3>2. QED BY <3>1, Zenon
  <2>3. /\ file'["live"] = file["tmp"] /\ file'["tmp"] = Absent
        /\ file'["bak"] = file["bak"] /\ file'["bad"] = file["bad"]
    BY <2>1, RenamedIs DEF Names
  <2>4. ~Saving' /\ ~Swapping' /\ ~Booting' /\ Base' = "live"
    BY <2>2 DEF Saving, Swapping, Booting, Base
  <2>5. CardInv'
    <3>1. \A n \in Names : file'[n].val <= edits'
      BY <1>1, <2>3, Kinds DEF Names, CardInv, TypeOK, Values, Sizes
    <3>2. ram' <= edits' BY <1>1 DEF CardInv
    <3>3. file'["live"] # Broken /\ file'["bak"] # Broken
      BY <1>2, <2>3, Kinds DEF Written, Complete, CardInv
    <3>4. ~Complete("tmp")' BY <2>3, Kinds DEF Complete
    <3>5. Follows("live", "bak")' BY <2>3 DEF CardInv, Follows, Complete
    <3>6. QED BY <3>1, <3>2, <3>3, <3>4, <3>5, Zenon DEF CardInv, Follows
  <2>6. RestInv' /\ BootInv' BY <1>1, <2>2, <2>4 DEF RestInv, BootInv
  <2>7. Complete("live")' /\ file'["live"].gen = generation' /\ acked' = {file'["live"].val}
        /\ file'["live"].val = ram' /\ file'["live"].pin = pin'
    BY <1>1, <1>2, <2>1, <2>3 DEF Written, Complete
  <2>8. Kept' BY <2>2, <2>4, <2>7 DEF Kept, TypeOK, Values
  <2>9. provisioned' => file'["live"].pin
    <3>1. provisioned => pin BY <1>1, InSave DEF Kept
    <3>2. file'["live"].pin = pin BY <1>1, <2>7
    <3>3. provisioned' => pin BY <2>2, <3>1, Zenon
    <3>4. QED BY <3>2, <3>3, Zenon
  <2>10. ~Complete("tmp")' BY <2>3, Kinds DEF Complete
  <2>11. acked' # {} BY <2>1
  <2>12. RunInv' BY <2>2, <2>4, <2>8, <2>9, <2>10, <2>11 DEF RunInv
  <2>13. FoundInv' BY <2>7, <2>10, <2>11 DEF FoundInv
  <2>14. QED BY <2>5, <2>6, <2>12, <2>13, Zenon DEF Others
<1>5. CASE ~ok
  <2>1. pc' = "restore" /\ UNCHANGED <<file, generation, acked, tried, taskVars>>
    BY <1>3, <1>5, Zenon
  <2>2. Saving' /\ Swapping' /\ Base' = "bak" BY <2>1 DEF Saving, Swapping, Base
  <2>3. CardInv' /\ FoundInv' BY <1>1, <2>1 DEF CardInv, FoundInv, Follows, Complete
  <2>4. RestInv' /\ BootInv' BY <1>1, <2>1 DEF RestInv, BootInv, Booting
  <2>5. acked # {} => Kept' BY <1>1, <2>1, <2>2, InSave DEF Kept, Complete
  <2>6. Written' BY <1>1, <1>2, <2>1 DEF Written, NextGeneration, Complete
  <2>7. ~Exists("live")' /\ (acked = {} => ~Exists("bak")')
    BY <1>1, <1>2, <2>1, InSave DEF Exists
  <2>8. provisioned' => acked' # {} /\ file'["bak"].pin BY <1>1, <2>1, InSave
  <2>9. hadLive' <=> acked' # {} BY <1>1, <2>1, InSave DEF RunInv
  <2>10. RunInv' BY <1>1, <2>1, <2>2, <2>5, <2>6, <2>7, <2>8, <2>9, InSave DEF RunInv, Written
  <2>11. QED BY <2>3, <2>4, <2>10, Zenon DEF Others
<1>6. QED BY <1>4, <1>5

\* After a failed swap .bak goes back under the live name.
LEMMA BySaveRestore == Context /\ SaveRestore => Others
<1> SUFFICES ASSUME Context, SaveRestore PROVE Others OBVIOUS
<1> USE DEF Context, StoreInv
<1>1. /\ pc = "restore" /\ Saving /\ Swapping /\ Base = "bak" /\ card
      /\ SaveReturns(FALSE) /\ UNCHANGED <<hadLive, card, ramVars, history>>
  BY InSave DEF SaveRestore, Saving, Swapping, Base
<1>2. ~Exists("live") /\ Written /\ (hadLive <=> acked # {})
  BY <1>1, InSave, InMove DEF RunInv
<1>3. file' = Restored
  <2>1. PICK ok \in Outcome("restore") : file' = IF ok THEN Restored ELSE file
    BY Zenon DEF SaveRestore
  <2>2. ok = TRUE BY Reliable
  <2>3. QED BY <2>1, <2>2
<1>4. pc' = "idle" /\ saveNeeded' = TRUE /\ provisioned' = provisioned
  BY <1>1 DEF SaveReturns, TypeOK
<1>5. ~Saving' /\ ~Swapping' /\ ~Booting' /\ Base' = "live"
  BY <1>4 DEF Saving, Swapping, Booting, Base
<1>6. RestInv' /\ BootInv' BY <1>1, <1>4, <1>5 DEF RestInv, BootInv
<1>7. CASE acked # {}
  <2>1. Kept /\ Exists("bak") BY <1>1, <1>7, InSave DEF Kept, Complete, Exists
  <2>2. file' = Renamed("bak", "live")
    BY <1>2, <1>3, <1>7, <2>1, Zenon DEF Restored, CanRename
  <2>3. /\ file'["live"] = file["bak"] /\ file'["tmp"] = file["tmp"]
        /\ file'["bak"] = Absent /\ file'["bad"] = file["bad"]
    BY <2>2, RenamedIs DEF Names
  <2>4. CardInv'
    <3>1. \A n \in Names : file'[n].val <= edits'
      BY <1>1, <2>3, Kinds DEF Names, CardInv, TypeOK, Values, Sizes
    <3>2. QED BY <1>1, <2>3, <3>1, Kinds DEF CardInv, Follows, Complete
  <2>5. Kept' BY <1>1, <1>4, <1>5, <2>1, <2>3 DEF Kept, Complete
  <2>6. Written' BY <1>1, <1>2, <2>3 DEF Written, NextGeneration, Complete
  <2>7. provisioned' => acked' # {} /\ file'["live"].pin BY <1>1, <1>4, <2>3, InSave
  <2>8. ram \in tried BY <1>1, InSave
  <2>9. RunInv' BY <1>1, <1>4, <1>5, <1>7, <2>5, <2>6, <2>7, <2>8 DEF RunInv, Written
  <2>10. FoundInv' BY <1>1, <2>6, <2>8 DEF FoundInv, Written
  <2>11. QED BY <1>6, <2>4, <2>9, <2>10, Zenon DEF Others
<1>8. CASE acked = {}
  <2>1. file' = file BY <1>2, <1>3, <1>8, Zenon DEF Restored
  <2>2. CardInv' /\ FoundInv' BY <1>1, <2>1 DEF CardInv, FoundInv, Follows, Complete
  <2>3. Written' BY <1>1, <1>2, <2>1 DEF Written, NextGeneration, Complete
  <2>4. ~Exists("live")' /\ ~Exists("bak")' /\ ~provisioned /\ ram \in tried
    BY <1>1, <1>8, <2>1, InSave DEF Exists
  <2>5. RunInv' BY <1>1, <1>4, <1>5, <1>8, <2>3, <2>4 DEF RunInv, Written
  <2>6. QED BY <1>6, <2>2, <2>5, Zenon DEF Others
<1>9. QED BY <1>7, <1>8

\* A change of the configuration keeps the invariant; it makes a save owed.
LEMMA ByEdit == Context /\ Edit => Others
<1> SUFFICES ASSUME Context, Edit PROVE Others OBVIOUS
<1> USE DEF Context, StoreInv
<1>1. /\ pc = "idle" /\ pc' = "idle" /\ pin /\ edits' = edits + 1 /\ ram' = edits + 1
      /\ saveNeeded' = TRUE
      /\ UNCHANGED <<hadLive, file, card, pin, generation, source, provisioned, acked, tried>>
  BY DEF Edit
<1>2. ~Saving /\ ~Saving' /\ ~Swapping /\ ~Swapping' /\ ~Booting /\ ~Booting'
      /\ Base = "live" /\ Base' = "live"
  BY <1>1 DEF Saving, Swapping, Booting, Base
<1>3. edits \in Nat /\ \A n \in Names : file[n].val \in Nat
  BY FileIs, Kinds DEF TypeOK, Values, Sizes, Files
<1>4. CardInv' BY <1>1, <1>3 DEF CardInv, Follows, Complete
<1>5. RestInv' /\ BootInv' BY <1>1, <1>2 DEF RestInv, BootInv, Exists
<1>6. card /\ acked # {} => Kept'
  <2> SUFFICES ASSUME card, acked # {} PROVE Kept' OBVIOUS
  <2>1. Kept BY <1>2 DEF RunInv, Running
  <2>2. file["live"].val < ram' BY <1>1, <1>3 DEF CardInv, Names
  <2>3. file["live"].val <= ram' BY <1>1, <1>3 DEF CardInv, Names
  <2>4. QED BY <1>1, <1>2, <2>1, <2>2, <2>3 DEF Kept, Complete
<1>7. RunInv' BY <1>1, <1>2, <1>6 DEF RunInv, Running, Complete, Exists, NextGeneration
<1>8. FoundInv' BY <1>1 DEF FoundInv, Complete
<1>9. QED BY <1>4, <1>5, <1>7, <1>8, Zenon DEF Others

\* A power loss at any point keeps the invariant.
LEMMA ByPowerLoss == Context /\ PowerLoss => Others
<1> SUFFICES ASSUME Context, PowerLoss PROVE Others OBVIOUS
<1> USE DEF Context, StoreInv
<1>1. /\ pc' = "off" /\ hadLive' = FALSE /\ card' = FALSE
      /\ ram' = 0 /\ pin' = FALSE /\ generation' = 0 /\ source' = "none"
      /\ saveNeeded' = FALSE /\ provisioned' = FALSE
      /\ UNCHANGED <<file, history>>
  BY DEF PowerLoss
<1>2. CardInv' /\ FoundInv'
  BY <1>1 DEF CardInv, FoundInv, Follows, Complete, TypeOK, Values, Sizes
<1>3. acked = {} => ~Exists("live") /\ ~Exists("bak")
  BY DEF RestInv, BootInv, RunInv, Running
<1>4. RestInv' BY <1>1, <1>3 DEF RestInv, Exists
<1>5. BootInv' /\ RunInv' BY <1>1 DEF BootInv, RunInv, Booting, Running
<1>6. QED BY <1>2, <1>4, <1>5, Zenon DEF Others

\* So does a step of nothing.
LEMMA ByStutter == Context /\ UNCHANGED vars => Others
<1> SUFFICES ASSUME Context, UNCHANGED vars PROVE Others OBVIOUS
<1> USE DEF Context, StoreInv
<1>1. CardInv' /\ FoundInv' BY DEF CardInv, FoundInv, Follows, Complete
<1>2. RestInv' /\ BootInv' BY DEF RestInv, BootInv, Booting, Complete, Exists
<1>3. RunInv'
  BY DEF RunInv, Running, Booting, Saving, Swapping, Base, Kept, Complete, Exists, NextGeneration
<1>4. QED BY <1>1, <1>2, <1>3, Zenon DEF Others

-----------------------------------------------------------------------------
(* The theorems.                                                           *)

\* The assumptions of ConfigStore give Sizes.
LEMMA SizesHold == Sizes
BY MaxEditsAssumption, GenerationsAssumption DEF Sizes

\* Every card a board starts with satisfies the invariant.
LEMMA StoreStarts == Init => StoreInv
<1> SUFFICES ASSUME Init PROVE StoreInv OBVIOUS
<1>1. PICK first \in FirstLive :
        /\ file = [n \in Names |-> IF n = "live" THEN first ELSE Absent]
        /\ acked = IF first = Absent THEN {} ELSE {0}
  BY Zenon DEF Init
<1>2. /\ pc = "off" /\ hadLive = FALSE /\ card = FALSE
      /\ ram = 0 /\ pin = FALSE /\ generation = 0 /\ source = "none"
      /\ saveNeeded = FALSE /\ provisioned = FALSE
      /\ edits = 0 /\ tried = {}
  BY DEF Init
<1>3. /\ file["live"] = first /\ file["tmp"] = Absent /\ file["bak"] = Absent
      /\ file["bad"] = Absent
  BY <1>1 DEF Names
<1>4. first = Absent \/ (first \in Documents /\ first.val = 0)
  <2>1. 0 \in 0..(Generations - 1) /\ Generations - 2 \in 0..(Generations - 1) /\ 0 \in Values
    BY SizesHold DEF Sizes, Values
  <2>2. QED BY <2>1, Zenon DEF FirstLive, Documents
<1>5. /\ first \in Files /\ Absent \in Files /\ first # Broken /\ Absent # Broken
      /\ first.val = 0 /\ Absent.val = 0
  BY <1>4, SizesHold, Kinds DEF Files
<1>6. TypeOK
  <2>1. file \in [Names -> Documents \cup {Absent, Broken}] BY <1>1, <1>5 DEF Files
  <2>2. acked \subseteq Values BY <1>1, SizesHold, Kinds
  <2>3. 0 \in Values /\ 0 \in 0..(Generations - 1) BY SizesHold, Kinds
  <2>4. QED BY <1>2, <2>1, <2>2, <2>3 DEF TypeOK, PcSet
<1>7. ~Complete("tmp") /\ ~Complete("bak") BY <1>3, SizesHold, Kinds DEF Complete
<1>8. CardInv
  <2>1. \A n \in Names : file[n].val <= edits BY <1>2, <1>3, <1>5 DEF Names
  <2>2. QED BY <1>2, <1>3, <1>5, <1>7, <2>1 DEF CardInv, Follows
<1>9. acked = {} => first = Absent BY <1>1
<1>10. RestInv BY <1>2, <1>3, <1>9, SizesHold, Kinds DEF RestInv, Exists
<1>11. BootInv /\ RunInv BY <1>2 DEF BootInv, RunInv, Booting, Running
<1>12. FoundInv
  <2>1. acked # {} => first \in Documents /\ first.val = 0 /\ acked = {0}
    BY <1>1, <1>4
  <2>2. Complete("live") <=> first \in Documents
    BY <1>3, <1>4, SizesHold, Kinds DEF Complete
  <2>3. acked = {} => ~Complete("live") BY <1>3, <1>9, SizesHold, Kinds DEF Complete
  <2>4. QED BY <1>3, <1>7, <2>1, <2>2, <2>3 DEF FoundInv
<1>13. QED BY <1>6, <1>8, <1>10, <1>11, <1>12 DEF StoreInv

\* Every step keeps the invariant.
LEMMA StoreStep == ASSUME SafeFaults PROVE StoreInv /\ [Next]_vars => StoreInv'
<1> SUFFICES ASSUME StoreInv, [Next]_vars PROVE StoreInv' OBVIOUS
<1>1. TypeOK' BY SizesHold, TypeStep DEF StoreInv
<1>2. Context BY <1>1, SizesHold DEF Context
<1>3. Others
  <2>1. CASE Boot
    BY <1>2, <2>1, ByBootLoad, ByBootRepair DEF Boot
  <2>2. CASE Ensure BY <1>2, <2>2, ByEnsure
  <2>3. CASE Save
    BY <1>2, <2>3, BySaveTask, BySaveOpen, BySaveFill, BySaveVerified, BySaveAbandoned,
       BySaveDropBak, BySaveKeepPrevious, BySaveSwap, BySaveRestore, Zenon DEF Save
  <2>4. CASE Edit BY <1>2, <2>4, ByEdit
  <2>5. CASE PowerLoss BY <1>2, <2>5, ByPowerLoss
  <2>6. CASE UNCHANGED vars BY <1>2, <2>6, ByStutter
  <2>7. QED BY <2>1, <2>2, <2>3, <2>4, <2>5, <2>6, Zenon DEF Next
<1>4. QED BY <1>1, <1>3, Zenon DEF Others, StoreInv

\* StoreInv is an invariant of ConfigStore.
THEOREM StoreInductive == ASSUME SafeFaults PROVE Spec => []StoreInv
BY StoreStarts, StoreStep, PTL DEF Spec

\* The state of the settings file always has its types.
THEOREM StoreTypeCorrect == ASSUME SafeFaults PROVE Spec => []TypeOK
<1>1. StoreInv => TypeOK BY DEF StoreInv
<1>2. QED BY <1>1, StoreInductive, PTL

\* The invariant implies that the next boot finds the right document.
LEMMA InvRecovers == StoreInv => EveryPowerLossRecovers
<1> SUFFICES ASSUME StoreInv PROVE EveryPowerLossRecovers OBVIOUS
<1>1. Newest = IF Complete("tmp") THEN "tmp"
               ELSE IF Complete("live") \/ ~Complete("bak") THEN "live" ELSE "bak"
  BY SizesHold, NewestIs DEF StoreInv
<1>2. QED BY <1>1 DEF StoreInv, FoundInv, EveryPowerLossRecovers

\* At every step of every save and of every boot, the boot that follows a power loss takes
\* the configuration last acknowledged or booted, or one attempted since: saveConfiguration()
\* and loadConfiguration() never go back (power-loss comments of config_store).
THEOREM SettingsSurvivePowerLoss == ASSUME SafeFaults PROVE Spec => []EveryPowerLossRecovers
BY InvRecovers, StoreInductive, PTL

\* The invariant implies that the interlock is lifted only over a stored PIN.
LEMMA InvDurable == StoreInv => ProvisionedIsDurable
<1> SUFFICES ASSUME StoreInv, provisioned PROVE Complete(Newest) /\ file[Newest].pin
  BY DEF ProvisionedIsDurable
<1>1. Newest = IF Complete("tmp") THEN "tmp"
               ELSE IF Complete("live") \/ ~Complete("bak") THEN "live" ELSE "bak"
  BY SizesHold, NewestIs DEF StoreInv
<1>2. Running BY DEF StoreInv, RestInv, BootInv, Running
<1>3. Complete(Base) /\ file[Base].pin BY <1>2 DEF StoreInv, RunInv, Kept
<1>4. Swapping => Base = "bak" /\ Complete("tmp")
  BY <1>2 DEF StoreInv, RunInv, Swapping, Base
<1>5. ~Swapping => Base = "live" BY DEF Base
<1>6. Complete("tmp") => file["tmp"].pin
  <2>1. Follows("tmp", Base) BY <1>4, <1>5 DEF StoreInv, CardInv
  <2>2. QED BY <1>3, <2>1 DEF Follows, Chain
<1>7. QED BY <1>1, <1>3, <1>4, <1>5, <1>6

\* While the provisioning interlock is lifted, a boot would find the access PIN on the card
\* (writePinEnsure() and the save in loop()).
THEOREM UnlockedMeansPinStored == ASSUME SafeFaults PROVE Spec => []ProvisionedIsDurable
BY InvDurable, StoreInductive, PTL

\* The invariant implies that no two complete documents have one generation.
LEMMA InvUntied == StoreInv => NoTiedGenerations
<1> SUFFICES ASSUME StoreInv PROVE NoTiedGenerations OBVIOUS
<1>1. ASSUME NEW n \in Names, NEW o \in Names, Follows(n, o), Complete(n), Complete(o)
      PROVE file[n].gen # file[o].gen
  <2>1. file[n] \in Documents /\ file[o] \in Documents
    BY <1>1, SizesHold, FileIs DEF StoreInv
  <2>2. Chain(file[n], file[o]) BY <1>1 DEF Follows
  <2>3. QED BY <2>1, <2>2, SizesHold, ChainIsNewer
<1>2. Follows("tmp", "live") /\ Follows("tmp", "bak") /\ Follows("live", "bak")
  BY DEF StoreInv, CardInv
<1>3. /\ Complete("tmp") /\ Complete("live") => file["tmp"].gen # file["live"].gen
      /\ Complete("tmp") /\ Complete("bak") => file["tmp"].gen # file["bak"].gen
      /\ Complete("live") /\ Complete("bak") => file["live"].gen # file["bak"].gen
  BY <1>1, <1>2 DEF Names
<1>4. QED BY <1>3 DEF NoTiedGenerations

\* Two complete documents never have the same generation, so the order in which
\* loadConfiguration() looks at the names decides nothing.
THEOREM GenerationsTellApart == ASSUME SafeFaults PROVE Spec => []NoTiedGenerations
BY InvUntied, StoreInductive, PTL

\* Every initial state is one of the abstract register.
LEMMA RegisterStarts == Init => Register!Init
<1> SUFFICES ASSUME Init PROVE Register!Init OBVIOUS
<1>1. ram = 0 /\ card = FALSE /\ tried = {} BY DEF Init
<1>2. acked = {} \/ acked = {0} BY Zenon DEF Init
<1>3. 0 \in Values BY SizesHold, Kinds
<1>4. QED BY <1>1, <1>2, <1>3, Zenon DEF Register!Init

\* Every step is a step of the abstract register, or none: a boot finds, a save attempts,
\* the swap acknowledges, a power loss crashes.
LEMMA RegisterStep == ASSUME SafeFaults
                      PROVE  StoreInv /\ StoreInv' /\ [Next]_vars
                               => [Register!Next]_(Register!register)
<1> SUFFICES ASSUME StoreInv, StoreInv', [Next]_vars
             PROVE  Register!Next \/ UNCHANGED <<ram, card, acked, tried>>
  BY Zenon DEF Register!register
<1>1. CASE BootLoad
  <2>1. ~card /\ ram = 0 BY <1>1 DEF BootLoad, StoreInv, RestInv
  <2>2. CASE card' /\ Complete(Newest)
    <3>1. ram' = file[Newest].val /\ acked' = {ram'} /\ tried' = {}
      BY <1>1, <2>2, Zenon DEF BootLoad
    <3>2. file[Newest].val \in acked \cup tried
      BY <2>2, InvRecovers DEF EveryPowerLossRecovers
    <3>3. Register!Find BY <2>1, <2>2, <3>1, <3>2, Zenon DEF Register!Find
    <3>4. QED BY <3>3 DEF Register!Next
  <2>3. CASE card' /\ ~Complete(Newest)
    <3>1. ram' = 0 /\ UNCHANGED <<acked, tried>> BY <1>1, <2>3, Zenon DEF BootLoad
    <3>2. acked = {} BY <2>3, InvRecovers DEF EveryPowerLossRecovers
    <3>3. Register!FindNothing BY <2>1, <2>3, <3>1, <3>2, Zenon DEF Register!FindNothing
    <3>4. QED BY <3>3 DEF Register!Next
  <2>4. CASE ~card'
    <3>1. ram' = 0 /\ UNCHANGED <<acked, tried>> /\ card' \in BOOLEAN
      BY <1>1, <2>4, Zenon DEF BootLoad
    <3>2. card = FALSE /\ card' = FALSE BY <2>1, <2>4, <3>1 DEF StoreInv, TypeOK
    <3>3. QED BY <2>1, <3>1, <3>2
  <2>5. QED BY <2>2, <2>3, <2>4
<1>2. CASE BootDropBad \/ BootAside \/ BootPromote
  BY <1>2, Zenon DEF BootDropBad, BootAside, BootPromote
<1>3. CASE EnsureLoadedPin \/ EnsureNoEntropy
  BY <1>3 DEF EnsureLoadedPin, EnsureNoEntropy
<1>4. CASE EnsureGeneratePin
  <2>1. UNCHANGED <<card, ram, acked>> BY <1>4, Zenon DEF EnsureGeneratePin
  <2>2. CASE card
    <3>1. tried' = tried \cup {ram} BY <1>4, <2>2, Zenon DEF EnsureGeneratePin
    <3>2. Register!Attempt BY <2>1, <2>2, <3>1, Zenon DEF Register!Attempt
    <3>3. QED BY <3>2 DEF Register!Next
  <2>3. CASE ~card
    <3>1. tried' = tried BY <1>4, <2>3, Zenon DEF EnsureGeneratePin
    <3>2. QED BY <2>1, <3>1
  <2>4. QED BY <2>2, <2>3
<1>5. CASE SaveTask
  <2>1. card /\ tried' = tried \cup {ram} /\ UNCHANGED <<card, ram, acked>>
    BY <1>5, Zenon DEF SaveTask, SaveBegins
  <2>2. Register!Attempt BY <2>1, Zenon DEF Register!Attempt
  <2>3. QED BY <2>2 DEF Register!Next
<1>6. CASE SaveOpen \/ SaveFill \/ SaveVerified \/ SaveAbandoned \/ SaveDropBak
           \/ SaveKeepPrevious \/ SaveRestore
  BY <1>6, Zenon DEF SaveOpen, SaveFill, SaveVerified, SaveAbandoned, SaveDropBak,
     SaveKeepPrevious, SaveRestore
<1>7. CASE SaveSwap
  <2>1. UNCHANGED <<card, ram>>
        /\ ((acked' = {ram} /\ tried' = {}) \/ UNCHANGED <<acked, tried>>)
    BY <1>7, Zenon DEF SaveSwap
  <2>2. card BY <1>7 DEF SaveSwap, StoreInv, RestInv
  <2>3. CASE acked' = {ram} /\ tried' = {}
    <3>1. Register!Acknowledge BY <2>1, <2>2, <2>3, Zenon DEF Register!Acknowledge
    <3>2. QED BY <3>1 DEF Register!Next
  <2>4. CASE UNCHANGED <<acked, tried>> BY <2>1, <2>4
  <2>5. QED BY <2>1, <2>3, <2>4
<1>8. CASE Edit
  <2>1. UNCHANGED <<card, acked, tried>> BY <1>8 DEF Edit
  <2>2. ram' \in Values BY DEF StoreInv, TypeOK
  <2>3. Register!Edit BY <2>1, <2>2, Zenon DEF Register!Edit
  <2>4. QED BY <2>3 DEF Register!Next
<1>9. CASE PowerLoss
  <2>1. ram' = 0 /\ card' = FALSE /\ UNCHANGED <<acked, tried>> BY <1>9 DEF PowerLoss
  <2>2. Register!Crash BY <2>1, Zenon DEF Register!Crash
  <2>3. QED BY <2>2 DEF Register!Next
<1>10. CASE UNCHANGED vars BY <1>10
<1>11. QED
  BY <1>1, <1>2, <1>3, <1>4, <1>5, <1>6, <1>7, <1>8, <1>9, <1>10, Zenon
     DEF Next, Boot, Ensure, Save

\* The settings file implements a register that survives power loss (DurableRegister).
THEOREM StoreIsADurableRegister == ASSUME SafeFaults PROVE Spec => ImplementsRegister
BY RegisterStarts, RegisterStep, StoreInductive, PTL DEF Spec, ImplementsRegister, Register!Spec

HIDE DEF vars, ramVars, taskVars, history
=============================================================================
