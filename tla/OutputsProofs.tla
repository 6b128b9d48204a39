---------------------------- MODULE OutputsProofs ---------------------------
(***************************************************************************)
(* What the outputs of the inverter promise, for every value of their      *)
(* constants: the registers of the current limit, the other timers and the *)
(* edges they make, and the power stage that follows a reference.          *)
(***************************************************************************)
EXTENDS ServicesProofs

(* The registers of the current limit.                                     *)

\* What the registers may hold.
Controls == SUBSET {"FIE", "FSAFE", "FAUTO", "FLVL"}
LimitTypes ==
  /\ mode \in Modes \cup {"off"} /\ wanted \in Thresholds /\ frPc \in
       {"boot", "idle", "parked", "route1", "route2", "arm", "clear2", "tick"}
  /\ sel \in [Limit!Modules -> {"low", "cmp"}] /\ flag \in [Limit!Modules -> BOOLEAN]
  /\ other \in [Limit!Modules -> BOOLEAN] /\ control \in [Limit!Modules -> Controls]
  /\ uncounted \in [Limit!Modules -> BOOLEAN]
  /\ armed \in {"no", "latched", "cycle"} /\ trips \in 0..MaxTrips
  /\ ready \in BOOLEAN /\ irq \in BOOLEAN /\ frTripped \in BOOLEAN

\* Ready is armed in the mode asked for, or off on purpose; while it is being set up nothing is.
ReadyInv ==
  /\ ready => frPc \in {"idle", "clear2", "tick"} /\ mode \in {"off", "latched", "cycle"}
              /\ armed = (IF mode = "off" THEN "no" ELSE mode)
  /\ ~ready => armed = "no" /\ ~irq
  /\ frPc = "clear2" => armed = "latched" /\ frTripped
  /\ frPc = "tick" => armed = "cycle"
  /\ ready /\ mode = "off" => Limit!IsParked

\* The registers of a module whose comparator is on, from the targets being ready to the end.
TargetIsSet(m) ==
  /\ map[m] = "AB" /\ stretch[m] /\ m \notin foreign.filter
  /\ control[m] = Limit!FaultControl({}, mode = "cycle", m = 2 /\ mode = "latched")
  /\ recovery[m] = Limit!RecoveryBits(mode = "cycle")
TargetsInv ==
  /\ frPc \in {"route1", "route2", "arm"} \/ (ready /\ mode # "off") =>
       /\ mode \in {"latched", "cycle"} /\ frActive
       /\ \A m \in Limit!Modules : TargetIsSet(m)
       /\ 2 * (threshold - wanted) \in -54..52
  /\ ready /\ mode # "off" => \A m \in Limit!Modules : sel[m] = "cmp"

\* What is not ready and at rest is dark and parked.
DarkInv == ~ready /\ frPc = "idle" => frTripped /\ \A m \in Limit!Modules \ stuck : sel[m] = "low"

\* Flags that were read by the tick have been counted and are still to be cleared.
CountInv ==
  /\ Limit!FlagsAreNotSwallowed
  /\ frPc = "tick" => \A m \in snap : m \in Limit!Modules => flag[m] /\ ~uncounted[m]

\* A latched limit has tripped or waits for the interrupt, and then its owner's flag is the
\* first to be set.
LatchInv ==
  armed = "latched" => frTripped \/ (irq /\ (\A m \in Limit!Modules : flag[m] => flag[2]))

LimitInv == LimitTypes /\ ReadyInv /\ TargetsInv /\ DarkInv /\ CountInv /\ LatchInv

\* A step of the composition is a step of the limit when the limit is the one that moves.
LEMMA LimitMoves == Step /\ focus = "limit" => [Limit!Next]_limitAll
BY Zenon DEF Step, ServicesNext, Rest, servicesVars

\* What the limit promises is part of the invariant.
LEMMA LimitPromise == LimitInv => Limit!TypeOK /\ Limit!LimitIsArmed
<1> SUFFICES ASSUME LimitInv PROVE Limit!TypeOK /\ Limit!LimitIsArmed OBVIOUS
<1> USE DEF LimitInv, Limit!Modules, Limit!IrqOwner
<1>1. Limit!TypeOK BY DEF Limit!TypeOK, LimitTypes
<1>2. Limit!ReadyIsWhole
  BY DEF Limit!ReadyIsWhole, ReadyInv, TargetsInv, TargetIsSet, DarkInv
<1>3. Limit!FlagsAreNotSwallowed BY DEF CountInv
<1>4. Limit!LatchIsATrip BY DEF Limit!LatchIsATrip, LatchInv
<1>5. QED BY <1>1, <1>2, <1>3, <1>4, Zenon DEF Limit!LimitIsArmed

\* At first nothing is set up.
LEMMA LimitStarts == Limit!Init => LimitInv
<1> SUFFICES ASSUME Limit!Init PROVE LimitInv OBVIOUS
<1> USE DEF Limit!Init, Limit!Modules
<1>1. LimitTypes
  <2>1. MaxTrips \in Nat BY ServicesAssumption DEF Limit!ConstantsOK
  <2>2. trips = 0 /\ 0 \in 0..MaxTrips BY <2>1
  <2>3. {"FLVL"} \in Controls BY DEF Controls
  <2>4. /\ sel \in [{1, 2} -> {"low", "cmp"}] /\ flag \in [{1, 2} -> BOOLEAN]
        /\ other \in [{1, 2} -> BOOLEAN] /\ uncounted \in [{1, 2} -> BOOLEAN]
        /\ control \in [{1, 2} -> Controls]
    BY <2>3, Zenon
  <2>5. QED BY <2>2, <2>4, Zenon DEF LimitTypes
<1>2. ReadyInv BY DEF ReadyInv
<1>3. TargetsInv BY DEF TargetsInv
<1>4. DarkInv BY DEF DarkInv
<1>5. CountInv BY DEF CountInv, Limit!FlagsAreNotSwallowed
<1>6. LatchInv BY DEF LatchInv
<1>7. QED BY <1>1, <1>2, <1>3, <1>4, <1>5, <1>6, Zenon DEF LimitInv

\* What fault 0 is set up to do depends on nothing that was there.
LEMMA ControlIsFresh ==
  ASSUME NEW c \in Controls, NEW cycle \in BOOLEAN, NEW owner \in BOOLEAN
  PROVE  /\ Limit!FaultControl(c, cycle, owner) = Limit!FaultControl({}, cycle, owner)
         /\ Limit!FaultControl(c, cycle, owner) \in Controls
BY DEF Controls, Limit!FaultControl

\* A parked control raises no interrupt.
LEMMA ParkedControlIs ==
  ASSUME NEW c \in [Limit!Modules -> Controls]
  PROVE  /\ Limit!ParkedControl(c) \in [Limit!Modules -> Controls]
         /\ \A m \in Limit!Modules : "FIE" \notin Limit!ParkedControl(c)[m]
BY DEF Controls, Limit!ParkedControl

\* The comparator's step nearest to the threshold is half a step from it at most.
LEMMA ThresholdIsNear ==
  ASSUME NEW mv \in Thresholds
  PROVE  2 * (Limit!DacMv(Limit!DacCode(mv)) - mv) \in -54..52
<1>0. mv \in 100..3300 BY ServicesAssumption DEF Limit!ConstantsOK
<1> DEFINE code == (mv * 64 + 1650) \div 3300 - 1
<1>1. /\ code \in 1..63 /\ (code + 1) * 3300 <= mv * 64 + 1650
      /\ mv * 64 + 1650 < (code + 2) * 3300
  BY <1>0
<1>2. Limit!DacCode(mv) = code BY <1>1 DEF Limit!DacCode
<1> HIDE DEF code
<1>3. /\ Limit!DacMv(code) \in Int /\ Limit!DacMv(code) * 64 <= (code + 1) * 3300
      /\ (code + 1) * 3300 < (Limit!DacMv(code) + 1) * 64
  BY <1>1 DEF Limit!DacMv
<1>4. PICK d \in Int : /\ d = Limit!DacMv(code)
                       /\ d * 64 <= (code + 1) * 3300 /\ (code + 1) * 3300 < (d + 1) * 64
  BY <1>3
<1>5. PICK c \in Int, t \in Int : c = code /\ t = mv BY <1>0, <1>1
<1>6. /\ d * 64 <= (c + 1) * 3300 /\ (c + 1) * 3300 < (d + 1) * 64
      /\ (c + 1) * 3300 <= t * 64 + 1650 /\ t * 64 + 1650 < (c + 2) * 3300
  BY <1>1, <1>4, <1>5
<1>7. 2 * (d - t) <= 52 BY <1>6
<1>8. 2 * (d - t) >= -54 BY <1>6
<1>9. 2 * (d - mv) \in -54..52 BY <1>5, <1>7, <1>8
<1>10. QED BY <1>2, <1>4, <1>9

\* The registers keep their types.
LEMMA LimitTypesStep == LimitInv /\ [Limit!Next]_limitAll => LimitTypes'
<1> SUFFICES ASSUME LimitInv, [Limit!Next]_limitAll PROVE LimitTypes' OBVIOUS
<1>0. LimitTypes /\ ReadyInv /\ TargetsInv BY DEF LimitInv
<1>q. MaxTrips \in Nat BY ServicesAssumption DEF Limit!ConstantsOK
<1> USE DEF LimitTypes, Limit!config, Limit!bits
<1>1. CASE UNCHANGED limitAll BY <1>0, <1>1 DEF limitAll
<1>2. CASE Limit!SourceMoves
  BY <1>0, <1>2 DEF Limit!SourceMoves, Limit!SetFlags
<1>3. ASSUME NEW m \in Limit!Modules, Limit!OtherFault(m) PROVE LimitTypes'
  BY <1>0, <1>3 DEF Limit!OtherFault
<1>4. ASSUME NEW m \in Limit!Modules, Limit!Sticks(m) PROVE LimitTypes'
  BY <1>0, <1>4 DEF Limit!Sticks
<1>5. ASSUME NEW m \in Modes, NEW mv \in Thresholds, Limit!TearDown(m, mv) PROVE LimitTypes'
  BY <1>0, <1>5, ParkedControlIs
     DEF Limit!TearDown, Limit!Disarmed, Limit!Parked, Limit!Connected, Limit!WriteFsts
<1>6. CASE Limit!CannotArm
  BY <1>0, <1>6, ParkedControlIs
     DEF Limit!CannotArm, Limit!FailArm, Limit!Disarmed, Limit!Parked, Limit!Connected
<1>7. CASE Limit!NoLimit BY <1>0, <1>7 DEF Limit!NoLimit
<1>8. CASE Limit!TargetsRefused \/ Limit!TargetsReady
  <2> DEFINE mixed == [m \in Limit!Modules |-> IF Limit!Ours(m) THEN Limit!OurControl(m)
                                              ELSE control[m]]
             all == [m \in Limit!Modules |-> Limit!OurControl(m)]
  <2>1. \A m \in Limit!Modules : Limit!OurControl(m) \in Controls
    BY <1>0, ControlIsFresh DEF Limit!OurControl
  <2>2. mixed \in [Limit!Modules -> Controls] /\ all \in [Limit!Modules -> Controls]
    BY <1>0, <2>1
  <2>3. /\ flag' \in [Limit!Modules -> BOOLEAN] /\ other' = other
        /\ uncounted' \in [Limit!Modules -> BOOLEAN]
    <3>1. Limit!ConfigureTargets BY <1>8 DEF Limit!TargetsRefused, Limit!TargetsReady
    <3>2. flag' \in [Limit!Modules -> BOOLEAN] /\ other' = other
      BY <1>0, <3>1 DEF Limit!ConfigureTargets, Limit!WriteFsts
    <3>3. uncounted' = [m \in Limit!Modules |-> uncounted[m]
                                               /\ m \notin {k \in Limit!Modules : Limit!Ours(k)}]
      BY <3>1, Zenon DEF Limit!ConfigureTargets
    <3>4. uncounted' \in [Limit!Modules -> BOOLEAN] BY <1>0, <3>3, Zenon
    <3>5. QED BY <3>2, <3>4
  <2>4. CASE Limit!TargetsReady
    <3>1. control' = all BY <2>4, Zenon DEF Limit!TargetsReady
    <3> HIDE DEF all, mixed
    <3>2. QED BY <1>0, <2>2, <2>3, <2>4, <3>1 DEF Limit!TargetsReady
  <2>5. CASE Limit!TargetsRefused
    <3>1. control' = Limit!ParkedControl(mixed)
      BY <2>5, Zenon DEF Limit!TargetsRefused, Limit!FailArm
    <3>2. control' \in [Limit!Modules -> Controls] BY <2>2, <3>1, ParkedControlIs, Zenon
    <3> HIDE DEF all, mixed
    <3>3. QED
      BY <1>0, <2>3, <2>5, <3>2 DEF Limit!TargetsRefused, Limit!FailArm, Limit!Disarmed,
                                    Limit!Parked, Limit!Connected
  <2>6. QED BY <1>8, <2>4, <2>5
<1>9. CASE Limit!Route(1, "route1", "route2") \/ Limit!Route(2, "route2", "arm")
  BY <1>0, <1>9 DEF Limit!Route, Limit!SetFlags, Limit!Connected
<1>10. CASE Limit!RouteRefused
  BY <1>0, <1>10, ParkedControlIs
     DEF Limit!RouteRefused, Limit!FailArm, Limit!Disarmed, Limit!Parked, Limit!Connected
<1>11. CASE Limit!Arm
  <2>1. mode \in {"latched", "cycle"} BY <1>0, <1>11 DEF Limit!Arm, TargetsInv
  <2>2. armed' = mode /\ ready' = TRUE /\ trips' = 0 /\ frPc' = "idle"
    BY <1>11, Zenon DEF Limit!Arm
  <2>3. /\ UNCHANGED <<mode, wanted, sel, flag, other, control, uncounted>>
        /\ irq' \in BOOLEAN /\ frTripped' \in BOOLEAN
    BY <1>0, <1>11 DEF Limit!Arm
  <2>4. trips' \in 0..MaxTrips BY <1>q, <2>2
  <2>5. QED BY <1>0, <2>1, <2>2, <2>3, <2>4
<1>12. CASE Limit!FaultIsr BY <1>0, <1>12 DEF Limit!FaultIsr
<1>13. CASE Limit!ClearLatch(1, "idle", "clear2") \/ Limit!ClearLatch(2, "clear2", "idle")
  BY <1>0, <1>13 DEF Limit!ClearLatch, Limit!WriteFsts
<1>14. CASE Limit!Rearm BY <1>0, <1>14 DEF Limit!Rearm
<1>15. CASE Limit!TickCounts BY <1>0, <1>q, <1>15 DEF Limit!TickCounts
<1>16. CASE Limit!TickClears BY <1>0, <1>16 DEF Limit!TickClears
<1>17. QED
  BY <1>1, <1>2, <1>3, <1>4, <1>5, <1>6, <1>7, <1>8, <1>9, <1>10, <1>11, <1>12, <1>13, <1>14,
     <1>15, <1>16, Zenon DEF Limit!Next

\* Nothing is ready before it is armed, and what is armed is what was asked for.
LEMMA ReadyStep == LimitInv /\ [Limit!Next]_limitAll => ReadyInv'
<1> SUFFICES ASSUME LimitInv, [Limit!Next]_limitAll PROVE ReadyInv' OBVIOUS
<1>0. LimitTypes /\ ReadyInv /\ TargetsInv BY Zenon DEF LimitInv
<1> USE DEF ReadyInv, Limit!IsParked, TargetsInv, Limit!config, Limit!bits, Limit!Modules,
            LimitTypes
<1>1. CASE UNCHANGED limitAll BY <1>0, <1>1 DEF limitAll
<1>2. CASE Limit!SourceMoves BY <1>0, <1>2 DEF Limit!SourceMoves, Limit!SetFlags
<1>3. ASSUME NEW m \in Limit!Modules, Limit!OtherFault(m) PROVE ReadyInv'
  BY <1>0, <1>3 DEF Limit!OtherFault
<1>4. ASSUME NEW m \in Limit!Modules, Limit!Sticks(m) PROVE ReadyInv' BY <1>0, <1>4 DEF Limit!Sticks
<1>5. ASSUME NEW m \in Modes, NEW mv \in Thresholds, Limit!TearDown(m, mv) PROVE ReadyInv'
  BY <1>0, <1>5 DEF Limit!TearDown, Limit!Disarmed, Limit!Parked, Limit!Connected, Limit!WriteFsts
<1>6. CASE Limit!CannotArm
  BY <1>0, <1>6 DEF Limit!CannotArm, Limit!FailArm, Limit!Disarmed, Limit!Parked, Limit!Connected
<1>7. CASE Limit!NoLimit BY <1>0, <1>7 DEF Limit!NoLimit
<1>8. CASE Limit!TargetsRefused
  BY <1>0, <1>8 DEF Limit!TargetsRefused, Limit!ConfigureTargets, Limit!WriteFsts, Limit!FailArm,
     Limit!Disarmed, Limit!Parked, Limit!Connected
<1>9. CASE Limit!TargetsReady
  BY <1>0, <1>9 DEF Limit!TargetsReady, Limit!ConfigureTargets, Limit!WriteFsts
<1>10. CASE Limit!Route(1, "route1", "route2") \/ Limit!Route(2, "route2", "arm")
  BY <1>0, <1>10 DEF Limit!Route, Limit!SetFlags, Limit!Connected
<1>11. CASE Limit!RouteRefused
  BY <1>0, <1>11 DEF Limit!RouteRefused, Limit!FailArm, Limit!Disarmed, Limit!Parked,
     Limit!Connected
<1>12. CASE Limit!Arm BY <1>0, <1>12 DEF Limit!Arm
<1>13. CASE Limit!FaultIsr BY <1>0, <1>13 DEF Limit!FaultIsr
<1>14. CASE Limit!ClearLatch(1, "idle", "clear2") \/ Limit!ClearLatch(2, "clear2", "idle")
  BY <1>0, <1>14 DEF Limit!ClearLatch, Limit!WriteFsts
<1>15. CASE Limit!Rearm BY <1>0, <1>15 DEF Limit!Rearm
<1>16. CASE Limit!TickCounts BY <1>0, <1>16 DEF Limit!TickCounts
<1>17. CASE Limit!TickClears BY <1>0, <1>17 DEF Limit!TickClears
<1>18. QED
  BY <1>1, <1>2, <1>3, <1>4, <1>5, <1>6, <1>7, <1>8, <1>9, <1>10, <1>11, <1>12, <1>13, <1>14,
     <1>15, <1>16, <1>17, Zenon DEF Limit!Next

\* What could not be armed stays dark and parked.
LEMMA DarkStep == LimitInv /\ [Limit!Next]_limitAll => DarkInv'
<1> SUFFICES ASSUME LimitInv, [Limit!Next]_limitAll PROVE DarkInv' OBVIOUS
<1>0. LimitTypes /\ ReadyInv /\ DarkInv BY Zenon DEF LimitInv
<1> USE DEF DarkInv, ReadyInv, Limit!config, Limit!bits, Limit!Modules, LimitTypes
<1>1. CASE UNCHANGED limitAll BY <1>0, <1>1 DEF limitAll
<1>2. CASE Limit!SourceMoves BY <1>0, <1>2 DEF Limit!SourceMoves, Limit!SetFlags
<1>3. ASSUME NEW m \in Limit!Modules, Limit!OtherFault(m) PROVE DarkInv'
  BY <1>0, <1>3 DEF Limit!OtherFault
<1>4. ASSUME NEW m \in Limit!Modules, Limit!Sticks(m) PROVE DarkInv' BY <1>0, <1>4 DEF Limit!Sticks
<1>5. ASSUME NEW m \in Modes, NEW mv \in Thresholds, Limit!TearDown(m, mv) PROVE DarkInv'
  BY <1>0, <1>5 DEF Limit!TearDown, Limit!Disarmed, Limit!Parked, Limit!Connected, Limit!WriteFsts
<1>6. CASE Limit!CannotArm
  BY <1>0, <1>6 DEF Limit!CannotArm, Limit!FailArm, Limit!Disarmed, Limit!Parked, Limit!Connected
<1>7. CASE Limit!NoLimit BY <1>0, <1>7 DEF Limit!NoLimit
<1>8. CASE Limit!TargetsRefused
  BY <1>0, <1>8 DEF Limit!TargetsRefused, Limit!ConfigureTargets, Limit!WriteFsts, Limit!FailArm,
     Limit!Disarmed, Limit!Parked, Limit!Connected
<1>9. CASE Limit!TargetsReady
  BY <1>0, <1>9 DEF Limit!TargetsReady, Limit!ConfigureTargets, Limit!WriteFsts
<1>10. CASE Limit!Route(1, "route1", "route2") \/ Limit!Route(2, "route2", "arm")
  BY <1>0, <1>10 DEF Limit!Route, Limit!SetFlags, Limit!Connected
<1>11. CASE Limit!RouteRefused
  BY <1>0, <1>11 DEF Limit!RouteRefused, Limit!FailArm, Limit!Disarmed, Limit!Parked,
     Limit!Connected
<1>12. CASE Limit!Arm BY <1>0, <1>12 DEF Limit!Arm
<1>13. CASE Limit!FaultIsr BY <1>0, <1>13 DEF Limit!FaultIsr
<1>14. CASE Limit!ClearLatch(1, "idle", "clear2") \/ Limit!ClearLatch(2, "clear2", "idle")
  BY <1>0, <1>14 DEF Limit!ClearLatch, Limit!WriteFsts
<1>15. CASE Limit!Rearm BY <1>0, <1>15 DEF Limit!Rearm
<1>16. CASE Limit!TickCounts BY <1>0, <1>16 DEF Limit!TickCounts
<1>17. CASE Limit!TickClears BY <1>0, <1>17 DEF Limit!TickClears
<1>18. QED
  BY <1>1, <1>2, <1>3, <1>4, <1>5, <1>6, <1>7, <1>8, <1>9, <1>10, <1>11, <1>12, <1>13, <1>14,
     <1>15, <1>16, <1>17, Zenon DEF Limit!Next

\* A flag goes only when it has been counted or acknowledged.
LEMMA CountStep == LimitInv /\ [Limit!Next]_limitAll => CountInv'
<1> SUFFICES ASSUME LimitInv, [Limit!Next]_limitAll PROVE CountInv' OBVIOUS
<1>0. LimitTypes /\ ReadyInv /\ CountInv BY Zenon DEF LimitInv
<1> USE DEF CountInv, ReadyInv, Limit!FlagsAreNotSwallowed, Limit!config, Limit!bits,
            Limit!Modules, LimitTypes
<1>1. CASE UNCHANGED limitAll BY <1>0, <1>1 DEF limitAll
<1>2. CASE Limit!SourceMoves BY <1>0, <1>2 DEF Limit!SourceMoves, Limit!SetFlags
<1>3. ASSUME NEW m \in Limit!Modules, Limit!OtherFault(m) PROVE CountInv'
  BY <1>0, <1>3 DEF Limit!OtherFault
<1>4. ASSUME NEW m \in Limit!Modules, Limit!Sticks(m) PROVE CountInv' BY <1>0, <1>4 DEF Limit!Sticks
<1>5. ASSUME NEW m \in Modes, NEW mv \in Thresholds, Limit!TearDown(m, mv) PROVE CountInv'
  BY <1>0, <1>5 DEF Limit!TearDown, Limit!Disarmed, Limit!Parked, Limit!Connected, Limit!WriteFsts
<1>6. CASE Limit!CannotArm
  BY <1>0, <1>6 DEF Limit!CannotArm, Limit!FailArm, Limit!Disarmed, Limit!Parked, Limit!Connected
<1>7. CASE Limit!NoLimit BY <1>0, <1>7 DEF Limit!NoLimit
<1>8. CASE Limit!TargetsRefused
  BY <1>0, <1>8 DEF Limit!TargetsRefused, Limit!ConfigureTargets, Limit!WriteFsts, Limit!FailArm,
     Limit!Disarmed, Limit!Parked, Limit!Connected
<1>9. CASE Limit!TargetsReady
  BY <1>0, <1>9 DEF Limit!TargetsReady, Limit!ConfigureTargets, Limit!WriteFsts
<1>10. CASE Limit!Route(1, "route1", "route2") \/ Limit!Route(2, "route2", "arm")
  BY <1>0, <1>10 DEF Limit!Route, Limit!SetFlags, Limit!Connected
<1>11. CASE Limit!RouteRefused
  BY <1>0, <1>11 DEF Limit!RouteRefused, Limit!FailArm, Limit!Disarmed, Limit!Parked,
     Limit!Connected
<1>12. CASE Limit!Arm BY <1>0, <1>12 DEF Limit!Arm
<1>13. CASE Limit!FaultIsr BY <1>0, <1>13 DEF Limit!FaultIsr
<1>14. CASE Limit!ClearLatch(1, "idle", "clear2") \/ Limit!ClearLatch(2, "clear2", "idle")
  BY <1>0, <1>14 DEF Limit!ClearLatch, Limit!WriteFsts
<1>15. CASE Limit!Rearm BY <1>0, <1>15 DEF Limit!Rearm
<1>16. CASE Limit!TickCounts BY <1>0, <1>16 DEF Limit!TickCounts
<1>17. CASE Limit!TickClears BY <1>0, <1>17 DEF Limit!TickClears
<1>18. QED
  BY <1>1, <1>2, <1>3, <1>4, <1>5, <1>6, <1>7, <1>8, <1>9, <1>10, <1>11, <1>12, <1>13, <1>14,
     <1>15, <1>16, <1>17, Zenon DEF Limit!Next

\* The interrupt waits for its flag until there is a trip.
LEMMA LatchStep == LimitInv /\ [Limit!Next]_limitAll => LatchInv'
<1> SUFFICES ASSUME LimitInv, [Limit!Next]_limitAll PROVE LatchInv' OBVIOUS
<1>0. LimitTypes /\ ReadyInv /\ TargetsInv /\ LatchInv BY Zenon DEF LimitInv
<1> USE DEF LatchInv, ReadyInv, TargetsInv, Limit!config, Limit!bits, Limit!Modules, LimitTypes
<1>1. CASE UNCHANGED limitAll BY <1>0, <1>1 DEF limitAll
<1>2. CASE Limit!SourceMoves BY <1>0, <1>2 DEF Limit!SourceMoves, Limit!SetFlags
<1>3. ASSUME NEW m \in Limit!Modules, Limit!OtherFault(m) PROVE LatchInv'
  BY <1>0, <1>3 DEF Limit!OtherFault
<1>4. ASSUME NEW m \in Limit!Modules, Limit!Sticks(m) PROVE LatchInv' BY <1>0, <1>4 DEF Limit!Sticks
<1>5. ASSUME NEW m \in Modes, NEW mv \in Thresholds, Limit!TearDown(m, mv) PROVE LatchInv'
  BY <1>0, <1>5 DEF Limit!TearDown, Limit!Disarmed, Limit!Parked, Limit!Connected, Limit!WriteFsts
<1>6. CASE Limit!CannotArm
  BY <1>0, <1>6 DEF Limit!CannotArm, Limit!FailArm, Limit!Disarmed, Limit!Parked, Limit!Connected
<1>7. CASE Limit!NoLimit BY <1>0, <1>7 DEF Limit!NoLimit
<1>8. CASE Limit!TargetsRefused
  BY <1>0, <1>8 DEF Limit!TargetsRefused, Limit!ConfigureTargets, Limit!WriteFsts, Limit!FailArm,
     Limit!Disarmed, Limit!Parked, Limit!Connected
<1>9. CASE Limit!TargetsReady
  BY <1>0, <1>9 DEF Limit!TargetsReady, Limit!ConfigureTargets, Limit!WriteFsts
<1>10. CASE Limit!Route(1, "route1", "route2") \/ Limit!Route(2, "route2", "arm")
  BY <1>0, <1>10 DEF Limit!Route, Limit!SetFlags, Limit!Connected
<1>11. CASE Limit!RouteRefused
  BY <1>0, <1>11 DEF Limit!RouteRefused, Limit!FailArm, Limit!Disarmed, Limit!Parked,
     Limit!Connected
<1>12. CASE Limit!Arm BY <1>0, <1>12 DEF Limit!Arm
<1>13. CASE Limit!FaultIsr BY <1>0, <1>13 DEF Limit!FaultIsr
<1>14. CASE Limit!ClearLatch(1, "idle", "clear2") \/ Limit!ClearLatch(2, "clear2", "idle")
  BY <1>0, <1>14 DEF Limit!ClearLatch, Limit!WriteFsts
<1>15. CASE Limit!Rearm BY <1>0, <1>15 DEF Limit!Rearm
<1>16. CASE Limit!TickCounts BY <1>0, <1>16 DEF Limit!TickCounts
<1>17. CASE Limit!TickClears BY <1>0, <1>17 DEF Limit!TickClears
<1>18. QED
  BY <1>1, <1>2, <1>3, <1>4, <1>5, <1>6, <1>7, <1>8, <1>9, <1>10, <1>11, <1>12, <1>13, <1>14,
     <1>15, <1>16, <1>17, Zenon DEF Limit!Next

\* Both modules stay set up as long as the limit is armed.
LEMMA TargetsStep == LimitInv /\ [Limit!Next]_limitAll => TargetsInv'
<1> SUFFICES ASSUME LimitInv, [Limit!Next]_limitAll PROVE TargetsInv' OBVIOUS
<1>0. LimitTypes /\ ReadyInv /\ TargetsInv BY Zenon DEF LimitInv
<1> USE DEF TargetsInv, ReadyInv, TargetIsSet, Limit!config, Limit!bits, Limit!Modules, LimitTypes
<1>1. CASE UNCHANGED limitAll BY <1>0, <1>1 DEF limitAll
<1>2. CASE Limit!SourceMoves BY <1>0, <1>2 DEF Limit!SourceMoves, Limit!SetFlags
<1>3. ASSUME NEW m \in Limit!Modules, Limit!OtherFault(m) PROVE TargetsInv'
  BY <1>0, <1>3 DEF Limit!OtherFault
<1>4. ASSUME NEW m \in Limit!Modules, Limit!Sticks(m) PROVE TargetsInv'
  BY <1>0, <1>4 DEF Limit!Sticks
<1>5. ASSUME NEW m \in Modes, NEW mv \in Thresholds, Limit!TearDown(m, mv) PROVE TargetsInv'
  BY <1>0, <1>5 DEF Limit!TearDown, Limit!Disarmed, Limit!Parked, Limit!Connected, Limit!WriteFsts
<1>6. CASE Limit!CannotArm
  BY <1>0, <1>6 DEF Limit!CannotArm, Limit!FailArm, Limit!Disarmed, Limit!Parked, Limit!Connected
<1>7. CASE Limit!NoLimit BY <1>0, <1>7 DEF Limit!NoLimit
<1>8. CASE Limit!TargetsRefused
  BY <1>0, <1>8 DEF Limit!TargetsRefused, Limit!ConfigureTargets, Limit!WriteFsts, Limit!FailArm,
     Limit!Disarmed, Limit!Parked, Limit!Connected
<1>9. CASE Limit!TargetsReady
  <2>1. /\ mode \in {"latched", "cycle"} /\ ~ready /\ \A m \in Limit!Modules : Limit!Ours(m)
        /\ UNCHANGED <<mode, wanted, ready, foreign>> /\ frActive'
        /\ threshold' = Limit!DacMv(Limit!DacCode(wanted))
        /\ control' = [m \in Limit!Modules |-> Limit!OurControl(m)]
    BY <1>0, <1>9 DEF Limit!TargetsReady
  <2>2. \A m \in Limit!Modules :
          /\ map'[m] = "AB" /\ stretch'[m] /\ m \notin foreign.filter
          /\ recovery'[m] = Limit!RecoveryBits(mode = "cycle")
    BY <1>9, <2>1 DEF Limit!TargetsReady, Limit!ConfigureTargets, Limit!WriteFsts, Limit!Ours
  <2>3. \A m \in Limit!Modules :
          control'[m] = Limit!FaultControl({}, mode = "cycle", m = 2 /\ mode = "latched")
    BY <1>0, <2>1, ControlIsFresh DEF Limit!OurControl, Limit!IrqOwner
  <2>4. 2 * (threshold' - wanted) \in -54..52
    <3>1. wanted \in Thresholds BY <1>0
    <3>2. 2 * (Limit!DacMv(Limit!DacCode(wanted)) - wanted) \in -54..52
      BY <3>1, ThresholdIsNear, Zenon
    <3>3. QED BY <2>1, <3>2, Zenon
  <2>5. QED BY <2>1, <2>2, <2>3, <2>4
<1>10. CASE Limit!Route(1, "route1", "route2") \/ Limit!Route(2, "route2", "arm")
  BY <1>0, <1>10 DEF Limit!Route, Limit!SetFlags, Limit!Connected
<1>11. CASE Limit!RouteRefused
  BY <1>0, <1>11 DEF Limit!RouteRefused, Limit!FailArm, Limit!Disarmed, Limit!Parked,
     Limit!Connected
<1>12. CASE Limit!Arm BY <1>0, <1>12 DEF Limit!Arm
<1>13. CASE Limit!FaultIsr BY <1>0, <1>13 DEF Limit!FaultIsr
<1>14. CASE Limit!ClearLatch(1, "idle", "clear2") \/ Limit!ClearLatch(2, "clear2", "idle")
  <2>1. Limit!RecoveryBits(FALSE) = {"FULL"} BY DEF Limit!RecoveryBits
  <2>2. ready /\ mode = "latched" BY <1>0, <1>14 DEF Limit!ClearLatch
  <2>3. /\ UNCHANGED <<mode, wanted, foreign, sel, stretch, map, control, frActive, threshold>>
        /\ \A m \in Limit!Modules : recovery'[m] = {"FULL"} \/ recovery'[m] = recovery[m]
    BY <1>14 DEF Limit!ClearLatch, Limit!WriteFsts
  <2>4. (mode = "cycle") = FALSE BY <2>2
  <2>5. \A m \in Limit!Modules : TargetIsSet(m)' BY <1>0, <2>1, <2>2, <2>3, <2>4
  <2>6. QED BY <1>0, <2>2, <2>3, <2>5
<1>15. CASE Limit!Rearm BY <1>0, <1>15 DEF Limit!Rearm
<1>16. CASE Limit!TickCounts BY <1>0, <1>16 DEF Limit!TickCounts
<1>17. CASE Limit!TickClears BY <1>0, <1>17 DEF Limit!TickClears
<1>18. QED
  BY <1>1, <1>2, <1>3, <1>4, <1>5, <1>6, <1>7, <1>8, <1>9, <1>10, <1>11, <1>12, <1>13, <1>14,
     <1>15, <1>16, <1>17, Zenon DEF Limit!Next

\* Every step of an arming, of the hardware and of a clearing keeps the invariant.
LEMMA LimitStep == LimitInv /\ [Limit!Next]_limitAll => LimitInv'
BY LimitTypesStep, ReadyStep, TargetsStep, DarkStep, CountStep, LatchStep, Zenon DEF LimitInv

(* The other timers.                                                       *)

\* The modules the apply under way is done with.
Settled == CASE ptPc.at = "rest" -> 1..4 [] ptPc.at = "release" -> 1..4
             [] OTHER -> {m \in 1..4 : m < ptPc.module}

\* What is staged for a submodule is what the settings in force ask for.
IsStaged(s) ==
  /\ Timers!Follows(staged[s], ptCfg, s)
  /\ Timers!IsPair(ptCfg[s].pair) =>
       \/ s \in complementary /\ (ptCfg[s].pair = "half" => staged[s].gap = ptCfg[s].dead)
       \/ s \notin complementary /\ staged[s].a = 0 /\ staged[s].b = 0
  /\ ~Timers!IsPair(ptCfg[s].pair) => s \notin complementary

TimerTypes ==
  /\ ptCfg \in TimerSets
  /\ ptPc \in [at : {"rest", "stage", "load", "release"}, module : 0..4]
  /\ DOMAIN staged = Timers!Submodules /\ DOMAIN active = Timers!Submodules
  /\ complementary \subseteq {"Sm13", "Sm31"}
  /\ ptValid \in BOOLEAN /\ ptTripped \in BOOLEAN /\ outen \in BOOLEAN
  /\ ptPc.at \in {"stage", "load"} => ptPc.module \in 1..4

\* While nothing was refused, what is done is staged and loaded, and what is being loaded is
\* staged, and in force as soon as its module asks for nothing more.
LoadInv ==
  /\ ldok \subseteq IF ptPc.at = "load" THEN {ptPc.module} ELSE {}
  /\ ptValid => \A m \in Settled : \A s \in Timers!Of(m) : IsStaged(s) /\ active[s] = staged[s]
  /\ ptValid /\ ptPc.at = "load" =>
       \A s \in Timers!Of(ptPc.module) :
         IsStaged(s) /\ (ptPc.module \notin ldok => active[s] = staged[s])
  /\ outen => ptPc.at = "rest" /\ ptValid

TimersInv == TimerTypes /\ LoadInv

\* A step of the composition is a step of the timers when the timers are the ones that move.
LEMMA TimersMove == Step /\ focus = "timers" => [Timers!Next]_timersAll
BY Zenon DEF Step, ServicesNext, Rest, servicesVars

\* Every submodule has its module.
LEMMA ModuleOf == \A s \in Timers!Submodules : \E m \in 1..4 : s \in Timers!Of(m)
<1>1. /\ "Sm13" \in Timers!Of(1) /\ "Sm31" \in Timers!Of(3) /\ "Sm40" \in Timers!Of(4)
      /\ "Sm41" \in Timers!Of(4) /\ "Sm42" \in Timers!Of(4)
  BY DEF Timers!Of
<1>2. 1 \in 1..4 /\ 3 \in 1..4 /\ 4 \in 1..4 OBVIOUS
<1> SUFFICES ASSUME NEW s \in Timers!Submodules PROVE \E m \in 1..4 : s \in Timers!Of(m) OBVIOUS
<1>3. s \in {"Sm13", "Sm31", "Sm40", "Sm41", "Sm42"} BY DEF Timers!Submodules
<1>4. QED BY <1>1, <1>2, <1>3

\* The modules share no submodule.
LEMMA ModulesAreApart ==
  \A m, n \in 1..4 : m # n => Timers!Of(m) \cap Timers!Of(n) = {}
BY DEF Timers!Of

\* What the timers promise is part of the invariant.
LEMMA TimersPromise == TimersInv => Timers!TypeOK /\ Timers!TimersFollow
<1> SUFFICES ASSUME TimersInv PROVE Timers!TypeOK /\ Timers!TimersFollow OBVIOUS
<1>0. TimerTypes /\ LoadInv BY DEF TimersInv
<1>1. Timers!TypeOK
  <2>1. ldok \subseteq 1..4 BY <1>0 DEF TimerTypes, LoadInv
  <2>2. complementary \subseteq Timers!Submodules BY <1>0 DEF TimerTypes, Timers!Submodules
  <2>3. QED BY <1>0, <2>1, <2>2, Zenon DEF TimerTypes, Timers!TypeOK
<1>2. ASSUME outen, NEW s \in Timers!Submodules PROVE IsStaged(s) /\ active[s] = staged[s]
  <2>1. ptPc.at = "rest" /\ ptValid BY <1>0, <1>2 DEF LoadInv
  <2>2. Settled = 1..4 BY <2>1, Zenon DEF Settled
  <2>3. QED BY <1>0, <2>1, <2>2, ModuleOf, Zenon DEF LoadInv
<1>3. QED BY <1>1, <1>2, Zenon DEF Timers!TimersFollow, IsStaged

\* At first nothing is staged and nothing connected.
LEMMA TimersStart == Timers!Init => TimersInv
<1> SUFFICES ASSUME Timers!Init PROVE TimersInv OBVIOUS
<1> USE DEF Timers!Init
<1>1. TimerTypes
  <2>1. ptPc \in [at : {"rest", "stage", "load", "release"}, module : 0..4] /\ ptPc.module \in 1..4
    OBVIOUS
  <2>2. /\ DOMAIN staged = Timers!Submodules /\ DOMAIN active = Timers!Submodules
        /\ complementary \subseteq {"Sm13", "Sm31"} /\ ptCfg \in TimerSets
        /\ ptValid \in BOOLEAN /\ ptTripped \in BOOLEAN /\ outen \in BOOLEAN
    BY Zenon
  <2>3. QED BY <2>1, <2>2, Zenon DEF TimerTypes
<1>2. Settled = {} BY DEF Settled
<1>3. LoadInv BY <1>2 DEF LoadInv
<1>4. QED BY <1>1, <1>3 DEF TimersInv

\* What the constants promise about the settings: a duty of nought is a duty, and only what has
\* a channel B is paired.
LEMMA TimerConstants ==
  /\ Timers!NoDuty # 0
  /\ \A c \in TimerSets : \A s \in {"Sm40", "Sm41", "Sm42"} : ~Timers!IsPair(c[s].pair)
<1>1. FullDuty \in Nat /\ FullDuty > 1 BY ServicesAssumption DEF Timers!ConstantsOK
<1>2. Timers!NoDuty # 0 BY <1>1 DEF Timers!NoDuty
<1>3. \A c \in TimerSets, s \in {"Sm40", "Sm41", "Sm42"} : c[s].pair = "independent"
  BY ServicesAssumption DEF Timers!ConstantsOK
<1>4. QED BY <1>2, <1>3 DEF Timers!IsPair

\* What is staged for a submodule that is not refused is what its settings ask for: a leg that
\* was to be a pair and cannot be one is off.
LEMMA StagingFollows ==
  ASSUME TimerTypes, NEW s \in Timers!Submodules,
         Timers!Asymmetric(ptCfg, s) => Timers!EdgesOf(ptCfg).valid
  PROVE  /\ Timers!Follows(Timers!Staged(ptCfg, s), ptCfg, s)
         /\ ptCfg[s].pair = "half" => Timers!Staged(ptCfg, s).gap = ptCfg[s].dead
         /\ Timers!Denied(ptCfg, s) => /\ Timers!Staged(ptCfg, s).a = 0
                                       /\ Timers!Staged(ptCfg, s).b = 0
<1> DEFINE r == Timers!Staged(ptCfg, s)
<1>1. ptCfg \in TimerSets BY DEF TimerTypes
<1>2. CASE Timers!Asymmetric(ptCfg, s)
  <2>1. s = "Sm42" BY <1>2, Zenon DEF Timers!Asymmetric
  <2>2. ~Timers!IsPair(ptCfg[s].pair) BY <1>1, <2>1, TimerConstants
  <2>3. r = [frequency |-> ptCfg[s].frequency, gap |-> ptCfg[s].dead,
             edges |-> Timers!EdgesOf(ptCfg), a |-> staged[s].a, b |-> staged[s].b]
    BY <1>2, Zenon DEF Timers!Staged
  <2> HIDE DEF r
  <2>4. /\ r.frequency = ptCfg[s].frequency /\ r.edges = Timers!EdgesOf(ptCfg)
        /\ r.gap = ptCfg[s].dead
    BY <2>3
  <2>5. Timers!Follows(r, ptCfg, s) BY <1>2, <2>4, Zenon DEF Timers!Follows
  <2>6. QED BY <2>2, <2>4, <2>5, Zenon DEF Timers!Denied, r
<1>3. CASE ~Timers!Asymmetric(ptCfg, s)
  <2> DEFINE dutyB == IF Timers!Denied(ptCfg, s) THEN 0 ELSE ptCfg[s].dutyB
  <2>1. r = [frequency |-> ptCfg[s].frequency,
             gap |-> IF ptCfg[s].pair = "half" THEN ptCfg[s].dead ELSE 0,
             edges |-> Timers!NoTimings,
             a |-> IF Timers!Denied(ptCfg, s) THEN 0 ELSE ptCfg[s].dutyA,
             b |-> IF Timers!HasChannelB(s) /\ dutyB # Timers!NoDuty
                   THEN dutyB ELSE staged[s].b]
    BY <1>3, Zenon DEF Timers!Staged
  <2>2. Timers!Denied(ptCfg, s) => Timers!HasChannelB(s)
    <3>1. s \in {"Sm40", "Sm41"} => ~Timers!IsPair(ptCfg[s].pair) BY <1>1, TimerConstants
    <3>2. QED BY <3>1, Zenon DEF Timers!Denied, Timers!HasChannelB
  <2> HIDE DEF r, dutyB
  <2>3. /\ r.frequency = ptCfg[s].frequency /\ r.edges = Timers!NoTimings
        /\ r.gap = (IF ptCfg[s].pair = "half" THEN ptCfg[s].dead ELSE 0)
        /\ r.a = (IF Timers!Denied(ptCfg, s) THEN 0 ELSE ptCfg[s].dutyA)
        /\ r.b = (IF Timers!HasChannelB(s) /\ dutyB # Timers!NoDuty
                  THEN dutyB ELSE staged[s].b)
    BY <2>1
  <2>4. ~r.edges.valid BY <2>3 DEF Timers!NoTimings
  <2>5. Timers!NoDuty # 0 BY TimerConstants
  <2>6. Timers!HasChannelB(s) /\ (ptCfg[s].dutyB # Timers!NoDuty \/ Timers!Denied(ptCfg, s)) =>
          r.b = dutyB
    BY <2>3, <2>5, Zenon DEF dutyB
  <2>7. Timers!Follows(r, ptCfg, s)
    BY <1>3, <2>3, <2>4, <2>6, Zenon DEF Timers!Follows, dutyB
  <2>8. Timers!Denied(ptCfg, s) => r.b = 0 BY <2>2, <2>6, Zenon DEF dutyB
  <2>9. QED BY <2>3, <2>7, <2>8, Zenon DEF r
<1>4. QED BY <1>2, <1>3

\* A module that refuses nothing has staged what the settings ask for, and nobody else's.
LEMMA StagedWhole ==
  ASSUME TimerTypes, NEW m \in 1..4, Timers!Stage(m, {}), NEW s \in Timers!Submodules
  PROVE  /\ s \in Timers!Of(m) => IsStaged(s)'
         /\ s \notin Timers!Of(m) => (IsStaged(s) => IsStaged(s)') /\ staged'[s] = staged[s]
<1> DEFINE fresh == {k \in Timers!Of(m) : ~Timers!Asymmetric(ptCfg, k)}
           driven == {k \in Timers!Of(m) : Timers!DrivesPair(ptCfg, k)}
<1>1. ptCfg' = ptCfg /\ ptCfg \in TimerSets /\ complementary \subseteq {"Sm13", "Sm31"}
  BY Zenon DEF Timers!Stage, TimerTypes
<1>2. Timers!Of(m) \ {} = Timers!Of(m) OBVIOUS
<1>3. complementary' = (complementary \ fresh) \cup driven
  BY <1>2, Zenon DEF Timers!Stage
<1>4. staged'[s] = IF s \in Timers!Of(m) THEN Timers!Staged(ptCfg, s) ELSE staged[s]
  <2>1. staged' = [k \in Timers!Submodules |->
                     IF k \in Timers!Of(m) \ {} THEN Timers!Staged(ptCfg, k)
                     ELSE IF k \in {j \in {} : ~Timers!Asymmetric(ptCfg, j)}
                          THEN [staged[k] EXCEPT !.a = Timers!Staged(ptCfg, k).a,
                                                 !.b = Timers!Staged(ptCfg, k).b]
                          ELSE staged[k]]
    BY Zenon DEF Timers!Stage
  <2>2. s \notin {j \in {} : ~Timers!Asymmetric(ptCfg, j)} OBVIOUS
  <2>3. QED BY <1>2, <2>1, <2>2, Zenon
<1>5. CASE s \in Timers!Of(m)
  <2>1. Timers!Asymmetric(ptCfg, s) => Timers!EdgesOf(ptCfg).valid
    <3>1. SUFFICES ASSUME Timers!Asymmetric(ptCfg, s) PROVE Timers!EdgesOf(ptCfg).valid OBVIOUS
    <3>2. s = "Sm42" BY <3>1, Zenon DEF Timers!Asymmetric
    <3>3. "Sm42" \notin {} OBVIOUS
    <3>4. QED BY <1>5, <3>1, <3>2, <3>3, Zenon DEF Timers!Stage
  <2>2. /\ Timers!Follows(staged'[s], ptCfg, s)
        /\ ptCfg[s].pair = "half" => staged'[s].gap = ptCfg[s].dead
        /\ Timers!Denied(ptCfg, s) => staged'[s].a = 0 /\ staged'[s].b = 0
    BY <1>4, <1>5, <2>1, StagingFollows, Zenon
  <2>3. Timers!Asymmetric(ptCfg, s) =>
          s \notin complementary /\ ~Timers!IsPair(ptCfg[s].pair)
    <3>1. Timers!Asymmetric(ptCfg, s) => s = "Sm42" BY Zenon DEF Timers!Asymmetric
    <3>2. "Sm42" \notin {"Sm13", "Sm31"} /\ "Sm42" \in {"Sm40", "Sm41", "Sm42"} OBVIOUS
    <3>3. QED BY <1>1, <3>1, <3>2, TimerConstants, Zenon
  <2>4. s \in complementary' <=> Timers!DrivesPair(ptCfg, s)
    BY <1>3, <1>5, <2>3, Zenon DEF Timers!DrivesPair
  <2>5. QED
    BY <1>1, <1>5, <2>2, <2>4, Zenon DEF IsStaged, Timers!DrivesPair, Timers!Denied
<1>6. CASE s \notin Timers!Of(m)
  <2>1. s \in complementary' <=> s \in complementary BY <1>3, <1>6, Zenon
  <2>2. staged'[s] = staged[s] BY <1>4, <1>6, Zenon
  <2>3. QED BY <1>1, <1>6, <2>1, <2>2, Zenon DEF IsStaged
<1>7. QED BY <1>5, <1>6, Zenon

\* The modules that are settled at a stage or a load, and when the next begins.
LEMMA SettledModules ==
  ASSUME NEW m \in 1..4
  PROVE  /\ ptPc = [at |-> "stage", module |-> m] => Settled = {k \in 1..4 : k < m}
         /\ ptPc = [at |-> "load", module |-> m] => Settled = {k \in 1..4 : k < m}
         /\ ptPc' = Timers!After(m) =>
              /\ Settled' = {k \in 1..4 : k < m} \cup {m} /\ ptPc'.at \notin {"load", "rest"}
              /\ ptPc' \in [at : {"rest", "stage", "load", "release"}, module : 0..4]
              /\ ptPc'.at \in {"stage", "load"} => ptPc'.module \in 1..4
<1>1. ASSUME ptPc = [at |-> "stage", module |-> m] PROVE Settled = {k \in 1..4 : k < m}
  BY <1>1 DEF Settled
<1>2. ASSUME ptPc = [at |-> "load", module |-> m] PROVE Settled = {k \in 1..4 : k < m}
  BY <1>2 DEF Settled
<1>3. ASSUME ptPc' = Timers!After(m)
      PROVE  /\ Settled' = {k \in 1..4 : k < m} \cup {m} /\ ptPc'.at \notin {"load", "rest"}
             /\ ptPc' \in [at : {"rest", "stage", "load", "release"}, module : 0..4]
             /\ ptPc'.at \in {"stage", "load"} => ptPc'.module \in 1..4
  <2>1. CASE m = 4 BY <1>3, <2>1 DEF Settled, Timers!After
  <2>2. CASE m # 4
    <3>1. ptPc' = [at |-> "stage", module |-> m + 1] /\ m + 1 \in 1..4
      BY <1>3, <2>2 DEF Timers!After
    <3>2. Settled' = {k \in 1..4 : k < m + 1} BY <3>1 DEF Settled
    <3>3. QED BY <2>2, <3>1, <3>2
  <2>3. QED BY <2>1, <2>2
<1>4. QED BY <1>1, <1>2, <1>3

\* Staging a module keeps the invariant: what is refused makes the settings invalid.
LEMMA StagingStep ==
  ASSUME TimersInv, NEW m \in 1..4, NEW refused \in SUBSET Timers!Of(m), Timers!Stage(m, refused)
  PROVE  TimersInv'
<1>0. TimerTypes /\ LoadInv BY DEF TimersInv
<1>1. /\ ptPc = [at |-> "stage", module |-> m]
      /\ UNCHANGED <<ptCfg, active, ptTripped, outen>>
  BY Zenon DEF Timers!Stage
<1>2. ptPc.at = "stage" /\ ptPc.module = m BY <1>1
<1>3. ldok = {} /\ ~outen BY <1>0, <1>2 DEF LoadInv
<1>4. DOMAIN staged' = Timers!Submodules /\ complementary' \subseteq {"Sm13", "Sm31"}
  <2>1. DOMAIN staged' = Timers!Submodules BY Zenon DEF Timers!Stage
  <2>2. complementary' \subseteq complementary \cup {s \in Timers!Of(m) \ refused :
                                                      Timers!DrivesPair(ptCfg, s)}
    BY Zenon DEF Timers!Stage
  <2>3. ASSUME NEW s \in Timers!Of(m), Timers!DrivesPair(ptCfg, s) PROVE s \in {"Sm13", "Sm31"}
    <3>1. s \in {"Sm13", "Sm31", "Sm40", "Sm41", "Sm42"} BY DEF Timers!Of
    <3>2. Timers!IsPair(ptCfg[s].pair) BY <2>3, Zenon DEF Timers!DrivesPair
    <3>3. s \notin {"Sm40", "Sm41", "Sm42"} BY <1>0, <3>2, TimerConstants, Zenon DEF TimerTypes
    <3>4. QED BY <3>1, <3>3
  <2>4. complementary \subseteq {"Sm13", "Sm31"} BY <1>0, Zenon DEF TimerTypes
  <2>5. QED BY <2>1, <2>2, <2>3, <2>4, Zenon
<1>5. CASE refused = {}
  <2>1. /\ ptPc' = [at |-> "load", module |-> m] /\ ldok' = ldok \cup {m}
        /\ ptValid' = ptValid
    BY <1>5, Zenon DEF Timers!Stage
  <2>2. ptPc'.at = "load" /\ ptPc'.module = m
        /\ ptPc' \in [at : {"rest", "stage", "load", "release"}, module : 0..4]
    BY <2>1
  <2>3. TimerTypes' BY <1>0, <1>1, <1>4, <2>1, <2>2 DEF TimerTypes
  <2>4. Settled = {k \in 1..4 : k < m} /\ Settled' = {k \in 1..4 : k < m}
    <3>1. Settled = {k \in 1..4 : k < m} BY <1>1, SettledModules
    <3>2. Settled' = {k \in 1..4 : k < m} BY <2>2 DEF Settled
    <3>3. QED BY <3>1, <3>2
  <2>5. Timers!Stage(m, {}) BY <1>5, Zenon
  <2>6. \A k \in 1..4 : Timers!Of(k) \subseteq Timers!Submodules
    BY DEF Timers!Of, Timers!Submodules
  <2>7. ASSUME ptValid', NEW k \in Settled', NEW s \in Timers!Of(k)
        PROVE  IsStaged(s)' /\ active'[s] = staged'[s]
    <3>1. k \in Settled /\ k \in 1..4 /\ k # m BY <2>4
    <3>2. s \notin Timers!Of(m) /\ s \in Timers!Submodules
      BY <2>6, <2>7, <3>1, ModulesAreApart, Zenon
    <3>3. IsStaged(s) /\ active[s] = staged[s] BY <1>0, <2>1, <2>7, <3>1, Zenon DEF LoadInv
    <3>4. QED BY <1>0, <1>1, <2>5, <3>2, <3>3, StagedWhole, Zenon
  <2>8. ASSUME NEW s \in Timers!Of(m) PROVE IsStaged(s)'
    BY <1>0, <2>5, <2>6, <2>8, StagedWhole, Zenon
  <2>9. LoadInv' BY <1>1, <1>3, <2>1, <2>2, <2>7, <2>8, Zenon DEF LoadInv
  <2>10. QED BY <2>3, <2>9, Zenon DEF TimersInv
<1>6. CASE refused # {}
  <2>1. ptPc' = Timers!After(m) /\ ldok' = ldok \ {m} /\ Timers!Judged(FALSE)
    BY <1>6, Zenon DEF Timers!Stage
  <2>2. ~ptValid' /\ ptValid' \in BOOLEAN BY <2>1, Zenon DEF Timers!Judged
  <2>3. /\ ptPc' \in [at : {"rest", "stage", "load", "release"}, module : 0..4]
        /\ ptPc'.at \in {"stage", "load"} => ptPc'.module \in 1..4
    BY <2>1, SettledModules
  <2>4. TimerTypes' BY <1>0, <1>1, <1>4, <2>2, <2>3, Zenon DEF TimerTypes
  <2>5. LoadInv' BY <1>1, <1>3, <2>1, <2>2 DEF LoadInv
  <2>6. QED BY <2>4, <2>5, Zenon DEF TimersInv
<1>7. QED BY <1>5, <1>6

\* A module that has been loaded joins those that are settled, and one that has not makes the
\* settings invalid.
LEMMA LoadedStep ==
  ASSUME TimersInv, NEW m \in 1..4, Timers!Loaded(m) \/ Timers!LoadTimesOut(m)
  PROVE  TimersInv'
<1>0. TimerTypes /\ LoadInv BY DEF TimersInv
<1>1. /\ ptPc = [at |-> "load", module |-> m] /\ ptPc' = Timers!After(m)
      /\ UNCHANGED <<ptCfg, staged, active, complementary, ptTripped>>
  BY Zenon DEF Timers!Loaded, Timers!LoadTimesOut
<1>2. ptPc.at = "load" /\ ptPc.module = m BY <1>1
<1>3. ldok \subseteq {m} /\ ~outen BY <1>0, <1>2 DEF LoadInv
<1>4. /\ Settled = {k \in 1..4 : k < m} /\ Settled' = {k \in 1..4 : k < m} \cup {m}
      /\ ptPc'.at \notin {"load", "rest"}
      /\ ptPc' \in [at : {"rest", "stage", "load", "release"}, module : 0..4]
      /\ ptPc'.at \in {"stage", "load"} => ptPc'.module \in 1..4
  BY <1>1, SettledModules
<1>5. /\ ptValid' \in BOOLEAN /\ outen' \in BOOLEAN /\ ~outen' /\ ldok' = {}
      /\ ptValid' => ptValid /\ m \notin ldok
  <2>1. CASE Timers!Loaded(m)
    BY <1>0, <1>3, <2>1 DEF Timers!Loaded, Timers!Judged, TimerTypes
  <2>2. CASE Timers!LoadTimesOut(m)
    BY <1>0, <1>3, <2>2 DEF Timers!LoadTimesOut, Timers!Judged, TimerTypes
  <2>3. QED BY <2>1, <2>2
<1>6. TimerTypes' BY <1>0, <1>1, <1>4, <1>5, Zenon DEF TimerTypes
<1>7. ASSUME ptValid', NEW k \in Settled', NEW s \in Timers!Of(k)
      PROVE  IsStaged(s)' /\ active'[s] = staged'[s]
  <2>1. k \in Settled \/ k = m BY <1>4
  <2>2. IsStaged(s) /\ active[s] = staged[s]
    BY <1>0, <1>2, <1>5, <1>7, <2>1, Zenon DEF LoadInv
  <2>3. QED BY <1>1, <2>2, Zenon DEF IsStaged
<1>8. LoadInv' BY <1>4, <1>5, <1>7, Zenon DEF LoadInv
<1>9. QED BY <1>6, <1>8, Zenon DEF TimersInv

\* A reload of the hardware puts in force what is staged, in the module that asked for it.
LEMMA ReloadStep ==
  ASSUME TimersInv, NEW m \in 1..4, Timers!Reload(m)
  PROVE  TimersInv'
<1>0. TimerTypes /\ LoadInv BY DEF TimersInv
<1>1. /\ m \in ldok /\ ldok' = ldok \ {m}
      /\ UNCHANGED <<ptCfg, ptPc, staged, complementary, ptValid, ptTripped, outen>>
      /\ active' = [s \in Timers!Submodules |-> IF s \in Timers!Of(m) THEN staged[s]
                                                ELSE active[s]]
  BY Zenon DEF Timers!Reload
<1>2. ptPc.at = "load" /\ ptPc.module = m /\ ldok' = {} /\ ~outen
  BY <1>0, <1>1 DEF LoadInv
<1>3. TimerTypes' BY <1>0, <1>1, Zenon DEF TimerTypes
<1>4. Settled' = Settled BY <1>1, Zenon DEF Settled
<1>5. \A s : IsStaged(s) => IsStaged(s)' BY <1>1, Zenon DEF IsStaged
<1>6. \A k \in 1..4 : Timers!Of(k) \subseteq Timers!Submodules
  BY DEF Timers!Of, Timers!Submodules
<1>7. ASSUME NEW s \in Timers!Submodules
      PROVE  active'[s] = IF s \in Timers!Of(m) THEN staged'[s] ELSE active[s]
  BY <1>1, Zenon
<1>8. ASSUME ptValid', NEW k \in Settled', NEW s \in Timers!Of(k)
      PROVE  IsStaged(s)' /\ active'[s] = staged'[s]
  <2>1. k \in 1..4 BY <1>2, <1>4 DEF Settled
  <2>2. IsStaged(s) /\ active[s] = staged[s] BY <1>0, <1>1, <1>4, <1>8, Zenon DEF LoadInv
  <2>3. QED BY <1>1, <1>5, <1>6, <1>7, <1>8, <2>1, <2>2, Zenon
<1>9. ASSUME ptValid', NEW s \in Timers!Of(m)
      PROVE  IsStaged(s)' /\ active'[s] = staged'[s]
  BY <1>0, <1>1, <1>2, <1>5, <1>6, <1>7, <1>9, Zenon DEF LoadInv
<1>10. LoadInv' BY <1>1, <1>2, <1>8, <1>9, Zenon DEF LoadInv
<1>11. QED BY <1>3, <1>10, Zenon DEF TimersInv

\* What neither stages nor loads changes neither.
LEMMA RestStep ==
  ASSUME TimersInv,
         \/ \E c \in TimerSets : Timers!Apply(c)
         \/ Timers!Release \/ Timers!Trip \/ Timers!Clear
  PROVE  TimersInv'
<1>0. TimerTypes /\ LoadInv BY DEF TimersInv
<1>1. ASSUME NEW c \in TimerSets, Timers!Apply(c) PROVE TimersInv'
  <2>1. /\ ptPc.at = "rest" /\ ptCfg' = c /\ ptValid' = TRUE /\ outen' = FALSE
        /\ ptPc' = [at |-> "stage", module |-> 1]
        /\ UNCHANGED <<staged, active, complementary, ldok, ptTripped>>
    BY <1>1, Zenon DEF Timers!Apply
  <2>2. /\ ptPc'.at = "stage" /\ ptPc'.module = 1 /\ ptPc'.module \in 1..4
        /\ ptPc' \in [at : {"rest", "stage", "load", "release"}, module : 0..4]
    BY <2>1
  <2>3. TimerTypes' BY <1>0, <2>1, <2>2, Zenon DEF TimerTypes
  <2>4. ldok' = {} BY <1>0, <2>1 DEF LoadInv
  <2>5. Settled' = {} BY <2>2 DEF Settled
  <2>6. LoadInv' BY <2>1, <2>2, <2>4, <2>5 DEF LoadInv
  <2>7. QED BY <2>3, <2>6, Zenon DEF TimersInv
<1>2. ASSUME ptPc'.at = "rest", ptPc.at \in {"rest", "release"},
             ptPc' \in [at : {"rest", "stage", "load", "release"}, module : 0..4],
             UNCHANGED <<ptCfg, staged, active, complementary, ldok, ptValid>>,
             ptTripped' \in BOOLEAN, outen' \in BOOLEAN, outen' => ptValid
      PROVE  TimersInv'
  <2>1. ldok' = {} BY <1>0, <1>2 DEF LoadInv
  <2>2. Settled' = Settled BY <1>2 DEF Settled
  <2>3. \A s : IsStaged(s) => IsStaged(s)' BY <1>2, Zenon DEF IsStaged
  <2>4. "rest" \notin {"stage", "load"} OBVIOUS
  <2>5. TimerTypes' BY <1>0, <1>2, <2>4, Zenon DEF TimerTypes
  <2>6. LoadInv'
    <3>1. ptPc'.at # "load" BY <1>2
    <3>2. \A m \in Settled' : \A s \in Timers!Of(m) :
            ptValid' => IsStaged(s)' /\ active'[s] = staged'[s]
      BY <1>0, <1>2, <2>2, <2>3, Zenon DEF LoadInv
    <3>3. QED BY <1>2, <2>1, <3>1, <3>2, Zenon DEF LoadInv
  <2>7. QED BY <2>5, <2>6, Zenon DEF TimersInv
<1>3. CASE Timers!Release
  <2>1. /\ ptPc.at = "release" /\ ptPc' = [at |-> "rest", module |-> 0]
        /\ outen' = (ptValid /\ ~ptTripped)
        /\ UNCHANGED <<ptCfg, staged, active, complementary, ldok, ptValid, ptTripped>>
    BY <1>3, Zenon DEF Timers!Release
  <2>2. ptPc'.at = "rest" /\ ptPc' \in [at : {"rest", "stage", "load", "release"}, module : 0..4]
    BY <2>1
  <2>3. ptTripped' \in BOOLEAN /\ outen' \in BOOLEAN /\ (outen' => ptValid)
    BY <1>0, <2>1, Zenon DEF TimerTypes
  <2>4. QED BY <1>2, <2>1, <2>2, <2>3
<1>4. CASE Timers!Clear
  <2>1. /\ ptPc.at = "rest" /\ outen' = ptValid /\ ptTripped' = ~ptValid
        /\ UNCHANGED <<ptCfg, ptPc, staged, active, complementary, ldok, ptValid>>
    BY <1>4, Zenon DEF Timers!Clear
  <2>2. ptPc' \in [at : {"rest", "stage", "load", "release"}, module : 0..4]
    BY <1>0, <2>1, Zenon DEF TimerTypes
  <2>3. ptTripped' \in BOOLEAN /\ outen' \in BOOLEAN /\ (outen' => ptValid)
    BY <1>0, <2>1, Zenon DEF TimerTypes
  <2>4. QED BY <1>2, <2>1, <2>2, <2>3
<1>5. CASE Timers!Trip
  <2>1. /\ ptTripped' = TRUE /\ outen' = FALSE
        /\ UNCHANGED <<ptCfg, ptPc, staged, active, complementary, ldok, ptValid>>
    BY <1>5, Zenon DEF Timers!Trip
  <2>2. Settled' = Settled BY <2>1, Zenon DEF Settled
  <2>3. \A s : IsStaged(s) => IsStaged(s)' BY <2>1, Zenon DEF IsStaged
  <2>4. TimerTypes' BY <1>0, <2>1, Zenon DEF TimerTypes
  <2>5. LoadInv' BY <1>0, <2>1, <2>2, <2>3, Zenon DEF LoadInv
  <2>6. QED BY <2>4, <2>5, Zenon DEF TimersInv
<1>6. QED BY <1>1, <1>3, <1>4, <1>5

\* Every step of an apply, of the hardware and of a fault keeps the invariant.
LEMMA TimersStep == TimersInv /\ [Timers!Next]_timersAll => TimersInv'
<1> SUFFICES ASSUME TimersInv, [Timers!Next]_timersAll PROVE TimersInv' OBVIOUS
<1>1. CASE UNCHANGED timersAll
  <2>1. UNCHANGED <<ptCfg, ptPc, staged, active, complementary, ldok, ptValid, ptTripped, outen>>
    BY <1>1, Zenon DEF timersAll
  <2>2. QED BY <2>1, Zenon DEF TimersInv, TimerTypes, LoadInv, Settled, IsStaged
<1>2. CASE Timers!Next
  BY <1>2, StagingStep, ReloadStep, LoadedStep, RestStep, Zenon DEF Timers!Next
<1>3. QED BY <1>1, <1>2

\* A number is its quotient and its remainder.
LEMMA Quotient ==
  ASSUME NEW s \in Nat \ {0}, NEW x \in Nat
  PROVE  x = s * (x \div s) + (x % s) /\ x \div s \in Nat /\ x % s \in 0..(s - 1)
BY SMTT(20)

\* The powers of two of the prescaler are divisors.
LEMMA PowersDivide == \A i \in 0..7 : 2^i \in Nat \ {0}
<1>1. /\ 2^0 = 1 /\ 2^1 = 2 /\ 2^2 = 4 /\ 2^3 = 8 /\ 2^4 = 16 /\ 2^5 = 32 /\ 2^6 = 64
      /\ 2^7 = 128
  OBVIOUS
<1>2. \A i \in 0..7 : \/ i = 0 \/ i = 1 \/ i = 2 \/ i = 3 \/ i = 4 \/ i = 5 \/ i = 6 \/ i = 7
  OBVIOUS
<1> DEFINE Powers == {1, 2, 4, 8, 16, 32, 64, 128}
<1>3. ASSUME NEW i \in 0..7 PROVE 2^i \in Powers BY <1>1, <1>2, ZenonT(40)
<1>4. Powers \subseteq Nat \ {0} OBVIOUS
<1> HIDE DEF Powers
<1>5. QED BY <1>3, <1>4, Zenon

\* The prescaler is the fastest that fits a period into the counter, or the slowest there is.
LEMMA FastestPrescaler ==
  ASSUME NEW f \in Nat \ {0}
  PROVE  /\ Timers!Prescaler(f) \in 0..7
         /\ \A faster \in 0..(Timers!Prescaler(f) - 1) :
              (BusClock \div 2^faster) \div f > MaxCounter
<1> DEFINE ticks(i) == (BusClock \div 2^i) \div f
           fits == {i \in 0..7 : ticks(i) <= MaxCounter}
           first == CHOOSE i \in fits : \A j \in fits : i <= j
<1>1. BusClock \in Nat /\ MaxCounter \in Nat BY ServicesAssumption DEF Timers!ConstantsOK
<1>2. \A i \in 0..7 : ticks(i) \in Nat
  <2>1. SUFFICES ASSUME NEW i \in 0..7 PROVE ticks(i) \in Nat OBVIOUS
  <2>2. PICK d \in Nat \ {0} : d = 2^i BY PowersDivide
  <2>3. BusClock \div d \in Nat BY <1>1
  <2>4. (BusClock \div d) \div f \in Nat BY <2>3
  <2>5. QED BY <2>2, <2>4
<1>3. Timers!Prescaler(f) = IF fits = {} THEN 7 ELSE first BY Zenon DEF Timers!Prescaler
<1> HIDE DEF ticks
<1>4. fits # {} => first \in fits /\ \A j \in fits : first <= j
  <2>1. SUFFICES ASSUME fits # {} PROVE \E i \in fits : \A j \in fits : i <= j BY Zenon
  <2>2. fits \subseteq 0..7 BY Zenon
  <2> HIDE DEF fits
  <2>3. CASE 0 \in fits BY <2>2, <2>3
  <2>4. CASE 0 \notin fits
    <3>1. fits \in SUBSET (1..7) BY <2>2, <2>4
    <3>2. 7 \in Nat OBVIOUS
    <3>3. QED BY <2>1, <3>1, <3>2, Smallest
  <2>5. QED BY <2>3, <2>4
<1> DEFINE p == Timers!Prescaler(f)
<1>5. p \in 0..7 /\ \A i \in 0..7 : i < p => i \notin fits
  <2>1. CASE fits = {}
    <3>1. p = 7 BY <1>3, <2>1, Zenon
    <3>2. QED BY <2>1, <3>1
  <2>2. CASE fits # {}
    <3>1. p \in fits /\ \A j \in fits : p <= j BY <1>3, <1>4, <2>2, Zenon
    <3>2. \A j \in fits : j \in 0..7 BY Zenon
    <3> HIDE DEF fits, p
    <3>3. QED BY <3>1, <3>2
  <2>3. QED BY <2>1, <2>2
<1>6. ASSUME NEW faster \in 0..(p - 1) PROVE ticks(faster) > MaxCounter
  <2> HIDE DEF p
  <2>1. faster \in 0..7 /\ faster < p BY <1>5
  <2>2. ~(ticks(faster) <= MaxCounter) BY <1>5, <2>1, Zenon
  <2>3. QED BY <1>1, <1>2, <2>1, <2>2
<1>7. QED BY <1>5, <1>6 DEF ticks

\* A period in ticks is the nearest to the one asked for.
LEMMA NearestPeriod ==
  ASSUME NEW clock \in Nat, NEW f \in Nat \ {0}
  PROVE  /\ (clock + f \div 2) \div f \in Nat
         /\ 2 * (((clock + f \div 2) \div f) * f - clock) \in -f..f
<1> DEFINE half == f \div 2
           x == clock + half
<1>1. half \in Nat /\ 2 * half <= f /\ f <= 2 * half + 1 OBVIOUS
<1> HIDE DEF half
<1>2. x \in Nat BY <1>1
<1> HIDE DEF x
<1>3. x = f * (x \div f) + (x % f) /\ x \div f \in Nat /\ x % f \in 0..(f - 1)
  BY <1>2, Quotient, Zenon
<1>4. PICK q \in Nat : q = x \div f BY <1>3, Zenon
<1>5. PICK r \in 0..(f - 1) : r = x % f BY <1>3, Zenon
<1>6. PICK w \in Int : w = f * q BY <1>4
<1>7. clock + half = w + r BY <1>3, <1>4, <1>5, <1>6 DEF x
<1>8. 2 * (w - clock) \in -f..f BY <1>1, <1>5, <1>6, <1>7
<1>9. q * f = w BY <1>6
<1>10. QED BY <1>4, <1>8, <1>9 DEF half, x

\* Whatever timing is asked for, an asymmetric pair that is accepted has edges the counter
\* reaches, at the nearest frequency there is.
LEMMA EdgesAlwaysReached ==
  ASSUME NEW f \in Nat \ {0}, NEW share \in Nat, NEW early \in Int, NEW late \in Int
  PROVE  Timers!EdgesAreReached(f, share, early, late)
<1> DEFINE t == Timers!Timings(f, share, early, late)
           p == Timers!Prescaler(f)
           clock == BusClock \div 2^Timers!Prescaler(f)
           period == (clock + f \div 2) \div f
           endA == (period * share + FullDuty \div 2) \div FullDuty
           startB == endA - Timers!Nearest(early * clock)
           endB == (period - 1) - Timers!Nearest(late * clock)
<1>1. SUFFICES ASSUME t.valid
      PROVE  /\ t.last <= MaxCounter
             /\ 0 = t.a[1] /\ t.a[1] < t.a[2] /\ t.a[2] <= t.last
             /\ 0 <= t.b[1] /\ t.b[1] < t.b[2] /\ t.b[2] <= t.last
             /\ 2 * ((t.last + 1) * f - (BusClock \div 2^t.prescaler)) \in -f..f
             /\ \A faster \in 0..(t.prescaler - 1) : (BusClock \div 2^faster) \div f > MaxCounter
  BY Zenon DEF Timers!EdgesAreReached
<1>2. /\ BusClock \in Nat /\ MaxCounter \in Nat /\ FullDuty \in Nat \ {0}
      /\ Second \in Nat \ {0}
  BY ServicesAssumption DEF Timers!ConstantsOK
<1>3. p \in 0..7 BY FastestPrescaler
<1>4. clock \in Nat
  <2>1. PICK d \in Nat \ {0} : d = 2^p BY <1>3, PowersDivide
  <2>2. BusClock \div d \in Nat BY <1>2
  <2>3. QED BY <2>1, <2>2
<1> HIDE DEF clock
<1>5. period \in Nat /\ 2 * (period * f - clock) \in -f..f BY <1>4, NearestPeriod
<1> HIDE DEF period
<1>6. endA \in Int
  <2>1. period * share + FullDuty \div 2 \in Nat BY <1>2, <1>5
  <2>2. QED BY <1>2, <2>1
<1>7. \A y \in Int : Timers!Nearest(y) \in Int BY <1>2 DEF Timers!Nearest
<1>8. startB \in Int /\ endB \in Int
  <2>1. early * clock \in Int /\ late * clock \in Int BY <1>4
  <2> HIDE DEF endA
  <2>2. QED BY <1>5, <1>6, <1>7, <2>1
<1>9. t = IF \/ period < 2 \/ period > MaxCounter + 1
             \/ endA <= 0 \/ endA > period - 1
             \/ startB < 0 \/ startB >= endB \/ endB > period - 1
          THEN Timers!NoTimings
          ELSE [valid |-> TRUE, prescaler |-> p, last |-> period - 1,
                a |-> <<0, endA>>, b |-> <<startB, endB>>]
  <2>1. f # 0 OBVIOUS
  <2>2. QED BY <2>1, Zenon DEF Timers!Timings, clock, period
<1> HIDE DEF endA, startB, endB, t, p
<1>10. ~Timers!NoTimings.valid BY DEF Timers!NoTimings
<1>11. /\ t = [valid |-> TRUE, prescaler |-> p, last |-> period - 1,
               a |-> <<0, endA>>, b |-> <<startB, endB>>]
       /\ ~(period > MaxCounter + 1) /\ ~(endA <= 0) /\ ~(endA > period - 1)
       /\ ~(startB < 0) /\ ~(startB >= endB) /\ ~(endB > period - 1)
  BY <1>1, <1>9, <1>10, Zenon
<1>12. /\ t.last = period - 1 /\ t.prescaler = p /\ t.a[1] = 0 /\ t.a[2] = endA
       /\ t.b[1] = startB /\ t.b[2] = endB
  BY <1>11
<1>13. /\ t.last <= MaxCounter /\ 0 < endA /\ endA <= t.last
       /\ 0 <= startB /\ startB < endB /\ endB <= t.last /\ t.last + 1 = period
  BY <1>2, <1>5, <1>6, <1>8, <1>11, <1>12
<1>14. BusClock \div 2^t.prescaler = clock BY <1>12 DEF clock, p
<1>15. \A faster \in 0..(p - 1) : (BusClock \div 2^faster) \div f > MaxCounter
  BY FastestPrescaler DEF p
<1>16. QED BY <1>5, <1>12, <1>13, <1>14, <1>15

-----------------------------------------------------------------------------
(* The inverter: module 2 as it is configured and modulated.                                *)

\* The constants are of their types.
LEMMA StageTypes ==
  /\ Unit \in Nat \ {0} /\ One \in Nat \ {0} /\ Fraction \in Nat \ {0}
  /\ RampCycles \in Nat \ {0} /\ Advance \in Nat \ {0}
  /\ Stage!Steps \in Nat \ {0} /\ Sine \in Seq(Int) /\ Flat \in Seq(Int)
  /\ Len(Sine) = Stage!Steps /\ Len(Flat) = Stage!Steps
  /\ Segments \in Seq([level : Int, cycles : Nat \ {0}]) /\ Len(Segments) \in Nat \ {0}
  /\ Uploaded \in Seq(Int) /\ Len(Uploaded) \in Nat \ {0}
  /\ FixedCells \subseteq Stage!Cells /\ Modulations \subseteq Stage!Settings
  /\ Changes \subseteq Modulations
<1>1. /\ {Unit, One, Fraction, RampCycles, Advance} \subseteq Nat \ {0}
      /\ Sine \in Seq(Int) \ {<<>>} /\ Flat \in Seq(Int) /\ Len(Sine) = Len(Flat)
      /\ Segments \in Seq([level : Int, cycles : Nat \ {0}]) \ {<<>>}
      /\ Uploaded \in Seq(Int) \ {<<>>}
      /\ FixedCells \subseteq Stage!Cells /\ Modulations \subseteq Stage!Settings
      /\ Changes \subseteq Modulations
  BY ServicesAssumption, Zenon DEF Stage!ConstantsOK
<1>2. Len(Sine) # 0 /\ Len(Segments) # 0 /\ Len(Uploaded) # 0 BY <1>1
<1>3. Len(Sine) \in Nat /\ Len(Segments) \in Nat /\ Len(Uploaded) \in Nat BY <1>1
<1>4. Stage!Steps = Len(Sine) BY DEF Stage!Steps
<1>5. Len(Sine) \in Nat \ {0} /\ Len(Segments) \in Nat \ {0} /\ Len(Uploaded) \in Nat \ {0}
  BY <1>2, <1>3
<1>6. Unit \in Nat \ {0} /\ One \in Nat \ {0} /\ Fraction \in Nat \ {0}
      /\ RampCycles \in Nat \ {0} /\ Advance \in Nat \ {0}
  BY <1>1, Zenon
<1>7. QED BY <1>1, <1>4, <1>5, <1>6, Zenon

\* The fields of a configuration.
LEMMA SettingTypes ==
  ASSUME NEW c \in Modulations
  PROVE  /\ c.scheme \in {"fixed", "unipolar", "bipolar", "thipwm", "level", "phase", "svpwm",
                          "dpwm", "svpwm3d"}
         /\ c.cells \in 1..4 /\ c.near \in BOOLEAN
         /\ c.variant \in {"min", "max", "wide", "3"}
         /\ c.source \in {"table", "sequence", "samples"}
         /\ c.comp \in Nat /\ c.index \in Nat /\ c.dead \in Nat
         /\ c.duty \in 0..Stage!Full
         /\ \A k \in 0..3 : c.pairs[k] \in {"independent", "half", "differential"}
         /\ c # Stage!None
<1>1. c \in Stage!Settings BY StageTypes, Zenon
<1>2. c.scheme # "none" BY <1>1 DEF Stage!Settings
<1>3. Stage!None.scheme = "none" BY DEF Stage!None
<1>4. c.pairs \in [0..3 -> {"independent", "half", "differential"}]
  BY <1>1 DEF Stage!Settings, Stage!Cells
<1>5. c # Stage!None BY <1>2, <1>3, Zenon
<1>6. QED BY <1>1, <1>4, <1>5 DEF Stage!Settings

\* A reference ends as a duty strictly above none.
LEMMA DutyRange ==
  ASSUME NEW v \in Int, NEW comp \in Nat, NEW sign \in Int
  PROVE  Stage!DutyOf(v, comp, sign) \in 1..Stage!Full
<1>1. PICK u \in Nat \ {0} : u = Unit BY StageTypes, Zenon
<1>2. Stage!Half = u + 1 /\ Stage!Full = 2 * u + 1 BY <1>1 DEF Stage!Half, Stage!Full
<1>3. \A x \in Int : Stage!Saturated(x) \in (-u)..u BY <1>1 DEF Stage!Saturated
<1>4. Stage!Compensated(v, comp, sign) \in Int BY DEF Stage!Compensated
<1>5. PICK y \in (-u)..u : y = Stage!Saturated(Stage!Compensated(v, comp, sign))
  BY <1>3, <1>4
<1>6. Stage!DutyOf(v, comp, sign) = Stage!Half + y BY <1>5, Zenon DEF Stage!DutyOf
<1>7. QED BY <1>2, <1>5, <1>6

\* What a cell is given is a duty.
LEMMA CellRange ==
  ASSUME NEW s, NEW ref \in 1..Stage!Full, NEW k \in 0..3, NEW n \in 1..4, NEW near \in BOOLEAN,
         NEW p
  PROVE  Stage!FinalDuty(Stage!CellDuty(s, ref, k, n, near), p) \in 0..Stage!Full
<1>1. Stage!Full \in Nat /\ Stage!Half \in Nat /\ Stage!Full = 2 * Stage!Half - 1
  BY StageTypes DEF Stage!Full, Stage!Half
<1>2. Stage!BandDuty(ref, k, n, near) \in 0..Stage!Full
  <2>1. ref * n - k * (Stage!Full + 1) \in Int BY <1>1
  <2> DEFINE d == ref * n - k * (Stage!Full + 1)
  <2> HIDE DEF d
  <2>2. Stage!BandDuty(ref, k, n, near)
        = CASE d <= 0 -> 0
            [] d > 0 /\ near -> IF d >= Stage!Half THEN Stage!Full ELSE 0
            [] OTHER -> IF d >= Stage!Full THEN Stage!Full ELSE d
    BY Zenon DEF Stage!BandDuty, d
  <2>3. d \in Int BY <2>1 DEF d
  <2>4. QED BY <1>1, <2>2, <2>3
<1>3. Stage!CellDuty(s, ref, k, n, near) \in 0..Stage!Full BY <1>1, <1>2 DEF Stage!CellDuty
<1>4. QED BY <1>1, <1>3 DEF Stage!FinalDuty

\* An entry of a table, and a reference scaled by an index, are numbers.
LEMMA EntryTypes ==
  ASSUME NEW p \in Nat
  PROVE  Stage!At(Sine, p) \in Int /\ Stage!At(Flat, p) \in Int
<1>0. PICK n \in Nat \ {0} : n = Stage!Steps BY StageTypes, Zenon
<1>1. p % Stage!Steps \in 0..Stage!Steps - 1 BY <1>0
<1>2. (p % Stage!Steps) + 1 \in 1..Stage!Steps BY <1>1, StageTypes
<1>3. Sine[(p % Stage!Steps) + 1] \in Int /\ Flat[(p % Stage!Steps) + 1] \in Int
  <2> DEFINE x == (p % Stage!Steps) + 1
  <2> HIDE DEF x
  <2>1. x \in 1..Stage!Steps BY <1>2 DEF x
  <2>2. /\ Sine \in Seq(Int) /\ x \in 1..Len(Sine)
        /\ Flat \in Seq(Int) /\ x \in 1..Len(Flat)
    BY <2>1, StageTypes, Zenon
  <2>4. Sine[x] \in Int /\ Flat[x] \in Int BY <2>2
  <2>3. QED BY <2>4, Zenon DEF x
<1>4. QED BY <1>3, Zenon DEF Stage!At

\* A scaled reference is a number.
LEMMA ScaledType ==
  ASSUME NEW u \in Int, NEW i \in Nat
  PROVE  Stage!Scaled(u, i) \in Int
<1>1. u * i \in Int OBVIOUS
<1> DEFINE x == u * i
<1> HIDE DEF x
<1>2. x \in Int BY <1>1 DEF x
<1>3. x \div One \in Int BY <1>2, StageTypes
<1>4. QED BY <1>3, Zenon DEF Stage!Scaled, x

\* The legs of a three-phase reference are numbers.
LEMMA LegTypes ==
  ASSUME NEW p \in Nat, NEW i \in Nat
  PROVE  Stage!Legs(p, i) \in [0..2 -> Int]
<1>1. ASSUME NEW k \in 0..2
      PROVE  p + 3 * Stage!Steps - k * (Stage!Steps \div 3) \in Nat
  <2> DEFINE third == Stage!Steps \div 3
  <2>0. PICK n \in Nat : n = Stage!Steps BY StageTypes, Zenon
  <2>1. third \in Nat /\ third <= Stage!Steps BY <2>0
  <2>2. QED BY <2>1, StageTypes
<1>2. \A k \in 0..2 :
        Stage!At(Sine, p + 3 * Stage!Steps - k * (Stage!Steps \div 3)) \in Int
  BY <1>1, EntryTypes
<1>3. \A k \in 0..2 :
        Stage!Scaled(Stage!At(Sine, p + 3 * Stage!Steps - k * (Stage!Steps \div 3)), i) \in Int
  BY <1>2, ScaledType
<1>4. QED BY <1>3, Zenon DEF Stage!Legs

\* The greatest and the smallest of three numbers.
LEMMA ThreeMost ==
  ASSUME NEW v \in [0..2 -> Int]
  PROVE  /\ \E k \in 0..2 : Stage!MaxOf(v) = v[k]
         /\ \E k \in 0..2 : Stage!MinOf(v) = v[k]
         /\ \A k \in 0..2 : v[k] <= Stage!MaxOf(v) /\ Stage!MinOf(v) <= v[k]
<1> DEFINE S == {v[k] : k \in 0..2}
<1>1. PICK a, b, d \in Int : a = v[0] /\ b = v[1] /\ d = v[2] OBVIOUS
<1>2. S = {a, b, d}
  <2>1. 0..2 = {0, 1, 2} OBVIOUS
  <2>2. \A k \in 0..2 : v[k] \in {a, b, d} BY <1>1, <2>1
  <2>3. {a, b, d} \subseteq S BY <1>1, <2>1
  <2>4. S \subseteq {a, b, d} BY <2>2
  <2>5. QED BY <2>3, <2>4
<1>3. (\E x \in S : \A y \in S : x >= y) /\ (\E x \in S : \A y \in S : x <= y)
  <2>1. \E x \in {a, b, d} : x >= a /\ x >= b /\ x >= d OBVIOUS
  <2>2. \E x \in {a, b, d} : x <= a /\ x <= b /\ x <= d OBVIOUS
  <2> HIDE DEF S
  <2>3. QED BY <1>2, <2>1, <2>2
<1>4. Stage!MaxOf(v) = CHOOSE x \in S : \A y \in S : x >= y
  BY Zenon DEF Stage!MaxOf, Stage!Max
<1>5. Stage!MinOf(v) = CHOOSE x \in S : \A y \in S : x <= y
  BY Zenon DEF Stage!MinOf, Stage!Min
<1> HIDE DEF S
<1>6. Stage!MaxOf(v) \in S /\ \A y \in S : Stage!MaxOf(v) >= y BY <1>3, <1>4, Zenon
<1>7. Stage!MinOf(v) \in S /\ \A y \in S : Stage!MinOf(v) <= y BY <1>3, <1>5, Zenon
<1>8. (\A k \in 0..2 : v[k] \in S) /\ (\A y \in S : \E k \in 0..2 : y = v[k] /\ y \in Int)
  BY DEF S
<1>9. Stage!MaxOf(v) \in Int /\ Stage!MinOf(v) \in Int BY <1>6, <1>7, <1>8, Zenon
<1>10. \A k \in 0..2 : v[k] <= Stage!MaxOf(v) /\ Stage!MinOf(v) <= v[k]
  BY <1>6, <1>7, <1>8, <1>9
<1>11. QED BY <1>6, <1>7, <1>8, <1>10, Zenon

\* The leg at which three numbers are greatest.
LEMMA GreatestLeg ==
  ASSUME NEW f \in [0..2 -> Int]
  PROVE  /\ Stage!FirstGreatest(f) \in 0..2
         /\ \A j \in 0..2 : f[j] <= f[Stage!FirstGreatest(f)]
<1> DEFINE T == {k \in 0..2 : \A j \in 0..2 : f[j] <= f[k]}
<1>1. T \subseteq 0..2 OBVIOUS
<1>2. \E k \in 0..2 : k \in T
  <2>1. PICK a, b, d \in Int : a = f[0] /\ b = f[1] /\ d = f[2] OBVIOUS
  <2>2. \A j \in 0..2 : j = 0 \/ j = 1 \/ j = 2 OBVIOUS
  <2>3. CASE a >= b /\ a >= d BY <2>1, <2>2, <2>3
  <2>4. CASE b >= a /\ b >= d BY <2>1, <2>2, <2>4
  <2>5. CASE d >= a /\ d >= b BY <2>1, <2>2, <2>5
  <2>6. QED BY <2>1, <2>3, <2>4, <2>5
<1>3. Stage!FirstGreatest(f) = CHOOSE x \in T : \A y \in T : x <= y
  BY Zenon DEF Stage!FirstGreatest, Stage!Min
<1> HIDE DEF T
<1>4. \E x \in T : \A y \in T : x <= y BY <1>1, <1>2
<1>5. Stage!FirstGreatest(f) \in T BY <1>3, <1>4, Zenon
<1>6. QED BY <1>5, Zenon DEF T

\* The leg that is clamped is one of the three.
LEMMA ClampedLeg ==
  ASSUME NEW v \in [0..2 -> Int], NEW p \in Nat, NEW variant
  PROVE  /\ Stage!Clamped(v, p, variant) \in 0..2
         /\ variant = "max" => \A j \in 0..2 : v[j] <= v[Stage!Clamped(v, p, variant)]
         /\ variant = "min" => \A j \in 0..2 : v[j] >= v[Stage!Clamped(v, p, variant)]
<1> DEFINE neg == [k \in 0..2 |-> -v[k]]
<1>1. neg \in [0..2 -> Int] OBVIOUS
<1>2. CASE variant = "min"
  <2>1. Stage!Clamped(v, p, variant) = Stage!FirstGreatest(neg)
    BY <1>2 DEF Stage!Clamped
  <2> DEFINE g == Stage!FirstGreatest(neg)
  <2>2. g \in 0..2 /\ \A j \in 0..2 : neg[j] <= neg[g] BY <1>1, GreatestLeg
  <2> HIDE DEF g
  <2>3. \A j \in 0..2 : v[j] >= v[g] BY <2>2
  <2> HIDE DEF neg
  <2>4. QED BY <1>2, <2>1, <2>2, <2>3 DEF g
<1>3. CASE variant = "max"
  <2>1. Stage!Clamped(v, p, variant) = Stage!FirstGreatest(v) BY <1>3 DEF Stage!Clamped
  <2>2. QED BY <1>3, <2>1, GreatestLeg
<1>4. CASE variant = "3"
  <2> DEFINE mags == [k \in 0..2 |-> Stage!Magnitude(v[k])]
             less == [k \in 0..2 |-> -mags[k]]
  <2>1. mags \in [0..2 -> Int] /\ less \in [0..2 -> Int] BY DEF Stage!Magnitude
  <2>2. Stage!Clamped(v, p, variant) = Stage!Intermediate(mags)
    BY <1>4 DEF Stage!Clamped
  <2>3. Stage!FirstGreatest(mags) \in 0..2 /\ Stage!FirstGreatest(less) \in 0..2
    BY <2>1, GreatestLeg
  <2>4. Stage!Intermediate(mags)
        = IF Stage!FirstGreatest(mags) = Stage!FirstGreatest(less)
          THEN Stage!FirstGreatest(mags)
          ELSE 3 - Stage!FirstGreatest(mags) - Stage!FirstGreatest(less)
    BY Zenon DEF Stage!Intermediate
  <2> HIDE DEF mags, less
  <2>5. Stage!Intermediate(mags) \in 0..2 BY <2>3, <2>4
  <2>6. QED BY <1>4, <2>2, <2>5
<1>5. CASE variant \notin {"min", "max", "3"}
  <2> DEFINE wide == [k \in 0..2 |-> Stage!Magnitude(Stage!Legs(p, One)[k])]
  <2>0. Stage!Legs(p, One) \in [0..2 -> Int] BY LegTypes, StageTypes
  <2>1. wide \in [0..2 -> Int] BY <2>0 DEF Stage!Magnitude
  <2>2. Stage!Clamped(v, p, variant) = Stage!FirstGreatest(wide)
    BY <1>5 DEF Stage!Clamped
  <2> HIDE DEF wide
  <2>3. QED BY <1>5, <2>1, <2>2, GreatestLeg
<1>6. QED BY <1>2, <1>3, <1>4, <1>5

\* What is added to the three legs is a number, and brings one of them to a rail.
LEMMA ClampOffset ==
  ASSUME NEW v \in [0..2 -> Int], NEW p \in Nat, NEW variant
  PROVE  /\ Stage!DpwmZss(v, p, variant) \in Int
         /\ \E k \in 0..2 : v[k] + Stage!DpwmZss(v, p, variant) \in {-Unit, Unit}
         /\ variant = "max" =>
              \E k \in 0..2 : /\ \A j \in 0..2 : v[j] <= v[k]
                              /\ Stage!DpwmZss(v, p, variant) = Unit - v[k]
         /\ variant = "min" =>
              \E k \in 0..2 : /\ \A j \in 0..2 : v[j] >= v[k]
                              /\ Stage!DpwmZss(v, p, variant) = -Unit - v[k]
<1> DEFINE leg == Stage!Clamped(v, p, variant)
<1>1. leg \in 0..2 BY ClampedLeg
<1>2. Stage!DpwmZss(v, p, variant)
      = IF variant = "max" \/ (variant # "min" /\ v[leg] >= 0)
        THEN Unit - v[leg] ELSE -Unit - v[leg]
  BY <1>1 DEF Stage!DpwmZss
<1>3. /\ variant = "max" => \A j \in 0..2 : v[j] <= v[leg]
      /\ variant = "min" => \A j \in 0..2 : v[j] >= v[leg]
  BY ClampedLeg
<1> HIDE DEF leg
<1>4. v[leg] \in Int /\ Unit \in Nat BY <1>1, StageTypes
<1>5. \/ Stage!DpwmZss(v, p, variant) = Unit - v[leg] /\ variant # "min"
      \/ Stage!DpwmZss(v, p, variant) = -Unit - v[leg] /\ variant # "max"
  BY <1>2, Zenon
<1>6. v[leg] + Stage!DpwmZss(v, p, variant) \in {-Unit, Unit} BY <1>4, <1>5
<1>7. QED BY <1>1, <1>3, <1>4, <1>5, <1>6

\* The cells of a scheme are one to four of those there are.
LEMMA CellCount ==
  ASSUME NEW c \in Modulations
  PROVE  /\ Stage!EffectiveCells(c) \in 1..4
         /\ Stage!ThreePhase(c.scheme) => Stage!EffectiveCells(c) \in 3..4
BY SettingTypes DEF Stage!EffectiveCells, Stage!ThreePhase

\* What a settings record and a plan of its cells make of the state.
Rendering ==
  /\ cfg \in Modulations /\ Stage!Active(cfg)
  /\ scheme = cfg.scheme /\ cells = Stage!EffectiveCells(cfg)

\* Any cycle of the table gives every cell a duty.
LEMMA TableRange ==
  ASSUME Rendering, NEW p \in Nat, NEW i \in Nat, NEW k \in 0..3, k < cells
  PROVE  Stage!TableDuties(p, i)[k] \in 0..Stage!Full
<1>0. /\ cfg.comp \in Nat /\ cfg.near \in BOOLEAN /\ cells \in 1..4
      /\ (Stage!ThreePhase(scheme) => cells \in 3..4)
  BY SettingTypes, CellCount, Zenon DEF Rendering
<1>1. k \in 0..cells - 1 BY <1>0
<1>2. 1..Stage!Full \subseteq 0..Stage!Full BY StageTypes DEF Stage!Full
<1>3. CASE Stage!ThreePhase(scheme)
  <2> DEFINE v == Stage!Legs(p, i)
             zss == IF scheme = "dpwm" THEN Stage!DpwmZss(v, p, cfg.variant)
                    ELSE Stage!SvmZss(v)
  <2>1. v \in [0..2 -> Int] BY LegTypes
  <2>2. Stage!SvmZss(v) \in Int
    <3>1. Stage!MaxOf(v) \in Int /\ Stage!MinOf(v) \in Int BY <2>1, ThreeMost
    <3> HIDE DEF v
    <3>2. QED BY <3>1 DEF Stage!SvmZss, Stage!Truncated
  <2>3. zss \in Int BY <2>1, <2>2, ClampOffset
  <2>4. Stage!TableDuties(p, i)
        = [j \in 0..cells - 1 |-> IF j = 3 THEN Stage!DutyOf(zss, 0, 0)
                                  ELSE Stage!DutyOf(v[j] + zss, cfg.comp, v[j])]
    BY <1>3, Zenon DEF Stage!TableDuties
  <2> HIDE DEF v, zss
  <2>5. k # 3 => v[k] \in Int /\ v[k] + zss \in Int BY <2>1, <2>3
  <2>6. Stage!TableDuties(p, i)[k] \in 1..Stage!Full
    <3>1. CASE k = 3 BY <1>1, <2>3, <2>4, <3>1, DutyRange
    <3>2. CASE k # 3
      <4>1. Stage!DutyOf(v[k] + zss, cfg.comp, v[k]) \in 1..Stage!Full
        BY <1>0, <2>5, <3>2, DutyRange
      <4>2. QED BY <1>1, <2>4, <3>2, <4>1
    <3>3. QED BY <3>1, <3>2
  <2>7. QED BY <1>2, <2>6
<1>4. CASE ~Stage!ThreePhase(scheme)
  <2> DEFINE unit == Stage!At(IF scheme = "thipwm" THEN Flat ELSE Sine, p)
             ref == Stage!DutyOf(Stage!Scaled(unit, i),
                                 IF scheme = "level" THEN 0 ELSE cfg.comp, unit)
  <2>1. unit \in Int BY EntryTypes
  <2>2. Stage!Scaled(unit, i) \in Int BY <2>1, ScaledType
  <2>3. ref \in 1..Stage!Full BY <1>0, <2>1, <2>2, DutyRange
  <2>4. Stage!TableDuties(p, i)
        = [j \in 0..cells - 1 |->
             Stage!FinalDuty(Stage!CellDuty(scheme, ref, j, cells, cfg.near), plan[j])]
    BY <1>4, Zenon DEF Stage!TableDuties
  <2> HIDE DEF unit, ref
  <2>5. Stage!FinalDuty(Stage!CellDuty(scheme, ref, k, cells, cfg.near), plan[k])
        \in 0..Stage!Full
    BY <1>0, <2>3, CellRange
  <2>6. QED BY <1>1, <2>4, <2>5
<1>5. QED BY <1>3, <1>4

\* So does any cycle of a sequence or of samples.
LEMMA SteppedRange ==
  ASSUME Rendering, NEW unit \in Int, NEW i \in Nat, NEW k \in 0..3, k < cells
  PROVE  Stage!SteppedDuties(unit, i)[k] \in 0..Stage!Full
<1>0. cfg.comp \in Nat /\ cfg.near \in BOOLEAN /\ cells \in 1..4
  BY SettingTypes, CellCount, Zenon DEF Rendering
<1>1. k \in 0..cells - 1 BY <1>0
<1> DEFINE ref == Stage!DutyOf(Stage!Scaled(unit, i),
                               IF scheme = "level" THEN 0 ELSE cfg.comp, unit)
<1>2. Stage!Scaled(unit, i) \in Int BY ScaledType
<1>3. ref \in 1..Stage!Full BY <1>0, <1>2, DutyRange
<1>4. Stage!SteppedDuties(unit, i)
      = [j \in 0..cells - 1 |->
           Stage!FinalDuty(Stage!CellDuty(scheme, ref, j, cells, cfg.near), plan[j])]
  BY Zenon DEF Stage!SteppedDuties
<1> HIDE DEF ref
<1>5. Stage!FinalDuty(Stage!CellDuty(scheme, ref, k, cells, cfg.near), plan[k])
      \in 0..Stage!Full
  BY <1>0, <1>3, CellRange
<1>6. QED BY <1>1, <1>4, <1>5

\* A segment has a level and some cycles, a sample is a number.
LEMMA SegmentTypes ==
  /\ \A i \in 1..Len(Segments) : Segments[i].cycles \in Nat \ {0} /\ Segments[i].level \in Int
  /\ \A i \in 1..Len(Uploaded) : Uploaded[i] \in Int
<1> DEFINE S == [level : Int, cycles : Nat \ {0}]
<1>1. Segments \in Seq(S) /\ Uploaded \in Seq(Int) BY StageTypes, Zenon
<1> HIDE DEF S
<1>2. \A i \in 1..Len(Segments) : Segments[i] \in S BY <1>1, ElementOfSeq, Zenon
<1>3. \A i \in 1..Len(Uploaded) : Uploaded[i] \in Int BY <1>1, ElementOfSeq, Zenon
<1>4. QED BY <1>2, <1>3 DEF S

\* The running sum of the segments' cycles, up to the n-th.
SumsUpTo(f, n) ==
  /\ f \in [0..n -> Nat] /\ f[0] = 0
  /\ \A i \in 1..n : f[i] = f[i - 1] + Segments[i].cycles

\* There is one for every n: the smallest n without one could extend the one before it.
LEMMA SumsExist == \E f : SumsUpTo(f, Len(Segments))
<1> DEFINE N == Len(Segments)
           T == {n \in 1..N : ~\E f : SumsUpTo(f, n)}
<1>1. N \in Nat \ {0} BY StageTypes
<1>2. \A i \in 1..N : Segments[i].cycles \in Nat BY SegmentTypes
<1>3. T = {}
  <2>1. SUFFICES ASSUME T # {} PROVE FALSE OBVIOUS
  <2>2. PICK n \in T : \A y \in T : n <= y
    <3>1. T \in SUBSET (1..N) OBVIOUS
    <3> HIDE DEF T, N
    <3>2. QED BY <1>1, <2>1, <3>1, Smallest
  <2>3. n \in 1..N /\ ~\E f : SumsUpTo(f, n) BY <2>2
  <2>4. \E f : SumsUpTo(f, n - 1)
    <3>1. CASE n = 1
      <4>1. SumsUpTo([i \in 0..0 |-> 0], 0) BY DEF SumsUpTo
      <4>2. QED BY <3>1, <4>1
    <3>2. CASE n # 1
      <4>1. n - 1 \in 1..N /\ ~(n <= n - 1) BY <2>3, <3>2
      <4>2. n - 1 \notin T BY <2>2, <4>1
      <4>3. QED BY <4>1, <4>2
    <3>3. QED BY <3>1, <3>2
  <2>5. PICK f : SumsUpTo(f, n - 1) BY <2>4
  <2> DEFINE g == [i \in 0..n |-> IF i = n THEN f[n - 1] + Segments[n].cycles ELSE f[i]]
  <2>6. n \in Nat /\ n >= 1 /\ Segments[n].cycles \in Nat BY <1>1, <1>2, <2>3
  <2>7. \A i \in 0..n : i = n \/ i \in 0..n - 1 BY <2>6
  <2>8. f \in [0..n - 1 -> Nat] /\ f[0] = 0 /\ n - 1 \in 0..n - 1
    BY <2>5, <2>6 DEF SumsUpTo
  <2>9. g \in [0..n -> Nat] BY <2>6, <2>7, <2>8
  <2>10. g[0] = 0 BY <2>6, <2>8
  <2>11. ASSUME NEW i \in 1..n PROVE g[i] = g[i - 1] + Segments[i].cycles
    <3>1. CASE i = n BY <2>6, <3>1
    <3>2. CASE i # n
      <4>1. i \in 1..n - 1 /\ i \in 0..n /\ i - 1 \in 0..n /\ i - 1 # n BY <2>6, <3>2
      <4>2. f[i] = f[i - 1] + Segments[i].cycles BY <2>5, <4>1 DEF SumsUpTo
      <4>3. QED BY <3>2, <4>1, <4>2
    <3>3. QED BY <3>1, <3>2
  <2> HIDE DEF g
  <2>12. SumsUpTo(g, n) BY <2>9, <2>10, <2>11 DEF SumsUpTo
  <2>13. QED BY <2>3, <2>12
<1>4. N \in 1..N BY <1>1
<1>5. N \notin T BY <1>3
<1> HIDE DEF N
<1>6. \E f : SumsUpTo(f, N) BY <1>4, <1>5
<1>7. QED BY <1>6 DEF N

\* The cycles before a segment.
LEMMA BeforeIs == SumsUpTo(Stage!Before, Len(Segments))
<1> DEFINE N == Len(Segments)
           F(f) == [i \in 0..N |-> IF i = 0 THEN 0 ELSE f[i - 1] + Segments[i].cycles]
<1>1. N \in Nat \ {0} BY StageTypes
<1>2. PICK f : SumsUpTo(f, N) BY SumsExist
<1>3. f = F(f)
  <2>1. f \in [0..N -> Nat] /\ \A i \in 0..N : i = 0 \/ i \in 1..N BY <1>1, <1>2 DEF SumsUpTo
  <2>2. \A i \in 0..N : f[i] = F(f)[i] BY <1>2, <2>1 DEF SumsUpTo
  <2>3. QED BY <2>1, <2>2
<1>4. Stage!Before = CHOOSE h : h = F(h) BY Zenon DEF Stage!Before
<1> HIDE DEF F
<1>5. Stage!Before = F(Stage!Before) BY <1>3, <1>4, Zenon
<1> USE DEF F
<1>6. Stage!Before[0] = 0 BY <1>1, <1>5
<1>7. \A i \in 1..N : Stage!Before[i] = Stage!Before[i - 1] + Segments[i].cycles
  <2>1. TAKE i \in 1..N
  <2>2. i \in 0..N /\ i # 0 BY <1>1
  <2>3. Stage!Before[i] = F(Stage!Before)[i] BY <1>5, Zenon
  <2>4. QED BY <2>2, <2>3
<1>8. \A i \in 1..N : Stage!Before[i] \in Nat
  <2> DEFINE T == {i \in 1..N : Stage!Before[i] \notin Nat}
  <2>1. SUFFICES ASSUME T # {} PROVE FALSE OBVIOUS
  <2>2. PICK n \in T : \A y \in T : n <= y
    <3>1. T \in SUBSET (1..N) OBVIOUS
    <3> HIDE DEF T, N
    <3>2. QED BY <1>1, <2>1, <3>1, Smallest
  <2>3. n \in 1..N /\ Stage!Before[n] \notin Nat BY <2>2
  <2>4. Stage!Before[n - 1] \in Nat
    <3>1. CASE n = 1 BY <1>6, <3>1
    <3>2. CASE n # 1
      <4>1. n - 1 \in 1..N /\ ~(n <= n - 1) BY <2>3, <3>2
      <4>2. n - 1 \notin T BY <2>2, <4>1
      <4>3. QED BY <4>1, <4>2
    <3>3. QED BY <3>1, <3>2
  <2>5. Segments[n].cycles \in Nat BY <2>3, SegmentTypes
  <2>6. Stage!Before[n] = Stage!Before[n - 1] + Segments[n].cycles BY <1>7, <2>3
  <2>7. QED BY <2>3, <2>4, <2>5, <2>6
<1>9. DOMAIN Stage!Before = 0..N /\ Stage!Before = [i \in 0..N |-> Stage!Before[i]]
  BY <1>5
<1>10. \A i \in 0..N : Stage!Before[i] \in Nat
  <2>1. \A i \in 0..N : i = 0 \/ i \in 1..N BY <1>1
  <2>2. QED BY <1>6, <1>8, <2>1
<1>11. Stage!Before \in [0..N -> Nat] BY <1>9, <1>10
<1>12. QED BY <1>6, <1>7, <1>11 DEF SumsUpTo

\* It grows from segment to segment.
LEMMA BeforeGrows ==
  ASSUME NEW i \in 0..Len(Segments), NEW j \in 0..Len(Segments), i < j
  PROVE  Stage!Before[i] < Stage!Before[j]
<1> DEFINE N == Len(Segments)
           T == {n \in 1..N : i < n /\ ~(Stage!Before[i] < Stage!Before[n])}
<1>1. N \in Nat \ {0} BY StageTypes
<1>2. \A n \in 0..N : Stage!Before[n] \in Nat BY BeforeIs DEF SumsUpTo
<1>3. \A n \in 1..N : Stage!Before[n - 1] < Stage!Before[n]
  <2>1. TAKE n \in 1..N
  <2>2. n \in 0..N /\ n - 1 \in 0..N BY <1>1
  <2>3. Stage!Before[n] = Stage!Before[n - 1] + Segments[n].cycles
    BY BeforeIs, Zenon DEF SumsUpTo
  <2>4. Segments[n].cycles \in Nat \ {0} BY SegmentTypes
  <2>5. QED BY <1>2, <2>2, <2>3, <2>4
<1>4. T = {}
  <2>1. SUFFICES ASSUME T # {} PROVE FALSE OBVIOUS
  <2>2. PICK n \in T : \A y \in T : n <= y
    <3>1. T \in SUBSET (1..N) OBVIOUS
    <3> HIDE DEF T, N
    <3>2. QED BY <1>1, <2>1, <3>1, Smallest
  <2>3. n \in 1..N /\ i < n /\ ~(Stage!Before[i] < Stage!Before[n]) BY <2>2
  <2>4. n - 1 # i BY <1>3, <2>3
  <2>5. n - 1 \in 1..N /\ i < n - 1 /\ ~(n <= n - 1) /\ n \in 0..N BY <1>1, <2>3, <2>4
  <2>6. n - 1 \notin T BY <2>2, <2>5
  <2>7. Stage!Before[i] < Stage!Before[n - 1] /\ Stage!Before[n - 1] < Stage!Before[n]
    BY <1>3, <2>3, <2>5, <2>6
  <2>8. /\ Stage!Before[i] \in Nat /\ Stage!Before[n - 1] \in Nat /\ Stage!Before[n] \in Nat
    <3>1. n - 1 \in 0..N BY <1>1, <2>5
    <3>2. QED BY <1>2, <2>5, <3>1
  <2>9. QED BY <2>3, <2>7, <2>8
<1>5. j \in 1..N BY <1>1
<1>6. QED BY <1>4, <1>5

\* The level of a cycle is the level of the segment the cycle falls into.
LEMMA LevelIs ==
  ASSUME NEW s \in 1..Len(Segments), NEW m \in Nat,
         Stage!Before[s - 1] <= m, m < Stage!Before[s]
  PROVE  Stage!LevelAt(m) = Segments[s].level
<1> DEFINE N == Len(Segments)
           S == {i \in 1..N : Stage!Before[i - 1] <= m}
<1>1. N \in Nat \ {0} BY StageTypes
<1>2. \A n \in 0..N : Stage!Before[n] \in Nat BY BeforeIs DEF SumsUpTo
<1>3. s \in S OBVIOUS
<1>4. ASSUME NEW i \in S PROVE s >= i /\ i \in 1..N
  <2>1. SUFFICES ASSUME i > s PROVE FALSE BY <1>1
  <2>2. i \in 1..N /\ i - 1 \in 0..N /\ s \in 0..N /\ i - 1 >= s BY <1>1, <2>1
  <2>3. Stage!Before[i - 1] >= Stage!Before[s]
    <3>1. CASE i - 1 = s BY <1>2, <2>2, <3>1
    <3>2. CASE i - 1 # s
      <4>1. s < i - 1 BY <1>1, <2>2, <3>2
      <4>2. Stage!Before[s] < Stage!Before[i - 1] BY <2>2, <4>1, BeforeGrows
      <4>3. QED BY <1>2, <2>2, <4>2
    <3>3. QED BY <3>1, <3>2
  <2>4. Stage!Before[i - 1] <= m BY DEF S
  <2>5. QED BY <1>2, <2>2, <2>3, <2>4
<1> HIDE DEF S
<1>5. Stage!Max(S) = s
  <2>1. Stage!Max(S) = CHOOSE x \in S : \A y \in S : x >= y BY Zenon DEF Stage!Max
  <2>2. s \in S /\ \A y \in S : s >= y BY <1>3, <1>4
  <2>3. Stage!Max(S) \in S /\ \A y \in S : Stage!Max(S) >= y BY <2>1, <2>2, Zenon
  <2>4. s >= Stage!Max(S) /\ Stage!Max(S) >= s /\ Stage!Max(S) \in 1..N
    BY <1>4, <2>2, <2>3, Zenon
  <2>5. QED BY <1>1, <2>4
<1>6. Stage!LevelAt(m) = Segments[Stage!Max(S)].level BY Zenon DEF Stage!LevelAt, S
<1>7. QED BY <1>5, <1>6, Zenon

\* A cycle of the player: from segment s with r cycles left after n of them.
CycleOf(s, r, n, s2, r2, n2) ==
  /\ s \in 1..Len(Segments) /\ r \in Nat /\ n \in Nat
  /\ s2 \in Int /\ r2 \in Int /\ n2 \in Int
  /\ r <= Segments[s].cycles /\ n = Stage!Before[s] - r
  /\ s2 = IF r = 0 THEN IF s + 1 > Len(Segments) THEN 1 ELSE s + 1 ELSE s
  /\ r2 = (IF r = 0 THEN Segments[s2].cycles ELSE r) - 1
  /\ n2 = (n % Stage!Total) + 1

\* Where a cycle leaves the player: the level it showed is the level of that cycle.
PlayerAt(s, r, n) ==
  /\ s \in 1..Len(Segments) /\ r \in Nat /\ r < Segments[s].cycles
  /\ n \in Nat \ {0} /\ n = Stage!Before[s] - r
  /\ Segments[s].level = Stage!LevelAt(n - 1)

\* A cycle of the player goes on where the one before it ended, over the end of a segment
\* and of the whole sequence.
LEMMA SequenceGoesOn ==
  ASSUME NEW s, NEW r, NEW n, NEW s2, NEW r2, NEW n2, CycleOf(s, r, n, s2, r2, n2)
  PROVE  PlayerAt(s2, r2, n2)
<1>0. /\ s \in 1..Len(Segments) /\ r \in Nat /\ n \in Nat
      /\ s2 \in Int /\ r2 \in Int /\ n2 \in Int
      /\ r <= Segments[s].cycles /\ n = Stage!Before[s] - r
      /\ s2 = IF r = 0 THEN IF s + 1 > Len(Segments) THEN 1 ELSE s + 1 ELSE s
      /\ r2 = (IF r = 0 THEN Segments[s2].cycles ELSE r) - 1
      /\ n2 = (n % Stage!Total) + 1
  BY Zenon DEF CycleOf
<1> USE <1>0
<1> DEFINE N == Len(Segments)
<1>1. N \in Nat \ {0} BY StageTypes
<1>2. \A i \in 0..N : Stage!Before[i] \in Nat BY BeforeIs DEF SumsUpTo
<1>3. s2 \in 1..N BY <1>1
<1>4. Stage!Before[0] = 0 BY BeforeIs DEF SumsUpTo
<1>5. s \in 0..N /\ s - 1 \in 0..N /\ s2 \in 0..N /\ s2 - 1 \in 0..N /\ N \in 0..N /\ 0 \in 0..N
  BY <1>1, <1>3
<1>6. PICK c \in Nat \ {0} : c = Segments[s].cycles BY SegmentTypes
<1>7. PICK c2 \in Nat \ {0} : c2 = Segments[s2].cycles BY <1>3, SegmentTypes
<1>8. PICK b \in Nat : b = Stage!Before[s] BY <1>2, <1>5
<1>9. PICK b2 \in Nat : b2 = Stage!Before[s2] BY <1>2, <1>5
<1>10. PICK t \in Nat : t = Stage!Total BY <1>2, <1>5 DEF Stage!Total
<1>11. PICK a2 \in Nat : a2 = Stage!Before[s2 - 1] BY <1>2, <1>5
<1>12. b2 = a2 + c2 BY <1>3, <1>7, <1>9, <1>11, BeforeIs, Zenon DEF SumsUpTo
<1>13. b <= t /\ (s # N => b < t) /\ (s = N => b = t)
  <2>1. s # N => s < N BY <1>1, <1>5
  <2>2. s # N => Stage!Before[s] < Stage!Before[N] BY <2>1, <1>5, BeforeGrows
  <2>3. Stage!Before[N] = t BY <1>10, Zenon DEF Stage!Total
  <2>4. QED BY <1>8, <1>10, <2>2, <2>3
<1>14. b >= c /\ t >= 1
  <2>1. Stage!Before[s] = Stage!Before[s - 1] + Segments[s].cycles
    BY BeforeIs, Zenon DEF SumsUpTo
  <2>2. PICK a \in Nat : a = Stage!Before[s - 1] BY <1>2, <1>5
  <2>3. b = a + c BY <1>6, <1>8, <2>1, <2>2, Zenon
  <2>4. QED BY <1>13, <2>3
<1>15. n = b - r BY <1>8
<1>16. n2 = (n % t) + 1 BY <1>10
<1>17. n < t => n % t = n
  <2>1. t \in Nat \ {0} /\ n \in Int /\ (n < t => n \in 0..(t - 1)) BY <1>14
  <2>2. QED BY <2>1, SmallRemainder, Zenon
<1>18. t % t = 0 BY <1>14
<1>19. CASE r # 0
  <2>1. s2 = s /\ r2 = r - 1 /\ c2 = c /\ b2 = b BY <1>6, <1>7, <1>8, <1>9, <1>19
  <2>0. r <= c BY <1>6, Zenon
  <2>2. n < t BY <1>13, <1>15, <1>19
  <2>3. n2 = n + 1 BY <1>16, <1>17, <2>2
  <2>4. r2 \in Nat /\ r2 < c2 /\ n2 \in Nat \ {0} /\ n2 = b2 - r2
    <3>1. r2 \in Nat BY <1>19, <2>1
    <3>2. r2 < c2 BY <2>0, <2>1
    <3>3. n2 = b2 - r2 BY <1>15, <2>1, <2>3
    <3>4. n2 \in Nat \ {0} BY <2>3
    <3>5. QED BY <3>1, <3>2, <3>3, <3>4
  <2>5. a2 <= n2 - 1 /\ n2 - 1 < b2 /\ n2 - 1 \in Nat
    <3>1. /\ a2 \in Nat /\ b2 \in Nat /\ c2 \in Nat /\ r2 \in Nat /\ n2 \in Nat
          /\ b2 = a2 + c2 /\ r2 < c2 /\ n2 = b2 - r2
      BY <1>12, <2>4, Zenon
    <3> HIDE <1>0
    <3>2. QED BY <3>1
  <2>6. Segments[s2].level = Stage!LevelAt(n2 - 1) BY <1>3, <1>9, <1>11, <2>5, LevelIs
  <2>7. QED BY <1>3, <1>7, <1>9, <2>4, <2>6, Zenon DEF PlayerAt
<1>20. CASE r = 0
  <2>1. r2 = c2 - 1 /\ n = b BY <1>7, <1>15, <1>20
  <2>2. n2 = a2 + 1
    <3>1. CASE s = N
      <4>0. s2 = IF s + 1 > N THEN 1 ELSE s + 1 BY <1>0, <1>20, Zenon
      <4>1. s2 = 1 BY <1>1, <3>1, <4>0
      <4>2. a2 = 0 BY <1>4, <1>11, <4>1
      <4>3. n = t BY <1>13, <2>1, <3>1
      <4>4. QED BY <1>16, <1>18, <4>2, <4>3
    <3>2. CASE s # N
      <4>0. s2 = IF s + 1 > N THEN 1 ELSE s + 1 BY <1>0, <1>20, Zenon
      <4>1. s2 = s + 1 BY <1>1, <3>2, <4>0
      <4>2. a2 = b BY <1>8, <1>11, <4>1
      <4>3. n < t BY <1>13, <2>1, <3>2
      <4>4. QED BY <1>16, <1>17, <2>1, <4>2, <4>3
    <3>3. QED BY <3>1, <3>2
  <2>3. r2 \in Nat /\ r2 < c2 /\ n2 \in Nat \ {0} /\ n2 = b2 - r2 BY <1>12, <2>1, <2>2
  <2>4. a2 <= n2 - 1 /\ n2 - 1 < b2 /\ n2 - 1 \in Nat
    <3>1. /\ a2 \in Nat /\ b2 \in Nat /\ c2 \in Nat /\ r2 \in Nat /\ n2 \in Nat
          /\ b2 = a2 + c2 /\ r2 < c2 /\ n2 = b2 - r2
      BY <1>12, <2>3, Zenon
    <3> HIDE <1>0
    <3>2. QED BY <3>1
  <2>5. Segments[s2].level = Stage!LevelAt(n2 - 1) BY <1>3, <1>9, <1>11, <2>4, LevelIs
  <2>6. QED BY <1>3, <1>7, <1>9, <2>3, <2>5, Zenon DEF PlayerAt
<1>21. QED BY <1>19, <1>20

\* What the state of module 2 is made of.
StageParts ==
  /\ cfg \in Modulations \union {Stage!None} /\ denied \subseteq Stage!Cells /\ cells \in 1..4
  /\ indep \in [Stage!Cells -> BOOLEAN] /\ low \in [Stage!Cells -> BOOLEAN]
  /\ faultHigh \in [Stage!Cells -> BOOLEAN] /\ invGap \in [Stage!Cells -> Nat]
  /\ duty \in [Stage!Cells -> 0..Stage!Full]
  /\ phase \in 0..Stage!Steps - 1 /\ accum \in Nat /\ invTarget \in Nat /\ stepQ \in Nat
  /\ seqIndex \in 1..Len(Segments) /\ seqRemaining \in Nat
  /\ waveIndex \in 1..Len(Uploaded) /\ played \in Nat /\ since \in Nat

\* A leg that was to be a pair and is not one is off, and no cycle will write it: the
\* interrupt writes what the scheme drives and was not denied.
LegsInv ==
  cfg # Stage!None =>
    \A k \in Stage!Cells :
      /\ Stage!Complementary(cfg.pairs[k]) /\ indep[k] =>
           duty[k] = 0 /\ ~low[k] /\ (Stage!Active(cfg) => k \in denied \/ k >= cells)
      /\ ~indep[k] => ~low[k] /\ (cfg.pairs[k] = "half" => invGap[k] >= 1)
      /\ faultHigh[k] = low[k]

\* While a scheme runs, the plans and the polarities are the ones it asks for.
PlanInv ==
  Stage!Active(cfg) =>
    /\ Rendering
    /\ \A k \in Stage!Cells :
         /\ plan[k] = Stage!Plan(scheme, cfg.disposition, k, cells)
         /\ low[k] = (k \notin denied /\ k < cells /\ plan[k].inverted)

\* What a cycle wrote, from what it showed.
Rendered(s) == IF cfg.source = "table" THEN Stage!TableDuties(s.phase, s.index)
               ELSE Stage!SteppedDuties(s.unit, s.index)

\* The duties are those of the last cycle.
ShownInv ==
  invShown # Stage!Unseen =>
    /\ Stage!Active(cfg)
    /\ invShown.phase \in 0..Stage!Steps - 1 /\ invShown.unit \in Int
    /\ invShown.index \in Nat
    /\ \A k \in Stage!Written : duty[k] = Rendered(invShown)[k]

\* The player is where its count of cycles says, and showed what was there.
PlayInv ==
  Stage!Active(cfg) =>
    /\ cfg.source = "sequence" =>
         /\ seqRemaining <= Segments[seqIndex].cycles
         /\ played = Stage!Before[seqIndex] - seqRemaining
         /\ invShown # Stage!Unseen => invShown.unit = Stage!LevelAt(played - 1)
    /\ cfg.source = "samples" =>
         /\ played <= Len(Uploaded) /\ waveIndex = (played % Len(Uploaded)) + 1
         /\ invShown # Stage!Unseen => played >= 1 /\ invShown.unit = Uploaded[played]

\* A ramp from zero is as far as its cycles have brought it, and its step is long enough.
RampInv ==
  /\ Stage!Active(cfg) => stepQ * RampCycles >= invTarget * Fraction
  /\ since <= RampCycles =>
       accum = IF since * stepQ <= invTarget * Fraction THEN since * stepQ
               ELSE invTarget * Fraction

\* The index is never above what one of the settings asks for.
IndexInv ==
  /\ Stage!Active(cfg) => invTarget \in Stage!Indices
  /\ accum = 0 \/ \E i \in Stage!Indices : accum <= i * Fraction
  /\ invShown # Stage!Unseen => invShown.index \in Stage!Indices

\* Together they are kept by every step.
StageInv ==
  /\ StageParts /\ LegsInv /\ PlanInv /\ ShownInv /\ PlayInv /\ RampInv /\ IndexInv

\* The cells that the scheme modulates have their COMPMODE clear if they are to be pairs.
NoPairIsFixed ==
  \A c \in Modulations, k \in FixedCells :
    Stage!Active(c) /\ k < Stage!EffectiveCells(c) => ~Stage!Complementary(c.pairs[k])

\* A step configures the module, or is a cycle of its carrier.
LEMMA StageSteps ==
  [Stage!Next]_stageAll =>
    \/ \E c \in Modulations : Stage!Configure(c)
    \/ Stage!Carrier
    \/ UNCHANGED stageAll
<1> SUFFICES ASSUME [Stage!Next]_stageAll PROVE \/ \E c \in Modulations : Stage!Configure(c)
                                                \/ Stage!Carrier
                                                \/ UNCHANGED stageAll
  OBVIOUS
<1>1. Changes \subseteq Modulations BY StageTypes, Zenon
<1>2. QED BY <1>1, Zenon DEF Stage!Next

\* A step of the composition while the inverter moves is one of the inverter.
LEMMA StageMoves == Step /\ focus = "stage" => [Stage!Next]_stageAll
BY Zenon DEF Step, ServicesNext, Rest, servicesVars

\* The inverter is not configured at first.
LEMMA StageStarts == Stage!Init => StageInv
<1> SUFFICES ASSUME Stage!Init PROVE StageInv OBVIOUS
<1>1. ~Stage!Active(cfg) /\ cfg = Stage!None BY Zenon DEF Stage!Init, Stage!Active
<1>2. StageParts
  <2>1. 0 \in 0..Stage!Steps - 1 /\ 1 \in 1..Len(Segments) /\ 1 \in 1..Len(Uploaded)
        /\ 0 \in 0..Stage!Full
    <3>1. PICK n, m, o, u \in Nat \ {0} : /\ n = Stage!Steps /\ m = Len(Segments)
                                          /\ o = Len(Uploaded) /\ u = Unit
      BY StageTypes, Zenon
    <3>2. QED BY <3>1 DEF Stage!Full
  <2>2. 0 \in Nat /\ 1 \in Nat /\ 2 \in 1..4 OBVIOUS
  <2>3. QED BY <2>1, <2>2, Zenon DEF Stage!Init, StageParts
<1>3. ShownInv /\ LegsInv /\ PlanInv /\ PlayInv
  BY <1>1, Zenon DEF Stage!Init, ShownInv, LegsInv, PlanInv, PlayInv
<1>4. RampInv
  <2>1. since = 0 /\ accum = 0 /\ stepQ = 1 /\ invTarget = 0 BY Zenon DEF Stage!Init
  <2>2. since * stepQ = 0 /\ invTarget * Fraction = 0 BY <2>1, StageTypes
  <2>3. QED BY <1>1, <2>1, <2>2 DEF RampInv
<1>5. IndexInv BY <1>1, Zenon DEF IndexInv, Stage!Init
<1>6. QED BY <1>2, <1>3, <1>4, <1>5, Zenon DEF StageInv

\* Configuring a scheme sets up its reference; configuring none leaves the last one there.
LEMMA ConfigureScheme ==
  ASSUME NEW c \in Modulations, Stage!Configure(c)
  PROVE  /\ cfg' = c /\ Stage!Active(cfg)' = Stage!Active(c)
         /\ Stage!Active(c) => Stage!BuildLut(c)
         /\ ~Stage!Active(c) =>
              UNCHANGED <<scheme, cells, plan, seqIndex, seqRemaining, waveIndex, phase,
                          invTarget, stepQ>>
         /\ played' = 0 /\ accum' = accum /\ invShown' = Stage!Unseen
         /\ since' = IF accum = 0 THEN 0 ELSE RampCycles + 1
<1>1. /\ cfg' = c /\ accum' = accum /\ invShown' = Stage!Unseen
      /\ since' = IF accum = 0 THEN 0 ELSE RampCycles + 1
      /\ IF Stage!Active(c) THEN Stage!BuildLut(c)
         ELSE /\ played' = 0
              /\ UNCHANGED <<scheme, cells, plan, seqIndex, seqRemaining, waveIndex, phase,
                             invTarget, stepQ>>
  BY Zenon DEF Stage!Configure
<1>2. Stage!Active(cfg)' = Stage!Active(c) BY <1>1, Zenon DEF Stage!Active
<1>3. played' = 0 BY <1>1, Zenon DEF Stage!BuildLut
<1>4. QED BY <1>1, <1>2, <1>3, Zenon

\* The mode a cell is given, and the four of its registers that follow from it.
LEMMA ConfigureCells ==
  ASSUME NEW c \in Modulations, Stage!Configure(c),
         NEW mode4,
         mode4 = [k \in Stage!Cells |->
                    Stage!SanitisedForScheme(c.pairs[k], k, Stage!NeedsInversion(c))]
  PROVE  /\ denied' = {k \in Stage!Cells : /\ Stage!Complementary(c.pairs[k])
                                           /\ ~Stage!Complementary(mode4[k])}
         /\ low' = [k \in Stage!Cells |-> /\ k \notin denied' /\ Stage!Active(c)
                                          /\ k < cells' /\ plan'[k].inverted]
         /\ faultHigh' = low'
         /\ invGap' = [k \in Stage!Cells |-> Stage!DeadTime(mode4[k], c.dead)]
         /\ indep' = [k \in Stage!Cells |->
                        ~(Stage!Complementary(mode4[k]) /\ k \notin FixedCells)]
         /\ duty' = [k \in Stage!Cells |->
                       IF /\ Stage!Complementary(c.pairs[k])
                          /\ ~(Stage!Complementary(mode4[k]) /\ k \notin FixedCells)
                       THEN 0 ELSE c.duty]
<1>1. /\ denied' = {k \in Stage!Cells : /\ Stage!Complementary(c.pairs[k])
                                        /\ ~Stage!Complementary(mode4[k])}
      /\ low' = [k \in Stage!Cells |-> /\ k \notin denied' /\ Stage!Active(c)
                                       /\ k < cells' /\ plan'[k].inverted]
      /\ faultHigh' = low'
      /\ Stage!SetupSubmodules(c, mode4)
  BY Zenon DEF Stage!Configure
<1> DEFINE real == [k \in Stage!Cells |-> Stage!Complementary(mode4[k]) /\ k \notin FixedCells]
           off == {k \in Stage!Cells : Stage!Complementary(c.pairs[k]) /\ ~real[k]}
<1>2. /\ invGap' = [k \in Stage!Cells |-> Stage!DeadTime(mode4[k], c.dead)]
      /\ duty' = [k \in Stage!Cells |-> IF k \in off THEN 0 ELSE c.duty]
      /\ indep' = [k \in Stage!Cells |-> ~real[k]]
  BY <1>1, Zenon DEF Stage!SetupSubmodules
<1>3. \A k \in Stage!Cells :
        real[k] = (Stage!Complementary(mode4[k]) /\ k \notin FixedCells)
  BY Zenon
<1>4. \A k \in Stage!Cells :
        k \in off <=> (/\ Stage!Complementary(c.pairs[k])
                       /\ ~(Stage!Complementary(mode4[k]) /\ k \notin FixedCells))
  <2> TAKE k \in Stage!Cells
  <2>1. k \in off <=> Stage!Complementary(c.pairs[k]) /\ ~real[k] BY Zenon
  <2>2. QED BY <1>3, <2>1, Zenon
<1> HIDE DEF real, off
<1>5. QED BY <1>1, <1>2, <1>3, <1>4

\* A scheme with an opposed leg has its pairs refused.
LEMMA OpposedLegs ==
  ASSUME NEW c \in Modulations, NEW k \in Stage!Cells, k < Stage!EffectiveCells(c),
         Stage!Plan(c.scheme, c.disposition, k, Stage!EffectiveCells(c)).inverted
  PROVE  Stage!NeedsInversion(c)
<1>1. Stage!EffectiveCells(c) \in 1..4 BY CellCount
<1>2. k \in 0..Stage!EffectiveCells(c) - 1 BY <1>1 DEF Stage!Cells
<1>3. QED BY <1>2, Zenon DEF Stage!NeedsInversion

\* Configuring leaves every leg safe.
LEMMA ConfigureLegs ==
  ASSUME NEW c \in Modulations, Stage!Configure(c), NoPairIsFixed
  PROVE  LegsInv' /\ PlanInv'
<1> DEFINE mode4 == [k \in Stage!Cells |->
                       Stage!SanitisedForScheme(c.pairs[k], k, Stage!NeedsInversion(c))]
<1>1. /\ denied' = {k \in Stage!Cells : /\ Stage!Complementary(c.pairs[k])
                                        /\ ~Stage!Complementary(mode4[k])}
      /\ low' = [k \in Stage!Cells |-> /\ k \notin denied' /\ Stage!Active(c)
                                       /\ k < cells' /\ plan'[k].inverted]
      /\ faultHigh' = low'
      /\ invGap' = [k \in Stage!Cells |-> Stage!DeadTime(mode4[k], c.dead)]
      /\ indep' = [k \in Stage!Cells |->
                     ~(Stage!Complementary(mode4[k]) /\ k \notin FixedCells)]
      /\ duty' = [k \in Stage!Cells |->
                    IF /\ Stage!Complementary(c.pairs[k])
                       /\ ~(Stage!Complementary(mode4[k]) /\ k \notin FixedCells)
                    THEN 0 ELSE c.duty]
  BY ConfigureCells, Zenon
<1>2. /\ cfg' = c /\ Stage!Active(cfg)' = Stage!Active(c)
      /\ Stage!Active(c) => Stage!BuildLut(c)
  BY ConfigureScheme, Zenon
<1>3. ASSUME Stage!Active(c)
      PROVE  /\ scheme' = c.scheme /\ cells' = Stage!EffectiveCells(c)
             /\ \A k \in Stage!Cells :
                  plan'[k] = Stage!Plan(c.scheme, c.disposition, k, Stage!EffectiveCells(c))
  BY <1>2, <1>3, Zenon DEF Stage!BuildLut
<1>4. \A k \in Stage!Cells :
        mode4[k] = Stage!SanitisedForScheme(c.pairs[k], k, Stage!NeedsInversion(c))
  BY Zenon
<1> HIDE DEF mode4
<1>5. \A k \in Stage!Cells :
        /\ k \in denied' <=> (Stage!Complementary(c.pairs[k]) /\ ~Stage!Complementary(mode4[k]))
        /\ low'[k] = (/\ k \notin denied' /\ Stage!Active(c)
                      /\ k < cells' /\ plan'[k].inverted)
        /\ faultHigh'[k] = low'[k]
        /\ invGap'[k] = Stage!DeadTime(mode4[k], c.dead)
        /\ indep'[k] = ~(Stage!Complementary(mode4[k]) /\ k \notin FixedCells)
        /\ duty'[k] = IF /\ Stage!Complementary(c.pairs[k])
                         /\ ~(Stage!Complementary(mode4[k]) /\ k \notin FixedCells)
                      THEN 0 ELSE c.duty
  <2> TAKE k \in Stage!Cells
  <2>1. k \in denied' <=> Stage!Complementary(c.pairs[k]) /\ ~Stage!Complementary(mode4[k])
    BY <1>1, Zenon
  <2>2. low'[k] = (k \notin denied' /\ Stage!Active(c) /\ k < cells' /\ plan'[k].inverted)
    BY <1>1, Zenon
  <2>3. indep'[k] = ~(Stage!Complementary(mode4[k]) /\ k \notin FixedCells) BY <1>1, Zenon
  <2>4. invGap'[k] = Stage!DeadTime(mode4[k], c.dead) /\ faultHigh'[k] = low'[k]
    BY <1>1, Zenon
  <2>5. duty'[k] = IF /\ Stage!Complementary(c.pairs[k])
                      /\ ~(Stage!Complementary(mode4[k]) /\ k \notin FixedCells)
                   THEN 0 ELSE c.duty
    BY <1>1, Zenon
  <2>6. QED BY <2>1, <2>2, <2>3, <2>4, <2>5, Zenon
<1>6. \A k \in Stage!Cells :
        Stage!Complementary(mode4[k]) =>
          mode4[k] = c.pairs[k] /\ ~Stage!NeedsInversion(c)
  BY <1>4, Zenon DEF Stage!SanitisedForScheme, Stage!Complementary
<1>7. ASSUME NEW k \in Stage!Cells, Stage!Complementary(mode4[k]) PROVE ~low'[k]
  <2>1. SUFFICES ASSUME low'[k] PROVE FALSE OBVIOUS
  <2>2. Stage!Active(c) /\ k < cells' /\ plan'[k].inverted BY <1>5, <2>1, Zenon
  <2>3. Stage!NeedsInversion(c) BY <1>3, <2>2, OpposedLegs, Zenon
  <2>4. QED BY <1>6, <1>7, <2>3, Zenon
<1>8. ASSUME NEW k \in Stage!Cells
      PROVE  /\ Stage!Complementary(c.pairs[k]) /\ indep'[k] =>
                  duty'[k] = 0 /\ ~low'[k] /\ (Stage!Active(c) => k \in denied' \/ k >= cells')
             /\ ~indep'[k] => ~low'[k] /\ (c.pairs[k] = "half" => invGap'[k] >= 1)
             /\ faultHigh'[k] = low'[k]
  <2>1. ASSUME Stage!Complementary(c.pairs[k]), indep'[k]
        PROVE  duty'[k] = 0 /\ ~low'[k] /\ (Stage!Active(c) => k \in denied' \/ k >= cells')
    <3>1. CASE ~Stage!Complementary(mode4[k]) BY <1>5, <2>1, <3>1, Zenon
    <3>2. CASE Stage!Complementary(mode4[k])
      <4>1. k \in FixedCells /\ duty'[k] = 0 /\ ~low'[k] BY <1>5, <1>7, <2>1, <3>2, Zenon
      <4>2. Stage!Active(c) => ~(k < Stage!EffectiveCells(c))
        BY <2>1, <4>1, Zenon DEF NoPairIsFixed
      <4>3. Stage!EffectiveCells(c) \in Int /\ k \in Int BY CellCount DEF Stage!Cells
      <4>4. Stage!Active(c) => k >= Stage!EffectiveCells(c) BY <4>2, <4>3
      <4>5. QED BY <1>3, <4>1, <4>4, Zenon
    <3>3. QED BY <3>1, <3>2, Zenon
  <2>2. ASSUME ~indep'[k] PROVE ~low'[k] /\ (c.pairs[k] = "half" => invGap'[k] >= 1)
    <3>1. Stage!Complementary(mode4[k]) BY <1>5, <2>2, Zenon
    <3>2. ~low'[k] BY <1>7, <3>1, Zenon
    <3>3. ASSUME c.pairs[k] = "half" PROVE invGap'[k] >= 1
      <4>1. mode4[k] = "half" BY <1>6, <3>1, <3>3, Zenon
      <4>2. invGap'[k] = Stage!DeadTime("half", c.dead) BY <1>5, <4>1, Zenon
      <4>3. c.dead \in Nat BY SettingTypes
      <4>4. QED BY <4>2, <4>3 DEF Stage!DeadTime
    <3>4. QED BY <3>2, <3>3, Zenon
  <2>3. QED BY <1>5, <2>1, <2>2, Zenon
<1>9. LegsInv' BY <1>2, <1>8, Zenon DEF LegsInv
<1>10. PlanInv'
  <2>1. SUFFICES ASSUME Stage!Active(c)
                 PROVE  /\ Rendering'
                        /\ \A k \in Stage!Cells :
                             /\ plan'[k] = Stage!Plan(scheme', c.disposition, k, cells')
                             /\ low'[k] = (k \notin denied' /\ k < cells' /\ plan'[k].inverted)
    BY <1>2, Zenon DEF PlanInv
  <2>2. Rendering' BY <1>2, <1>3, <2>1, Zenon DEF Rendering
  <2>3. ASSUME NEW k \in Stage!Cells
        PROVE  /\ plan'[k] = Stage!Plan(scheme', c.disposition, k, cells')
               /\ low'[k] = (k \notin denied' /\ k < cells' /\ plan'[k].inverted)
    <3>1. plan'[k] = Stage!Plan(scheme', c.disposition, k, cells') BY <1>3, <2>1, Zenon
    <3>2. low'[k] = (/\ k \notin denied' /\ Stage!Active(c)
                     /\ k < cells' /\ plan'[k].inverted)
      BY <1>5, Zenon
    <3>3. QED BY <2>1, <3>1, <3>2, Zenon
  <2>4. QED BY <2>2, <2>3, Zenon
<1>11. QED BY <1>9, <1>10

\* A product of numbers is a number.
LEMMA Product ==
  ASSUME NEW a \in Nat, NEW b \in Nat
  PROVE  a * b \in Nat /\ 0 * a = 0
OBVIOUS

\* The step of a soft start is long enough: its cycles bring it to the goal.
LEMMA RampStepReaches ==
  ASSUME NEW goal \in Nat
  PROVE  /\ Stage!RampStep(goal) \in Nat
         /\ Stage!RampStep(goal) * RampCycles >= goal * Fraction
<1>1. PICK g \in Nat : g = goal * Fraction BY StageTypes
<1>2. PICK r \in Nat \ {0} : r = RampCycles BY StageTypes
<1>3. g + r - 1 \in Nat BY <1>1, <1>2
<1> DEFINE x == g + r - 1
<1> HIDE DEF x
<1>4. x \in Nat BY <1>3 DEF x
<1>5. x = r * (x \div r) + (x % r) /\ x \div r \in Nat /\ x % r \in 0..(r - 1)
  BY <1>2, <1>4, Quotient
<1>6. PICK q \in Nat : q = x \div r BY <1>5
<1>7. PICK m \in 0..(r - 1) : m = x % r BY <1>5
<1>8. PICK y \in Int : y = r * q OBVIOUS
<1>9. x = y + m BY <1>5, <1>6, <1>7, <1>8
<1>10. y >= g BY <1>9 DEF x
<1>11. q * r = y BY <1>8
<1>12. Stage!RampStep(goal) = q BY <1>1, <1>2, <1>6, Zenon DEF Stage!RampStep, x
<1>13. QED BY <1>1, <1>2, <1>10, <1>11, <1>12

\* Configuring leaves the player at its start and the ramp where it is.
LEMMA ConfigureRest ==
  ASSUME NEW c \in Modulations, Stage!Configure(c), StageInv
  PROVE  StageParts' /\ ShownInv' /\ PlayInv' /\ RampInv' /\ IndexInv'
<1> DEFINE mode4 == [k \in Stage!Cells |->
                       Stage!SanitisedForScheme(c.pairs[k], k, Stage!NeedsInversion(c))]
<1>1. /\ denied' = {k \in Stage!Cells : /\ Stage!Complementary(c.pairs[k])
                                        /\ ~Stage!Complementary(mode4[k])}
      /\ low' = [k \in Stage!Cells |-> /\ k \notin denied' /\ Stage!Active(c)
                                       /\ k < cells' /\ plan'[k].inverted]
      /\ faultHigh' = low'
      /\ invGap' = [k \in Stage!Cells |-> Stage!DeadTime(mode4[k], c.dead)]
      /\ indep' = [k \in Stage!Cells |->
                     ~(Stage!Complementary(mode4[k]) /\ k \notin FixedCells)]
      /\ duty' = [k \in Stage!Cells |->
                    IF /\ Stage!Complementary(c.pairs[k])
                       /\ ~(Stage!Complementary(mode4[k]) /\ k \notin FixedCells)
                    THEN 0 ELSE c.duty]
  BY ConfigureCells, Zenon
<1>2. /\ cfg' = c /\ Stage!Active(cfg)' = Stage!Active(c)
      /\ Stage!Active(c) => Stage!BuildLut(c)
      /\ ~Stage!Active(c) =>
           UNCHANGED <<scheme, cells, plan, seqIndex, seqRemaining, waveIndex, phase,
                       invTarget, stepQ>>
      /\ played' = 0 /\ accum' = accum /\ invShown' = Stage!Unseen
      /\ since' = IF accum = 0 THEN 0 ELSE RampCycles + 1
  BY ConfigureScheme, Zenon
<1>3. ASSUME Stage!Active(c)
      PROVE  /\ cells' = Stage!EffectiveCells(c) /\ phase' = 0
             /\ seqIndex' = IF c.source = "sequence" THEN 1 ELSE seqIndex
             /\ seqRemaining' = IF c.source = "sequence" THEN Segments[1].cycles
                                ELSE seqRemaining
             /\ waveIndex' = IF c.source = "samples" THEN 1 ELSE waveIndex
             /\ invTarget' = c.index /\ stepQ' = Stage!RampStep(c.index)
  BY <1>2, <1>3, Zenon DEF Stage!BuildLut
<1>4. StageParts BY Zenon DEF StageInv
<1>5. /\ c.index \in Nat /\ c.dead \in Nat /\ c.duty \in 0..Stage!Full BY SettingTypes
<1>6. /\ 1 \in 1..Len(Segments) /\ 1 \in 1..Len(Uploaded) /\ 0 \in 0..Stage!Full
      /\ 0 \in 0..Stage!Steps - 1 /\ Segments[1].cycles \in Nat
  <2>1. PICK n, m, o, u \in Nat \ {0} : /\ n = Stage!Steps /\ m = Len(Segments)
                                        /\ o = Len(Uploaded) /\ u = Unit
    BY StageTypes, Zenon
  <2>2. 1 \in 1..Len(Segments) BY <2>1
  <2>3. Segments[1].cycles \in Nat BY <2>2, SegmentTypes
  <2>4. QED BY <2>1, <2>2, <2>3 DEF Stage!Full
<1>7. Stage!RampStep(c.index) \in Nat
      /\ Stage!RampStep(c.index) * RampCycles >= c.index * Fraction
  BY <1>5, RampStepReaches
<1>8. StageParts'
  <2>1. indep' \in [Stage!Cells -> BOOLEAN] /\ low' \in [Stage!Cells -> BOOLEAN]
        /\ faultHigh' \in [Stage!Cells -> BOOLEAN]
    <3>1. low' \in [Stage!Cells -> BOOLEAN] BY <1>1, Zenon
    <3>2. indep' \in [Stage!Cells -> BOOLEAN] BY <1>1, Zenon
    <3>3. QED BY <1>1, <3>1, <3>2, Zenon
  <2>2. invGap' \in [Stage!Cells -> Nat]
    <3> HIDE DEF mode4
    <3>1. \A k \in Stage!Cells : Stage!DeadTime(mode4[k], c.dead) \in Nat
      BY <1>5 DEF Stage!DeadTime
    <3>2. QED BY <1>1, <3>1, Zenon
  <2>3. duty' \in [Stage!Cells -> 0..Stage!Full] BY <1>1, <1>5, <1>6, Zenon
  <2>4. denied' \subseteq Stage!Cells BY <1>1, Zenon
  <2>5. cells' \in 1..4 BY <1>2, <1>3, <1>4, CellCount, Zenon DEF StageParts
  <2>6. /\ phase' \in 0..Stage!Steps - 1 /\ invTarget' \in Nat /\ stepQ' \in Nat
        /\ seqIndex' \in 1..Len(Segments) /\ seqRemaining' \in Nat
        /\ waveIndex' \in 1..Len(Uploaded)
    <3>1. CASE Stage!Active(c) BY <1>3, <1>4, <1>5, <1>6, <1>7, <3>1, Zenon DEF StageParts
    <3>2. CASE ~Stage!Active(c) BY <1>2, <1>4, <3>2, Zenon DEF StageParts
    <3>3. QED BY <3>1, <3>2, Zenon
  <2>7. since' \in Nat BY <1>2, StageTypes
  <2>8. accum' \in Nat /\ played' \in Nat /\ cfg' \in Modulations \union {Stage!None}
    BY <1>2, <1>4 DEF StageParts
  <2>9. QED BY <2>1, <2>2, <2>3, <2>4, <2>5, <2>6, <2>7, <2>8, Zenon DEF StageParts
<1> HIDE DEF mode4
<1>9. ShownInv' BY <1>2, Zenon DEF ShownInv
<1>10. PlayInv'
  <2>1. SUFFICES ASSUME Stage!Active(c)
                 PROVE  /\ c.source = "sequence" =>
                             /\ seqRemaining' <= Segments[seqIndex'].cycles
                             /\ played' = Stage!Before[seqIndex'] - seqRemaining'
                        /\ c.source = "samples" =>
                             /\ played' <= Len(Uploaded)
                             /\ waveIndex' = (played' % Len(Uploaded)) + 1
    BY <1>2, Zenon DEF PlayInv
  <2>2. ASSUME c.source = "sequence"
        PROVE  /\ seqRemaining' <= Segments[seqIndex'].cycles
               /\ played' = Stage!Before[seqIndex'] - seqRemaining'
    <3>1. seqIndex' = 1 /\ seqRemaining' = Segments[1].cycles BY <1>3, <2>1, <2>2, Zenon
    <3>2. Stage!Before[1] = Stage!Before[1 - 1] + Segments[1].cycles /\ Stage!Before[0] = 0
      BY <1>6, BeforeIs, Zenon DEF SumsUpTo
    <3>3. Stage!Before[1] = Segments[1].cycles BY <1>6, <3>2
    <3>4. QED BY <1>2, <1>6, <3>1, <3>3
  <2>3. ASSUME c.source = "samples"
        PROVE  played' <= Len(Uploaded) /\ waveIndex' = (played' % Len(Uploaded)) + 1
    <3>1. waveIndex' = 1 /\ played' = 0 BY <1>2, <1>3, <2>1, <2>3, Zenon
    <3>2. PICK n \in Nat \ {0} : n = Len(Uploaded) BY StageTypes, Zenon
    <3>3. 0 % n = 0 BY <3>2
    <3>4. QED BY <3>1, <3>2, <3>3
  <2>4. QED BY <2>2, <2>3, Zenon
<1>11. RampInv'
  <2>1. Stage!Active(c) => stepQ' * RampCycles >= invTarget' * Fraction
    BY <1>3, <1>7, Zenon
  <2>2. ASSUME since' <= RampCycles
        PROVE  accum' = IF since' * stepQ' <= invTarget' * Fraction THEN since' * stepQ'
                        ELSE invTarget' * Fraction
    <3>1. accum = 0 /\ since' = 0
      <4>1. PICK r \in Nat : r = RampCycles BY StageTypes
      <4>2. QED BY <1>2, <2>2, <4>1
    <3>2. PICK q, t, f \in Nat : q = stepQ' /\ t = invTarget' /\ f = Fraction
      <4>1. invTarget' \in Nat /\ stepQ' \in Nat BY <1>8, Zenon DEF StageParts
      <4>2. Fraction \in Nat BY StageTypes
      <4>3. QED BY <4>1, <4>2, Zenon
    <3>3. 0 * q = 0 /\ t * f \in Nat BY Product, Zenon
    <3>4. since' * stepQ' = 0 /\ invTarget' * Fraction \in Nat BY <3>1, <3>2, <3>3, Zenon
    <3>5. since' * stepQ' <= invTarget' * Fraction BY <3>4
    <3>6. accum' = since' * stepQ' BY <1>2, <3>1, <3>4, Zenon
    <3>7. QED BY <3>5, <3>6, Zenon
  <2>3. QED BY <1>2, <2>1, <2>2, Zenon DEF RampInv
<1>12. IndexInv'
  <2>1. c.index \in Stage!Indices
    <3>1. c.index \in 0..c.index BY <1>5
    <3>2. QED BY <3>1, Zenon DEF Stage!Indices
  <2>2. Stage!Active(c) => invTarget' \in Stage!Indices BY <1>3, <2>1, Zenon
  <2>3. accum' = 0 \/ \E i \in Stage!Indices : accum' <= i * Fraction
    BY <1>2, Zenon DEF StageInv, IndexInv
  <2>4. (Stage!Indices)' = Stage!Indices BY Zenon DEF Stage!Indices
  <2>5. QED BY <1>2, <2>2, <2>3, <2>4, Zenon DEF IndexInv
<1>13. QED BY <1>8, <1>9, <1>10, <1>11, <1>12

\* What a cycle makes of the last one's rendering depends on nothing it changes.
LEMMA RenderedStays ==
  ASSUME UNCHANGED <<cfg, scheme, cells, plan>>
  PROVE  Rendered(invShown)' = Rendered(invShown')
<1>1. cfg' = cfg /\ scheme' = scheme /\ cells' = cells /\ plan' = plan OBVIOUS
<1>2. Stage!TableDuties(invShown.phase, invShown.index)'
      = Stage!TableDuties(invShown'.phase, invShown'.index)
  BY <1>1, Zenon DEF Stage!TableDuties
<1>3. Stage!SteppedDuties(invShown.unit, invShown.index)'
      = Stage!SteppedDuties(invShown'.unit, invShown'.index)
  BY <1>1, Zenon DEF Stage!SteppedDuties
<1>4. QED BY <1>1, <1>2, <1>3, Zenon DEF Rendered

\* A cycle moves the ramp, the table and the player, and writes what it renders of them.
LEMMA CarrierShape ==
  ASSUME StageInv, Stage!Carrier
  PROVE  /\ Stage!Active(cfg) /\ Stage!Active(cfg)'
         /\ cfg' = cfg /\ plan' = plan /\ scheme' = scheme /\ cells' = cells
         /\ denied' = denied /\ indep' = indep /\ invGap' = invGap /\ low' = low
         /\ faultHigh' = faultHigh /\ invTarget' = invTarget /\ stepQ' = stepQ
         /\ accum' = Stage!Ramped(accum, invTarget, stepQ)
         /\ phase' = (phase + Advance) % Stage!Steps
         /\ since' = IF since < RampCycles THEN since + 1 ELSE since
         /\ invShown'.phase = phase /\ invShown'.index = accum' \div Fraction
         /\ duty' = [k \in Stage!Cells |-> IF k \in Stage!Written THEN Rendered(invShown')[k]
                                          ELSE duty[k]]
<1>1. /\ Stage!Active(cfg) /\ accum' = Stage!Ramped(accum, invTarget, stepQ)
      /\ phase' = (phase + Advance) % Stage!Steps
      /\ since' = IF since < RampCycles THEN since + 1 ELSE since
      /\ UNCHANGED <<cfg, plan, scheme, cells, denied, indep, invGap, low, faultHigh, invTarget,
                     stepQ>>
  BY Zenon DEF Stage!Carrier
<1>2. cfg' = cfg BY <1>1, Zenon
<1>3. Stage!Active(cfg)' BY <1>1, <1>2, Zenon DEF Stage!Active
<1>4. \/ /\ cfg.source = "table"
         /\ Stage!Render(Stage!TableDuties(phase, accum' \div Fraction), 0)
      \/ /\ cfg.source = "sequence"
         /\ Stage!Render(Stage!SteppedDuties(Segments[seqIndex'].level, accum' \div Fraction),
                         Segments[seqIndex'].level)
      \/ /\ cfg.source = "samples"
         /\ Stage!Render(Stage!SteppedDuties(Uploaded[waveIndex], accum' \div Fraction),
                         Uploaded[waveIndex])
  BY Zenon DEF Stage!Carrier
<1>5. ASSUME NEW D, NEW u, Stage!Render(D, u)
      PROVE  /\ invShown' = [phase |-> phase, unit |-> u, index |-> accum' \div Fraction]
             /\ duty' = [k \in Stage!Cells |-> IF k \in Stage!Written THEN D[k] ELSE duty[k]]
             /\ invShown'.phase = phase /\ invShown'.unit = u
             /\ invShown'.index = accum' \div Fraction
  <2>1. /\ invShown' = [phase |-> phase, unit |-> u, index |-> accum' \div Fraction]
        /\ duty' = [k \in Stage!Cells |-> IF k \in Stage!Written THEN D[k] ELSE duty[k]]
    BY <1>5, Zenon DEF Stage!Render
  <2>2. QED BY <2>1
<1>6. CASE /\ cfg.source = "table"
           /\ Stage!Render(Stage!TableDuties(phase, accum' \div Fraction), 0)
  <2>1. Rendered(invShown') = Stage!TableDuties(phase, accum' \div Fraction)
    BY <1>5, <1>6, Zenon DEF Rendered
  <2>2. QED BY <1>1, <1>2, <1>3, <1>5, <1>6, <2>1, Zenon
<1>7. ASSUME NEW u, cfg.source # "table",
             Stage!Render(Stage!SteppedDuties(u, accum' \div Fraction), u)
      PROVE  /\ Rendered(invShown') = Stage!SteppedDuties(u, accum' \div Fraction)
             /\ duty' = [k \in Stage!Cells |-> IF k \in Stage!Written THEN Rendered(invShown')[k]
                                              ELSE duty[k]]
             /\ invShown'.phase = phase /\ invShown'.index = accum' \div Fraction
  <2>1. Rendered(invShown') = Stage!SteppedDuties(u, accum' \div Fraction)
    BY <1>5, <1>7, Zenon DEF Rendered
  <2>2. QED BY <1>5, <1>7, <2>1, Zenon
<1>8. "sequence" # "table" /\ "samples" # "table" OBVIOUS
<1>9. CASE /\ cfg.source = "sequence"
           /\ Stage!Render(Stage!SteppedDuties(Segments[seqIndex'].level, accum' \div Fraction),
                           Segments[seqIndex'].level)
  <2>1. QED BY <1>1, <1>2, <1>3, <1>7, <1>8, <1>9, Zenon
<1>10. CASE /\ cfg.source = "samples"
            /\ Stage!Render(Stage!SteppedDuties(Uploaded[waveIndex], accum' \div Fraction),
                            Uploaded[waveIndex])
  <2>1. QED BY <1>1, <1>2, <1>3, <1>7, <1>8, <1>10, Zenon
<1>11. QED BY <1>4, <1>6, <1>9, <1>10, Zenon

\* A ramp stays between where it was and where it goes.
LEMMA RampedBetween ==
  ASSUME NEW a \in Nat, NEW goal \in Nat, NEW by \in Nat
  PROVE  /\ Stage!Ramped(a, goal, by) \in Nat
         /\ Stage!Ramped(a, goal, by) <= a \/ Stage!Ramped(a, goal, by) <= goal * Fraction
         /\ a <= goal * Fraction =>
              Stage!Ramped(a, goal, by)
              = IF a + by <= goal * Fraction THEN a + by ELSE goal * Fraction
<1>1. goal * Fraction \in Nat BY Product, StageTypes
<1> DEFINE end == goal * Fraction
<1> HIDE DEF end
<1>2. end \in Nat BY <1>1 DEF end
<1>3. Stage!Ramped(a, goal, by)
      = CASE a < end -> IF end - a > by THEN a + by ELSE end
          [] a > end -> IF a - end > by THEN a - by ELSE end
          [] OTHER -> a
  BY Zenon DEF Stage!Ramped, end
<1>4. /\ Stage!Ramped(a, goal, by) \in Nat
      /\ Stage!Ramped(a, goal, by) <= a \/ Stage!Ramped(a, goal, by) <= end
      /\ a <= end => Stage!Ramped(a, goal, by) = IF a + by <= end THEN a + by ELSE end
  BY <1>2, <1>3
<1>5. QED BY <1>4 DEF end

\* A cycle keeps the ramp on its way.
LEMMA CarrierRamp ==
  ASSUME StageInv, Stage!Carrier
  PROVE  /\ RampInv' /\ IndexInv' /\ accum' \in Nat /\ since' \in Nat
         /\ invShown'.index \in Nat
<1>1. /\ Stage!Active(cfg) /\ Stage!Active(cfg)'
      /\ invTarget' = invTarget /\ stepQ' = stepQ
      /\ accum' = Stage!Ramped(accum, invTarget, stepQ)
      /\ since' = IF since < RampCycles THEN since + 1 ELSE since
      /\ invShown'.index = accum' \div Fraction
  BY CarrierShape, Zenon
<1>2. PICK a, t, q, s \in Nat : a = accum /\ t = invTarget /\ q = stepQ /\ s = since
  BY Zenon DEF StageInv, StageParts
<1>3. PICK f, r \in Nat \ {0} : f = Fraction /\ r = RampCycles BY StageTypes, Zenon
<1>4. /\ q * r >= t * f
      /\ s <= r => a = IF s * q <= t * f THEN s * q ELSE t * f
      /\ invTarget \in Stage!Indices
      /\ accum = 0 \/ \E i \in Stage!Indices : accum <= i * Fraction
  BY <1>1, <1>2, <1>3, Zenon DEF StageInv, RampInv, IndexInv
<1>5. PICK g, m, w, z \in Nat : g = t * f /\ m = q * r /\ w = s * q /\ z = (s + 1) * q
  <2>1. s + 1 \in Nat OBVIOUS
  <2>2. t * f \in Nat /\ q * r \in Nat /\ s * q \in Nat /\ (s + 1) * q \in Nat
    BY <2>1, Product
  <2>3. QED BY <2>2, Zenon
<1>6. z = w + q /\ (s = r => w = m)
  <2>1. (s + 1) * q = s * q + q OBVIOUS
  <2>2. s = r => s * q = q * r OBVIOUS
  <2>3. QED BY <1>5, <2>1, <2>2, Zenon
<1>7. PICK b \in Nat : b = accum' BY <1>1, <1>2, RampedBetween
<1>8. /\ b <= a \/ b <= g
      /\ a <= g => b = IF a + q <= g THEN a + q ELSE g
  <2>1. b = Stage!Ramped(a, t, q) BY <1>1, <1>2, <1>7, Zenon
  <2>2. g = t * Fraction BY <1>3, <1>5, Zenon
  <2>3. /\ Stage!Ramped(a, t, q) <= a \/ Stage!Ramped(a, t, q) <= t * Fraction
        /\ a <= t * Fraction =>
             Stage!Ramped(a, t, q) = IF a + q <= t * Fraction THEN a + q ELSE t * Fraction
    BY RampedBetween, Zenon
  <2>4. QED BY <2>1, <2>2, <2>3, Zenon
<1>9. since' \in Nat BY <1>1, <1>2, <1>3
<1>10. RampInv'
  <2>1. stepQ' * RampCycles >= invTarget' * Fraction BY <1>1, <1>2, <1>3, <1>4, Zenon
  <2>2. ASSUME since' <= RampCycles
        PROVE  accum' = IF since' * stepQ' <= invTarget' * Fraction THEN since' * stepQ'
                        ELSE invTarget' * Fraction
    <3>1. s <= r BY <1>1, <1>2, <1>3, <2>2
    <3>2. a = IF w <= g THEN w ELSE g BY <1>4, <1>5, <3>1, Zenon
    <3>3. CASE s < r
      <4>1. since' * stepQ' = z /\ invTarget' * Fraction = g
        BY <1>1, <1>2, <1>3, <1>5, <3>3, Zenon
      <4>2. b = IF z <= g THEN z ELSE g BY <1>6, <1>8, <3>2
      <4>3. QED BY <1>7, <4>1, <4>2, Zenon
    <3>4. CASE s = r
      <4>0. ~(s < r) BY <3>4
      <4>1. since' * stepQ' = w /\ invTarget' * Fraction = g
        BY <1>1, <1>2, <1>3, <1>5, <4>0, Zenon
      <4>2. w >= g BY <1>4, <1>5, <1>6, <3>4
      <4>3. b = IF w <= g THEN w ELSE g BY <1>8, <3>2, <4>2
      <4>4. QED BY <1>7, <4>1, <4>3, Zenon
    <3>5. QED BY <3>1, <3>3, <3>4
  <2>3. QED BY <2>1, <2>2, Zenon DEF RampInv
<1>11. (Stage!Indices)' = Stage!Indices BY Zenon DEF Stage!Indices
<1>12. /\ accum' = 0 \/ \E i \in Stage!Indices : accum' <= i * Fraction
       /\ \E i \in Stage!Indices : accum' <= i * Fraction
  <2>1. t \in Stage!Indices /\ invTarget = t BY <1>2, <1>4, Zenon
  <2>2. CASE b <= g BY <1>3, <1>5, <1>7, <2>1, <2>2, Zenon
  <2>3. CASE b <= a /\ a = 0
    <3>1. b <= g BY <2>3
    <3>2. QED BY <1>3, <1>5, <1>7, <2>1, <3>1, Zenon
  <2>4. CASE b <= a /\ a # 0
    <3>1. PICK i \in Stage!Indices : accum <= i * Fraction BY <1>2, <1>4, <2>4, Zenon
    <3>2. i \in Nat BY SettingTypes DEF Stage!Indices
    <3>3. PICK x \in Nat : x = i * Fraction BY <1>3, <3>2, Product
    <3>4. b <= x BY <1>2, <2>4, <3>1, <3>3
    <3>5. QED BY <1>7, <3>3, <3>4, Zenon
  <2>5. QED BY <1>8, <2>2, <2>3, <2>4, Zenon
<1>13. invShown'.index \in Nat /\ invShown'.index \in Stage!Indices
  <2>1. PICK i \in Stage!Indices : accum' <= i * Fraction BY <1>12
  <2>2. PICK c \in Modulations : i \in 0..c.index BY Zenon DEF Stage!Indices
  <2>3. PICK n \in Nat : n = c.index BY SettingTypes
  <2>4. i \in 0..n BY <2>2, <2>3
  <2>5. PICK x \in Nat : x = i * f BY <2>4, Product
  <2>6. b <= x BY <1>3, <1>7, <2>1, <2>5
  <2>7. b = f * (b \div f) + (b % f) /\ b \div f \in Nat /\ b % f \in 0..(f - 1) BY Quotient
  <2>8. PICK d \in Nat : d = b \div f BY <2>7
  <2>9. d <= i
    <3>1. SUFFICES ASSUME d >= i + 1 PROVE FALSE BY <2>4, <2>8
    <3>2. PICK e \in Nat : d = i + 1 + e
      <4>1. d - (i + 1) \in Nat BY <2>4, <3>1
      <4>2. d = i + 1 + (d - (i + 1)) BY <2>4
      <4>3. QED BY <4>1, <4>2
    <3>3. PICK y \in Nat : y = e * f BY Product
    <3>4. f * d = x + f + y
      <4>1. f * (i + 1 + e) = i * f + f + e * f BY <2>4
      <4>2. QED BY <2>5, <3>2, <3>3, <4>1
    <3>5. b >= f * d BY <2>7, <2>8
    <3>6. QED BY <2>6, <3>4, <3>5
  <2>10. d \in 0..n BY <2>4, <2>9
  <2>11. invShown'.index = d BY <1>1, <1>3, <1>7, <2>8, Zenon
  <2>12. QED BY <2>2, <2>3, <2>10, <2>11, Zenon DEF Stage!Indices
<1>14. IndexInv' BY <1>1, <1>4, <1>11, <1>12, <1>13, Zenon DEF IndexInv
<1>15. QED BY <1>7, <1>9, <1>10, <1>13, <1>14

\* The player of a sequence or of samples goes on by a cycle.
LEMMA CarrierPlays ==
  ASSUME StageInv, Stage!Carrier
  PROVE  /\ PlayInv' /\ invShown'.unit \in Int
         /\ seqIndex' \in 1..Len(Segments) /\ seqRemaining' \in Nat
         /\ waveIndex' \in 1..Len(Uploaded) /\ played' \in Nat
<1>1. /\ Stage!Active(cfg) /\ Stage!Active(cfg)' /\ cfg' = cfg
      /\ seqIndex \in 1..Len(Segments) /\ seqRemaining \in Nat
      /\ waveIndex \in 1..Len(Uploaded) /\ played \in Nat
  BY CarrierShape, Zenon DEF StageInv, StageParts
<1>2. \/ /\ cfg.source = "table"
         /\ Stage!Render(Stage!TableDuties(phase, accum' \div Fraction), 0)
         /\ UNCHANGED <<seqIndex, seqRemaining, waveIndex, played>>
      \/ /\ cfg.source = "sequence"
         /\ seqIndex' = IF seqRemaining = 0 THEN Stage!NextSegment ELSE seqIndex
         /\ seqRemaining' = (IF seqRemaining = 0 THEN Segments[seqIndex'].cycles
                                                  ELSE seqRemaining) - 1
         /\ Stage!Render(Stage!SteppedDuties(Segments[seqIndex'].level, accum' \div Fraction),
                         Segments[seqIndex'].level)
         /\ played' = (played % Stage!Total) + 1
         /\ UNCHANGED waveIndex
      \/ /\ cfg.source = "samples"
         /\ waveIndex' = IF waveIndex + 1 > Len(Uploaded) THEN 1 ELSE waveIndex + 1
         /\ Stage!Render(Stage!SteppedDuties(Uploaded[waveIndex], accum' \div Fraction),
                         Uploaded[waveIndex])
         /\ played' = (played % Len(Uploaded)) + 1
         /\ UNCHANGED <<seqIndex, seqRemaining>>
  BY Zenon DEF Stage!Carrier
<1>3. ASSUME NEW D, NEW u, Stage!Render(D, u) PROVE invShown'.unit = u
  <2>1. invShown' = [phase |-> phase, unit |-> u, index |-> accum' \div Fraction]
    BY <1>3, Zenon DEF Stage!Render
  <2>2. QED BY <2>1
<1>4. "sequence" # "table" /\ "samples" # "table" /\ "sequence" # "samples" OBVIOUS
<1>5. CASE /\ cfg.source = "table"
           /\ Stage!Render(Stage!TableDuties(phase, accum' \div Fraction), 0)
           /\ UNCHANGED <<seqIndex, seqRemaining, waveIndex, played>>
  <2>1. PlayInv' BY <1>1, <1>4, <1>5, Zenon DEF PlayInv
  <2>2. invShown'.unit = 0 BY <1>3, <1>5, Zenon
  <2>3. invShown'.unit \in Int BY <2>2
  <2>4. QED BY <1>1, <1>5, <2>1, <2>3, Zenon
<1>6. CASE /\ cfg.source = "sequence"
           /\ seqIndex' = IF seqRemaining = 0 THEN Stage!NextSegment ELSE seqIndex
           /\ seqRemaining' = (IF seqRemaining = 0 THEN Segments[seqIndex'].cycles
                                                    ELSE seqRemaining) - 1
           /\ Stage!Render(Stage!SteppedDuties(Segments[seqIndex'].level,
                                               accum' \div Fraction),
                           Segments[seqIndex'].level)
           /\ played' = (played % Stage!Total) + 1
           /\ UNCHANGED waveIndex
  <2>1. /\ seqRemaining <= Segments[seqIndex].cycles
        /\ played = Stage!Before[seqIndex] - seqRemaining
    BY <1>1, <1>6, Zenon DEF StageInv, PlayInv
  <2>2. seqIndex' = IF seqRemaining = 0
                    THEN IF seqIndex + 1 > Len(Segments) THEN 1 ELSE seqIndex + 1
                    ELSE seqIndex
    BY <1>6, Zenon DEF Stage!NextSegment
  <2>3. PICK s \in 1..Len(Segments), r, n \in Nat :
          s = seqIndex /\ r = seqRemaining /\ n = played
    BY <1>1, Zenon
  <2>4. s + 1 \in Int /\ s \in Int /\ 1 \in Int BY StageTypes
  <2>5. PICK s2 \in Int :
          /\ s2 = seqIndex'
          /\ s2 = IF r = 0 THEN IF s + 1 > Len(Segments) THEN 1 ELSE s + 1 ELSE s
    BY <2>2, <2>3, <2>4, Zenon
  <2>6. s2 \in 1..Len(Segments)
    <3>1. PICK m \in Nat \ {0} : m = Len(Segments) BY StageTypes, Zenon
    <3>2. QED BY <2>5, <3>1
  <2>7. (IF r = 0 THEN Segments[s2].cycles ELSE r) - 1 \in Int
    <3>1. Segments[s2].cycles \in Nat BY <2>6, SegmentTypes
    <3>2. QED BY <3>1
  <2>8. PICK r2 \in Int : /\ r2 = seqRemaining'
                          /\ r2 = (IF r = 0 THEN Segments[s2].cycles ELSE r) - 1
    BY <1>6, <2>3, <2>5, <2>7, Zenon
  <2>9. Stage!Total \in Nat \ {0}
    <3>1. PICK m \in Nat \ {0} : m = Len(Segments) BY StageTypes, Zenon
    <3>2. 0 \in 0..Len(Segments) /\ Len(Segments) \in 0..Len(Segments) /\ 0 < Len(Segments)
      BY <3>1
    <3>3. /\ Stage!Before[0] < Stage!Before[Len(Segments)]
          /\ Stage!Before[0] \in Nat /\ Stage!Before[Len(Segments)] \in Nat
      BY <3>2, BeforeGrows, BeforeIs DEF SumsUpTo
    <3>4. QED BY <3>3 DEF Stage!Total
  <2>10. (n % Stage!Total) + 1 \in Int
    <3>1. n % Stage!Total \in 0..(Stage!Total - 1) BY <2>9, Quotient
    <3>2. QED BY <2>9, <3>1
  <2>11. PICK n2 \in Int : n2 = played' /\ n2 = (n % Stage!Total) + 1
    BY <1>6, <2>3, <2>10, Zenon
  <2>12. /\ s2 \in 1..Len(Segments) /\ r2 \in Nat /\ r2 < Segments[s2].cycles
         /\ n2 \in Nat \ {0} /\ n2 = Stage!Before[s2] - r2
         /\ Segments[s2].level = Stage!LevelAt(n2 - 1)
    <3>1. r <= Segments[s].cycles /\ n = Stage!Before[s] - r BY <2>1, <2>3, Zenon
    <3>2. CycleOf(s, r, n, s2, r2, n2)
      BY <2>3, <2>5, <2>8, <2>11, <3>1, Zenon DEF CycleOf
    <3>3. PlayerAt(s2, r2, n2) BY <3>2, SequenceGoesOn, Zenon
    <3>4. QED BY <3>3, Zenon DEF PlayerAt
  <2>13. invShown'.unit = Segments[s2].level BY <1>3, <1>6, <2>5, Zenon
  <2>14. invShown'.unit \in Int BY <2>12, <2>13, SegmentTypes
  <2>15. r2 <= Segments[s2].cycles
    <3>1. PICK m \in Nat : m = Segments[s2].cycles BY <2>12, SegmentTypes
    <3>2. QED BY <2>12, <3>1
  <2>16. Stage!LevelAt(played - 1)' = Stage!LevelAt(played' - 1) BY Zenon DEF Stage!LevelAt
  <2>17. PlayInv'
    BY <1>1, <1>4, <1>6, <2>5, <2>8, <2>11, <2>12, <2>13, <2>15, <2>16, Zenon DEF PlayInv
  <2>18. n2 \in Nat BY <2>12
  <2>19. QED BY <1>1, <1>6, <2>5, <2>8, <2>11, <2>12, <2>14, <2>17, <2>18, Zenon
<1>7. CASE /\ cfg.source = "samples"
           /\ waveIndex' = IF waveIndex + 1 > Len(Uploaded) THEN 1 ELSE waveIndex + 1
           /\ Stage!Render(Stage!SteppedDuties(Uploaded[waveIndex], accum' \div Fraction),
                           Uploaded[waveIndex])
           /\ played' = (played % Len(Uploaded)) + 1
           /\ UNCHANGED <<seqIndex, seqRemaining>>
  <2>1. played <= Len(Uploaded) /\ waveIndex = (played % Len(Uploaded)) + 1
    BY <1>1, <1>7, Zenon DEF StageInv, PlayInv
  <2>2. PICK m \in Nat \ {0} : m = Len(Uploaded) BY StageTypes, Zenon
  <2>3. PICK w \in 1..m, n \in Nat : w = waveIndex /\ n = played BY <1>1, <2>2, Zenon
  <2>4. played' = w BY <1>7, <2>1, <2>3, Zenon
  <2>5. waveIndex' = IF w + 1 > m THEN 1 ELSE w + 1 BY <1>7, <2>2, <2>3, Zenon
  <2>6. waveIndex' = (w % m) + 1
    <3>1. CASE w = m
      <4>1. w % m = 0 BY <2>2, <3>1
      <4>2. QED BY <2>2, <2>5, <3>1, <4>1
    <3>2. CASE w # m
      <4>1. w \in 0..m - 1 BY <2>2, <2>3, <3>2
      <4>2. w % m = w BY <4>1, SmallRemainder
      <4>3. QED BY <2>2, <2>5, <4>1, <4>2
    <3>3. QED BY <3>1, <3>2
  <2>7. waveIndex' \in 1..m BY <2>2, <2>5
  <2>8. invShown'.unit = Uploaded[w] BY <1>3, <1>7, <2>3, Zenon
  <2>9. invShown'.unit \in Int BY <2>2, <2>8, SegmentTypes
  <2>10. w <= m /\ w >= 1 /\ w \in Nat BY <2>2
  <2>11. PlayInv' BY <1>1, <1>4, <1>7, <2>2, <2>4, <2>6, <2>8, <2>10, Zenon DEF PlayInv
  <2>12. QED BY <1>1, <1>7, <2>2, <2>4, <2>7, <2>9, <2>10, <2>11, Zenon
<1>8. QED BY <1>2, <1>5, <1>6, <1>7, Zenon

\* What a cycle writes is a duty, in the cells it may write.
LEMMA CarrierWrites ==
  ASSUME StageInv, Stage!Carrier
  PROVE  /\ Stage!Written \subseteq Stage!Cells
         /\ \A k \in Stage!Written : Rendered(invShown')[k] \in 0..Stage!Full /\ k < cells
         /\ \A k \in Stage!Written : k \notin denied
<1>1. Stage!Active(cfg) /\ invShown'.phase = phase BY CarrierShape, Zenon
<1>2. Rendering BY <1>1, Zenon DEF StageInv, PlanInv
<1>3. cells \in 1..4 BY Zenon DEF StageInv, StageParts
<1>4. \A k \in Stage!Written : k \in 0..3 /\ k \in Stage!Cells /\ k < cells /\ k \notin denied
  BY <1>3 DEF Stage!Written, Stage!Cells
<1>5. invShown'.unit \in Int BY CarrierPlays, Zenon
<1>6. invShown'.index \in Nat BY CarrierRamp, Zenon
<1>7. invShown'.phase \in Nat
  <2>1. phase \in 0..Stage!Steps - 1 BY Zenon DEF StageInv, StageParts
  <2>2. phase \in Nat BY <2>1, StageTypes
  <2>3. QED BY <1>1, <2>2, Zenon
<1>8. ASSUME NEW k \in Stage!Written PROVE Rendered(invShown')[k] \in 0..Stage!Full
  <2>1. k \in 0..3 /\ k < cells BY <1>4, Zenon
  <2>2. PICK p \in Nat, i \in Nat, u \in Int :
          p = invShown'.phase /\ i = invShown'.index /\ u = invShown'.unit
    BY <1>5, <1>6, <1>7, Zenon
  <2>3. Stage!TableDuties(p, i)[k] \in 0..Stage!Full BY <1>2, <2>1, TableRange
  <2>4. Stage!SteppedDuties(u, i)[k] \in 0..Stage!Full BY <1>2, <2>1, SteppedRange
  <2>5. QED BY <2>2, <2>3, <2>4, Zenon DEF Rendered
<1>9. QED BY <1>4, <1>8, Zenon

\* A cycle leaves the legs safe and the duties those it shows.
LEMMA CarrierStep ==
  ASSUME StageInv, Stage!Carrier
  PROVE  StageInv'
<1>1. /\ Stage!Active(cfg) /\ Stage!Active(cfg)'
      /\ cfg' = cfg /\ plan' = plan /\ scheme' = scheme /\ cells' = cells
      /\ denied' = denied /\ indep' = indep /\ invGap' = invGap /\ low' = low
      /\ faultHigh' = faultHigh /\ invTarget' = invTarget /\ stepQ' = stepQ
      /\ phase' = (phase + Advance) % Stage!Steps
      /\ invShown'.phase = phase
      /\ duty' = [k \in Stage!Cells |-> IF k \in Stage!Written THEN Rendered(invShown')[k]
                                       ELSE duty[k]]
  BY CarrierShape, Zenon
<1>2. /\ Stage!Written \subseteq Stage!Cells
      /\ \A k \in Stage!Written : Rendered(invShown')[k] \in 0..Stage!Full /\ k < cells
      /\ \A k \in Stage!Written : k \notin denied
  BY CarrierWrites, Zenon
<1>3. PlayInv' /\ RampInv' /\ IndexInv' BY CarrierPlays, CarrierRamp, Zenon
<1>4. StageParts /\ LegsInv /\ PlanInv BY Zenon DEF StageInv
<1>5. cfg \in Modulations BY <1>1, <1>4, Zenon DEF PlanInv, Rendering
<1>6. phase \in 0..Stage!Steps - 1 /\ phase' \in 0..Stage!Steps - 1
  <2>1. PICK n \in Nat \ {0}, v \in Nat : n = Stage!Steps /\ v = Advance BY StageTypes, Zenon
  <2>2. phase \in 0..n - 1 BY <1>4, <2>1, Zenon DEF StageParts
  <2>3. phase + v \in Nat BY <2>1, <2>2
  <2>4. (phase + v) % n \in 0..(n - 1) BY <2>3, Quotient
  <2>5. QED BY <1>1, <2>1, <2>2, <2>4, Zenon
<1>7. StageParts'
  <2>1. duty' \in [Stage!Cells -> 0..Stage!Full]
    <3>1. duty \in [Stage!Cells -> 0..Stage!Full] BY <1>4, Zenon DEF StageParts
    <3>2. \A k \in Stage!Cells : duty[k] \in 0..Stage!Full BY <3>1, Zenon
    <3>3. QED BY <1>1, <1>2, <3>2, Zenon
  <2>2. /\ accum' \in Nat /\ since' \in Nat /\ seqIndex' \in 1..Len(Segments)
        /\ seqRemaining' \in Nat /\ waveIndex' \in 1..Len(Uploaded) /\ played' \in Nat
    BY CarrierRamp, CarrierPlays, Zenon
  <2>3. QED BY <1>1, <1>4, <1>6, <2>1, <2>2, Zenon DEF StageParts
<1>8. LegsInv'
  <2>1. SUFFICES ASSUME NEW k \in Stage!Cells
                 PROVE  /\ Stage!Complementary(cfg.pairs[k]) /\ indep[k] =>
                             /\ duty'[k] = 0 /\ ~low[k]
                             /\ Stage!Active(cfg) => k \in denied \/ k >= cells
                        /\ ~indep[k] => ~low[k] /\ (cfg.pairs[k] = "half" => invGap[k] >= 1)
                        /\ faultHigh[k] = low[k]
    BY <1>1, Zenon DEF LegsInv
  <2>2. cfg # Stage!None BY <1>1, Zenon DEF Stage!Active
  <2>3. /\ Stage!Complementary(cfg.pairs[k]) /\ indep[k] =>
             duty[k] = 0 /\ ~low[k] /\ (Stage!Active(cfg) => k \in denied \/ k >= cells)
        /\ ~indep[k] => ~low[k] /\ (cfg.pairs[k] = "half" => invGap[k] >= 1)
        /\ faultHigh[k] = low[k]
    BY <1>4, <2>2, Zenon DEF LegsInv
  <2>4. (k \in denied \/ k >= cells) => k \notin Stage!Written
    <3>1. cells \in Int /\ k \in Int BY <1>4 DEF StageParts, Stage!Cells
    <3>2. k >= cells => ~(k < cells) BY <3>1
    <3>3. QED BY <1>2, <3>2, Zenon
  <2>5. k \notin Stage!Written => duty'[k] = duty[k] BY <1>1, Zenon
  <2>6. QED BY <1>1, <2>3, <2>4, <2>5, Zenon
<1>9. PlanInv' BY <1>1, <1>4, Zenon DEF PlanInv, Rendering
<1>10. ShownInv'
  <2>1. Rendered(invShown)' = Rendered(invShown')
    <3>1. UNCHANGED <<cfg, scheme, cells, plan>> BY <1>1, Zenon
    <3>2. QED BY <3>1, RenderedStays
  <2>2. Stage!Written' = Stage!Written BY <1>1, Zenon DEF Stage!Written
  <2>3. \A k \in Stage!Written : duty'[k] = Rendered(invShown')[k] BY <1>1, <1>2, Zenon
  <2>4. invShown'.unit \in Int /\ invShown'.index \in Nat
    BY CarrierPlays, CarrierRamp, Zenon
  <2>5. QED BY <1>1, <1>6, <2>1, <2>2, <2>3, <2>4, Zenon DEF ShownInv
<1>11. QED BY <1>3, <1>7, <1>8, <1>9, <1>10, Zenon DEF StageInv

\* Every step of the inverter keeps what is known of it.
LEMMA StageStep ==
  ASSUME NoPairIsFixed, StageInv, [Stage!Next]_stageAll
  PROVE  StageInv'
<1>1. CASE \E c \in Modulations : Stage!Configure(c)
  <2>1. PICK c \in Modulations : Stage!Configure(c) BY <1>1
  <2>2. LegsInv' /\ PlanInv' BY <2>1, ConfigureLegs
  <2>3. StageParts' /\ ShownInv' /\ PlayInv' /\ RampInv' /\ IndexInv' BY <2>1, ConfigureRest
  <2>4. QED BY <2>2, <2>3, Zenon DEF StageInv
<1>2. CASE Stage!Carrier BY <1>2, CarrierStep
<1>3. CASE UNCHANGED stageAll
  <2>1. /\ cfg' = cfg /\ plan' = plan /\ scheme' = scheme /\ cells' = cells
        /\ denied' = denied /\ indep' = indep /\ invGap' = invGap /\ low' = low
        /\ faultHigh' = faultHigh /\ duty' = duty /\ phase' = phase /\ accum' = accum
        /\ invTarget' = invTarget /\ stepQ' = stepQ /\ seqIndex' = seqIndex
        /\ seqRemaining' = seqRemaining /\ waveIndex' = waveIndex /\ invShown' = invShown
        /\ played' = played /\ since' = since
    BY <1>3, Zenon DEF stageAll
  <2>2. Stage!Active(cfg)' = Stage!Active(cfg) /\ Stage!Written' = Stage!Written
    BY <2>1, Zenon DEF Stage!Active, Stage!Written
  <2>3. StageParts' /\ LegsInv' /\ PlanInv'
    BY <2>1, <2>2, Zenon DEF StageInv, StageParts, LegsInv, PlanInv, Rendering
  <2>4. Rendered(invShown)' = Rendered(invShown)
    <3>1. UNCHANGED <<cfg, scheme, cells, plan>> BY <2>1, Zenon
    <3>2. Rendered(invShown)' = Rendered(invShown') BY <3>1, RenderedStays
    <3>3. QED BY <2>1, <3>2, Zenon
  <2>5. ShownInv' BY <2>1, <2>2, <2>4, Zenon DEF StageInv, ShownInv
  <2>6. PlayInv'
    <3>1. Stage!LevelAt(played - 1)' = Stage!LevelAt(played - 1)
      BY <2>1, Zenon DEF Stage!LevelAt
    <3>2. QED BY <2>1, <2>2, <3>1, Zenon DEF StageInv, PlayInv
  <2>7. RampInv' BY <2>1, <2>2, Zenon DEF StageInv, RampInv
  <2>8. (Stage!Indices)' = Stage!Indices BY Zenon DEF Stage!Indices
  <2>9. IndexInv' BY <2>1, <2>2, <2>8, Zenon DEF StageInv, IndexInv
  <2>10. QED BY <2>3, <2>5, <2>6, <2>7, <2>9, Zenon DEF StageInv
<1>4. QED BY <1>1, <1>2, <1>3, StageSteps, Zenon

\* The three legs of a reference that fits the bus stay within it around their offset.
LEMMA LegsFit ==
  ASSUME NEW c \in Modulations, Stage!ThreePhase(c.scheme), NEW i \in Stage!Indices,
         NEW p \in 0..Stage!Steps - 1, NEW zss,
         zss = IF c.scheme = "dpwm" THEN Stage!DpwmZss(Stage!Legs(p, i), p, c.variant)
               ELSE Stage!SvmZss(Stage!Legs(p, i))
  PROVE  /\ zss \in Int /\ (c.scheme # "dpwm" => zss \in -Unit..Unit)
         /\ \A k \in 0..2 : Stage!Legs(p, i)[k] + zss \in -Unit..Unit
<1> DEFINE v == Stage!Legs(p, i)
<1>1. p \in Nat /\ i \in Nat
  <2>1. p \in Nat BY StageTypes
  <2>2. i \in Nat BY SettingTypes DEF Stage!Indices
  <2>3. QED BY <2>1, <2>2
<1>2. v \in [0..2 -> Int] BY <1>1, LegTypes
<1>3. /\ Stage!MaxOf(v) - Stage!MinOf(v) <= 2 * Unit
      /\ Stage!MaxOf(v) + Stage!MinOf(v) \in -2 * Unit..2 * Unit
      /\ c.scheme = "dpwm" /\ c.variant \in {"wide", "3"} =>
           \A k \in 0..2 : v[k] + Stage!DpwmZss(v, p, c.variant) \in -Unit..Unit
  <2> DEFINE threes == {d \in Modulations : Stage!ThreePhase(d.scheme)}
             clamps == {d.variant : d \in {e \in threes : e.scheme = "dpwm"}}
  <2>1. c \in threes OBVIOUS
  <2>2. Stage!ReferencesFit BY ServicesAssumption, Zenon
  <2>3. threes # {} =>
          \A j \in Stage!Indices, q \in 0..Stage!Steps - 1 :
            /\ Stage!MaxOf(Stage!Legs(q, j)) - Stage!MinOf(Stage!Legs(q, j)) <= 2 * Unit
            /\ Stage!MaxOf(Stage!Legs(q, j)) + Stage!MinOf(Stage!Legs(q, j))
               \in -2 * Unit..2 * Unit
            /\ \A variant \in clamps \intersect {"wide", "3"}, k \in 0..2 :
                 Stage!Legs(q, j)[k] + Stage!DpwmZss(Stage!Legs(q, j), q, variant)
                   \in -Unit..Unit
    BY <2>2, Zenon DEF Stage!ReferencesFit
  <2>4. c.scheme = "dpwm" => c.variant \in clamps BY <2>1, Zenon
  <2> HIDE DEF threes, clamps
  <2>5. threes # {} BY <2>1, Zenon
  <2>6. /\ Stage!MaxOf(v) - Stage!MinOf(v) <= 2 * Unit
        /\ Stage!MaxOf(v) + Stage!MinOf(v) \in -2 * Unit..2 * Unit
        /\ \A variant \in clamps \intersect {"wide", "3"}, k \in 0..2 :
             v[k] + Stage!DpwmZss(v, p, variant) \in -Unit..Unit
    BY <2>3, <2>5, Zenon
  <2> HIDE DEF v
  <2>7. QED BY <2>4, <2>6, Zenon
<1>4. zss = IF c.scheme = "dpwm" THEN Stage!DpwmZss(v, p, c.variant) ELSE Stage!SvmZss(v)
  BY Zenon
<1> HIDE DEF v
<1>5. PICK hi, lo \in Int : hi = Stage!MaxOf(v) /\ lo = Stage!MinOf(v)
  BY <1>2, ThreeMost
<1>6. \A k \in 0..2 : v[k] \in Int /\ v[k] <= hi /\ lo <= v[k] BY <1>2, <1>5, ThreeMost
<1>7. Unit \in Nat /\ hi - lo <= 2 * Unit /\ hi + lo <= 2 * Unit /\ -2 * Unit <= hi + lo
  <2>1. Unit \in Nat BY StageTypes
  <2>2. hi - lo <= 2 * Unit /\ hi + lo \in -2 * Unit..2 * Unit BY <1>3, <1>5, Zenon
  <2>3. QED BY <2>1, <2>2
<1>8. CASE c.scheme # "dpwm"
  <2>1. zss = Stage!Truncated(-(hi + lo)) BY <1>4, <1>5, <1>8, Zenon DEF Stage!SvmZss
  <2>2. /\ zss \in Int /\ zss <= Unit /\ -Unit <= zss
        /\ 2 * zss <= 1 - (hi + lo) /\ -1 - (hi + lo) <= 2 * zss
    BY <1>7, <2>1 DEF Stage!Truncated
  <2>3. ASSUME NEW k \in 0..2 PROVE v[k] + zss \in -Unit..Unit
    <3>1. v[k] \in Int /\ v[k] <= hi /\ lo <= v[k] BY <1>6
    <3>2. 2 * (v[k] + zss) <= 2 * Unit + 1 /\ -2 * Unit - 1 <= 2 * (v[k] + zss)
      BY <1>7, <2>2, <3>1
    <3>3. QED BY <1>7, <2>2, <3>1, <3>2
  <2>4. QED BY <1>7, <2>2, <2>3 DEF v
<1>9. CASE c.scheme = "dpwm"
  <2>1. zss = Stage!DpwmZss(v, p, c.variant) /\ zss \in Int
    BY <1>1, <1>2, <1>4, <1>9, ClampOffset
  <2>2. c.variant \in {"min", "max", "wide", "3"} BY SettingTypes
  <2>3. CASE c.variant \in {"wide", "3"} BY <1>3, <1>9, <2>1, <2>3, Zenon DEF v
  <2>4. CASE c.variant = "max"
    <3>1. PICK k \in 0..2 : (\A j \in 0..2 : v[j] <= v[k]) /\ zss = Unit - v[k]
      BY <1>1, <1>2, <2>1, <2>4, ClampOffset
    <3>2. v[k] <= hi /\ hi <= v[k]
      <4>1. \E j \in 0..2 : hi = v[j] BY <1>2, <1>5, ThreeMost
      <4>2. QED BY <1>6, <3>1, <4>1
    <3>3. \A j \in 0..2 : v[j] + zss \in -Unit..Unit BY <1>6, <1>7, <3>1, <3>2
    <3>4. QED BY <1>9, <2>1, <3>3, Zenon DEF v
  <2>5. CASE c.variant = "min"
    <3>1. PICK k \in 0..2 : (\A j \in 0..2 : v[j] >= v[k]) /\ zss = -Unit - v[k]
      BY <1>1, <1>2, <2>1, <2>5, ClampOffset
    <3>2. v[k] <= lo /\ lo <= v[k]
      <4>1. \E j \in 0..2 : lo = v[j] BY <1>2, <1>5, ThreeMost
      <4>2. QED BY <1>6, <3>1, <4>1
    <3>3. \A j \in 0..2 : v[j] + zss \in -Unit..Unit BY <1>6, <1>7, <3>1, <3>2
    <3>4. QED BY <1>9, <2>1, <3>3, Zenon DEF v
  <2>6. QED BY <2>2, <2>3, <2>4, <2>5
<1>10. QED BY <1>8, <1>9

\* A set of which any two members are one has one at most.
LEMMA OneAtMost ==
  ASSUME NEW n \in 1..4, NEW S \in SUBSET (0..n - 1), \A x, y \in S : x = y
  PROVE  Cardinality(S) <= 1
<1>1. CASE S = {}
  <2>1. Cardinality(S) = 0 BY <1>1, FS_EmptySet
  <2>2. QED BY <2>1
<1>2. CASE S # {}
  <2>1. PICK x \in S : TRUE BY <1>2
  <2>2. S = {x} BY <2>1
  <2>3. Cardinality(S) = 1 BY <2>2, FS_Singleton
  <2>4. QED BY <2>3
<1>3. QED BY <1>1, <1>2

\* The bands of a reference add up to it, and one of them is partly filled at most.
LEMMA BandsAddUp ==
  ASSUME NEW ref \in 1..Stage!Full, NEW n \in 1..4,
         NEW b \in [0..3 -> Int],
         \A k \in 0..3 : b[k] = IF k < n THEN Stage!BandDuty(ref, k, n, FALSE) ELSE 0
  PROVE  /\ n * ref - (b[0] + b[1] + b[2] + b[3]) \in 0..n
         /\ \A j, k \in 0..n - 1 :
              b[j] \notin {0, Stage!Full} /\ b[k] \notin {0, Stage!Full} => j = k
<1>1. PICK f \in Nat : f = Stage!Full /\ f >= 1 BY StageTypes DEF Stage!Full
<1>2. \A k \in 0..3 :
        b[k] = IF k < n
               THEN IF ref * n - k * (f + 1) <= 0 THEN 0
                    ELSE IF ref * n - k * (f + 1) >= f THEN f ELSE ref * n - k * (f + 1)
               ELSE 0
  <2>1. TAKE k \in 0..3
  <2>2. PICK d \in Int : d = ref * n - k * (f + 1) OBVIOUS
  <2>3. Stage!BandDuty(ref, k, n, FALSE)
        = IF d <= 0 THEN 0 ELSE IF d >= f THEN f ELSE d
    BY <1>1, <2>2 DEF Stage!BandDuty
  <2>4. QED BY <2>2, <2>3
<1>3. PICK x, a0, a1, a2, a3 \in Int :
        x = ref * n /\ a0 = b[0] /\ a1 = b[1] /\ a2 = b[2] /\ a3 = b[3]
  OBVIOUS
<1>4. /\ a0 = IF x <= 0 THEN 0 ELSE IF x >= f THEN f ELSE x
      /\ a1 = IF 1 < n THEN IF x - (f + 1) <= 0 THEN 0
                            ELSE IF x - (f + 1) >= f THEN f ELSE x - (f + 1) ELSE 0
      /\ a2 = IF 2 < n THEN IF x - 2 * (f + 1) <= 0 THEN 0
                            ELSE IF x - 2 * (f + 1) >= f THEN f ELSE x - 2 * (f + 1) ELSE 0
      /\ a3 = IF 3 < n THEN IF x - 3 * (f + 1) <= 0 THEN 0
                            ELSE IF x - 3 * (f + 1) >= f THEN f ELSE x - 3 * (f + 1) ELSE 0
  BY <1>2, <1>3
<1>5. ref <= f /\ ref >= 1 /\ n * ref = x BY <1>1, <1>3
<1>6. x - (a0 + a1 + a2 + a3) \in 0..n
  <2>1. CASE n = 1 BY <1>1, <1>3, <1>4, <1>5, <2>1
  <2>2. CASE n = 2 BY <1>1, <1>3, <1>4, <1>5, <2>2
  <2>3. CASE n = 3 BY <1>1, <1>3, <1>4, <1>5, <2>3
  <2>4. CASE n = 4 BY <1>1, <1>3, <1>4, <1>5, <2>4
  <2>5. QED BY <2>1, <2>2, <2>3, <2>4
<1>7. ASSUME NEW j \in 0..n - 1, NEW k \in 0..n - 1, j < k,
             b[j] \notin {0, f}, b[k] \notin {0, f}
      PROVE  FALSE
  <2>1. PICK y, z \in Int : y = ref * n - j * (f + 1) /\ z = ref * n - k * (f + 1) OBVIOUS
  <2>2. b[j] = IF y <= 0 THEN 0 ELSE IF y >= f THEN f ELSE y
    <3>1. j \in 0..3 /\ j < n OBVIOUS
    <3>2. QED BY <1>2, <2>1, <3>1
  <2>3. b[k] = IF z <= 0 THEN 0 ELSE IF z >= f THEN f ELSE z
    <3>1. k \in 0..3 /\ k < n OBVIOUS
    <3>2. QED BY <1>2, <2>1, <3>1
  <2>4. y < f /\ z > 0 BY <1>1, <1>7, <2>1, <2>2, <2>3
  <2>5. y - z >= f + 1
    <3>1. y - z = (k - j) * (f + 1) BY <2>1
    <3>2. PICK e \in Nat : k = j + 1 + e
      <4>1. k - (j + 1) \in Nat /\ k = j + 1 + (k - (j + 1)) BY <1>7
      <4>2. QED BY <4>1
    <3>3. (k - j) * (f + 1) = (f + 1) + e * (f + 1)
      <4>1. k - j = 1 + e BY <3>2
      <4>2. (1 + e) * (f + 1) = (f + 1) + e * (f + 1) OBVIOUS
      <4>3. QED BY <4>1, <4>2
    <3>4. e * (f + 1) \in Nat BY Product
    <3>5. QED BY <3>1, <3>3, <3>4
  <2>6. QED BY <1>1, <2>1, <2>4, <2>5
<1>8. \A j, k \in 0..n - 1 :
        b[j] \notin {0, Stage!Full} /\ b[k] \notin {0, Stage!Full} => j = k
  BY <1>1, <1>7
<1>9. QED BY <1>3, <1>5, <1>6, <1>8

\* Bands snapped to a rail miss the reference by half a band at most.
LEMMA BandsSnap ==
  ASSUME NEW ref \in 1..Stage!Full, NEW n \in 1..4,
         NEW b \in [0..3 -> Int],
         \A k \in 0..3 : b[k] = IF k < n THEN Stage!BandDuty(ref, k, n, TRUE) ELSE 0
  PROVE  /\ Stage!Magnitude(n * ref - (b[0] + b[1] + b[2] + b[3])) <= Stage!Half + n
         /\ \A k \in 0..n - 1 : b[k] \in {0, Stage!Full}
<1>1. PICK h \in Nat, f \in Nat : /\ h = Stage!Half /\ f = Stage!Full /\ f >= 1
                                  /\ f = 2 * h - 1
  <2>1. PICK u \in Nat : u = Unit BY StageTypes
  <2>2. Stage!Half = u + 1 /\ Stage!Full = 2 * u + 1 BY <2>1 DEF Stage!Half, Stage!Full
  <2>3. QED BY <2>2
<1>2. \A k \in 0..3 :
        b[k] = IF k < n
               THEN IF ref * n - k * (f + 1) <= 0 THEN 0
                    ELSE IF ref * n - k * (f + 1) >= h THEN f ELSE 0
               ELSE 0
  <2>1. TAKE k \in 0..3
  <2>2. PICK d \in Int : d = ref * n - k * (f + 1) OBVIOUS
  <2>3. Stage!BandDuty(ref, k, n, TRUE)
        = IF d <= 0 THEN 0 ELSE IF d >= h THEN f ELSE 0
    BY <1>1, <2>2 DEF Stage!BandDuty
  <2>4. QED BY <2>2, <2>3
<1>3. PICK x, a0, a1, a2, a3 \in Int :
        x = ref * n /\ a0 = b[0] /\ a1 = b[1] /\ a2 = b[2] /\ a3 = b[3]
  OBVIOUS
<1>4. /\ a0 = IF x <= 0 THEN 0 ELSE IF x >= h THEN f ELSE 0
      /\ a1 = IF 1 < n THEN IF x - (f + 1) <= 0 THEN 0
                            ELSE IF x - (f + 1) >= h THEN f ELSE 0 ELSE 0
      /\ a2 = IF 2 < n THEN IF x - 2 * (f + 1) <= 0 THEN 0
                            ELSE IF x - 2 * (f + 1) >= h THEN f ELSE 0 ELSE 0
      /\ a3 = IF 3 < n THEN IF x - 3 * (f + 1) <= 0 THEN 0
                            ELSE IF x - 3 * (f + 1) >= h THEN f ELSE 0 ELSE 0
  BY <1>2, <1>3
<1>5. ref <= f /\ ref >= 1 /\ n * ref = x BY <1>1, <1>3
<1>6. x - (a0 + a1 + a2 + a3) \in -(h + n)..h + n
  <2>1. CASE n = 1 BY <1>1, <1>3, <1>4, <1>5, <2>1
  <2>2. CASE n = 2 BY <1>1, <1>3, <1>4, <1>5, <2>2
  <2>3. CASE n = 3 BY <1>1, <1>3, <1>4, <1>5, <2>3
  <2>4. CASE n = 4 BY <1>1, <1>3, <1>4, <1>5, <2>4
  <2>5. QED BY <2>1, <2>2, <2>3, <2>4
<1>7. Stage!Magnitude(n * ref - (b[0] + b[1] + b[2] + b[3])) <= h + n
  BY <1>3, <1>5, <1>6 DEF Stage!Magnitude
<1>8. \A k \in 0..n - 1 : b[k] \in {0, f}
  <2>1. \A k \in 0..n - 1 : k \in 0..3 /\ k < n OBVIOUS
  <2>2. QED BY <1>2, <2>1
<1>9. QED BY <1>1, <1>7, <1>8

\* A reference, where one is shown for every cell, is what each of them was given.
LEMMA OneReference ==
  ASSUME StageInv, invShown # Stage!Unseen,
         ~Stage!ThreePhase(scheme) \/ cfg.source # "table"
  PROVE  /\ Stage!ShownRef \in 1..Stage!Full
         /\ \A k \in 0..cells - 1 :
              Rendered(invShown)[k]
              = Stage!FinalDuty(Stage!CellDuty(scheme, Stage!ShownRef, k, cells, cfg.near),
                                plan[k])
<1>1. /\ invShown.phase \in 0..Stage!Steps - 1 /\ invShown.unit \in Int
      /\ invShown.index \in Nat /\ Stage!Active(cfg)
  BY Zenon DEF StageInv, ShownInv
<1>2. Rendering BY <1>1, Zenon DEF StageInv, PlanInv
<1>3. cfg.comp \in Nat BY <1>2, SettingTypes, Zenon DEF Rendering
<1>4. invShown.phase \in Nat BY <1>1, StageTypes
<1> DEFINE u == IF cfg.source # "table" THEN invShown.unit
                ELSE Stage!At(IF scheme = "thipwm" THEN Flat ELSE Sine, invShown.phase)
<1>5. u \in Int BY <1>1, <1>4, EntryTypes
<1>6. Stage!ShownRef = Stage!DutyOf(Stage!Scaled(u, invShown.index),
                                    IF scheme = "level" THEN 0 ELSE cfg.comp, u)
  BY Zenon DEF Stage!ShownRef
<1>7. CASE cfg.source # "table"
  <2>1. u = invShown.unit BY <1>7, Zenon
  <2> HIDE DEF u
  <2>2. Rendered(invShown) = Stage!SteppedDuties(invShown.unit, invShown.index)
    BY <1>7, Zenon DEF Rendered
  <2>3. Rendered(invShown)
        = [k \in 0..cells - 1 |->
             Stage!FinalDuty(Stage!CellDuty(scheme, Stage!ShownRef, k, cells, cfg.near),
                             plan[k])]
    BY <1>6, <2>1, <2>2, Zenon DEF Stage!SteppedDuties
  <2>4. Stage!Scaled(u, invShown.index) \in Int BY <1>1, <1>5, ScaledType
  <2>5. Stage!ShownRef \in 1..Stage!Full BY <1>3, <1>5, <1>6, <2>4, DutyRange
  <2>6. QED BY <2>3, <2>5, Zenon
<1>8. CASE cfg.source = "table" /\ ~Stage!ThreePhase(scheme)
  <2>1. u = Stage!At(IF scheme = "thipwm" THEN Flat ELSE Sine, invShown.phase)
    BY <1>8, Zenon
  <2> HIDE DEF u
  <2>2. Rendered(invShown) = Stage!TableDuties(invShown.phase, invShown.index)
    BY <1>8, Zenon DEF Rendered
  <2>3. Rendered(invShown)
        = [k \in 0..cells - 1 |->
             Stage!FinalDuty(Stage!CellDuty(scheme, Stage!ShownRef, k, cells, cfg.near),
                             plan[k])]
    BY <1>6, <1>8, <2>1, <2>2, Zenon DEF Stage!TableDuties
  <2>4. Stage!Scaled(u, invShown.index) \in Int BY <1>1, <1>5, ScaledType
  <2>5. Stage!ShownRef \in 1..Stage!Full BY <1>3, <1>5, <1>6, <2>4, DutyRange
  <2>6. QED BY <2>3, <2>5, Zenon
<1>9. QED BY <1>7, <1>8

\* Pins of cells that were not refused show what the cycle wrote, by their polarity.
LEMMA PinShows ==
  ASSUME StageInv, invShown # Stage!Unseen, denied \intersect (0..cells - 1) = {},
         NEW k \in 0..cells - 1
  PROVE  /\ Stage!Pin(k) = IF plan[k].inverted THEN Stage!Full - Rendered(invShown)[k]
                           ELSE Rendered(invShown)[k]
         /\ plan[k] = Stage!Plan(scheme, cfg.disposition, k, cells)
         /\ k \in 0..3 /\ cells \in 1..4
<1>1. cells \in 1..4 /\ k \in 0..3 /\ k \in Stage!Cells /\ k < cells
  BY DEF StageInv, StageParts, Stage!Cells
<1>2. k \notin denied /\ k \in Stage!Written
  <2>1. k \notin denied OBVIOUS
  <2>2. QED BY <2>1, Zenon DEF Stage!Written
<1>3. duty[k] = Rendered(invShown)[k] /\ Stage!Active(cfg)
  BY <1>2, Zenon DEF StageInv, ShownInv
<1>4. /\ plan[k] = Stage!Plan(scheme, cfg.disposition, k, cells)
      /\ low[k] = (k \notin denied /\ k < cells /\ plan[k].inverted)
  BY <1>1, <1>3, Zenon DEF StageInv, PlanInv
<1>5. low[k] <=> plan[k].inverted
  <2>1. plan[k].inverted \in BOOLEAN
    <3>1. plan[k].inverted = (Stage!Plan(scheme, cfg.disposition, k, cells)).inverted
      BY <1>4, Zenon
    <3>2. (Stage!Plan(scheme, cfg.disposition, k, cells)).inverted \in BOOLEAN
      BY DEF Stage!Plan
    <3>3. QED BY <3>1, <3>2, Zenon
  <2>2. QED BY <1>1, <1>2, <1>4, <2>1, Zenon
<1>6. QED BY <1>1, <1>3, <1>4, <1>5, Zenon DEF Stage!Pin

\* Opposed legs mirror each other, phase-shifted ones show the same.
LEMMA OpposedPins ==
  ASSUME StageInv, invShown # Stage!Unseen, denied \intersect (0..cells - 1) = {},
         NEW k \in 0..cells - 1
  PROVE  /\ scheme \in {"unipolar", "thipwm", "bipolar"} =>
              Stage!Pin(k) = IF k % 2 = 0 THEN Stage!ShownRef
                             ELSE Stage!Full - Stage!ShownRef
         /\ scheme = "phase" => Stage!Pin(k) = Stage!ShownRef
         /\ scheme = "level" =>
              Stage!Pin(k) = Stage!BandDuty(Stage!ShownRef, k, cells, cfg.near)
<1>1. SUFFICES ASSUME scheme \in {"unipolar", "thipwm", "bipolar", "phase", "level"}
               PROVE  /\ scheme \in {"unipolar", "thipwm", "bipolar"} =>
                           Stage!Pin(k) = IF k % 2 = 0 THEN Stage!ShownRef
                                          ELSE Stage!Full - Stage!ShownRef
                      /\ scheme = "phase" => Stage!Pin(k) = Stage!ShownRef
                      /\ scheme = "level" =>
                           Stage!Pin(k) = Stage!BandDuty(Stage!ShownRef, k, cells, cfg.near)
  OBVIOUS
<1>2. ~Stage!ThreePhase(scheme) BY <1>1 DEF Stage!ThreePhase
<1>3. /\ Stage!Pin(k) = IF plan[k].inverted THEN Stage!Full - Rendered(invShown)[k]
                        ELSE Rendered(invShown)[k]
      /\ plan[k] = Stage!Plan(scheme, cfg.disposition, k, cells)
      /\ k \in 0..3 /\ cells \in 1..4
  BY PinShows
<1>4. /\ Stage!ShownRef \in 1..Stage!Full
      /\ Rendered(invShown)[k]
         = Stage!FinalDuty(Stage!CellDuty(scheme, Stage!ShownRef, k, cells, cfg.near), plan[k])
  BY <1>2, OneReference, Zenon
<1>5. PICK f, ref \in Nat : f = Stage!Full /\ ref = Stage!ShownRef
  <2>1. Stage!Full \in Nat BY StageTypes DEF Stage!Full
  <2>2. QED BY <1>4, <2>1
<1> DEFINE odd == k % 2 = 1
           opposed == \/ cfg.disposition = "pod" /\ k < cells \div 2
                      \/ cfg.disposition = "apod" /\ odd
<1>6. /\ plan[k].inverted <=> \/ scheme \in {"bipolar", "phase"} /\ odd
                              \/ scheme = "level" /\ opposed
      /\ plan[k].complement <=> \/ scheme \in {"unipolar", "thipwm", "phase"} /\ odd
                                \/ scheme = "level" /\ opposed
  BY <1>3 DEF Stage!Plan
<1>7. k % 2 = 0 <=> ~odd BY <1>3
<1> HIDE DEF odd, opposed
<1>8. CASE scheme = "level"
  <2>1. PICK d \in Int : d = Stage!BandDuty(Stage!ShownRef, k, cells, cfg.near)
    <3>1. Stage!FinalDuty(Stage!CellDuty("level", Stage!ShownRef, k, cells, cfg.near),
                          [complement |-> FALSE]) \in 0..Stage!Full
      <4>1. cfg.near \in BOOLEAN
        <5>1. Rendering BY Zenon DEF StageInv, PlanInv, ShownInv
        <5>2. QED BY <5>1, SettingTypes, Zenon DEF Rendering
      <4>2. QED BY <1>3, <1>4, <4>1, CellRange
    <3>2. Stage!BandDuty(Stage!ShownRef, k, cells, cfg.near) \in 0..Stage!Full
      BY <3>1 DEF Stage!FinalDuty, Stage!CellDuty
    <3>3. QED BY <1>5, <3>2
  <2>2. Rendered(invShown)[k] = IF plan[k].complement THEN f - d ELSE d
    BY <1>4, <1>5, <1>8, <2>1, Zenon DEF Stage!FinalDuty, Stage!CellDuty
  <2>3. (plan[k].inverted <=> plan[k].complement)
    BY <1>6, <1>8
  <2>4. Stage!Pin(k) = IF plan[k].inverted THEN f - Rendered(invShown)[k]
                       ELSE Rendered(invShown)[k]
    BY <1>3, <1>5, Zenon
  <2>5. Stage!Pin(k) = d
    <3>1. CASE plan[k].inverted
      <4>1. Stage!Pin(k) = f - (f - d) BY <2>2, <2>3, <2>4, <3>1, Zenon
      <4>2. QED BY <4>1
    <3>2. CASE ~plan[k].inverted BY <2>2, <2>3, <2>4, <3>2, Zenon
    <3>3. QED BY <3>1, <3>2
  <2>6. QED BY <1>8, <2>1, <2>5
<1>9. CASE scheme # "level"
  <2>1. Rendered(invShown)[k] = IF plan[k].complement THEN f - ref ELSE ref
    BY <1>4, <1>5, <1>9, Zenon DEF Stage!FinalDuty, Stage!CellDuty
  <2>2. Stage!Pin(k) = IF plan[k].inverted THEN f - Rendered(invShown)[k]
                       ELSE Rendered(invShown)[k]
    BY <1>3, <1>5, Zenon
  <2>3. CASE scheme \in {"unipolar", "thipwm"}
    <3>1. ~plan[k].inverted /\ (plan[k].complement <=> odd) BY <1>6, <2>3
    <3>2. Stage!Pin(k) = IF odd THEN f - ref ELSE ref BY <2>1, <2>2, <3>1, Zenon
    <3>3. QED BY <1>5, <1>7, <2>3, <3>2
  <2>4. CASE scheme = "bipolar"
    <3>1. ~plan[k].complement /\ (plan[k].inverted <=> odd) BY <1>6, <2>4
    <3>2. Stage!Pin(k) = IF odd THEN f - ref ELSE ref BY <2>1, <2>2, <3>1, Zenon
    <3>3. QED BY <1>5, <1>7, <2>4, <3>2
  <2>5. CASE scheme = "phase"
    <3>1. (plan[k].complement <=> odd) /\ (plan[k].inverted <=> odd) BY <1>6, <2>5
    <3>2. Stage!Pin(k) = IF odd THEN f - (f - ref) ELSE ref BY <2>1, <2>2, <3>1, Zenon
    <3>3. Stage!Pin(k) = ref BY <3>2
    <3>4. QED BY <1>5, <2>5, <3>3
  <2>6. QED BY <1>1, <1>9, <2>3, <2>4, <2>5
<1>10. QED BY <1>8, <1>9

\* Stacked bands carry the reference.
LEMMA StackedPins ==
  ASSUME StageInv, invShown # Stage!Unseen, denied \intersect (0..cells - 1) = {},
         scheme = "level"
  PROVE  /\ ~cfg.near =>
              /\ cells * Stage!ShownRef - Stage!SumOfPins \in 0..cells
              /\ Cardinality({k \in 0..cells - 1 : Stage!Pin(k) \notin {0, Stage!Full}}) <= 1
         /\ cfg.near =>
              /\ \A k \in 0..cells - 1 : Stage!Pin(k) \in {0, Stage!Full}
              /\ Stage!Magnitude(cells * Stage!ShownRef - Stage!SumOfPins)
                 <= Stage!Half + cells
<1>1. \A k \in 0..cells - 1 :
        Stage!Pin(k) = Stage!BandDuty(Stage!ShownRef, k, cells, cfg.near)
  BY OpposedPins, Zenon
<1>2. cells \in 1..4 BY Zenon DEF StageInv, StageParts
<1>3. ~Stage!ThreePhase(scheme) BY DEF Stage!ThreePhase
<1>4. Stage!ShownRef \in 1..Stage!Full BY <1>3, OneReference, Zenon
<1>5. cfg.near \in BOOLEAN
  <2>1. Rendering BY Zenon DEF StageInv, PlanInv, ShownInv
  <2>2. QED BY <2>1, SettingTypes, Zenon DEF Rendering
<1> DEFINE b == [k \in 0..3 |-> IF k < cells THEN Stage!Pin(k) ELSE 0]
<1>6. \A k \in 0..3 :
        b[k] = IF k < cells THEN Stage!BandDuty(Stage!ShownRef, k, cells, cfg.near) ELSE 0
  <2>1. TAKE k \in 0..3
  <2>2. k < cells => k \in 0..cells - 1 BY <1>2
  <2>3. QED BY <1>1, <2>2, Zenon
<1>7. b \in [0..3 -> Int]
  <2>1. ASSUME NEW k \in 0..3 PROVE b[k] \in Int
    <3>1. Stage!FinalDuty(Stage!CellDuty("level", Stage!ShownRef, k, cells, cfg.near),
                          [complement |-> FALSE]) \in 0..Stage!Full
      BY <1>2, <1>4, <1>5, CellRange
    <3>2. Stage!BandDuty(Stage!ShownRef, k, cells, cfg.near) \in 0..Stage!Full
      BY <3>1 DEF Stage!FinalDuty, Stage!CellDuty
    <3>3. Stage!BandDuty(Stage!ShownRef, k, cells, cfg.near) \in Int /\ 0 \in Int
      BY <3>2, StageTypes DEF Stage!Full
    <3> HIDE DEF b
    <3>4. QED BY <1>6, <3>3, Zenon
  <2>2. DOMAIN b = 0..3 /\ b = [k \in 0..3 |-> b[k]] OBVIOUS
  <2> HIDE DEF b
  <2>3. QED BY <2>1, <2>2
<1>8. Stage!SumOfPins = b[0] + b[1] + b[2] + b[3] BY DEF Stage!SumOfPins
<1>9. \A k \in 0..cells - 1 : b[k] = Stage!Pin(k) /\ k \in 0..3 BY <1>2
<1> HIDE DEF b
<1>10. ASSUME ~cfg.near
       PROVE  /\ cells * Stage!ShownRef - Stage!SumOfPins \in 0..cells
              /\ Cardinality({k \in 0..cells - 1 : Stage!Pin(k) \notin {0, Stage!Full}}) <= 1
  <2>1. \A k \in 0..3 :
          b[k] = IF k < cells THEN Stage!BandDuty(Stage!ShownRef, k, cells, FALSE) ELSE 0
    <3>1. cfg.near = FALSE BY <1>5, <1>10
    <3>2. QED BY <1>6, <3>1, Zenon
  <2>2. /\ cells * Stage!ShownRef - (b[0] + b[1] + b[2] + b[3]) \in 0..cells
        /\ \A j, k \in 0..cells - 1 :
             b[j] \notin {0, Stage!Full} /\ b[k] \notin {0, Stage!Full} => j = k
    BY <1>2, <1>4, <1>7, <2>1, BandsAddUp
  <2> DEFINE S == {k \in 0..cells - 1 : Stage!Pin(k) \notin {0, Stage!Full}}
  <2>3. \A x, y \in S : x = y BY <1>9, <2>2, Zenon
  <2>4. S \in SUBSET (0..cells - 1) OBVIOUS
  <2> HIDE DEF S
  <2>5. Cardinality(S) <= 1 BY <1>2, <2>3, <2>4, OneAtMost
  <2>6. QED BY <1>8, <2>2, <2>5, Zenon DEF S
<1>11. ASSUME cfg.near
       PROVE  /\ \A k \in 0..cells - 1 : Stage!Pin(k) \in {0, Stage!Full}
              /\ Stage!Magnitude(cells * Stage!ShownRef - Stage!SumOfPins)
                 <= Stage!Half + cells
  <2>1. \A k \in 0..3 :
          b[k] = IF k < cells THEN Stage!BandDuty(Stage!ShownRef, k, cells, TRUE) ELSE 0
    <3>1. cfg.near = TRUE BY <1>5, <1>11
    <3>2. QED BY <1>6, <3>1, Zenon
  <2>2. /\ Stage!Magnitude(cells * Stage!ShownRef - (b[0] + b[1] + b[2] + b[3]))
           <= Stage!Half + cells
        /\ \A k \in 0..cells - 1 : b[k] \in {0, Stage!Full}
    BY <1>2, <1>4, <1>7, <2>1, BandsSnap
  <2>3. QED BY <1>8, <1>9, <2>2, Zenon
<1>12. QED BY <1>10, <1>11, Zenon

\* The legs of a three-phase scheme keep its line voltages.
LEMMA ThreePhasePins ==
  ASSUME StageInv, invShown # Stage!Unseen, denied \intersect (0..cells - 1) = {},
         Stage!ThreePhase(scheme), cfg.source = "table", cfg.comp = 0,
         NEW v, v = Stage!Legs(invShown.phase, invShown.index)
  PROVE  /\ \A j, k \in 0..2 : Stage!Pin(j) - Stage!Pin(k) = v[j] - v[k]
         /\ scheme = "svpwm3d" => \A k \in 0..2 : Stage!Pin(k) - Stage!Pin(3) = v[k]
         /\ scheme = "dpwm" => \E k \in 0..2 : Stage!Pin(k) \in {1, Stage!Full}
<1>1. /\ invShown.phase \in 0..Stage!Steps - 1 /\ invShown.index \in Nat
      /\ Stage!Active(cfg)
  BY Zenon DEF StageInv, ShownInv
<1>2. Rendering BY <1>1, Zenon DEF StageInv, PlanInv
<1>3. /\ cfg \in Modulations /\ scheme = cfg.scheme /\ cells = Stage!EffectiveCells(cfg)
  BY <1>2, Zenon DEF Rendering
<1>4. invShown.index \in Stage!Indices BY Zenon DEF StageInv, IndexInv
<1>5. PICK p \in 0..Stage!Steps - 1, i \in Stage!Indices :
        p = invShown.phase /\ i = invShown.index
  BY <1>1, <1>4, Zenon
<1>6. p \in Nat /\ i \in Nat /\ v = Stage!Legs(p, i) BY <1>1, <1>5, StageTypes
<1>7. v \in [0..2 -> Int] BY <1>6, LegTypes
<1> DEFINE zss == IF cfg.scheme = "dpwm" THEN Stage!DpwmZss(v, p, cfg.variant)
                  ELSE Stage!SvmZss(v)
<1>8. /\ zss \in Int /\ (cfg.scheme # "dpwm" => zss \in -Unit..Unit)
      /\ \A k \in 0..2 : v[k] + zss \in -Unit..Unit
  BY <1>3, <1>6, LegsFit
<1>9. Rendered(invShown)
      = [k \in 0..cells - 1 |-> IF k = 3 THEN Stage!DutyOf(zss, 0, 0)
                                ELSE Stage!DutyOf(v[k] + zss, 0, v[k])]
  <2>1. Rendered(invShown) = Stage!TableDuties(p, i) BY <1>5, Zenon DEF Rendered
  <2>2. Stage!TableDuties(p, i)
        = LET w == Stage!Legs(p, i)
              z == IF scheme = "dpwm" THEN Stage!DpwmZss(w, p, cfg.variant)
                   ELSE Stage!SvmZss(w)
          IN [k \in 0..cells - 1 |-> IF k = 3 THEN Stage!DutyOf(z, 0, 0)
                                     ELSE Stage!DutyOf(w[k] + z, cfg.comp, w[k])]
    BY Zenon DEF Stage!TableDuties
  <2>3. QED BY <1>3, <1>6, <2>1, <2>2, Zenon
<1>10. scheme = "dpwm" =>
         \E k \in 0..2 : v[k] + zss \in {-Unit, Unit}
  <2>1. \E k \in 0..2 : v[k] + Stage!DpwmZss(v, p, cfg.variant) \in {-Unit, Unit}
    BY <1>6, <1>7, ClampOffset
  <2>2. QED BY <1>3, <2>1, Zenon
<1> HIDE DEF zss
<1>11. PICK u \in Nat : u = Unit /\ Stage!Half = u + 1 /\ Stage!Full = 2 * u + 1
  BY StageTypes DEF Stage!Half, Stage!Full
<1>12. ASSUME NEW x \in Int, x \in -Unit..Unit, NEW s \in Int
       PROVE  Stage!DutyOf(x, 0, s) = u + 1 + x
  <2>1. Stage!Compensated(x, 0, s) = x BY DEF Stage!Compensated
  <2>2. Stage!Saturated(x) = x BY <1>11, <1>12 DEF Stage!Saturated
  <2>3. QED BY <1>11, <2>1, <2>2, Zenon DEF Stage!DutyOf
<1>13. cells \in 3..4 /\ (scheme = "svpwm3d" => cells = 4)
  <2>1. scheme = "svpwm3d" => cells = 4 BY <1>3 DEF Stage!EffectiveCells
  <2>2. cells \in 3..4 BY <1>3, CellCount, Zenon
  <2>3. QED BY <2>1, <2>2
<1>14. \A k \in 0..cells - 1 : Stage!Pin(k) = Rendered(invShown)[k]
  <2>1. TAKE k \in 0..cells - 1
  <2>2. /\ Stage!Pin(k) = IF plan[k].inverted THEN Stage!Full - Rendered(invShown)[k]
                          ELSE Rendered(invShown)[k]
        /\ plan[k] = Stage!Plan(scheme, cfg.disposition, k, cells)
    BY PinShows
  <2>3. ~plan[k].inverted BY <2>2 DEF Stage!Plan, Stage!ThreePhase
  <2>4. QED BY <2>2, <2>3, Zenon
<1>15. \A k \in 0..2 : Stage!Pin(k) = u + 1 + (v[k] + zss)
  <2>1. TAKE k \in 0..2
  <2>2. k \in 0..cells - 1 /\ k # 3 BY <1>13
  <2>3. Stage!Pin(k) = Stage!DutyOf(v[k] + zss, 0, v[k]) BY <1>9, <1>14, <2>2, Zenon
  <2>4. v[k] \in Int /\ v[k] + zss \in Int /\ v[k] + zss \in -Unit..Unit BY <1>7, <1>8
  <2>5. QED BY <1>12, <2>3, <2>4, Zenon
<1>16. \A j, k \in 0..2 : Stage!Pin(j) - Stage!Pin(k) = v[j] - v[k]
  BY <1>7, <1>8, <1>15
<1>17. ASSUME scheme = "svpwm3d" PROVE \A k \in 0..2 : Stage!Pin(k) - Stage!Pin(3) = v[k]
  <2>1. 3 \in 0..cells - 1 BY <1>13, <1>17
  <2>2. Stage!Pin(3) = Stage!DutyOf(zss, 0, 0) BY <1>9, <1>14, <2>1, Zenon
  <2>3. zss \in -Unit..Unit BY <1>3, <1>8, <1>17
  <2>4. Stage!Pin(3) = u + 1 + zss
    <3>1. 0 \in Int OBVIOUS
    <3>2. QED BY <1>8, <1>12, <2>2, <2>3, <3>1, Zenon
  <2>5. QED BY <1>7, <1>8, <1>15, <2>4
<1>18. ASSUME scheme = "dpwm" PROVE \E k \in 0..2 : Stage!Pin(k) \in {1, Stage!Full}
  <2>1. PICK k \in 0..2 : v[k] + zss \in {-Unit, Unit} BY <1>10, <1>18
  <2>2. PICK x \in Int : x = v[k] + zss BY <1>7, <1>8
  <2>3. Stage!Pin(k) = u + 1 + x BY <1>15, <2>2
  <2>4. x = -u \/ x = u BY <1>11, <2>1, <2>2
  <2>5. QED BY <1>11, <2>3, <2>4
<1>19. QED BY <1>16, <1>17, <1>18, Zenon

\* The pins carry the reference by every scheme.
LEMMA PinsAreRight == StageInv => Stage!PinsCarryTheReference
<1> SUFFICES ASSUME StageInv, invShown # Stage!Unseen,
                    denied \intersect (0..cells - 1) = {}
             PROVE  (CASE scheme \in {"unipolar", "thipwm", "bipolar"} ->
                           \A k \in 0..cells - 1 :
                             Stage!Pin(k) = IF k % 2 = 0 THEN Stage!ShownRef
                                            ELSE Stage!Full - Stage!ShownRef
                      [] scheme = "phase" ->
                           \A k \in 0..cells - 1 : Stage!Pin(k) = Stage!ShownRef
                      [] scheme = "level" /\ ~cfg.near ->
                           /\ cells * Stage!ShownRef - Stage!SumOfPins \in 0..cells
                           /\ Cardinality({k \in 0..cells - 1 :
                                             Stage!Pin(k) \notin {0, Stage!Full}}) <= 1
                      [] scheme = "level" /\ cfg.near ->
                           /\ \A k \in 0..cells - 1 : Stage!Pin(k) \in {0, Stage!Full}
                           /\ Stage!Magnitude(cells * Stage!ShownRef - Stage!SumOfPins)
                              <= Stage!Half + cells
                      [] Stage!ThreePhase(scheme) /\ cfg.source = "table" /\ cfg.comp = 0 ->
                           /\ \A j, k \in 0..2 :
                                Stage!Pin(j) - Stage!Pin(k)
                                = Stage!Legs(invShown.phase, invShown.index)[j]
                                  - Stage!Legs(invShown.phase, invShown.index)[k]
                           /\ scheme = "svpwm3d" =>
                                \A k \in 0..2 :
                                  Stage!Pin(k) - Stage!Pin(3)
                                  = Stage!Legs(invShown.phase, invShown.index)[k]
                           /\ scheme = "dpwm" =>
                                \E k \in 0..2 : Stage!Pin(k) \in {1, Stage!Full}
                      [] OTHER -> TRUE)
  BY Zenon DEF Stage!PinsCarryTheReference, Stage!Cardinality, Cardinality
<1> DEFINE A == \A k \in 0..cells - 1 :
                  Stage!Pin(k) = IF k % 2 = 0 THEN Stage!ShownRef
                                 ELSE Stage!Full - Stage!ShownRef
           B == \A k \in 0..cells - 1 : Stage!Pin(k) = Stage!ShownRef
           C == /\ cells * Stage!ShownRef - Stage!SumOfPins \in 0..cells
                /\ Cardinality({k \in 0..cells - 1 : Stage!Pin(k) \notin {0, Stage!Full}}) <= 1
           D == /\ \A k \in 0..cells - 1 : Stage!Pin(k) \in {0, Stage!Full}
                /\ Stage!Magnitude(cells * Stage!ShownRef - Stage!SumOfPins)
                   <= Stage!Half + cells
           E == /\ \A j, k \in 0..2 :
                     Stage!Pin(j) - Stage!Pin(k)
                     = Stage!Legs(invShown.phase, invShown.index)[j]
                       - Stage!Legs(invShown.phase, invShown.index)[k]
                /\ scheme = "svpwm3d" =>
                     \A k \in 0..2 :
                       Stage!Pin(k) - Stage!Pin(3)
                       = Stage!Legs(invShown.phase, invShown.index)[k]
                /\ scheme = "dpwm" => \E k \in 0..2 : Stage!Pin(k) \in {1, Stage!Full}
<1>1. scheme \in {"unipolar", "thipwm", "bipolar"} => A BY OpposedPins
<1>2. scheme = "phase" => B BY OpposedPins, Zenon
<1>3. scheme = "level" /\ ~cfg.near => C BY StackedPins, Zenon
<1>4. scheme = "level" /\ cfg.near => D BY StackedPins, Zenon
<1>5. Stage!ThreePhase(scheme) /\ cfg.source = "table" /\ cfg.comp = 0 => E
  BY ThreePhasePins, Zenon
<1> HIDE DEF A, B, C, D, E
<1>6. (CASE scheme \in {"unipolar", "thipwm", "bipolar"}
           -> A
        [] scheme = "phase" -> B
        [] scheme = "level" /\ ~cfg.near -> C
        [] scheme = "level" /\ cfg.near -> D
        [] Stage!ThreePhase(scheme) /\ cfg.source = "table" /\ cfg.comp = 0 -> E
        [] OTHER -> TRUE)
  BY <1>1, <1>2, <1>3, <1>4, <1>5, Zenon
<1>7. QED BY <1>6, Zenon DEF A, B, C, D, E

\* Sequences, samples and soft starts are on time.
LEMMA InverterIsOnTime == StageInv => Stage!InverterPlaysInTime
<1> SUFFICES ASSUME StageInv PROVE Stage!InverterPlaysInTime OBVIOUS
<1>1. ASSUME invShown # Stage!Unseen
      PROVE  /\ cfg.source = "sequence" => invShown.unit = Stage!LevelAt(played - 1)
             /\ cfg.source = "samples" => invShown.unit = Uploaded[played]
  BY <1>1, Zenon DEF StageInv, ShownInv, PlayInv
<1>2. ASSUME Stage!Active(cfg), since = RampCycles PROVE accum = invTarget * Fraction
  <2>1. PICK r \in Nat : r = RampCycles BY StageTypes
  <2>2. RampCycles <= RampCycles BY <2>1
  <2>3. /\ stepQ * RampCycles >= invTarget * Fraction
        /\ accum = IF RampCycles * stepQ <= invTarget * Fraction THEN RampCycles * stepQ
                   ELSE invTarget * Fraction
    BY <1>2, <2>2, Zenon DEF StageInv, RampInv
  <2>4. PICK q, t, f \in Nat : q = stepQ /\ t = invTarget /\ f = Fraction
    <3>1. stepQ \in Nat /\ invTarget \in Nat BY Zenon DEF StageInv, StageParts
    <3>2. Fraction \in Nat BY StageTypes
    <3>3. QED BY <3>1, <3>2, Zenon
  <2>5. PICK g, m \in Nat : g = t * f /\ m = q * r
    <3>1. t * f \in Nat /\ q * r \in Nat BY Product
    <3>2. QED BY <3>1, Zenon
  <2>6. r * q = m BY <2>5
  <2>7. m >= g /\ accum = IF m <= g THEN m ELSE g BY <2>1, <2>3, <2>4, <2>5, <2>6, Zenon
  <2>8. accum = g BY <2>7
  <2>9. QED BY <2>4, <2>5, <2>8, Zenon
<1>3. QED BY <1>1, <1>2, Zenon DEF Stage!InverterPlaysInTime

\* What is known of the inverter is what it promises.
LEMMA StagePromise ==
  StageInv => /\ Stage!TypeOK /\ Stage!LegsAreSafe /\ Stage!PinsCarryTheReference
              /\ Stage!InverterPlaysInTime
<1> SUFFICES ASSUME StageInv
             PROVE  Stage!TypeOK /\ Stage!LegsAreSafe
  BY PinsAreRight, InverterIsOnTime
<1>1. Stage!TypeOK
  <2>1. \A k \in Stage!Cells : low[k] \in BOOLEAN BY Zenon DEF StageInv, StageParts
  <2>2. {low[k] : k \in Stage!Cells} \subseteq BOOLEAN BY <2>1, Zenon
  <2>3. QED BY <2>2, Zenon DEF StageInv, StageParts, Stage!TypeOK
<1>2. Stage!LegsAreSafe BY Zenon DEF StageInv, LegsInv, Stage!LegsAreSafe
<1>3. QED BY <1>1, <1>2

-----------------------------------------------------------------------------
(* The outputs.                                                            *)

\* The inverter's legs are safe, its pins carry the reference by their scheme, and sequences,
\* samples and soft starts are on time; the other timers follow the settings in force, with
\* every edge inside their period; and a current limit that says it is armed is.  A pair that
\* a scheme modulates must not have its COMPMODE set, which nothing in the firmware does
\* (reconfigureComplementaryPairs(), the carrier handler, plainTimerTimings(), acmp.cpp).
THEOREM OutputsStayAsConfigured == NoPairIsFixed /\ ServicesSpec => []OutputsAreAsConfigured
<1> DEFINE Inv == /\ NoPairIsFixed
                  /\ focus = "stage" => StageInv
                  /\ focus = "timers" => TimersInv
                  /\ focus = "edges" => input \in Inputs("edges")
                  /\ focus = "limit" => LimitInv
<1>1. NoPairIsFixed /\ ServicesInit => Inv
  BY StageStarts, TimersStart, LimitStarts, Zenon DEF ServicesInit
<1>2. Inv /\ Step => Inv'
  <2>1. SUFFICES ASSUME Inv, Step PROVE Inv' OBVIOUS
  <2>2. focus' = focus /\ input' = input BY <2>1, FocusStays, InputStays
  <2>3. NoPairIsFixed' BY <2>1 DEF NoPairIsFixed
  <2>4. focus' = "stage" => StageInv' BY <2>1, <2>2, StageMoves, StageStep, Zenon
  <2>5. focus' = "timers" => TimersInv' BY <2>1, <2>2, TimersMove, TimersStep, Zenon
  <2>6. focus' = "limit" => LimitInv' BY <2>1, <2>2, LimitMoves, LimitStep, Zenon
  <2>7. QED BY <2>1, <2>2, <2>3, <2>4, <2>5, <2>6, Zenon DEF Inputs
<1>3. Inv => OutputsAreAsConfigured
  <2>1. SUFFICES ASSUME Inv PROVE OutputsAreAsConfigured OBVIOUS
  <2>2. ASSUME focus = "edges"
        PROVE  Timers!EdgesAreReached(input.f, input.duty, input.pre, input.post)
    <3>1. /\ input.f \in Nat \ {0} /\ input.duty \in Nat
          /\ input.pre \in Int /\ input.post \in Int
      BY <2>1, <2>2 DEF Inputs
    <3>2. QED BY <3>1, EdgesAlwaysReached, Zenon
  <2>3. QED
    BY <2>1, <2>2, StagePromise, TimersPromise, LimitPromise, Zenon DEF OutputsAreAsConfigured
<1> HIDE DEF Inv
<1>4. QED BY <1>1, <1>2, <1>3, PTL DEF ServicesSpec, Step
=============================================================================
