-------------------------- MODULE OutputGateProofs --------------------------
(***************************************************************************)
(* What OutputGate guarantees for every set of cells and every setting of  *)
(* its constants.  The inductive invariant IInv adds to each safety        *)
(* property what keeps it true while a handler is half done: which         *)
(* positions are reached only in the dark, what a running release has      *)
(* already established, and what an interrupt may have undone since.       *)
(* Each *Step lemma has one step per action of Next.                       *)
(***************************************************************************)
EXTENDS OutputGate, TLAPS

\* Positions at which a handler is still installing a configuration.
ConfigPcs == {"setup", "pwm", "fault", "capture", "captureReset", "thermal",
              "acmp", "acmpRoute1", "acmpRoute2", "acmpIrq", "settle"}

\* A trip being cleared is still latched; a failed release is dark.
ClearingInv ==
  /\ pc \in {"clrLatch1", "clrLatch2", "clrVerify"} => tripped
  /\ pc = "clrFail" => ~outen

\* A release that passed its first gate keeps its interlocks: only the main thread
\* moves them.
ReleaseInv == pc \in {"restore", "commit"} => valid /\ inh = {}

\* Boot, and an apply that changed a protection or timing section, install their
\* settings in the dark.
DarkConfigInv ==
  /\ pc = "setup" => path = "boot"
  /\ pc \in ConfigPcs /\ (path = "boot" \/ chg # {}) => ~outen
  /\ pc \in {"acmpRoute1", "acmpRoute2", "acmpIrq"}
       => path = "boot" \/ "limit" \in chg \/ "pwm" \in chg

LiveInv ==
  /\ LiveOnlyWithAllClear
  /\ ClearingInv
  /\ ReleaseInv
  /\ DarkConfigInv

\* Unless an interrupt masked the outputs since the gate read genAtEntry, every
\* inverted cell is restored or still to be visited.
PolarityInv ==
  /\ PolarityWhenLive
  /\ pc # "restore" => todo = {}
  /\ pc = "restore" /\ ~masked => invMask \ inverted \subseteq todo
  /\ pc = "commit" /\ ~masked => inverted = invMask

\* The pin's vector is attached as configured, except while an apply or the boot
\* is about to attach it.
PinInv ==
  /\ LevelFaultIsPending
  /\ attached # cfg.fault =>
       \/ pc \in {"setup", "pwm", "fault"} /\ path = "boot"
       \/ pc = "fault" /\ "fault" \in chg

\* Latched mode means routed to both modules; under power the interrupt is enabled
\* or about to be, and PWM1 never latches alone.
LatchInv ==
  /\ pc \in {"acmpRoute1", "acmpRoute2"} => mode = "unready"
  /\ mode = "latched" => routed = Modules
  /\ outen /\ mode = "latched" =>
       faultIrq \/ pc \in {"postCheck", "clrCapture", "clrIrq", "clrRearm"}
  /\ outen /\ FaultLatched => "pwm2" \in latch

\* What a shutdown, and any step that leaves the drivers alone, does to them.
OnlyDarkens ==
  /\ outen' => outen /\ inverted' = inverted
  /\ ~masked' => ~masked /\ inverted' = inverted

IInv ==
  /\ TypeOK
  /\ LiveInv
  /\ PolarityInv
  /\ PinInv
  /\ LatchInv
  /\ ThermalBeforePower
  /\ MtpTimerNeverLive

USE DEF mainVars, cfgVars, lockVars, driveVars, modVars, irqVars, gpioVars,
        acmpVars, thermVars, taskVars

\* There is a configuration for the board to start from.
LEMMA DefaultsAreAConfig == CompiledDefaults \in Configs
  <1>1. PICK l \in LimitModes : TRUE BY LimitModesAssumption
  <1>2. PICK t \in ThermalModes : TRUE BY ThermalModesAssumption
  <1>3. [fault |-> TRUE, limit |-> l, thermal |-> t] \in Configs
    BY <1>1, <1>2 DEF Configs
  <1>4. QED BY <1>3, Zenon DEF CompiledDefaults

\* The board starts, and restarts, in a state of IInv.
LEMMA InitIInv == Init => IInv
  <1> SUFFICES ASSUME Init PROVE IInv OBVIOUS
  <1>1. TypeOK
    <2>1. /\ valid \in BOOLEAN /\ tripped \in BOOLEAN /\ masked \in BOOLEAN
          /\ outen \in BOOLEAN /\ inhibited \in BOOLEAN /\ pwmIrq \in BOOLEAN
          /\ attached \in BOOLEAN /\ gpioPend \in BOOLEAN
          /\ faultIrq \in BOOLEAN /\ sample \in BOOLEAN
          /\ thermApplied \in BOOLEAN /\ ota \in BOOLEAN
          /\ saveNeeded \in BOOLEAN /\ pinSet \in BOOLEAN
      BY Zenon DEF Init
    <2>2. QED BY <2>1, DefaultsAreAConfig, SMTT(20) DEF Init, TypeOK, PcSet,
             Paths, Interlocks
  <1>2. LiveInv
    BY SMTT(20) DEF Init, LiveInv, LiveOnlyWithAllClear, ClearingInv, ReleaseInv,
       DarkConfigInv
  <1>3. PolarityInv BY SMTT(20) DEF Init, PolarityInv, PolarityWhenLive
  <1>4. PinInv BY SMTT(20) DEF Init, PinInv, LevelFaultIsPending
  <1>5. LatchInv BY SMTT(20) DEF Init, LatchInv
  <1>6. ThermalBeforePower /\ MtpTimerNeverLive
    BY SMTT(20) DEF Init, ThermalBeforePower, MtpTimerNeverLive
  <1>7. QED BY <1>1, <1>2, <1>3, <1>4, <1>5, <1>6 DEF IInv

\* Every step keeps the types.
LEMMA TypeStep ==
  ASSUME TypeOK, PolarityInv, [Next]_vars
  PROVE  TypeOK'
  <1> USE DEF TypeOK, PcSet, Paths, Sections, Interlocks, Modules, Goto,
          Finish, PolarityInv
  <1>1. CASE SkipUnchanged BY <1>1, SMTT(20) DEF SkipUnchanged,
           AfterConfigure, Wanted
  <1>2. CASE ConfigurePwm
    <2>1. outen' \in BOOLEAN BY <1>2, Zenon DEF ConfigurePwm
    <2>2. QED BY <1>2, <2>1, SMTT(20) DEF ConfigurePwm, AfterConfigure
  <1>3. CASE ConfigureFaultProtection
    <2>1. gpioPend' \in BOOLEAN BY <1>3, Zenon DEF ConfigureFaultProtection
    <2>2. QED BY <1>3, <2>1, SMTT(20) DEF ConfigureFaultProtection,
             AfterConfigure, TripAndMask, MaskAllOutputs, Configs
  <1>4. CASE CaptureUnlessTripped BY <1>4, SMTT(20) DEF CaptureUnlessTripped,
           AfterConfigure
  <1>5. CASE CaptureReset BY <1>5, SMTT(20) DEF CaptureReset, AfterConfigure
  <1>6. CASE ThermalConfigure
    <2>1. thermApplied' \in BOOLEAN
      BY <1>6, ThermalModesAssumption, SMTT(20) DEF ThermalConfigure, Configs
    <2>2. QED BY <1>6, <2>1, SMTT(20) DEF ThermalConfigure, AfterConfigure,
             TripAndMask, MaskAllOutputs, StageMustGoDown
  <1>7. CASE AcmpFail
    <2>1. faultIrq' \in BOOLEAN BY <1>7, Zenon DEF AcmpFail
    <2>2. QED BY <1>7, <2>1, SMTT(20) DEF AcmpFail, AfterConfigure,
             MaskAllOutputs
  <1>8. CASE AcmpPark
    <2>1. faultIrq' \in BOOLEAN BY <1>8, Zenon DEF AcmpPark
    <2>2. QED BY <1>8, <2>1, SMTT(20) DEF AcmpPark, AfterConfigure
  <1>9. CASE AcmpRoutePwm1 BY <1>9, SMTT(20) DEF AcmpRoutePwm1
  <1>10. CASE AcmpRoutePwm2
    BY <1>10, LimitModesAssumption, SMTT(20) DEF AcmpRoutePwm2, Configs
  <1>11. CASE AcmpEnableIrq BY <1>11, SMTT(20) DEF AcmpEnableIrq,
           AfterConfigure, TripAndMask, MaskAllOutputs
  <1>12. CASE Settle BY <1>12, SMTT(20) DEF Settle, MaskAllOutputs
  <1>13. CASE ClearGate BY <1>13, SMTT(20) DEF ClearGate, Return
  <1>14. CASE ClearTest BY <1>14, SMTT(20) DEF ClearTest
  <1>15. CASE ClearLatchPwm1 BY <1>15, SMTT(20) DEF ClearLatchPwm1
  <1>16. CASE ClearLatchPwm2 BY <1>16, SMTT(20) DEF ClearLatchPwm2
  <1>17. CASE ClearVerify BY <1>17, SMTT(20) DEF ClearVerify, Return
  <1>18. CASE ClearAcknowledge
    <2>1. tripped' \in BOOLEAN BY <1>18, Zenon DEF ClearAcknowledge
    <2>2. QED BY <1>18, <2>1, SMTT(20) DEF ClearAcknowledge
  <1>19. CASE ReleaseGate
    <2>1. masked' \in BOOLEAN BY <1>19, Zenon DEF ReleaseGate
    <2>2. QED BY <1>19, <2>1, SMTT(20) DEF ReleaseGate, CellsToRestore
  <1>20. CASE RestoreCell BY <1>20, SMTT(20) DEF RestoreCell
  <1>21. CASE RestoreDone BY <1>21, SMTT(20) DEF RestoreDone
  <1>22. CASE CommitConnect
    <2>1. inhibited' \in BOOLEAN BY <1>22, Zenon DEF CommitConnect
    <2>2. QED BY <1>22, <2>1, SMTT(20) DEF CommitConnect
  <1>23. CASE CommitAbort BY <1>23, SMTT(20) DEF CommitAbort, MaskAllOutputs
  <1>24. CASE PostCheck BY <1>24, SMTT(20) DEF PostCheck, MaskAllOutputs
  <1>25. CASE ClearFailed BY <1>25, SMTT(20) DEF ClearFailed, Return
  <1>26. CASE ClearUnfreeze BY <1>26, SMTT(20) DEF ClearUnfreeze
  <1>27. CASE ClearEnablePwmIrq BY <1>27, SMTT(20) DEF ClearEnablePwmIrq,
           EnablePwmIrqIfRequired
  <1>28. CASE ClearRearm BY <1>28, SMTT(20) DEF ClearRearm, RearmFaultIrq,
           Return
  <1>29. CASE SetupInterlocks BY <1>29, SMTT(20) DEF SetupInterlocks
  <1>30. CASE SetupMtp BY <1>30, SMTT(20) DEF SetupMtp, MtpService
  <1>31. CASE MtpTask BY <1>31, SMTT(20) DEF MtpTask, MtpService
  <1>32. CASE ThermalTask BY <1>32, SMTT(20) DEF ThermalTask
  <1>33. CASE ApplyConfig
    <2>1. pwmIrq' \in BOOLEAN BY <1>33, Zenon DEF ApplyConfig
    <2>2. QED BY <1>33, <2>1, SMTT(20) DEF ApplyConfig, MaskAllOutputs
  <1>34. CASE ApplyTestTrip BY <1>34, SMTT(20) DEF ApplyTestTrip
  <1>35. CASE ApplyEnableIrq BY <1>35, SMTT(20) DEF ApplyEnableIrq,
           EnablePwmIrqIfRequired
  <1>36. CASE SaveTask
    <2>1. saveNeeded' \in BOOLEAN BY <1>36, Zenon DEF SaveTask
    <2>2. QED BY <1>36, <2>1, SMTT(20) DEF SaveTask
  <1>37. CASE FaultClear BY <1>37, SMTT(20) DEF FaultClear
  <1>38. CASE OtaBegin
    <2>1. pwmIrq' \in BOOLEAN BY <1>38, Zenon DEF OtaBegin
    <2>2. QED BY <1>38, <2>1, SMTT(20) DEF OtaBegin, MaskAllOutputs
  <1>39. CASE FaultTripIsr
    <2>1. gpioPend' \in BOOLEAN BY <1>39, Zenon DEF FaultTripIsr
    <2>2. QED BY <1>39, <2>1, SMTT(20) DEF FaultTripIsr, TripAndMask,
             MaskAllOutputs
  <1>40. CASE AcmpFaultIsr
    <2>1. faultIrq' \in BOOLEAN BY <1>40, Zenon DEF AcmpFaultIsr
    <2>2. QED BY <1>40, <2>1, SMTT(20) DEF AcmpFaultIsr, TripAndMask,
             MaskAllOutputs
  <1>41. CASE CarrierIsr
    <2>1. ring' \in {"empty", "rolling", "record"}
      BY <1>41, SMTT(20) DEF CarrierIsr
    <2>2. latch' \subseteq Modules
      <3>1. latch' = {} \/ latch' = latch BY <1>41, Zenon DEF CarrierIsr
      <3>2. QED BY <3>1
    <2>3. UNCHANGED <<mainVars, cfgVars, lockVars, tripped, driveVars, modVars,
                      pwmIrq, gpioVars, ocPin, routed, mode, faultIrq, thermVars,
                      mtp, taskVars>>
      BY <1>41, Zenon DEF CarrierIsr
    <2>4. QED BY <2>1, <2>2, <2>3, SMTT(20)
  <1>42. CASE PinMoves BY <1>42, SMTT(20) DEF PinMoves
  <1>43. CASE ComparatorMoves BY <1>43, SMTT(20) DEF ComparatorMoves
  <1>44. CASE Reset
    <2>1. /\ valid' \in BOOLEAN /\ tripped' \in BOOLEAN /\ masked' \in BOOLEAN
          /\ outen' \in BOOLEAN /\ inhibited' \in BOOLEAN /\ pwmIrq' \in BOOLEAN
          /\ attached' \in BOOLEAN /\ gpioPend' \in BOOLEAN
          /\ faultIrq' \in BOOLEAN /\ sample' \in BOOLEAN
          /\ thermApplied' \in BOOLEAN /\ ota' \in BOOLEAN
          /\ saveNeeded' \in BOOLEAN /\ pinSet' \in BOOLEAN
      BY <1>44, Zenon DEF Reset
    <2>2. QED BY <1>44, <2>1, DefaultsAreAConfig, SMTT(20) DEF Reset
  <1>45. CASE UNCHANGED vars BY <1>45, SMTT(20) DEF vars
  <1> QED BY <1>1, <1>2, <1>3, <1>4, <1>5, <1>6, <1>7, <1>8, <1>9, <1>10,
          <1>11, <1>12, <1>13, <1>14, <1>15, <1>16, <1>17, <1>18, <1>19,
          <1>20, <1>21, <1>22, <1>23, <1>24, <1>25, <1>26, <1>27, <1>28,
          <1>29, <1>30, <1>31, <1>32, <1>33, <1>34, <1>35, <1>36, <1>37,
          <1>38, <1>39, <1>40, <1>41, <1>42, <1>43, <1>44, <1>45, Zenon DEF
          Next, Running, ConfigStep, ClearStep, LoopTask, Interrupt,
          Environment

\* Every step keeps the all-clear behind a live gate.
LEMMA LiveStep ==
  ASSUME TypeOK, LiveInv, [Next]_vars
  PROVE  LiveInv'
  <1> USE DEF TypeOK, Goto, Finish, LiveInv, LiveOnlyWithAllClear,
          ClearingInv, ReleaseInv, DarkConfigInv, Clear, ConfigPcs, Wanted
  <1>1. CASE SkipUnchanged BY <1>1, SMTT(10) DEF SkipUnchanged,
           AfterConfigure, Wanted
  <1>2. CASE ConfigurePwm BY <1>2, SMTT(10) DEF ConfigurePwm, AfterConfigure
  <1>3. CASE ConfigureFaultProtection BY <1>3, SMTT(10) DEF
           ConfigureFaultProtection, AfterConfigure, TripAndMask,
           MaskAllOutputs
  <1>4. CASE CaptureUnlessTripped BY <1>4, SMTT(10) DEF CaptureUnlessTripped,
           AfterConfigure
  <1>5. CASE CaptureReset BY <1>5, SMTT(10) DEF CaptureReset, AfterConfigure
  <1>6. CASE ThermalConfigure BY <1>6, SMTT(10) DEF ThermalConfigure,
           AfterConfigure, TripAndMask, MaskAllOutputs, StageMustGoDown
  <1>7. CASE AcmpFail BY <1>7, SMTT(10) DEF AcmpFail, AfterConfigure,
           MaskAllOutputs
  <1>8. CASE AcmpPark BY <1>8, SMTT(10) DEF AcmpPark, AfterConfigure
  <1>9. CASE AcmpRoutePwm1 BY <1>9, SMTT(10) DEF AcmpRoutePwm1
  <1>10. CASE AcmpRoutePwm2 BY <1>10, SMTT(10) DEF AcmpRoutePwm2
  <1>11. CASE AcmpEnableIrq BY <1>11, SMTT(10) DEF AcmpEnableIrq,
           AfterConfigure, TripAndMask, MaskAllOutputs
  <1>12. CASE Settle BY <1>12, SMTT(10) DEF Settle, MaskAllOutputs
  <1>13. CASE ClearGate BY <1>13, SMTT(10) DEF ClearGate, Return,
           ClearRefused, Operator
  <1>14. CASE ClearTest BY <1>14, SMTT(10) DEF ClearTest
  <1>15. CASE ClearLatchPwm1 BY <1>15, SMTT(10) DEF ClearLatchPwm1
  <1>16. CASE ClearLatchPwm2 BY <1>16, SMTT(10) DEF ClearLatchPwm2
  <1>17. CASE ClearVerify BY <1>17, SMTT(10) DEF ClearVerify, Return
  <1>18. CASE ClearAcknowledge BY <1>18, SMTT(10) DEF ClearAcknowledge,
           Operator
  <1>19. CASE ReleaseGate BY <1>19, SMTT(10) DEF ReleaseGate, CellsToRestore,
           ReleaseAllowed, ProtectionLiveOrLatched
  <1>20. CASE RestoreCell BY <1>20, SMTT(10) DEF RestoreCell
  <1>21. CASE RestoreDone BY <1>21, SMTT(10) DEF RestoreDone
  <1>22. CASE CommitConnect BY <1>22, SMTT(10) DEF CommitConnect,
           CommitRefused, ProtectionLiveOrLatched
  <1>23. CASE CommitAbort BY <1>23, SMTT(10) DEF CommitAbort, MaskAllOutputs
  <1>24. CASE PostCheck BY <1>24, SMTT(10) DEF PostCheck, MaskAllOutputs
  <1>25. CASE ClearFailed BY <1>25, SMTT(10) DEF ClearFailed, Return
  <1>26. CASE ClearUnfreeze BY <1>26, SMTT(10) DEF ClearUnfreeze
  <1>27. CASE ClearEnablePwmIrq BY <1>27, SMTT(10) DEF ClearEnablePwmIrq,
           EnablePwmIrqIfRequired
  <1>28. CASE ClearRearm BY <1>28, SMTT(10) DEF ClearRearm, RearmFaultIrq,
           Return
  <1>29. CASE SetupInterlocks BY <1>29, SMTT(10) DEF SetupInterlocks
  <1>30. CASE SetupMtp BY <1>30, SMTT(10) DEF SetupMtp, MtpService
  <1>31. CASE MtpTask BY <1>31, SMTT(10) DEF MtpTask, MtpService
  <1>32. CASE ThermalTask BY <1>32, SMTT(10) DEF ThermalTask
  <1>33. CASE ApplyConfig BY <1>33, SMTT(10) DEF ApplyConfig, MaskAllOutputs,
           MustMask
  <1>34. CASE ApplyTestTrip BY <1>34, SMTT(10) DEF ApplyTestTrip
  <1>35. CASE ApplyEnableIrq BY <1>35, SMTT(10) DEF ApplyEnableIrq,
           EnablePwmIrqIfRequired
  <1>36. CASE SaveTask BY <1>36, SMTT(10) DEF SaveTask
  <1>37. CASE FaultClear BY <1>37, SMTT(10) DEF FaultClear
  <1>38. CASE OtaBegin BY <1>38, SMTT(10) DEF OtaBegin, MaskAllOutputs
  <1>39. CASE FaultTripIsr BY <1>39, SMTT(10) DEF FaultTripIsr, TripAndMask,
           MaskAllOutputs
  <1>40. CASE AcmpFaultIsr BY <1>40, SMTT(10) DEF AcmpFaultIsr, TripAndMask,
           MaskAllOutputs
  <1>41. CASE CarrierIsr BY <1>41, SMTT(10) DEF CarrierIsr
  <1>42. CASE PinMoves BY <1>42, SMTT(10) DEF PinMoves
  <1>43. CASE ComparatorMoves BY <1>43, SMTT(10) DEF ComparatorMoves
  <1>44. CASE Reset BY <1>44, SMTT(10) DEF Reset
  <1>45. CASE UNCHANGED vars BY <1>45, SMTT(20) DEF vars
  <1> QED BY <1>1, <1>2, <1>3, <1>4, <1>5, <1>6, <1>7, <1>8, <1>9, <1>10,
          <1>11, <1>12, <1>13, <1>14, <1>15, <1>16, <1>17, <1>18, <1>19,
          <1>20, <1>21, <1>22, <1>23, <1>24, <1>25, <1>26, <1>27, <1>28,
          <1>29, <1>30, <1>31, <1>32, <1>33, <1>34, <1>35, <1>36, <1>37,
          <1>38, <1>39, <1>40, <1>41, <1>42, <1>43, <1>44, <1>45, Zenon DEF
          Next, Running, ConfigStep, ClearStep, LoopTask, Interrupt,
          Environment

\* Every step keeps the polarity behind a live gate.
LEMMA PolarityStep ==
  ASSUME TypeOK, LiveInv, PolarityInv, TypeOK', LiveInv', [Next]_vars
  PROVE  PolarityInv'
  <1> USE DEF TypeOK, Goto, Finish, PolarityInv, PolarityWhenLive
  <1>1. CASE SkipUnchanged BY <1>1, SMTT(10) DEF SkipUnchanged,
           AfterConfigure, Wanted
  <1>2. CASE ConfigurePwm BY <1>2, SMTT(10) DEF ConfigurePwm, AfterConfigure
  <1>3. CASE ConfigureFaultProtection BY <1>3, SMTT(10) DEF
           ConfigureFaultProtection, AfterConfigure, TripAndMask,
           MaskAllOutputs
  <1>4. CASE CaptureUnlessTripped BY <1>4, SMTT(10) DEF CaptureUnlessTripped,
           AfterConfigure
  <1>5. CASE CaptureReset BY <1>5, SMTT(10) DEF CaptureReset, AfterConfigure
  <1>6. CASE ThermalConfigure BY <1>6, SMTT(10) DEF ThermalConfigure,
           AfterConfigure, TripAndMask, MaskAllOutputs, StageMustGoDown
  <1>7. CASE AcmpFail BY <1>7, SMTT(10) DEF AcmpFail, AfterConfigure,
           MaskAllOutputs
  <1>8. CASE AcmpPark BY <1>8, SMTT(10) DEF AcmpPark, AfterConfigure
  <1>9. CASE AcmpRoutePwm1 BY <1>9, SMTT(10) DEF AcmpRoutePwm1
  <1>10. CASE AcmpRoutePwm2 BY <1>10, SMTT(10) DEF AcmpRoutePwm2
  <1>11. CASE AcmpEnableIrq
    <2>1. OnlyDarkens BY <1>11, Zenon DEF OnlyDarkens, AcmpEnableIrq, AfterConfigure,
           TripAndMask, MaskAllOutputs
    <2>2. QED BY <1>11, <2>1, SMTT(10) DEF OnlyDarkens, AcmpEnableIrq, AfterConfigure
  <1>12. CASE Settle
    <2>1. OnlyDarkens BY <1>12, Zenon DEF OnlyDarkens, Settle, MaskAllOutputs
    <2>2. QED BY <1>12, <2>1, SMTT(10) DEF OnlyDarkens, Settle
  <1>13. CASE ClearGate BY <1>13, SMTT(10) DEF ClearGate, Return
  <1>14. CASE ClearTest BY <1>14, SMTT(10) DEF ClearTest
  <1>15. CASE ClearLatchPwm1 BY <1>15, SMTT(10) DEF ClearLatchPwm1
  <1>16. CASE ClearLatchPwm2 BY <1>16, SMTT(10) DEF ClearLatchPwm2
  <1>17. CASE ClearVerify BY <1>17, SMTT(10) DEF ClearVerify, Return
  <1>18. CASE ClearAcknowledge BY <1>18, SMTT(10) DEF ClearAcknowledge
  <1>19. CASE ReleaseGate BY <1>19, SMTT(10) DEF ReleaseGate, CellsToRestore
  <1>20. CASE RestoreCell BY <1>20, SMTT(10) DEF RestoreCell
  <1>21. CASE RestoreDone BY <1>21, SMTT(10) DEF RestoreDone
  <1>22. CASE CommitConnect BY <1>22, SMTT(10) DEF CommitConnect,
           CommitRefused
  <1>23. CASE CommitAbort
    <2>1. OnlyDarkens BY <1>23, Zenon DEF OnlyDarkens, CommitAbort, MaskAllOutputs
    <2>2. QED BY <1>23, <2>1, SMTT(10) DEF OnlyDarkens, CommitAbort
  <1>24. CASE PostCheck
    <2>1. OnlyDarkens BY <1>24, Zenon DEF OnlyDarkens, PostCheck, MaskAllOutputs
    <2>2. QED BY <1>24, <2>1, SMTT(10) DEF OnlyDarkens, PostCheck
  <1>25. CASE ClearFailed BY <1>25, SMTT(10) DEF ClearFailed, Return
  <1>26. CASE ClearUnfreeze BY <1>26, SMTT(10) DEF ClearUnfreeze
  <1>27. CASE ClearEnablePwmIrq BY <1>27, SMTT(10) DEF ClearEnablePwmIrq,
           EnablePwmIrqIfRequired
  <1>28. CASE ClearRearm BY <1>28, SMTT(10) DEF ClearRearm, RearmFaultIrq,
           Return
  <1>29. CASE SetupInterlocks BY <1>29, SMTT(10) DEF SetupInterlocks
  <1>30. CASE SetupMtp BY <1>30, SMTT(10) DEF SetupMtp, MtpService
  <1>31. CASE MtpTask BY <1>31, SMTT(10) DEF MtpTask, MtpService
  <1>32. CASE ThermalTask BY <1>32, SMTT(10) DEF ThermalTask
  <1>33. CASE ApplyConfig BY <1>33, SMTT(10) DEF ApplyConfig, MaskAllOutputs
  <1>34. CASE ApplyTestTrip BY <1>34, SMTT(10) DEF ApplyTestTrip
  <1>35. CASE ApplyEnableIrq BY <1>35, SMTT(10) DEF ApplyEnableIrq,
           EnablePwmIrqIfRequired
  <1>36. CASE SaveTask BY <1>36, SMTT(10) DEF SaveTask
  <1>37. CASE FaultClear BY <1>37, SMTT(10) DEF FaultClear
  <1>38. CASE OtaBegin BY <1>38, SMTT(10) DEF OtaBegin, MaskAllOutputs
  <1>39. CASE FaultTripIsr
    <2>1. OnlyDarkens BY <1>39, Zenon DEF OnlyDarkens, FaultTripIsr, TripAndMask,
           MaskAllOutputs
    <2>2. QED BY <1>39, <2>1, SMTT(10) DEF OnlyDarkens, FaultTripIsr
  <1>40. CASE AcmpFaultIsr
    <2>1. OnlyDarkens BY <1>40, Zenon DEF OnlyDarkens, AcmpFaultIsr, TripAndMask,
           MaskAllOutputs
    <2>2. QED BY <1>40, <2>1, SMTT(10) DEF OnlyDarkens, AcmpFaultIsr
  <1>41. CASE CarrierIsr BY <1>41, SMTT(10) DEF CarrierIsr
  <1>42. CASE PinMoves BY <1>42, SMTT(10) DEF PinMoves
  <1>43. CASE ComparatorMoves BY <1>43, SMTT(10) DEF ComparatorMoves
  <1>44. CASE Reset BY <1>44, SMTT(10) DEF Reset
  <1>45. CASE UNCHANGED vars BY <1>45, SMTT(20) DEF vars
  <1> QED BY <1>1, <1>2, <1>3, <1>4, <1>5, <1>6, <1>7, <1>8, <1>9, <1>10,
          <1>11, <1>12, <1>13, <1>14, <1>15, <1>16, <1>17, <1>18, <1>19,
          <1>20, <1>21, <1>22, <1>23, <1>24, <1>25, <1>26, <1>27, <1>28,
          <1>29, <1>30, <1>31, <1>32, <1>33, <1>34, <1>35, <1>36, <1>37,
          <1>38, <1>39, <1>40, <1>41, <1>42, <1>43, <1>44, <1>45, Zenon DEF
          Next, Running, ConfigStep, ClearStep, LoopTask, Interrupt,
          Environment

\* Every step keeps an edge pending for an active pin.
LEMMA PinStep ==
  ASSUME TypeOK, LiveInv, PinInv, TypeOK', LiveInv', [Next]_vars
  PROVE  PinInv'
  <1> USE DEF TypeOK, Goto, Finish, PinInv, LevelFaultIsPending, LiveInv,
          DarkConfigInv, ConfigPcs, Wanted
  <1>1. CASE SkipUnchanged BY <1>1, SMTT(10) DEF SkipUnchanged,
           AfterConfigure, Wanted
  <1>2. CASE ConfigurePwm BY <1>2, SMTT(10) DEF ConfigurePwm, AfterConfigure
  <1>3. CASE ConfigureFaultProtection BY <1>3, SMTT(10) DEF
           ConfigureFaultProtection, AfterConfigure, TripAndMask,
           MaskAllOutputs
  <1>4. CASE CaptureUnlessTripped BY <1>4, SMTT(10) DEF CaptureUnlessTripped,
           AfterConfigure
  <1>5. CASE CaptureReset BY <1>5, SMTT(10) DEF CaptureReset, AfterConfigure
  <1>6. CASE ThermalConfigure BY <1>6, SMTT(10) DEF ThermalConfigure,
           AfterConfigure, TripAndMask, MaskAllOutputs, StageMustGoDown
  <1>7. CASE AcmpFail BY <1>7, SMTT(10) DEF AcmpFail, AfterConfigure,
           MaskAllOutputs
  <1>8. CASE AcmpPark BY <1>8, SMTT(10) DEF AcmpPark, AfterConfigure
  <1>9. CASE AcmpRoutePwm1 BY <1>9, SMTT(10) DEF AcmpRoutePwm1
  <1>10. CASE AcmpRoutePwm2 BY <1>10, SMTT(10) DEF AcmpRoutePwm2
  <1>11. CASE AcmpEnableIrq BY <1>11, SMTT(10) DEF AcmpEnableIrq,
           AfterConfigure, TripAndMask, MaskAllOutputs
  <1>12. CASE Settle BY <1>12, SMTT(10) DEF Settle, MaskAllOutputs
  <1>13. CASE ClearGate BY <1>13, SMTT(10) DEF ClearGate, Return
  <1>14. CASE ClearTest BY <1>14, SMTT(10) DEF ClearTest
  <1>15. CASE ClearLatchPwm1 BY <1>15, SMTT(10) DEF ClearLatchPwm1
  <1>16. CASE ClearLatchPwm2 BY <1>16, SMTT(10) DEF ClearLatchPwm2
  <1>17. CASE ClearVerify BY <1>17, SMTT(10) DEF ClearVerify, Return
  <1>18. CASE ClearAcknowledge BY <1>18, SMTT(10) DEF ClearAcknowledge
  <1>19. CASE ReleaseGate BY <1>19, SMTT(10) DEF ReleaseGate, CellsToRestore
  <1>20. CASE RestoreCell BY <1>20, SMTT(10) DEF RestoreCell
  <1>21. CASE RestoreDone BY <1>21, SMTT(10) DEF RestoreDone
  <1>22. CASE CommitConnect BY <1>22, SMTT(10) DEF CommitConnect,
           CommitRefused, ProtectionLiveOrLatched
  <1>23. CASE CommitAbort BY <1>23, SMTT(10) DEF CommitAbort, MaskAllOutputs
  <1>24. CASE PostCheck BY <1>24, SMTT(10) DEF PostCheck, MaskAllOutputs
  <1>25. CASE ClearFailed BY <1>25, SMTT(10) DEF ClearFailed, Return
  <1>26. CASE ClearUnfreeze BY <1>26, SMTT(10) DEF ClearUnfreeze
  <1>27. CASE ClearEnablePwmIrq BY <1>27, SMTT(10) DEF ClearEnablePwmIrq,
           EnablePwmIrqIfRequired
  <1>28. CASE ClearRearm BY <1>28, SMTT(10) DEF ClearRearm, RearmFaultIrq,
           Return
  <1>29. CASE SetupInterlocks BY <1>29, SMTT(10) DEF SetupInterlocks
  <1>30. CASE SetupMtp BY <1>30, SMTT(10) DEF SetupMtp, MtpService
  <1>31. CASE MtpTask BY <1>31, SMTT(10) DEF MtpTask, MtpService
  <1>32. CASE ThermalTask BY <1>32, SMTT(10) DEF ThermalTask
  <1>33. CASE ApplyConfig BY <1>33, SMTT(10) DEF ApplyConfig, MaskAllOutputs,
           MustMask
  <1>34. CASE ApplyTestTrip BY <1>34, SMTT(10) DEF ApplyTestTrip
  <1>35. CASE ApplyEnableIrq BY <1>35, SMTT(10) DEF ApplyEnableIrq,
           EnablePwmIrqIfRequired
  <1>36. CASE SaveTask BY <1>36, SMTT(10) DEF SaveTask
  <1>37. CASE FaultClear BY <1>37, SMTT(10) DEF FaultClear
  <1>38. CASE OtaBegin BY <1>38, SMTT(10) DEF OtaBegin, MaskAllOutputs
  <1>39. CASE FaultTripIsr
    <2>1. ~outen' BY <1>39, Zenon DEF FaultTripIsr, TripAndMask, MaskAllOutputs
    <2>2. UNCHANGED <<mainVars, cfgVars, attached>>
      BY <1>39, Zenon DEF FaultTripIsr
    <2>3. QED BY <2>1, <2>2, SMTT(10)
  <1>40. CASE AcmpFaultIsr BY <1>40, SMTT(10) DEF AcmpFaultIsr, TripAndMask,
           MaskAllOutputs
  <1>41. CASE CarrierIsr BY <1>41, SMTT(10) DEF CarrierIsr
  <1>42. CASE PinMoves BY <1>42, SMTT(10) DEF PinMoves
  <1>43. CASE ComparatorMoves BY <1>43, SMTT(10) DEF ComparatorMoves
  <1>44. CASE Reset BY <1>44, SMTT(10) DEF Reset
  <1>45. CASE UNCHANGED vars BY <1>45, SMTT(20) DEF vars
  <1> QED BY <1>1, <1>2, <1>3, <1>4, <1>5, <1>6, <1>7, <1>8, <1>9, <1>10,
          <1>11, <1>12, <1>13, <1>14, <1>15, <1>16, <1>17, <1>18, <1>19,
          <1>20, <1>21, <1>22, <1>23, <1>24, <1>25, <1>26, <1>27, <1>28,
          <1>29, <1>30, <1>31, <1>32, <1>33, <1>34, <1>35, <1>36, <1>37,
          <1>38, <1>39, <1>40, <1>41, <1>42, <1>43, <1>44, <1>45, Zenon DEF
          Next, Running, ConfigStep, ClearStep, LoopTask, Interrupt,
          Environment

\* Every step keeps a latch visible to the interrupt that mirrors it.
LEMMA LatchStep ==
  ASSUME TypeOK, LiveInv, LatchInv, [Next]_vars
  PROVE  LatchInv'
  <1> USE DEF TypeOK, Goto, Finish, LatchInv, FaultLatched, Modules, LiveInv,
          LiveOnlyWithAllClear, Clear, ClearingInv, DarkConfigInv, ConfigPcs,
          Wanted
  <1>1. CASE SkipUnchanged BY <1>1, SMTT(10) DEF SkipUnchanged,
           AfterConfigure, Wanted
  <1>2. CASE ConfigurePwm BY <1>2, SMTT(10) DEF ConfigurePwm, AfterConfigure
  <1>3. CASE ConfigureFaultProtection BY <1>3, SMTT(10) DEF
           ConfigureFaultProtection, AfterConfigure, TripAndMask,
           MaskAllOutputs
  <1>4. CASE CaptureUnlessTripped BY <1>4, SMTT(10) DEF CaptureUnlessTripped,
           AfterConfigure
  <1>5. CASE CaptureReset BY <1>5, SMTT(10) DEF CaptureReset, AfterConfigure
  <1>6. CASE ThermalConfigure BY <1>6, SMTT(10) DEF ThermalConfigure,
           AfterConfigure, TripAndMask, MaskAllOutputs, StageMustGoDown
  <1>7. CASE AcmpFail BY <1>7, SMTT(10) DEF AcmpFail, AfterConfigure,
           MaskAllOutputs
  <1>8. CASE AcmpPark BY <1>8, SMTT(10) DEF AcmpPark, AfterConfigure
  <1>9. CASE AcmpRoutePwm1 BY <1>9, SMTT(10) DEF AcmpRoutePwm1
  <1>10. CASE AcmpRoutePwm2 BY <1>10, SMTT(10) DEF AcmpRoutePwm2
  <1>11. CASE AcmpEnableIrq BY <1>11, SMTT(10) DEF AcmpEnableIrq,
           AfterConfigure, TripAndMask, MaskAllOutputs
  <1>12. CASE Settle BY <1>12, SMTT(10) DEF Settle, MaskAllOutputs
  <1>13. CASE ClearGate BY <1>13, SMTT(10) DEF ClearGate, Return
  <1>14. CASE ClearTest BY <1>14, SMTT(10) DEF ClearTest
  <1>15. CASE ClearLatchPwm1 BY <1>15, SMTT(10) DEF ClearLatchPwm1
  <1>16. CASE ClearLatchPwm2 BY <1>16, SMTT(10) DEF ClearLatchPwm2
  <1>17. CASE ClearVerify BY <1>17, SMTT(10) DEF ClearVerify, Return
  <1>18. CASE ClearAcknowledge BY <1>18, SMTT(10) DEF ClearAcknowledge
  <1>19. CASE ReleaseGate BY <1>19, SMTT(10) DEF ReleaseGate, CellsToRestore
  <1>20. CASE RestoreCell BY <1>20, SMTT(10) DEF RestoreCell
  <1>21. CASE RestoreDone BY <1>21, SMTT(10) DEF RestoreDone
  <1>22. CASE CommitConnect BY <1>22, SMTT(10) DEF CommitConnect,
           CommitRefused, ProtectionLiveOrLatched
  <1>23. CASE CommitAbort BY <1>23, SMTT(10) DEF CommitAbort, MaskAllOutputs
  <1>24. CASE PostCheck BY <1>24, SMTT(10) DEF PostCheck, MaskAllOutputs
  <1>25. CASE ClearFailed BY <1>25, SMTT(10) DEF ClearFailed, Return
  <1>26. CASE ClearUnfreeze BY <1>26, SMTT(10) DEF ClearUnfreeze
  <1>27. CASE ClearEnablePwmIrq BY <1>27, SMTT(10) DEF ClearEnablePwmIrq,
           EnablePwmIrqIfRequired
  <1>28. CASE ClearRearm BY <1>28, SMTT(10) DEF ClearRearm, RearmFaultIrq,
           Return
  <1>29. CASE SetupInterlocks BY <1>29, SMTT(10) DEF SetupInterlocks
  <1>30. CASE SetupMtp BY <1>30, SMTT(10) DEF SetupMtp, MtpService
  <1>31. CASE MtpTask BY <1>31, SMTT(10) DEF MtpTask, MtpService
  <1>32. CASE ThermalTask BY <1>32, SMTT(10) DEF ThermalTask
  <1>33. CASE ApplyConfig BY <1>33, SMTT(10) DEF ApplyConfig, MaskAllOutputs
  <1>34. CASE ApplyTestTrip BY <1>34, SMTT(10) DEF ApplyTestTrip
  <1>35. CASE ApplyEnableIrq BY <1>35, SMTT(10) DEF ApplyEnableIrq,
           EnablePwmIrqIfRequired
  <1>36. CASE SaveTask BY <1>36, SMTT(10) DEF SaveTask
  <1>37. CASE FaultClear BY <1>37, SMTT(10) DEF FaultClear
  <1>38. CASE OtaBegin BY <1>38, SMTT(10) DEF OtaBegin, MaskAllOutputs
  <1>39. CASE FaultTripIsr BY <1>39, SMTT(10) DEF FaultTripIsr, TripAndMask,
           MaskAllOutputs
  <1>40. CASE AcmpFaultIsr BY <1>40, SMTT(10) DEF AcmpFaultIsr, TripAndMask,
           MaskAllOutputs
  <1>41. CASE CarrierIsr BY <1>41, SMTT(10) DEF CarrierIsr
  <1>42. CASE PinMoves BY <1>42, SMTT(10) DEF PinMoves
  <1>43. CASE ComparatorMoves BY <1>43, SMTT(10) DEF ComparatorMoves
  <1>44. CASE Reset BY <1>44, SMTT(10) DEF Reset
  <1>45. CASE UNCHANGED vars BY <1>45, SMTT(20) DEF vars
  <1> QED BY <1>1, <1>2, <1>3, <1>4, <1>5, <1>6, <1>7, <1>8, <1>9, <1>10,
          <1>11, <1>12, <1>13, <1>14, <1>15, <1>16, <1>17, <1>18, <1>19,
          <1>20, <1>21, <1>22, <1>23, <1>24, <1>25, <1>26, <1>27, <1>28,
          <1>29, <1>30, <1>31, <1>32, <1>33, <1>34, <1>35, <1>36, <1>37,
          <1>38, <1>39, <1>40, <1>41, <1>42, <1>43, <1>44, <1>45, Zenon DEF
          Next, Running, ConfigStep, ClearStep, LoopTask, Interrupt,
          Environment

\* Every step keeps a sample behind a live gate.
LEMMA ThermalStep ==
  ASSUME TypeOK, LiveInv, ThermalBeforePower, [Next]_vars
  PROVE  ThermalBeforePower'
  <1> USE DEF TypeOK, Goto, Finish, ThermalBeforePower, LiveInv,
          LiveOnlyWithAllClear, DarkConfigInv, ConfigPcs, Wanted
  <1>1. CASE SkipUnchanged BY <1>1, SMTT(10) DEF SkipUnchanged,
           AfterConfigure, Wanted
  <1>2. CASE ConfigurePwm BY <1>2, SMTT(10) DEF ConfigurePwm, AfterConfigure
  <1>3. CASE ConfigureFaultProtection BY <1>3, SMTT(10) DEF
           ConfigureFaultProtection, AfterConfigure, TripAndMask,
           MaskAllOutputs
  <1>4. CASE CaptureUnlessTripped BY <1>4, SMTT(10) DEF CaptureUnlessTripped,
           AfterConfigure
  <1>5. CASE CaptureReset BY <1>5, SMTT(10) DEF CaptureReset, AfterConfigure
  <1>6. CASE ThermalConfigure BY <1>6, SMTT(10) DEF ThermalConfigure,
           AfterConfigure, TripAndMask, MaskAllOutputs, StageMustGoDown
  <1>7. CASE AcmpFail BY <1>7, SMTT(10) DEF AcmpFail, AfterConfigure,
           MaskAllOutputs
  <1>8. CASE AcmpPark BY <1>8, SMTT(10) DEF AcmpPark, AfterConfigure
  <1>9. CASE AcmpRoutePwm1 BY <1>9, SMTT(10) DEF AcmpRoutePwm1
  <1>10. CASE AcmpRoutePwm2 BY <1>10, SMTT(10) DEF AcmpRoutePwm2
  <1>11. CASE AcmpEnableIrq BY <1>11, SMTT(10) DEF AcmpEnableIrq,
           AfterConfigure, TripAndMask, MaskAllOutputs
  <1>12. CASE Settle BY <1>12, SMTT(10) DEF Settle, MaskAllOutputs
  <1>13. CASE ClearGate BY <1>13, SMTT(10) DEF ClearGate, Return
  <1>14. CASE ClearTest BY <1>14, SMTT(10) DEF ClearTest
  <1>15. CASE ClearLatchPwm1 BY <1>15, SMTT(10) DEF ClearLatchPwm1
  <1>16. CASE ClearLatchPwm2 BY <1>16, SMTT(10) DEF ClearLatchPwm2
  <1>17. CASE ClearVerify BY <1>17, SMTT(10) DEF ClearVerify, Return
  <1>18. CASE ClearAcknowledge BY <1>18, SMTT(10) DEF ClearAcknowledge
  <1>19. CASE ReleaseGate BY <1>19, SMTT(10) DEF ReleaseGate, CellsToRestore
  <1>20. CASE RestoreCell BY <1>20, SMTT(10) DEF RestoreCell
  <1>21. CASE RestoreDone BY <1>21, SMTT(10) DEF RestoreDone
  <1>22. CASE CommitConnect BY <1>22, SMTT(10) DEF CommitConnect,
           CommitRefused, ThermalAllows
  <1>23. CASE CommitAbort BY <1>23, SMTT(10) DEF CommitAbort, MaskAllOutputs
  <1>24. CASE PostCheck BY <1>24, SMTT(10) DEF PostCheck, MaskAllOutputs
  <1>25. CASE ClearFailed BY <1>25, SMTT(10) DEF ClearFailed, Return
  <1>26. CASE ClearUnfreeze BY <1>26, SMTT(10) DEF ClearUnfreeze
  <1>27. CASE ClearEnablePwmIrq BY <1>27, SMTT(10) DEF ClearEnablePwmIrq,
           EnablePwmIrqIfRequired
  <1>28. CASE ClearRearm BY <1>28, SMTT(10) DEF ClearRearm, RearmFaultIrq,
           Return
  <1>29. CASE SetupInterlocks BY <1>29, SMTT(10) DEF SetupInterlocks
  <1>30. CASE SetupMtp BY <1>30, SMTT(10) DEF SetupMtp, MtpService
  <1>31. CASE MtpTask BY <1>31, SMTT(10) DEF MtpTask, MtpService
  <1>32. CASE ThermalTask BY <1>32, SMTT(10) DEF ThermalTask
  <1>33. CASE ApplyConfig BY <1>33, SMTT(10) DEF ApplyConfig, MaskAllOutputs
  <1>34. CASE ApplyTestTrip BY <1>34, SMTT(10) DEF ApplyTestTrip
  <1>35. CASE ApplyEnableIrq BY <1>35, SMTT(10) DEF ApplyEnableIrq,
           EnablePwmIrqIfRequired
  <1>36. CASE SaveTask BY <1>36, SMTT(10) DEF SaveTask
  <1>37. CASE FaultClear BY <1>37, SMTT(10) DEF FaultClear
  <1>38. CASE OtaBegin BY <1>38, SMTT(10) DEF OtaBegin, MaskAllOutputs
  <1>39. CASE FaultTripIsr BY <1>39, SMTT(10) DEF FaultTripIsr, TripAndMask,
           MaskAllOutputs
  <1>40. CASE AcmpFaultIsr BY <1>40, SMTT(10) DEF AcmpFaultIsr, TripAndMask,
           MaskAllOutputs
  <1>41. CASE CarrierIsr BY <1>41, SMTT(10) DEF CarrierIsr
  <1>42. CASE PinMoves BY <1>42, SMTT(10) DEF PinMoves
  <1>43. CASE ComparatorMoves BY <1>43, SMTT(10) DEF ComparatorMoves
  <1>44. CASE Reset BY <1>44, SMTT(10) DEF Reset
  <1>45. CASE UNCHANGED vars BY <1>45, SMTT(20) DEF vars
  <1> QED BY <1>1, <1>2, <1>3, <1>4, <1>5, <1>6, <1>7, <1>8, <1>9, <1>10,
          <1>11, <1>12, <1>13, <1>14, <1>15, <1>16, <1>17, <1>18, <1>19,
          <1>20, <1>21, <1>22, <1>23, <1>24, <1>25, <1>26, <1>27, <1>28,
          <1>29, <1>30, <1>31, <1>32, <1>33, <1>34, <1>35, <1>36, <1>37,
          <1>38, <1>39, <1>40, <1>41, <1>42, <1>43, <1>44, <1>45, Zenon DEF
          Next, Running, ConfigStep, ClearStep, LoopTask, Interrupt,
          Environment

\* Every step keeps the filesystem timer away from a live gate.
LEMMA MtpStep ==
  ASSUME TypeOK, LiveInv, MtpTimerNeverLive, [Next]_vars
  PROVE  MtpTimerNeverLive'
  <1> USE DEF TypeOK, Goto, Finish, MtpTimerNeverLive, LiveInv,
          LiveOnlyWithAllClear
  <1>1. CASE SkipUnchanged BY <1>1, SMTT(10) DEF SkipUnchanged,
           AfterConfigure, Wanted
  <1>2. CASE ConfigurePwm BY <1>2, SMTT(10) DEF ConfigurePwm, AfterConfigure
  <1>3. CASE ConfigureFaultProtection BY <1>3, SMTT(10) DEF
           ConfigureFaultProtection, AfterConfigure, TripAndMask,
           MaskAllOutputs
  <1>4. CASE CaptureUnlessTripped BY <1>4, SMTT(10) DEF CaptureUnlessTripped,
           AfterConfigure
  <1>5. CASE CaptureReset BY <1>5, SMTT(10) DEF CaptureReset, AfterConfigure
  <1>6. CASE ThermalConfigure BY <1>6, SMTT(10) DEF ThermalConfigure,
           AfterConfigure, TripAndMask, MaskAllOutputs, StageMustGoDown
  <1>7. CASE AcmpFail BY <1>7, SMTT(10) DEF AcmpFail, AfterConfigure,
           MaskAllOutputs
  <1>8. CASE AcmpPark BY <1>8, SMTT(10) DEF AcmpPark, AfterConfigure
  <1>9. CASE AcmpRoutePwm1 BY <1>9, SMTT(10) DEF AcmpRoutePwm1
  <1>10. CASE AcmpRoutePwm2 BY <1>10, SMTT(10) DEF AcmpRoutePwm2
  <1>11. CASE AcmpEnableIrq BY <1>11, SMTT(10) DEF AcmpEnableIrq,
           AfterConfigure, TripAndMask, MaskAllOutputs
  <1>12. CASE Settle BY <1>12, SMTT(10) DEF Settle, MaskAllOutputs
  <1>13. CASE ClearGate BY <1>13, SMTT(10) DEF ClearGate, Return
  <1>14. CASE ClearTest BY <1>14, SMTT(10) DEF ClearTest
  <1>15. CASE ClearLatchPwm1 BY <1>15, SMTT(10) DEF ClearLatchPwm1
  <1>16. CASE ClearLatchPwm2 BY <1>16, SMTT(10) DEF ClearLatchPwm2
  <1>17. CASE ClearVerify BY <1>17, SMTT(10) DEF ClearVerify, Return
  <1>18. CASE ClearAcknowledge BY <1>18, SMTT(10) DEF ClearAcknowledge
  <1>19. CASE ReleaseGate BY <1>19, SMTT(10) DEF ReleaseGate, CellsToRestore
  <1>20. CASE RestoreCell BY <1>20, SMTT(10) DEF RestoreCell
  <1>21. CASE RestoreDone BY <1>21, SMTT(10) DEF RestoreDone
  <1>22. CASE CommitConnect BY <1>22, SMTT(10) DEF CommitConnect,
           CommitRefused, MtpAllows
  <1>23. CASE CommitAbort BY <1>23, SMTT(10) DEF CommitAbort, MaskAllOutputs
  <1>24. CASE PostCheck BY <1>24, SMTT(10) DEF PostCheck, MaskAllOutputs
  <1>25. CASE ClearFailed BY <1>25, SMTT(10) DEF ClearFailed, Return
  <1>26. CASE ClearUnfreeze BY <1>26, SMTT(10) DEF ClearUnfreeze
  <1>27. CASE ClearEnablePwmIrq BY <1>27, SMTT(10) DEF ClearEnablePwmIrq,
           EnablePwmIrqIfRequired
  <1>28. CASE ClearRearm BY <1>28, SMTT(10) DEF ClearRearm, RearmFaultIrq,
           Return
  <1>29. CASE SetupInterlocks BY <1>29, SMTT(10) DEF SetupInterlocks
  <1>30. CASE SetupMtp BY <1>30, SMTT(10) DEF SetupMtp, MtpService,
           MtpMayBegin
  <1>31. CASE MtpTask BY <1>31, SMTT(10) DEF MtpTask, MtpService, MtpMayBegin
  <1>32. CASE ThermalTask BY <1>32, SMTT(10) DEF ThermalTask
  <1>33. CASE ApplyConfig BY <1>33, SMTT(10) DEF ApplyConfig, MaskAllOutputs
  <1>34. CASE ApplyTestTrip BY <1>34, SMTT(10) DEF ApplyTestTrip
  <1>35. CASE ApplyEnableIrq BY <1>35, SMTT(10) DEF ApplyEnableIrq,
           EnablePwmIrqIfRequired
  <1>36. CASE SaveTask BY <1>36, SMTT(10) DEF SaveTask
  <1>37. CASE FaultClear BY <1>37, SMTT(10) DEF FaultClear
  <1>38. CASE OtaBegin BY <1>38, SMTT(10) DEF OtaBegin, MaskAllOutputs
  <1>39. CASE FaultTripIsr BY <1>39, SMTT(10) DEF FaultTripIsr, TripAndMask,
           MaskAllOutputs
  <1>40. CASE AcmpFaultIsr BY <1>40, SMTT(10) DEF AcmpFaultIsr, TripAndMask,
           MaskAllOutputs
  <1>41. CASE CarrierIsr BY <1>41, SMTT(10) DEF CarrierIsr
  <1>42. CASE PinMoves BY <1>42, SMTT(10) DEF PinMoves
  <1>43. CASE ComparatorMoves BY <1>43, SMTT(10) DEF ComparatorMoves
  <1>44. CASE Reset BY <1>44, SMTT(10) DEF Reset
  <1>45. CASE UNCHANGED vars BY <1>45, SMTT(20) DEF vars
  <1> QED BY <1>1, <1>2, <1>3, <1>4, <1>5, <1>6, <1>7, <1>8, <1>9, <1>10,
          <1>11, <1>12, <1>13, <1>14, <1>15, <1>16, <1>17, <1>18, <1>19,
          <1>20, <1>21, <1>22, <1>23, <1>24, <1>25, <1>26, <1>27, <1>28,
          <1>29, <1>30, <1>31, <1>32, <1>33, <1>34, <1>35, <1>36, <1>37,
          <1>38, <1>39, <1>40, <1>41, <1>42, <1>43, <1>44, <1>45, Zenon DEF
          Next, Running, ConfigStep, ClearStep, LoopTask, Interrupt,
          Environment

\* While power stays on, no step withdraws a demand to shut down.
LEMMA DemandStep ==
  ASSUME TypeOK, LiveInv, LatchInv, TypeOK', LiveInv', outen, outen', [Next]_vars
  PROVE  Demand => Demand'
  <1> USE DEF TypeOK, Goto, Finish, Demand, FaultLatched, LiveInv,
          LiveOnlyWithAllClear, Clear, ClearingInv, DarkConfigInv, ConfigPcs,
          Wanted, LatchInv
  <1>1. CASE SkipUnchanged BY <1>1, SMTT(10) DEF SkipUnchanged,
           AfterConfigure, Wanted
  <1>2. CASE ConfigurePwm BY <1>2, SMTT(10) DEF ConfigurePwm, AfterConfigure
  <1>3. CASE ConfigureFaultProtection BY <1>3, SMTT(10) DEF
           ConfigureFaultProtection, AfterConfigure, TripAndMask,
           MaskAllOutputs
  <1>4. CASE CaptureUnlessTripped BY <1>4, SMTT(10) DEF CaptureUnlessTripped,
           AfterConfigure
  <1>5. CASE CaptureReset BY <1>5, SMTT(10) DEF CaptureReset, AfterConfigure
  <1>6. CASE ThermalConfigure BY <1>6, SMTT(10) DEF ThermalConfigure,
           AfterConfigure, TripAndMask, MaskAllOutputs, StageMustGoDown
  <1>7. CASE AcmpFail BY <1>7, SMTT(10) DEF AcmpFail, AfterConfigure,
           MaskAllOutputs
  <1>8. CASE AcmpPark BY <1>8, SMTT(10) DEF AcmpPark, AfterConfigure
  <1>9. CASE AcmpRoutePwm1 BY <1>9, SMTT(10) DEF AcmpRoutePwm1
  <1>10. CASE AcmpRoutePwm2 BY <1>10, SMTT(10) DEF AcmpRoutePwm2
  <1>11. CASE AcmpEnableIrq BY <1>11, SMTT(10) DEF AcmpEnableIrq,
           AfterConfigure, TripAndMask, MaskAllOutputs
  <1>12. CASE Settle BY <1>12, SMTT(10) DEF Settle, MaskAllOutputs
  <1>13. CASE ClearGate BY <1>13, SMTT(10) DEF ClearGate, Return
  <1>14. CASE ClearTest BY <1>14, SMTT(10) DEF ClearTest
  <1>15. CASE ClearLatchPwm1 BY <1>15, SMTT(10) DEF ClearLatchPwm1
  <1>16. CASE ClearLatchPwm2 BY <1>16, SMTT(10) DEF ClearLatchPwm2
  <1>17. CASE ClearVerify BY <1>17, SMTT(10) DEF ClearVerify, Return
  <1>18. CASE ClearAcknowledge BY <1>18, SMTT(10) DEF ClearAcknowledge
  <1>19. CASE ReleaseGate BY <1>19, SMTT(10) DEF ReleaseGate, CellsToRestore
  <1>20. CASE RestoreCell BY <1>20, SMTT(10) DEF RestoreCell
  <1>21. CASE RestoreDone BY <1>21, SMTT(10) DEF RestoreDone
  <1>22. CASE CommitConnect BY <1>22, SMTT(10) DEF CommitConnect
  <1>23. CASE CommitAbort BY <1>23, SMTT(10) DEF CommitAbort, MaskAllOutputs
  <1>24. CASE PostCheck BY <1>24, SMTT(10) DEF PostCheck, MaskAllOutputs
  <1>25. CASE ClearFailed BY <1>25, SMTT(10) DEF ClearFailed, Return
  <1>26. CASE ClearUnfreeze BY <1>26, SMTT(10) DEF ClearUnfreeze
  <1>27. CASE ClearEnablePwmIrq BY <1>27, SMTT(10) DEF ClearEnablePwmIrq,
           EnablePwmIrqIfRequired
  <1>28. CASE ClearRearm BY <1>28, SMTT(10) DEF ClearRearm, RearmFaultIrq,
           Return
  <1>29. CASE SetupInterlocks BY <1>29, SMTT(10) DEF SetupInterlocks
  <1>30. CASE SetupMtp BY <1>30, SMTT(10) DEF SetupMtp, MtpService
  <1>31. CASE MtpTask BY <1>31, SMTT(10) DEF MtpTask, MtpService
  <1>32. CASE ThermalTask BY <1>32, SMTT(10) DEF ThermalTask
  <1>33. CASE ApplyConfig BY <1>33, SMTT(10) DEF ApplyConfig, MaskAllOutputs,
           MustMask
  <1>34. CASE ApplyTestTrip BY <1>34, SMTT(10) DEF ApplyTestTrip
  <1>35. CASE ApplyEnableIrq BY <1>35, SMTT(10) DEF ApplyEnableIrq,
           EnablePwmIrqIfRequired
  <1>36. CASE SaveTask BY <1>36, SMTT(10) DEF SaveTask
  <1>37. CASE FaultClear BY <1>37, SMTT(10) DEF FaultClear
  <1>38. CASE OtaBegin BY <1>38, SMTT(10) DEF OtaBegin, MaskAllOutputs
  <1>39. CASE FaultTripIsr BY <1>39, SMTT(10) DEF FaultTripIsr, TripAndMask,
           MaskAllOutputs
  <1>40. CASE AcmpFaultIsr BY <1>40, SMTT(10) DEF AcmpFaultIsr, TripAndMask,
           MaskAllOutputs
  <1>41. CASE CarrierIsr BY <1>41, SMTT(10) DEF CarrierIsr
  <1>42. CASE PinMoves BY <1>42, SMTT(10) DEF PinMoves
  <1>43. CASE ComparatorMoves BY <1>43, SMTT(10) DEF ComparatorMoves
  <1>44. CASE Reset BY <1>44, SMTT(10) DEF Reset
  <1>45. CASE UNCHANGED vars BY <1>45, SMTT(20) DEF vars
  <1> QED BY <1>1, <1>2, <1>3, <1>4, <1>5, <1>6, <1>7, <1>8, <1>9, <1>10,
          <1>11, <1>12, <1>13, <1>14, <1>15, <1>16, <1>17, <1>18, <1>19,
          <1>20, <1>21, <1>22, <1>23, <1>24, <1>25, <1>26, <1>27, <1>28,
          <1>29, <1>30, <1>31, <1>32, <1>33, <1>34, <1>35, <1>36, <1>37,
          <1>38, <1>39, <1>40, <1>41, <1>42, <1>43, <1>44, <1>45, Zenon DEF
          Next, Running, ConfigStep, ClearStep, LoopTask, Interrupt,
          Environment

\* Nothing but the committed release connects the drivers.
LEMMA OnlyCommitConnects ==
  ASSUME [Next]_vars, ~outen, outen'
  PROVE  CommitConnect
  <1>1. CASE ConfigStep
    BY <1>1, Zenon DEF ConfigStep, SkipUnchanged, ConfigurePwm, ConfigureFaultProtection,
       CaptureUnlessTripped, CaptureReset, ThermalConfigure, AcmpFail, AcmpPark,
       AcmpRoutePwm1, AcmpRoutePwm2, AcmpEnableIrq, Settle, TripAndMask,
       MaskAllOutputs
  <1>2. CASE ClearStep
    BY <1>2, Zenon DEF ClearStep, ClearGate, ClearTest, ClearLatchPwm1,
       ClearLatchPwm2, ClearVerify, ClearAcknowledge, ReleaseGate, RestoreCell,
       RestoreDone, CommitAbort, PostCheck, ClearFailed, ClearUnfreeze,
       ClearEnablePwmIrq, ClearRearm, MaskAllOutputs
  <1>3. CASE SetupInterlocks \/ SetupMtp \/ ApplyTestTrip \/ ApplyEnableIrq
    BY <1>3, Zenon DEF SetupInterlocks, SetupMtp, ApplyTestTrip, ApplyEnableIrq
  <1>4. CASE LoopTask
    BY <1>4, Zenon DEF LoopTask, MtpTask, ThermalTask, ApplyConfig, SaveTask,
       FaultClear, OtaBegin, MaskAllOutputs
  <1>5. CASE Interrupt \/ Environment
    BY <1>5, Zenon DEF Interrupt, Environment, FaultTripIsr, AcmpFaultIsr,
       CarrierIsr, PinMoves, ComparatorMoves, Reset, TripAndMask, MaskAllOutputs
  <1>6. CASE UNCHANGED vars BY <1>6, Zenon DEF vars
  <1>7. QED BY <1>1, <1>2, <1>3, <1>4, <1>5, <1>6, Zenon DEF Next, Running

\* IInv is inductive.
LEMMA NextIInv == IInv /\ [Next]_vars => IInv'
  <1> SUFFICES ASSUME IInv, [Next]_vars PROVE IInv' OBVIOUS
  <1> USE DEF IInv
  <1>1. TypeOK' BY TypeStep
  <1>2. LiveInv' BY LiveStep
  <1>3. PolarityInv' BY <1>1, <1>2, PolarityStep
  <1>4. PinInv' BY <1>1, <1>2, PinStep
  <1>5. LatchInv' BY LatchStep
  <1>6. ThermalBeforePower' BY ThermalStep
  <1>7. MtpTimerNeverLive' BY MtpStep
  <1>8. QED BY <1>1, <1>2, <1>3, <1>4, <1>5, <1>6, <1>7

\* IInv holds throughout, for every set of cells and every setting.
THEOREM Inductive == Spec => []IInv
  BY InitIInv, NextIInv, PTL DEF Spec

\* Every flag, register and local keeps its type, and only the cells of the running
\* plan are ever inverted (pwm_utils.cpp).
THEOREM TypeCorrect == Spec => []TypeOK
  <1>1. IInv => TypeOK BY DEF IInv
  <1>2. QED BY <1>1, Inductive, PTL

\* Whatever interrupts whatever step, power on the pads means that no trip and no
\* interlock was in force (releaseOutputInhibit, clearFaultTrip, applyPwmConfig).
THEOREM LiveMeansAllClear == Spec => []LiveOnlyWithAllClear
  <1>1. IInv => LiveOnlyWithAllClear BY DEF IInv, LiveInv
  <1>2. QED BY <1>1, Inductive, PTL

\* Power is never on the pads with the geometry a shutdown removed, for any number
\* of inverted cells (restoreCellPolarity, maskAllOutputsSafely).
THEOREM LiveMeansPolarity == Spec => []PolarityWhenLive
  <1>1. IInv => PolarityWhenLive BY DEF IInv, PolarityInv
  <1>2. QED BY <1>1, Inductive, PTL

\* Power on the pads and an active fault pin mean a pending, attached interrupt
\* (configureFaultProtection, releaseOutputInhibit).
THEOREM LiveMeansPinWatched == Spec => []LevelFaultIsPending
  <1>1. IInv => LevelFaultIsPending BY DEF IInv, PinInv
  <1>2. QED BY <1>1, Inductive, PTL

\* Power on the pads and an overcurrent latch mean that the interrupt mirroring it
\* is enabled or about to be (acmpConfigure, acmpRearmFaultIrq).
THEOREM LiveMeansLatchWatched == Spec => []LatchReachesTheIsr
  <1>1. IInv => LatchReachesTheIsr
    BY SMTT(20) DEF IInv, LatchInv, LatchReachesTheIsr, FaultLatched
  <1>2. QED BY <1>1, Inductive, PTL

\* Outside the first steps of an apply, power on the pads with derating configured
\* means a valid sample (thermalConfigure, thermalAllowsPwmRelease).
THEOREM LiveMeansSampled == Spec => []ThermalBeforePower
  <1>1. IInv => ThermalBeforePower BY DEF IInv
  <1>2. QED BY <1>1, Inductive, PTL

\* The filesystem timer never runs under power (mtpAllowsPwmRelease).
THEOREM LiveMeansNoMtpTimer == Spec => []MtpTimerNeverLive
  <1>1. IInv => MtpTimerNeverLive BY DEF IInv
  <1>2. QED BY <1>1, Inductive, PTL

\* The step that connects the drivers finds every protection input quiet and watched
\* and the geometry in place (the noInterrupts() section of releaseOutputInhibit).
THEOREM ConnectsOnlyWhenQuiet == Spec => ConnectOnlyWhenQuiet
  <1>1. IInv /\ [Next]_vars
          => [~outen /\ outen' => ReleaseAllowed /\ inverted = invMask]_vars
    <2> SUFFICES ASSUME IInv, [Next]_vars, ~outen, outen'
                 PROVE  ReleaseAllowed /\ inverted = invMask
      BY Zenon
    <2>1. CommitConnect BY OnlyCommitConnects
    <2>2. QED BY <2>1, SMTT(20) DEF IInv, TypeOK, LiveInv, ReleaseInv, PolarityInv,
             CommitConnect, CommitRefused, ReleaseAllowed, Clear,
             ProtectionLiveOrLatched
  <1>2. QED BY <1>1, Inductive, PTL DEF Spec, ConnectOnlyWhenQuiet

\* The gate takes only steps of the abstract power stage: it connects only when
\* nothing blocks it, a blocking reason disconnects it in the same step, and a demand
\* to shut down is not withdrawn while power is on.
THEOREM GateIsAPowerStage == Spec => StepsOfPowerStage
  <1>1. Init => PS!Init
    BY Zenon DEF Init, PS!Init, Demand
  <1>2. IInv /\ [Next]_vars /\ IInv' => [PS!Next]_(PS!stage)
    <2> SUFFICES ASSUME IInv, IInv', [Next]_vars PROVE [PS!Next]_(PS!stage)
      OBVIOUS
    <2>1. outen \in BOOLEAN /\ outen' \in BOOLEAN BY DEF IInv, TypeOK
    <2>2. CASE ~outen'
      <3>1. PS!Shut BY <2>1, <2>2, Zenon DEF PS!Shut, Clear, Demand
      <3>2. QED BY <3>1 DEF PS!Next
    <2>3. CASE ~outen /\ outen'
      <3>1. CommitConnect BY <2>3, OnlyCommitConnects
      <3>2. Clear
        BY <3>1, SMTT(20) DEF IInv, TypeOK, LiveInv, ReleaseInv, CommitConnect,
           CommitRefused, Clear, ProtectionLiveOrLatched
      <3>3. UNCHANGED <<tripped, valid, inh, mode, gpioPend, latch>>
        BY <3>1, Zenon DEF CommitConnect
      <3>4. UNCHANGED <<~Clear, Demand>>
        BY <3>3, Zenon DEF Clear, Demand, FaultLatched
      <3>5. PS!Connect BY <2>1, <2>3, <3>2, <3>4, Zenon DEF PS!Connect
      <3>6. QED BY <3>5 DEF PS!Next
    <2>4. CASE outen /\ outen'
      <3>1. Clear /\ Clear' BY <2>4 DEF IInv, LiveInv, LiveOnlyWithAllClear
      <3>2. Demand => Demand' BY <2>4, DemandStep DEF IInv
      <3>3. UNCHANGED <<outen, ~Clear>> BY <2>1, <2>4, <3>1, Zenon
      <3>4. CASE Demand'
        <4>1. Demand' = TRUE BY <3>4, Zenon DEF Demand
        <4>2. PS!Raise BY <2>4, <3>3, <4>1, Zenon DEF PS!Raise
        <4>3. QED BY <4>2 DEF PS!Next
      <3>5. CASE ~Demand'
        <4>1. UNCHANGED Demand BY <3>2, <3>5, Zenon DEF Demand
        <4>2. QED BY <3>3, <4>1, Zenon DEF PS!stage
      <3>6. QED BY <3>4, <3>5
    <2>5. QED BY <2>1, <2>2, <2>3, <2>4
  <1>3. QED
    BY <1>1, <1>2, Inductive, PTL DEF Spec, StepsOfPowerStage, PS!Safety

=============================================================================
