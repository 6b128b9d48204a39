------------------------ MODULE WaveformStoreProofs ------------------------
(***************************************************************************)
(* Proofs about WaveformStore for every set of waveforms and every set of  *)
(* faults, power losses among them.                                        *)
(***************************************************************************)
EXTENDS WaveformStore, TLAPS

BeforeSwap == {"detect", "receive", "finish", "failed", "verify", "deactivate", "removeBak", "keep"}
UntilSwap == {"deactivate", "removeBak", "keep", "swap"}

\* Where an upload stands.  Until its first rename the card holds what it found and
\* nothing of the new waveform; a staging file is swapped in only after it was verified.
NewIsOnlyStaged ==
  pc \in BeforeSwap => up \in Waveforms /\ live = found /\ live # up /\ bak # up /\ reply = "none"
StagedIsWhole == pc \in UntilSwap => up \in Waveforms /\ tmp = up

\* Between the renames the found waveform is the backup.
BetweenRenames ==
  /\ pc \in {"swap", "restore"} => up \in Waveforms /\ live = None /\ bak # up
                                   /\ (found # None => bak = found)
  /\ pc = "swap" => reply = "none"
  /\ pc = "restore" => found # None /\ reply = "failed"

\* Nothing is active while the card is exchanged and before it is activated.
NothingActive ==
  pc \in {"boot", "removeBak", "keep", "swap", "restore", "activate"} => mode = "none"

Inv == /\ TypeOK /\ OnlyWholeIsLive /\ FoundIsKept /\ ActiveIsLive /\ AnswerMatchesCard
       /\ NewIsOnlyStaged /\ StagedIsWhole /\ BetweenRenames /\ NothingActive
       /\ (reply # "none" => up \in Waveforms)

\* The first boot finds an empty card, and nothing is active.
THEOREM InitInv == Init => Inv
  BY DistinctAssumption DEF Init, Inv, TypeOK, OnlyWholeIsLive, FoundIsKept, ActiveIsLive,
     AnswerMatchesCard, NewIsOnlyStaged, StagedIsWhole, BetweenRenames, NothingActive,
     PcSet, Contents, BeforeSwap, UntilSwap

\* Every operation of the card, done or failed, and every power loss keeps the invariant.
LEMMA StepInv == Inv /\ [Next]_vars => Inv'
<1> USE DistinctAssumption DEF Inv, TypeOK, OnlyWholeIsLive, FoundIsKept, ActiveIsLive,
     AnswerMatchesCard, NewIsOnlyStaged, StagedIsWhole, BetweenRenames, NothingActive,
     PcSet, Contents, BeforeSwap, UntilSwap, card, active, ram, Waveforms, Goto, Answer
<1>1. ASSUME Inv, Post PROVE Inv'
  BY <1>1, SMTT(20) DEF Post
<1>2. ASSUME Inv, UploadFails PROVE Inv'
  BY <1>2, SMTT(20) DEF UploadFails
<1>3. ASSUME Inv, OpenSink PROVE Inv'
  BY <1>3, SMTT(20) DEF OpenSink
<1>4. ASSUME Inv, ReceivePart PROVE Inv'
  BY <1>4, SMTT(20) DEF ReceivePart
<1>5. ASSUME Inv, ReceiveEnd PROVE Inv'
  BY <1>5, SMTT(20) DEF ReceiveEnd
<1>6. ASSUME Inv, SinkFails PROVE Inv'
  BY <1>6, SMTT(20) DEF SinkFails
<1>7. ASSUME Inv, Finish PROVE Inv'
  BY <1>7, SMTT(20) DEF Finish
<1>8. ASSUME Inv, Rejected PROVE Inv'
  BY <1>8, SMTT(20) DEF Rejected
<1>9. ASSUME Inv, Verify PROVE Inv'
  BY <1>9, SMTT(20) DEF Verify, Verified
<1>10. ASSUME Inv, Deactivate PROVE Inv'
  BY <1>10, SMTT(20) DEF Deactivate, Stop
<1>11. ASSUME Inv, RemoveBak PROVE Inv'
  BY <1>11, SMTT(20) DEF RemoveBak
<1>12. ASSUME Inv, Keep PROVE Inv'
  BY <1>12, SMTT(20) DEF Keep, KeptAsBak
<1>13. ASSUME Inv, Swap PROVE Inv'
  BY <1>13, SMTT(20) DEF Swap
<1>14. ASSUME Inv, Restore PROVE Inv'
  BY <1>14, SMTT(20) DEF Restore, RestoredLive
<1>15. ASSUME Inv, Activate PROVE Inv'
  BY <1>15, SMTT(20) DEF Activate, Adopt, Resident
<1>16. ASSUME Inv, ActivateFails PROVE Inv'
  BY <1>16, SMTT(20) DEF ActivateFails, Stop, Resident
<1>17. ASSUME Inv, PowerLoss PROVE Inv'
  BY <1>17, SMTT(20) DEF PowerLoss, Stop
<1>18. ASSUME Inv, LoadFromSd PROVE Inv'
  BY <1>18, SMTT(20) DEF LoadFromSd
<1>19. ASSUME Inv, UNCHANGED vars PROVE Inv'
  BY <1>19, SMTT(20) DEF vars
<1> HIDE DEF Inv
<1> QED
  BY <1>1, <1>2, <1>3, <1>4, <1>5, <1>6, <1>7, <1>8, <1>9, <1>10, <1>11, <1>12, <1>13,
     <1>14, <1>15, <1>16, <1>17, <1>18, <1>19, Zenon DEF Next, Upload, Exchange

-----------------------------------------------------------------------------
(* The theorems.                                                           *)

\* The invariant holds in every reachable state, for any waveforms and any faults.
THEOREM SpecInv == Spec => []Inv
<1> QED
  BY InitInv, StepInv, PTL DEF Spec

\* What is active is of the kind its mode plays (activateFromSd).
THEOREM SpecTypeOK == Spec => []TypeOK
<1>1. Inv => TypeOK
  BY DEF Inv
<1> QED
  BY <1>1, SpecInv, PTL

\* No failure makes a part of a waveform the live file or its backup.
THEOREM SpecOnlyWhole == Spec => []OnlyWholeIsLive
<1>1. Inv => OnlyWholeIsLive
  BY DEF Inv
<1> QED
  BY <1>1, SpecInv, PTL

\* The waveform an upload finds survives that upload, live or as the backup, whatever
\* fails and whenever power is lost (waveformApplyStream).
THEOREM SpecFoundIsKept == Spec => []FoundIsKept
<1>1. Inv => FoundIsKept
  BY DEF Inv
<1> QED
  BY <1>1, SpecInv, PTL

\* What is active is the live file.
THEOREM SpecActiveIsLive == Spec => []ActiveIsLive
<1>1. Inv => ActiveIsLive
  BY DEF Inv
<1> QED
  BY <1>1, SpecInv, PTL

\* The answer to an upload is what the card holds.
THEOREM SpecAnswerMatches == Spec => []AnswerMatchesCard
<1>1. Inv => AnswerMatchesCard
  BY DEF Inv
<1> QED
  BY <1>1, SpecInv, PTL

=============================================================================
