----------------------------- MODULE OtaProofs -----------------------------
(***************************************************************************)
(* Proofs about Ota for every set of builds, every size of flash and every *)
(* pattern of failing flash operations.                                    *)
(***************************************************************************)
EXTENDS Ota, TLAPS

\* What the steps of a commit rely on: a commit is only pending between its request
\* and otaLoopTask(); the copy runs with the network masked; an upload is unverified
\* until it is checked, and a dead board has verified nothing; after the read-back the
\* base region holds the verified image.
PendingIsFresh == commitPending => pc = "ota"
CopyIsMasked == pc \in Copying => ~enet
UploadUnverified == pc \in {"ingest", "verify", Dead} => ~verified
CopiedIsWhole == pc \in {"wipe", "reset"} => Holds(base, image)

Inv == /\ TypeOK /\ StagedIsVerified /\ BootableOutsideCommit
       /\ PendingIsFresh /\ CopyIsMasked /\ UploadUnverified /\ CopiedIsWhole

-----------------------------------------------------------------------------
(* The images.                                                             *)

\* Two images that the same region holds from its first sector are the same one: what
\* a reset boots is never in doubt (the entry point is in the first sector).
LEMMA OneImage ==
  ASSUME NEW region, NEW a \in Images, NEW b \in Images, Holds(region, a), Holds(region, b)
  PROVE  a = b
<1>1. a.size \in 1..Sectors /\ b.size \in 1..Sectors
  BY DEF Images
<1>2. 1 \in 1..a.size /\ 1 \in 1..b.size
  BY <1>1, SectorsAssumption
<1> QED
  BY <1>2 DEF Holds

\* An outcome of a flash operation is a content.
LEMMA OutcomesTyped == ASSUME NEW c \in Contents PROVE Outcomes(c) \subseteq Contents
  BY DEF Outcomes, Contents

\* A reset keeps the invariant, whatever it interrupts: it boots the image the base
\* region holds, or the board is dead until it is recovered over USB.
LEMMA RestartedInv ==
  ASSUME Inv, NEW cause \in {"power", "commit", "abort"}, Restarted(cause)
  PROVE  Inv'
<1> USE DEF Inv
<1>1. base' = base /\ stage' = stage /\ image' = image /\ up' = up
  BY DEF Restarted, flash
<1>2. active' \in BOOLEAN /\ verified' \in BOOLEAN /\ commitPending' \in BOOLEAN
      /\ rebootPending' \in BOOLEAN /\ enet' \in BOOLEAN /\ spoiled' \in BOOLEAN
      /\ ~verified' /\ ~commitPending'
  BY Zenon DEF Restarted
<1>3. got' = 0 /\ pos' = 1 /\ attempt' = 0 /\ pending' = {} /\ resetBy' = cause
  BY DEF Restarted
<1>4. \/ pc' = Dead /\ running' = running
      \/ pc' = "web" /\ running' \in Bootable
  BY DEF Restarted
<1>5. running' \in Images
  BY <1>4 DEF TypeOK, Bootable
<1>6. pc' \in {"web", Dead}
  BY <1>4
<1>7. TypeOK'
  BY <1>1, <1>2, <1>3, <1>5, <1>6, SectorsAssumption DEF TypeOK, PcSet, Region, MaxAttempts
<1>8. Bootable' = Bootable
  BY <1>1 DEF Bootable, Holds
<1>9. StagedIsVerified' /\ PendingIsFresh' /\ UploadUnverified'
  BY <1>2, <1>6 DEF StagedIsVerified, PendingIsFresh, UploadUnverified, Copying, Dead
<1>10. CopyIsMasked' /\ CopiedIsWhole'
  BY <1>6 DEF CopyIsMasked, CopiedIsWhole, Copying, Dead
<1>11. BootableOutsideCommit'
  BY <1>4, <1>8 DEF BootableOutsideCommit
<1> QED
  BY <1>7, <1>9, <1>10, <1>11

-----------------------------------------------------------------------------
(* The invariant is inductive.                                             *)

\* At the first boot the region holds one whole genuine image and nothing is staged.
THEOREM InitInv == Init => Inv
<1> SUFFICES ASSUME Init PROVE Inv
  OBVIOUS
<1>1. running \in Images /\ running.build \in Genuine /\ running.size \in 1..Sectors
  BY DEF Init, Images
<1>2. /\ base = [i \in Region |-> IF i <= running.size THEN running ELSE Blank]
      /\ stage = [i \in Region |-> Blank]
  BY DEF Init
<1>3. Holds(base, running)
  BY <1>1, <1>2, SectorsAssumption DEF Holds, Region
<1>4. base \in [Region -> Contents] /\ stage \in [Region -> Contents]
  BY <1>1, <1>2 DEF Contents
<1>5. /\ enet \in BOOLEAN /\ active \in BOOLEAN /\ verified \in BOOLEAN
      /\ commitPending \in BOOLEAN /\ rebootPending \in BOOLEAN /\ spoiled \in BOOLEAN
      /\ ~commitPending /\ ~verified
  BY Zenon DEF Init
<1>6. /\ pc = "web" /\ pending = {} /\ image = running /\ up = running
      /\ got = 0 /\ pos = 1 /\ attempt = 0 /\ resetBy = "power"
  BY DEF Init
<1>7. TypeOK
  BY <1>1, <1>4, <1>5, <1>6, SectorsAssumption DEF TypeOK, PcSet, Region, MaxAttempts
<1>8. StagedIsVerified /\ PendingIsFresh /\ CopyIsMasked /\ UploadUnverified /\ CopiedIsWhole
  BY <1>5, <1>6 DEF StagedIsVerified, PendingIsFresh, CopyIsMasked, UploadUnverified,
                    CopiedIsWhole, Copying
<1>9. BootableOutsideCommit
  BY <1>1, <1>3 DEF BootableOutsideCommit, Bootable
<1> QED
  BY <1>7, <1>8, <1>9 DEF Inv

\* Requests, the upload and its verification.
LEMMA UploadInv == Inv /\ (Arrive \/ Web \/ Upload) => Inv'
<1> USE DEF Inv, TypeOK, StagedIsVerified, BootableOutsideCommit, PendingIsFresh,
      CopyIsMasked,
            UploadUnverified, CopiedIsWhole, Bootable, Copying, PcSet, Dead,
            flash, net, flags, upload, copy, hist
<1>1. ASSUME Inv, Arrive PROVE Inv'
  BY <1>1, SMTT(20) DEF Arrive, Holds
<1>2. ASSUME Inv, NoRequest PROVE Inv'
  BY <1>2, SMTT(20) DEF NoRequest, Holds
<1>3. ASSUME Inv, BeginUpload PROVE Inv'
  <2>1. active' \in BOOLEAN /\ verified' \in BOOLEAN /\ ~verified'
    BY <1>3, Zenon DEF BeginUpload, NothingVerified
  <2> QED
    BY <1>3, <2>1, SectorsAssumption, SMTT(20) DEF BeginUpload, Serve, Holds
<1>4. ASSUME Inv, IngestRecord PROVE Inv'
  <2>1. got < up.size /\ up.size \in 1..Sectors /\ got' = got + 1 /\ got + 1 \in 0..Sectors
    BY <1>4, SectorsAssumption DEF IngestRecord, Images
  <2>2. PICK c \in Outcomes(up) : stage' = [stage EXCEPT ![got + 1] = c]
    BY <1>4 DEF IngestRecord
  <2>3. up \in Contents
    BY <1>4 DEF Contents
  <2>4. stage' \in [Region -> Contents]
    BY <1>4, <2>2, <2>3, OutcomesTyped
  <2> QED
    BY <1>4, <2>1, <2>4, SMTT(20) DEF IngestRecord, Holds
<1>5. ASSUME Inv, IngestFails PROVE Inv'
  BY <1>5, SMTT(20) DEF IngestFails, Holds
<1>6. ASSUME Inv, IngestFinish PROVE Inv'
  BY <1>6, SMTT(20) DEF IngestFinish, Holds
<1>7. ASSUME Inv, VerifyImage PROVE Inv'
  <2>1. verified' \in BOOLEAN /\ image' \in Images
        /\ (verified' => image'.build \in Genuine /\ Holds(stage, image'))
    <3>1. CASE up.build \in Genuine /\ Holds(stage, up)
      BY <1>7, <3>1, Zenon DEF VerifyImage
    <3>2. CASE ~(up.build \in Genuine /\ Holds(stage, up))
      BY <1>7, <3>2 DEF VerifyImage
    <3> QED
      BY <3>1, <3>2
  <2> QED
    BY <1>7, <2>1, SMTT(20) DEF VerifyImage, Holds
<1>8. ASSUME Inv, RequestCommit PROVE Inv'
  <2>1. commitPending' \in BOOLEAN /\ (commitPending' => commitPending \/ verified)
    BY <1>8, Zenon DEF RequestCommit
  <2> QED
    BY <1>8, <2>1, SMTT(20) DEF RequestCommit, Serve, Holds
<1>9. ASSUME Inv, RequestAbort PROVE Inv'
  <2>1. base' = base
    BY <1>9 DEF RequestAbort, EraseStaged
  <2>2. /\ verified' \in BOOLEAN /\ rebootPending' \in BOOLEAN
        /\ stage' \in [Region -> Contents]
        /\ verified' => verified /\ stage' = stage
    <3>1. CASE active
      <4>1. verified' \in BOOLEAN /\ rebootPending' \in BOOLEAN /\ ~verified'
        BY <1>9, <3>1, Zenon DEF RequestAbort
      <4>2. stage[1] \in Contents /\ 1 \in Region
        BY <1>9, SectorsAssumption DEF Region
      <4>3. PICK c \in Contents : stage' = [stage EXCEPT ![1] = c]
        BY <1>9, <3>1, <4>2 DEF RequestAbort, EraseStaged, Contents
      <4> QED
        BY <1>9, <4>1, <4>3
    <3>2. CASE ~active
      BY <1>9, <3>2 DEF RequestAbort
    <3> QED
      BY <3>1, <3>2
  <2> QED
    BY <1>9, <2>1, <2>2, SMTT(20) DEF RequestAbort, Serve, Holds
<1> HIDE DEF Inv
<1> QED
  BY <1>1, <1>2, <1>3, <1>4, <1>5, <1>6, <1>7, <1>8, <1>9, Zenon DEF Web, Upload

\* otaLoopTask() and the copy.
LEMMA CommitInv == Inv /\ (LoopTask \/ Commit) => Inv'
<1> USE DEF Inv, TypeOK, StagedIsVerified, BootableOutsideCommit, PendingIsFresh,
      CopyIsMasked,
            UploadUnverified, CopiedIsWhole, Bootable, Copying, PcSet, Dead,
            flash, net, flags, upload, copy, hist
<1>1. ASSUME Inv, OtaIdle PROVE Inv'
  BY <1>1, SMTT(20) DEF OtaIdle, Holds
<1>2. ASSUME Inv, StartCommit PROVE Inv'
  <2>1. commitPending' \in BOOLEAN /\ enet' \in BOOLEAN /\ ~commitPending' /\ ~enet' /\ verified
    BY <1>2, Zenon DEF StartCommit
  <2> QED
    BY <1>2, <2>1, SectorsAssumption, SMTT(20) DEF StartCommit, Holds, Region, MaxAttempts
<1>3. ASSUME Inv, ProgramSector PROVE Inv'
  <2>1. PICK c \in Outcomes(stage[pos]) : base' = [base EXCEPT ![pos] = c]
    BY <1>3 DEF ProgramSector
  <2>2. base' \in [Region -> Contents]
    BY <1>3, <2>1, OutcomesTyped
  <2>3. pos' \in Region /\ pc' \in {"program", "check"}
    BY <1>3, SectorsAssumption DEF ProgramSector, Region, Images
  <2> QED
    BY <1>3, <2>2, <2>3, SMTT(20) DEF ProgramSector, Holds
<1>4. ASSUME Inv, CheckCopied PROVE Inv'
  BY <1>4, SMTT(20) DEF CheckCopied, ReadBackMatches, Holds
<1>5. ASSUME Inv, CheckRetry PROVE Inv'
  <2>1. base' \in [Region -> Contents]
    BY <1>5 DEF CheckRetry, Contents
  <2>2. attempt' \in 0..(MaxAttempts - 1)
    BY <1>5 DEF CheckRetry, MayRetry, NextAttempt, MaxAttempts
  <2> QED
    BY <1>5, <2>1, <2>2, SMTT(20) DEF CheckRetry, Holds
<1>6. ASSUME Inv, CheckFailed PROVE Inv'
  <2>1. spoiled' \in BOOLEAN /\ spoiled'
    BY <1>6, Zenon DEF CheckFailed
  <2> QED
    BY <1>6, <2>1, SMTT(20) DEF CheckFailed, Holds
<1>7. ASSUME Inv, WipeAbove PROVE Inv'
  <2>1. base' \in [Region -> Contents] /\ stage' \in [Region -> Contents]
    BY <1>7 DEF WipeAbove, Contents
  <2>2. Holds(base, image)
    BY <1>7 DEF WipeAbove
  <2>3. \A i \in 1..image.size : i \in Region /\ i <= image.size
    BY <1>7, SectorsAssumption DEF Region, Images
  <2>4. Holds(base, image)'
    BY <1>7, <2>2, <2>3 DEF WipeAbove, Holds
  <2> QED
    BY <1>7, <2>1, <2>4, SMTT(20) DEF WipeAbove
<1> HIDE DEF Inv
<1>8. ASSUME Inv, CommitReset PROVE Inv'
  BY <1>8, RestartedInv DEF CommitReset
<1>9. ASSUME Inv, AbortReset PROVE Inv'
  BY <1>9, RestartedInv DEF AbortReset
<1> QED
  BY <1>1, <1>2, <1>3, <1>4, <1>5, <1>6, <1>7, <1>8, <1>9, Zenon DEF LoopTask, Commit

\* The loader writes a whole image before it starts it.
LEMMA RecoveryInv == Inv /\ UsbRecovery => Inv'
<1> SUFFICES ASSUME Inv, UsbRecovery PROVE Inv'
  OBVIOUS
<1> USE DEF Inv
<1>1. PICK img \in Images :
         /\ img.build \in Genuine
         /\ base' = [i \in Region |-> IF i <= img.size THEN img ELSE Blank]
         /\ running' = img
  BY DEF UsbRecovery
<1>2. /\ stage' = [i \in Region |-> Blank] /\ resetBy' = "usb" /\ pc' = "web" /\ pc = Dead
      /\ UNCHANGED <<pending, enet, active, verified, image, commitPending, rebootPending,
                     up, got, pos, attempt, spoiled>>
  BY DEF UsbRecovery, net, flags, upload, copy
<1>3. base' \in [Region -> Contents] /\ stage' \in [Region -> Contents]
  BY <1>1, <1>2 DEF Contents
<1>4. TypeOK'
  BY <1>1, <1>2, <1>3 DEF TypeOK, PcSet
<1>5. Holds(base, running)'
  <2>1. img.size \in 1..Sectors
    BY <1>1 DEF Images
  <2> QED
    BY <1>1, <2>1, SectorsAssumption DEF Holds, Region
<1>6. ~verified /\ ~commitPending
  BY <1>2 DEF UploadUnverified, PendingIsFresh, Dead
<1> QED
  BY <1>2, <1>4, <1>5, <1>6 DEF StagedIsVerified, BootableOutsideCommit, PendingIsFresh,
     CopyIsMasked, UploadUnverified, CopiedIsWhole, Bootable, Copying, Dead, TypeOK

\* Every step of the update, a power loss and a recovery included, keeps the invariant.
LEMMA NextInv == Inv /\ [Next]_vars => Inv'
<1>1. ASSUME Inv, UNCHANGED vars PROVE Inv'
  BY <1>1 DEF vars, flash, net, flags, upload, copy, hist, Inv, TypeOK, StagedIsVerified,
              BootableOutsideCommit, PendingIsFresh,
      CopyIsMasked, UploadUnverified,
              CopiedIsWhole, Bootable, Holds
<1>2. ASSUME Inv, PowerLoss PROVE Inv'
  BY <1>2, RestartedInv DEF PowerLoss
<1> QED
  BY <1>1, <1>2, UploadInv, CommitInv, RecoveryInv, Zenon DEF Next, Main

-----------------------------------------------------------------------------
(* The theorems.                                                           *)

\* The invariant holds in every reachable state, for any images and any failing flash.
THEOREM SpecInv == Spec => []Inv
<1> QED
  BY InitInv, NextInv, PTL DEF Spec

\* Every reachable state is well-typed: the copy's position stays inside the region and
\* no commit makes more than MaxAttempts attempts (otaFlashCommit).
THEOREM SpecTypeOK == Spec => []TypeOK
<1>1. Inv => TypeOK
  BY DEF Inv
<1> QED
  BY <1>1, SpecInv, PTL

\* What a commit copies is the image that was verified, whole and in place, for every
\* order of requests and every flash operation that fails (ota.cpp, flash_ota.cpp).
THEOREM SpecStagedIsVerified == Spec => []StagedIsVerified
<1>1. Inv => StagedIsVerified
  BY DEF Inv
<1> QED
  BY <1>1, SpecInv, PTL

\* No upload, verification, abort or power loss costs the board its running image; only
\* a commit that has begun to copy can.
THEOREM SpecBootable == Spec => []BootableOutsideCommit
<1>1. Inv => BootableOutsideCommit
  BY DEF Inv
<1> QED
  BY <1>1, SpecInv, PTL

\* A commit that resets the board resets it into the verified image: the region holds
\* it whole, and no other image can be the one that boots (otaFlashCommit).
THEOREM SpecCommitResetsIntoNew == Spec => CommitResetsIntoNew
<1> DEFINE A == pc = "reset" /\ resetBy' = "commit" => pc' = "web" /\ running' = image
<1>1. Inv /\ [Next]_vars => [A]_vars
  <2> SUFFICES ASSUME Inv, Next, pc = "reset", resetBy' = "commit"
               PROVE  pc' = "web" /\ running' = image
    OBVIOUS
  <2>1. image \in Images /\ Holds(base, image) /\ ~enet
    BY DEF Inv, TypeOK, CopiedIsWhole, CopyIsMasked, Copying
  <2>2. CommitReset
    <3>1. ~Arrive
      BY <2>1 DEF Arrive
    <3>2. ~Web /\ ~Upload
      BY DEF Web, Upload, NoRequest, BeginUpload, RequestCommit, RequestAbort, Serve,
             IngestRecord, IngestFails, IngestFinish, VerifyImage
    <3>3. ~LoopTask
      BY DEF LoopTask, OtaIdle, StartCommit, AbortReset
    <3>4. ~PowerLoss
      BY DEF PowerLoss, Restarted
    <3>5. ~UsbRecovery
      BY DEF UsbRecovery, Dead
    <3> QED
      BY <3>1, <3>2, <3>3, <3>4, <3>5 DEF Next, Main, Commit, ProgramSector, CheckCopied,
         CheckRetry, CheckFailed, WipeAbove
  <2>3. Bootable = {image}
    BY <2>1, OneImage DEF Bootable
  <2> QED
    BY <2>2, <2>3 DEF CommitReset, Restarted
<1> QED
  BY <1>1, SpecInv, PTL DEF Spec, CommitResetsIntoNew

=============================================================================
