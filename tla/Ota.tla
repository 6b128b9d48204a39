-------------------------------- MODULE Ota --------------------------------
(***************************************************************************)
(* The firmware update of the laboratory build: upload, verification,      *)
(* commit and abort (ota.cpp), the ingest of records (ota_ingest.h), and   *)
(* the copy of the staged image over the running one (flash_ota.cpp).      *)
(*                                                                         *)
(* loop() serves at most one request and then runs otaLoopTask().  Flash   *)
(* is two regions of sectors, the base image and the staging buffer; an    *)
(* erase or a program operation may fail and reports nothing.  The code    *)
(* runs from RAM: only a reset reads the base image again.                 *)
(***************************************************************************)
EXTENDS Naturals, FiniteSets

CONSTANTS Builds,      \* firmware builds that may be uploaded
          Genuine,     \* those otaVerifyImage() accepts
          Sectors,     \* sectors of the base image's region and of the buffer
          MaxPending,  \* clients that may wait (MaxPendingClients)
          FlashFails,  \* a flash operation may fail
          Blank, Bad   \* an erased sector; one that holds no image's bytes

ASSUME SectorsAssumption == Sectors \in Nat \ {0}
ASSUME GenuineAssumption == Genuine \subseteq Builds /\ Genuine # {}
ASSUME MaxPendingAssumption == MaxPending \in Nat \ {0}
ASSUME FlashFailsAssumption == FlashFails \in BOOLEAN

Images == [build : Builds, size : 1..Sectors]
Contents == Images \cup {Blank, Bad}
ASSUME ContentsAssumption == Blank # Bad /\ Blank \notin Images /\ Bad \notin Images

MaxAttempts == 3
Dead == "dead"

VARIABLES
  pc,                 \* the main thread
  base, stage,        \* flash at OtaFlashBase and at OtaBufferBase
  running,            \* the image in RAM
  pending, enet,      \* requests received and not served; IRQ_ENET enabled
  active, verified,   \* the flags of ota.cpp
  image,              \* verifiedSize and verifiedCrc
  commitPending, rebootPending,
  up, got,            \* the upload, and the sectors of it received so far
  pos, attempt,       \* locals of otaFlashCommit()
  spoiled, resetBy    \* history: a commit failed since boot; what the last reset was

flash  == <<base, stage>>
net    == <<pending, enet>>
flags  == <<active, verified, image, commitPending, rebootPending>>
upload == <<up, got>>
copy   == <<pos, attempt>>
hist   == <<spoiled, resetBy>>
vars == <<pc, flash, running, net, flags, upload, copy, hist>>

Region == 1..Sectors
Requests == {"upload", "commit", "abort"}
Copying == {"program", "check", "wipe", "reset"}
PcSet == {"web", "ingest", "verify", "ota", Dead} \cup Copying

Holds(region, img) == \A i \in 1..img.size : region[i] = img
Bootable == {img \in Images : Holds(base, img)}
Outcomes(c) == IF FlashFails THEN {c, Bad} ELSE {c}

-----------------------------------------------------------------------------
(* Requests, and the upload.                                               *)

\* processWebServer(): a client is accepted while there is a place for it; a request
\* that is not authorized changes nothing and is left out.
Arrive ==
  /\ enet /\ pc # Dead /\ Cardinality(pending) < MaxPending
  /\ \E r \in Requests \ pending : pending' = pending \cup {r}
  /\ UNCHANGED <<pc, flash, running, enet, flags, upload, copy, hist>>

NoRequest ==
  /\ pc = "web"
  /\ pc' = "ota"
  /\ UNCHANGED <<flash, running, net, flags, upload, copy, hist>>

Serve(r) == pc = "web" /\ r \in pending /\ pending' = pending \ {r}

\* otaIngestStream(): the safe state once, and nothing verified any more.
StillVerified == verified                                          \* mutant
NothingVerified == FALSE

BeginUpload ==
  /\ Serve("upload")
  /\ active' = TRUE /\ verified' = NothingVerified
  /\ up' \in Images /\ got' = 0
  /\ pc' = "ingest"
  /\ UNCHANGED <<flash, running, enet, image, commitPending, rebootPending, copy, hist>>

\* otaHandleData(): records come in order, each into a sector erased for this upload.
IngestRecord ==
  /\ pc = "ingest" /\ got < up.size
  /\ got' = got + 1
  /\ \E c \in Outcomes(up) : stage' = [stage EXCEPT ![got + 1] = c]
  /\ UNCHANGED <<pc, base, running, net, flags, up, copy, hist>>

\* A record that is malformed or out of order, a body that ends or stalls.
IngestFails ==
  /\ pc = "ingest"
  /\ pc' = "ota"
  /\ UNCHANGED <<flash, running, net, flags, upload, copy, hist>>

IngestFinish ==
  /\ pc = "ingest" /\ got = up.size
  /\ pc' = "verify"
  /\ UNCHANGED <<flash, running, net, flags, upload, copy, hist>>

\* otaVerifyImage() reads the staged image, otaVerifyStagedCrc() all of it.
VerifyImage ==
  /\ pc = "verify"
  /\ IF up.build \in Genuine /\ Holds(stage, up)
       THEN verified' = TRUE /\ image' = up
       ELSE UNCHANGED <<verified, image>>
  /\ pc' = "ota"
  /\ UNCHANGED <<flash, running, net, active, commitPending, rebootPending, upload, copy, hist>>

\* otaRequestCommit(): the size of the verified image is echoed back.
RequestCommit ==
  /\ Serve("commit")
  /\ \E confirmSize \in Region :
       commitPending' = (commitPending \/ (verified /\ confirmSize = image.size))
  /\ pc' = "ota"
  /\ UNCHANGED <<flash, running, enet, active, verified, image, rebootPending, upload, copy, hist>>

\* Erases the sector at OtaBufferBase, or nothing when the operation fails.
EraseRunning == /\ base' = [base EXCEPT ![1] = Blank]              \* mutant
                /\ UNCHANGED stage
EraseStaged == /\ \E c \in {Blank} \cup (IF FlashFails THEN {stage[1], Bad} ELSE {}) :
                    stage' = [stage EXCEPT ![1] = c]
               /\ UNCHANGED base

\* otaRequestAbort()
RequestAbort ==
  /\ Serve("abort")
  /\ IF active THEN verified' = FALSE /\ rebootPending' = TRUE /\ EraseStaged
               ELSE UNCHANGED <<verified, rebootPending, flash>>
  /\ pc' = "ota"
  /\ UNCHANGED <<running, enet, active, image, commitPending, upload, copy, hist>>

-----------------------------------------------------------------------------
(* otaLoopTask() and otaFlashCommit().                                     *)

Restarted(cause) ==
  /\ resetBy' = cause /\ spoiled' = FALSE
  /\ active' = FALSE /\ verified' = FALSE /\ commitPending' = FALSE /\ rebootPending' = FALSE
  /\ pending' = {} /\ enet' = TRUE /\ got' = 0 /\ pos' = 1 /\ attempt' = 0
  /\ IF Bootable = {} THEN pc' = Dead /\ UNCHANGED running
                      ELSE pc' = "web" /\ running' \in Bootable
  /\ UNCHANGED <<flash, image, up>>

OtaIdle ==
  /\ pc = "ota" /\ ~commitPending /\ ~rebootPending
  /\ pc' = "web"
  /\ UNCHANGED <<flash, running, net, flags, upload, copy, hist>>

\* The interrupts that might read flash are masked, and stay masked.
StartCommit ==
  /\ pc = "ota" /\ commitPending
  /\ commitPending' = FALSE /\ enet' = FALSE
  /\ pos' = 1 /\ attempt' = 0
  /\ pc' = "program"
  /\ UNCHANGED <<flash, running, pending, active, verified, image, rebootPending, upload, hist>>

ProgramSector ==
  /\ pc = "program"
  /\ \E c \in Outcomes(stage[pos]) : base' = [base EXCEPT ![pos] = c]
  /\ IF pos < image.size THEN pos' = pos + 1 /\ pc' = pc
                         ELSE pos' = 1 /\ pc' = "check"
  /\ UNCHANGED <<stage, running, net, flags, upload, attempt, hist>>

AnyMatch == TRUE                                                   \* mutant
ReadBackMatches == Holds(base, image)
MayRetry == attempt + 1 < MaxAttempts
SameAttempt == attempt                                             \* mutant
NextAttempt == attempt + 1

CheckCopied ==
  /\ pc = "check" /\ ReadBackMatches
  /\ pc' = "wipe"
  /\ UNCHANGED <<flash, running, net, flags, upload, copy, hist>>

\* Wipe and copy again; whether the erase works shows at the next read-back.
CheckRetry ==
  /\ pc = "check" /\ ~ReadBackMatches /\ MayRetry
  /\ base' = [i \in Region |-> IF i <= image.size THEN Blank ELSE base[i]]
  /\ attempt' = NextAttempt
  /\ pc' = "program"
  /\ UNCHANGED <<stage, running, net, flags, upload, pos, hist>>

\* The last attempt: no wipe and no reset.  otaLoopTask() goes on.
CheckFailed ==
  /\ pc = "check" /\ ~ReadBackMatches /\ ~MayRetry
  /\ spoiled' = TRUE
  /\ pc' = "ota"
  /\ UNCHANGED <<flash, running, net, flags, upload, copy, resetBy>>

\* What is left of the old image, and the staging buffer.
WipeAbove ==
  /\ pc = "wipe"
  /\ base' = [i \in Region |-> IF i <= image.size THEN base[i] ELSE Blank]
  /\ stage' = [i \in Region |-> Blank]
  /\ pc' = "reset"
  /\ UNCHANGED <<running, net, flags, upload, copy, hist>>

CommitReset == pc = "reset" /\ Restarted("commit")

AbortReset == pc = "ota" /\ ~commitPending /\ rebootPending /\ Restarted("abort")

\* Power fails, or the watchdog bites.
PowerLoss == pc # Dead /\ Restarted("power")

\* The Program button and the loader on a PC.
UsbRecovery ==
  /\ pc = Dead
  /\ \E img \in {i \in Images : i.build \in Genuine} :
       /\ base' = [i \in Region |-> IF i <= img.size THEN img ELSE Blank]
       /\ running' = img
  /\ stage' = [i \in Region |-> Blank]
  /\ resetBy' = "usb" /\ pc' = "web"
  /\ UNCHANGED <<net, flags, upload, copy, spoiled>>

-----------------------------------------------------------------------------
(* The specification.                                                      *)

Init ==
  /\ running \in {i \in Images : i.build \in Genuine}
  /\ base = [i \in Region |-> IF i <= running.size THEN running ELSE Blank]
  /\ stage = [i \in Region |-> Blank]
  /\ pending = {} /\ enet = TRUE
  /\ active = FALSE /\ verified = FALSE /\ image = running
  /\ commitPending = FALSE /\ rebootPending = FALSE
  /\ up = running /\ got = 0 /\ pos = 1 /\ attempt = 0
  /\ spoiled = FALSE /\ resetBy = "power" /\ pc = "web"

Web == NoRequest \/ BeginUpload \/ RequestCommit \/ RequestAbort
Upload == IngestRecord \/ IngestFails \/ IngestFinish \/ VerifyImage
LoopTask == OtaIdle \/ StartCommit \/ AbortReset
Commit == ProgramSector \/ CheckCopied \/ CheckRetry \/ CheckFailed \/ WipeAbove \/ CommitReset
Main == Web \/ Upload \/ LoopTask \/ Commit
Next == Main \/ Arrive \/ PowerLoss \/ UsbRecovery

\* The CPU keeps executing loop(), and the copy kicks the watchdog.
Spec == Init /\ [][Next]_vars /\ WF_vars(Main)

-----------------------------------------------------------------------------
(* Properties.                                                             *)

\* The copy stays inside the image and tries no more than MaxAttempts times
\* (otaFlashCommit).
TypeOK ==
  /\ pc \in PcSet /\ base \in [Region -> Contents] /\ stage \in [Region -> Contents]
  /\ running \in Images /\ pending \subseteq Requests /\ enet \in BOOLEAN
  /\ active \in BOOLEAN /\ verified \in BOOLEAN /\ image \in Images
  /\ commitPending \in BOOLEAN /\ rebootPending \in BOOLEAN
  /\ up \in Images /\ got \in 0..Sectors
  /\ pos \in Region /\ attempt \in 0..(MaxAttempts - 1)
  /\ spoiled \in BOOLEAN /\ resetBy \in {"power", "commit", "abort", "usb"}

\* ota_verify.h: "what gets verified is exactly what the commit will copy": from its
\* verification on, until it is copied or given up, the staged image is whole, and
\* nothing else is ever copied, whatever requests wait behind the commit.
StagedIsVerified ==
  /\ verified /\ pc # "reset" => image.build \in Genuine /\ Holds(stage, image)
  /\ commitPending \/ pc \in Copying => verified

\* A commit resets the board only into the whole image that was verified; after its
\* last failed attempt it does not reset (otaFlashCommit, otaLoopTask).
CommitResetsIntoNew ==
  [][pc = "reset" /\ resetBy' = "commit" => pc' = "web" /\ running' = image]_vars

\* Before the copy has begun no upload, abort or power loss costs the running image:
\* a reset boots it again.
BootableOutsideCommit == pc \notin Copying \cup {Dead} /\ ~spoiled => running \in Bootable

\* An accepted commit is decided: it resets the board or gives up (otaFlashCommit).
CommitIsDecided == commitPending ~> pc = "web" \/ pc = Dead

\* ota.h: "abort invalidates the staged image and reboots into the current one".
AbortReturnsToCurrent ==
  [][rebootPending /\ ~rebootPending' /\ resetBy' = "abort" =>
     pc' = "web" /\ running' = running]_vars

=============================================================================
