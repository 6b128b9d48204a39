--------------------------- MODULE WaveformStore ---------------------------
(***************************************************************************)
(* The uploaded waveform: the upload of a new one (waveformApplyStream),   *)
(* its staging, verification and swap on the card, and what is activated   *)
(* in memory from it (activateFromSd), at boot and after every swap.       *)
(*                                                                         *)
(* Everything runs in one handler of loop(); the card fails, and power is  *)
(* lost, between any two of its operations.  A waveform stands for one     *)
(* upload; Cut is a file or a store that holds part of one.  The handler   *)
(* is refused while the settings use the waveform: see StreamRing.         *)
(***************************************************************************)
EXTENDS Naturals

CONSTANTS Short,      \* references that fit the store in memory (MaxWaveSamples)
          Long,       \* longer references, streamed from the card
          Sequences,  \* level and duration segments
          None, Cut,  \* nothing; part of a waveform
          Faults      \* what may fail

AllFaults == {"upload", "open", "write", "close", "read", "remove", "keep", "swap",
              "restore", "power"}
Waveforms == Short \cup Long \cup Sequences
ASSUME DistinctAssumption ==
  /\ Short \cap Long = {} /\ Short \cap Sequences = {} /\ Long \cap Sequences = {}
  /\ None # Cut /\ None \notin Waveforms /\ Cut \notin Waveforms
ASSUME FaultsAssumption == Faults \subseteq AllFaults

VARIABLES
  pc, up,             \* the handler's position; what is being uploaded
  live, bak, tmp,     \* /waveform.bin, .bak and .tmp
  mode, stored,       \* waveMode; what storedType and storedCount describe
  samples, segs,      \* waveSamples[]; segLevelsQ15[] and segMicros[]
  found,              \* history: the live waveform an upload found
  reply               \* what the last upload answered, if it has

card == <<live, bak, tmp>>
active == <<mode, stored>>
ram  == <<samples, segs>>
vars == <<pc, up, card, active, ram, found, reply>>

Contents == Waveforms \cup {None, Cut}
PcSet == {"boot", "idle", "detect", "receive", "finish", "failed", "verify",
          "deactivate", "removeBak", "keep", "swap", "restore", "activate"}

Fails(fault) == fault \in Faults
Answer(a) == reply' = a
Goto(label) == pc' = label

-----------------------------------------------------------------------------
(* The upload, up to a verified staging file.                              *)

Post ==
  /\ pc = "idle"
  /\ up' \in Waveforms \ {live, bak, tmp, stored}
  /\ found' = live /\ Answer("none")
  /\ Goto("detect")
  /\ UNCHANGED <<card, active, ram>>

\* The body stops arriving, does not parse, does not inflate or is too short.
UploadFails ==
  /\ pc \in {"detect", "receive"} /\ Fails("upload")
  /\ Goto("failed")
  /\ UNCHANGED <<up, card, active, ram, found, reply>>

\* openSink(): the placeholder header.
OpenSink ==
  /\ pc = "detect"
  /\ \/ tmp' = Cut /\ Goto("receive")
     \/ Fails("open") /\ tmp' = None /\ Goto("failed")
  /\ UNCHANGED <<up, live, bak, active, ram, found, reply>>

\* Samples go to the card, segments are collected where playback reads them.
ReceivePart ==
  /\ pc = "receive"
  /\ segs' = IF up \in Sequences THEN Cut ELSE segs
  /\ UNCHANGED <<pc, up, card, active, samples, found, reply>>

ReceiveEnd ==
  /\ pc = "receive"
  /\ segs' = IF up \in Sequences THEN up ELSE segs
  /\ Goto("finish")
  /\ UNCHANGED <<up, card, active, samples, found, reply>>

SinkFails ==
  /\ pc \in {"receive", "finish"} /\ Fails("write")
  /\ Goto("failed")
  /\ UNCHANGED <<up, card, active, ram, found, reply>>

\* The segments of a sequence, the real header, sync() and close(): the result of
\* the last is not looked at.
Finish ==
  /\ pc = "finish"
  /\ \/ tmp' = up
     \/ Fails("close") /\ tmp' = Cut
  /\ Goto("verify")
  /\ UNCHANGED <<up, live, bak, active, ram, found, reply>>

Rejected ==
  /\ pc = "failed"
  /\ tmp' = None
  /\ Answer("failed") /\ Goto("idle")
  /\ UNCHANGED <<up, live, bak, active, ram, found>>

\* The staging file is read back: its header, and its size.
AnyFile == tmp # None                                              \* mutant
Verified == tmp = up

Verify ==
  /\ pc = "verify"
  /\ \/ Verified /\ Goto("deactivate")
     \/ (~Verified \/ Fails("read")) /\ Goto("failed")
  /\ UNCHANGED <<up, card, active, ram, found, reply>>

-----------------------------------------------------------------------------
(* The swap.                                                               *)

StopNothing == UNCHANGED active                                     \* mutant
Stop == mode' = "none" /\ stored' = None

Deactivate ==
  /\ pc = "deactivate"
  /\ Stop
  /\ Goto("removeBak")
  /\ UNCHANGED <<up, card, ram, found, reply>>

RemoveBak ==
  /\ pc = "removeBak"
  /\ \/ bak' = None
     \/ Fails("remove") /\ bak' = bak
  /\ Goto(IF live # None THEN "keep" ELSE "swap")
  /\ UNCHANGED <<up, live, tmp, active, ram, found, reply>>

\* A rename does not replace: the older backup has to be gone.
KeepNothing == None                                                \* mutant
KeptAsBak == live

Keep ==
  /\ pc = "keep"
  /\ \/ bak = None /\ bak' = KeptAsBak /\ live' = None /\ Goto("swap") /\ Answer("none")
     \/ (bak # None \/ Fails("keep")) /\ Goto("activate") /\ Answer("failed")
        /\ UNCHANGED <<live, bak>>
  /\ UNCHANGED <<up, tmp, active, ram, found>>

Swap ==
  /\ pc = "swap"
  /\ \/ live' = tmp /\ tmp' = None /\ Goto("activate") /\ Answer("ok")
     \/ /\ Fails("swap") /\ Answer("failed")
        /\ Goto(IF found # None THEN "restore" ELSE "activate")
        /\ UNCHANGED <<live, tmp>>
  /\ UNCHANGED <<up, bak, active, ram, found>>

\* The result of this rename is not looked at either.
RestoreNewest == tmp                                               \* mutant
RestoredLive == bak

Restore ==
  /\ pc = "restore"
  /\ \/ live' = RestoredLive /\ bak' = None
     \/ Fails("restore") /\ UNCHANGED <<live, bak>>
  /\ Goto("activate")
  /\ UNCHANGED <<up, tmp, active, ram, found, reply>>

-----------------------------------------------------------------------------
(* activateFromSd(), at boot and after a swap.                             *)

\* Which references are read into memory whole.
Resident == Short

Adopt(m) == mode' = m /\ stored' = live

Activate ==
  /\ pc = "activate"
  /\ \/ live = None /\ UNCHANGED <<active, ram>>
     \/ live \in Resident /\ samples' = live /\ Adopt("resident") /\ UNCHANGED segs
     \/ live \in Long \ Resident /\ Adopt("streaming") /\ UNCHANGED ram
     \/ live \in Sequences /\ segs' = live /\ Adopt("resident") /\ UNCHANGED samples
  /\ Goto("idle")
  /\ UNCHANGED <<up, card, found, reply>>

\* The open, the header, the size or a read fails: what was read so far stays there,
\* and nothing is active.
ActivateFails ==
  /\ pc = "activate" /\ live # None
  /\ Fails("read") \/ live = Cut
  /\ samples' \in IF live \in Resident THEN {samples, Cut} ELSE {samples}
  /\ segs' \in IF live \in Sequences THEN {segs, Cut} ELSE {segs}
  /\ Stop
  /\ Goto("idle")
  /\ UNCHANGED <<up, card, found, reply>>

-----------------------------------------------------------------------------
(* Power, and the specification.                                           *)

\* Memory is lost; so is a staging file no directory entry was written for.
PowerLoss ==
  /\ Fails("power")
  /\ Stop
  /\ samples' = None /\ segs' = None
  /\ tmp' \in IF tmp = Cut THEN {Cut, None} ELSE {tmp}
  /\ Goto("boot")
  /\ UNCHANGED <<up, live, bak, found, reply>>

\* waveformLoadFromSd(), with memory and card there: without, every upload is refused.
LoadFromSd ==
  /\ pc = "boot"
  /\ Goto("activate")
  /\ UNCHANGED <<up, card, active, ram, found, reply>>

Init ==
  /\ pc = "boot" /\ up = None
  /\ live = None /\ bak = None /\ tmp = None
  /\ mode = "none" /\ stored = None /\ samples = None /\ segs = None
  /\ found = None /\ reply = "none"

Upload == Post \/ UploadFails \/ OpenSink \/ ReceivePart \/ ReceiveEnd \/ SinkFails
          \/ Finish \/ Rejected \/ Verify
Exchange == Deactivate \/ RemoveBak \/ Keep \/ Swap \/ Restore
Next == Upload \/ Exchange \/ Activate \/ ActivateFails \/ PowerLoss \/ LoadFromSd

Spec == Init /\ [][Next]_vars

-----------------------------------------------------------------------------
(* Properties.                                                             *)

\* What is active is of the kind its mode plays, and the store in memory never
\* holds a waveform too long for it (activateFromSd).
TypeOK ==
  /\ pc \in PcSet /\ up \in Waveforms \cup {None}
  /\ live \in Contents /\ bak \in Contents /\ tmp \in Contents
  /\ \/ mode = "none" /\ stored = None
     \/ mode = "resident" /\ stored \in Short \cup Sequences
     \/ mode = "streaming" /\ stored \in Long
  /\ samples \in Short \cup {None, Cut} /\ segs \in Sequences \cup {None, Cut}
  /\ found \in Contents /\ reply \in {"none", "ok", "failed"}

\* Whatever fails during an upload, no part of a waveform is ever the live file or
\* its backup (waveformApplyStream, the verification of the staging file).
OnlyWholeIsLive == live # Cut /\ bak # Cut

\* The waveform an upload found is on the card, live or as the backup, from the
\* start of the upload until the next one, through every failure and power loss.
FoundIsKept == found # None => found \in {live, bak}

\* What is active is the live file, so that a streaming player reads the file it was
\* started on and a reference in memory is the one on the card (deactivate, Swap).
ActiveIsLive ==
  mode # "none" => live = stored /\ (stored \in Short => samples = stored)

\* An upload is answered by what is on the card and stays there over power losses:
\* the new waveform with the one it found as its backup, or nothing of the new one.
AnswerMatchesCard ==
  /\ reply = "ok" => live = up /\ (found # None => bak = found)
  /\ reply = "failed" => live # up /\ bak # up

\* README.md: "The previous waveform remains usable after any failed upload."
PreviousRemainsUsable ==
  pc = "idle" /\ mode = "resident" /\ stored \in Sequences => segs = stored

\* waveform.cpp: "recoverable as .bak at every failure point".
HasCopy == live \in Waveforms \/ bak \in Waveforms
NeverWithoutCopy == [][HasCopy => HasCopy']_vars

=============================================================================
