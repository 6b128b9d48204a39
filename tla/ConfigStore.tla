----------------------------- MODULE ConfigStore -----------------------------
(***************************************************************************)
(* The settings file of the firmware: saveConfiguration(),                 *)
(* loadConfiguration(), writePinEnsure() and the save task of loop().      *)
(*                                                                         *)
(* Three names on a FAT card hold whole documents with a generation and a  *)
(* CRC.  A save writes .tmp, verifies it, moves the live file to .bak and  *)
(* .tmp to the live name; a boot takes the newest complete document and    *)
(* puts it back under the live name.  One step is one directory or file    *)
(* operation of the card: any of them may fail without effect, and power   *)
(* may be lost between any two.                                            *)
(***************************************************************************)
EXTENDS Naturals

CONSTANTS Generations,  \* size of the generation counter (2^32 in the code)
          MaxEdits,     \* bound on the configurations an operator makes
          Faults        \* kinds of card operation that may fail

ASSUME MaxEditsAssumption == MaxEdits \in Nat
\* A backup that every save skips ages by one generation per power loss: its age must
\* stay below half the counter for the signed comparison to mean anything.
ASSUME GenerationsAssumption ==
  Generations \in Nat /\ Generations > 2 * (MaxEdits + 3)
ASSUME FaultsAssumption == Faults \subseteq
  {"promote", "remove", "write", "keep", "swap", "restore"}

VARIABLES
  pc, hadLive,      \* position of the main thread; hadLive of saveConfiguration()
  file,             \* the card: live, .tmp, .bak and .bad
  card,             \* sdAvailable
  ram, pin,         \* config: which configuration; Security.WritePin non-empty
  generation,       \* configGeneration
  source,           \* bestIndex of loadConfiguration(), or "none"
  saveNeeded, provisioned,  \* configSaveNeeded; not vProvisioningInhibited
  edits,            \* configurations made so far
  acked, tried      \* history: what was last acknowledged or booted; attempted since

ramVars  == <<ram, pin, generation, source>>
taskVars == <<saveNeeded, provisioned>>
history  == <<edits, acked, tried>>
vars == <<pc, hadLive, file, card, ramVars, taskVars, history>>

Names  == {"live", "tmp", "bak", "bad"}
Values == 0..MaxEdits       \* 0 is what an unedited configuration holds
Absent == [kind |-> "absent", gen |-> 0, val |-> 0, pin |-> FALSE]
Broken == [kind |-> "broken", gen |-> 0, val |-> 0, pin |-> FALSE]
Documents == [kind : {"doc"}, gen : 0..(Generations - 1), val : Values, pin : BOOLEAN]
PcSet == {"off", "bootBad", "bootAside", "bootPromote", "ensure", "idle",
          "open", "fill", "verify", "dropBak", "keep", "swap", "restore"}

\* A card operation of this kind succeeds or, where it may, fails without effect.
Outcome(kind) == IF kind \in Faults THEN BOOLEAN ELSE {TRUE}

-----------------------------------------------------------------------------
(* The card.                                                               *)

Exists(name) == file[name].kind # "absent"
CompleteWithPin(name) == file[name].kind = "doc" /\ file[name].pin   \* mutant
Complete(name) == file[name].kind = "doc"
Without(name) == [file EXCEPT ![name] = Absent]
\* A rename needs its source and does not replace an existing target.
CanRename(from, to) == Exists(from) /\ ~Exists(to)
Renamed(from, to) == [file EXCEPT ![to] = file[from], ![from] = Absent]

\* generationNewer(): the sign of the 32-bit difference.
NewerUnsigned(candidate, current) == candidate > current           \* mutant
Newer(candidate, current) ==
  LET d == (candidate + Generations - current) % Generations
  IN  0 < d /\ d < Generations \div 2

\* loadConfiguration(): live, .tmp, .bak in this order, a later one only if newer.
Better(a, b) ==
  IF Complete(b) /\ (~Complete(a) \/ Newer(file[b].gen, file[a].gen)) THEN b ELSE a
Newest == Better(Better("live", "tmp"), "bak")

-----------------------------------------------------------------------------
(* Boot.                                                                   *)

\* loadConfiguration(): nothing is written unless the best document is not live.
\* A card that does not answer leaves the compiled defaults.
BootLoad ==
  /\ pc = "off"
  /\ card' \in BOOLEAN
  /\ IF card' /\ Complete(Newest)
       THEN /\ ram' = file[Newest].val /\ pin' = file[Newest].pin
            /\ generation' = file[Newest].gen /\ source' = Newest
            /\ pc' = IF Newest = "live" THEN "ensure" ELSE "bootBad"
            /\ acked' = {ram'} /\ tried' = {}
       ELSE /\ ram' = 0 /\ pin' = FALSE /\ generation' = 0 /\ source' = "none"
            /\ pc' = "ensure"
            /\ UNCHANGED <<acked, tried>>
  /\ UNCHANGED <<hadLive, file, taskVars, edits>>

\* Whatever .bad held goes, and a live file that was not chosen becomes .bad.
BootDropBad ==
  /\ pc = "bootBad"
  /\ \E ok \in Outcome("remove") : file' = IF ok THEN Without("bad") ELSE file
  /\ pc' = "bootAside"
  /\ UNCHANGED <<hadLive, card, ramVars, taskVars, history>>

BootAside ==
  /\ pc = "bootAside"
  /\ \E ok \in Outcome("promote") :
       file' = IF ok /\ CanRename("live", "bad") THEN Renamed("live", "bad") ELSE file
  /\ pc' = "bootPromote"
  /\ UNCHANGED <<hadLive, card, ramVars, taskVars, history>>

\* A failed promotion is not fatal: the document stays where it was found.
BootPromote ==
  /\ pc = "bootPromote"
  /\ \E ok \in Outcome("promote") :
       file' = IF ok /\ CanRename(source, "live") THEN Renamed(source, "live") ELSE file
  /\ pc' = "ensure"
  /\ UNCHANGED <<hadLive, card, ramVars, taskVars, history>>

-----------------------------------------------------------------------------
(* saveConfiguration().                                                    *)

\* A leftover .tmp is an obsolete transaction and goes first.
TmpRemoved == \E ok \in Outcome("remove") : file' = IF ok THEN Without("tmp") ELSE file

SaveBegins ==
  /\ card
  /\ TmpRemoved
  /\ tried' = tried \cup {ram}
  /\ pc' = "open"
  /\ UNCHANGED <<hadLive, card, ramVars, provisioned, edits, acked>>

\* The save in setup(), for a generated PIN, leaves the retry to loop(); both lift
\* the provisioning interlock only on success.
ReturnsLifting(ok) ==                                              \* mutant
  pc' = "idle" /\ saveNeeded' = ~ok /\ provisioned' = (provisioned \/ pin)
SaveReturns(ok) ==
  /\ pc' = "idle"
  /\ saveNeeded' = ~ok
  /\ provisioned' = (provisioned \/ (ok /\ pin))

NextGeneration ==
  IF generation + 1 = Generations THEN 1 ELSE generation + 1

\* open(FILE_WRITE) creates the file or appends to one that could not be removed, of
\* which a reader sees the first document only.
SaveOpen ==
  /\ pc = "open"
  /\ \E ok \in Outcome("write") :
       IF ok THEN /\ file' = IF Exists("tmp") THEN file ELSE [file EXCEPT !["tmp"] = Broken]
                  /\ pc' = IF Exists("tmp") THEN "verify" ELSE "fill"
                  /\ UNCHANGED taskVars
             ELSE SaveReturns(FALSE) /\ UNCHANGED file
  /\ UNCHANGED <<hadLive, card, ramVars, history>>

\* serializeJson(), flush(), close(): all of the document or part of it.
SaveFill ==
  /\ pc = "fill"
  /\ \E ok \in Outcome("write") :
       file' = IF ok THEN [file EXCEPT !["tmp"] = [kind |-> "doc", gen |-> NextGeneration,
                                                   val |-> ram, pin |-> pin]]
                     ELSE file
  /\ pc' = "verify"
  /\ UNCHANGED <<hadLive, card, ramVars, taskVars, history>>

VerifiedUnread == Exists("tmp")                                    \* mutant
Verified == Complete("tmp") /\ file["tmp"].gen = NextGeneration

SaveVerified ==
  /\ pc = "verify" /\ Verified
  /\ pc' = "dropBak"
  /\ UNCHANGED <<hadLive, file, card, ramVars, taskVars, history>>

\* Nothing was written, or it did not read back: .tmp goes and the save fails.
SaveAbandoned ==
  /\ pc = "verify"
  /\ ~Verified \/ "write" \in Faults
  /\ TmpRemoved
  /\ SaveReturns(FALSE)
  /\ UNCHANGED <<hadLive, card, ramVars, history>>

SaveDropBak ==
  /\ pc = "dropBak"
  /\ \E ok \in Outcome("remove") : file' = IF ok THEN Without("bak") ELSE file
  /\ pc' = "keep"
  /\ UNCHANGED <<hadLive, card, ramVars, taskVars, history>>

\* The previous live file becomes .bak; if it cannot, nothing has moved.
SaveKeepPrevious ==
  /\ pc = "keep"
  /\ hadLive' = Exists("live")
  /\ \E ok \in Outcome("keep") :
       LET moved == ok /\ CanRename("live", "bak")
       IN  /\ file' = IF moved THEN Renamed("live", "bak") ELSE file
           /\ IF hadLive' /\ ~moved THEN SaveReturns(FALSE)
                                    ELSE pc' = "swap" /\ UNCHANGED taskVars
  /\ UNCHANGED <<card, ramVars, history>>

SaveSwap ==
  /\ pc = "swap"
  /\ \E ok \in Outcome("swap") :
       IF ok /\ CanRename("tmp", "live")
         THEN /\ file' = Renamed("tmp", "live")
              /\ generation' = NextGeneration
              /\ acked' = {ram} /\ tried' = {}
              /\ SaveReturns(TRUE)
         ELSE /\ pc' = "restore"
              /\ UNCHANGED <<file, generation, acked, tried, taskVars>>
  /\ UNCHANGED <<hadLive, card, ram, pin, source, edits>>

Restored == IF hadLive /\ CanRename("bak", "live") THEN Renamed("bak", "live") ELSE file

SaveRestore ==
  /\ pc = "restore"
  /\ \E ok \in Outcome("restore") : file' = IF ok THEN Restored ELSE file
  /\ SaveReturns(FALSE)
  /\ UNCHANGED <<hadLive, card, ramVars, history>>

-----------------------------------------------------------------------------
(* The rest of setup() and loop().                                         *)

\* writePinEnsure(): a PIN that was loaded from a complete document unlocks; a
\* missing one is generated, if the entropy source answers, and must be saved.
EnsureLoadedPin ==
  /\ pc = "ensure" /\ pin
  /\ provisioned' = (source # "none")
  /\ saveNeeded' = (source = "none")
  /\ pc' = "idle"
  /\ UNCHANGED <<hadLive, file, card, ramVars, history>>

EnsureGeneratePin ==
  /\ pc = "ensure" /\ ~pin
  /\ pin' = TRUE
  /\ saveNeeded' = TRUE
  /\ IF card THEN TmpRemoved /\ tried' = tried \cup {ram} /\ pc' = "open"
             ELSE pc' = "idle" /\ UNCHANGED <<file, tried>>
  /\ UNCHANGED <<hadLive, card, ram, generation, source, provisioned, edits, acked>>

EnsureNoEntropy ==
  /\ pc = "ensure" /\ ~pin
  /\ pc' = "idle"
  /\ UNCHANGED <<hadLive, file, card, ramVars, taskVars, history>>

\* An authorised request changes the configuration and asks loop() to save it.
Edit ==
  /\ pc = "idle" /\ pin /\ edits < MaxEdits
  /\ edits' = edits + 1
  /\ ram' = edits'
  /\ saveNeeded' = TRUE
  /\ UNCHANGED <<pc, hadLive, file, card, pin, generation, source, provisioned,
                 acked, tried>>

SaveTask == pc = "idle" /\ saveNeeded /\ SaveBegins /\ UNCHANGED saveNeeded

\* Power is lost, or the watchdog resets: only the card remains.
PowerLoss ==
  /\ pc # "off"
  /\ pc' = "off" /\ hadLive' = FALSE /\ card' = FALSE
  /\ ram' = 0 /\ pin' = FALSE /\ generation' = 0 /\ source' = "none"
  /\ saveNeeded' = FALSE /\ provisioned' = FALSE
  /\ UNCHANGED <<file, history>>

-----------------------------------------------------------------------------
(* The specification.                                                      *)

\* A board with an empty card, a settings file from before generations existed (with
\* or without an access PIN), or one whose generation is about to wrap.
FirstLive == {Absent}
  \cup [kind : {"doc"}, gen : {0}, val : {0}, pin : BOOLEAN]
  \cup [kind : {"doc"}, gen : {Generations - 2}, val : {0}, pin : {TRUE}]

Init ==
  /\ pc = "off" /\ hadLive = FALSE /\ card = FALSE
  /\ \E first \in FirstLive :
       /\ file = [n \in Names |-> IF n = "live" THEN first ELSE Absent]
       /\ acked = IF first = Absent THEN {} ELSE {0}
  /\ ram = 0 /\ pin = FALSE /\ generation = 0 /\ source = "none"
  /\ saveNeeded = FALSE /\ provisioned = FALSE
  /\ edits = 0 /\ tried = {}

Boot == BootLoad \/ BootDropBad \/ BootAside \/ BootPromote
Ensure == EnsureLoadedPin \/ EnsureGeneratePin \/ EnsureNoEntropy
Save == \/ SaveTask \/ SaveOpen \/ SaveFill \/ SaveVerified \/ SaveAbandoned
        \/ SaveDropBak \/ SaveKeepPrevious \/ SaveSwap \/ SaveRestore

Next == Boot \/ Ensure \/ Save \/ Edit \/ PowerLoss

Spec == Init /\ [][Next]_vars

-----------------------------------------------------------------------------
(* Properties.                                                             *)

\* The card holds documents, fragments or nothing; every local has its type.
TypeOK ==
  /\ pc \in PcSet /\ hadLive \in BOOLEAN /\ card \in BOOLEAN
  /\ file \in [Names -> Documents \cup {Absent, Broken}]
  /\ ram \in Values /\ pin \in BOOLEAN /\ generation \in 0..(Generations - 1)
  /\ source \in {"live", "tmp", "bak", "none"}
  /\ saveNeeded \in BOOLEAN /\ provisioned \in BOOLEAN
  /\ edits \in Values /\ acked \subseteq Values /\ tried \subseteq Values

\* Whenever power is lost, the next boot takes the configuration last acknowledged
\* or booted, or one a later save was still trying to store: never an older one, at
\* any step of any save or recovery, over the wrap of the generation counter.
EveryPowerLossRecovers ==
  /\ acked # {} => Complete(Newest)
  /\ Complete(Newest) => file[Newest].val \in acked \cup tried

\* The order in which loadConfiguration() looks at the three names never decides
\* between different configurations: two complete documents have two generations.
NoTiedGenerations ==
  \A a, b \in {"live", "tmp", "bak"} :
    a # b /\ Complete(a) /\ Complete(b) => file[a].gen # file[b].gen

\* The provisioning interlock is lifted only while a boot would find the access PIN
\* on the card (writePinEnsure, and the last step of loop()'s save).
ProvisionedIsDurable == provisioned => Complete(Newest) /\ file[Newest].pin

\* The settings file is a register that survives power loss (see DurableRegister).
Register == INSTANCE DurableRegister WITH
  view <- ram, readable <- card, committed <- acked, pending <- tried
ImplementsRegister == Register!Spec

\* What comments of the code say and a run refutes (see README, findings).

\* "At every power-loss point at least one of live, tmp or backup contains a complete
\* document".
SomeCopyRemains == acked # {} => Complete(Newest)

\* "Failure to promote is non-fatal: the valid temp remains available on the next
\* boot."
TempRemainsAvailable == source = "tmp" => Complete(Newest)

\* "saveConfiguration() returned only after parsing the bytes back and promoting the
\* complete document."
SavedMeansStored ==
  [][pc = "swap" /\ pc' = "idle" => file'["live"].val = ram]_vars

=============================================================================
