---------------------------- MODULE PresetStore ----------------------------
(***************************************************************************)
(* Presets on the card (presets.cpp) and the credentials a document may    *)
(* or may not carry into the configuration (config_serde.h): settings      *)
(* posted by the operator, imported files and loaded presets.  The card    *)
(* resolves names without regard to case; a step of a save is one          *)
(* operation of the card, any of which may fail, and power may go away     *)
(* between two.  What is not about credentials is one number, the body.    *)
(***************************************************************************)
EXTENDS Integers

CONSTANTS Folded,    \* valid preset names without regard to case
          Spellings, \* the spellings of one
          Bodies,    \* what the rest of a configuration may be
          Hosts,     \* endpoints of the broker
          Passwords, \* its passwords
          Pins       \* write PINs

\* The empty string: no password, no PIN, no name.
None == "none"

\* What the constants must satisfy.
ConstantsOK ==
  /\ Folded # {} /\ Spellings # {} /\ Bodies # {} /\ Hosts # {} /\ Pins # {}
  /\ None \notin Folded \cup Passwords \cup Pins

Names == Folded \X Spellings
Fold(n) == n[1]

VARIABLES
  mainCfg,         \* config: body, host, password, on (Mqtt.Enabled) and pin
  json, tmp,       \* <name>.json and <name>.json.tmp of each folded name
  job,             \* the save under way
  granted, opPin,  \* history: the passwords the operator gave to hosts; the PIN he chose
  stored, resaved  \* history: names stored and not deleted; those removed to be replaced

fileVars == <<json, tmp>>
credVars == <<granted, opPin>>
histVars == <<stored, resaved>>
psVars == <<mainCfg, fileVars, job, credVars, histVars>>

NoName == <<None, 0>>
NoFile == [name |-> NoName, doc |-> [whole |-> FALSE]]
NoJob == [stage |-> "none"]

\* A document of another device or an editor: it may carry credentials, and miss sections.
Documents == [body : Bodies, host : Hosts, password : {None} \cup Passwords, pin : {None} \cup Pins,
              on : BOOLEAN, whole : BOOLEAN]
Partial == [whole |-> FALSE]

\* A provisioned device that no broker knows yet.
Provisioned == [body : Bodies, host : Hosts, password : {None}, on : {FALSE}, pin : Pins]

Init ==
  /\ mainCfg \in Provisioned
  /\ json = [f \in Folded |-> NoFile] /\ tmp = [f \in Folded |-> NoFile]
  /\ job = NoJob
  /\ granted = {} /\ opPin = mainCfg.pin
  /\ stored = {} /\ resaved = {}
-----------------------------------------------------------------------------
(* Credentials. *)

\* mutant: a preset is written as the configuration is
RedactedWithPassword(c) ==
  [body |-> c.body, host |-> c.host, password |-> c.password, pin |-> None, on |-> c.on,
   whole |-> TRUE]

\* redactSecrets() of the document of the configuration.
Redacted(c) == [body |-> c.body, host |-> c.host, password |-> None, pin |-> None, on |-> c.on,
                whole |-> TRUE]

\* preserveSecrets(): an empty secret of a post means the one there is.
PreserveSecrets(d) ==
  [body |-> d.body, host |-> d.host, on |-> d.on,
   password |-> IF d.password = None THEN mainCfg.password ELSE d.password,
   pin |-> IF d.pin = None THEN mainCfg.pin ELSE d.pin]

\* mutant: a file's endpoint gets the password of the endpoint before
RestoreSecretsAnyHost(d) ==
  [body |-> d.body, host |-> d.host, on |-> d.on,
   pin |-> mainCfg.pin, password |-> mainCfg.password]

\* restoreSecrets(): a file sets no secret, and an endpoint it changes gets none.
RestoreSecrets(d) ==
  LET same == d.host = mainCfg.host
  IN [body |-> d.body, host |-> d.host, pin |-> mainCfg.pin,
      password |-> IF same THEN mainCfg.password ELSE None,
      on |-> same /\ d.on]

\* api_config_post() of a complete, valid document by the operator.
PostSettings(d) ==
  /\ job = NoJob /\ d.whole
  /\ mainCfg' = PreserveSecrets(d)
  /\ opPin' = mainCfg'.pin
  /\ granted' = granted \cup ({<<mainCfg'.host, mainCfg'.password>>} \cap (Hosts \X Passwords))
  /\ UNCHANGED <<fileVars, job, histVars>>

\* configApplyDocument(): an incomplete document or one with conflicting pins is refused.
ApplyDocument(d) ==
  /\ d.whole
  /\ mainCfg' = RestoreSecrets(d)

\* api_config_import()
Import(d) ==
  /\ job = NoJob
  /\ ApplyDocument(d)
  /\ UNCHANGED <<fileVars, job, credVars, histVars>>

\* presetLoad(): the exact spelling only.
Load(n) ==
  /\ job = NoJob
  /\ json[Fold(n)].name = n
  /\ ApplyDocument(json[Fold(n)].doc)
  /\ UNCHANGED <<fileVars, job, credVars, histVars>>
-----------------------------------------------------------------------------
(* Saving. *)

\* mutant: a name that differs only in case is taken for the same
FreeOrExactAnyCase(n) == n \in Names

\* presetFind(): nothing there under any spelling, or exactly this one.
FreeOrExact(n) == json[Fold(n)].name \in {NoName, n}

\* presetSave(), up to the open of the temporary file.
SaveStart(n) ==
  /\ job = NoJob
  /\ FreeOrExact(n)
  /\ job' = [stage |-> "write", name |-> n]
  /\ tmp' = [tmp EXCEPT ![Fold(n)] = [name |-> n, doc |-> Partial]]
  /\ UNCHANGED <<mainCfg, json, credVars, histVars>>

\* The file cannot be opened or is not all there: it is removed, the preset is untouched.
SaveShort ==
  /\ job.stage = "write"
  /\ tmp' = [tmp EXCEPT ![Fold(job.name)] = NoFile]
  /\ job' = NoJob
  /\ UNCHANGED <<mainCfg, json, credVars, histVars>>

\* mutant: the size of the file is not compared with what was written
SaveWriteUnchecked ==
  /\ job.stage = "write"
  /\ \E d \in {Redacted(mainCfg), Partial} :
       tmp' = [tmp EXCEPT ![Fold(job.name)] = [name |-> job.name, doc |-> d]]
  /\ job' = [job EXCEPT !.stage = "remove"]
  /\ UNCHANGED <<mainCfg, json, credVars, histVars>>

SaveWrite ==
  /\ job.stage = "write"
  /\ tmp' = [tmp EXCEPT ![Fold(job.name)] = [name |-> job.name, doc |-> Redacted(mainCfg)]]
  /\ job' = [job EXCEPT !.stage = "remove"]
  /\ UNCHANGED <<mainCfg, json, credVars, histVars>>

\* The preset being replaced is removed; nobody looks whether that worked.
SaveRemove ==
  /\ job.stage = "remove"
  /\ \E gone \in BOOLEAN :
       /\ json' = IF gone THEN [json EXCEPT ![Fold(job.name)] = NoFile] ELSE json
       /\ resaved' = IF gone THEN resaved \cup {job.name} ELSE resaved
  /\ job' = [job EXCEPT !.stage = "rename"]
  /\ UNCHANGED <<mainCfg, tmp, credVars, stored>>

SaveRename ==
  /\ job.stage = "rename"
  /\ json[Fold(job.name)] = NoFile
  /\ json' = [json EXCEPT ![Fold(job.name)] = tmp[Fold(job.name)]]
  /\ tmp' = [tmp EXCEPT ![Fold(job.name)] = NoFile]
  /\ stored' = stored \cup {job.name} /\ resaved' = resaved \ {job.name}
  /\ job' = NoJob
  /\ UNCHANGED <<mainCfg, credVars>>

\* The rename fails, as it does when there still is a file: what was written is removed.
SaveRenameFails ==
  /\ job.stage = "rename"
  /\ tmp' = [tmp EXCEPT ![Fold(job.name)] = NoFile]
  /\ job' = NoJob
  /\ UNCHANGED <<mainCfg, json, credVars, histVars>>

\* presetDelete(): the exact spelling only.
Delete(n) ==
  /\ job = NoJob
  /\ json[Fold(n)].name = n
  /\ json' = [json EXCEPT ![Fold(n)] = NoFile]
  /\ stored' = stored \ {n} /\ resaved' = resaved \ {n}
  /\ UNCHANGED <<mainCfg, tmp, job, credVars>>
-----------------------------------------------------------------------------
(* The environment. *)

\* Power goes away in the middle of a save.
PowerLoss ==
  /\ job # NoJob /\ job' = NoJob
  /\ UNCHANGED <<mainCfg, fileVars, credVars, histVars>>

\* The card is edited elsewhere: a file replaces whatever has the name.
EditCard(n, d) ==
  /\ job = NoJob
  /\ json' = [json EXCEPT ![Fold(n)] = [name |-> n, doc |-> d]]
  /\ stored' = {m \in stored : Fold(m) # Fold(n)}
  /\ resaved' = {m \in resaved : Fold(m) # Fold(n)}
  /\ UNCHANGED <<mainCfg, tmp, job, credVars>>

\* Documents that others wrote: with a password and a PIN of their own.
Foreign == {d \in Documents : d.password # None /\ d.pin # None /\ d.on /\ d.whole}
Posted  == {d \in Documents : d.on /\ (d.pin # None => d.password = None)}

Next ==
  \/ \E d \in Posted : PostSettings(d)
  \/ \E d \in Foreign \cup {Partial} : Import(d)
  \/ \E n \in Names : Load(n) \/ SaveStart(n) \/ Delete(n)
  \/ SaveShort \/ SaveWrite \/ SaveRemove \/ SaveRename \/ SaveRenameFails \/ PowerLoss
  \/ \E n \in Names, d \in Foreign \cup {Partial} : EditCard(n, d)

Spec == Init /\ [][Next]_psVars
-----------------------------------------------------------------------------
Files == {NoFile} \cup [name : Names, doc : Documents \cup {Partial}]

TypeOK ==
  /\ mainCfg \in [body : Bodies, host : Hosts, password : {None} \cup Passwords, on : BOOLEAN,
                   pin : Pins]
  /\ json \in [Folded -> Files] /\ tmp \in [Folded -> Files]
  /\ job \in {NoJob} \cup [stage : {"write", "remove", "rename"}, name : Names]
  /\ granted \subseteq Hosts \X Passwords /\ opPin \in Pins
  /\ stored \subseteq Names /\ resaved \subseteq Names

\* "Files cannot SET a secret; they also must not attach the device secret to a new
\* endpoint" (config_serde.h:239): whatever is imported, loaded, posted and saved in whatever
\* order, a password goes only to a host the operator gave it to, and the PIN is his.
FilesSetNoSecret ==
  /\ mainCfg.password # None => <<mainCfg.host, mainCfg.password>> \in granted
  /\ mainCfg.pin = opPin

\* "a preset never carries credentials" (presets.cpp:132): of all files of the device's own
\* making, finished, abandoned or cut short.
PresetsCarryNoSecret ==
  /\ \A n \in stored : json[Fold(n)].name = n /\ json[Fold(n)].doc.whole =>
                         json[Fold(n)].doc.password = None /\ json[Fold(n)].doc.pin = None
  /\ \A f \in Folded : tmp[f] # NoFile /\ tmp[f].doc.whole =>
                         tmp[f].doc.password = None /\ tmp[f].doc.pin = None

\* "only an exact-name save is an intentional overwrite" (presets.cpp:111): a stored preset is
\* there, whole and under its own spelling, until it is deleted or a save of the same name
\* removes it: whatever else is saved, and also when a save of the same name is refused, comes
\* short, cannot remove it or loses power before that.
StoredPresetsStay ==
  \A n \in stored \ resaved : json[Fold(n)].name = n /\ json[Fold(n)].doc.whole

\* Both promises about presets, and that a finished preset is whole.
PresetsAreSafe ==
  /\ FilesSetNoSecret /\ PresetsCarryNoSecret /\ StoredPresetsStay

\* "a failure part-way through must not destroy the preset being replaced" (presets.cpp:118).
ReplacedPresetSurvives == job = NoJob => \A n \in stored : json[Fold(n)].name = n
=============================================================================
