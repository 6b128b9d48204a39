---------------------------- MODULE FileServices ----------------------------
(***************************************************************************)
(* The parts of the services that read and write files for a host: the USB *)
(* file service in its three layers, and the two uploads on their way to   *)
(* the card and to the flash.  As in Services, which extends this, one of  *)
(* them moves while the others are at rest.                                *)
(***************************************************************************)
EXTENDS Integers, Sequences, TLC

VARIABLES
  part,
  \* IndexCache
  icGenerated, icEntries, icCache, icTruth,
  \* MtpIndex
  disk, changes, records, allScanned, openFile, listing, transfer,
  \* MtpResponder
  timer, media, used, more, mtpWire, stale, mtpLast,
  \* Ingest
  body, got, gz, inStage, pre, inLine, parser, staging, bin, segments, stagedOut, result,
  \* HexImage
  hexLines, hex, span, crc, erased, flash, hexSent, verdict

cacheAll == <<icGenerated, icEntries, icCache, icTruth>>
indexAll == <<disk, changes, records, allScanned, openFile, listing, transfer>>
responderAll == <<timer, media, used, more, mtpWire, stale, mtpLast>>
ingestAll == <<body, got, gz, inStage, pre, inLine, parser, staging, bin, segments, stagedOut,
               result>>
hexAll == <<hexLines, hex, span, crc, erased, flash, hexSent, verdict>>
filesAll == <<part, cacheAll, indexAll, responderAll, ingestAll, hexAll>>

Cache == INSTANCE IndexCache WITH
  Roots <- 1, PerBlock <- 2, BlockData <- 3, Sizes <- {1, 2}, Slots <- 2, CycleWrap <- 3,
  MaxEntries <- 6, MaxScans <- 1,
  generated <- icGenerated, entries <- icEntries, cache <- icCache,
  truth <- icTruth

Index == INSTANCE MtpIndex WITH
  Stores <- {0, 1}, Roots <- 3,
  Files <- (0 :> {<<"log">>}) @@ (1 :> {<<"wave">>, <<"d", "a">>, <<"d", "settings">>}),
  Folders <- (0 :> {<<>>}) @@ (1 :> {<<>>, <<"d">>}),
  Sensitive <- {"settings"}, MaxSize <- 2, DiskBuffer <- 2, MaxChanges <- 1, CardFaults <- {},
  open <- openFile

Ascii(n) == [k \in 1..n |-> "ascii"]
Responder == INSTANCE MtpResponder WITH
  TxSize <- 32, DiskBuffer <- 64, FsCount <- 2,
  Names <- {<<>>, Ascii(13), <<"two", "next", "three", "next", "next">>,
            <<"next", "three", "next", "ascii">>},
  FileSizes <- {0, 20, 84}, Counts <- {0, 12},
  wire <- mtpWire, last <- mtpLast

Intake == INSTANCE Ingest WITH
  StagingSamples <- 2, MaxWaveSegments <- 2, MaxStreamSamples <- 3, MaxLines <- 2,
  MaxRecords <- 4,
  wire <- body, stage <- inStage, line <- inLine, out <- stagedOut

Image == INSTANCE HexImage WITH
  Page <- 4, FlashBase <- 4, ImageMax <- 6, SectorSize <- 2, MaxLength <- 3, MaxHexLines <- 6,
  lines <- hexLines, sent <- hexSent

FilesConstantsOK ==
  /\ Cache!ConstantsOK /\ Index!ConstantsOK /\ Responder!ConstantsOK /\ Intake!ConstantsOK
  /\ Image!ConstantsOK
-----------------------------------------------------------------------------
Parts == {"cache", "index", "responder", "ingest", "hex"}

FilesInit(parts) ==
  /\ part \in parts
  /\ Cache!Init
  /\ Index!Init
  /\ part = "index" \/ \A f \in DOMAIN disk : disk[f] = Index!Absent
  /\ Responder!Init
  /\ part = "responder" \/ \A s \in DOMAIN media : ~media[s]
  /\ \/ part = "ingest" /\ Intake!Init
     \/ /\ part # "ingest"
        /\ body = <<Intake!U("line", "a")>> /\ got = 0 /\ gz = "none" /\ inStage = "detect"
        /\ pre = <<>> /\ inLine = "" /\ parser = "none" /\ staging = <<>> /\ bin = "none"
        /\ segments = <<>> /\ stagedOut = <<>> /\ result = Intake!Pending
  /\ Image!Init

FilesRest(s) ==
  /\ UNCHANGED part
  /\ IF s = "cache" THEN TRUE ELSE UNCHANGED cacheAll
  /\ IF s = "index" THEN TRUE ELSE UNCHANGED indexAll
  /\ IF s = "responder" THEN TRUE ELSE UNCHANGED responderAll
  /\ IF s = "ingest" THEN TRUE ELSE UNCHANGED ingestAll
  /\ IF s = "hex" THEN TRUE ELSE UNCHANGED hexAll

FilesNext ==
  \/ part = "cache" /\ Cache!Next /\ FilesRest("cache")
  \/ part = "index" /\ Index!Next /\ FilesRest("index")
  \/ part = "responder" /\ Responder!Next /\ FilesRest("responder")
  \/ part = "ingest" /\ Intake!Next /\ FilesRest("ingest")
  \/ part = "hex" /\ Image!Next /\ FilesRest("hex")
-----------------------------------------------------------------------------
\* A handle names the same object for a session, a directory is listed whole and a file that
\* did not change is sent as announced, and each answer is framed as its header says
\* (MTP_Storage.cpp, MTP_Teensy.cpp).
UsbShowsTheFiles ==
  /\ part = "cache" => Cache!TypeOK /\ Cache!HandlesAreKept
  /\ part = "index" => Index!TypeOK /\ Index!IndexIsTruthful
  /\ part = "responder" => Responder!TypeOK /\ Responder!AnswersAreFramed

\* An upload becomes exactly the file or the image it stands for, or nothing
\* (waveform.cpp, gzip_stream.h, ota_ingest.h).
UploadsAreExact ==
  /\ part = "ingest" => Intake!TypeOK /\ Intake!AcceptsWhatIsMeant
  /\ part = "hex" => Image!TypeOK /\ Image!ImageIsWhatWasSent
=============================================================================
