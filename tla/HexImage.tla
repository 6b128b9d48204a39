------------------------------ MODULE HexImage ------------------------------
(***************************************************************************)
(* The Intel HEX stream of a firmware upload on its way into the staging   *)
(* buffer (hex_parse.h, ota_ingest.h): each record must continue the last, *)
(* stay inside the buffer and find its sectors erased.  The flash holds    *)
(* whatever an earlier upload left.  What is done with a staged image is   *)
(* in Ota.                                                                 *)
(***************************************************************************)
EXTENDS Integers, Sequences, FiniteSets, TLC

CONSTANTS
  Page,          \* 2^16, what the offset of a record spans
  FlashBase,     \* OtaFlashBase, where the image of the stream begins
  ImageMax,      \* OtaImageMax, the bytes the buffer holds
  SectorSize,    \* OtaSectorSize
  MaxLength,     \* bound: the data bytes of a record, 255
  MaxHexLines    \* bound: the lines of a stream

ConstantsOK ==
  /\ {Page, SectorSize, MaxLength, MaxHexLines} \subseteq Nat \ {0}
  /\ FlashBase \in Nat /\ ImageMax \in Nat /\ ImageMax % SectorSize = 0

VARIABLES
  lines,     \* lineCount
  hex,       \* [ext, eof]: extAddr in pages, and eofSeen
  span,      \* [have, min, next]: haveData, minAddr and nextAddr
  crc,       \* the bytes the CRC was taken over
  erased,    \* the sectors marked erased
  flash,     \* the bytes of the chip around the buffer: a line, "erased", "old" or "mixed"
  sent,      \* history: the line that last gave an address its byte
  verdict    \* "receiving", "accepted" or "refused"

vars == <<lines, hex, span, crc, erased, flash, sent, verdict>>

Sectors == 0..(ImageMax \div SectorSize - 1)
Buffer == 0..(ImageMax - 1)          \* offsets of the buffer
Chip == -SectorSize..(ImageMax + SectorSize - 1)
-----------------------------------------------------------------------------
(* Records: hexParseLine() of a line.                                      *)

Data(offset, len) == [type |-> "data", offset |-> offset, len |-> len]
Plain(type) == [type |-> type, offset |-> 0, len |-> 0]
Extended(p) == [type |-> "extended", offset |-> p, len |-> 2]

Lines ==
  {Data(o, n) : o \in 0..(Page - 1), n \in 0..MaxLength}
    \cup {Extended(p) : p \in 0..((FlashBase + ImageMax) \div Page + 1)}
    \cup {Plain(t) : t \in {"eof", "start", "legacy", "blank", "malformed", "checksum"}}

\* A blank line is let through even after the end of the file; nothing else is.
IsError(r) ==
  \/ r.type \in {"malformed", "checksum"}
  \/ hex.eof /\ r.type # "blank"

Parsed(r) ==
  CASE r.type = "extended" -> [hex EXCEPT !.ext = r.offset]
    [] r.type = "eof" -> [hex EXCEPT !.eof = TRUE]
    [] OTHER -> hex
-----------------------------------------------------------------------------
(* The bytes of a record.                                                  *)

Address(r) == hex.ext * Page + r.offset
Off(r) == Address(r) - FlashBase

StartsInside(r) == Off(r) < ImageMax                                     \* mutant
Fits(r) == Off(r) < ImageMax /\ r.len <= ImageMax - Off(r)

GoesOn(r) == span.have => Address(r) >= span.next                        \* mutant
Continues(r) == span.have => Address(r) = span.next

\* Every sector the record touches is erased before it is written.
FirstOnly(r) == {Off(r) \div SectorSize}                                 \* mutant
Touched(r) == (Off(r) \div SectorSize)..((Off(r) + r.len - 1) \div SectorSize)
BytesOf(sectors) == {a \in Chip : a \div SectorSize \in sectors}

Erase(fl, sectors) == [a \in Chip |-> IF a \in BytesOf(sectors) THEN "erased" ELSE fl[a]]
Program(fl, from, len, value) ==
  [a \in Chip |-> IF a \notin from..(from + len - 1) THEN fl[a]
                  ELSE IF fl[a] = "erased" THEN value ELSE "mixed"]

\* otaHandleData(): a record without bytes is passed over.
HandleData(r) ==
  LET now == ToString(lines + 1)
      sectors == Touched(r) \cap Sectors
  IN  CASE r.len = 0 -> UNCHANGED <<span, crc, erased, flash, sent, verdict>>
        [] r.len > 0 /\ (Address(r) < FlashBase \/ ~Fits(r) \/ ~Continues(r)) ->
             verdict' = "refused" /\ UNCHANGED <<span, crc, erased, flash, sent>>
        [] OTHER ->
             /\ erased' = erased \cup sectors
             /\ flash' = Program(Erase(flash, sectors \ erased), Off(r), r.len, now)
             /\ crc' = crc \o [k \in 1..r.len |-> now]
             /\ sent' = [a \in Off(r)..(Off(r) + r.len - 1) |-> now] @@ sent
             /\ span' = [have |-> TRUE, min |-> IF span.have THEN span.min ELSE Address(r),
                         next |-> Address(r) + r.len]
             /\ UNCHANGED verdict
-----------------------------------------------------------------------------
Init ==
  /\ lines = 0 /\ hex = [ext |-> 0, eof |-> FALSE]
  /\ span = [have |-> FALSE, min |-> 0, next |-> 0]
  /\ crc = <<>> /\ erased = {} /\ flash = [a \in Chip |-> "old"] /\ sent = <<>>
  /\ verdict = "receiving"

\* otaFeedByte() at the end of a line.
Line(r) ==
  /\ verdict = "receiving" /\ lines < MaxHexLines
  /\ lines' = lines + 1
  /\ IF IsError(r)
     THEN verdict' = "refused" /\ UNCHANGED <<hex, span, crc, erased, flash, sent>>
     ELSE /\ hex' = Parsed(r)
          /\ IF r.type = "data" THEN HandleData(r)
             ELSE UNCHANGED <<span, crc, erased, flash, sent, verdict>>

\* otaIngestFinish(), wherever the stream ends.
Finish ==
  /\ verdict = "receiving"
  /\ verdict' = IF hex.eof /\ crc # <<>> THEN "accepted" ELSE "refused"
  /\ UNCHANGED <<lines, hex, span, crc, erased, flash, sent>>

Next == (\E r \in Lines : Line(r)) \/ Finish

Spec == Init /\ [][Next]_vars
-----------------------------------------------------------------------------
\* An accepted image is dense: from the first address of the stream to the last the buffer
\* holds what the stream said of that address, on freshly erased flash, and the CRC was taken
\* over the same bytes in the order of the addresses; and no upload, accepted or not, changes
\* a byte outside the buffer, where the running image and the reserved sectors are.
Low == span.min - FlashBase
High == span.next - FlashBase - 1
ImageIsWhatWasSent ==
  /\ \A a \in Chip \ Buffer : flash[a] = "old"
  /\ verdict = "accepted" =>
       /\ hex.eof /\ Low <= High
       /\ DOMAIN sent = Low..High
       /\ \A a \in Low..High : flash[a] = sent[a] /\ crc[a - Low + 1] = flash[a]
       /\ Len(crc) = High - Low + 1

\* Type invariant.
TypeOK ==
  /\ lines \in 0..MaxHexLines /\ erased \subseteq Sectors
  /\ verdict \in {"receiving", "accepted", "refused"}
=============================================================================
