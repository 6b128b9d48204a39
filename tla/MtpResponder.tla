---------------------------- MODULE MtpResponder ----------------------------
(***************************************************************************)
(* The commands of the USB file service (MTP_Teensy.cpp).  A command is    *)
(* answered by a data phase, which announces its length, and a response;   *)
(* each is one USB transfer, which ends with a packet that is not full.    *)
(* Lengths are in bytes and the content of a dataset is left out.          *)
(***************************************************************************)
EXTENDS Integers, Sequences, FiniteSets

CONSTANTS
  TxSize,      \* usb_mtp_txSize(), the bytes of a packet
  DiskBuffer,  \* DISK_BUFFER_SIZE
  FsCount,     \* the stores
  Names,       \* names of files, volumes and the device: sequences of classes of bytes
  FileSizes,   \* the sizes of files
  Counts       \* the numbers of objects in a directory

ConstantsOK ==
  /\ TxSize \in Nat /\ TxSize > 24 /\ DiskBuffer \in Nat \ {0} /\ FsCount \in Nat \ {0}
  /\ <<>> \in Names /\ FileSizes \subseteq Nat /\ Counts \subseteq Nat

VARIABLES
  timer,     \* g_pmtpd_interval: the 20 Hz interrupt answers until loop() is first called
  media,     \* media_present, by store
  used,      \* transmit_buffer.len
  more,      \* write_transfer_open
  wire,      \* history: the packets sent for the command answered last
  stale,     \* history: the bytes that were in the buffer before that command
  last       \* history: what the command was answered

vars == <<timer, media, used, more, wire, stale, last>>

StoreSet == 0..(FsCount - 1)
Times(n, w) == [k \in 1..n |-> w]
HeaderSize == 12
-----------------------------------------------------------------------------
\* utf8_strlen(), and the loop of writestring(), which counts alike: the characters the bytes
\* of a name make.  What is not UTF-8 is skipped.
Decode(name) ==
  LET step(at, c) ==
        CASE c = "ascii" -> [chars |-> at.chars + 1, left |-> 0]
          [] c = "next" /\ at.left > 0 -> [chars |-> at.chars + (IF at.left = 1 THEN 1 ELSE 0),
                                           left |-> at.left - 1]
          [] c = "two" -> [at EXCEPT !.left = 1]
          [] c = "three" -> [at EXCEPT !.left = 2]
          [] OTHER -> [at EXCEPT !.left = 0]
      after[n \in 0..Len(name)] ==
        IF n = 0 THEN [chars |-> 0, left |-> 0] ELSE step(after[n - 1], name[n])
  IN  after[Len(name)].chars
Lengths == {Decode(name) : name \in Names}

\* writestringlen() announces what writestring() will write of a name of so many characters:
\* the length, the characters and a terminator, or the length alone.
LenWithoutEnd(chars) == IF chars = 0 THEN 1 ELSE 2 * chars + 1           \* mutant
writestringlen(chars) == IF chars = 0 THEN 1 ELSE 2 * chars + 2 + 1
writestring(chars) == IF chars = 0 THEN 1 ELSE 1 + 2 * chars + 2

\* An answer: the data phase, if there is one, as announced and as written, whether it ends
\* with write_finish(), the response code and its parameters.
Answer(announced, written, finished, code, params) ==
  [announced |-> announced, written |-> written, finished |-> finished, code |-> code,
   params |-> params, whole |-> TRUE]
Plain(code) == Answer(-1, 0, TRUE, code, 0)
Dataset(announced, written, code) == Answer(announced, written, TRUE, code, 0)

DateLen == 15
Date(known) == IF known THEN DateLen ELSE 0
-----------------------------------------------------------------------------
\* GetDeviceInfo(): 14 operations and 8 events are told, and 5 strings.
Operations == {"GetDeviceInfo", "OpenSession", "CloseSession", "GetStorageIDs",
               "GetStorageInfo", "GetObjectHandles", "GetObjectInfo", "GetObject",
               "GetDevicePropDesc", "GetDevicePropValue", "GetPartialObject",
               "GetObjectPropsSupported", "GetObjectPropDesc", "GetObjectPropValue"}
EventCount == 8

GetDeviceInfo(name) ==
  Dataset(2 + 4 + 2 + 3 * writestringlen(name) + 2 + 4 + 2 * Cardinality(Operations)
            + 4 + 2 * EventCount + 4 + 2 + 4 + 4 + 2 * 2 + 2 * writestringlen(Date(TRUE)),
          2 + 4 + 2 + writestring(name) + 2 + 4 + Cardinality(Operations) * 2
            + 4 + EventCount * 2 + 4 + 2 + 4 + 4 + 2 + 2 + writestring(name)
            + writestring(name) + writestring(Date(TRUE)) + writestring(Date(TRUE)), "OK")

\* Storage2Store() of an identifier no store has is out of range (mtpStoreInRange()).
InRange(store) == store \in StoreSet

GetStorageIDs ==
  LET present == Cardinality({s \in StoreSet : media[s]})
  IN  Dataset(4 + present * 4, 4 + present * 4, "OK")

GetStorageInfo(store, volume) ==
  IF ~InRange(store) THEN Plain("InvalidStorageId")
  ELSE IF ~media[store] THEN Plain("StoreNotAvailable")
  ELSE Dataset(2 + 2 + 2 + 8 + 8 + 4 + writestringlen(volume) + writestringlen(0),
               2 + 2 + 2 + 8 + 8 + 4 + writestring(volume) + writestring(0), "OK")

GetNumObjects(store, format) ==
  IF format THEN Plain("SpecificationByFormatUnsupported")
  ELSE IF ~InRange(store) THEN Plain("InvalidStorageId")
  ELSE Answer(-1, 0, TRUE, "OK", 1)

\* The array of a store whose media is absent is announced with its length, and left out.
GetObjectHandles(store, format, n) ==
  IF format THEN Dataset(4, 4, "SpecificationByFormatUnsupported")
  ELSE IF ~InRange(store) THEN Plain("InvalidStorageId")
  ELSE IF media[store] THEN Dataset(4 + n * 4, 4 + n * 4, "OK")
  ELSE [Dataset(4, 0, "OK") EXCEPT !.whole = FALSE]

GetObjectInfo(name, created, modified) ==
  Dataset(4 + 2 + 2 + 4 + 2 + 4 + 4 + 4 + 4 + 4 + 4 + 4 + 2 + 4 + 4
            + writestringlen(name) + writestringlen(Date(created))
            + writestringlen(Date(modified)) + writestringlen(0),
          4 + 2 + 2 + 4 + 2 + 4 + 4 + 4 + 4 + 4 + 4 + 4 + 2 + 4 + 4 + writestring(name)
            + writestring(Date(created)) + writestring(Date(modified))
            + writestring(0), "OK")

\* The friendly name is the one property of the device.  Any other is refused after a header
\* of a data phase that is not finished.
Unfinished == Answer(0, 0, FALSE, "DevicePropNotSupported", 0)
GetDevicePropValue(known, name) ==
  IF known THEN Dataset(writestringlen(name), writestring(name), "OK") ELSE Unfinished
GetDevicePropDesc(known, name) ==
  IF known
  THEN Dataset(5 + writestringlen(name) * 2 + 1,
               2 + 2 + 1 + writestring(name) + writestring(name) + 1, "OK")
  ELSE Unfinished

\* The properties of an object: the width of each, 0 for a string.
Properties == [StorageId |-> 4, ObjectFormat |-> 2, ProtectionStatus |-> 2, ObjectSize |-> 8,
               ObjectFileName |-> 0, DateCreated |-> 0, DateModified |-> 0,
               ParentObject |-> 4, PersistentUid |-> 16, Name |-> 0]
Property == DOMAIN Properties

GetObjectPropsSupported ==
  Dataset(4 + 2 * Cardinality(Property), 4 + Cardinality(Property) * 2, "OK")

DefaultWidth(p) == IF Properties[p] = 0 THEN 1 ELSE Properties[p]
GetObjectPropDesc(p) ==
  IF p \notin Property THEN Dataset(0, 0, "InvalidObjectPropCode")
  ELSE Dataset(2 + 2 + 1 + DefaultWidth(p) + 4 + 1,
               2 + 2 + 1 + (IF p = "PersistentUid" THEN 8 + 8 ELSE DefaultWidth(p))
                 + 4 + 1, "OK")

GetObjectPropValue(p, name, known) ==
  LET text == IF p \in {"DateCreated", "DateModified"} THEN Date(known) ELSE name
  IN  IF p \notin Property THEN Dataset(0, 0, "InvalidObjectPropCode")
      ELSE IF Properties[p] = 0 THEN Dataset(writestringlen(text), writestring(text), "OK")
      ELSE Dataset(Properties[p],
                   IF p = "PersistentUid" THEN 4 * 4 ELSE Properties[p], "OK")

\* GetObject() of a file that is as long as the index says; GetPartialObject() from an offset.
GetObject(size) == Dataset(size, size, "OK")
GetPartialObject(size, offset) ==
  IF offset >= size THEN Plain("InvalidParameter")
  ELSE Answer(size - offset, size - offset, TRUE, "OK", 1)

\* What would change a file is refused where commands are dispatched.
Mutating == {"DeleteObject", "SendObjectInfo", "SendObject", "FormatStore", "MoveObject",
             "CopyObject", "SetObjectPropValue"}
-----------------------------------------------------------------------------
\* write() sends every packet it fills; write_finish() sends the rest, and an empty packet
\* after a full one.
Write(tx, n) ==
  LET total == tx.used + n
  IN  [used |-> total % TxSize,
       more |-> IF total >= TxSize THEN TRUE ELSE tx.more,
       wire |-> tx.wire \o Times(total \div TxSize, TxSize)]

SendNothing(tx) == tx                                                    \* mutant
SendEmpty(tx) == [tx EXCEPT !.more = FALSE, !.wire = Append(tx.wire, 0)]

Finish(tx) ==
  IF tx.used > 0 THEN [used |-> 0, more |-> FALSE, wire |-> Append(tx.wire, tx.used)]
  ELSE IF tx.more THEN SendEmpty(tx) ELSE tx

Idle == [used |-> used, more |-> more, wire |-> <<>>]
DataPhase(tx, a) ==
  IF a.announced < 0 THEN tx
  ELSE LET sent == Write(Write(tx, HeaderSize), a.written)
       IN  IF a.finished THEN Finish(sent) ELSE sent
Response(tx, a) == Finish(Write(tx, HeaderSize + 4 * a.params))

Sent(tx, a) ==
  /\ used' = tx.used /\ more' = tx.more /\ wire' = tx.wire
  /\ stale' = used /\ last' = a

\* loop(): the command is answered, and its packets are on the wire before it returns.
Reply(a) ==
  /\ ~timer /\ Sent(Response(DataPhase(Idle, a), a), a)
  /\ UNCHANGED <<timer, media>>

\* The interrupt answers a few commands and is busy for the others; it starts its response
\* in a new buffer.
TimerReply(a) ==
  /\ timer
  /\ LET data == DataPhase(Idle, a)
     IN  Sent(Finish(Write([data EXCEPT !.used = 0], HeaderSize)), [a EXCEPT !.params = 0])
  /\ UNCHANGED <<timer, media>>

Early ==
  /\ timer
  /\ \E a \in {GetDeviceInfo(name) : name \in Lengths}
            \cup {GetDevicePropDesc(known, name) : known \in BOOLEAN, name \in Lengths}
            \cup {GetStorageInfo(store, name) : store \in 0..FsCount, name \in Lengths}
            \cup {GetStorageIDs, GetObjectPropsSupported, Plain("OK"), Plain("DeviceBusy")} :
    TimerReply(a)

Browse ==
  /\ ~timer
  /\ \E a \in {GetDeviceInfo(name) : name \in Lengths}
            \cup {GetStorageIDs}
            \cup {GetStorageInfo(store, name) : store \in 0..FsCount, name \in Lengths}
            \cup {GetNumObjects(store, format) : store \in 0..FsCount, format \in BOOLEAN}
            \cup {GetObjectHandles(store, format, n) :
                    store \in 0..FsCount, format \in BOOLEAN, n \in Counts}
            \cup {GetObjectInfo(name, created, modified) :
                    name \in Lengths, created, modified \in BOOLEAN} :
    Reply(a)

Describe ==
  /\ ~timer
  /\ \E a \in {GetDevicePropValue(known, name) : known \in BOOLEAN, name \in Lengths}
            \cup {GetDevicePropDesc(known, name) : known \in BOOLEAN, name \in Lengths}
            \cup {GetObjectPropsSupported}
            \cup {GetObjectPropDesc(p) : p \in Property \cup {"Other"}}
            \cup {GetObjectPropValue(p, name, known) :
                    p \in Property \cup {"Other"}, name \in Lengths, known \in BOOLEAN} :
    Reply(a)

Download ==
  /\ ~timer
  /\ \E a \in {GetObject(size) : size \in FileSizes}
            \cup {GetPartialObject(size, offset) : size, offset \in FileSizes} :
    Reply(a)

Refuse ==
  /\ ~timer
  /\ \E a \in {Plain("ObjectWriteProtected"), Plain("OperationNotSupported")} : Reply(a)

\* OpenSession() and CloseSession(): what they do to the index is in MtpIndex.
Session == Reply(Plain("OK"))

\* The host cancels a download.  A cancel that write() notices empties the buffer; one noticed
\* between two buffers leaves what is in it, and no response is sent either way.
Cancel(size) ==
  \E done \in {n \in 0..size : n % DiskBuffer = 0 \/ n = size} :
    LET sent == Write(Write(Idle, HeaderSize), done)
    IN  /\ ~timer /\ done < size
        /\ \/ Sent(sent, [Plain("none") EXCEPT !.whole = FALSE])
           \/ Sent([sent EXCEPT !.used = 0], [Plain("none") EXCEPT !.whole = FALSE])
        /\ UNCHANGED <<timer, media>>

\* MTP.begin() arms the interrupt and the first loop() ends it.
FirstLoop ==
  /\ timer /\ timer' = FALSE
  /\ UNCHANGED <<media, used, more, wire, stale, last>>
-----------------------------------------------------------------------------
\* A chip that did not mount or a card that is not there is a store without media.
Init ==
  /\ timer = TRUE /\ media \in [StoreSet -> BOOLEAN]
  /\ used = 0 /\ more = FALSE /\ wire = <<>> /\ stale = 0
  /\ last = [Plain("none") EXCEPT !.whole = FALSE]

Next ==
  \/ Early \/ Browse \/ Describe \/ Download \/ Refuse \/ Session
  \/ \E size \in FileSizes : Cancel(size)
  \/ FirstLoop

Spec == Init /\ [][Next]_vars
-----------------------------------------------------------------------------
\* The transfers the host sees: a packet that is not full ends one.
Transfers ==
  LET seen[k \in 0..Len(wire)] ==
        IF k = 0 THEN [done |-> <<>>, now |-> 0]
        ELSE LET was == seen[k - 1]
                 now == was.now + wire[k]
             IN  IF wire[k] = TxSize THEN [was EXCEPT !.now = now]
                 ELSE [done |-> Append(was.done, now), now |-> 0]
  IN  seen[Len(wire)]

\* Every answer is the transfers the protocol asks for: the data phase, as long as it was
\* announced, and the response by itself.  Excepted are the commands whose data phase the code
\* does not finish, and the command after a cancel that left bytes in the buffer
\* (write(), write_finish(), writeDataPhaseHeader(), the sizes of every dataset).
AnswersAreFramed ==
  last.whole /\ last.finished /\ stale = 0 =>
    /\ used = 0 /\ Transfers.now = 0
    /\ Transfers.done = (IF last.announced < 0 THEN <<>> ELSE <<HeaderSize + last.announced>>)
                          \o <<HeaderSize + 4 * last.params>>

\* Observation: the same after a cancel as well.
FramedAfterCancel == last.whole /\ last.finished => Transfers.done # <<>> /\
  Transfers.done[1] \in {HeaderSize + last.announced, HeaderSize + 4 * last.params}

\* Type invariant.
TypeOK ==
  /\ timer \in BOOLEAN /\ media \in [StoreSet -> BOOLEAN]
  /\ used \in 0..(TxSize - 1) /\ more \in BOOLEAN /\ stale \in 0..(TxSize - 1)
=============================================================================
