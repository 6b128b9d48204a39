------------------------------ MODULE MtpIndex ------------------------------
(***************************************************************************)
(* What the USB file service shows of the two stores (MTP_Storage.cpp): a  *)
(* directory is read when the host first asks for it, its objects become   *)
(* records chained by sibling, and a file is opened when it is read.  The  *)
(* web interface changes the same files between two commands, and nothing  *)
(* tells the index.  The records are IndexCache's, here a plain sequence.  *)
(***************************************************************************)
EXTENDS Integers, Sequences, FiniteSets, Functions

CONSTANTS
  Stores,      \* the stores mounted: 0 and 1
  Roots,       \* MTPD_MAX_FILESYSTEMS: stores there may be
  Files,       \* [Stores -> paths of files that may exist], a path being a sequence of names
  Sensitive,   \* names the adapter of the card does not show
  Folders,     \* [Stores -> paths of directories]
  MaxSize,     \* bound: the sizes of files
  DiskBuffer,  \* DISK_BUFFER_SIZE
  MaxChanges,  \* bound: what the web interface does to the files
  CardFaults   \* {"open"} where opening a directory may fail, or {}

ConstantsOK ==
  /\ Stores = 0..(Cardinality(Stores) - 1) /\ Roots \in Nat /\ Roots >= Cardinality(Stores)
  /\ MaxSize \in Nat \ {0} /\ DiskBuffer \in Nat \ {0}
  /\ MaxChanges \in Nat /\ CardFaults \subseteq {"open"}
  /\ \A s \in Stores : <<>> \notin Files[s] /\ <<>> \in Folders[s]

\* The last part of a record is a history: how often the files had been changed when it was
\* read, which also tells one content of a file from the next.
VARIABLES
  disk,        \* the files there are, with the size and the age of each
  changes,     \* how often the web interface has changed them
  records,     \* the index; the record of handle h is records[h + 1]
  allScanned,  \* all_scanned_
  open,        \* open_file_, with the size and the age of the file as it was opened
  listing,     \* history: the directory the host listed last, what it was told
  transfer     \* history: the object sent last, what was announced and what was sent

vars == <<disk, changes, records, allScanned, open, listing, transfer>>

Absent == [size |-> -1, age |-> 0]
NoFile == [handle |-> -2, size |-> 0, age |-> 0]        \* 0xFFFFFFFE
Nothing == [handle |-> -1]
RootParent == -1                                         \* 0xFFFF
Objects == UNION {{s} \X (Files[s] \cup (Folders[s] \ {<<>>})) : s \in Stores}
IsFile(o) == o[2] \in Files[o[1]]
NameOf(o) == o[2][Len(o[2])]
Handles == 0..(Cardinality(Objects) + Roots)
Exists(o) == IsFile(o) => disk[o].size >= 0
Generated == records # <<>>
Rec(rs, h) == rs[h + 1]
-----------------------------------------------------------------------------
\* ConstructFilename(): the names from the root down.
Filename(rs, h) ==
  LET path[k \in 0..(Len(rs) - 1)] ==
        IF Rec(rs, k).parent = RootParent THEN <<>>
        ELSE Append(path[Rec(rs, k).parent], Rec(rs, k).name)
  IN  <<Rec(rs, h).store, path[h]>>

\* GenerateIndex(): the index is empty, one record is appended for each store there may be.
Root(s) == [store |-> s, parent |-> RootParent, sibling |-> 0, name |-> "/", dir |-> TRUE,
            child |-> 0, scanned |-> FALSE, aged |-> 0]

GenerateIndex ==
  IF Generated THEN records
  ELSE records \o [n \in 1..Roots |-> Root(n - 1)]

\* The objects of a directory, as openNextFile() gives them: the files with credentials and
\* the presets are not shown (mtpSensitiveName()).
Shown(o) == NameOf(o) \notin Sensitive
ChildrenOf(o) ==
  {c \in Objects : c[1] = o[1] /\ Exists(c) /\ Shown(c) /\ Len(c[2]) = Len(o[2]) + 1
                   /\ SubSeq(c[2], 1, Len(o[2])) = o[2]}

Unchained(rs, k) == 0                                                    \* mutant
SiblingOf(rs, k) == IF k = 1 THEN 0 ELSE Len(rs) + k - 2

\* ScanDir(): its objects are appended, each chained to the one before; the directory points
\* to the last.  A directory that does not open, as on a store that is not there, stays
\* unscanned.
Scan(rs, h, opens) ==
  LET r == Rec(rs, h)
      inside == ChildrenOf(Filename(rs, h))
      found == CHOOSE order \in Bijection(1..Cardinality(inside), inside) : TRUE
      new == [k \in 1..Len(found) |->
               [store |-> r.store, parent |-> h, sibling |-> SiblingOf(rs, k),
                name |-> NameOf(found[k]), dir |-> ~IsFile(found[k]),
                child |-> IF IsFile(found[k]) THEN disk[found[k]].size ELSE 0,
                scanned |-> FALSE,
                aged |-> IF IsFile(found[k]) THEN disk[found[k]].age ELSE 0]]
      first == IF found = <<>> THEN 0 ELSE Len(rs) + Len(found) - 1
  IN  IF r.dir /\ ~r.scanned /\ r.store \in Stores /\ opens
      THEN [rs EXCEPT ![h + 1].scanned = TRUE, ![h + 1].child = first,
                      ![h + 1].aged = changes] \o new
      ELSE rs

\* ScanAll(): every directory, the ones found on the way included, but for those that do
\* not open.
ScanEach(rs, shut) ==
  LET most == Cardinality(Objects) + Roots
      after[k \in 0..most] ==
        IF k = 0 THEN rs
        ELSE LET was == after[k - 1]
             IN IF k <= Len(was) THEN Scan(was, k - 1, k - 1 \notin shut) ELSE was
  IN  after[most]

\* GetNextObjectHandle(): along the siblings of a directory, or through all the records.
Chain(rs, h) ==
  LET next[n \in 0..Len(rs)] ==
        IF n = 0 THEN <<Rec(rs, h).child>>
        ELSE LET at == next[n - 1][n]
             IN  Append(next[n - 1], IF at = 0 THEN 0 ELSE Rec(rs, at).sibling)
  IN  SelectSeq(next[Len(rs)], LAMBDA k : k # 0)
Everything(rs) == [k \in 1..(Len(rs) - 1) |-> k]

\* A directory that was just listed is not open any more.
Closed == open' = NoFile
MayOpen == IF "open" \in CardFaults THEN BOOLEAN ELSE {TRUE}

\* GetObjectHandles() of a directory: counted in a first pass and listed in a second, and
\* each pass scans the directory if the other did not.
GetObjectHandles(h) ==
  \E first, second \in MayOpen :
    LET once == Scan(GenerateIndex, h, first)
        twice == Scan(once, h, second)
    IN  /\ h < Len(GenerateIndex) /\ Rec(GenerateIndex, h).dir
        /\ records' = twice
        /\ listing' = [handle |-> h, announced |-> Len(Chain(once, h)),
                       told |-> Chain(twice, h)]
        /\ Closed
        /\ UNCHANGED <<disk, changes, allScanned, transfer>>

\* The same with no parent: everything the device has, on every store.
GetAllHandles ==
  \E shut \in IF "open" \in CardFaults THEN SUBSET Handles ELSE {{}} :
  LET rs == IF allScanned THEN records ELSE ScanEach(GenerateIndex, shut)
  IN  /\ allScanned' = TRUE /\ records' = rs
      /\ listing' = [handle |-> -1, announced |-> Len(rs) - 1, told |-> Everything(rs)]
      /\ IF allScanned THEN UNCHANGED open ELSE Closed
      /\ UNCHANGED <<disk, changes, transfer>>

\* OpenFileByIndex(): the file that is open already is used as it was opened.
Opened(h) ==
  LET f == disk[Filename(records, h)]
  IN  IF open.handle = h THEN open
      ELSE IF f.size < 0 THEN NoFile ELSE [handle |-> h, size |-> f.size, age |-> f.age]

\* GetObject() announces the size the index holds and reads a buffer at a time to the end of
\* the file: it stops early only where the announced size is reached exactly.
BytesSent(announced, size) ==
  IF size > announced /\ announced % DiskBuffer = 0 THEN announced ELSE size

IsObject(h) == Generated /\ h < Len(records) /\ ~Rec(records, h).dir

GetObject(h) ==
  /\ IsObject(h)
  /\ open' = IF Rec(records, h).child = 0 THEN open ELSE Opened(h)
  /\ transfer' = [handle |-> h, announced |-> Rec(records, h).child,
                  sent |-> IF Rec(records, h).child = 0 THEN 0
                           ELSE BytesSent(Rec(records, h).child, Opened(h).size),
                  age |-> IF Rec(records, h).child = 0 THEN Rec(records, h).aged
                          ELSE Opened(h).age]
  /\ UNCHANGED <<disk, changes, records, allScanned, listing>>

\* GetPartialObject() sends as many bytes as it announced, whatever was read.
GetPartialObject(h, offset) ==
  /\ IsObject(h) /\ offset < Rec(records, h).child
  /\ open' = Opened(h)
  /\ transfer' = [handle |-> h, announced |-> Rec(records, h).child - offset,
                  sent |-> Rec(records, h).child - offset, age |-> Opened(h).age]
  /\ UNCHANGED <<disk, changes, records, allScanned, listing>>

\* OpenSession(): ResetIndex() forgets the index and which file is open.
OpenSession ==
  /\ IF Generated
     THEN records' = <<>> /\ allScanned' = FALSE /\ open' = NoFile
     ELSE UNCHANGED <<records, allScanned, open>>
  /\ listing' = Nothing /\ transfer' = Nothing
  /\ UNCHANGED <<disk, changes>>

\* The web interface writes a file of the card or removes it.
WebChanges(o, size) ==
  /\ changes < MaxChanges /\ o \in DOMAIN disk /\ size # disk[o].size
  /\ changes' = changes + 1
  /\ disk' = [disk EXCEPT ![o] = IF size < 0 THEN Absent
                                 ELSE [size |-> size, age |-> changes + 1]]
  /\ UNCHANGED <<records, allScanned, open, listing, transfer>>
-----------------------------------------------------------------------------
Init ==
  /\ disk \in [{o \in Objects : IsFile(o)} -> {Absent, [size |-> 1, age |-> 0]}]
  /\ changes = 0 /\ records = <<>> /\ allScanned = FALSE /\ open = NoFile
  /\ listing = Nothing /\ transfer = Nothing

Next ==
  \/ \E h \in Handles : GetObjectHandles(h) \/ GetObject(h)
                        \/ \E offset \in 0..MaxSize : GetPartialObject(h, offset)
  \/ GetAllHandles \/ OpenSession
  \/ \E o \in Objects, size \in -1..MaxSize : WebChanges(o, size)

Spec == Init /\ [][Next]_vars
-----------------------------------------------------------------------------
\* A file is as it was when its directory was read.
Unchanged(h) == disk[Filename(records, h)] = [size |-> Rec(records, h).child,
                                              age |-> Rec(records, h).aged]

\* The handles told for a directory are as many as announced, all different, and name its
\* objects: every object there now that was there when the directory was read
\* (StartGetObjectHandles(), ScanDir()).
ListingIsWhole ==
  listing.handle >= 0 /\ Generated =>
    LET told == listing.told
        named == {Filename(records, told[k]) : k \in 1..Len(told)}
        here == {o \in ChildrenOf(Filename(records, listing.handle)) :
                   IsFile(o) => disk[o].age <= Rec(records, listing.handle).aged}
    IN  /\ listing.announced = Len(told)
        /\ IsInjective(told)
        /\ here \subseteq named
        /\ \A k \in 1..Len(told) : Rec(records, told[k]).parent = listing.handle

\* A file that did not change since its directory was read is sent as it is, whole, and never
\* from the file another session had open (GetObject(), OpenFileByIndex()).
SentAsItIs ==
  transfer.handle >= 0 /\ Unchanged(transfer.handle) =>
    transfer.sent = transfer.announced /\ transfer.age = Rec(records, transfer.handle).aged

IndexIsTruthful == ListingIsWhole /\ SentAsItIs

\* Observation: the bytes sent are the bytes announced, whatever happened to the file.
SentAsAnnounced == transfer.handle >= 0 => transfer.sent = transfer.announced

\* Type invariant.
TypeOK ==
  /\ changes \in 0..MaxChanges /\ allScanned \in BOOLEAN
  /\ Len(records) <= Cardinality(Objects) + Roots
  /\ open.handle \in {-2} \cup Handles
=============================================================================
