----------------------------- MODULE IndexCache -----------------------------
(***************************************************************************)
(* The index of the USB file service (MTP_Storage.cpp): every object the   *)
(* host was told of is a record, the records are packed into blocks, the   *)
(* blocks live in a file and a few of them are cached.  A handle is the    *)
(* number of its record and must name the same object for a whole session. *)
(* The blocks reach the file when they are evicted, not in their order.    *)
(***************************************************************************)
EXTENDS Integers, Sequences, FiniteSets, FiniteSetsExt

CONSTANTS
  Roots,       \* MTPD_MAX_FILESYSTEMS: the handles below it are the stores
  PerBlock,    \* 64, the records a block has room to number
  BlockData,   \* BLOCK_SIZE_DATA, in units of a record's size
  Sizes,       \* the sizes of records, which hold the name
  Slots,       \* MTP_RECORD_BLOCKS, the blocks cached
  CycleWrap,   \* 2^16, the range of map_objectid_to_block_cycle_
  MaxEntries,  \* bound: the handles of a session
  MaxScans     \* bound: the directories listed in a session

ConstantsOK ==
  /\ Roots \in Nat \ {0} /\ PerBlock \in Nat \ {0} /\ Slots \in Nat \ {0, 1}
  /\ Sizes \subseteq 1..BlockData /\ CycleWrap \in Nat \ {0, 1} /\ MaxEntries \in Nat
  /\ MaxScans \in Nat

VARIABLES
  generated,   \* index_generated_
  entries,     \* index_entries_
  cache,       \* [slots, cycle, file, maxWritten]: recordBlocks_ with recordBlocksInfo_,
               \* map_objectid_to_block_cycle_, the index file, maxrecordBlockWritten_
  truth        \* history: the record last written under each handle

vars == <<generated, entries, cache, truth>>

Unused == -1                            \* 0xffff
Record == [size : Sizes, scanned : BOOLEAN]
NoRecord == [size |-> 0, scanned |-> FALSE]
Empty == [count |-> 0, at |-> [k \in 0..(PerBlock - 1) |-> NoRecord]]
SlotSet == 0..(Slots - 1)

NextFree(content) ==
  FoldFunctionOnSet(LAMBDA r, n : r.size + n, 0, content.at, 0..(content.count - 1))
Fits(content, size) == NextFree(content) + size <= BlockData
BlockOf(h) == (h - Roots) \div PerBlock
PlaceOf(h) == (h - Roots) % PerBlock
-----------------------------------------------------------------------------
\* A dirty block goes to the file.  The blocks before it that the file does not hold yet go
\* first, from the cache, and are clean from then on.
GapBlocks(c, v) ==
  SelectSeq([k \in 1..(c.slots[v].block - c.maxWritten - 1) |-> c.maxWritten + k],
            LAMBDA b : \E s \in SlotSet : c.slots[s].block = b)

Extension(c, v) ==
  LET gap == GapBlocks(c, v)
      Holder(b) == CHOOSE s \in SlotSet : c.slots[s].block = b
  IN  [k \in 1..Len(gap) |-> c.slots[Holder(gap[k])].content]

WriteBack(c, v) ==
  LET b == c.slots[v].block
  IN  IF ~c.slots[v].dirty THEN c
      ELSE IF b - 1 > c.maxWritten
      THEN [c EXCEPT !.file = c.file \o Extension(c, v) \o <<c.slots[v].content>>,
                     !.slots = [s \in SlotSet |->
                       IF c.slots[s].block \in Range(GapBlocks(c, v))
                       THEN [c.slots[s] EXCEPT !.dirty = FALSE] ELSE c.slots[s]],
                     !.maxWritten = b]
      ELSE [c EXCEPT !.file = IF b < Len(c.file) THEN [c.file EXCEPT ![b + 1] = c.slots[v].content]
                              ELSE Append(c.file, c.slots[v].content),
                     !.maxWritten = Max({b, c.maxWritten})]

\* The slot the block is in, or the first unused one before it; else the one used longest ago.
Delta(c, s) == (c.cycle - c.slots[s].last) % CycleWrap
Hits(c, b) == {s \in SlotSet : c.slots[s].block \in {b, Unused}}
Victim(c) == Min({s \in SlotSet : \A t \in SlotSet : Delta(c, s) >= Delta(c, t)})

Load(c, b) == IF b <= c.maxWritten THEN c.file[b + 1] ELSE Empty

CacheRecordBlock(old, b) ==
  LET c == [old EXCEPT !.cycle = (@ + 1) % CycleWrap]
      hit == Min(Hits(c, b))
      v == Victim(c)
      written == WriteBack(c, v)
  IN  IF Hits(c, b) # {}
      THEN [in |-> hit,
            cache |-> [c EXCEPT !.slots[hit] =
                       [@ EXCEPT !.block = b, !.last = c.cycle,
                                 !.content = IF c.slots[hit].block = b THEN @ ELSE Empty]]]
      ELSE [in |-> v,
            cache |-> [written EXCEPT !.slots[v] =
                       [block |-> b, last |-> c.cycle, dirty |-> FALSE,
                        content |-> Load(written, b)]]]

\* The handle a record gets: the next one, or the first of the next block when the block of
\* the next one has no room for its data.
Room(c, h, size) == Fits(CacheRecordBlock(c, BlockOf(h)).cache.slots[
                           CacheRecordBlock(c, BlockOf(h)).in].content, size)
HandleFor(c, h, size) ==
  IF Room(c, h, size) THEN h ELSE (BlockOf(h) + 1) * PerBlock + Roots

Placed(content, k, r) == [count |-> content.count + 1, at |-> [content.at EXCEPT ![k] = r]]

\* AppendIndexRecord(): for ScanDir(), each object found in a directory.
AppendIndexRecord(size) ==
  /\ generated
  /\ LET first == CacheRecordBlock(cache, BlockOf(entries))
         h == HandleFor(cache, entries, size)
         got == IF h = entries THEN first ELSE CacheRecordBlock(first.cache, BlockOf(h))
         r == [size |-> size, scanned |-> FALSE]
     IN  /\ h < MaxEntries
         /\ entries' = h + 1
         /\ cache' = [got.cache EXCEPT !.slots[got.in] =
                      [@ EXCEPT !.content = Placed(@, PlaceOf(h), r), !.dirty = TRUE]]
         /\ truth' = [k \in (DOMAIN truth) \cup {h} |-> IF k = h THEN r ELSE truth[k]]
  /\ UNCHANGED generated

\* WriteIndexRecord(): ScanDir() has listed the directory under this handle.  That a store
\* was listed is kept apart from the records (store_scanned_), as MtpIndex has it.
StaysClean(slot, changed) == slot.dirty                                  \* mutant
Dirtied(slot, changed) == slot.dirty \/ changed

WriteIndexRecord(h) ==
  /\ generated /\ h \in DOMAIN truth
  /\ Cardinality({k \in DOMAIN truth \ {h} : truth[k].scanned}) < MaxScans
  /\ LET got == CacheRecordBlock(cache, BlockOf(h))
         slot == got.cache.slots[got.in]
         new == ~slot.content.at[PlaceOf(h)].scanned
     IN  cache' = [got.cache EXCEPT !.slots[got.in] =
                   [@ EXCEPT !.content.at[PlaceOf(h)].scanned = TRUE, !.dirty = Dirtied(slot, new)]]
  /\ truth' = [truth EXCEPT ![h].scanned = TRUE]
  /\ UNCHANGED <<generated, entries>>

\* ReadIndexRecord(): also for a handle that was skipped, and for the one after the last.
ReadIndexRecord(h) ==
  /\ generated /\ h <= entries /\ h >= Roots
  /\ cache' = CacheRecordBlock(cache, BlockOf(h)).cache
  /\ UNCHANGED <<generated, entries, truth>>

Answer(h) ==
  LET got == CacheRecordBlock(cache, BlockOf(h))
      content == got.cache.slots[got.in].content
  IN  IF PlaceOf(h) < content.count THEN content.at[PlaceOf(h)] ELSE NoRecord
-----------------------------------------------------------------------------
\* OpenIndex(): an empty file, slot 0 on block 0 and the others unused.
Opened ==
  [slots |-> [s \in SlotSet |-> [block |-> IF s = 0 THEN 0 ELSE Unused, last |-> 0,
                                 dirty |-> FALSE, content |-> Empty]],
   cycle |-> 0, file |-> <<>>, maxWritten |-> -1]

\* GenerateIndex(): the stores get the first handles; the file is opened by the first of them.
GenerateIndex ==
  /\ ~generated
  /\ generated' = TRUE /\ entries' = Roots
  /\ cache' = Opened /\ truth' = <<>>

\* ResetIndex() of a new session: the file is closed.  The next GenerateIndex() removes it and
\* opens it anew, which clears the cache; nothing reads the cache in between.
ResetIndex ==
  /\ generated
  /\ generated' = FALSE /\ entries' = 0
  /\ truth' = <<>> /\ cache' = Opened

Init ==
  /\ generated = FALSE /\ entries = 0 /\ cache = Opened /\ truth = <<>>

Next ==
  \/ GenerateIndex \/ ResetIndex
  \/ \E size \in Sizes : AppendIndexRecord(size)
  \/ \E h \in 0..MaxEntries : WriteIndexRecord(h) \/ ReadIndexRecord(h)

Spec == Init /\ [][Next]_vars
-----------------------------------------------------------------------------
\* What is read under a handle is what was last written under it, through any evictions; a
\* handle that was skipped reads as no record (ReadIndexRecord(), CacheRecordBlock()).
ReadsWhatWasWritten ==
  generated => \A h \in Roots..entries :
    Answer(h) = IF h \in DOMAIN truth THEN truth[h] ELSE NoRecord

\* No block is cached twice, and the file holds every block up to the last one written: a
\* block evicted out of its order brings the ones before it.
Cached(b) == {s \in SlotSet : cache.slots[s].block = b}
FileIsContiguous ==
  /\ Len(cache.file) = cache.maxWritten + 1
  /\ \A s, t \in SlotSet :
       s # t => cache.slots[s].block = Unused \/ cache.slots[s].block # cache.slots[t].block
  /\ generated => \A h \in DOMAIN truth :
       Cached(BlockOf(h)) # {} \/ BlockOf(h) <= cache.maxWritten

HandlesAreKept == ReadsWhatWasWritten /\ FileIsContiguous

\* Type invariant.
TypeOK ==
  /\ generated \in BOOLEAN /\ entries \in 0..MaxEntries
  /\ DOMAIN truth \subseteq Roots..(MaxEntries - 1)
  /\ \A h \in DOMAIN truth : truth[h] \in Record
  /\ cache.cycle \in 0..(CycleWrap - 1) /\ cache.maxWritten \in -1..BlockOf(MaxEntries)
  /\ \A s \in SlotSet : cache.slots[s].block \in -1..BlockOf(MaxEntries)
=============================================================================
