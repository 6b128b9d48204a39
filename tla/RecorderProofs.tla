--------------------------- MODULE RecorderProofs ---------------------------
(***************************************************************************)
(* Proofs about Recorder for rings, pieces, post-trigger lengths and       *)
(* backlogs of every size that fits its assumptions.  The inductive        *)
(* invariant RecInv ties every reader to what the rings really hold: a     *)
(* window below the head is the newest samples in order (Holds), and each  *)
(* reader keeps to such a window for as long as it reads.                  *)
(***************************************************************************)
EXTENDS Recorder, TLAPS, SequenceTheorems

\* What is assumed of the constants, in one place.
Sizes ==
  /\ Ring \in Nat \ {0} /\ CurrentRing \in 1..Ring /\ Margin \in 1..Ring
  /\ Modulus \in Nat /\ Modulus >= 2 * Ring /\ Modulus % Ring = 0
  /\ Chunk \in Nat \ {0} /\ DrainChunk \in Nat \ {0} /\ Posts \subseteq 0..Ring
  /\ MaxDrain \in Nat /\ PassTicks \in Nat
  /\ Backlog \in 1..MaxDrain /\ Backlog + PassTicks <= Ring - Margin

USE DEF vars, flags, rings, trigger, meter, serve, pass, drain, Serve

-----------------------------------------------------------------------------
(* The invariant.                                                          *)

\* The types, in parts small enough to be used one at a time.
Flags ==
  /\ enabled \in BOOLEAN /\ frozen \in BOOLEAN /\ metering \in BOOLEAN /\ tripped \in BOOLEAN
  /\ scopeOn \in BOOLEAN /\ crossed \in [last : BOOLEAN, trig : BOOLEAN]
  /\ flipped \in BOOLEAN /\ lost \in BOOLEAN /\ anchored \in BOOLEAN /\ exact \in BOOLEAN
Places ==
  /\ bank \in {0, 1} /\ banks \in [{0, 1} -> {"empty", "data", "copied"}]
  /\ uses \in Usages
  /\ pc \in {"loop", "clear", "apply", "pll", "arm", "enable", "resume", "mark", "header", "data"}
  /\ task \in {"none", "take", "drain"}
Counters ==
  /\ total \in 0..(Modulus - 1) /\ trigSample \in 0..(Modulus - 1)
  /\ \A ch \in Channels : head[ch] \in 0..(Size(ch) - 1)
  /\ cursor \in 0..(Modulus - 1) /\ expect \in 0..(Modulus - 1)
  /\ left \in 0..DrainChunk /\ budget \in 0..PassTicks
  /\ processed \in 0..(MaxDrain + DrainChunk)
Samples == \A ch \in Channels : ring[ch] \in [0..(Size(ch) - 1) -> 0..Modulus]

\* The scope machine and a download, as sets of records.
Scopes == [state : {"idle", "armed", "triggered", "complete"}, source : Channels,
           primed : BOOLEAN, post : Posts \cup {0}, left : 0..Ring]
Downloads == [ch : Channels, count : 0..Ring, trig : 0..Ring, frozen : BOOLEAN,
              sent : Seq(0..Modulus)]
DownloadType == dl \in Downloads /\ Len(dl.sent) <= dl.count

\* The bank that is copied and cleared is not the one the interrupt adds to.
MeterInv == ~lost /\ (task = "take" => banks[IdleBank] # "data")

\* The scope is out of the interrupt's hands while it is set up; an armed one is primed
\* by a sample before the level, a triggered one counts the samples since its trigger.
ScopeInv ==
  /\ pc \in {"arm", "enable", "resume"} => ~scopeOn
  /\ pc = "enable" => scope.state = "armed" /\ ~scope.primed
  /\ scope.state # "idle" /\ scope.source = "i" => metering
  /\ scopeOn /\ scope.state = "armed" /\ scope.primed => crossed.last
  /\ scopeOn /\ scope.state = "triggered" =>
       /\ scope.left > 0 /\ crossed.trig
       /\ Minus(total, trigSample) + scope.left = scope.post
  /\ TriggerIsWhereReported

\* Where the j-th newest sample is, and that the n newest are there in order.
Slot(ch, j) == IF j < head[ch] THEN head[ch] - 1 - j ELSE head[ch] + Size(ch) - 1 - j
Holds(ch, n) == \A j \in 0..(n - 1) : ring[ch][Slot(ch, j)] = Minus(total, j)

\* What a ring holds, since the last reconfiguration.
HistoryInv ==
  /\ head["v"] = total % Ring
  /\ Holds("v", Smaller(total, Ring))
  /\ metering => Holds("i", Smaller(total, CurrentRing))

\* A download asks for samples the ring has; the offset it reports is the trigger's.
Serving == pc \in {"mark", "header", "data"}
InRing == /\ dl.count \in 1..Size(dl.ch) /\ (dl.ch = "i" => metering)
          /\ Holds(dl.ch, dl.count)
Marked == /\ pc \in {"header", "data"} /\ frozen /\ dl.trig < dl.count
          /\ Minus(total, dl.count - 1 - dl.trig) = trigSample
DownloadInv ==
  /\ Serving => InRing
  /\ pc # "data" => dl.sent = <<>> /\ ~dl.frozen
  /\ dl.frozen => frozen
  /\ dl.trig # NoTrigger => Marked
  /\ FrozenDownloadIsOneRecord

\* How far the drain is behind the counter, and that what it is behind by is still there.
Lag == Minus(total, cursor)
Anchored == Holds("v", Smaller(Lag, Ring))

\* A pass has a budget of ticks that the backlog limit leaves to it.
Passing == /\ Lag <= Backlog + PassTicks - budget
           /\ expect = Plus(cursor, 1) /\ left <= Lag
           /\ processed + left <= MaxDrain + DrainChunk
DrainInv ==
  /\ exact
  /\ anchored => Anchored
  /\ IF task = "drain" THEN Passing ELSE left = 0 /\ processed = 0

\* The inductive invariant.
RecInv ==
  /\ Flags /\ Places /\ Counters /\ Samples /\ scope \in Scopes /\ DownloadType
  /\ MeterInv /\ ScopeInv /\ HistoryInv /\ DownloadInv /\ DrainInv

-----------------------------------------------------------------------------
(* Counters that wrap, and rings.                                          *)

\* The counter's arithmetic without remainders (vTotal is a uint32_t).
LEMMA Mods == ASSUME Sizes, NEW a \in 0..(Modulus - 1), NEW b \in 0..(Modulus-1)
  PROVE /\ Minus(a, b) = IF a >= b THEN a - b ELSE a + Modulus - b
        /\ Plus(a, 1) = IF a + 1 = Modulus THEN 0 ELSE a + 1
  BY SMTT(20) DEF Sizes, Plus, Minus

\* Division with remainder, and the remainder of a neighbour.
LEMMA Remainder == ASSUME NEW s \in Nat \ {0}, NEW x \in Nat
  PROVE (x % s \in 0..(s - 1)) /\ \E q \in Nat : x = q * s + (x % s)
  <1>1. x = s * (x \div s) + (x % s) /\ x \div s \in Nat /\ x % s \in 0..(s - 1) BY SMTT(20)
  <1>2. x = (x \div s) * s + (x % s) BY <1>1, SMTT(20)
  <1>3. QED BY <1>1, <1>2, Zenon

\* A number written as quotient and remainder has that remainder.
LEMMA RemainderOf ==
  ASSUME NEW s \in Nat \ {0}, NEW q \in Nat, NEW r \in 0..(s - 1) PROVE (q * s + r) % s = r
  BY SMTT(20)

\* The remainder of the next number: a head that advances by one.
LEMMA RemainderNext == ASSUME NEW s \in Nat \ {0}, NEW x \in Nat
  PROVE (x + 1) % s = IF x % s = s - 1 THEN 0 ELSE (x % s) + 1
  <1>1. PICK q \in Nat : x = q * s + (x % s) BY Remainder, Zenon
  <1>2. x % s \in 0..(s - 1) BY Remainder
  <1>3. CASE x % s = s - 1
    <2>1. x + 1 = (q + 1) * s + 0 BY <1>1, <1>3, SMTT(20)
    <2>2. ((q + 1) * s + 0) % s = 0 BY RemainderOf, SMTT(10)
    <2>3. QED BY <2>1, <2>2, <1>3, SMT
  <1>4. CASE x % s # s - 1
    <2>1. x + 1 = q * s + ((x % s) + 1) BY <1>1, <1>2, SMTT(20)
    <2>2. (q * s + ((x % s) + 1)) % s = (x % s) + 1 BY <1>2, <1>4, RemainderOf, SMTT(10)
    <2>3. QED BY <2>1, <2>2, <1>4, SMT
  <1>5. QED BY <1>3, <1>4

\* The remainder of an earlier number, at most one ring back.
LEMMA RemainderBefore == ASSUME NEW s \in Nat \ {0}, NEW x \in Nat, NEW d \in 0..s, d <= x
  PROVE (x - d) % s = IF x % s >= d THEN (x % s) - d ELSE (x % s) + s - d
  <1>1. PICK q \in Nat : x = q * s + (x % s) BY Remainder, Zenon
  <1>2. x % s \in 0..(s - 1) BY Remainder
  <1>3. CASE x % s >= d
    <2>1. x - d = q * s + ((x % s) - d) BY <1>1, <1>2, <1>3, SMTT(20)
    <2>2. (q * s + ((x % s) - d)) % s = (x % s) - d BY <1>2, <1>3, RemainderOf, SMTT(10)
    <2>3. QED BY <2>1, <2>2, <1>3, SMT
  <1>4. CASE x % s < d
    <2>1. q - 1 \in Nat BY <1>1, <1>2, <1>4, SMTT(20)
    <2>2. x - d = (q - 1) * s + ((x % s) + s - d) BY <1>1, <1>2, <1>4, SMTT(20)
    <2>3. (x % s) + s - d \in 0..(s - 1) BY <1>2, <1>4
    <2> DEFINE r == (x % s) + s - d
    <2>4. ((q - 1) * s + r) % s = r
      <3> HIDE DEF r
      <3>1. r \in 0..(s - 1) BY <2>3 DEF r
      <3>2. QED BY <2>1, <3>1, RemainderOf, Zenon
    <2>5. QED BY <2>2, <2>4, <1>2, <1>4, SMT
  <1>5. QED BY <1>2, <1>3, <1>4, SMT

\* Whole turns of a ring do not move its head: the counter may wrap.
LEMMA RemainderTurn ==
  ASSUME NEW s \in Nat \ {0}, NEW x \in Nat, NEW m \in Nat, m % s = 0 PROVE (x + m) % s = x % s
  <1>1. PICK q \in Nat : x = q * s + (x % s) BY Remainder, Zenon
  <1>2. x % s \in 0..(s - 1) BY Remainder
  <1>3. PICK p \in Nat : m = p * s
    <2>1. PICK p \in Nat : m = p * s + (m % s) BY Remainder, Zenon
    <2>2. m = p * s BY <2>1, SMTT(10)
    <2>3. QED BY <2>2
  <1>4. x + m = (q + p) * s + (x % s) BY <1>1, <1>2, <1>3, SMTT(20)
  <1>5. ((q + p) * s + (x % s)) % s = x % s BY <1>2, RemainderOf, SMT
  <1>6. QED BY <1>4, <1>5, SMT

\* A head advances by one and returns to the first slot behind the last.
LEMMA HeadStep == ASSUME Sizes, NEW ch \in Channels, head[ch] \in 0..(Size(ch) - 1)
  PROVE Advanced(ch) = IF head[ch] + 1 = Size(ch) THEN 0 ELSE head[ch] + 1
  <1>1. Size(ch) \in Nat \ {0} BY DEF Sizes, Size
  <1>2. QED BY <1>1, SMTT(20) DEF Advanced

\* The lag without remainders.
LEMMA LagIs == ASSUME Sizes, Counters
  PROVE /\ Lag = IF total >= cursor THEN total - cursor ELSE total + Modulus - cursor
        /\ Lag \in 0..(Modulus - 1)
  <1>1. total \in 0..(Modulus - 1) /\ cursor \in 0..(Modulus - 1) BY DEF Counters
  <1>2. Lag = IF total >= cursor THEN total - cursor ELSE total + Modulus - cursor
    BY <1>1, Mods, Zenon DEF Lag
  <1>3. QED BY <1>1, <1>2 DEF Sizes

\* Nothing lags behind itself.
LEMMA NoLag == ASSUME Sizes, Counters PROVE Minus(total, total) = 0
  <1>1. total \in 0..(Modulus - 1) BY DEF Counters
  <1>2. Minus(total, total) = IF total >= total THEN total - total ELSE total + Modulus - total
    BY <1>1, Mods, Zenon
  <1>3. QED BY <1>1, <1>2

\* Of a run of the newest samples every shorter one is one.
LEMMA HoldsFewer ==
  ASSUME NEW ch, NEW n \in Int, NEW m \in Int, m <= n, Holds(ch, n) PROVE Holds(ch, m)
  <1>1. \A j \in 0..(m - 1) : j \in 0..(n - 1) OBVIOUS
  <1>2. QED BY <1>1, Zenon DEF Holds

\* A tick adds the newest sample: the run below the head grows by one, up to the ring.
LEMMA HoldsTick ==
  ASSUME Sizes, Counters, Samples, NEW ch \in Channels, NEW n \in Nat, NEW m \in Nat, m <= n + 1,
           m <= Size(ch),
         total' = Plus(total, 1), ring'[ch] = Recorded(ch), head'[ch] = Advanced(ch),
         Holds(ch, n)
  PROVE  Holds(ch, m)'
  <1>1. SUFFICES ASSUME NEW j \in 0..(m - 1) PROVE ring'[ch][Slot(ch, j)'] = Minus(total', j)
    BY DEF Holds
  <1>2. /\ Size(ch) \in 1..Ring /\ Ring \in Nat /\ head[ch] \in 0..(Size(ch) - 1) /\ j \in Nat
         /\ j < Size(ch)
        /\ total \in 0..(Modulus - 1) /\ Modulus \in Nat /\ Modulus >= 2 * Ring
    BY DEF Sizes, Size, Counters
  <1>3. head'[ch] = IF head[ch] + 1 = Size(ch) THEN 0 ELSE head[ch] + 1 BY <1>2, HeadStep
  <1>4. total' = IF total + 1 = Modulus THEN 0 ELSE total + 1 BY <1>2, Mods, Zenon
  <1>5. \A k \in 0..(Size(ch) - 1) : ring'[ch][k] = IF k = head[ch] THEN total' ELSE ring[ch][k]
    BY Zenon DEF Recorded, Samples
  <1>6. Size(ch)' = Size(ch) BY DEF Size
  <1>7. CASE j = 0
    <2>1. Slot(ch, j)' = head[ch] BY <1>2, <1>3, <1>6, <1>7 DEF Slot
    <2>2. Minus(total', j) = total'
      <3>1. j \in 0..(Modulus - 1) /\ total' \in 0..(Modulus - 1) BY <1>2, <1>4, <1>7
      <3>2. Minus(total', j) = IF total' >= j THEN total' - j ELSE total' + Modulus - j
        BY <3>1, Mods, Zenon
      <3>3. QED BY <3>1, <3>2, <1>7
    <2>3. QED BY <2>1, <2>2, <1>2, <1>5
  <1>8. CASE j # 0
    <2>1. Slot(ch, j)' = Slot(ch, j - 1) BY <1>2, <1>3, <1>6, <1>8 DEF Slot
    <2>2. Slot(ch, j - 1) \in 0..(Size(ch) - 1) /\ Slot(ch, j - 1) # head[ch]
      BY <1>2, <1>8 DEF Slot
    <2>3. Minus(total', j) = Minus(total, j - 1)
      <3>1. j \in 0..(Modulus - 1) /\ j - 1 \in 0..(Modulus - 1) /\ total' \in 0..(Modulus - 1)
        BY <1>2, <1>4, <1>8
      <3>2. Minus(total', j) = IF total' >= j THEN total' - j ELSE total' + Modulus - j
        BY <3>1, Mods, Zenon
      <3>3. Minus(total, j - 1) = IF total >= j - 1 THEN total - (j - 1)
             ELSE total + Modulus - (j - 1)
        BY <1>2, <3>1, Mods, Zenon
      <3>4. QED BY <3>1, <3>2, <3>3, <1>2, <1>4, <1>8
    <2>4. j - 1 \in 0..(n - 1) BY <1>8
    <2>5. ring[ch][Slot(ch, j - 1)] = Minus(total, j - 1) BY <2>4, Zenon DEF Holds
    <2>6. QED BY <2>1, <2>2, <2>3, <2>5, <1>5, Zenon
  <1>9. QED BY <1>7, <1>8

-----------------------------------------------------------------------------
(* What a step leaves alone.                                               *)

\* The steps that leave rings, heads and counter alone.
RingsKept == UNCHANGED <<total, ring, head>>

\* Only a tick and a reconfiguration move the rings, the counter and the meter's switch.
LEMMA RingFrame ==
  [Next]_vars => TickRecords \/ Configure \/ (RingsKept /\ UNCHANGED metering)
  <1> DEFINE Kept == RingsKept /\ UNCHANGED metering
  <1> USE DEF RingsKept
  <1>1. TickFreezes \/ TickSkips \/ Trip \/ UNCHANGED vars => Kept
    BY DEF TickFreezes, TickSkips, Trip
  <1>2. ClearTrip \/ ApplySettings \/ ConfigureOff \/ PllConfigure => Kept
    BY DEF ClearTrip, ApplySettings, ConfigureOff, PllConfigure
  <1>3. Scope => Kept
    BY DEF Scope, ScopeArm, ScopeSetUp, ScopeEnable, ScopeRelease, ScopeResume
  <1>4. Download \/ DownloadMark \/ DownloadHeader => Kept
    BY DEF Download, DownloadMark, DownloadHeader
  <1>5. DownloadPiece \/ DownloadEnd => Kept
    BY DEF DownloadPiece, DownloadEnd
  <1>6. Tasks => Kept
    BY DEF Tasks, MeterInactive, MeterFlip, MeterCopy, MeterReset, PllCoast, PllSnapshot,
       ReadSince, DrainSample
  <1> HIDE DEF Kept
  <1>7. [Next]_vars => TickRecords \/ Configure \/ Kept
    BY <1>1, <1>2, <1>3, <1>4, <1>5, <1>6, Zenon DEF Next, Tick, Reconfigure, RawDownload
  <1>8. QED BY <1>7, Zenon DEF Kept

\* The steps that no bank, no bank number and no request of the meter sees.
LEMMA MeterFrame ==
  [Next]_vars => \/ TickRecords \/ Configure \/ MeterFlip \/ MeterCopy \/ MeterReset
                 \/ UNCHANGED <<bank, banks, lost>> /\ (task' = "take" => task = "take")
  <1> DEFINE Quiet == UNCHANGED <<bank, banks, lost>> /\ (task' = "take" => task = "take")
  <1>1. TickFreezes \/ TickSkips \/ Trip \/ UNCHANGED vars => Quiet
    BY SMT DEF TickFreezes, TickSkips, Trip
  <1>2. ClearTrip \/ ApplySettings \/ ConfigureOff \/ PllConfigure => Quiet
    BY SMT DEF ClearTrip, ApplySettings, ConfigureOff, PllConfigure
  <1>3. Scope => Quiet
    BY SMT DEF Scope, ScopeArm, ScopeSetUp, ScopeEnable, ScopeRelease, ScopeResume
  <1>4. RawDownload => UNCHANGED <<bank, banks, lost, task>>
    <2>1. Download \/ DownloadMark => UNCHANGED <<bank, banks, lost, task>>
      BY DEF Download, DownloadMark
    <2>2. DownloadHeader => UNCHANGED <<bank, banks, lost, task>>
      BY DEF DownloadHeader
    <2>3. DownloadPiece => UNCHANGED <<bank, banks, lost, task>>
      BY DEF DownloadPiece
    <2>4. DownloadEnd => UNCHANGED <<bank, banks, lost, task>>
      BY DEF DownloadEnd
    <2>5. QED BY <2>1, <2>2, <2>3, <2>4, Zenon DEF RawDownload
  <1>4a. RawDownload => Quiet BY <1>4, Zenon
  <1>5. MeterInactive \/ PllCoast \/ PllSnapshot \/ ReadSince \/ DrainSample => Quiet
    BY SMT DEF MeterInactive, PllCoast, PllSnapshot, ReadSince, DrainSample, PassEnds
  <1> HIDE DEF Quiet
  <1>6. [Next]_vars => \/ TickRecords \/ Configure \/ MeterFlip \/ MeterCopy \/ MeterReset
                 \/ Quiet
   BY <1>1, <1>2, <1>3, <1>4a, <1>5, Zenon DEF Next, Tick, Reconfigure, Tasks
  <1>7. QED BY <1>6, Zenon DEF Quiet

-----------------------------------------------------------------------------
(* Types.                                                                  *)

\* Every step keeps the flags Boolean.
LEMMA FlagStep == Flags /\ [Next]_vars => Flags'
  <1> SUFFICES ASSUME Flags, [Next]_vars PROVE Flags' OBVIOUS
  <1>1. CASE TickFreezes BY <1>1 DEF Flags, TickFreezes
  <1>2. CASE TickSkips BY <1>2 DEF Flags, TickSkips
  <1>3. CASE TickRecords
    <2>1. PICK b \in BOOLEAN : IF Stepping THEN Step(b) ELSE crossed' = Followed(b)
           /\ UNCHANGED frozen
      BY <1>3, Zenon DEF TickRecords
    <2>2. Followed(b) \in [last : BOOLEAN, trig : BOOLEAN] BY Zenon DEF Followed, Flags
    <2>3. frozen' \in BOOLEAN /\ crossed' \in [last : BOOLEAN, trig : BOOLEAN]
      <3>1. CASE Stepping
        <4>1. frozen' \in BOOLEAN BY <2>1, <3>1, Zenon DEF Step
        <4>2. [last |-> FALSE, trig |-> ~b /\ crossed.last] \in [last : BOOLEAN, trig : BOOLEAN]
          BY Zenon
        <4>3. QED BY <2>1, <2>2, <3>1, <4>1, <4>2, Zenon DEF Step
      <3>2. CASE ~Stepping BY <2>1, <2>2, <3>2, Zenon DEF Flags
      <3>3. QED BY <3>1, <3>2
    <2>4. UNCHANGED <<enabled, metering, tripped, scopeOn, flipped, lost, anchored, exact>>
      BY <1>3 DEF TickRecords
    <2>5. QED BY <2>3, <2>4, Zenon DEF Flags
  <1>4. CASE Trip BY <1>4 DEF Flags, Trip
  <1>5. CASE ClearTrip BY <1>5 DEF Flags, ClearTrip
  <1>6. CASE ApplySettings BY <1>6 DEF Flags, ApplySettings
  <1>7. CASE Configure BY <1>7 DEF Flags, Configure, Disarmed
  <1>8. CASE ConfigureOff BY <1>8 DEF Flags, ConfigureOff, Disarmed
  <1>9. CASE PllConfigure BY <1>9 DEF Flags, PllConfigure
  <1>10. CASE ScopeArm BY <1>10 DEF Flags, ScopeArm
  <1>11. CASE ScopeSetUp
    <2>1. crossed' = [last |-> FALSE, trig |-> FALSE] /\ frozen' = FALSE
          /\ UNCHANGED <<enabled, metering, tripped, scopeOn, flipped, lost, anchored, exact>>
      BY <1>11 DEF ScopeSetUp
    <2>2. QED BY <2>1, Zenon DEF Flags
  <1>12. CASE ScopeEnable BY <1>12 DEF Flags, ScopeEnable
  <1>13. CASE ScopeRelease BY <1>13 DEF Flags, ScopeRelease, Disarmed
  <1>14. CASE ScopeResume BY <1>14 DEF Flags, ScopeResume
  <1>15. CASE RawDownload
    <2>1. UNCHANGED <<enabled, frozen, metering, tripped, scopeOn, crossed, flipped, lost,
                    anchored, exact>>
      <3>1. CASE Download BY <3>1 DEF Download
      <3>2. CASE DownloadMark BY <3>2 DEF DownloadMark
      <3>3. CASE DownloadHeader BY <3>3 DEF DownloadHeader
      <3>4. CASE DownloadPiece BY <3>4 DEF DownloadPiece
      <3>5. CASE DownloadEnd BY <3>5 DEF DownloadEnd
      <3>6. QED BY <1>15, <3>1, <3>2, <3>3, <3>4, <3>5 DEF RawDownload
    <2>2. QED BY <2>1, Zenon DEF Flags
  <1>16. CASE MeterInactive BY <1>16 DEF Flags, MeterInactive
  <1>17. CASE MeterFlip BY <1>17 DEF Flags, MeterFlip
  <1>18. CASE MeterCopy BY <1>18 DEF Flags, MeterCopy
  <1>19. CASE MeterReset BY <1>19, Zenon DEF Flags, MeterReset
  <1>20. CASE PllCoast BY <1>20 DEF Flags, PllCoast
  <1>21. CASE PllSnapshot BY <1>21 DEF Flags, PllSnapshot
  <1>22. CASE ReadSince
    <2>1. anchored' \in BOOLEAN BY <1>22, Zenon DEF ReadSince, Flags
    <2>2. UNCHANGED <<enabled, frozen, metering, tripped, scopeOn, crossed, flipped, lost, exact>>
      BY <1>22, SMT DEF ReadSince
    <2>3. QED BY <2>1, <2>2, Zenon DEF Flags
  <1>23. CASE DrainSample BY <1>23, Zenon DEF Flags, DrainSample
  <1>24. CASE UNCHANGED vars BY <1>24 DEF Flags
  <1>25. QED
    BY <1>1, <1>2, <1>3, <1>4, <1>5, <1>6, <1>7, <1>8, <1>9, <1>10, <1>11, <1>12, <1>13, <1>14,
       <1>15, <1>16, <1>17, <1>18, <1>19, <1>20, <1>21, <1>22, <1>23, <1>24, Zenon
       DEF Next, Tick, Reconfigure, Scope, Tasks

\* Every step keeps the banks, the request and the task.
LEMMA PlacesStep == Places /\ [Next]_vars => Places'
  <1> SUFFICES ASSUME Places, [Next]_vars PROVE Places' OBVIOUS
  <1> USE DEF Places
  <1>1. CASE TickFreezes \/ TickSkips \/ Trip \/ UNCHANGED vars
    BY <1>1 DEF TickFreezes, TickSkips, Trip
  <1>2. CASE TickRecords BY <1>2 DEF TickRecords
  <1>3. CASE ClearTrip \/ ApplySettings \/ Configure \/ ConfigureOff \/ PllConfigure
    BY <1>3 DEF ClearTrip, ApplySettings, Configure, ConfigureOff, PllConfigure
  <1>4. CASE Scope
    BY <1>4 DEF Scope, ScopeArm, ScopeSetUp, ScopeEnable, ScopeRelease, ScopeResume
  <1>5. CASE Download \/ DownloadMark \/ DownloadHeader
    BY <1>5 DEF Download, DownloadMark, DownloadHeader
  <1>6. CASE DownloadPiece \/ DownloadEnd
    BY <1>6 DEF DownloadPiece, DownloadEnd
  <1>7. CASE MeterInactive \/ MeterFlip \/ MeterCopy \/ MeterReset
    BY <1>7 DEF MeterInactive, MeterFlip, MeterCopy, MeterReset, IdleBank
  <1>8. CASE PllCoast \/ PllSnapshot \/ ReadSince \/ DrainSample
    BY <1>8 DEF PllCoast, PllSnapshot, ReadSince, DrainSample, PassEnds
  <1>9. QED BY <1>1, <1>2, <1>3, <1>4, <1>5, <1>6, <1>7, <1>8, Zenon
    DEF Next, Tick, Reconfigure, RawDownload, Tasks

\* Every step keeps indices inside their rings and counters inside their ranges.
LEMMA CountersStep == Sizes /\ Counters /\ DrainInv /\ [Next]_vars => Counters'
  <1> SUFFICES ASSUME Sizes, Counters, DrainInv, [Next]_vars PROVE Counters' OBVIOUS
  <1> DEFINE Clocks == UNCHANGED <<total, head, trigSample>>
             Drains == UNCHANGED <<cursor, expect, left, budget, processed>>
  <1>a. 0 \in 0..(Modulus - 1) /\ (\A ch \in Channels : 0 \in 0..(Size(ch) - 1))
        /\ 0 \in 0..DrainChunk /\ 0 \in 0..PassTicks /\ PassTicks \in 0..PassTicks
        /\ 0 \in 0..(MaxDrain + DrainChunk)
    BY DEF Sizes, Size
  <1>b. \A c \in 0..(Modulus - 1) : Plus(c, 1) \in 0..(Modulus - 1)
    <2>1. SUFFICES ASSUME NEW c \in 0..(Modulus - 1) PROVE Plus(c, 1) \in 0..(Modulus - 1) OBVIOUS
    <2>2. Plus(c, 1) = IF c + 1 = Modulus THEN 0 ELSE c + 1 BY Mods, Zenon
    <2>3. QED BY <2>2 DEF Sizes
  <1>1. CASE TickRecords
    <2>1. total' \in 0..(Modulus - 1) BY <1>1, <1>b DEF TickRecords, Counters
    <2>2. ASSUME NEW ch \in Channels PROVE head'[ch] \in 0..(Size(ch) - 1)
      <3>1. head'[ch] = Advanced(ch) \/ head'[ch] = head[ch] BY <1>1, Zenon DEF TickRecords
      <3>2. head[ch] \in 0..(Size(ch) - 1) /\ Size(ch) \in Nat BY DEF Counters, Sizes, Size
      <3>3. Advanced(ch) = IF head[ch] + 1 = Size(ch) THEN 0 ELSE head[ch] + 1
        BY <3>2, HeadStep, Zenon
      <3>4. QED BY <3>1, <3>2, <3>3, <1>a
    <2>3. trigSample' = total' \/ trigSample' = trigSample BY <1>1, Zenon DEF TickRecords, Step
    <2>4. budget' \in 0..PassTicks
      <3>1. budget \in 0..PassTicks /\ PassTicks \in Nat BY DEF Counters, Sizes
      <3>2. QED BY <1>1, <3>1 DEF TickRecords
    <2>5. UNCHANGED <<cursor, expect, left, processed>> BY <1>1 DEF TickRecords
    <2>6. QED BY <2>1, <2>2, <2>3, <2>4, <2>5, Zenon DEF Counters, Size
  <1>2. CASE Configure
    <2>1. total' = 0 /\ UNCHANGED <<trigSample, cursor, expect, left, budget, processed>>
      BY <1>2 DEF Configure
    <2>2. ASSUME NEW ch \in Channels PROVE head'[ch] \in 0..(Size(ch) - 1)
      <3>1. head'[ch] = 0 \/ head'[ch] = head[ch] BY <1>2 DEF Configure, HeadReset, Channels
      <3>2. QED BY <3>1, <1>a, Zenon DEF Counters
    <2>3. QED BY <2>1, <2>2, <1>a, Zenon DEF Counters, Size
  <1>3. CASE PllConfigure BY <1>3, Zenon DEF PllConfigure, Counters, Size
  <1>4. CASE ScopeSetUp BY <1>4, <1>a, Zenon DEF ScopeSetUp, Counters, Size
  <1>5. CASE PllCoast BY <1>5, Zenon DEF PllCoast, Counters, Size
  <1>6. CASE PllSnapshot BY <1>6, <1>a, <1>b, Zenon DEF PllSnapshot, Counters, Size
  <1>7. CASE ReadSince
    <2>1. Clocks /\ budget' \in {0, budget} /\ expect' \in {0, expect}
           /\ processed' \in {0, processed}
      BY <1>7, SMT DEF ReadSince, PassEnds
    <2>2. Minus(total, cursor) \in 0..(Modulus - 1)
      <3>1. total \in 0..(Modulus - 1) /\ cursor \in 0..(Modulus - 1) BY DEF Counters
      <3>2. QED BY <3>1, Mods, SMTT(20) DEF Sizes
    <2>3. Ring - Margin \in 0..(Modulus - 1) /\ Ring - Margin \in Nat BY DEF Sizes
    <2>4. left' \in 0..DrainChunk
      <3>1. left' = 0 \/ left' = Smaller(Smaller(Minus(total, cursor), Ring - Margin), DrainChunk)
        BY <1>7, SMT DEF ReadSince, PassEnds
      <3>2. QED BY <2>2, <2>3, <3>1, <1>a DEF Sizes, Smaller
    <2>5. cursor' \in 0..(Modulus - 1)
      <3>1. total \in 0..(Modulus - 1) /\ cursor \in 0..(Modulus - 1) BY DEF Counters
      <3>2. Minus(total, Ring - Margin) \in 0..(Modulus - 1)
        BY <2>3, <3>1, Mods, SMTT(20) DEF Sizes
      <3>3. cursor' \in {cursor, total, Minus(total, Ring - Margin)} BY <1>7, SMT DEF ReadSince
      <3>4. QED BY <3>1, <3>2, <3>3
    <2>6. QED BY <2>1, <2>4, <2>5, <1>a, SMT DEF Counters, Size
  <1>8. CASE DrainSample
    <2>1. processed + 1 \in 0..(MaxDrain + DrainChunk) /\ left - 1 \in 0..DrainChunk
      BY <1>8 DEF DrainSample, Counters, DrainInv, Passing, Sizes
    <2>2. QED BY <1>8, <2>1, <1>b, Zenon DEF DrainSample, Counters, Size
  <1>9. CASE Clocks /\ Drains BY <1>9 DEF Counters, Size
  <1>10. TickFreezes \/ TickSkips \/ Trip \/ UNCHANGED vars => Clocks /\ Drains
    BY DEF TickFreezes, TickSkips, Trip
  <1>11. ClearTrip \/ ApplySettings \/ ConfigureOff => Clocks /\ Drains
    BY DEF ClearTrip, ApplySettings, ConfigureOff
  <1>12. ScopeArm \/ ScopeEnable \/ ScopeRelease \/ ScopeResume => Clocks /\ Drains
    BY DEF ScopeArm, ScopeEnable, ScopeRelease, ScopeResume
  <1>13. Download \/ DownloadMark \/ DownloadHeader => Clocks /\ Drains
    BY DEF Download, DownloadMark, DownloadHeader
  <1>14. DownloadPiece \/ DownloadEnd => Clocks /\ Drains
    BY DEF DownloadPiece, DownloadEnd
  <1>15. MeterInactive \/ MeterFlip \/ MeterCopy \/ MeterReset => Clocks /\ Drains
    BY DEF MeterInactive, MeterFlip, MeterCopy, MeterReset
  <1> HIDE DEF Clocks, Drains
  <1>16. QED
    BY <1>1, <1>2, <1>3, <1>4, <1>5, <1>6, <1>7, <1>8, <1>9, <1>10, <1>11, <1>12, <1>13, <1>14,
       <1>15, Zenon
    DEF Next, Tick, Reconfigure, Scope, RawDownload, Tasks

\* Every step leaves counter values in the rings.
LEMMA SamplesStep == Sizes /\ Counters /\ Samples /\ [Next]_vars => Samples'
  <1> SUFFICES ASSUME Sizes, Counters, Samples, [Next]_vars PROVE Samples' OBVIOUS
  <1>1. CASE TickRecords
    <2>1. SUFFICES ASSUME NEW ch \in Channels
           PROVE ring'[ch] \in [0..(Size(ch) - 1) -> 0..Modulus]
      BY DEF Samples, Size
    <2>2. ring'[ch] = Recorded(ch) \/ ring'[ch] = ring[ch] BY <1>1, Zenon DEF TickRecords
    <2>3. total' \in 0..Modulus
      <3>1. total \in 0..(Modulus - 1) /\ total' = Plus(total, 1)
        BY <1>1 DEF TickRecords, Counters
      <3>2. total' = IF total + 1 = Modulus THEN 0 ELSE total + 1 BY <3>1, Mods, Zenon
      <3>3. QED BY <3>1, <3>2 DEF Sizes
    <2>4. ring[ch] \in [0..(Size(ch) - 1) -> 0..Modulus] BY DEF Samples
    <2>5. QED BY <2>2, <2>3, <2>4, Zenon DEF Recorded
  <1>2. CASE Configure BY <1>2 DEF Configure, Samples, Old, Size, Sizes
  <1>3. CASE UNCHANGED ring BY <1>3 DEF Samples, Size
  <1>4. TickFreezes \/ TickSkips \/ Trip \/ UNCHANGED vars => UNCHANGED ring
    BY DEF TickFreezes, TickSkips, Trip
  <1>5. ClearTrip \/ ApplySettings \/ ConfigureOff \/ PllConfigure => UNCHANGED ring
    BY DEF ClearTrip, ApplySettings, ConfigureOff, PllConfigure
  <1>6. Scope => UNCHANGED ring
    BY DEF Scope, ScopeArm, ScopeSetUp, ScopeEnable, ScopeRelease, ScopeResume
  <1>7. Download \/ DownloadMark \/ DownloadHeader => UNCHANGED ring
    BY DEF Download, DownloadMark, DownloadHeader
  <1>8. DownloadPiece \/ DownloadEnd => UNCHANGED ring
    BY DEF DownloadPiece, DownloadEnd
  <1>9. Tasks => UNCHANGED ring
    BY DEF Tasks, MeterInactive, MeterFlip, MeterCopy, MeterReset, PllCoast, PllSnapshot,
       ReadSince, DrainSample
  <1>10. QED BY <1>1, <1>2, <1>3, <1>4, <1>5, <1>6, <1>7, <1>8, <1>9, Zenon
    DEF Next, Tick, Reconfigure, RawDownload

\* Every step keeps the scope machine (scopeStep, captureScopeArm).
LEMMA ScopesStep == Sizes /\ ScopeInv /\ scope \in Scopes /\ [Next]_vars => (scope \in Scopes)'
  <1> SUFFICES ASSUME Sizes, ScopeInv, scope \in Scopes, [Next]_vars PROVE scope' \in Scopes
    OBVIOUS
  <1>1. CASE TickRecords
    <2>1. PICK b \in BOOLEAN : IF Stepping THEN Step(b) ELSE UNCHANGED scope
      BY <1>1, Zenon DEF TickRecords
    <2>2. CASE StepArmed(b)
      <3>1. scope.post \in 0..Ring
        <4>1. Posts \subseteq 0..Ring /\ Ring \in Nat BY DEF Sizes
        <4>2. scope.post \in Posts \cup {0} BY DEF Scopes
        <4>3. 0 \in 0..Ring BY <4>1
        <4>4. QED BY <4>1, <4>2, <4>3, Zenon
      <3>2. QED BY <2>2, <3>1, Zenon DEF StepArmed, Scopes
    <2>3. CASE Stepping /\ scope.state = "triggered" /\ StepTriggered
      <3>1. scope.left \in 0..Ring /\ Ring \in Nat BY DEF Scopes, Sizes
      <3>2. scope.left > 0 BY <2>3, Zenon DEF ScopeInv, Stepping
      <3>3. 0 \in 0..Ring /\ scope.left - 1 \in 0..Ring BY <3>1, <3>2
      <3>4. QED BY <2>3, <3>3, Zenon DEF StepTriggered, Scopes, LastPostSample
    <2>4. QED BY <2>1, <2>2, <2>3, Zenon DEF Step
  <1>2. Disarmed => scope' \in Scopes BY Zenon DEF Disarmed, Scopes
  <1>3. CASE Configure \/ ConfigureOff \/ ScopeRelease
    BY <1>2, <1>3, Zenon DEF Configure, ConfigureOff, ScopeRelease
  <1>4. TickFreezes \/ TickSkips \/ Trip \/ UNCHANGED vars => UNCHANGED scope
    BY DEF TickFreezes, TickSkips, Trip
  <1>5. ClearTrip \/ ApplySettings \/ PllConfigure => UNCHANGED scope
    BY DEF ClearTrip, ApplySettings, PllConfigure
  <1>6. ScopeArm \/ ScopeEnable \/ ScopeResume => UNCHANGED scope
    BY DEF ScopeArm, ScopeEnable, ScopeResume
  <1>7. CASE ScopeSetUp
    <2>1. PICK source \in Channels, post \in Posts :
       scope' = [state |-> "armed", source |-> source, primed |-> Unprimed,
                 post |-> post, left |-> 0]
     BY <1>7 DEF ScopeSetUp
    <2>2. 0 \in 0..Ring BY DEF Sizes
    <2>3. QED BY <2>1, <2>2 DEF Scopes, Unprimed
  <1>8. Download \/ DownloadMark \/ DownloadHeader => UNCHANGED scope
    BY DEF Download, DownloadMark, DownloadHeader
  <1>9. DownloadPiece \/ DownloadEnd => UNCHANGED scope
    BY DEF DownloadPiece, DownloadEnd
  <1>10. Tasks => UNCHANGED scope
    BY DEF Tasks, MeterInactive, MeterFlip, MeterCopy, MeterReset, PllCoast, PllSnapshot,
       ReadSince, DrainSample
  <1>11. QED BY <1>1, <1>2, <1>3, <1>4, <1>5, <1>6, <1>7, <1>8, <1>9, <1>10, Zenon
    DEF Next, Tick, Reconfigure, Scope, RawDownload

\* A piece is a sequence of the samples asked for, and the download grows by it.
LEMMA PieceType ==
  ASSUME Sizes, Counters, Samples, NEW ch \in Channels, NEW count \in Nat,
         NEW offset \in Nat, NEW n \in Nat
  PROVE  /\ Window(ch, count, offset, n) \in Seq(0..Modulus)
         /\ Len(Window(ch, count, offset, n)) = n
  <1>1. Size(ch) \in Nat \ {0} /\ head[ch] \in Nat BY DEF Sizes, Size, Counters
  <1>2. \A x \in Int : x % Size(ch) \in 0..(Size(ch) - 1) BY <1>1, SMTT(20)
  <1>3. Window(ch, count, offset, n) \in [1..n -> 0..Modulus]
    <2> DEFINE start == (head[ch] + Size(ch) - (count % Size(ch)) + offset) % Size(ch)
    <2>1. count % Size(ch) \in 0..(Size(ch) - 1) BY <1>2
    <2>2. head[ch] + Size(ch) - (count % Size(ch)) + offset \in Int BY <1>1, <2>1
    <2>3. start \in 0..(Size(ch) - 1) BY <1>2, <2>2, Zenon
    <2> HIDE DEF start
    <2>4. ASSUME NEW k \in 1..n PROVE ring[ch][(start + k - 1) % Size(ch)] \in 0..Modulus
      <3>1. start + k - 1 \in Int BY <2>3, <1>1
      <3>2. QED BY <3>1, <1>2, Zenon DEF Samples
    <2>5. Window(ch, count, offset, n) = [k \in 1..n |-> ring[ch][(start + k - 1) % Size(ch)]]
      BY Zenon DEF Window, start
    <2>6. QED BY <2>4, <2>5
  <1>4. Window(ch, count, offset, n) \in Seq(0..Modulus) BY <1>3, SeqDef, Zenon
  <1>5. QED BY <1>3, <1>4, LenProperties

\* No download is one of zero samples.
LEMMA NoDownloadType ==
  Sizes => NoDownload \in Downloads /\ NoDownload.sent = <<>> /\ Len(NoDownload.sent) = 0
         /\ NoDownload.count = 0
  <1>1. NoDownload.sent = <<>> /\ NoDownload.count = 0 BY Zenon DEF NoDownload
  <1>2. Len(<<>>) = 0 BY EmptySeq
  <1>3. ASSUME Sizes PROVE NoDownload \in Downloads
    <2>1. 0 \in 0..Ring /\ NoTrigger \in 0..Ring BY <1>3 DEF Sizes, NoTrigger
    <2>2. "v" \in Channels BY DEF Channels
    <2>3. <<>> \in Seq(0..Modulus) BY EmptySeq, Zenon
    <2>4. QED BY <2>1, <2>2, <2>3, Zenon DEF NoDownload, Downloads
  <1>4. QED BY <1>1, <1>2, <1>3, Zenon

\* Every step keeps a download that has sent no more than was asked for.
LEMMA DownloadTypeStep ==
  Sizes /\ Flags /\ scope \in Scopes /\ Counters /\ Samples /\ DownloadType /\ [Next]_vars
         => DownloadType'
  <1> SUFFICES ASSUME Sizes, Flags, scope \in Scopes, Counters, Samples, DownloadType,
           [Next]_vars PROVE DownloadType'
    OBVIOUS
  <1>a. dl \in Downloads BY DEF DownloadType
  <1>1. CASE Download
    <2>1. PICK ch \in Channels : \E count \in 1..Available(ch) :
            dl' = [NoDownload EXCEPT !.ch = ch, !.count = count] BY <1>1, Zenon DEF Download
    <2>2. PICK count \in 1..Available(ch) :
            dl' = [NoDownload EXCEPT !.ch = ch, !.count = count] BY <2>1, Zenon
    <2>3. total \in Nat /\ Size(ch) \in 1..Ring /\ Ring \in Nat BY DEF Counters, Sizes, Size
    <2>4. count \in 0..Ring BY <2>3, <2>2 DEF Available, Smaller
    <2>5. NoDownload \in Downloads /\ Len(NoDownload.sent) = 0 BY NoDownloadType
    <2>6. dl' \in Downloads BY <2>2, <2>4, <2>5, Zenon DEF Downloads
    <2>7. dl'.sent = NoDownload.sent /\ dl'.count = count BY <2>2, <2>5, Zenon DEF Downloads
    <2>8. QED BY <2>4, <2>5, <2>6, <2>7 DEF DownloadType
  <1>2. CASE DownloadMark
    <2> DEFINE t == IF ScopeState = "complete" /\ scope.source = dl.ch /\ scope.post < dl.count
                      THEN TrigOffset ELSE NoTrigger
    <2>1. dl' = [dl EXCEPT !.trig = t] BY <1>2, Zenon DEF DownloadMark
    <2>2. t \in 0..Ring
      <3>1. Posts \subseteq 0..Ring /\ Ring \in Nat BY DEF Sizes
      <3>2. scope.post \in Posts \cup {0} /\ dl.count \in 0..Ring BY <1>a DEF Scopes, Downloads
      <3>3. 0 \in 0..Ring BY <3>1
      <3>4. scope.post \in 0..Ring BY <3>1, <3>2, <3>3, Zenon
      <3>5. QED BY <3>1, <3>2, <3>4 DEF TrigOffset, NoTrigger
    <2> HIDE DEF t
    <2>3. dl' \in Downloads BY <1>a, <2>1, <2>2, Zenon DEF Downloads
    <2>4. dl'.sent = dl.sent /\ dl'.count = dl.count BY <2>1, <1>a DEF Downloads
    <2>5. QED BY <2>3, <2>4 DEF DownloadType
  <1>3. CASE DownloadHeader
    <2>1. dl' = [dl EXCEPT !.frozen = frozen] BY <1>3 DEF DownloadHeader
    <2>3. dl' \in Downloads BY <1>a, <2>1, Zenon DEF Downloads, Flags
    <2>4. dl'.sent = dl.sent /\ dl'.count = dl.count BY <2>1, <1>a DEF Downloads
    <2>5. QED BY <2>3, <2>4 DEF DownloadType
  <1>4. CASE DownloadPiece
    <2> DEFINE offset == Len(dl.sent)
               n == Smaller(dl.count - offset, Chunk)
               w == Window(dl.ch, dl.count, offset, n)
    <2>1. dl' = [dl EXCEPT !.sent = dl.sent \o w] /\ offset < dl.count
      BY <1>4, Zenon DEF DownloadPiece
    <2>2. dl.sent \in Seq(0..Modulus) /\ dl.ch \in Channels /\ dl.count \in 0..Ring
      BY <1>a DEF Downloads
    <2>3. offset \in Nat BY <2>2, LenProperties
    <2>4. n \in Nat /\ offset + n <= dl.count /\ dl.count \in Nat
      BY <2>1, <2>2, <2>3 DEF Sizes, Smaller
    <2>5. w \in Seq(0..Modulus) /\ Len(w) = n BY <2>2, <2>3, <2>4, PieceType, Zenon
    <2> HIDE DEF offset, n, w
    <2>6. dl.sent \o w \in Seq(0..Modulus) /\ Len(dl.sent \o w) = offset + n
      BY <2>2, <2>5, ConcatProperties DEF offset
    <2>7. dl' \in Downloads BY <1>a, <2>1, <2>6, Zenon DEF Downloads
    <2>8. dl'.sent = dl.sent \o w /\ dl'.count = dl.count BY <2>1, <1>a DEF Downloads
    <2>9. QED BY <2>4, <2>6, <2>7, <2>8 DEF DownloadType
  <1>5. CASE DownloadEnd
    <2>1. dl' = NoDownload BY <1>5 DEF DownloadEnd
    <2>2. Len(NoDownload.sent) <= NoDownload.count BY NoDownloadType
    <2>3. QED BY <2>1, <2>2, NoDownloadType, Zenon DEF DownloadType
  <1>6. CASE UNCHANGED dl BY <1>6, Zenon DEF DownloadType, Downloads
  <1>7. TickFreezes \/ TickSkips \/ TickRecords \/ Trip \/ UNCHANGED vars => UNCHANGED dl
    BY DEF TickFreezes, TickSkips, TickRecords, Trip
  <1>8. Reconfigure => UNCHANGED dl
    BY DEF Reconfigure, ClearTrip, ApplySettings, Configure, ConfigureOff, PllConfigure
  <1>9. Scope => UNCHANGED dl
    BY DEF Scope, ScopeArm, ScopeSetUp, ScopeEnable, ScopeRelease, ScopeResume
  <1>10. Tasks => UNCHANGED dl
    BY DEF Tasks, MeterInactive, MeterFlip, MeterCopy, MeterReset, PllCoast, PllSnapshot,
       ReadSince, DrainSample
  <1>11. QED BY <1>1, <1>2, <1>3, <1>4, <1>5, <1>6, <1>7, <1>8, <1>9, <1>10, Zenon
    DEF Next, Tick, RawDownload

-----------------------------------------------------------------------------
(* The meter.                                                              *)

\* No step clears a metered sample unread (captureMeterTake).
LEMMA MeterStep == Places /\ MeterInv /\ [Next]_vars => MeterInv'
  <1> SUFFICES ASSUME Places, MeterInv, [Next]_vars PROVE MeterInv' OBVIOUS
  <1> USE DEF MeterInv, IdleBank
  <1> bank \in {0, 1} /\ banks \in [{0, 1} -> {"empty", "data", "copied"}] BY DEF Places
  <1>1. CASE TickRecords BY <1>1 DEF TickRecords
  <1>2. CASE Configure BY <1>2 DEF Configure
  <1>3. CASE MeterFlip BY <1>3 DEF MeterFlip, Control
  <1>4. CASE MeterCopy BY <1>4 DEF MeterCopy
  <1>5. CASE MeterReset
    <2>1. ~lost' BY <1>5, Zenon DEF MeterReset
    <2>2. QED BY <1>5, <2>1 DEF MeterReset
  <1>6. CASE UNCHANGED <<bank, banks, lost>> /\ (task' = "take" => task = "take") BY <1>6
  <1>7. QED BY <1>1, <1>2, <1>3, <1>4, <1>5, <1>6, MeterFrame, Zenon

-----------------------------------------------------------------------------
(* The scope.                                                              *)

\* A sample beyond the level, after one before it.
Triggers(b) ==
  /\ ~b /\ scope.primed /\ trigSample' = total' /\ (crossed'.trig <=> crossed.last)
  /\ scope' = [scope EXCEPT !.left = scope.post,
                               !.state = IF scope.post = 0 THEN "complete" ELSE "triggered"]
  /\ frozen' <=> scope.post = 0

\* What a sample does to an armed trigger: it primes it, is ignored, or triggers.
LEMMA ArmedTick == ASSUME scope \in Scopes, crossed \in [last : BOOLEAN, trig : BOOLEAN],
   NEW b \in BOOLEAN, Step(b), scope.state = "armed"
  PROVE \/ /\ b /\ scope' = [scope EXCEPT !.primed = TRUE] /\ crossed'.last
           /\ ~frozen' /\ UNCHANGED trigSample
        \/ /\ ~b /\ ~scope.primed /\ scope' = scope /\ ~frozen' /\ UNCHANGED trigSample
        \/ Triggers(b)
  <1>1. StepArmed(b) BY Zenon DEF Step
  <1>2. CASE b /\ scope' = [scope EXCEPT !.primed = TRUE]
    <2>1. scope'.state = "armed" BY <1>2 DEF Scopes
    <2>2. UNCHANGED trigSample /\ crossed' = Followed(b) /\ frozen' = (scope'.state = "complete")
      BY <2>1, Zenon DEF Step
    <2>3. crossed'.last BY <2>2, <1>2, Zenon DEF Followed
    <2>4. ~frozen' BY <2>1, <2>2, Zenon
    <2>5. QED BY <1>2, <2>2, <2>3, <2>4, Zenon
  <1>3. CASE ~b /\ ~scope.primed /\ scope' = scope
    <2>1. scope'.state = "armed" BY <1>3 DEF Scopes
    <2>2. UNCHANGED trigSample /\ crossed' = Followed(b) /\ frozen' = (scope'.state = "complete")
      BY <2>1, Zenon DEF Step
    <2>4. ~frozen' BY <2>1, <2>2, Zenon
    <2>5. QED BY <1>3, <2>2, <2>4, Zenon
  <1>4. CASE /\ ~b /\ scope.primed
             /\ scope' = [scope EXCEPT !.left = scope.post,
                               !.state = IF scope.post = 0 THEN "complete" ELSE "triggered"]
    <2>1. scope'.state = IF scope.post = 0 THEN "complete" ELSE "triggered"
      BY <1>4, Zenon DEF Scopes
    <2>2. scope'.state # "armed" BY <2>1
    <2>3. trigSample' = total' /\ crossed' = [last |-> FALSE, trig |-> ~b /\ crossed.last]
       /\ frozen' = (scope'.state = "complete") BY <2>2, Zenon DEF Step
    <2>4. crossed'.trig <=> crossed.last BY <2>3, <1>4, Zenon
    <2>5. frozen' <=> scope.post = 0 BY <2>1, <2>3
    <2>6. QED BY <1>4, <2>3, <2>4, <2>5, Zenon DEF Triggers
  <1>5. QED BY <1>1, <1>2, <1>3, <1>4, Zenon DEF StepArmed

\* What a sample does to a triggered scope: it is counted, and the last one freezes.
LEMMA TriggeredTick == ASSUME scope \in Scopes, crossed \in [last : BOOLEAN, trig : BOOLEAN],
   NEW b \in BOOLEAN, Step(b), scope.state = "triggered"
  PROVE /\ StepTriggered /\ UNCHANGED trigSample /\ (crossed'.trig <=> crossed.trig)
        /\ frozen' <=> LastPostSample
  <1>1. StepTriggered BY Zenon DEF Step
  <1>2. UNCHANGED trigSample /\ crossed' = Followed(b) /\ frozen' = (scope'.state = "complete")
    BY Zenon DEF Step
  <1>3. crossed'.trig <=> crossed.trig BY <1>2, Zenon DEF Followed
  <1>4. scope'.state = IF LastPostSample THEN "complete" ELSE "triggered"
    BY <1>1, Zenon DEF StepTriggered, Scopes
  <1>5. frozen' <=> LastPostSample BY <1>2, <1>4
  <1>6. QED BY <1>1, <1>2, <1>3, <1>5, Zenon

\* The types the scope's steps rely on.
ScopeTypes ==
  /\ total \in 0..(Modulus - 1) /\ trigSample \in 0..(Modulus - 1)
  /\ scope \in Scopes /\ crossed \in [last : BOOLEAN, trig : BOOLEAN]
  /\ frozen \in BOOLEAN /\ scopeOn \in BOOLEAN /\ metering \in BOOLEAN

\* Every step keeps the scope's invariant.
LEMMA ScopeStep == Sizes /\ ScopeTypes /\ ScopeTypes' /\ ScopeInv /\ [Next]_vars => ScopeInv'
  <1> SUFFICES ASSUME Sizes, ScopeTypes, ScopeTypes', ScopeInv, [Next]_vars PROVE ScopeInv'
    OBVIOUS
  <1>0. scope \in Scopes /\ crossed \in [last : BOOLEAN, trig : BOOLEAN]
         /\ total' \in 0..(Modulus - 1)
    BY DEF ScopeTypes
  <1> USE DEF ScopeInv, ScopeTypes, TriggerIsWhereReported, ScopeState
  <1>1. CASE TickRecords
    <2>1. PICK b \in BOOLEAN : IF Stepping THEN Step(b) ELSE crossed' = Followed(b)
           /\ UNCHANGED <<frozen, scope, trigSample>>
      BY <1>1, Zenon DEF TickRecords
    <2>2. ~frozen /\ total' = Plus(total, 1) /\ UNCHANGED <<pc, scopeOn, metering>>
      BY <1>1, Zenon DEF TickRecords, MayRecord
    <2>3. CASE ~Stepping
      <3>1. ~scopeOn' \/ scope.state = "idle" BY <2>2, <2>3 DEF Stepping, Scopes, Channels
      <3>2. UNCHANGED scope BY <2>1, <2>3, Zenon
      <3>3. QED BY <2>2, <3>1, <3>2
    <2>4. CASE Stepping /\ scope.state = "armed"
      <3>1. scope' = [scope EXCEPT !.primed = TRUE] /\ crossed'.last => ScopeInv'
        BY <2>2, <2>4 DEF Scopes, Stepping
      <3>2. scope' = scope /\ ~scope.primed => ScopeInv'
        BY <2>2, <2>4 DEF Scopes, Stepping
      <3>3. Triggers(b) => ScopeInv'
        <4>1. Minus(total', total') = 0 BY Mods, <1>0
        <4>2. scope.primed => crossed.last BY <2>4 DEF Stepping
        <4> HIDE DEF ScopeInv
        <4>3. SUFFICES ASSUME Triggers(b) PROVE ScopeInv' OBVIOUS
        <4>4. /\ crossed'.trig /\ trigSample' = total' /\ (scope.post = 0 => frozen')
              /\ scope' = [scope EXCEPT !.left = scope.post,
                               !.state = IF scope.post = 0 THEN "complete" ELSE "triggered"]
          BY <4>2, <4>3, Zenon DEF Triggers
        <4> USE DEF ScopeInv
        <4>5. CASE scope.post = 0
          BY SMTT(20), <4>5, <4>1, <2>2, <4>4, <2>4 DEF Scopes, Stepping, Sizes
        <4>6. CASE scope.post # 0
          BY SMTT(20), <4>6, <4>1, <2>2, <4>4, <2>4 DEF Scopes, Stepping, Sizes
        <4>7. QED BY <4>5, <4>6
      <3>4. QED BY <2>1, <2>4, <3>1, <3>2, <3>3, <1>0, ArmedTick, Zenon
    <2>5. CASE Stepping /\ scope.state = "triggered"
      <3>1. /\ StepTriggered /\ UNCHANGED trigSample /\ (crossed'.trig <=> crossed.trig)
            /\ frozen' <=> LastPostSample
        BY <2>1, <2>5, <1>0, TriggeredTick, Zenon
      <3>8. scope.post \in 0..Ring /\ scope.left \in 0..Ring
        <4> HIDE DEF ScopeInv, ScopeTypes
        <4>1. Posts \subseteq 0..Ring /\ Ring \in Nat BY DEF Sizes
        <4>2. scope.post \in Posts \cup {0} /\ scope.left \in 0..Ring BY <1>0 DEF Scopes
        <4>3. 0 \in 0..Ring BY <4>1
        <4>4. QED BY <4>1, <4>2, <4>3, Zenon
      <3>2. Minus(total, trigSample) + scope.left = scope.post /\ scope.left > 0 /\ crossed.trig
            /\ scope.post \in 0..Ring /\ scope.left \in 0..Ring
        BY <2>5, <3>8, Zenon DEF Stepping
      <3>3. Minus(total', trigSample) = Minus(total, trigSample) + 1
        <4> HIDE DEF ScopeInv, ScopeTypes
        <4>1. total \in 0..(Modulus - 1) /\ trigSample \in 0..(Modulus - 1) BY DEF ScopeTypes
        <4>2. Minus(total, trigSample) = IF total >= trigSample THEN total - trigSample
               ELSE total + Modulus - trigSample
          BY <4>1, Mods, Zenon
        <4>3. Minus(total', trigSample) = IF total' >= trigSample THEN total' - trigSample
               ELSE total' + Modulus - trigSample
          BY <4>1, <1>0, Mods, Zenon
        <4>4. total' = IF total + 1 = Modulus THEN 0 ELSE total + 1 BY <2>2, <4>1, Mods, Zenon
        <4>5. QED BY <3>2, <4>1, <4>2, <4>3, <4>4, SMTT(20) DEF Sizes
      <3>7. Minus(total, trigSample) \in Int BY <3>2, Mods, SMT DEF Sizes
      <3>4. CASE LastPostSample
        <4>1. scope' = [scope EXCEPT !.left = 0, !.state = "complete"] /\ frozen' /\ crossed'.trig
          BY <3>1, <3>4, <3>2, Zenon DEF StepTriggered
        <4>2. scope.left = 1 BY <3>4 DEF LastPostSample
        <4>3. scope'.post = scope.post /\ scope'.state = "complete"
               /\ scope'.source = scope.source
          BY <4>1 DEF Scopes
        <4>4. Minus(total', trigSample') = scope'.post BY <3>1, <3>2, <3>3, <3>7, <4>2, <4>3, SMT
        <4>5. QED BY <2>2, <2>5, <4>1, <4>3, <4>4 DEF Stepping
      <3>5. CASE ~LastPostSample
        <4>1. scope' = [scope EXCEPT !.left = scope.left - 1, !.state = "triggered"]
               /\ crossed'.trig
          BY <3>1, <3>5, <3>2, Zenon DEF StepTriggered
        <4>2. scope.left # 1 BY <3>5 DEF LastPostSample
        <4>3. scope'.post = scope.post /\ scope'.state = "triggered"
               /\ scope'.source = scope.source /\ scope'.left = scope.left - 1
          BY <4>1 DEF Scopes
        <4>4. Minus(total', trigSample') + scope'.left = scope'.post /\ scope'.left > 0
          BY <3>1, <3>2, <3>3, <3>7, <4>2, <4>3, SMT
        <4>5. QED BY <2>2, <2>5, <4>1, <4>3, <4>4 DEF Stepping
      <3>6. QED BY <3>4, <3>5
    <2>6. QED BY <2>3, <2>4, <2>5 DEF Stepping
  <1>2. CASE TickFreezes \/ TickSkips \/ Trip \/ UNCHANGED vars
    BY <1>2 DEF TickFreezes, TickSkips, Trip
  <1>3. CASE ClearTrip BY <1>3 DEF ClearTrip
  <1>4. CASE ApplySettings BY <1>4 DEF ApplySettings
  <1>5. CASE Configure BY <1>5 DEF Configure, Disarmed, Scopes
  <1>6. CASE ConfigureOff BY <1>6 DEF ConfigureOff, Disarmed, Scopes
  <1>7. CASE PllConfigure BY <1>7 DEF PllConfigure
  <1>8. CASE ScopeArm BY <1>8 DEF ScopeArm
  <1>9. CASE ScopeSetUp BY <1>9 DEF ScopeSetUp, Unprimed
  <1>10. CASE ScopeEnable BY <1>10 DEF ScopeEnable
  <1>11. CASE ScopeRelease BY <1>11 DEF ScopeRelease, Disarmed, Scopes
  <1>12. CASE ScopeResume BY <1>12 DEF ScopeResume
  <1>13. CASE Download BY <1>13 DEF Download
  <1>14. CASE DownloadMark BY <1>14 DEF DownloadMark
  <1>15. CASE DownloadHeader BY <1>15 DEF DownloadHeader
  <1>16. CASE DownloadPiece BY <1>16 DEF DownloadPiece
  <1>17. CASE DownloadEnd BY <1>17 DEF DownloadEnd
  <1>18. CASE Tasks
    <2> UNCHANGED <<frozen, total, scopeOn, scope, trigSample, crossed, metering, pc>>
      BY <1>18
         DEF Tasks, MeterInactive, MeterFlip, MeterCopy, MeterReset, PllCoast, PllSnapshot,
             ReadSince, DrainSample
    <2> QED OBVIOUS
  <1> HIDE DEF ScopeInv, ScopeTypes
  <1>19. QED
    BY <1>1, <1>2, <1>3, <1>4, <1>5, <1>6, <1>7, <1>8, <1>9, <1>10, <1>11, <1>12, <1>13, <1>14,
       <1>15, <1>16, <1>17, <1>18, Zenon
       DEF Next, Tick, Reconfigure, Scope, RawDownload

-----------------------------------------------------------------------------
(* The rings.                                                              *)

\* What a tick and a reconfiguration do to the rings, without the rest of them.
LEMMA TickRings ==
  ASSUME Sizes, Counters, Flags, TickRecords
  PROVE  /\ total' = Plus(total, 1) /\ UNCHANGED <<metering, pc, dl, cursor, anchored, exact>>
         /\ \A ch \in Channels : ch = "v" \/ metering =>
              ring'[ch] = Recorded(ch) /\ head'[ch] = Advanced(ch)
  <1>1. total' = Plus(total, 1) /\ UNCHANGED <<metering, pc, dl, cursor, anchored, exact>>
    BY DEF TickRecords
  <1>2. /\ ring' = [ch \in Channels |-> IF ch \in (IF metering THEN Channels ELSE {"v"})
         THEN Recorded(ch) ELSE ring[ch]]
        /\ head' = [ch \in Channels |-> IF ch \in (IF metering THEN Channels ELSE {"v"})
               THEN Advanced(ch) ELSE head[ch]]
    BY Zenon DEF TickRecords
  <1>3. ASSUME NEW ch \in Channels, ch = "v" \/ metering PROVE ring'[ch] = Recorded(ch)
         /\ head'[ch] = Advanced(ch)
    BY <1>2, <1>3
  <1>4. QED BY <1>1, <1>3, Zenon

\* The same for a tick of the model, on a channel it records.
LEMMA TickHolds ==
  ASSUME Sizes, Counters, Flags, Samples, TickRecords,
         NEW ch \in Channels, ch = "v" \/ metering,
         NEW n \in Nat, NEW m \in Nat, m <= n + 1, m <= Size(ch), Holds(ch, n)
  PROVE  Holds(ch, m)'
  <1>1. total' = Plus(total, 1) /\ ring'[ch] = Recorded(ch) /\ head'[ch] = Advanced(ch)
    BY TickRings, Zenon
  <1>2. QED BY <1>1, HoldsTick, Zenon

\* Every step keeps the rings in order: a tick adds a sample, a reconfiguration starts over.
LEMMA HistoryStep ==
  Sizes /\ Counters /\ Counters' /\ Flags /\ Samples /\ HistoryInv /\ [Next]_vars => HistoryInv'
  <1> SUFFICES ASSUME Sizes, Counters, Counters', Flags, Samples, HistoryInv, [Next]_vars
         PROVE HistoryInv'
    OBVIOUS
  <1>0. /\ Ring \in Nat \ {0} /\ CurrentRing \in 1..Ring /\ total \in Nat /\ total' \in Nat
        /\ "v" \in Channels /\ "i" \in Channels /\ Size("v") = Ring /\ Size("i") = CurrentRing
        /\ total \in 0..(Modulus - 1) /\ head["v"] \in 0..(Ring - 1)
    BY DEF Sizes, Counters, Size, Channels
  <1>1. CASE TickRecords
    <2>1. total' = IF total + 1 = Modulus THEN 0 ELSE total + 1
      BY <1>0, <1>1, TickRings, Mods, Zenon
    <2>2. head'["v"] = IF head["v"] + 1 = Ring THEN 0 ELSE head["v"] + 1
      <3>1. head["v"] \in 0..(Size("v") - 1) BY <1>0
      <3>2. head'["v"] = Advanced("v") BY <1>0, <1>1, TickRings, Zenon
      <3>3. Advanced("v") = IF head["v"] + 1 = Size("v") THEN 0 ELSE head["v"] + 1
        BY <1>0, <3>1, HeadStep, Zenon
      <3>4. QED BY <1>0, <3>2, <3>3
    <2>3. head'["v"] = total' % Ring
      <3>1. (total + 1) % Ring = IF total % Ring = Ring - 1 THEN 0 ELSE (total % Ring) + 1
        BY <1>0, RemainderNext, Zenon
      <3>2. head["v"] = total % Ring BY DEF HistoryInv
      <3>3. 0 % Ring = 0 BY <1>0, SMTT(20)
      <3>4. total + 1 = Modulus => (total + 1) % Ring = 0 BY DEF Sizes
      <3>5. CASE total + 1 = Modulus BY <1>0, <2>1, <2>2, <3>1, <3>2, <3>3, <3>4, <3>5, SMT
      <3>6. CASE total + 1 # Modulus BY <1>0, <2>1, <2>2, <3>1, <3>2, <3>6, SMT
      <3>7. QED BY <3>5, <3>6
    <2>4. ASSUME NEW ch \in Channels, ch = "v" \/ metering, NEW size \in Nat, size = Size(ch),
                 Holds(ch, Smaller(total, size))
          PROVE  Holds(ch, Smaller(total, size))'
      <3>1. PICK n \in Nat : n = Smaller(total, size) BY <1>0, <2>4 DEF Smaller
      <3>2. PICK m \in Nat : m = Smaller(total', size) BY <1>0, <2>4 DEF Smaller
      <3>3. m <= n + 1 /\ m <= Size(ch) BY <1>0, <2>1, <2>4, <3>1, <3>2, SMT DEF Smaller
      <3>4. Holds(ch, n) BY <2>4, <3>1, Zenon
      <3>5. Holds(ch, m)' BY <1>1, <2>4, <3>3, <3>4, TickHolds, Zenon
      <3>6. m = Smaller(total, size)' BY <3>2 DEF Smaller
      <3>7. QED BY <3>5, <3>6, Zenon DEF Holds
    <2>5. Holds("v", Smaller(total, Ring))' BY <1>0, <2>4, Zenon DEF HistoryInv
    <2>6. metering' => Holds("i", Smaller(total, CurrentRing))'
      <3>1. metering' = metering BY <1>1, TickRings, Zenon
      <3>2. CurrentRing \in Nat BY <1>0
      <3>3. QED BY <1>0, <2>4, <3>1, <3>2, Zenon DEF HistoryInv
    <2>7. QED BY <2>3, <2>5, <2>6 DEF HistoryInv
  <1>2. CASE Configure
    <2>1. total' = 0 /\ head'["v"] = 0 BY <1>2 DEF Configure, HeadReset, Channels
    <2>2. head'["v"] = total' % Ring BY <1>0, <2>1, SMTT(20)
    <2>3. Smaller(total', Ring) = 0 /\ Smaller(total', CurrentRing) = 0 BY <1>0, <2>1 DEF Smaller
    <2>4. Holds("v", Smaller(total, Ring))' BY <2>3 DEF Holds, Smaller
    <2>5. Holds("i", Smaller(total, CurrentRing))' BY <2>3 DEF Holds, Smaller
    <2>6. QED BY <2>2, <2>4, <2>5 DEF HistoryInv
  <1>3. CASE RingsKept /\ UNCHANGED metering
    BY <1>3, SMT DEF RingsKept, HistoryInv, Holds, Slot, Smaller, Size
  <1>4. QED BY <1>1, <1>2, <1>3, RingFrame, Zenon

-----------------------------------------------------------------------------
(* The raw download.                                                       *)

\* The samples of a piece are the ones of the ring, from the oldest of the window on.
LEMMA PieceSamples ==
  ASSUME Sizes, Counters, NEW ch \in Channels, NEW count \in 1..Size(ch),
         NEW offset \in Nat, NEW n \in Nat, offset + n <= count,
         Holds(ch, count), NEW k \in 1..n
  PROVE  Window(ch, count, offset, n)[k] = Minus(total, count - offset - k)
  <1> DEFINE s == Size(ch)
             h == head[ch]
             c == count % s
             start == (h + s - c + offset) % s
             j == count - offset - k
  <1>1. s \in Nat \ {0} /\ h \in 0..(s - 1) BY DEF Sizes, Size, Counters
  <1>2. j \in 0..(count - 1) /\ offset \in 0..(s - 1) /\ k \in 1..s /\ count \in 1..s
         /\ offset + k <= count
    BY <1>1
  <1> HIDE DEF s, h
  <1>3. \A x \in Nat : x % s = IF x < s THEN x ELSE IF x < 2 * s THEN x - s
         ELSE IF x < 3 * s THEN x - 2 * s ELSE x % s
    <2>1. SUFFICES ASSUME NEW x \in Nat PROVE x % s = IF x < s THEN x ELSE IF x < 2 * s
           THEN x - s ELSE IF x < 3 * s THEN x - 2 * s ELSE x % s
      OBVIOUS
    <2>2. x < s => x % s = x BY <1>1, SMTT(20)
    <2>3. x >= s /\ x < 2 * s => x % s = x - s BY <1>1, SMTT(20)
    <2>4. x >= 2 * s /\ x < 3 * s => x % s = x - 2 * s BY <1>1, SMTT(20)
    <2>5. QED BY <1>1, <2>2, <2>3, <2>4, SMT
  <1>4. c = IF count = s THEN 0 ELSE count BY <1>1, <1>2, <1>3, SMT
  <1> HIDE DEF c
  <1>5. start = IF h + s - c + offset < s THEN h + s - c + offset
         ELSE IF h + s - c + offset < 2 * s THEN h - c + offset ELSE h - c + offset - s
    BY <1>1, <1>2, <1>3, <1>4, SMTT(20)
  <1> HIDE DEF start
  <1>6. start \in 0..(s - 1) BY <1>1, <1>2, <1>4, <1>5, SMT
  <1>7. (start + k - 1) % s = IF start + k - 1 < s THEN start + k - 1 ELSE start + k - 1 - s
    BY <1>1, <1>2, <1>3, <1>6, SMTT(20)
  <1>8. (start + k - 1) % s = Slot(ch, j)
    <2>1. Slot(ch, j) = IF j < h THEN h - 1 - j ELSE h + s - 1 - j BY DEF Slot, h, s
    <2>2. j = count - offset - k OBVIOUS
    <2> HIDE DEF j
    <2>3. CASE count = s BY <1>1, <1>2, <1>4, <1>5, <1>6, <1>7, <2>1, <2>2, <2>3, SMTT(30)
    <2>4. CASE count # s BY <1>1, <1>2, <1>4, <1>5, <1>6, <1>7, <2>1, <2>2, <2>4, SMTT(30)
    <2>5. QED BY <2>3, <2>4
  <1>9. Window(ch, count, offset, n)[k] = ring[ch][(start + k - 1) % s]
    BY DEF Window, start, s, c, h
  <1>10. ring[ch][Slot(ch, j)] = Minus(total, j) BY <1>2, Zenon DEF Holds
  <1>11. QED BY <1>8, <1>9, <1>10

\* A window is kept by every step that leaves its ring alone.
LEMMA InRingKept == ASSUME RingsKept, UNCHANGED <<dl, metering>>, InRing PROVE InRing'
  BY DEF RingsKept, InRing, Holds, Slot, Size

\* What the download's steps rely on.
DlContext == /\ Sizes /\ Counters /\ Counters' /\ Flags /\ Flags' /\ Samples /\ Places
       /\ scope \in Scopes
             /\ DownloadType /\ DownloadType' /\ HistoryInv /\ ScopeInv /\ DownloadInv

\* A new download asks for samples the ring has.
LEMMA DownloadBegins == ASSUME DlContext, Download PROVE DownloadInv'
  <1>1. PICK ch \in Channels : \E count \in 1..Available(ch) :
            dl' = [NoDownload EXCEPT !.ch = ch, !.count = count] BY Zenon DEF Download
  <1>2. PICK count \in 1..Available(ch) :
            dl' = [NoDownload EXCEPT !.ch = ch, !.count = count] BY <1>1, Zenon
  <1>3. pc' = "mark" /\ UNCHANGED <<total, ring, head, metering>> BY DEF Download
  <1>4. /\ dl'.ch = ch /\ dl'.count = count /\ dl'.sent = <<>> /\ dl'.trig = NoTrigger
        /\ ~dl'.frozen
    BY <1>2, NoDownloadType, Zenon DEF DlContext, Downloads, NoDownload
  <1>5. total \in Nat /\ Size(ch) \in 1..Ring /\ Ring \in Nat /\ CurrentRing \in 1..Ring
    BY DEF DlContext, Counters, Sizes, Size
  <1>6. count \in 1..Size(ch) /\ count <= Smaller(total, Size(ch)) /\ (ch = "i" => metering)
    BY <1>2, <1>5 DEF Available, Smaller
  <1>7. Holds(ch, Smaller(total, Size(ch)))
    BY <1>6, Zenon DEF DlContext, HistoryInv, Channels, Size
  <1>8. Holds(ch, count) BY <1>5, <1>6, <1>7, HoldsFewer DEF Smaller
  <1>9. InRing'
    <2>1. Holds(ch, count)' BY <1>3, <1>8 DEF Holds, Slot, Size
    <2>2. QED BY <1>3, <1>4, <1>6, <2>1, Zenon DEF InRing, Holds, Size, Slot
  <1>10. FrozenDownloadIsOneRecord' BY <1>4, Zenon DEF FrozenDownloadIsOneRecord
  <1>11. QED BY <1>3, <1>4, <1>9, <1>10, Zenon DEF DownloadInv, NoTrigger

\* The offset is only given when it is the trigger's (scopeTrigOffset).
LEMMA DownloadMarks == ASSUME DlContext, DownloadMark PROVE DownloadInv'
  <1> DEFINE there == ScopeState = "complete" /\ scope.source = dl.ch /\ scope.post < dl.count
             t == IF there THEN TrigOffset ELSE NoTrigger
  <1>1. /\ dl' = [dl EXCEPT !.trig = t] /\ pc = "mark" /\ pc' = "header"
        /\ UNCHANGED <<total, ring, head, metering, frozen, trigSample>>
    BY Zenon DEF DownloadMark
  <1> HIDE DEF t
  <1>2. dl \in Downloads BY DEF DlContext, DownloadType
  <1>3. dl'.trig = t /\ dl'.sent = dl.sent /\ dl'.count = dl.count /\ dl'.ch = dl.ch
         /\ (dl'.frozen <=> dl.frozen)
    BY <1>1, <1>2, Zenon DEF Downloads
  <1>4. dl.sent = <<>> /\ ~dl.frozen /\ InRing BY <1>1 DEF DlContext, DownloadInv, Serving
  <1>5. t # NoTrigger => Marked'
    <2> SUFFICES ASSUME t # NoTrigger PROVE Marked' OBVIOUS
    <2>1. there /\ t = dl.count - 1 - scope.post BY DEF t, TrigOffset
    <2>2. frozen /\ Minus(total, trigSample) = scope.post
      BY <2>1, Zenon DEF DlContext, ScopeInv, TriggerIsWhereReported
    <2>3. scope.post \in 0..Ring /\ dl.count \in 0..Ring /\ Ring \in Nat
      <3>1. Posts \subseteq 0..Ring /\ Ring \in Nat BY DEF DlContext, Sizes
      <3>2. scope.post \in Posts \cup {0} /\ dl.count \in 0..Ring
        BY <1>2 DEF DlContext, Scopes, Downloads
      <3>3. 0 \in 0..Ring BY <3>1
      <3>4. QED BY <3>1, <3>2, <3>3, Zenon
    <2>4. total \in 0..(Modulus - 1) /\ trigSample \in 0..(Modulus - 1) BY DEF DlContext, Counters
    <2>5. dl.count - 1 - t = scope.post /\ t < dl.count BY <2>1, <2>3
    <2>6. scope.post \in 0..(Modulus - 1) BY <2>3 DEF DlContext, Sizes
    <2>7. Minus(total, scope.post) = trigSample
      <3>1. Minus(total, trigSample) = IF total >= trigSample THEN total - trigSample
             ELSE total + Modulus - trigSample
        BY <2>4, Mods, Zenon DEF DlContext
      <3>2. Minus(total, scope.post) = IF total >= scope.post THEN total - scope.post
             ELSE total + Modulus - scope.post
        BY <2>4, <2>6, Mods, Zenon DEF DlContext
      <3>3. Modulus \in Nat BY DEF DlContext, Sizes
      <3>4. QED BY <2>2, <2>4, <2>6, <3>1, <3>2, <3>3
    <2>8. QED BY <1>1, <1>3, <2>2, <2>5, <2>7 DEF Marked
  <1>6. InRing' BY <1>1, <1>3, <1>4, Zenon DEF InRing, Holds, Slot, Size
  <1>7. FrozenDownloadIsOneRecord' BY <1>3, <1>4, Zenon DEF FrozenDownloadIsOneRecord
  <1>8. QED BY <1>1, <1>3, <1>4, <1>5, <1>6, <1>7, Zenon DEF DownloadInv, NoTrigger

\* The header says frozen only when the ring is.
LEMMA DownloadHeads == ASSUME DlContext, DownloadHeader PROVE DownloadInv'
  <1>1. /\ dl' = [dl EXCEPT !.frozen = frozen] /\ pc = "header" /\ pc' = "data"
        /\ UNCHANGED <<total, ring, head, metering, frozen, trigSample>>
    BY Zenon DEF DownloadHeader
  <1>2. dl \in Downloads BY DEF DlContext, DownloadType
  <1>3. dl'.trig = dl.trig /\ dl'.sent = dl.sent /\ dl'.count = dl.count /\ dl'.ch = dl.ch
         /\ (dl'.frozen <=> frozen)
    BY <1>1, <1>2, Zenon DEF Downloads
  <1>4. dl.sent = <<>> /\ InRing /\ (dl.trig # NoTrigger => Marked)
    BY <1>1 DEF DlContext, DownloadInv, Serving
  <1>5. dl.trig # NoTrigger => Marked' BY <1>1, <1>3, <1>4 DEF Marked
  <1>6. InRing' BY <1>1, <1>3, <1>4, Zenon DEF InRing, Holds, Slot, Size
  <1>7. FrozenDownloadIsOneRecord'
    <2>1. dl'.sent = <<>> /\ Len(<<>>) = 0 BY <1>3, <1>4, EmptySeq
    <2>2. QED BY <2>1 DEF FrozenDownloadIsOneRecord
  <1>8. QED BY <1>1, <1>3, <1>5, <1>6, <1>7, Zenon DEF DownloadInv, NoTrigger

\* A piece continues the record where the last one ended (captureRawCopy).
LEMMA DownloadContinues == ASSUME DlContext, DownloadPiece PROVE DownloadInv'
  <1> DEFINE offset == Len(dl.sent)
             n == Smaller(dl.count - offset, Chunk)
             w == Window(dl.ch, dl.count, offset, n)
  <1>1. /\ dl' = [dl EXCEPT !.sent = dl.sent \o w] /\ offset < dl.count /\ pc = "data"
         /\ pc' = "data"
        /\ UNCHANGED <<total, ring, head, metering, frozen, trigSample>>
    BY Zenon DEF DownloadPiece
  <1>2. dl \in Downloads BY DEF DlContext, DownloadType
  <1>3. dl.sent \in Seq(0..Modulus) /\ dl.ch \in Channels /\ dl.count \in 0..Ring
         /\ Ring \in Nat /\ dl.count \in Nat
    BY <1>2 DEF Downloads, DlContext, Sizes
  <1>4. offset \in Nat BY <1>3, LenProperties
  <1>5. n \in Nat /\ offset + n <= dl.count BY <1>1, <1>3, <1>4 DEF DlContext, Sizes, Smaller
  <1>6. w \in Seq(0..Modulus) /\ Len(w) = n BY <1>3, <1>4, <1>5, PieceType, Zenon DEF DlContext
  <1> HIDE DEF n
  <1>7. InRing BY <1>1 DEF DlContext, DownloadInv, Serving
  <1>8. \A k \in 1..n : w[k] = Minus(total, dl.count - offset - k)
    BY <1>3, <1>4, <1>5, <1>7, PieceSamples, Zenon DEF InRing, DlContext
  <1> HIDE DEF offset, w
  <1>9. /\ Len(dl.sent \o w) = offset + n
        /\ \A k \in 1..(offset + n) : (dl.sent \o w)[k] = IF k <= offset THEN dl.sent[k]
               ELSE w[k - offset]
    BY <1>3, <1>6, ConcatProperties DEF offset
  <1>10. dl'.trig = dl.trig /\ dl'.sent = dl.sent \o w /\ dl'.count = dl.count
         /\ dl'.ch = dl.ch /\ (dl'.frozen <=> dl.frozen)
    BY <1>1, <1>2, Zenon DEF Downloads
  <1>11. ASSUME dl.frozen, NEW k \in 1..(offset + n)
         PROVE  /\ (dl.sent \o w)[k] = Minus(total, dl.count - k)
                /\ dl.trig = k - 1 => (dl.sent \o w)[k] = trigSample
    <2>1. (dl.sent \o w)[k] = Minus(total, dl.count - k)
      <3>1. CASE k <= offset
        BY <1>4, <1>5, <1>9, <1>11, <3>1
           DEF DlContext, DownloadInv, FrozenDownloadIsOneRecord, offset
      <3>2. CASE k > offset
        <4>1. k - offset \in 1..n BY <1>4, <1>5, <1>11, <3>2
        <4>2. dl.count - offset - (k - offset) = dl.count - k BY <1>3, <1>4, <1>5, <1>11
        <4>3. (dl.sent \o w)[k] = w[k - offset] BY <1>4, <1>5, <1>9, <1>11, <3>2
        <4>4. w[k - offset] = Minus(total, dl.count - offset - (k - offset)) BY <1>8, <4>1, Zenon
        <4>5. QED BY <4>2, <4>3, <4>4
      <3>3. k <= offset \/ k > offset BY <1>4, <1>5, <1>11
      <3>4. QED BY <3>1, <3>2, <3>3, Zenon
    <2>2. ASSUME dl.trig = k - 1 PROVE Minus(total, dl.count - k) = trigSample
      <3>1. dl.trig # NoTrigger BY <1>3, <1>4, <1>5, <2>2 DEF NoTrigger
      <3>2. Marked BY <3>1 DEF DlContext, DownloadInv
      <3>3. dl.count - 1 - dl.trig = dl.count - k BY <1>3, <1>4, <1>5, <2>2
      <3>4. QED BY <3>2, <3>3 DEF Marked
    <2>3. QED BY <2>1, <2>2
  <1>12. FrozenDownloadIsOneRecord'
    BY <1>1, <1>9, <1>10, <1>11, Zenon DEF FrozenDownloadIsOneRecord
  <1>13. InRing' BY <1>1, <1>10, <1>7, Zenon DEF InRing, Holds, Slot, Size
  <1>14. Marked => Marked' BY <1>1, <1>10, Zenon DEF Marked
  <1>15. QED BY <1>1, <1>10, <1>12, <1>13, <1>14, Zenon DEF DownloadInv, NoTrigger, DlContext

\* Every step keeps the download's invariant: what could move its window would need the
\* request to be over, or the ring not to be frozen.
LEMMA DownloadStep == DlContext /\ [Next]_vars => DownloadInv'
  <1> SUFFICES ASSUME DlContext, [Next]_vars PROVE DownloadInv' OBVIOUS
  <1>a. dl.sent = <<>> => Len(dl.sent) = 0 BY EmptySeq
  <1>1. CASE TickRecords
    <2>1. ~frozen /\ UNCHANGED <<pc, dl, metering>> BY <1>1 DEF TickRecords, MayRecord
    <2>2. ~dl.frozen /\ dl.trig = NoTrigger BY <2>1 DEF DlContext, DownloadInv, Marked
    <2>3. Serving => InRing'
      <3> SUFFICES ASSUME Serving PROVE InRing' OBVIOUS
      <3>1. InRing /\ dl.ch \in Channels /\ Size(dl.ch) \in Nat
        BY DEF DlContext, DownloadInv, DownloadType, Downloads, Size, Sizes
      <3>2. PICK n \in Nat, ch \in Channels : n = dl.count /\ ch = dl.ch BY <3>1 DEF InRing
      <3>3. n <= n + 1 /\ n <= Size(ch) /\ (ch = "v" \/ metering)
        BY <3>1, <3>2 DEF InRing, Channels
      <3>4. Holds(ch, n) BY <3>1, <3>2, Zenon DEF InRing
      <3>5. Holds(ch, n)' BY <1>1, <3>3, <3>4, TickHolds, Zenon DEF DlContext
      <3>6. Holds(dl.ch, dl.count)' BY <2>1, <3>2, <3>5, Zenon DEF Holds, Slot, Size
      <3>7. QED BY <2>1, <3>1, <3>6, Zenon DEF InRing, Size
    <2>4. QED
      BY <2>1, <2>2, <2>3, Zenon
         DEF DlContext, DownloadInv, Serving, FrozenDownloadIsOneRecord, NoTrigger
  <1>2. CASE Configure
    <2>1. pc \in {"clear", "apply"} /\ pc' \in {"pll", "loop"} /\ UNCHANGED dl
      BY <1>2 DEF Configure
    <2>2. dl.sent = <<>> /\ ~dl.frozen /\ dl.trig = NoTrigger
      BY <2>1 DEF DlContext, DownloadInv, Marked
    <2>3. QED BY <2>1, <2>2 DEF DownloadInv, Serving, FrozenDownloadIsOneRecord, NoTrigger
  <1>3. CASE RingsKept /\ UNCHANGED metering
    <2> USE DEF RingsKept
    <2>1. UNCHANGED <<dl, pc, trigSample>> /\ (frozen => frozen') => DownloadInv'
      <3> SUFFICES ASSUME UNCHANGED <<dl, pc, trigSample>>, frozen => frozen' PROVE DownloadInv'
        OBVIOUS
      <3>1. InRing => InRing' BY <1>3, InRingKept, Zenon
      <3>2. Marked => Marked' BY <1>3, Zenon DEF Marked
      <3>3. FrozenDownloadIsOneRecord => FrozenDownloadIsOneRecord'
        BY <1>3, Zenon DEF FrozenDownloadIsOneRecord
      <3>4. QED BY <3>1, <3>2, <3>3, Zenon DEF DlContext, DownloadInv, Serving, NoTrigger
    <2>2. ASSUME pc \notin {"mark", "header", "data"}, pc' \notin {"mark", "header", "data"},
             UNCHANGED dl
          PROVE  DownloadInv'
      <3>1. dl.sent = <<>> /\ ~dl.frozen /\ dl.trig = NoTrigger
        BY <2>2 DEF DlContext, DownloadInv, Marked
      <3>2. QED BY <2>2, <3>1 DEF DownloadInv, Serving, FrozenDownloadIsOneRecord, NoTrigger
    <2>3. CASE TickFreezes \/ TickSkips \/ Trip \/ UNCHANGED vars
      BY <2>1, <2>3 DEF TickFreezes, TickSkips, Trip
    <2>4. CASE ClearTrip \/ ApplySettings \/ ConfigureOff \/ PllConfigure
      BY <2>2, <2>4 DEF ClearTrip, ApplySettings, ConfigureOff, PllConfigure
    <2>5. CASE Scope
      BY <2>2, <2>5 DEF Scope, ScopeArm, ScopeSetUp, ScopeEnable, ScopeRelease, ScopeResume
    <2>6. CASE DownloadEnd
      <3>1. pc' = "loop" /\ dl' = NoDownload BY <2>6 DEF DownloadEnd
      <3>2. dl'.sent = <<>> /\ ~dl'.frozen /\ dl'.trig = NoTrigger BY <3>1, Zenon DEF NoDownload
      <3>3. QED
        BY <3>1, <3>2, Zenon DEF DownloadInv, Serving, FrozenDownloadIsOneRecord, NoTrigger
    <2>7. CASE Tasks
      BY <2>1, <2>7
         DEF Tasks, MeterInactive, MeterFlip, MeterCopy, MeterReset, PllCoast, PllSnapshot,
             ReadSince, DrainSample
    <2>8. CASE Download \/ DownloadMark \/ DownloadHeader \/ DownloadPiece
      BY <2>8, DownloadBegins, DownloadMarks, DownloadHeads, DownloadContinues, Zenon
    <2>9. CASE TickRecords BY <1>1, <2>9
    <2>10. CASE Configure BY <1>2, <2>10
    <2>11. QED
      BY <2>3, <2>4, <2>5, <2>6, <2>7, <2>8, <2>9, <2>10, Zenon
         DEF Next, Tick, Reconfigure, RawDownload
  <1>4. QED BY <1>1, <1>2, <1>3, RingFrame, Zenon

-----------------------------------------------------------------------------
(* The drain of the PLL.                                                   *)

\* What the drain's steps rely on.
DrainContext == /\ Sizes /\ Counters /\ Counters' /\ Flags /\ Flags' /\ Samples /\ Places
                /\ HistoryInv /\ DrainInv

\* The cursor's slot is the one the lag counts back to, over any wrap of the counter.
LEMMA CursorSlot ==
  ASSUME Sizes, Counters, HistoryInv, Lag \in 1..Ring PROVE cursor % Ring = Slot("v", Lag - 1)
  <1>1. /\ Ring \in Nat \ {0} /\ Modulus \in Nat /\ Modulus % Ring = 0 /\ total \in Nat
         /\ cursor \in Nat
        /\ Size("v") = Ring /\ total < Modulus /\ cursor < Modulus /\ Ring <= Modulus
    BY DEF Sizes, Counters, Size
  <1>2. Lag = IF total >= cursor THEN total - cursor ELSE total + Modulus - cursor BY LagIs, Zenon
  <1>3. head["v"] = total % Ring /\ head["v"] \in 0..(Ring - 1)
    BY <1>1 DEF HistoryInv, Counters, Channels
  <1> DEFINE d == Lag
  <1>4. d \in 0..Ring /\ d \in 1..Ring OBVIOUS
  <1>5. CASE total >= cursor
    <2>1. cursor = total - d /\ d <= total BY <1>1, <1>2, <1>5
    <2> HIDE DEF d
    <2>2. (total - d) % Ring = IF total % Ring >= d THEN (total % Ring) - d
           ELSE (total % Ring) + Ring - d
      BY <1>1, <1>4, <2>1, RemainderBefore, Zenon
    <2>3. Slot("v", d - 1) = IF d - 1 < head["v"] THEN head["v"] - 1 - (d - 1)
           ELSE head["v"] + Ring - 1 - (d - 1)
      BY <1>1, Zenon DEF Slot
    <2>4. cursor % Ring = Slot("v", d - 1) BY <1>1, <1>3, <1>4, <2>1, <2>2, <2>3
    <2>5. QED BY <2>4 DEF d
  <1>6. CASE total < cursor
    <2> DEFINE x == total + Modulus
    <2>1. cursor = x - d /\ d <= x /\ x \in Nat BY <1>1, <1>2, <1>6
    <2> HIDE DEF d
    <2>2. (x - d) % Ring = IF x % Ring >= d THEN (x % Ring) - d ELSE (x % Ring) + Ring - d
      <3> HIDE DEF x
      <3>1. QED BY <1>1, <1>4, <2>1, RemainderBefore, Zenon
    <2>3. x % Ring = total % Ring BY <1>1, RemainderTurn, Zenon
    <2>4. Slot("v", d - 1) = IF d - 1 < head["v"] THEN head["v"] - 1 - (d - 1)
           ELSE head["v"] + Ring - 1 - (d - 1)
      BY <1>1, Zenon DEF Slot
    <2>5. cursor % Ring = Slot("v", d - 1) BY <1>1, <1>3, <1>4, <2>1, <2>2, <2>3, <2>4
    <2>6. QED BY <2>5 DEF d
  <1>7. QED BY <1>1, <1>5, <1>6

\* The sample a drain takes is the one expected.
LEMMA ExpectedSample ==
  ASSUME DrainContext, task = "drain", left > 0, anchored PROVE ring["v"][cursor % Ring] = expect
  <1>1. Lag \in 0..(Modulus - 1) /\ Lag = IF total >= cursor THEN total - cursor
         ELSE total + Modulus - cursor
    BY LagIs DEF DrainContext
  <1>2. /\ Lag <= Backlog + PassTicks - budget /\ expect = Plus(cursor, 1) /\ left <= Lag
    BY DEF DrainContext, DrainInv, Passing
  <1>3. /\ Ring \in Nat /\ Margin \in 1..Ring /\ Modulus \in Nat /\ Modulus >= 2 * Ring
         /\ Backlog \in Nat /\ PassTicks \in Nat
        /\ Backlog + PassTicks <= Ring - Margin /\ budget \in Nat /\ left \in Nat
        /\ total \in 0..(Modulus - 1) /\ cursor \in 0..(Modulus - 1)
    BY DEF DrainContext, Sizes, Counters
  <1>4. Lag \in 1..Ring BY <1>1, <1>2, <1>3
  <1>5. Lag - 1 \in 0..(Smaller(Lag, Ring) - 1) BY <1>4, <1>3 DEF Smaller
  <1>6. ring["v"][Slot("v", Lag - 1)] = Minus(total, Lag - 1)
    BY <1>5, Zenon DEF DrainContext, DrainInv, Anchored, Holds
  <1>7. cursor % Ring = Slot("v", Lag - 1) BY <1>4, CursorSlot DEF DrainContext
  <1>8. Minus(total, Lag - 1) = Plus(cursor, 1)
    <2>1. Plus(cursor, 1) = IF cursor + 1 = Modulus THEN 0 ELSE cursor + 1
      BY <1>3, Mods, Zenon DEF DrainContext
    <2>2. Lag - 1 \in 0..(Modulus - 1) BY <1>3, <1>4
    <2>3. Minus(total, Lag - 1) = IF total >= Lag - 1 THEN total - (Lag - 1)
           ELSE total + Modulus - (Lag - 1)
      BY <1>3, <2>2, Mods, Zenon DEF DrainContext
    <2>4. QED BY <1>1, <1>3, <1>4, <2>1, <2>2, <2>3
  <1>9. QED BY <1>2, <1>6, <1>7, <1>8

\* Where the counter is read, nothing is lagging.
LEMMA AnchoredNow ==
  ASSUME Sizes, Counters, cursor' = total, UNCHANGED total PROVE Anchored' /\ Lag' = 0
  <1>1. Lag' = 0 BY NoLag, Zenon DEF Lag
  <1>2. Smaller(Lag', Ring) <= 0 /\ Smaller(Lag', Ring) \in Int BY <1>1 DEF Sizes, Smaller
  <1>3. QED BY <1>1, <1>2 DEF Anchored, Holds, Smaller

\* A lag is kept by every step that leaves the rings and the cursor alone.
LEMMA AnchoredKept == ASSUME RingsKept, UNCHANGED cursor, Anchored PROVE Anchored'
  BY SMT DEF RingsKept, Anchored, Holds, Slot, Size, Smaller, Lag

\* A tick adds one to the lag.
LEMMA TickLag ==
  ASSUME DrainContext, TickRecords
  PROVE  Lag' = (IF Lag + 1 = Modulus THEN 0 ELSE Lag + 1) /\ Lag \in 0..(Modulus - 1)
  <1>1. total \in 0..(Modulus - 1) /\ cursor \in 0..(Modulus - 1)
         /\ total' \in 0..(Modulus - 1) /\ Modulus \in Nat
    BY DEF DrainContext, Counters, Sizes
  <1>2. total' = Plus(total, 1) /\ cursor' = cursor BY TickRings DEF DrainContext
  <1>3. total' = IF total + 1 = Modulus THEN 0 ELSE total + 1
    BY <1>1, <1>2, Mods, Zenon DEF DrainContext
  <1>4. Lag' = IF total' >= cursor THEN total' - cursor ELSE total' + Modulus - cursor
    BY <1>1, <1>2, Mods, Zenon DEF DrainContext, Lag
  <1>5. Lag = IF total >= cursor THEN total - cursor ELSE total + Modulus - cursor
    BY LagIs DEF DrainContext
  <1>6. QED BY <1>1, <1>3, <1>4, <1>5

\* A tick during a pass costs a tick of its budget, and overwrites nothing it still needs.
LEMMA DrainTicks == ASSUME DrainContext, TickRecords PROVE DrainInv'
  <1>1. UNCHANGED <<exact, anchored, task, cursor, expect, left, processed>> BY DEF TickRecords
  <1>2. Lag' = (IF Lag + 1 = Modulus THEN 0 ELSE Lag + 1) /\ Lag \in 0..(Modulus - 1) BY TickLag
  <1>3. Ring \in Nat /\ Modulus \in Nat /\ Modulus >= 2 * Ring /\ Size("v") = Ring
         /\ "v" \in Channels /\ Margin \in 1..Ring
        /\ Backlog + PassTicks <= Ring - Margin /\ Backlog \in Nat /\ PassTicks \in Nat
               /\ budget \in 0..PassTicks /\ left \in Nat
    BY DEF DrainContext, Sizes, Size, Channels, Counters
  <1>4. Anchored => Anchored'
    <2> SUFFICES ASSUME Anchored PROVE Anchored' OBVIOUS
    <2>1. PICK n \in Nat : n = Smaller(Lag, Ring) BY <1>2, <1>3 DEF Smaller
    <2>2. PICK m \in Nat : m = Smaller(Lag', Ring) BY <1>2, <1>3 DEF Smaller
    <2>3. m <= n + 1 /\ m <= Size("v") BY <1>2, <1>3, <2>1, <2>2 DEF Smaller
    <2>4. Holds("v", n) BY <2>1, Zenon DEF Anchored
    <2>5. Holds("v", m)' BY <1>3, <2>3, <2>4, TickHolds, Zenon DEF DrainContext
    <2>6. QED BY <2>2, <2>5, Zenon DEF Anchored, Holds, Smaller
  <1>5. CASE task = "drain"
    <2>1. budget' = budget - 1 /\ budget > 0 BY <1>5 DEF TickRecords
    <2>2. Passing BY <1>5 DEF DrainContext, DrainInv
    <2>3. Passing' BY <1>1, <1>2, <1>3, <2>1, <2>2 DEF Passing
    <2>4. QED BY <1>1, <1>4, <1>5, <2>3, Zenon DEF DrainContext, DrainInv
  <1>6. CASE task # "drain"
    BY <1>1, <1>4, <1>6, Zenon DEF DrainContext, DrainInv
  <1>7. QED BY <1>5, <1>6

\* captureReadSince() neither skips nor gives up within the backlog limit.
LEMMA DrainReads == ASSUME DrainContext, ReadSince PROVE DrainInv'
  <1>1. \/ task = "drain" /\ left = 0 /\ UNCHANGED <<total, ring, head, exact, budget>>
        \/ PassEnds
    BY DEF ReadSince
  <1> DEFINE safe == Ring - Margin
  <1>2. /\ Ring \in Nat /\ Modulus \in Nat /\ Modulus >= 2 * Ring /\ Margin \in 1..Ring
        /\ DrainChunk \in Nat
        /\ Backlog + PassTicks <= Ring - Margin /\ Backlog \in Nat /\ PassTicks \in Nat
        /\ budget \in 0..PassTicks
        /\ MaxDrain \in Nat /\ processed \in Nat /\ left \in Nat
    BY DEF DrainContext, Sizes, Counters
  <1>3. Lag \in 0..(Modulus - 1) BY LagIs DEF DrainContext
  <1>4. task = "drain" /\ left = 0 /\ Passing BY DEF ReadSince, DrainContext, DrainInv
  <1>5. Lag <= safe /\ ~(Lag > safe) /\ ~(Lag > Modulus \div 2)
    <2>1. Lag <= safe BY <1>2, <1>3, <1>4 DEF Passing
    <2>2. 2 * (Modulus \div 2) >= Modulus - 1 /\ Modulus \div 2 \in Int BY <1>2, SMTT(20)
    <2>3. QED BY <1>2, <1>3, <2>1, <2>2
  <1>6. UNCHANGED <<total, ring, head, exact>> BY DEF ReadSince
  <1>7. CASE processed >= MaxDrain \/ Lag = 0
    <2>1. PassEnds /\ UNCHANGED <<cursor, anchored>> BY <1>5, <1>7, Zenon DEF ReadSince, Lag
    <2>2. task' = "none" /\ left' = 0 /\ processed' = 0 BY <2>1 DEF PassEnds
    <2>3. Anchored => Anchored' BY <1>6, <2>1, AnchoredKept DEF RingsKept
    <2>4. QED BY <1>6, <2>1, <2>2, <2>3, Zenon DEF DrainContext, DrainInv
  <1>8. CASE processed < MaxDrain /\ Lag # 0
    <2>1. ~(processed >= MaxDrain \/ Lag = 0) BY <1>2, <1>8
    <2>2. /\ left' = Smaller(Smaller(Lag, safe), DrainChunk)
          /\ cursor' = (IF Lag > safe THEN Minus(total, safe) ELSE cursor)
          /\ UNCHANGED <<task, expect, processed, budget, anchored>>
      BY <1>5, <2>1, Zenon DEF ReadSince, Lag
    <2>3. cursor' = cursor BY <1>5, <2>2, Zenon
    <2>4. Anchored => Anchored' BY <1>6, <2>3, AnchoredKept DEF RingsKept
    <2>5. left' <= Lag /\ left' <= DrainChunk BY <1>2, <1>3, <1>5, <2>2 DEF Smaller
    <2>6. left' \in Nat BY DEF DrainContext, Counters
    <2>7. Lag' = Lag BY <1>6, <2>3 DEF Lag
    <2>8. Passing' BY <1>2, <1>4, <1>8, <2>2, <2>3, <2>5, <2>6, <2>7 DEF Passing
    <2>9. QED BY <1>4, <1>6, <2>2, <2>4, <2>8, Zenon DEF DrainContext, DrainInv
  <1>9. QED BY <1>2, <1>7, <1>8

\* A sample that is taken is the expected one, and the next one follows.
LEMMA DrainTakes == ASSUME DrainContext, DrainSample PROVE DrainInv'
  <1>1. /\ task = "drain" /\ left > 0 /\ UNCHANGED <<total, ring, head, task, budget, anchored>>
        /\ cursor' = Plus(cursor, 1) /\ expect' = Plus(expect, 1)
        /\ left' = left - 1 /\ processed' = processed + 1
    BY DEF DrainSample
  <1>2. Passing BY <1>1 DEF DrainContext, DrainInv
  <1>3. exact'
    <2>1. anchored => ring["v"][cursor % Ring] = expect BY <1>1, ExpectedSample
    <2>2. QED BY <2>1, Zenon DEF DrainSample, DrainContext, DrainInv
  <1>4. Lag \in 0..(Modulus - 1) /\ Lag = IF total >= cursor THEN total - cursor
         ELSE total + Modulus - cursor
    BY LagIs DEF DrainContext
  <1>5. /\ Ring \in Nat /\ Modulus \in Nat /\ Modulus >= 2 * Ring
        /\ Backlog \in Nat /\ PassTicks \in Nat /\ budget \in 0..PassTicks
        /\ MaxDrain \in Nat /\ DrainChunk \in Nat /\ processed \in Nat /\ left \in Nat
        /\ total \in 0..(Modulus - 1) /\ cursor \in 0..(Modulus - 1)
               /\ cursor' \in 0..(Modulus - 1)
    BY DEF DrainContext, Sizes, Counters
  <1>6. left <= Lag /\ Lag >= 1 BY <1>1, <1>2, <1>4, <1>5 DEF Passing
  <1>7. Lag' = Lag - 1
    <2>1. cursor' = IF cursor + 1 = Modulus THEN 0 ELSE cursor + 1
      BY <1>1, <1>5, Mods, Zenon DEF DrainContext
    <2>2. Lag' = IF total >= cursor' THEN total - cursor' ELSE total + Modulus - cursor'
      BY <1>1, <1>5, Mods, Zenon DEF DrainContext, Lag
    <2>3. QED BY <1>4, <1>5, <1>6, <2>1, <2>2
  <1>8. Passing' BY <1>1, <1>2, <1>4, <1>5, <1>6, <1>7 DEF Passing
  <1>9. Anchored => Anchored'
    <2> SUFFICES ASSUME Anchored PROVE Anchored' OBVIOUS
    <2>0. Lag \in Nat /\ Lag' \in Nat /\ Ring \in Nat BY <1>4, <1>5, <1>6, <1>7
    <2>1. PICK n \in Nat : n = Smaller(Lag, Ring) BY <2>0 DEF Smaller
    <2>2. PICK m \in Nat : m = Smaller(Lag', Ring) BY <2>0 DEF Smaller
    <2>3. m <= n BY <1>4, <1>5, <1>7, <2>1, <2>2 DEF Smaller
    <2>4. Holds("v", n) BY <2>1, Zenon DEF Anchored
    <2>5. Holds("v", m) BY <2>3, <2>4, HoldsFewer
    <2>6. Holds("v", m)' BY <1>1, <2>5 DEF Holds, Slot, Size
    <2>7. QED BY <2>2, <2>6, Zenon DEF Anchored, Holds, Smaller
  <1>10. QED BY <1>1, <1>3, <1>8, <1>9, Zenon DEF DrainInv, DrainContext

\* Every step keeps the drain's invariant.
LEMMA DrainStep == DrainContext /\ [Next]_vars => DrainInv'
  <1> SUFFICES ASSUME DrainContext, [Next]_vars PROVE DrainInv' OBVIOUS
  <1> DEFINE Left == UNCHANGED <<cursor, expect, left, processed, budget, anchored, exact>>
                     /\ (task' = "drain" <=> task = "drain")
  <1>1. CASE TickRecords BY <1>1, DrainTicks
  <1>2. CASE Configure
    <2>1. anchored' = FALSE /\ task = "none" /\ UNCHANGED <<task, left, processed, exact>>
      BY <1>2 DEF Configure
    <2>2. QED BY <2>1 DEF DrainContext, DrainInv
  <1>3. CASE PllConfigure \/ PllCoast
    <2>1. /\ task = "none" /\ UNCHANGED <<total, ring, head, task, left, processed, exact>>
          /\ cursor' = total \/ UNCHANGED <<cursor, anchored>>
      BY <1>3 DEF PllConfigure, PllCoast, Control
    <2>2. cursor' = total => Anchored' BY <2>1, AnchoredNow DEF DrainContext
    <2>3. UNCHANGED cursor /\ Anchored => Anchored' BY <2>1, AnchoredKept DEF RingsKept
    <2>4. QED BY <2>1, <2>2, <2>3 DEF DrainContext, DrainInv
  <1>4. CASE PllSnapshot
    <2>1. task = "none" /\ UNCHANGED <<total, ring, head, exact>> BY <1>4 DEF PllSnapshot, Control
    <2>2. left = 0 /\ processed = 0 BY <2>1 DEF DrainContext, DrainInv
    <2>3. CASE TooLong(Lag)
      <3>1. cursor' = total /\ UNCHANGED <<task, left, processed>>
        BY <1>4, <2>3 DEF PllSnapshot, Lag
      <3>2. Anchored' BY <2>1, <3>1, AnchoredNow DEF DrainContext
      <3>3. QED BY <2>1, <2>2, <3>1, <3>2 DEF DrainContext, DrainInv
    <2>4. CASE ~TooLong(Lag)
      <3>1. /\ expect' = Plus(cursor, 1) /\ left' = 0 /\ processed' = 0
            /\ budget' = PassTicks /\ task' = "drain" /\ UNCHANGED <<cursor, anchored>>
        BY <1>4, <2>4 DEF PllSnapshot, Lag
      <3>2. Anchored => Anchored' BY <2>1, <3>1, AnchoredKept DEF RingsKept
      <3>3. Lag \in 0..(Modulus - 1) /\ Lag' = Lag
        BY <2>1, <3>1, LagIs, Zenon DEF DrainContext, Lag
      <3>4. Lag <= Backlog /\ Backlog \in Nat /\ PassTicks \in Nat /\ MaxDrain \in Nat
             /\ DrainChunk \in Nat /\ Modulus \in Nat
        BY <2>4, <3>3 DEF TooLong, DrainContext, Sizes
      <3>5. Passing' BY <3>1, <3>3, <3>4 DEF Passing
      <3>6. QED BY <2>1, <3>1, <3>2, <3>5, Zenon DEF DrainContext, DrainInv
    <2>5. QED BY <2>3, <2>4
  <1>5. CASE ReadSince BY <1>5, DrainReads
  <1>6. CASE DrainSample BY <1>6, DrainTakes
  <1>7. CASE RingsKept /\ Left
    <2>1. Anchored => Anchored' BY <1>7, AnchoredKept
    <2>2. Lag' = Lag BY <1>7 DEF Lag, RingsKept
    <2>3. Passing => Passing' BY <1>7, <2>2 DEF Passing
    <2>4. QED BY <1>7, <2>1, <2>3 DEF DrainContext, DrainInv
  <1>8. TickFreezes \/ TickSkips \/ Trip \/ UNCHANGED vars => RingsKept /\ Left
    BY DEF TickFreezes, TickSkips, Trip, RingsKept
  <1>9. ClearTrip \/ ApplySettings \/ ConfigureOff => RingsKept /\ Left
    BY DEF ClearTrip, ApplySettings, ConfigureOff, RingsKept
  <1>10. Scope => RingsKept /\ Left
    BY DEF Scope, ScopeArm, ScopeSetUp, ScopeEnable, ScopeRelease, ScopeResume, RingsKept
  <1>11. Download \/ DownloadMark \/ DownloadHeader => RingsKept /\ Left
    BY DEF Download, DownloadMark, DownloadHeader, RingsKept
  <1>12. DownloadPiece \/ DownloadEnd => RingsKept /\ Left
    BY DEF DownloadPiece, DownloadEnd, RingsKept
  <1>13. MeterInactive \/ MeterFlip \/ MeterCopy \/ MeterReset => RingsKept /\ Left
    BY DEF MeterInactive, MeterFlip, MeterCopy, MeterReset, RingsKept, Control
  <1> HIDE DEF Left
  <1>14. QED
    BY <1>1, <1>2, <1>3, <1>4, <1>5, <1>6, <1>7, <1>8, <1>9, <1>10, <1>11, <1>12, <1>13, Zenon
       DEF Next, Tick, Reconfigure, RawDownload, Tasks

-----------------------------------------------------------------------------
(* The theorems.                                                           *)

\* The assumptions of Recorder, as the lemmas above use them.
LEMMA SizesHold == Sizes
  BY RingsAssumption, SizesAssumption, PassAssumption DEF Sizes

\* The recorder starts with empty rings and no reader.
LEMMA InitRecInv == Init => RecInv
  <1> SUFFICES ASSUME Init PROVE RecInv OBVIOUS
  <1> USE SizesHold
  <1>1. 0 \in 0..(Modulus - 1) /\ 0 \in 0..Ring /\ 0 \in 0..DrainChunk /\ 0 \in 0..PassTicks
        /\ 0 \in 0..(MaxDrain + DrainChunk) /\ Ring \in Nat /\ CurrentRing \in Nat
        /\ \A ch \in Channels : 0 \in 0..(Size(ch) - 1)
    BY DEF Sizes, Size
  <1>2. Flags BY Zenon DEF Init, Flags
  <1>3. Places BY DEF Init, Places
  <1>4. Counters BY <1>1, Zenon DEF Init, Counters, HeadReset
  <1>5. Samples
    <2>1. Old \in 0..Modulus BY DEF Old, Sizes
    <2>2. QED BY <2>1, Zenon DEF Init, Samples
  <1>6. scope \in Scopes BY <1>1, Zenon DEF Init, Scopes, Channels
  <1>7. DownloadType
    <2>1. Len(NoDownload.sent) <= NoDownload.count BY NoDownloadType
    <2>2. QED BY <2>1, NoDownloadType, Zenon DEF Init, DownloadType
  <1>8. MeterInv BY DEF Init, MeterInv
  <1>9. ScopeInv BY DEF Init, ScopeInv, TriggerIsWhereReported, ScopeState
  <1>10. HistoryInv
    <2>1. 0 % Ring = 0 BY SMTT(20) DEF Sizes
    <2>2. Smaller(0, Ring) = 0 /\ Smaller(0, CurrentRing) = 0 BY <1>1 DEF Smaller
    <2>3. Holds("v", 0) /\ Holds("i", 0) BY DEF Holds
    <2>4. total = 0 /\ head["v"] = 0 BY DEF Init, HeadReset, Channels
    <2>5. QED BY <2>1, <2>2, <2>3, <2>4, Zenon DEF HistoryInv
  <1>11. DownloadInv
    <2>1. dl.sent = <<>> /\ ~dl.frozen /\ dl.trig = NoTrigger /\ pc = "apply"
      BY Zenon DEF Init, NoDownload
    <2>2. QED BY <2>1 DEF DownloadInv, Serving, FrozenDownloadIsOneRecord
  <1>12. DrainInv
    <2>1. Lag = 0 BY <1>4, NoLag, Zenon DEF Init, Lag
    <2>2. Smaller(Lag, Ring) = 0 BY <1>1, <2>1 DEF Smaller
    <2>3. Anchored BY <2>2 DEF Anchored, Holds
    <2>4. QED BY <2>3 DEF Init, DrainInv
  <1>13. QED
    BY <1>2, <1>3, <1>4, <1>5, <1>6, <1>7, <1>8, <1>9, <1>10, <1>11, <1>12, Zenon DEF RecInv

\* Every step keeps every part of the invariant.
LEMMA NextRecInv == RecInv /\ [Next]_vars => RecInv'
  <1> SUFFICES ASSUME RecInv, [Next]_vars PROVE RecInv' OBVIOUS
  <1> USE SizesHold
  <1>1. /\ Flags /\ Places /\ Counters /\ Samples /\ scope \in Scopes /\ DownloadType
        /\ MeterInv /\ ScopeInv /\ HistoryInv /\ DownloadInv /\ DrainInv
    BY Zenon DEF RecInv
  <1>2. Flags' /\ Places' /\ MeterInv' BY <1>1, FlagStep, PlacesStep, MeterStep, Zenon
  <1>3. Counters' /\ Samples' BY <1>1, CountersStep, SamplesStep, Zenon
  <1>4. (scope \in Scopes)' BY <1>1, ScopesStep, Zenon
  <1>5. DownloadType' BY <1>1, DownloadTypeStep, Zenon
  <1>6. ScopeInv'
    <2>1. ScopeTypes BY <1>1, Zenon DEF ScopeTypes, Flags, Counters
    <2>2. ScopeTypes' BY <1>2, <1>3, <1>4, Zenon DEF ScopeTypes, Flags, Counters
    <2>3. QED BY <1>1, <2>1, <2>2, ScopeStep, Zenon
  <1>7. HistoryInv' BY <1>1, <1>3, HistoryStep, Zenon
  <1>8. DownloadInv' BY <1>1, <1>2, <1>3, <1>5, DownloadStep, Zenon DEF DlContext
  <1>9. DrainInv' BY <1>1, <1>2, <1>3, DrainStep, Zenon DEF DrainContext
  <1>10. QED BY <1>2, <1>3, <1>4, <1>5, <1>6, <1>7, <1>8, <1>9, Zenon DEF RecInv

\* The inductive invariant: in every reachable state each reader of the rings keeps to
\* samples they hold.
THEOREM RecorderInductive == Spec => []RecInv
  BY InitRecInv, NextRecInv, PTL DEF Spec

\* Every index stays inside its ring and everything counted down ends at zero, for rings
\* and limits of every size (captureTick, scopeStep, captureReadSince).
THEOREM RecorderTypeCorrect == Spec => []TypeOK
  <1>1. RecInv => TypeOK
    <2> SUFFICES ASSUME RecInv PROVE TypeOK OBVIOUS
    <2>1. Flags /\ Places /\ Counters /\ Samples /\ scope \in Scopes /\ DownloadType
      BY Zenon DEF RecInv
    <2>2. /\ dl.ch \in Channels /\ dl.count \in 0..Ring /\ dl.trig \in 0..Ring
          /\ dl.frozen \in BOOLEAN /\ Len(dl.sent) <= dl.count
      BY <2>1, Zenon DEF DownloadType, Downloads
    <2>3. QED BY <2>1, <2>2, Zenon DEF TypeOK, Flags, Places, Counters, Samples, Scopes
  <1>2. QED BY <1>1, RecorderInductive, PTL

\* No metered sample is cleared unread, whatever the interrupt adds between the flip of
\* the banks, the copy and the reset (captureMeterTake).
THEOREM NoMeteredSampleIsLost == Spec => []MeterLosesNothing
  <1>1. RecInv => MeterLosesNothing BY Zenon DEF RecInv, MeterInv, MeterLosesNothing
  <1>2. QED BY <1>1, RecorderInductive, PTL

\* A completed record ends exactly the asked number of samples behind its trigger, which
\* follows a sample before the level, over any wrap of the sample counter and however the
\* scope was armed, released and armed again (scopeStep, captureScopeArm).
THEOREM TriggerIsInPlace == Spec => []TriggerIsWhereReported
  <1>1. RecInv => TriggerIsWhereReported BY Zenon DEF RecInv, ScopeInv
  <1>2. QED BY <1>1, RecorderInductive, PTL

\* A download whose header says frozen is the newest samples in order with the trigger at
\* the reported offset, for rings and pieces of every size, through every control task and
\* trip between two pieces (api_capture_raw, captureRawCopy, scopeTrigOffset).
THEOREM DownloadIsOneRecord == Spec => []FrozenDownloadIsOneRecord
  <1>1. RecInv => FrozenDownloadIsOneRecord BY Zenon DEF RecInv, DownloadInv
  <1>2. QED BY <1>1, RecorderInductive, PTL

\* A pass of pllTask() that the backlog limit admits takes every sample at the phase that
\* was computed for it, for every limit and margin that together leave the ring unturned
\* (captureReadSince, pllTask).
THEOREM DrainSeesItsSamples == Spec => []DrainMatchesMirror
  <1>1. RecInv => DrainMatchesMirror BY Zenon DEF RecInv, DrainInv, DrainMatchesMirror
  <1>2. QED BY <1>1, RecorderInductive, PTL

\* While a trip is latched only a reconfiguration changes the rings (captureTick): the
\* scope may lift the freeze, the trip still keeps the interrupt from recording.
THEOREM RecordSurvivesTrip == Spec => TripKeepsRecord
  <1>1. [Next]_vars => [tripped /\ ring' # ring => pc \in {"clear", "apply"}]_vars
    <2> SUFFICES ASSUME [Next]_vars, tripped, ring' # ring PROVE pc \in {"clear", "apply"}
      BY Zenon
    <2>1. ~TickRecords BY Zenon DEF TickRecords, MayRecord
    <2>2. ~RingsKept BY Zenon DEF RingsKept
    <2>3. Configure BY <2>1, <2>2, RingFrame, Zenon
    <2>4. QED BY <2>3, Zenon DEF Configure
  <1>2. QED BY <1>1, PTL DEF Spec, TripKeepsRecord

=============================================================================
