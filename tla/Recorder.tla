------------------------------ MODULE Recorder ------------------------------
(***************************************************************************)
(* The waveform recorder: two rings the carrier interrupt writes           *)
(* (capture.cpp), frozen by a trip or by the scope trigger (scope_math.h), *)
(* and who reads them while they move: the raw download of the web server, *)
(* the drain of the PLL and the banks of the meter.                        *)
(*                                                                         *)
(* The interrupt preempts the main thread between any two of its steps and *)
(* is not preempted by it.  A sample is the number the counter had when it *)
(* was recorded; of its value only the side of the trigger level counts.   *)
(***************************************************************************)
EXTENDS Naturals, Sequences

CONSTANTS Ring, CurrentRing,  \* samples of the two rings
          Modulus,            \* the sample counter wraps (2^32)
          Chunk,              \* samples per piece of a download
          Margin,             \* OverrunMargin of captureReadSince()
          DrainChunk,         \* samples asked of it at once
          Backlog, MaxDrain,  \* pllBacklogLimit() and PllMaxDrainSamples
          PassTicks,          \* bound on carrier cycles during a pass of pllTask()
          Posts,              \* numbers of post-trigger samples an operator asks for
          Usages              \* bound: what is used together in one behaviour

ASSUME RingsAssumption ==
  /\ Ring \in Nat \ {0} /\ CurrentRing \in 1..Ring /\ Margin \in 1..Ring
  /\ Modulus \in Nat /\ Modulus >= 2 * Ring /\ Modulus % Ring = 0
ASSUME SizesAssumption == Chunk \in Nat \ {0} /\ DrainChunk \in Nat \ {0} /\ Posts \subseteq 0..Ring
\* A pass of pllTask() is over long before the ring has turned.
ASSUME PassAssumption ==
  /\ MaxDrain \in Nat /\ PassTicks \in Nat
  /\ Backlog \in 1..MaxDrain /\ Backlog + PassTicks <= Ring - Margin

Uses == {"scope", "download", "meter", "pll"}
ASSUME UsagesAssumption == Usages \subseteq SUBSET Uses

Channels == {"v", "i"}
NoTrigger == Ring           \* scopeTrigOffset() returns 0xFFFFFFFF
Old == Modulus              \* an entry from before the last reconfiguration

VARIABLES
  uses,                     \* what is enabled by the settings, or asked for by clients
  enabled, frozen, metering, tripped, \* vEnabled, vFrozen, vMeterEnabled, vFaultTripped
  total,                    \* vTotal
  ring, head,               \* per channel: samples and vHead, vCurrentHead
  scopeOn, scope, trigSample, \* vScopeEnabled, scopeM with its source, vScopeTrigSample
  crossed,                  \* history: the last sample of the source was before the
                            \* level; the trigger sample followed such a one
  bank, flipped, banks,     \* vMeterBank, flipped and what the two banks hold
  lost,                     \* history: a metered sample was cleared unread
  pc, dl,                   \* the request being served; the download's locals
  task,                     \* the control task in progress, inside or outside a request
  cursor, expect, left,     \* pllTask(): the cursor, and the locals of a pass
  processed, budget,        \* its count of samples; the ticks the bound still allows
  anchored, exact           \* history: the counter is the one the cursor was read from;
                            \* every sample was the one its phase was computed for

flags  == <<uses, enabled, metering>>
rings  == <<total, ring, head>>
trigger == <<scopeOn, scope, trigSample, crossed>>
meter  == <<bank, flipped, banks, lost>>
serve  == <<pc, dl>>
pass   == <<expect, left, processed, budget>>
drain  == <<cursor, pass, anchored, exact>>
vars == <<flags, frozen, tripped, rings, trigger, meter, serve, task, drain>>

Size(ch) == IF ch = "v" THEN Ring ELSE CurrentRing
Plus(a, b) == (a + b) % Modulus
Minus(a, b) == (a + Modulus - b) % Modulus
Smaller(a, b) == IF a < b THEN a ELSE b
NoDownload == [ch |-> "v", count |-> 0, trig |-> NoTrigger, frozen |-> FALSE, sent |-> <<>>]

-----------------------------------------------------------------------------
(* The carrier interrupt: captureTick().                                   *)

\* The trip is looked at first: pre-fault history stays in the ring.
TickFreezes ==
  /\ enabled /\ tripped
  /\ frozen' = TRUE
  /\ UNCHANGED <<flags, tripped, rings, trigger, meter, serve, task, drain>>

\* Not enabled, frozen, or a conversion is not complete: no channel is read.
TickSkips == ~(enabled /\ tripped) /\ UNCHANGED vars

\* scopeStep(): a sample beyond the level triggers once one before it was seen.
LastPostSample == scope.left = 1

StepArmed(before) ==
  \/ before /\ scope' = [scope EXCEPT !.primed = TRUE]
  \/ ~before /\ ~scope.primed /\ UNCHANGED scope
  \/ /\ ~before /\ scope.primed
     /\ scope' = [scope EXCEPT !.left = scope.post,
                               !.state = IF scope.post = 0 THEN "complete" ELSE "triggered"]

StepTriggered ==
  scope' = [scope EXCEPT !.left = IF LastPostSample THEN 0 ELSE scope.left - 1,
                         !.state = IF LastPostSample THEN "complete" ELSE "triggered"]

\* The history remembers the last sample while a trigger is armed.
Followed(before) == [crossed EXCEPT !.last = before /\ scope.state = "armed"]

Step(before) ==
  /\ \/ scope.state = "armed" /\ StepArmed(before)
     \/ scope.state = "triggered" /\ StepTriggered
  /\ IF scope.state = "armed" /\ scope'.state # "armed"
       THEN trigSample' = total' /\ crossed' = [last |-> FALSE, trig |-> ~before /\ crossed.last]
       ELSE trigSample' = trigSample /\ crossed' = Followed(before)
  /\ frozen' = (scope'.state = "complete")

Stepping ==
  scopeOn /\ scope.state \in {"armed", "triggered"} /\ (scope.source = "v" \/ metering)

RecordsUntilFrozen == enabled /\ ~frozen                            \* mutant
MayRecord == enabled /\ ~frozen /\ ~tripped

Recorded(ch) == [ring[ch] EXCEPT ![head[ch]] = total']
Advanced(ch) == (head[ch] + 1) % Size(ch)

\* Both channels, or the voltage alone when nothing is metered.
TickRecords ==
  /\ MayRecord
  /\ task = "drain" => budget > 0
  /\ budget' = IF task = "drain" THEN budget - 1 ELSE budget
  /\ total' = Plus(total, 1)
  /\ LET on == IF metering THEN Channels ELSE {"v"}
     IN  /\ ring' = [ch \in Channels |-> IF ch \in on THEN Recorded(ch) ELSE ring[ch]]
         /\ head' = [ch \in Channels |-> IF ch \in on THEN Advanced(ch) ELSE head[ch]]
  /\ banks' = IF metering THEN [banks EXCEPT ![bank] = "data"] ELSE banks
  /\ \E before \in BOOLEAN :
       IF Stepping THEN Step(before)
                   ELSE /\ crossed' = Followed(before)
                        /\ UNCHANGED <<frozen, scope, trigSample>>
  /\ UNCHANGED <<flags, tripped, scopeOn, bank, flipped, lost, serve, task, cursor, expect,
                 left, processed, anchored, exact>>

\* faultTripIsr(), acmpFaultIsr() (see OutputGate).
Trip ==
  /\ tripped' = TRUE
  /\ UNCHANGED <<flags, frozen, rings, trigger, meter, serve, task, drain>>

-----------------------------------------------------------------------------
(* Reconfiguration: captureConfigure(), its callers and pllConfigure().    *)

Serve(from, to) == pc = from /\ task = "none" /\ pc' = to

\* clearFaultTrip(), from where the trip is lifted; an apply that finds no trip.
ClearTrip ==
  /\ Serve("loop", "clear")
  /\ tripped' = FALSE
  /\ UNCHANGED <<flags, frozen, rings, trigger, meter, dl, task, drain>>

ApplySettings ==
  /\ ~tripped /\ Serve("loop", "apply")
  /\ UNCHANGED <<flags, frozen, tripped, rings, trigger, meter, dl, task, drain>>

HeadReset == [ch \in Channels |-> 0]

Disarmed == scopeOn' = FALSE /\ scope' = [scope EXCEPT !.state = "idle", !.primed = FALSE]

\* The interrupt is kept out by vEnabled from the first line to the last.
Configure ==
  /\ pc \in {"clear", "apply"} /\ task = "none"
  /\ pc' = IF pc = "apply" THEN "pll" ELSE "loop"
  /\ enabled' = TRUE /\ frozen' = FALSE
  /\ metering' \in IF "meter" \in uses THEN BOOLEAN ELSE {FALSE}
  /\ Disarmed
  /\ total' = 0
  /\ head' = IF metering' THEN HeadReset ELSE [HeadReset EXCEPT !["i"] = head["i"]]
  /\ ring' = [ch \in Channels |-> [k \in 0..(Size(ch) - 1) |-> Old]]
  /\ banks' = IF metering' THEN [b \in {0, 1} |-> "empty"] ELSE banks
  /\ anchored' = FALSE
  /\ UNCHANGED <<uses, tripped, trigSample, crossed, bank, flipped, lost, dl, task, cursor,
                 pass, exact>>

\* Capture is off, or no ADC reads its pin.
ConfigureOff ==
  /\ pc \in {"clear", "apply"} /\ task = "none"
  /\ pc' = IF pc = "apply" THEN "pll" ELSE "loop"
  /\ enabled' = FALSE
  /\ Disarmed
  /\ UNCHANGED <<uses, metering, frozen, tripped, rings, trigSample, crossed, meter, dl, task,
                 drain>>

PllConfigure ==
  /\ Serve("pll", "loop")
  /\ IF "pll" \in uses THEN cursor' = total /\ anchored' = TRUE ELSE UNCHANGED <<cursor, anchored>>
  /\ UNCHANGED <<flags, frozen, tripped, rings, trigger, meter, dl, task, pass, exact>>

-----------------------------------------------------------------------------
(* The scope's handlers.                                                   *)

\* captureScopeArm() takes the machine from the interrupt, sets it up, gives it back.
ScopeArm ==
  /\ "scope" \in uses /\ enabled /\ Serve("loop", "arm")
  /\ scopeOn' = FALSE
  /\ UNCHANGED <<flags, frozen, tripped, rings, scope, trigSample, crossed, meter, dl, task, drain>>

StillPrimed == scope.primed                                        \* mutant
Unprimed == FALSE

ScopeSetUp ==
  /\ Serve("arm", "enable")
  /\ trigSample' = 0
  /\ \E source \in {ch \in Channels : ch = "v" \/ metering}, post \in Posts :
       scope' = [state |-> "armed", source |-> source, primed |-> Unprimed,
                 post |-> post, left |-> 0]
  /\ frozen' = FALSE
  /\ crossed' = [last |-> FALSE, trig |-> FALSE]
  /\ UNCHANGED <<flags, tripped, rings, scopeOn, meter, dl, task, drain>>

ScopeEnable ==
  /\ Serve("enable", "loop")
  /\ scopeOn' = TRUE
  /\ UNCHANGED <<flags, frozen, tripped, rings, scope, trigSample, crossed, meter, dl, task, drain>>

ScopeRelease ==
  /\ "scope" \in uses /\ Serve("loop", "resume")
  /\ Disarmed
  /\ UNCHANGED <<flags, frozen, tripped, rings, trigSample, crossed, meter, dl, task, drain>>

ScopeResume ==
  /\ Serve("resume", "loop")
  /\ frozen' = FALSE
  /\ UNCHANGED <<flags, tripped, rings, trigger, meter, dl, task, drain>>

ScopeState == IF scopeOn THEN scope.state ELSE "idle"

-----------------------------------------------------------------------------
(* api_capture_raw(): the header, then the data in pieces.                 *)

Available(ch) == IF ch = "i" /\ ~metering THEN 0 ELSE Smaller(total, Size(ch))

Download ==
  /\ "download" \in uses /\ Serve("loop", "mark")
  /\ \E ch \in Channels : \E count \in 1..Available(ch) :
       dl' = [NoDownload EXCEPT !.ch = ch, !.count = count]
  /\ UNCHANGED <<flags, frozen, tripped, rings, trigger, meter, task, drain>>

\* scopeTrigOffset()
OffsetFromEnd == dl.count - scope.post                             \* mutant
TrigOffset == dl.count - 1 - scope.post

DownloadMark ==
  /\ Serve("mark", "header")
  /\ dl' = [dl EXCEPT !.trig =
              IF ScopeState = "complete" /\ scope.source = dl.ch /\ scope.post < dl.count
                THEN TrigOffset ELSE NoTrigger]
  /\ UNCHANGED <<flags, frozen, tripped, rings, trigger, meter, task, drain>>

DownloadHeader ==
  /\ Serve("header", "data")
  /\ dl' = [dl EXCEPT !.frozen = frozen]
  /\ UNCHANGED <<flags, frozen, tripped, rings, trigger, meter, task, drain>>

\* captureRawCopy(): a piece of the window that ends at the head.
Window(ch, count, offset, n) ==
  LET size == Size(ch)
      start == (head[ch] + size - (count % size) + offset) % size
  IN  [k \in 1..n |-> ring[ch][(start + k - 1) % size]]

\* Between two pieces serviceControlTasks() runs the control tasks below.
DownloadPiece ==
  LET offset == Len(dl.sent)
      n == Smaller(dl.count - offset, Chunk)
  IN /\ offset < dl.count
     /\ Serve("data", "data")
     /\ dl' = [dl EXCEPT !.sent = @ \o Window(dl.ch, dl.count, offset, n)]
     /\ UNCHANGED <<flags, frozen, tripped, rings, trigger, meter, task, drain>>

DownloadEnd ==
  /\ Len(dl.sent) = dl.count
  /\ Serve("data", "loop")
  /\ dl' = NoDownload
  /\ UNCHANGED <<flags, frozen, tripped, rings, trigger, meter, task, drain>>

-----------------------------------------------------------------------------
(* Control tasks, from loop() and from serviceControlTasks().              *)

Control == task = "none" /\ pc \in {"loop", "data"}

MeterActive == enabled /\ metering /\ ~frozen

MeterInactive ==
  /\ Control /\ ~MeterActive
  /\ flipped' = FALSE
  /\ UNCHANGED <<flags, frozen, tripped, rings, trigger, bank, banks, lost, serve, task, drain>>

MeterFlip ==
  /\ Control /\ MeterActive /\ ~flipped
  /\ bank' = 1 - bank /\ flipped' = TRUE
  /\ UNCHANGED <<flags, frozen, tripped, rings, trigger, banks, lost, serve, task, drain>>

\* captureMeterTake(): the copy, then the reset.
ActiveBank == bank                                                 \* mutant
IdleBank == 1 - bank

MeterCopy ==
  /\ Control /\ MeterActive /\ flipped
  /\ task' = "take" /\ flipped' = FALSE
  /\ banks' = [banks EXCEPT ![IdleBank] = "copied"]
  /\ UNCHANGED <<flags, frozen, tripped, rings, trigger, bank, lost, serve, drain>>

MeterReset ==
  /\ task = "take" /\ task' = "none"
  /\ lost' = (lost \/ banks[IdleBank] = "data")
  /\ banks' = [banks EXCEPT ![IdleBank] = "empty"]
  /\ UNCHANGED <<flags, frozen, tripped, rings, trigger, bank, flipped, serve, drain>>

\* pllTask(): what a frozen ring holds has no phase any more.
PllCoast ==
  /\ "pll" \in uses /\ Control /\ enabled /\ frozen
  /\ cursor' = total /\ anchored' = TRUE
  /\ UNCHANGED <<flags, frozen, tripped, rings, trigger, meter, serve, task, pass, exact>>

AnyBacklog(lag) == FALSE                                           \* mutant
TooLong(lag) == lag > Backlog

\* The coherent snapshot of counter and phase; a backlog that is too long is dropped.
PllSnapshot ==
  /\ "pll" \in uses /\ Control /\ enabled /\ ~frozen
  /\ total # cursor
  /\ IF TooLong(Minus(total, cursor))
       THEN cursor' = total /\ anchored' = TRUE /\ UNCHANGED <<task, pass>>
       ELSE /\ expect' = Plus(cursor, 1) /\ left' = 0 /\ processed' = 0
            /\ budget' = PassTicks /\ task' = "drain"
            /\ UNCHANGED <<cursor, anchored>>
  /\ UNCHANGED <<flags, frozen, tripped, rings, trigger, meter, serve, exact>>

PassEnds == task' = "none" /\ expect' = 0 /\ left' = 0 /\ processed' = 0 /\ budget' = 0

\* captureReadSince(): how much, and from where.
ReadSince ==
  /\ task = "drain" /\ left = 0
  /\ LET lag == Minus(total, cursor)
         safe == Ring - Margin
     IN  CASE processed >= MaxDrain \/ lag = 0 -> PassEnds /\ UNCHANGED <<cursor, anchored>>
           [] lag > Modulus \div 2 -> PassEnds /\ cursor' = total /\ anchored' = TRUE
           [] OTHER -> /\ left' = Smaller(Smaller(lag, safe), DrainChunk)
                       /\ cursor' = IF lag > safe THEN Minus(total, safe) ELSE cursor
                       /\ UNCHANGED <<task, expect, processed, budget, anchored>>
  /\ UNCHANGED <<flags, frozen, tripped, rings, trigger, meter, serve, exact>>

\* One sample of it, and the step of the loop filter at its phase.
DrainSample ==
  /\ task = "drain" /\ left > 0
  /\ exact' = (exact /\ (anchored => ring["v"][cursor % Ring] = expect))
  /\ cursor' = Plus(cursor, 1) /\ expect' = Plus(expect, 1)
  /\ left' = left - 1 /\ processed' = processed + 1
  /\ UNCHANGED <<flags, frozen, tripped, rings, trigger, meter, serve, task, budget, anchored>>

-----------------------------------------------------------------------------
(* The specification.                                                      *)

Init ==
  /\ uses \in Usages
  /\ enabled = FALSE /\ frozen = FALSE /\ metering = FALSE /\ tripped = FALSE
  /\ total = 0 /\ ring = [ch \in Channels |-> [k \in 0..(Size(ch) - 1) |-> Old]]
  /\ head = HeadReset
  /\ scopeOn = FALSE /\ trigSample = 0 /\ crossed = [last |-> FALSE, trig |-> FALSE]
  /\ scope = [state |-> "idle", source |-> "v", primed |-> FALSE, post |-> 0, left |-> 0]
  /\ bank = 0 /\ flipped = FALSE /\ banks = [b \in {0, 1} |-> "empty"] /\ lost = FALSE
  /\ pc = "apply" /\ dl = NoDownload /\ task = "none"
  /\ cursor = 0 /\ expect = 0 /\ left = 0 /\ processed = 0 /\ budget = 0
  /\ anchored = TRUE /\ exact = TRUE

Tick == TickFreezes \/ TickSkips \/ TickRecords
Reconfigure == ClearTrip \/ ApplySettings \/ Configure \/ ConfigureOff \/ PllConfigure
Scope == ScopeArm \/ ScopeSetUp \/ ScopeEnable \/ ScopeRelease \/ ScopeResume
RawDownload == Download \/ DownloadMark \/ DownloadHeader \/ DownloadPiece \/ DownloadEnd
Tasks == MeterInactive \/ MeterFlip \/ MeterCopy \/ MeterReset \/ PllCoast \/ PllSnapshot
         \/ ReadSince \/ DrainSample
Next == Tick \/ Trip \/ Reconfigure \/ Scope \/ RawDownload \/ Tasks

Spec == Init /\ [][Next]_vars

-----------------------------------------------------------------------------
(* Properties.                                                             *)

\* Indices stay inside their ring, and what is counted down ends at zero.
TypeOK ==
  /\ uses \in Usages
  /\ enabled \in BOOLEAN /\ frozen \in BOOLEAN /\ metering \in BOOLEAN /\ tripped \in BOOLEAN
  /\ total \in 0..(Modulus - 1)
  /\ \A ch \in Channels : /\ head[ch] \in 0..(Size(ch) - 1)
                          /\ ring[ch] \in [0..(Size(ch) - 1) -> 0..Modulus]
  /\ scopeOn \in BOOLEAN /\ trigSample \in 0..(Modulus - 1)
  /\ scope \in [state : {"idle", "armed", "triggered", "complete"}, source : Channels,
                primed : BOOLEAN, post : Posts \cup {0}, left : 0..Ring]
  /\ crossed \in [last : BOOLEAN, trig : BOOLEAN]
  /\ bank \in {0, 1} /\ flipped \in BOOLEAN /\ banks \in [{0, 1} -> {"empty", "data", "copied"}]
  /\ lost \in BOOLEAN
  /\ pc \in {"loop", "clear", "apply", "pll", "arm", "enable", "resume", "mark", "header", "data"}
  /\ dl.ch \in Channels /\ dl.count \in 0..Ring /\ dl.trig \in 0..Ring /\ dl.frozen \in BOOLEAN
  /\ Len(dl.sent) <= dl.count
  /\ task \in {"none", "take", "drain"}
  /\ cursor \in 0..(Modulus - 1) /\ expect \in 0..(Modulus - 1)
  /\ left \in 0..DrainChunk /\ processed \in 0..(MaxDrain + DrainChunk) /\ budget \in 0..PassTicks
  /\ anchored \in BOOLEAN /\ exact \in BOOLEAN

\* A completed record is frozen exactly the asked number of samples past its trigger,
\* and the trigger sample crossed the level right there: it follows a sample before the
\* level on the same channel, whenever the scope was armed (scopeStep, captureScopeArm).
TriggerIsWhereReported ==
  ScopeState = "complete" =>
    frozen /\ Minus(total, trigSample) = scope.post /\ crossed.trig

\* api_capture_raw: "guaranteed-consistent record download while frozen".  Under a
\* header that says frozen come the newest samples in order, through pieces, control
\* tasks and trips, and the trigger sample is at the offset the header gives.
FrozenDownloadIsOneRecord ==
  dl.frozen =>
    \A k \in 1..Len(dl.sent) :
      /\ dl.sent[k] = Minus(total, dl.count - k)
      /\ dl.trig = k - 1 => dl.sent[k] = trigSample

\* capture.h: a trip freezes the ring, "preserving the pre-fault history": while it is
\* latched nothing but a reconfiguration costs a sample of it, not even the scope being
\* armed or released, which lifts the freeze.
TripKeepsRecord == [][tripped /\ ring' # ring => pc \in {"clear", "apply"}]_vars

\* pll.cpp: every sample of a pass is the one its phase was computed for: none skipped,
\* none overwritten, none from before a reset of the counter that the cursor knows of.
DrainMatchesMirror == exact

\* captureMeterTake: "call only on the idle bank": whatever the interrupt adds between
\* flip, copy and reset, no metered sample is cleared unread.
MeterLosesNothing == ~lost

=============================================================================
