------------------------------ MODULE EventLog ------------------------------
(***************************************************************************)
(* The ring of log entries (event_log.h), its answer to GET /api/log       *)
(* (web_handlers.cpp), the five lines of the display (utils.cpp) and the   *)
(* viewer of web/stats.html that polls with the last number it has seen.   *)
(* An entry is its sequence number.  The request and the answer travel;    *)
(* between them the device may log or restart, and either may be lost.     *)
(***************************************************************************)
EXTENDS Integers, Sequences, FiniteSets

CONSTANTS Capacity,       \* EventLogCapacity (128)
          MaxPerResponse, \* most entries of one answer (64)
          OledLogLines,   \* lines of the display (5)
          MaxWritten,     \* bound: entries recorded in one boot
          MaxBoots        \* bound: restarts

\* What the constants must satisfy.
ConstantsOK ==
  /\ Capacity \in Nat \ {0}
  /\ MaxPerResponse \in 1..Capacity /\ OledLogLines \in 1..Capacity
  /\ MaxWritten \in Nat /\ MaxBoots \in Nat \ {0}

VARIABLES
  entries, written,   \* log.entries as the numbers in the slots, 0 unused; log.written
  boot,               \* eventBootId() of the device
  lines,              \* what the display shows
  cursor, bootId,     \* logCursor; logBootId, 0 for null
  wire,               \* the exchange in flight: a request, an answer or nothing
  missed, shown,      \* history: passed over untold in this boot; newest shown
  told, retold        \* history: the restarts announced; whether one was announced again

logVars    == <<entries, written, boot, lines>>
viewerVars == <<cursor, bootId, missed, shown, told, retold>>
elVars     == <<logVars, viewerVars, wire>>

None == [kind |-> "none"]

Init ==
  /\ entries = [i \in 0..Capacity-1 |-> 0] /\ written = 0
  /\ boot = 1 /\ lines = <<>>
  /\ cursor = 0 /\ bootId = 0 /\ wire = None
  /\ missed = {} /\ shown = 0 /\ told = {} /\ retold = FALSE
-----------------------------------------------------------------------------
(* The ring. *)

Newest == written

OldestSeq == IF written <= Capacity THEN 1 ELSE written - Capacity + 1

From(since) == IF since + 1 > OldestSeq THEN since + 1 ELSE OldestSeq

CountSince(since) == IF Newest = 0 \/ since >= Newest THEN 0 ELSE Newest - From(since) + 1

EntryAt(since, i) == entries[(From(since) + i - 1) % Capacity]

GapSince(since) == since < OldestSeq - 1

\* mutant: an answer cut to its limit does not say so
AnswerWithoutGap(since) ==
  LET n == CountSince(since)
      start == IF n > MaxPerResponse THEN Newest - MaxPerResponse ELSE since
  IN [kind |-> "answer", boot |-> boot, newest |-> Newest, gap |-> GapSince(since),
      events |-> [i \in 1..CountSince(start) |-> EntryAt(start, i - 1)]]

\* api_log: everything newer than "since", at most MaxPerResponse and then the newest.
Answer(since) ==
  LET n == CountSince(since)
      start == IF n > MaxPerResponse THEN Newest - MaxPerResponse ELSE since
  IN [kind |-> "answer", boot |-> boot, newest |-> Newest,
      gap |-> GapSince(since) \/ n > MaxPerResponse,
      events |-> [i \in 1..CountSince(start) |-> EntryAt(start, i - 1)]]

\* writeLog() of any task; one entry.
Record ==
  /\ written < MaxWritten
  /\ entries' = [entries EXCEPT ![written % Capacity] = written + 1]
  /\ written' = written + 1
  /\ UNCHANGED <<boot, lines, viewerVars, wire>>

\* flushDisplay() shows the newest lines.
FlushDisplay ==
  /\ LET since == IF Newest > OledLogLines THEN Newest - OledLogLines ELSE 0
     IN lines' = [i \in 1..CountSince(since) |-> EntryAt(since, i - 1)]
  /\ lines' # lines
  /\ UNCHANGED <<entries, written, boot, viewerVars, wire>>

\* A reset: eventLogBegin() clears the ring and draws another boot id.
Restart ==
  /\ boot < MaxBoots
  /\ boot' = boot + 1
  /\ entries' = [i \in 0..Capacity-1 |-> 0] /\ written' = 0 /\ lines' = <<>>
  /\ UNCHANGED <<viewerVars, wire>>
-----------------------------------------------------------------------------
(* The viewer: one request in flight. *)

PollLog ==
  /\ wire.kind = "none"
  /\ wire' = [kind |-> "request", since |-> cursor]
  /\ UNCHANGED <<logVars, viewerVars>>

Serve ==
  /\ wire.kind = "request"
  /\ wire' = Answer(wire.since)
  /\ UNCHANGED <<logVars, viewerVars>>

\* A request or an answer is lost: the exception ends the poll.
Lose ==
  /\ wire.kind # "none"
  /\ wire' = None
  /\ UNCHANGED <<logVars, viewerVars>>

\* Another boot than the one shown: start over (the code's second way to start over, a
\* cursor ahead of a device of the same boot, cannot occur: ContinuesWhatWasShown).  The
\* boot id kept stays that of the earlier boot.
ShowRestart ==
  /\ wire.kind = "answer"
  /\ bootId # 0 /\ wire.boot # bootId
  /\ cursor' = 0 /\ missed' = {} /\ shown' = 0
  /\ told' = told \cup {wire.boot} /\ retold' = (retold \/ wire.boot \in told)
  /\ wire' = None
  /\ UNCHANGED <<logVars, bootId>>

\* mutant: the boot id of the answer is not compared before its events are shown
ShowEventsAnyBoot ==
  /\ wire.kind = "answer"
  /\ bootId' = wire.boot
  /\ LET ev == wire.events
     IN IF ev = <<>> THEN UNCHANGED <<cursor, missed, shown>>
        ELSE /\ cursor' = ev[Len(ev)] /\ shown' = ev[Len(ev)]
             /\ missed' = IF wire.gap THEN missed ELSE missed \cup (shown+1)..(ev[1]-1)
  /\ wire' = None
  /\ UNCHANGED <<logVars, told, retold>>

\* The events are appended, after a line for the gap; the cursor is the last of them.
ShowEvents ==
  /\ wire.kind = "answer"
  /\ bootId \in {0, wire.boot}
  /\ bootId' = wire.boot
  /\ LET ev == wire.events
     IN IF ev = <<>> THEN UNCHANGED <<cursor, missed, shown>>
        ELSE /\ cursor' = ev[Len(ev)] /\ shown' = ev[Len(ev)]
             /\ missed' = IF wire.gap THEN missed ELSE missed \cup (shown+1)..(ev[1]-1)
  /\ wire' = None
  /\ UNCHANGED <<logVars, told, retold>>

\* The page is loaded again.
ReloadPage ==
  /\ wire.kind = "none" /\ bootId # 0
  /\ cursor' = 0 /\ bootId' = 0 /\ missed' = {} /\ shown' = 0
  /\ told' = {} /\ retold' = FALSE
  /\ UNCHANGED <<logVars, wire>>
-----------------------------------------------------------------------------
Next ==
  \/ Record \/ FlushDisplay \/ Restart
  \/ PollLog \/ Serve \/ Lose \/ ShowRestart \/ ShowEvents \/ ReloadPage

Spec == Init /\ [][Next]_elVars
-----------------------------------------------------------------------------
Answers == [kind : {"answer"}, boot : 1..MaxBoots, newest : 0..MaxWritten,
            gap : BOOLEAN, events : UNION {[1..n -> 1..MaxWritten] : n \in 0..MaxPerResponse}]

TypeOK ==
  /\ entries \in [0..Capacity-1 -> 0..MaxWritten] /\ written \in 0..MaxWritten
  /\ boot \in 1..MaxBoots /\ bootId \in 0..MaxBoots
  /\ cursor \in 0..MaxWritten /\ shown \in 0..MaxWritten
  /\ missed \subseteq 1..MaxWritten /\ told \subseteq 1..MaxBoots /\ retold \in BOOLEAN
  /\ wire \in {None} \cup [kind : {"request"}, since : 0..MaxWritten] \cup Answers

\* "a client polls with the last seq it saw and never repeats or misses an entry; gap
\* tells it entries were evicted before it caught up" (web_handlers.cpp:1079): whatever is
\* logged or lost between a request and its answer, an answer of the boot the viewer shows
\* continues what was shown, in order and without a hole it does not announce.
ContinuesWhatWasShown ==
  LET ev == wire.events
  IN wire.kind = "answer" /\ bootId = wire.boot =>
       /\ wire.newest >= cursor
       /\ \A i \in 1..Len(ev)-1 : ev[i+1] = ev[i] + 1
       /\ ev # <<>> => /\ ev[1] > shown /\ ev[Len(ev)] = wire.newest
                       /\ wire.gap \/ ev[1] = shown + 1

\* The same, seen from the viewer: no number below the newest shown was passed over untold.
NothingMissedSilently == missed = {}

\* The display shows the newest entries of this boot in order.
DisplayIsARun ==
  \A i \in 1..Len(lines) : lines[i] = lines[1] + i - 1 /\ lines[i] \in 1..written

\* The two promises of the log, to the viewer and to the display.
LogReadsInOrder == ContinuesWhatWasShown /\ NothingMissedSilently /\ DisplayIsARun

\* "fetch the fresh log on the next tick" (web/stats.html:357): a restart is announced
\* once; the next answer of the same boot is shown.
RestartToldOnce == ~retold
=============================================================================
