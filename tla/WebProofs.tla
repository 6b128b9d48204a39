------------------------------ MODULE WebProofs ------------------------------
(***************************************************************************)
(* What the device promises over the network, for every value of the       *)
(* constants of its services: to whoever reads the log, connects to it or  *)
(* gives it a PIN, to whoever stores presets, and to the broker.           *)
(***************************************************************************)
EXTENDS ServicesProofs, FunctionTheorems
-----------------------------------------------------------------------------
(* The event log.                                                          *)

\* The slots hold the newest entries, each where its number says.
SlotsInv ==
  \A n \in Log!OldestSeq..written : entries[(n - 1) % Capacity] = n

\* The viewer has shown everything up to its cursor, which no answer of the device's present
\* boot is behind.
ViewerInv ==
  /\ cursor = logShown /\ missed = {} /\ bootId <= logBoot
  /\ bootId = 0 => cursor = 0
  /\ bootId = logBoot => cursor <= written

\* What an answer gives to a viewer that asks from a number the log has reached.
Continues(a, asked) ==
  LET ev == a.events
  IN /\ \A i \in 1..Len(ev)-1 : ev[i+1] = ev[i] + 1
     /\ ev # <<>> => /\ ev[1] > asked /\ ev[Len(ev)] = a.newest
                     /\ a.gap \/ ev[1] = asked + 1

\* Nothing moves the cursor while an exchange is in flight; an answer is no newer than the log
\* that gave it, and one the viewer will show continues what is shown.
WireInv ==
  /\ wire.kind = "request" => wire.since = cursor
  /\ wire.kind = "answer" =>
       /\ wire.boot <= logBoot
       /\ wire.boot = logBoot => wire.newest <= written
       /\ bootId \in {0, wire.boot} => cursor <= wire.newest /\ Continues(wire, cursor)

\* What every step of the log, its viewers and its display keeps.
LogInv ==
  /\ Log!TypeOK /\ lines \in Seq(1..MaxWritten)
  /\ SlotsInv /\ ViewerInv /\ WireInv /\ Log!DisplayIsARun

\* When the event log is in focus, a step is one of its own.
LEMMA LogMoves == Step /\ focus = "log" => [Log!Next]_logAll
BY Zenon DEF Step, ServicesNext, Rest, servicesVars

\* What the proofs about the log use of its constants.
LEMMA LogConstants ==
  /\ Capacity \in Nat \ {0} /\ MaxPerResponse \in 1..Capacity /\ OledLogLines \in 1..Capacity
  /\ MaxWritten \in Nat /\ MaxBoots \in Nat \ {0}
BY ServicesAssumption DEF Log!ConstantsOK

\* Two numbers less than a ring apart have different slots.
LEMMA SlotsDiffer ==
  ASSUME NEW c \in Nat \ {0}, NEW a \in Nat, NEW b \in Nat, a < b, b < a + c
  PROVE  a % c # b % c
<1>1. PICK p \in Nat : a = c * p + (a % c) BY Remainder, Zenon
<1>2. PICK q \in Nat : b = c * q + (b % c) BY Remainder, Zenon
<1>3. SUFFICES ASSUME a % c = b % c PROVE FALSE OBVIOUS
<1>4. PICK k \in Int : k = q - p BY <1>1, <1>2
<1>5. b - a = c * k
  <2>1. PICK r \in Nat : r = a % c BY Remainder
  <2>2. a = c * p + r /\ b = c * q + r BY <1>1, <1>2, <1>3, <2>1
  <2>3. c * k = c * q - c * p BY <1>4, SMTT(20)
  <2>4. QED BY <2>2, <2>3, SMTT(20)
<1>6. c * k < c /\ c * k > 0 BY <1>5
<1>7. CASE k <= 0
  <2>1. c * k <= 0 BY <1>7, SMTT(20)
  <2>2. QED BY <1>6, <2>1
<1>8. CASE k >= 1
  <2>1. c * k >= c BY <1>8, SMTT(20)
  <2>2. QED BY <1>6, <2>1
<1>9. QED BY <1>7, <1>8

\* What travels is what its kind says.
LEMMA WireKinds ==
  ASSUME Log!TypeOK
  PROVE  /\ wire.kind = "request" => wire.since \in 0..MaxWritten
         /\ wire.kind = "answer" =>
              /\ wire.boot \in 1..MaxBoots /\ wire.newest \in 0..MaxWritten
              /\ wire.gap \in BOOLEAN
              /\ \E n \in 0..MaxPerResponse : wire.events \in [1..n -> 1..MaxWritten]
<1>1. CASE wire = Log!None BY <1>1 DEF Log!None
<1>2. CASE wire \in [kind : {"request"}, since : 0..MaxWritten] BY <1>2
<1>3. CASE wire \in Log!Answers
  <2>1. /\ wire.kind = "answer" /\ wire.boot \in 1..MaxBoots /\ wire.newest \in 0..MaxWritten
        /\ wire.gap \in BOOLEAN
        /\ wire.events \in UNION {[1..n -> 1..MaxWritten] : n \in 0..MaxPerResponse}
    BY <1>3 DEF Log!Answers
  <2>2. QED BY <2>1, Zenon
<1>4. QED BY <1>1, <1>2, <1>3, Zenon DEF Log!TypeOK

\* A function on 1..n is a sequence of that length.
LEMMA RunIsASeq ==
  ASSUME NEW S, NEW n \in Nat, NEW f \in [1..n -> S]
  PROVE  f \in Seq(S) /\ Len(f) = n
<1>1. f \in Seq(S) BY SeqDef, Zenon
<1>2. Len(f) \in Nat /\ DOMAIN f = 1..Len(f) BY <1>1, LenProperties
<1>3. DOMAIN f = 1..n OBVIOUS
<1>4. Len(f) = n
  <2> DEFINE m == Len(f)
  <2>1. m \in Nat /\ 1..m = 1..n BY <1>2, <1>3
  <2> HIDE DEF m
  <2>2. m <= n BY <2>1
  <2>3. n <= m BY <2>1
  <2>4. m = n BY <2>1, <2>2, <2>3
  <2>5. QED BY <2>4 DEF m
<1>5. QED BY <1>1, <1>4

\* The entries newer than a number that the log has reached, read from the ring, are the
\* numbers from the first of them to the newest.
LEMMA RunOfEntries ==
  ASSUME Log!TypeOK, SlotsInv, NEW asked \in 0..written, NEW run,
         run = [i \in 1..Log!CountSince(asked) |-> Log!EntryAt(asked, i - 1)]
  PROVE  /\ Log!CountSince(asked) \in Nat /\ Log!From(asked) \in Nat
         /\ Log!From(asked) > asked /\ Log!From(asked) >= Log!OldestSeq
         /\ asked < written => /\ Log!CountSince(asked) > 0
                               /\ Log!From(asked) + Log!CountSince(asked) - 1 = written
         /\ asked = written => Log!CountSince(asked) = 0
         /\ run \in [1..Log!CountSince(asked) -> 1..MaxWritten]
         /\ \A i \in 1..Log!CountSince(asked) : run[i] = Log!From(asked) + i - 1
<1> USE LogConstants DEF Log!TypeOK
<1> DEFINE from == Log!From(asked)
           n == Log!CountSince(asked)
<1>1. Log!OldestSeq \in Nat /\ Log!OldestSeq >= 1 /\ (written > 0 => Log!OldestSeq <= written)
  BY DEF Log!OldestSeq
<1>2. from \in Nat /\ from > asked /\ from >= Log!OldestSeq /\ from >= 1
  BY <1>1 DEF Log!From
<1>3. asked < written => from <= written BY <1>1 DEF Log!From
<1>4. n = IF asked >= written THEN 0 ELSE written - from + 1
  BY DEF Log!CountSince, Log!Newest
<1>5. /\ n \in Nat /\ (asked < written => n > 0 /\ from + n - 1 = written)
      /\ (asked = written => n = 0)
  BY <1>2, <1>3, <1>4
<1> HIDE DEF from, n
<1>6. ASSUME NEW i \in 1..n
      PROVE  Log!EntryAt(asked, i - 1) = from + i - 1 /\ from + i - 1 \in 1..MaxWritten
  <2>1. asked < written BY <1>5
  <2>2. from + i - 1 \in Log!OldestSeq..written /\ from + i - 1 \in 1..MaxWritten
    BY <1>1, <1>2, <1>5, <2>1
  <2>3. PICK m \in Log!OldestSeq..written : m = from + i - 1 BY <2>2
  <2>4. entries[(m - 1) % Capacity] = m BY <2>3, Zenon DEF SlotsInv
  <2>x. m - 1 = from + (i - 1) - 1 BY <1>2, <1>5, <2>3
  <2>5. Log!EntryAt(asked, i - 1) = entries[(from + (i - 1) - 1) % Capacity]
    BY Zenon DEF Log!EntryAt, from
  <2>6. QED BY <2>2, <2>3, <2>4, <2>5, <2>x, Zenon
<1>7. run = [i \in 1..n |-> Log!EntryAt(asked, i - 1)] BY DEF n
<1>8. run \in [1..n -> 1..MaxWritten] /\ \A i \in 1..n : run[i] = from + i - 1
  BY <1>6, <1>7
<1>9. QED BY <1>2, <1>5, <1>8 DEF from, n

\* An answer is a run of entries that ends with the newest, no longer than its limit, and it
\* says so when the run does not begin right after the number asked from.
LEMMA AnswerContinues ==
  ASSUME Log!TypeOK, SlotsInv, NEW asked \in 0..MaxWritten, NEW a, a = Log!Answer(asked)
  PROVE  /\ a \in Log!Answers /\ a.kind = "answer" /\ a.boot = logBoot /\ a.newest = written
         /\ asked <= written => Continues(a, asked)
<1> USE LogConstants
<1> DEFINE n == Log!CountSince(asked)
           start == IF n > MaxPerResponse THEN written - MaxPerResponse ELSE asked
           len == Log!CountSince(start)
           ev == [i \in 1..len |-> Log!EntryAt(start, i - 1)]
           gap == Log!GapSince(asked) \/ n > MaxPerResponse
<1>1. a = [kind |-> "answer", boot |-> logBoot, newest |-> written, gap |-> gap, events |-> ev]
  BY Zenon DEF Log!Answer, Log!Newest
<1>2. logBoot \in 1..MaxBoots /\ written \in 0..MaxWritten BY DEF Log!TypeOK
<1>3. gap \in BOOLEAN BY <1>2 DEF Log!GapSince, Log!OldestSeq
<1> HIDE DEF gap
<1>4. SUFFICES /\ len \in 0..MaxPerResponse /\ ev \in [1..len -> 1..MaxWritten]
               /\ asked <= written =>
                    /\ \A i \in 1..len : ev[i] = Log!From(start) + i - 1
                    /\ len > 0 => /\ Log!From(start) + len - 1 = written
                                  /\ Log!From(start) > asked
                    /\ gap \/ Log!From(start) = asked + 1
                    /\ Log!From(start) \in Nat
  <2> HIDE DEF ev, len, start, n
  <2>1. ev \in Seq(1..MaxWritten) /\ Len(ev) = len BY <1>4, RunIsASeq
  <2> DEFINE Runs == UNION {[1..m -> 1..MaxWritten] : m \in 0..MaxPerResponse}
  <2>2. ev \in Runs BY <1>4, Zenon
  <2>3. Log!Answers = [kind : {"answer"}, boot : 1..MaxBoots, newest : 0..MaxWritten,
                       gap : BOOLEAN, events : Runs]
    BY Zenon DEF Log!Answers
  <2> HIDE DEF Runs
  <2>4. /\ a.kind = "answer" /\ a.boot = logBoot /\ a.newest = written /\ a.events = ev
        /\ gap => a.gap = TRUE
        /\ a \in Log!Answers
    <3>1. CASE gap
      <4>1. gap = TRUE BY <1>3, <3>1, Zenon
      <4>2. a = [kind |-> "answer", boot |-> logBoot, newest |-> written, gap |-> TRUE,
                 events |-> ev]
        BY <1>1, <4>1, Zenon
      <4>3. QED BY <4>2, <1>2, <2>2, <2>3
    <3>2. CASE ~gap
      <4>1. gap = FALSE BY <1>3, <3>2, Zenon
      <4>2. a = [kind |-> "answer", boot |-> logBoot, newest |-> written, gap |-> FALSE,
                 events |-> ev]
        BY <1>1, <4>1, Zenon
      <4>3. /\ a.kind = "answer" /\ a.boot = logBoot /\ a.newest = written /\ a.events = ev
            /\ a \in Log!Answers
        BY <4>2, <1>2, <2>2, <2>3
      <4>4. QED BY <3>2, <4>3, Zenon
    <3>3. QED BY <3>1, <3>2
  <2>5. ASSUME asked <= written PROVE Continues(a, asked)
    <3>1. \A i \in 1..len-1 : ev[i+1] = ev[i] + 1 BY <1>4, <2>5
    <3>2. ASSUME ev # <<>>
          PROVE  ev[1] > asked /\ ev[len] = written /\ (gap \/ ev[1] = asked + 1)
      <4>1. len > 0 BY <2>1, <3>2, EmptySeq, <1>4
      <4>2. ev[1] = Log!From(start) /\ ev[len] = written BY <1>4, <2>5, <4>1
      <4>3. Log!From(start) > asked BY <1>4, <2>5, <4>1
      <4>4. gap \/ Log!From(start) = asked + 1 BY <1>4, <2>5, Zenon
      <4>5. QED BY <4>2, <4>3, <4>4, Zenon
    <3>3. Len(a.events) = len /\ a.events = ev /\ a.newest = written BY <2>1, <2>4, Zenon
    <3>4. gap => a.gap BY <2>4, Zenon
    <3>5. \A i \in 1..Len(a.events)-1 : a.events[i+1] = a.events[i] + 1
      BY <3>1, <3>3, Zenon
    <3>6. ASSUME a.events # <<>>
          PROVE  /\ a.events[1] > asked /\ a.events[Len(a.events)] = a.newest
                 /\ a.gap \/ a.events[1] = asked + 1
      BY <3>2, <3>3, <3>4, <3>6, Zenon
    <3>7. QED BY <3>5, <3>6, Zenon DEF Continues
  <2>6. QED BY <2>4, <2>5, Zenon
<1>5. CASE asked > written
  <2>1. n = 0 BY <1>2, <1>5 DEF Log!CountSince, Log!Newest
  <2>2. start = asked BY <2>1
  <2>3. len = 0 BY <2>1, <2>2
  <2>4. ev \in [1..len -> 1..MaxWritten] BY <2>3
  <2>5. QED BY <1>2, <1>5, <2>3, <2>4
<1>6. CASE asked <= written
  <2>1. asked \in 0..written BY <1>2, <1>6
  <2>2. /\ n \in Nat /\ Log!From(asked) \in Nat /\ Log!From(asked) > asked
        /\ asked < written => n > 0 /\ Log!From(asked) + n - 1 = written
        /\ asked = written => n = 0
    BY <2>1, RunOfEntries
  <2> HIDE DEF n
  <2>3. /\ start \in 0..written /\ start >= asked
        /\ start = written => asked = written
        /\ n > MaxPerResponse => start = written - MaxPerResponse
    <3>1. CASE n > MaxPerResponse
      <4>1. start = written - MaxPerResponse BY <3>1
      <4>2. asked < written BY <1>2, <2>1, <2>2, <3>1
      <4>3. Log!From(asked) + n - 1 = written BY <2>2, <4>2
      <4> HIDE DEF start
      <4>4. QED BY <1>2, <2>1, <2>2, <3>1, <4>1, <4>2, <4>3
    <3>2. CASE ~(n > MaxPerResponse)
      <4>1. start = asked BY <3>2
      <4> HIDE DEF start
      <4>2. QED BY <2>1, <3>2, <4>1
    <3>3. QED BY <3>1, <3>2
  <2>4. /\ len \in Nat /\ Log!From(start) \in Nat /\ Log!From(start) > start
        /\ start < written => len > 0 /\ Log!From(start) + len - 1 = written
        /\ start = written => len = 0
        /\ ev \in [1..len -> 1..MaxWritten]
        /\ \A i \in 1..len : ev[i] = Log!From(start) + i - 1
    <3> HIDE DEF start
    <3>1. ev = [i \in 1..Log!CountSince(start) |-> Log!EntryAt(start, i - 1)] OBVIOUS
    <3> HIDE DEF ev
    <3>2. QED BY <2>3, <3>1, RunOfEntries
  <2> HIDE DEF len, ev
  <2>5. len \in 0..MaxPerResponse
    <3>1. CASE n > MaxPerResponse BY <1>2, <2>2, <2>3, <2>4, <3>1
    <3>2. CASE ~(n > MaxPerResponse)
      <4>1. start = asked BY <3>2
      <4>2. len = n BY <4>1 DEF len, n
      <4>3. QED BY <2>2, <3>2, <4>2
    <3>3. QED BY <3>1, <3>2
  <2>6. gap \/ Log!From(start) = asked + 1
    <3>1. SUFFICES ASSUME ~gap PROVE Log!From(start) = asked + 1 BY Zenon
    <3>2. ~Log!GapSince(asked) /\ ~(n > MaxPerResponse) BY <3>1, Zenon DEF gap
    <3>3. start = asked BY <3>2
    <3>4. Log!OldestSeq \in Nat BY <1>2 DEF Log!OldestSeq
    <3>5. asked >= Log!OldestSeq - 1 BY <3>2, <3>4 DEF Log!GapSince
    <3>6. Log!From(asked) = asked + 1 BY <3>4, <3>5 DEF Log!From
    <3>7. QED BY <3>3, <3>6
  <2>7. Log!From(start) > asked BY <2>1, <2>3, <2>4
  <2>8. len > 0 => Log!From(start) + len - 1 = written BY <1>2, <2>3, <2>4
  <2>9. QED BY <2>4, <2>5, <2>6, <2>7, <2>8, Zenon
<1>7. QED BY <1>2, <1>5, <1>6

\* At the first boot the log is empty and nothing is shown.
LEMMA LogStarts == Log!Init => LogInv
<1> SUFFICES ASSUME Log!Init PROVE LogInv OBVIOUS
<1> USE LogConstants DEF Log!Init
<1>1. wire.kind = "none" BY DEF Log!None
<1>2. Log!TypeOK
  <2>1. retold \in BOOLEAN BY Zenon
  <2>2. wire \in {Log!None} \cup [kind : {"request"}, since : 0..MaxWritten] \cup Log!Answers
    BY Zenon
  <2>3. /\ entries \in [0..Capacity-1 -> 0..MaxWritten] /\ written \in 0..MaxWritten
        /\ logBoot \in 1..MaxBoots /\ bootId \in 0..MaxBoots
        /\ cursor \in 0..MaxWritten /\ logShown \in 0..MaxWritten
        /\ missed \subseteq 1..MaxWritten /\ logTold \subseteq 1..MaxBoots
    OBVIOUS
  <2>4. QED BY <2>1, <2>2, <2>3, Zenon DEF Log!TypeOK
<1>3. lines \in Seq(1..MaxWritten) /\ Len(lines) = 0 BY EmptySeq
<1>4. SlotsInv BY DEF SlotsInv, Log!OldestSeq
<1>5. ViewerInv /\ WireInv BY <1>1 DEF ViewerInv, WireInv
<1>6. Log!DisplayIsARun BY <1>3 DEF Log!DisplayIsARun
<1>7. QED BY <1>2, <1>3, <1>4, <1>5, <1>6 DEF LogInv

\* What a step must show when it leaves the ring and the display alone.
LEMMA RingRests ==
  ASSUME LogInv, UNCHANGED <<entries, written, logBoot, lines>>
  PROVE  /\ lines' \in Seq(1..MaxWritten) /\ SlotsInv' /\ Log!DisplayIsARun'
         /\ entries' \in [0..Capacity-1 -> 0..MaxWritten] /\ written' \in 0..MaxWritten
         /\ logBoot' \in 1..MaxBoots
BY Zenon DEF LogInv, Log!TypeOK, SlotsInv, Log!OldestSeq, Log!DisplayIsARun

\* A viewer and an exchange that stay as they are.
LEMMA ViewerRests ==
  ASSUME LogInv, UNCHANGED <<cursor, bootId, missed, logShown, logTold, retold, wire>>
  PROVE  /\ bootId' \in 0..MaxBoots /\ cursor' \in 0..MaxWritten /\ logShown' \in 0..MaxWritten
         /\ missed' \subseteq 1..MaxWritten /\ logTold' \subseteq 1..MaxBoots
         /\ retold' \in BOOLEAN
         /\ wire' \in {Log!None} \cup [kind : {"request"}, since : 0..MaxWritten]
                        \cup Log!Answers
BY Zenon DEF LogInv, Log!TypeOK

\* Writing an entry moves the oldest on and keeps every slot.
LEMMA SlotsStep ==
  ASSUME Log!TypeOK, SlotsInv, written' = written + 1,
         entries' = [entries EXCEPT ![written % Capacity] = written + 1]
  PROVE  SlotsInv'
<1> USE LogConstants DEF Log!TypeOK
<1>1. SUFFICES ASSUME NEW n \in Log!OldestSeq'..written' PROVE entries'[(n - 1) % Capacity] = n
  BY Zenon DEF SlotsInv
<1>2. /\ n \in Nat /\ n >= 1 /\ n <= written + 1 /\ n > written + 1 - Capacity
      /\ n <= written => n \in Log!OldestSeq..written
  BY <1>1 DEF Log!OldestSeq
<1>3. written % Capacity \in 0..Capacity-1 /\ (n - 1) % Capacity \in 0..Capacity-1
  <2>1. n - 1 \in Nat /\ written \in Nat /\ Capacity \in Nat \ {0} BY <1>2
  <2>2. QED BY <2>1, Remainder, Zenon
<1>4. CASE n = written + 1
  <2>1. n - 1 = written BY <1>4
  <2>2. entries'[written % Capacity] = written + 1 BY <1>3
  <2>3. QED BY <1>4, <2>1, <2>2
<1>5. CASE n <= written
  <2>1. PICK a \in Nat : a = n - 1 BY <1>2
  <2>2. a < written /\ written < a + Capacity BY <1>2, <1>5, <2>1
  <2>3. a % Capacity # written % Capacity
    <3>1. written \in Nat /\ Capacity \in Nat \ {0} BY <1>2
    <3>2. QED BY <2>2, <3>1, SlotsDiffer, Zenon
  <2>4. entries'[a % Capacity] = entries[a % Capacity] BY <1>3, <2>1, <2>3
  <2>5. entries[(n - 1) % Capacity] = n BY <1>2, <1>5 DEF SlotsInv
  <2>6. QED BY <2>1, <2>4, <2>5
<1>6. QED BY <1>2, <1>4, <1>5

\* Every step of the log, the device, the wire and the viewer keeps the invariant.
LEMMA LogStep == LogInv /\ [Log!Next]_logAll => LogInv'
<1> SUFFICES ASSUME LogInv, [Log!Next]_logAll PROVE LogInv' OBVIOUS
<1> USE LogConstants
<1>a. Log!None.kind = "none" BY DEF Log!None
<1>b. /\ entries \in [0..Capacity-1 -> 0..MaxWritten] /\ written \in 0..MaxWritten
      /\ logBoot \in 1..MaxBoots /\ bootId \in 0..MaxBoots
      /\ cursor \in 0..MaxWritten /\ logShown \in 0..MaxWritten
      /\ missed \subseteq 1..MaxWritten /\ logTold \subseteq 1..MaxBoots
  BY Zenon DEF LogInv, Log!TypeOK
<1>c. /\ wire.kind = "request" => wire.since \in 0..MaxWritten
      /\ wire.kind = "answer" =>
           /\ wire.boot \in 1..MaxBoots /\ wire.newest \in 0..MaxWritten
           /\ wire.gap \in BOOLEAN
           /\ \E n \in 0..MaxPerResponse : wire.events \in [1..n -> 1..MaxWritten]
  BY WireKinds, Zenon DEF LogInv
<1>d. ViewerInv /\ WireInv /\ Log!TypeOK /\ SlotsInv BY DEF LogInv
<1>e. SUFFICES
        /\ entries' \in [0..Capacity-1 -> 0..MaxWritten] /\ written' \in 0..MaxWritten
        /\ logBoot' \in 1..MaxBoots
        /\ bootId' \in 0..MaxBoots /\ cursor' \in 0..MaxWritten /\ logShown' \in 0..MaxWritten
        /\ missed' \subseteq 1..MaxWritten /\ logTold' \subseteq 1..MaxBoots
        /\ retold' \in BOOLEAN
        /\ wire' \in {Log!None} \cup [kind : {"request"}, since : 0..MaxWritten]
                       \cup Log!Answers
        /\ lines' \in Seq(1..MaxWritten)
        /\ SlotsInv' /\ ViewerInv' /\ WireInv'
        /\ Log!DisplayIsARun'
  BY Zenon DEF LogInv, Log!TypeOK
<1>1. CASE UNCHANGED logAll
  <2>1. /\ UNCHANGED <<entries, written, logBoot, lines>>
        /\ UNCHANGED <<cursor, bootId, missed, logShown, logTold, retold, wire>>
    BY <1>1, Zenon DEF logAll
  <2>2. ViewerInv' /\ WireInv' BY <1>d, <2>1, Zenon DEF ViewerInv, WireInv
  <2>3. QED BY <2>1, <2>2, RingRests, ViewerRests
<1>2. CASE Log!Record
  <2>1. /\ written < MaxWritten /\ written' = written + 1
        /\ entries' = [entries EXCEPT ![written % Capacity] = written + 1]
        /\ UNCHANGED <<logBoot, lines>>
        /\ UNCHANGED <<cursor, bootId, missed, logShown, logTold, retold, wire>>
    BY <1>2, Zenon DEF Log!Record, Log!viewerVars
  <2>2. entries' \in [0..Capacity-1 -> 0..MaxWritten] /\ written' \in 0..MaxWritten
        /\ written' >= written
    BY <1>b, <2>1
  <2>3. SlotsInv' BY <1>d, <2>1, SlotsStep
  <2>4. ViewerInv' /\ WireInv' BY <1>b, <1>c, <1>d, <2>1 DEF ViewerInv, WireInv
  <2>5. lines' \in Seq(1..MaxWritten) /\ Log!DisplayIsARun'
    <3>1. lines \in Seq(1..MaxWritten) /\ Log!DisplayIsARun BY DEF LogInv
    <3>2. \A i \in 1..Len(lines) : lines[i] = lines[1] + i - 1 /\ lines[i] \in 1..written
      BY <3>1, Zenon DEF Log!DisplayIsARun
    <3>3. \A x \in 1..written : x \in 1..written' BY <1>b, <2>1
    <3>4. QED BY <2>1, <3>1, <3>2, <3>3, Zenon DEF Log!DisplayIsARun
  <2>6. QED BY <1>b, <2>1, <2>2, <2>3, <2>4, <2>5, ViewerRests
<1>3. CASE Log!FlushDisplay
  <2> DEFINE asked == IF written > OledLogLines THEN written - OledLogLines ELSE 0
             run == [i \in 1..Log!CountSince(asked) |-> Log!EntryAt(asked, i - 1)]
  <2>1. /\ lines' = run /\ UNCHANGED <<entries, written, logBoot>>
        /\ UNCHANGED <<cursor, bootId, missed, logShown, logTold, retold, wire>>
    BY <1>3, Zenon DEF Log!FlushDisplay, Log!viewerVars, Log!Newest
  <2>2. asked \in 0..written BY <1>b
  <2>3. /\ Log!CountSince(asked) \in Nat /\ Log!From(asked) \in Nat
        /\ asked < written => Log!From(asked) + Log!CountSince(asked) - 1 = written
        /\ asked = written => Log!CountSince(asked) = 0
        /\ Log!From(asked) > asked
        /\ run \in [1..Log!CountSince(asked) -> 1..MaxWritten]
        /\ \A i \in 1..Log!CountSince(asked) : run[i] = Log!From(asked) + i - 1
    <3> HIDE DEF asked
    <3>1. run = [i \in 1..Log!CountSince(asked) |-> Log!EntryAt(asked, i - 1)] OBVIOUS
    <3> HIDE DEF run
    <3>2. QED BY <1>d, <2>2, <3>1, RunOfEntries
  <2> HIDE DEF run, asked
  <2>4. lines' \in Seq(1..MaxWritten) /\ Len(lines') = Log!CountSince(asked)
    BY <2>1, <2>3, RunIsASeq
  <2>5. Log!DisplayIsARun'
    <3>1. SUFFICES ASSUME NEW i \in 1..Log!CountSince(asked)
                   PROVE  run[i] = run[1] + i - 1 /\ run[i] \in 1..written
      BY <2>1, <2>4, Zenon DEF Log!DisplayIsARun
    <3>2. run[1] = Log!From(asked) /\ run[i] = Log!From(asked) + i - 1 BY <2>3
    <3>3. asked < written
      <4>1. Log!CountSince(asked) # 0 BY <2>3, <3>1
      <4>2. asked # written BY <2>3, <4>1, Zenon
      <4>3. QED BY <1>b, <2>2, <4>2
    <3>4. QED BY <1>b, <2>2, <2>3, <3>2, <3>3
  <2>6. SlotsInv' /\ ViewerInv' /\ WireInv'
    BY <1>d, <2>1, Zenon DEF SlotsInv, Log!OldestSeq, ViewerInv, WireInv
  <2>7. QED BY <1>b, <2>1, <2>4, <2>5, <2>6, ViewerRests
<1>4. CASE Log!Restart
  <2>1. /\ logBoot < MaxBoots /\ logBoot' = logBoot + 1
        /\ entries' = [i \in 0..Capacity-1 |-> 0] /\ written' = 0 /\ lines' = <<>>
        /\ UNCHANGED <<cursor, bootId, missed, logShown, logTold, retold, wire>>
    BY <1>4, Zenon DEF Log!Restart, Log!viewerVars
  <2>2. lines' \in Seq(1..MaxWritten) /\ Len(lines') = 0 BY <2>1, EmptySeq
  <2>3. Log!DisplayIsARun' BY <2>2 DEF Log!DisplayIsARun
  <2>4. SlotsInv' BY <2>1 DEF SlotsInv, Log!OldestSeq
  <2>5. ViewerInv' BY <1>b, <1>d, <2>1 DEF ViewerInv
  <2>6. WireInv' BY <1>b, <1>c, <1>d, <2>1 DEF WireInv
  <2>7. entries' \in [0..Capacity-1 -> 0..MaxWritten] /\ written' \in 0..MaxWritten
        /\ logBoot' \in 1..MaxBoots
    BY <1>b, <2>1
  <2>8. QED BY <2>1, <2>2, <2>3, <2>4, <2>5, <2>6, <2>7, ViewerRests
<1>5. CASE Log!PollLog
  <2>1. /\ wire' = [kind |-> "request", since |-> cursor]
        /\ UNCHANGED <<entries, written, logBoot, lines>>
        /\ UNCHANGED <<cursor, bootId, missed, logShown, logTold, retold>>
    BY <1>5, Zenon DEF Log!PollLog, Log!viewerVars, Log!logVars
  <2>2. wire'.kind = "request" /\ wire'.since = cursor
        /\ wire' \in [kind : {"request"}, since : 0..MaxWritten]
    BY <1>b, <2>1
  <2>3. ViewerInv'
    BY <1>d, <2>1, Zenon DEF ViewerInv
  <2>4. WireInv'
    BY <2>1, <2>2 DEF WireInv
  <2>5. retold' \in BOOLEAN BY <2>1, Zenon DEF LogInv, Log!TypeOK
  <2>6. QED BY <1>b, <2>1, <2>2, <2>3, <2>4, <2>5, RingRests
<1>6. CASE Log!Serve
  <2>1. /\ wire.kind = "request" /\ wire' = Log!Answer(wire.since)
        /\ UNCHANGED <<entries, written, logBoot, lines>>
        /\ UNCHANGED <<cursor, bootId, missed, logShown, logTold, retold>>
    BY <1>6, Zenon DEF Log!Serve, Log!viewerVars, Log!logVars
  <2>2. wire.since = cursor /\ cursor \in 0..MaxWritten BY <1>b, <1>d, <2>1 DEF WireInv
  <2>3. /\ wire' \in Log!Answers /\ wire'.kind = "answer" /\ wire'.boot = logBoot
        /\ wire'.newest = written /\ (cursor <= written => Continues(wire', cursor))
    BY <1>d, <2>1, <2>2, AnswerContinues
  <2>4. ViewerInv'
    BY <1>d, <2>1, Zenon DEF ViewerInv
  <2>5. bootId \in {0, logBoot} => cursor <= written
    BY <1>b, <1>d DEF ViewerInv
  <2>6. WireInv'
    <3>1. wire'.kind # "request" /\ (wire'.boot = logBoot => wire'.newest <= written)
          /\ wire'.boot <= logBoot
      BY <1>b, <2>3
    <3>2. bootId \in {0, wire'.boot} => cursor <= wire'.newest /\ Continues(wire', cursor)
      BY <2>3, <2>5, Zenon
    <3>3. QED BY <2>1, <3>1, <3>2, Zenon DEF WireInv, Continues
  <2>7. retold' \in BOOLEAN BY <2>1, Zenon DEF LogInv, Log!TypeOK
  <2>8. QED BY <1>b, <2>1, <2>3, <2>4, <2>5, <2>6, <2>7, RingRests
<1>7. CASE Log!Lose
  <2>1. /\ wire' = Log!None
        /\ UNCHANGED <<entries, written, logBoot, lines>>
        /\ UNCHANGED <<cursor, bootId, missed, logShown, logTold, retold>>
    BY <1>7, Zenon DEF Log!Lose, Log!viewerVars, Log!logVars
  <2>2. ViewerInv'
    BY <1>d, <2>1, Zenon DEF ViewerInv
  <2>3. WireInv'
    BY <1>a, <2>1 DEF WireInv
  <2>4. retold' \in BOOLEAN BY <2>1, Zenon DEF LogInv, Log!TypeOK
  <2>5. QED BY <1>b, <2>1, <2>2, <2>3, <2>4, RingRests
<1>8. CASE Log!ShowRestart
  <2>1. /\ wire.kind = "answer" /\ bootId # 0 /\ wire' = Log!None
        /\ cursor' = 0 /\ missed' = {} /\ logShown' = 0
        /\ logTold' = logTold \cup {wire.boot}
        /\ retold' = (retold \/ wire.boot \in logTold)
        /\ UNCHANGED <<entries, written, logBoot, lines>> /\ bootId' = bootId
    BY <1>8, Zenon DEF Log!ShowRestart, Log!logVars
  <2>2. ViewerInv'
    BY <1>b, <1>d, <2>1 DEF ViewerInv
  <2>3. WireInv'
    BY <1>a, <2>1 DEF WireInv
  <2>4. retold' \in BOOLEAN BY <2>1, Zenon
  <2>5. logTold' \subseteq 1..MaxBoots BY <1>b, <1>c, <2>1
  <2>6. QED BY <1>b, <2>1, <2>2, <2>3, <2>4, <2>5, RingRests
<1>9. CASE Log!ShowEvents
  <2> DEFINE ev == wire.events
  <2>1. /\ wire.kind = "answer" /\ bootId \in {0, wire.boot} /\ wire' = Log!None
        /\ bootId' = wire.boot
        /\ IF ev = <<>> THEN UNCHANGED <<cursor, missed, logShown>>
           ELSE /\ cursor' = ev[Len(ev)] /\ logShown' = ev[Len(ev)]
                /\ missed' = IF wire.gap THEN missed ELSE missed \cup (logShown+1)..(ev[1]-1)
        /\ UNCHANGED <<entries, written, logBoot, lines>> /\ UNCHANGED <<logTold, retold>>
    BY <1>9, Zenon DEF Log!ShowEvents, Log!logVars
  <2>2. /\ logShown = cursor /\ missed = {} /\ (bootId = logBoot => cursor <= written)
        /\ (bootId = 0 => cursor = 0)
        /\ wire.boot <= logBoot /\ (wire.boot = logBoot => wire.newest <= written)
    BY <1>d, <2>1 DEF ViewerInv, WireInv
  <2>3. Continues(wire, cursor) BY <1>d, <2>1, Zenon DEF WireInv
  <2>4. PICK n \in 0..MaxPerResponse : ev \in [1..n -> 1..MaxWritten] BY <1>c, <2>1, Zenon
  <2>5. ev \in Seq(1..MaxWritten) /\ Len(ev) = n BY <2>4, RunIsASeq
  <2>6. /\ cursor' \in 0..MaxWritten /\ logShown' = cursor' /\ missed' = {}
        /\ wire.boot = logBoot => cursor' <= written
    <3>1. CASE ev = <<>>
      <4>1. cursor' = cursor /\ missed' = missed /\ logShown' = logShown BY <2>1, <3>1, Zenon
      <4>2. wire.boot = logBoot => cursor <= written BY <1>b, <2>1, <2>2
      <4>3. QED BY <1>b, <2>2, <4>1, <4>2
    <3>2. CASE ev # <<>>
      <4>1. n # 0 BY <2>5, <3>2, EmptySeq
      <4>2. cursor' = ev[n] /\ logShown' = ev[n]
            /\ missed' = IF wire.gap THEN missed ELSE missed \cup (logShown+1)..(ev[1]-1)
        BY <2>1, <2>5, <3>2, Zenon
      <4>3. ev[n] = wire.newest /\ (wire.gap \/ ev[1] = cursor + 1)
        BY <2>3, <2>5, <3>2, Zenon DEF Continues
      <4>4. ev[n] \in 1..MaxWritten BY <2>4, <4>1
      <4>5. missed' = {}
        <5>1. CASE wire.gap BY <2>2, <4>2, <5>1, Zenon
        <5>2. CASE ~wire.gap
          <6>1. missed' = missed \cup (logShown+1)..(ev[1]-1) BY <4>2, <5>2, Zenon
          <6>2. ev[1] = cursor + 1 BY <4>3, <5>2, Zenon
          <6>3. QED BY <1>b, <2>2, <6>1, <6>2
        <5>3. QED BY <5>1, <5>2
      <4>6. cursor' \in 0..MaxWritten BY <4>2, <4>4
      <4>7. wire.boot = logBoot => cursor' <= written BY <2>2, <4>2, <4>3, Zenon
      <4>8. QED BY <4>2, <4>5, <4>6, <4>7, Zenon
    <3>3. QED BY <3>1, <3>2
  <2>7. bootId' \in 1..MaxBoots /\ bootId' <= logBoot /\ (bootId' = logBoot => cursor' <= written)
    BY <1>c, <2>1, <2>2, <2>6
  <2>8. ViewerInv' BY <2>1, <2>6, <2>7 DEF ViewerInv
  <2>9. WireInv' BY <1>a, <2>1 DEF WireInv
  <2>10. retold' \in BOOLEAN BY <2>1, Zenon DEF LogInv, Log!TypeOK
  <2>11. QED BY <1>b, <2>1, <2>6, <2>7, <2>8, <2>9, <2>10, RingRests
<1>10. CASE Log!ReloadPage
  <2>1. /\ wire.kind = "none" /\ wire' = wire /\ cursor' = 0 /\ bootId' = 0 /\ missed' = {}
        /\ logShown' = 0 /\ logTold' = {} /\ retold' = FALSE
        /\ UNCHANGED <<entries, written, logBoot, lines>>
    BY <1>10, Zenon DEF Log!ReloadPage, Log!logVars
  <2>2. ViewerInv'
    BY <1>b, <2>1 DEF ViewerInv
  <2>3. WireInv'
    BY <2>1 DEF WireInv
  <2>4. wire' \in {Log!None} \cup [kind : {"request"}, since : 0..MaxWritten]
                    \cup Log!Answers
    BY <2>1, Zenon DEF LogInv, Log!TypeOK
  <2>5. retold' \in BOOLEAN BY <2>1, Zenon
  <2>6. QED BY <1>b, <2>1, <2>2, <2>3, <2>4, <2>5, RingRests
<1>11. QED
  BY <1>1, <1>2, <1>3, <1>4, <1>5, <1>6, <1>7, <1>8, <1>9, <1>10, Zenon DEF Log!Next

\* Whatever is logged, lost, restarted or reloaded between a poll and its answer, the viewer
\* reads on without a hole it is not told of, and the display shows the newest entries in order
\* (api_log, flushDisplay, web/stats.html).
THEOREM LogStaysInOrder == ServicesSpec => []LogReadsInOrder
<1> DEFINE Inv == focus = "log" => LogInv
<1>1. ServicesInit => Inv BY LogStarts, Zenon DEF ServicesInit
<1>2. Inv /\ Step => Inv' BY FocusStays, LogMoves, LogStep, Zenon
<1>3. LogInv => Log!TypeOK /\ Log!LogReadsInOrder
  <2> SUFFICES ASSUME LogInv PROVE Log!ContinuesWhatWasShown
    BY Zenon DEF LogInv, ViewerInv, Log!LogReadsInOrder, Log!NothingMissedSilently
  <2>1. SUFFICES ASSUME wire.kind = "answer", bootId = wire.boot
                 PROVE  wire.newest >= logShown /\ Continues(wire, logShown)
    BY Zenon DEF Log!ContinuesWhatWasShown, Continues, LogInv, ViewerInv
  <2>2. cursor = logShown /\ cursor <= wire.newest /\ Continues(wire, cursor)
    BY <2>1, Zenon DEF LogInv, ViewerInv, WireInv
  <2>3. wire.newest >= cursor
    BY <2>1, <2>2, WireKinds DEF LogInv, Log!TypeOK
  <2>4. QED BY <2>2, <2>3, Zenon
<1>4. Inv => LogReadsInOrder BY <1>3, Zenon DEF LogReadsInOrder
<1> HIDE DEF Inv
<1>5. QED BY <1>1, <1>2, <1>4, PTL DEF ServicesSpec, Step

-----------------------------------------------------------------------------
\* And a largest one.
LEMMA Largest ==
  ASSUME NEW n \in Nat, NEW T \in SUBSET (1..n), T # {}
  PROVE  \E x \in T : \A y \in T : y <= x
<1> DEFINE R == {x \in 1..n : n + 1 - x \in T}
<1>1. R # {}
  <2>1. PICK t \in T : TRUE OBVIOUS
  <2>2. n + 1 - t \in 1..n /\ n + 1 - (n + 1 - t) = t OBVIOUS
  <2>3. QED BY <2>1, <2>2
<1>2. R \in SUBSET (1..n) OBVIOUS
<1>3. PICK x \in R : \A y \in R : x <= y
  <2> HIDE DEF R
  <2>1. QED BY <1>1, <1>2, Smallest, Zenon
<1>4. n + 1 - x \in T OBVIOUS
<1>5. ASSUME NEW y \in T PROVE y <= n + 1 - x
  <2>1. n + 1 - y \in 1..n /\ n + 1 - (n + 1 - y) = y OBVIOUS
  <2>2. n + 1 - y \in R BY <2>1
  <2>3. x <= n + 1 - y BY <1>3, <2>2
  <2>4. QED BY <2>3
<1>6. QED BY <1>4, <1>5

-----------------------------------------------------------------------------
(* The write PIN.                                                          *)

\* The entry of the table is one of p's.
Mine(i, p) == authPeers[i].used /\ authPeers[i].ip = p

\* A block that was begun is in its peer's entry, and the entry of a peer that never gave a
\* wrong PIN holds none.
BlockInv ==
  \A p \in PeerIps : blockedAt[p] # -1 =>
    /\ blockedAt[p] <= time
    /\ \E i \in Auth!Table : /\ Mine(i, p)
                             /\ authPeers[i].until = (blockedAt[p] + UpTime + AuthBlock) % AuthWrap

\* Only a peer that gave a wrong PIN has an entry with a deadline.
GuiltInv ==
  \A i \in Auth!Table : authPeers[i].used /\ authPeers[i].ip \notin guilty =>
                          authPeers[i].until = 0

\* What every request and every tick keep.
AuthInv == Auth!TypeOK /\ BlockInv /\ GuiltInv /\ Auth!AccessIsFair

\* When the PIN is in focus, a step is one of its own.
LEMMA AuthMoves == Step /\ focus = "auth" => [Auth!Next]_authAll
BY Zenon DEF Step, ServicesNext, Rest, servicesVars

\* What the proofs about the PIN use of its constants.
LEMMA AuthConstants ==
  /\ PeerSlots \in Nat \ {0} /\ AuthFailures \in Nat \ {0} /\ AuthWrap \in Nat \ {0}
  /\ AuthBlock \in Nat /\ MaxTime \in Nat /\ UpTime \in 0..AuthWrap-1 /\ AuthWindow \in Nat
  /\ AuthWrap % 2 = 0 /\ AuthBlock < AuthWrap \div 2 /\ PeerIps # {}
BY ServicesAssumption DEF Auth!ConstantsOK

\* Remainders add up, and times of millis() are below its modulus.
LEMMA RemainderSum ==
  ASSUME NEW w \in Nat \ {0}, NEW a \in Nat, NEW b \in Nat
  PROVE  ((a % w) + b) % w = (a + b) % w
<1>1. PICK q \in Nat : a = w * q + (a % w) BY Remainder, Zenon
<1>2. a % w \in 0..w-1 BY Remainder
<1>3. PICK r \in 0..w-1 : r = a % w BY <1>2
<1>4. PICK p \in Nat : r + b = w * p + ((r + b) % w)
  <2>1. r + b \in Nat OBVIOUS
  <2>2. QED BY <2>1, Remainder, Zenon
<1>5. (r + b) % w \in 0..w-1
  <2>1. r + b \in Nat OBVIOUS
  <2>2. QED BY <2>1, Remainder, Zenon
<1>6. PICK m \in 0..w-1 : m = (r + b) % w BY <1>5
<1>7. a + b = w * (q + p) + m
  <2>1. w * (q + p) = w * q + w * p BY SMTT(20)
  <2>2. QED BY <1>1, <1>3, <1>4, <1>6, <2>1, SMTT(20)
<1>8. (w * (q + p) + m) % w = m BY SMTT(20)
<1>9. QED BY <1>3, <1>6, <1>7, <1>8

\* The peer's own entry is found when it has one, and some entry always is.
LEMMA SlotFound ==
  ASSUME Auth!TypeOK, NEW p \in PeerIps
  PROVE  /\ Auth!SlotFor(p) \in Auth!Table
         /\ (\E i \in Auth!Table : Mine(i, p)) => Mine(Auth!SlotFor(p), p)
<1> USE AuthConstants
<1> DEFINE mine == {i \in Auth!Table : authPeers[i].used /\ authPeers[i].ip = p}
           free == {i \in Auth!Table : ~authPeers[i].used}
           age(i) == Auth!Since(authPeers[i].start)
           First(S) == CHOOSE i \in S : \A j \in S : i <= j
           eldest == {i \in Auth!Table : \A j \in Auth!Table : age(j) <= age(i)}
<1>1. Auth!SlotFor(p) = IF mine # {} THEN First(mine)
                        ELSE IF free # {} THEN First(free) ELSE First(eldest)
  BY Zenon DEF Auth!SlotFor
<1>2. ASSUME NEW S \in SUBSET Auth!Table, S # {} PROVE First(S) \in S
  <2>1. S \in SUBSET (1..PeerSlots) /\ PeerSlots \in Nat BY DEF Auth!Table
  <2>2. \E i \in S : \A j \in S : i <= j BY <1>2, <2>1, Smallest, Zenon
  <2>3. QED BY <2>2, Zenon
<1>3. eldest # {}
  <2> DEFINE Ages == {age(i) + 1 : i \in Auth!Table}
  <2>1. \A i \in Auth!Table : age(i) \in 0..AuthWrap-1
    <3>1. SUFFICES ASSUME NEW i \in Auth!Table PROVE age(i) \in 0..AuthWrap-1 OBVIOUS
    <3>2. PICK d \in Int : d = Auth!AuthNow - authPeers[i].start
      <4>1. Auth!AuthNow \in 0..AuthWrap-1
        BY SmallRemainder DEF Auth!AuthNow, Auth!TypeOK
      <4>2. authPeers[i].start \in 0..AuthWrap-1 BY DEF Auth!TypeOK, Auth!Entries
      <4>3. QED BY <4>1, <4>2
    <3>3. d % AuthWrap \in 0..AuthWrap-1 BY SmallRemainder
    <3>4. QED BY <3>2, <3>3 DEF Auth!Since
  <2> HIDE DEF age
  <2>2. Ages \in SUBSET (1..AuthWrap) BY <2>1
  <2>3. Ages # {}
    <3>1. 1 \in Auth!Table BY DEF Auth!Table
    <3>2. QED BY <3>1
  <2>4. AuthWrap \in Nat OBVIOUS
  <2>5. PICK x \in Ages : \A y \in Ages : y <= x
    <3> HIDE DEF Ages
    <3>1. QED BY <2>2, <2>3, <2>4, Largest, Zenon
  <2>6. PICK i \in Auth!Table : x = age(i) + 1 OBVIOUS
  <2>7. \A j \in Auth!Table : age(j) <= age(i)
    <3>1. SUFFICES ASSUME NEW j \in Auth!Table PROVE age(j) <= age(i) OBVIOUS
    <3>2. age(j) + 1 <= age(i) + 1 BY <2>5, <2>6
    <3>3. QED BY <2>1, <3>2
  <2>8. QED BY <2>7
<1> HIDE DEF First, eldest
<1>4. eldest \subseteq Auth!Table BY DEF eldest
<1>5. CASE mine # {}
  <2>1. First(mine) \in mine BY <1>2, <1>5, Zenon
  <2>2. QED BY <1>1, <1>5, <2>1, Zenon DEF Mine
<1>6. CASE mine = {}
  <2>1. ~ \E i \in Auth!Table : Mine(i, p) BY <1>6, Zenon DEF Mine
  <2>2. CASE free # {}
    <3>1. First(free) \in free BY <1>2, <2>2, Zenon
    <3>2. QED BY <1>1, <1>6, <2>1, <2>2, <3>1, Zenon
  <2>3. CASE free = {}
    <3>1. First(eldest) \in eldest BY <1>2, <1>3, <1>4, Zenon
    <3>2. QED BY <1>1, <1>4, <1>6, <2>1, <2>3, <3>1, Zenon
  <2>4. QED BY <2>2, <2>3
<1>7. QED BY <1>5, <1>6

\* millis() is below its modulus.
LEMMA AuthClock ==
  ASSUME Auth!TypeOK
  PROVE  Auth!AuthNow \in 0..AuthWrap-1
<1>1. PICK x \in Nat : x = time + UpTime BY AuthConstants DEF Auth!TypeOK
<1>2. x % AuthWrap \in 0..AuthWrap-1 BY AuthConstants, SmallRemainder
<1>3. QED BY <1>1, <1>2, Zenon DEF Auth!AuthNow

\* The entry a request is judged by: the peer's own, or one that holds nothing.
LEMMA EntryJudged ==
  ASSUME Auth!TypeOK, GuiltInv, NEW p \in PeerIps, NEW e, e = Auth!EntryFor(p)
  PROVE  /\ e \in Auth!Entries /\ e.used = TRUE /\ e.ip = p
         /\ Mine(Auth!SlotFor(p), p) => e = authPeers[Auth!SlotFor(p)]
         /\ p \notin guilty => e.until = 0
<1> USE AuthConstants
<1> DEFINE s == Auth!SlotFor(p)
<1>1. s \in Auth!Table BY SlotFound
<1>2. authPeers[s] \in Auth!Entries BY <1>1, Zenon DEF Auth!TypeOK
<1>3. e = IF Mine(s, p) THEN authPeers[s] ELSE Auth!Evicted(authPeers[s], p)
  BY Zenon DEF Auth!EntryFor, Mine
<1> HIDE DEF s
<1>4. CASE Mine(s, p)
  <2>1. e = authPeers[s] BY <1>3, <1>4, Zenon
  <2>2. e.used /\ e.ip = p BY <1>4, <2>1, Zenon DEF Mine
  <2>3. e.used \in BOOLEAN BY <1>2, <2>1 DEF Auth!Entries
  <2>4. e.used = TRUE BY <2>2, <2>3, Zenon
  <2>5. p \notin guilty => e.until = 0 BY <1>1, <2>1, <2>2, Zenon DEF GuiltInv
  <2>6. QED BY <1>2, <2>1, <2>2, <2>4, <2>5, Zenon DEF s
<1>5. CASE ~Mine(s, p)
  <2>1. e = Auth!Evicted(authPeers[s], p) BY <1>3, <1>5, Zenon
  <2>2. Auth!AuthNow \in 0..AuthWrap-1 BY AuthClock
  <2>3. e = [used |-> TRUE, ip |-> p, start |-> Auth!AuthNow, until |-> 0, failures |-> 0]
    BY <2>1 DEF Auth!Evicted, Auth!NewPeer
  <2>4. e \in Auth!Entries /\ e.used = TRUE /\ e.ip = p /\ e.until = 0
    BY <2>2, <2>3 DEF Auth!Entries
  <2>5. QED BY <1>5, <2>4, Zenon DEF s
<1>6. QED BY <1>4, <1>5

\* What a request of p, with the right PIN or not, makes of the entry e: a.
Judged(p, right, e, a) ==
  /\ a \in Auth!Entries /\ a.used = TRUE /\ a.ip = p
  /\ Auth!Blocked(e) => a = e
  /\ ~Auth!Blocked(e) /\ right => a.until = 0
  /\ ~Auth!Blocked(e) /\ ~right =>
       a.until = IF a.failures >= AuthFailures
                 THEN (time + UpTime + AuthBlock) % AuthWrap ELSE e.until

\* AfterCheck() does with an entry what Judged says.
LEMMA EntryAfter ==
  ASSUME Auth!TypeOK, NEW p \in PeerIps, NEW right \in BOOLEAN,
         NEW e \in Auth!Entries, e.used = TRUE, e.ip = p, e = Auth!EntryFor(p),
         NEW a, a = Auth!AfterCheck(p, right)
  PROVE  Judged(p, right, e, a)
<1> USE AuthConstants DEF Judged
<1>1. a = IF Auth!Blocked(e) THEN e ELSE IF right THEN Auth!Cleared(e) ELSE Auth!Failed(e)
  BY Zenon DEF Auth!AfterCheck
<1>2. Auth!AuthNow \in 0..AuthWrap-1 BY AuthClock
<1>3. CASE Auth!Blocked(e)
  <2>1. a = e BY <1>1, <1>3, Zenon
  <2>2. QED BY <1>3, <2>1, Zenon
<1>4. CASE ~Auth!Blocked(e) /\ right
  <2>0. PICK x \in 0..AuthWrap-1 : x = Auth!AuthNow BY <1>2
  <2>a. PICK y \in 0..AuthWrap-1, z \in 0..AuthFailures : y = 0 /\ z = 0 OBVIOUS
  <2>1. a = [e EXCEPT !.failures = z, !.until = y, !.start = x]
    BY <1>1, <1>4, <2>0, <2>a, Zenon DEF Auth!Cleared
  <2>2. a \in Auth!Entries /\ a.used = TRUE /\ a.ip = p /\ a.until = 0
    BY <2>a, <2>1 DEF Auth!Entries
  <2>3. QED BY <1>4, <2>2, Zenon
<1>5. CASE ~Auth!Blocked(e) /\ ~right
  <2> DEFINE over == Auth!Since(e.start) >= AuthWindow
             n == IF over THEN 1 ELSE Auth!OneMore(e.failures)
             from == IF over THEN Auth!AuthNow ELSE e.start
             end == (Auth!AuthNow + AuthBlock) % AuthWrap
             to == IF n >= AuthFailures THEN end ELSE e.until
  <2>1. a = Auth!Failed(e) BY <1>1, <1>5, Zenon
  <2>2. a = [e EXCEPT !.start = from, !.failures = n, !.until = to]
    BY <2>1 DEF Auth!Failed
  <2>3. n \in 0..AuthFailures BY DEF Auth!OneMore, Auth!Entries
  <2>4. from \in 0..AuthWrap-1 BY <1>2 DEF Auth!Entries
  <2>5. end \in 0..AuthWrap-1 /\ end = (time + UpTime + AuthBlock) % AuthWrap
    <3>1. time + UpTime \in Nat /\ time + UpTime + AuthBlock \in Nat BY DEF Auth!TypeOK
    <3>2. end = (time + UpTime + AuthBlock) % AuthWrap
      BY <3>1, RemainderSum, Zenon DEF Auth!AuthNow
    <3>3. QED BY <3>1, <3>2, Remainder, Zenon
  <2>6. to \in 0..AuthWrap-1 BY <2>5 DEF Auth!Entries
  <2> HIDE DEF n, from, to
  <2>7. a \in Auth!Entries /\ a.used = TRUE /\ a.ip = p /\ a.failures = n /\ a.until = to
    BY <2>2, <2>3, <2>4, <2>6 DEF Auth!Entries
  <2>8. a.until = IF a.failures >= AuthFailures
                  THEN (time + UpTime + AuthBlock) % AuthWrap ELSE e.until
    BY <2>5, <2>7, Zenon DEF to
  <2>9. QED BY <1>5, <2>7, <2>8, Zenon
<1>6. QED BY <1>3, <1>4, <1>5

\* A peer in its block is blocked, unless the block ends at the value that stands for none.
LEMMA BlockSeen ==
  ASSUME Auth!TypeOK, NEW e, NEW t \in Nat, t <= time, time - t < AuthBlock,
         e.until = (t + UpTime + AuthBlock) % AuthWrap, ~Auth!NoneIsTheEnd(t)
  PROVE  Auth!Blocked(e)
<1> USE AuthConstants
<1>1. e.until # 0 BY Zenon DEF Auth!NoneIsTheEnd
<1>2. PICK w \in Nat \ {0} : w = AuthWrap OBVIOUS
<1>3. PICK d \in 1..AuthBlock : d = AuthBlock - (time - t) BY DEF Auth!TypeOK
<1>4. PICK x \in Nat : x = time + UpTime BY DEF Auth!TypeOK
<1>5. t + UpTime + AuthBlock = x + d BY <1>3, <1>4 DEF Auth!TypeOK
<1>6. e.until = (x + d) % w BY <1>2, <1>5, Zenon
<1>7. Auth!AuthNow = x % w BY <1>2, <1>4, Zenon DEF Auth!AuthNow
<1>8. d < w \div 2 /\ w % 2 = 0 BY <1>2, <1>3
<1>9. ((x % w) - ((x + d) % w)) % w >= w \div 2
  <2>1. PICK r \in 0..w-1 : r = x % w BY Remainder
  <2>2. (x + d) % w = (r + d) % w
    <3>1. d \in Nat OBVIOUS
    <3>2. ((x % w) + d) % w = (x + d) % w BY <3>1, RemainderSum, Zenon
    <3>3. QED BY <2>1, <3>2, Zenon
  <2>3. d <= w - d /\ w - d >= w \div 2 /\ d < w /\ w - d \in 0..w-1 BY <1>8
  <2>4. CASE r + d < w
    <3>1. (r + d) % w = r + d
      <4>1. r + d \in Int /\ r + d \in 0..w-1 BY <2>4
      <4>2. QED BY <4>1, SmallRemainder, Zenon
    <3>2. (r - (r + d)) % w = w - d
      <4>1. r - (r + d) = -d OBVIOUS
      <4>2. (-d) % w = w - d BY <2>3, SMTT(20)
      <4>3. QED BY <4>1, <4>2
    <3>3. QED BY <2>1, <2>2, <2>3, <3>1, <3>2
  <2>5. CASE r + d >= w
    <3>1. (r + d) % w = r + d - w BY <2>3, <2>5, SMTT(20)
    <3>2. r - (r + d - w) = w - d OBVIOUS
    <3>3. (w - d) % w = w - d
      <4>1. w - d \in Int BY <2>3
      <4>2. QED BY <2>3, <4>1, SmallRemainder, Zenon
    <3>4. QED BY <2>1, <2>2, <2>3, <3>1, <3>2, <3>3
  <2>6. QED BY <2>4, <2>5
<1>10. Auth!Since(e.until) >= AuthWrap \div 2
  BY <1>2, <1>6, <1>7, <1>9, Zenon DEF Auth!Since
<1>11. QED BY <1>1, <1>10, Zenon DEF Auth!Blocked

\* At boot the table is empty and nobody is blocked.
LEMMA AuthStarts == Auth!Init => AuthInv
<1> SUFFICES ASSUME Auth!Init PROVE AuthInv OBVIOUS
<1> USE AuthConstants DEF Auth!Init
<1>1. (CHOOSE p \in PeerIps : TRUE) \in PeerIps BY Zenon
<1>2. PICK q \in PeerIps : q = CHOOSE p \in PeerIps : TRUE BY <1>1, Zenon
<1>3. Auth!NewPeer = [used |-> FALSE, ip |-> q, start |-> 0, until |-> 0, failures |-> 0]
  BY <1>2, Zenon DEF Auth!NewPeer
<1>4. Auth!NewPeer \in Auth!Entries /\ Auth!NewPeer.used = FALSE BY <1>3 DEF Auth!Entries
<1>5. authPeers \in [Auth!Table -> Auth!Entries]
      /\ \A i \in Auth!Table : authPeers[i].used = FALSE
  BY <1>4
<1>6. Auth!TypeOK
  <2>1. {leaked, wronged} \subseteq BOOLEAN BY Zenon
  <2>2. time \in 0..MaxTime /\ blockedAt \in [PeerIps -> -1..MaxTime] /\ guilty \subseteq PeerIps
    OBVIOUS
  <2>3. QED BY <1>5, <2>1, <2>2, Zenon DEF Auth!TypeOK
<1>7. BlockInv BY DEF BlockInv
<1>8. GuiltInv /\ Auth!OneEntryEach BY <1>5, Zenon DEF GuiltInv, Auth!OneEntryEach
<1>9. ~leaked /\ ~wronged BY Zenon
<1>10. QED
  BY <1>6, <1>7, <1>8, <1>9, Zenon DEF AuthInv, Auth!AccessIsFair, Auth!BlockHolds,
     Auth!InnocentIsServed

\* A request keeps the invariant, whoever it is from and whatever PIN it brings.
LEMMA RequestStep ==
  ASSUME AuthInv, NEW p \in PeerIps, NEW right \in BOOLEAN, Auth!Request(p, right)
  PROVE  AuthInv'
<1> USE AuthConstants
<1> DEFINE s == Auth!SlotFor(p)
           shut == blockedAt[p] # -1 /\ time - blockedAt[p] < AuthBlock
<1>1. PICK e : e = Auth!EntryFor(p) OBVIOUS
<1>2. PICK a : a = Auth!AfterCheck(p, right) OBVIOUS
<1> DEFINE entered == right /\ ~Auth!Blocked(e)
           ends == ~right /\ ~Auth!Blocked(e) /\ a.failures >= AuthFailures
<1>3. /\ authPeers' = [authPeers EXCEPT ![s] = a]
      /\ leaked' = (leaked \/ (entered /\ shut /\ ~Auth!NoneIsTheEnd(blockedAt[p])))
      /\ wronged' = (wronged \/ (right /\ p \notin guilty /\ ~entered))
      /\ guilty' = IF right THEN guilty ELSE guilty \cup {p}
      /\ blockedAt' = [q \in PeerIps |->
            IF q = p THEN IF entered THEN -1 ELSE IF ends THEN time ELSE blockedAt[q]
            ELSE IF authPeers[s].used /\ authPeers[s].ip = q THEN -1 ELSE blockedAt[q]]
      /\ UNCHANGED time
  BY <1>1, <1>2, Zenon DEF Auth!Request
<1>4. /\ Auth!TypeOK /\ BlockInv /\ GuiltInv /\ Auth!OneEntryEach
      /\ ~leaked /\ ~wronged
  BY Zenon DEF AuthInv, Auth!AccessIsFair, Auth!BlockHolds, Auth!InnocentIsServed
<1>5. /\ s \in Auth!Table
      /\ (\E i \in Auth!Table : Mine(i, p)) => Mine(s, p)
  BY <1>4, SlotFound, Zenon
<1>6. /\ e \in Auth!Entries /\ e.used = TRUE /\ e.ip = p
      /\ Mine(s, p) => e = authPeers[s]
      /\ p \notin guilty => e.until = 0
  BY <1>1, <1>4, EntryJudged, Zenon
<1>7. /\ a \in Auth!Entries /\ a.used = TRUE /\ a.ip = p
      /\ Auth!Blocked(e) => a = e
      /\ ~Auth!Blocked(e) /\ right => a.until = 0
      /\ ~Auth!Blocked(e) /\ ~right =>
           a.until = IF a.failures >= AuthFailures
                     THEN (time + UpTime + AuthBlock) % AuthWrap ELSE e.until
  <2>1. Auth!TypeOK /\ e \in Auth!Entries /\ e.used = TRUE /\ e.ip = p BY <1>4, <1>6, Zenon
  <2>2. Judged(p, right, e, a) BY <1>1, <1>2, <2>1, EntryAfter, Zenon
  <2>3. QED BY <2>2, Zenon DEF Judged
<1> HIDE DEF s
<1>8. /\ authPeers' \in [Auth!Table -> Auth!Entries] /\ authPeers'[s] = a
      /\ \A i \in Auth!Table : i # s => authPeers'[i] = authPeers[i]
  BY <1>3, <1>4, <1>5, <1>7, Zenon DEF Auth!TypeOK
<1>9. ASSUME blockedAt[p] # -1
      PROVE  /\ blockedAt[p] \in Nat /\ blockedAt[p] <= time
             /\ e.until = (blockedAt[p] + UpTime + AuthBlock) % AuthWrap
  <2>1. PICK i \in Auth!Table :
          /\ Mine(i, p) /\ authPeers[i].until = (blockedAt[p] + UpTime + AuthBlock) % AuthWrap
    BY <1>4, <1>9, Zenon DEF BlockInv
  <2>2. i = s BY <1>4, <1>5, <2>1, Zenon DEF Auth!OneEntryEach, Mine
  <2>3. blockedAt[p] <= time BY <1>4, <1>9, Zenon DEF BlockInv
  <2>4. blockedAt[p] \in -1..MaxTime BY <1>4, Zenon DEF Auth!TypeOK
  <2>5. blockedAt[p] \in Nat BY <1>9, <2>4
  <2>6. QED BY <1>6, <2>1, <2>2, <2>3, <2>5, Zenon
<1>10. ~leaked'
  <2>1. SUFFICES ASSUME entered, shut, ~Auth!NoneIsTheEnd(blockedAt[p]) PROVE FALSE
    BY <1>3, <1>4, Zenon
  <2>2. PICK t \in Nat : t = blockedAt[p] BY <1>9, <2>1, Zenon
  <2>3. /\ t <= time /\ time - t < AuthBlock /\ ~Auth!NoneIsTheEnd(t)
        /\ e.until = (t + UpTime + AuthBlock) % AuthWrap
    BY <1>9, <2>1, <2>2, Zenon
  <2>4. Auth!Blocked(e) BY <1>4, <2>3, BlockSeen, Zenon
  <2>5. QED BY <2>1, <2>4, Zenon
<1>11. ~wronged'
  <2>1. SUFFICES ASSUME right, p \notin guilty, ~entered PROVE FALSE BY <1>3, <1>4, Zenon
  <2>2. Auth!Blocked(e) /\ e.until = 0 BY <1>6, <2>1, Zenon
  <2>3. QED BY <2>2, Zenon DEF Auth!Blocked
<1>12. Auth!OneEntryEach'
  <2>1. SUFFICES ASSUME NEW i \in Auth!Table, NEW j \in Auth!Table,
                        authPeers'[i].used, authPeers'[j].used,
                        authPeers'[i].ip = authPeers'[j].ip
                 PROVE  i = j
    BY Zenon DEF Auth!OneEntryEach, Auth!Table
  <2>2. ASSUME NEW k \in Auth!Table, k # s, authPeers'[k].used, authPeers'[k].ip = p
        PROVE  FALSE
    <3>1. Mine(k, p) BY <1>8, <2>2, Zenon DEF Mine
    <3>2. Mine(s, p) BY <1>5, <3>1, Zenon
    <3>3. k = s BY <1>4, <1>5, <3>1, <3>2, Zenon DEF Auth!OneEntryEach, Mine
    <3>4. QED BY <2>2, <3>3
  <2>3. CASE i = s
    <3>1. authPeers'[j].ip = p BY <1>7, <1>8, <2>1, <2>3, Zenon
    <3>2. QED BY <2>1, <2>2, <2>3, <3>1, Zenon
  <2>4. CASE j = s
    <3>1. authPeers'[i].ip = p BY <1>7, <1>8, <2>1, <2>4, Zenon
    <3>2. QED BY <2>1, <2>2, <2>4, <3>1, Zenon
  <2>5. CASE i # s /\ j # s
    BY <1>4, <1>8, <2>1, <2>5, Zenon DEF Auth!OneEntryEach
  <2>6. QED BY <2>3, <2>4, <2>5, Zenon
<1>13. GuiltInv'
  <2>1. SUFFICES ASSUME NEW i \in Auth!Table, authPeers'[i].used, authPeers'[i].ip \notin guilty'
                 PROVE  authPeers'[i].until = 0
    BY Zenon DEF GuiltInv, Auth!Table
  <2>2. \A q : q \notin guilty' => q \notin guilty BY <1>3, Zenon
  <2>3. CASE i # s BY <1>4, <1>8, <2>1, <2>2, <2>3, Zenon DEF GuiltInv
  <2>4. CASE i = s
    <3>1. p \notin guilty' /\ p \notin guilty BY <1>7, <1>8, <2>1, <2>2, <2>4, Zenon
    <3>2. right BY <1>3, <3>1, Zenon
    <3>3. a.until = 0 BY <1>6, <1>7, <3>1, <3>2, Zenon
    <3>4. QED BY <1>8, <2>4, <3>3, Zenon
  <2>5. QED BY <2>3, <2>4
<1>14. BlockInv'
  <2>1. SUFFICES ASSUME NEW q \in PeerIps, blockedAt'[q] # -1
                 PROVE  /\ blockedAt'[q] <= time
                        /\ \E i \in Auth!Table :
                             /\ authPeers'[i].used /\ authPeers'[i].ip = q
                             /\ authPeers'[i].until
                                  = (blockedAt'[q] + UpTime + AuthBlock) % AuthWrap
    BY <1>3, Zenon DEF BlockInv, Mine, Auth!Table
  <2>2. CASE q # p
    <3>1. blockedAt'[q] = blockedAt[q] /\ blockedAt[q] # -1
          /\ ~(authPeers[s].used /\ authPeers[s].ip = q)
      BY <1>3, <2>1, <2>2, Zenon
    <3>2. PICK i \in Auth!Table :
            /\ Mine(i, q)
            /\ authPeers[i].until = (blockedAt[q] + UpTime + AuthBlock) % AuthWrap
      BY <1>4, <3>1, Zenon DEF BlockInv
    <3>3. i # s BY <3>1, <3>2, Zenon DEF Mine
    <3>4. authPeers'[i] = authPeers[i] BY <1>8, <3>3, Zenon
    <3>5. blockedAt[q] <= time BY <1>4, <3>1, Zenon DEF BlockInv
    <3>6. QED BY <3>1, <3>2, <3>4, <3>5, Zenon DEF Mine
  <2>3. CASE q = p
    <3>1. blockedAt'[p] = IF entered THEN -1 ELSE IF ends THEN time ELSE blockedAt[p]
      BY <1>3, Zenon
    <3>2. ~entered BY <2>1, <2>3, <3>1, Zenon
    <3>3. authPeers'[s].used /\ authPeers'[s].ip = p /\ authPeers'[s].until = a.until
      BY <1>7, <1>8, Zenon
    <3>4. CASE ends
      <4>1. blockedAt'[p] = time BY <3>1, <3>2, <3>4, Zenon
      <4>2. a.until = (time + UpTime + AuthBlock) % AuthWrap BY <1>7, <3>4, Zenon
      <4>3. time <= time BY <1>4 DEF Auth!TypeOK
      <4>4. QED BY <1>5, <2>3, <3>3, <4>1, <4>2, <4>3, Zenon
    <3>5. CASE ~ends
      <4>1. blockedAt'[p] = blockedAt[p] /\ blockedAt[p] # -1
        BY <2>1, <2>3, <3>1, <3>2, <3>5, Zenon
      <4>2. a.until = e.until BY <1>7, <3>2, <3>5, Zenon
      <4>3. QED BY <1>5, <1>9, <2>3, <3>3, <4>1, <4>2, Zenon
    <3>6. QED BY <3>4, <3>5
  <2>4. QED BY <2>2, <2>3
<1>15. Auth!TypeOK'
  <2>1. guilty' \subseteq PeerIps BY <1>3, <1>4, Zenon DEF Auth!TypeOK
  <2>2. ({leaked, wronged} \subseteq BOOLEAN)'
    BY <1>3, <1>4, Zenon DEF Auth!TypeOK
  <2>3. time \in -1..MaxTime /\ -1 \in -1..MaxTime BY <1>4 DEF Auth!TypeOK
  <2>4. blockedAt' \in [PeerIps -> -1..MaxTime]
    BY <1>3, <1>4, <2>3, Zenon DEF Auth!TypeOK
  <2>5. time' \in 0..MaxTime BY <1>3, <1>4, Zenon DEF Auth!TypeOK
  <2>6. QED BY <1>8, <2>1, <2>2, <2>4, <2>5, Zenon DEF Auth!TypeOK, Auth!Table, Auth!Entries
<1>16. QED
  BY <1>10, <1>11, <1>12, <1>13, <1>14, <1>15, Zenon DEF AuthInv, Auth!AccessIsFair,
     Auth!BlockHolds, Auth!InnocentIsServed

\* Every step of a peer or the clock keeps the invariant.
LEMMA AuthStep == AuthInv /\ [Auth!Next]_authAll => AuthInv'
<1> SUFFICES ASSUME AuthInv, [Auth!Next]_authAll PROVE AuthInv' OBVIOUS
<1> USE DEF AuthInv, Auth!TypeOK, Auth!AccessIsFair, Auth!BlockHolds,
        Auth!InnocentIsServed, Auth!OneEntryEach, BlockInv, GuiltInv, Mine, Auth!Table, Auth!Entries
<1>1. CASE UNCHANGED authAll BY <1>1, Zenon DEF authAll
<1>2. ASSUME NEW p \in PeerIps, NEW right \in BOOLEAN, Auth!Request(p, right) PROVE AuthInv'
  <2> HIDE DEF AuthInv
  <2>1. QED BY <1>2, RequestStep, Zenon
<1>3. CASE Auth!Tick
  <2>1. /\ time' = time + 1 /\ time < MaxTime
        /\ UNCHANGED <<authPeers, blockedAt, guilty, leaked, wronged>>
    BY <1>3, Zenon DEF Auth!Tick
  <2>2. time' \in 0..MaxTime BY <2>1, AuthConstants
  <2>3. \A p \in PeerIps : blockedAt[p] # -1 => blockedAt'[p] <= time'
    <3>1. SUFFICES ASSUME NEW p \in PeerIps, blockedAt[p] # -1 PROVE blockedAt[p] <= time + 1
      BY <2>1, Zenon
    <3>2. blockedAt[p] <= time BY <3>1, Zenon
    <3>3. blockedAt[p] \in -1..MaxTime /\ time \in 0..MaxTime BY Zenon
    <3>4. QED BY <3>2, <3>3, AuthConstants
  <2>4. BlockInv' BY <2>1, <2>3, Zenon
  <2>5. QED BY <2>1, <2>2, <2>4, Zenon
<1> HIDE DEF AuthInv
<1>4. QED BY <1>1, <1>2, <1>3, Zenon DEF Auth!Next

(* The connections.                                                        *)

\* What a slot may hold.
Clients == [used : BOOLEAN, since : 0..ClockWrap-1, did : {"nothing", "request", "gone"},
            age : 0..IdleClientTimeout+MaxServe+1]

\* The silent client c has waited g ticks at the time now.
Waited(c, now, g) == now = (c.since + g) % ClockWrap /\ c.age = Pool!Older(g, 0)

\* A silent client has waited no longer than the pass before allowed and the ticks since;
\* what was said about a client is forgotten with its slot.
WaitInv ==
  \A i \in Pool!Slots :
    /\ ~slot[i].used => slot[i].did = "nothing"
    /\ slot[i].used /\ slot[i].did = "nothing" =>
         \E g \in Nat : g < IdleClientTimeout + MaxServe + idle /\ Waited(slot[i], poolClock, g)

\* What every pass, every tick and every client keep.
PoolInv == Pool!TypeOK /\ WaitInv /\ ~held /\ ~killed

\* When the pool is in focus, a step is one of its own.
LEMMA PoolMoves == Step /\ focus = "pool" => [Pool!Next]_poolAll
BY Zenon DEF Step, ServicesNext, Rest, servicesVars

\* What the proofs about the pool use of its constants.
LEMMA PoolConstants ==
  /\ MaxPendingClients \in Nat \ {0} /\ ClockWrap \in Nat \ {0} /\ ClockWrap % 2 = 0
  /\ IdleClientTimeout \in Nat /\ MaxServe \in Nat
  /\ IdleClientTimeout < ClockWrap \div 2 /\ 3 * MaxServe < ClockWrap \div 2
BY ServicesAssumption DEF Pool!ConstantsOK

\* The ages add up below the cap, and the cap lies above the timeout.
LEMMA Ages ==
  ASSUME NEW g \in Nat, NEW k \in Nat
  PROVE  /\ Pool!Older(g, 0) \in 0..IdleClientTimeout+MaxServe+1
         /\ Pool!Older(Pool!Older(g, 0), k) = Pool!Older(g + k, 0)
         /\ Pool!Older(g, 0) < IdleClientTimeout <=> g < IdleClientTimeout
         /\ Pool!Older(g, 0) < IdleClientTimeout + MaxServe <=> g < IdleClientTimeout + MaxServe
BY PoolConstants DEF Pool!Older

\* What has waited g ticks has waited k more after k ticks.
LEMMA WaitGoesOn ==
  ASSUME NEW c \in Clients, NEW now \in 0..ClockWrap-1, NEW g \in Nat, NEW k \in Nat,
         Waited(c, now, g), NEW c2, c2.since = c.since, c2.age = Pool!Older(c.age, k)
  PROVE  Waited(c2, (now + k) % ClockWrap, g + k)
<1> USE PoolConstants
<1>1. PICK s \in Nat : s = c.since BY DEF Clients
<1>2. now = (s + g) % ClockWrap /\ c.age = Pool!Older(g, 0) BY <1>1, Zenon DEF Waited
<1>3. (now + k) % ClockWrap = (s + (g + k)) % ClockWrap
  <2>1. s + g \in Nat /\ ClockWrap \in Nat \ {0} OBVIOUS
  <2>2. (now + k) % ClockWrap = ((s + g) + k) % ClockWrap BY <1>2, <2>1, RemainderSum, Zenon
  <2>3. (s + g) + k = s + (g + k) OBVIOUS
  <2>4. QED BY <2>2, <2>3, Zenon
<1>4. c2.age = Pool!Older(g + k, 0) BY <1>2, Ages, Zenon
<1>5. QED BY <1>1, <1>3, <1>4, Zenon DEF Waited

\* The signed comparison tells whether the timeout has passed, across the wrap of millis().
LEMMA TimeoutIsTold ==
  ASSUME NEW s \in 0..ClockWrap-1, NEW g \in Nat, g < IdleClientTimeout + ClockWrap \div 2
  PROVE  Pool!IdleTooLong((s + g) % ClockWrap, s) <=> g >= IdleClientTimeout
<1>1. PICK w \in Nat \ {0} : w = ClockWrap BY PoolConstants
<1>2. PICK t \in Nat : t = IdleClientTimeout BY PoolConstants
<1>3. PICK h \in Nat : w = 2 * h /\ w \div 2 = h BY <1>1, PoolConstants
<1>4. t < h /\ g < t + h /\ s \in 0..w-1 BY <1>1, <1>2, <1>3, PoolConstants
<1>5. PICK q \in Nat : s + g = w * q + ((s + g) % w)
  <2>1. s + g \in Nat BY <1>4
  <2>2. QED BY <2>1, Remainder, Zenon
<1>6. PICK r \in 0..w-1 : r = (s + g) % w
  <2>1. s + g \in Nat BY <1>4
  <2>2. QED BY <2>1, Remainder, Zenon
<1>7. PICK m \in Nat : m = w * q BY SMTT(20)
<1>8. s + g = m + r BY <1>5, <1>6, <1>7
<1>9. r - (s + t) = (g - t) - m BY <1>4, <1>8
<1>10. q \in {0, 1}
  <2>1. m <= w + t + h BY <1>4, <1>8
  <2>2. m < 2 * w BY <1>3, <1>4, <2>1
  <2>3. q < 2 BY <1>7, <2>2, SMTT(20)
  <2>4. QED BY <2>3
<1>11. m \in {0, w} BY <1>7, <1>10, SMTT(20)
<1>12. CASE g >= t
  <2>1. (r - (s + t)) % w = g - t
    <3>1. g - t \in 0..h-1 BY <1>4, <1>12
    <3>2. CASE m = 0
      <4>1. PICK x \in 0..w-1 : x = g - t BY <1>3, <3>1
      <4>2. r - (s + t) = x BY <1>9, <3>2, <4>1
      <4>3. x % w = x BY SMTT(20)
      <4>4. QED BY <4>1, <4>2, <4>3, Zenon
    <3>3. CASE m = w
      <4>1. PICK x \in 0..w-1 : x = g - t BY <1>3, <3>1
      <4>2. r - (s + t) = x - w BY <1>9, <3>3, <4>1
      <4>3. (x - w) % w = x BY SMTT(20)
      <4>4. QED BY <4>1, <4>2, <4>3, Zenon
    <3>4. QED BY <1>11, <3>2, <3>3
  <2>2. (r - (s + t)) % w < h BY <1>4, <1>12, <2>1
  <2>3. QED BY <1>1, <1>2, <1>3, <1>6, <1>12, <2>2 DEF Pool!IdleTooLong
<1>13. CASE g < t
  <2>1. (r - (s + t)) % w = w - (t - g)
    <3>1. PICK x \in 1..w-1 : x = t - g BY <1>3, <1>4, <1>13
    <3>2. CASE m = 0
      <4>1. r - (s + t) = -x BY <1>9, <3>1, <3>2
      <4>2. (-x) % w = w - x BY SMTT(20)
      <4>3. QED BY <3>1, <4>1, <4>2, Zenon
    <3>3. CASE m = w BY <1>3, <1>4, <1>8, <1>13, <3>3
    <3>4. QED BY <1>11, <3>2, <3>3
  <2>2. w - (t - g) > h BY <1>3, <1>4
  <2>3. ~((r - (s + t)) % w < h) BY <1>3, <1>4, <2>1, <2>2
  <2>4. QED BY <1>1, <1>2, <1>3, <1>6, <1>13, <2>3 DEF Pool!IdleTooLong
<1>14. QED BY <1>2, <1>12, <1>13

\* At boot every slot is free.
LEMMA PoolStarts == Pool!Init => PoolInv
<1> SUFFICES ASSUME Pool!Init PROVE PoolInv OBVIOUS
<1> USE PoolConstants DEF Pool!Init
<1>1. Pool!Unused \in Clients /\ Pool!Unused.used = FALSE /\ Pool!Unused.did = "nothing"
  BY DEF Pool!Unused, Clients
<1>2. slot \in [Pool!Slots -> Clients]
      /\ \A i \in Pool!Slots : slot[i].used = FALSE /\ slot[i].did = "nothing"
  BY <1>1
<1>3. {held, killed} \subseteq BOOLEAN /\ ~held /\ ~killed BY Zenon
<1>4. poolClock \in 0..ClockWrap-1 /\ idle \in 0..MaxServe OBVIOUS
<1>5. Pool!TypeOK BY <1>2, <1>3, <1>4, Zenon DEF Pool!TypeOK, Clients
<1>6. WaitInv BY <1>2, Zenon DEF WaitInv
<1>7. QED BY <1>3, <1>5, <1>6, Zenon DEF PoolInv

\* c is the client b, by ticks later.
GrownBy(c, b, by) ==
  /\ c \in Clients /\ c.used = b.used /\ c.since = b.since /\ c.did = b.did
  /\ b.used => c.age = Pool!Older(b.age, by)
  /\ ~b.used => c = b

\* What by ticks make of a slot.
LEMMA OneAged ==
  ASSUME NEW s, NEW by, s \in [Pool!Slots -> Clients], by \in Nat
  PROVE  \A i \in Pool!Slots : GrownBy(Pool!Aged(s, by)[i], s[i], by)
<1> SUFFICES ASSUME NEW i \in Pool!Slots, NEW c, c = Pool!Aged(s, by)[i]
             PROVE  GrownBy(c, s[i], by)
  BY Zenon
<1>1. c = IF s[i].used THEN [s[i] EXCEPT !.age = Pool!Older(@, by)] ELSE s[i]
  BY Zenon DEF Pool!Aged
<1>2. s[i] \in Clients BY Zenon
<1>3. CASE s[i].used
  <2>1. PICK x \in 0..IdleClientTimeout+MaxServe+1 : x = Pool!Older(s[i].age, by)
    BY <1>2, PoolConstants DEF Pool!Older, Clients
  <2>2. c = [s[i] EXCEPT !.age = x] BY <1>1, <1>3, <2>1, Zenon
  <2>3. c \in Clients /\ c.used = s[i].used /\ c.since = s[i].since /\ c.did = s[i].did
        /\ c.age = x
    BY <1>2, <2>2 DEF Clients
  <2>4. QED BY <1>3, <2>1, <2>3, Zenon DEF GrownBy
<1>4. CASE ~s[i].used BY <1>1, <1>2, <1>4, Zenon DEF GrownBy
<1>5. QED BY <1>3, <1>4

\* After accept(): every slot is as it was, or was free and holds a client that just came.
LEMMA OnePlaced ==
  ASSUME PoolInv, NEW did \in {"nobody", "nothing", "request"}, NEW all, all = Pool!Placed(did)
  PROVE  /\ all \in [Pool!Slots -> Clients]
         /\ \A i \in Pool!Slots :
              \/ all[i] = slot[i]
              \/ /\ ~slot[i].used /\ all[i].used /\ all[i].did # "gone"
                 /\ all[i].since = poolClock /\ all[i].age = 0
<1> DEFINE free == {i \in Pool!Slots : ~slot[i].used}
           i0 == CHOOSE i \in free : \A j \in free : i <= j
           new == [used |-> TRUE, since |-> poolClock, did |-> did, age |-> 0]
<1>1. slot \in [Pool!Slots -> Clients] /\ poolClock \in 0..ClockWrap-1
  BY Zenon DEF PoolInv, Pool!TypeOK, Clients
<1>2. all = IF did = "nobody" \/ free = {} THEN slot ELSE [slot EXCEPT ![i0] = new]
  BY Zenon DEF Pool!Placed
<1>3. CASE did = "nobody" \/ free = {} BY <1>1, <1>2, <1>3, Zenon
<1>4. CASE ~(did = "nobody" \/ free = {})
  <2>1. i0 \in free
    <3>1. free \in SUBSET (1..MaxPendingClients) /\ free # {} BY <1>4 DEF Pool!Slots
    <3>2. MaxPendingClients \in Nat BY PoolConstants
    <3> HIDE DEF free
    <3>3. \E i \in free : \A j \in free : i <= j BY <3>1, <3>2, Smallest, Zenon
    <3>4. QED BY <3>3, Zenon
  <2>2. did \in {"nothing", "request"} BY <1>4
  <2>3. /\ new \in Clients /\ new.used = TRUE /\ new.did # "gone" /\ new.since = poolClock
        /\ new.age = 0
    BY <1>1, <2>2, PoolConstants DEF Clients
  <2> HIDE DEF i0, new
  <2>4. all = [slot EXCEPT ![i0] = new] BY <1>2, <1>4, Zenon
  <2>5. QED BY <1>1, <2>1, <2>3, <2>4, Zenon
<1>5. QED BY <1>3, <1>4

\* Time that passes between two passes.
LEMMA PoolTick ==
  ASSUME PoolInv, Pool!Tick
  PROVE  PoolInv'
<1> USE PoolConstants
<1>1. /\ slot \in [Pool!Slots -> Clients] /\ poolClock \in 0..ClockWrap-1
      /\ idle \in 0..MaxServe /\ WaitInv /\ ~held /\ ~killed
  BY Zenon DEF PoolInv, Pool!TypeOK, Clients
<1>2. /\ slot' = Pool!Aged(slot, 1) /\ poolClock' = (poolClock + 1) % ClockWrap
      /\ idle < MaxServe /\ idle' = idle + 1 /\ UNCHANGED <<held, killed>>
  BY Zenon DEF Pool!Tick
<1>3. ASSUME NEW i \in Pool!Slots
      PROVE  /\ slot'[i] \in Clients /\ slot'[i].used = slot[i].used
             /\ slot'[i].since = slot[i].since /\ slot'[i].did = slot[i].did
             /\ slot[i].used => slot'[i].age = Pool!Older(slot[i].age, 1)
  <2>1. 1 \in Nat OBVIOUS
  <2>2. GrownBy(Pool!Aged(slot, 1)[i], slot[i], 1) BY <1>1, <2>1, OneAged, Zenon
  <2>3. GrownBy(slot'[i], slot[i], 1) BY <1>2, <2>2, Zenon
  <2>4. QED BY <2>3, Zenon DEF GrownBy
<1>4. slot' \in [Pool!Slots -> Clients]
  <2>1. slot' = [i \in Pool!Slots |-> slot'[i]] BY <1>2, Zenon DEF Pool!Aged
  <2>2. QED BY <1>3, <2>1, Zenon
<1>5. poolClock' \in 0..ClockWrap-1 /\ idle' \in 0..MaxServe
  <2>1. poolClock + 1 \in Nat BY <1>1
  <2>2. (poolClock + 1) % ClockWrap \in 0..ClockWrap-1 BY <2>1, Remainder, Zenon
  <2>3. QED BY <1>1, <1>2, <2>2
<1>6. WaitInv'
  <2>1. SUFFICES ASSUME NEW i \in Pool!Slots
                 PROVE  /\ ~slot'[i].used => slot'[i].did = "nothing"
                        /\ slot'[i].used /\ slot'[i].did = "nothing" =>
                             \E g \in Nat : /\ g < IdleClientTimeout + MaxServe + idle'
                                            /\ Waited(slot'[i], poolClock', g)
    BY Zenon DEF WaitInv, Pool!Slots, Waited, Pool!Older
  <2>2. ~slot'[i].used => slot'[i].did = "nothing" BY <1>1, <1>3, Zenon DEF WaitInv
  <2>3. ASSUME slot'[i].used, slot'[i].did = "nothing"
        PROVE  \E g \in Nat : /\ g < IdleClientTimeout + MaxServe + idle'
                              /\ Waited(slot'[i], poolClock', g)
    <3>1. slot[i].used /\ slot[i].did = "nothing" /\ slot[i] \in Clients
      BY <1>1, <1>3, <2>3, Zenon
    <3>2. PICK g \in Nat : /\ g < IdleClientTimeout + MaxServe + idle
                           /\ Waited(slot[i], poolClock, g)
      BY <1>1, <3>1, Zenon DEF WaitInv
    <3>3. /\ slot'[i].since = slot[i].since /\ slot'[i].age = Pool!Older(slot[i].age, 1)
      BY <1>3, <3>1, Zenon
    <3>4. 1 \in Nat OBVIOUS
    <3>5. Waited(slot'[i], (poolClock + 1) % ClockWrap, g + 1)
      BY <1>1, <3>1, <3>2, <3>3, <3>4, WaitGoesOn, Zenon
    <3>6. g + 1 \in Nat /\ g + 1 < IdleClientTimeout + MaxServe + idle' BY <1>1, <1>2, <3>2
    <3>7. QED BY <1>2, <3>5, <3>6, Zenon
  <2>4. QED BY <2>2, <2>3, Zenon
<1>7. ~held' /\ ~killed' /\ ({held, killed} \subseteq BOOLEAN)'
  BY <1>1, <1>2, Zenon DEF PoolInv, Pool!TypeOK
<1>8. Pool!TypeOK' BY <1>4, <1>5, <1>7, Zenon DEF Pool!TypeOK, Clients, Pool!Slots
<1>9. QED BY <1>6, <1>7, <1>8, Zenon DEF PoolInv

\* One pass of processWebServer(), whoever it accepts and however long it serves.
LEMMA PassStep ==
  ASSUME PoolInv, NEW did \in {"nobody", "nothing", "request"}, NEW d \in 0..MaxServe,
         Pool!Pass(did, d)
  PROVE  PoolInv'
<1> USE PoolConstants
<1>1. PICK all : all = Pool!Placed(did) OBVIOUS
<1> DEFINE asks == {i \in Pool!Slots : all[i].used /\ all[i].did = "request"}
           first == CHOOSE i \in asks : \A j \in asks : i <= j
<1>2. PICK this : this = IF asks = {} THEN 0 ELSE first OBVIOUS
<1>3. PICK took : took = IF this = 0 THEN 0 ELSE d OBVIOUS
<1> DEFINE now(i) == IF i < this THEN poolClock ELSE (poolClock + took) % ClockWrap
           aged == Pool!Aged(all, took)
           later(i) == IF i < this THEN all[i] ELSE aged[i]
           drop(i) == this # i /\ Pool!Releasable(all[i], now(i))
<1>4. /\ slot' = [i \in Pool!Slots |-> IF i = this \/ drop(i) THEN Pool!Unused ELSE aged[i]]
      /\ poolClock' = (poolClock + took) % ClockWrap
      /\ held' = (held \/ \E i \in Pool!Slots : slot[i].did = "gone" /\ slot'[i].used)
      /\ killed' = (killed \/ \E i \in Pool!Slots : /\ drop(i) /\ all[i].did = "nothing"
                                                    /\ later(i).age < IdleClientTimeout)
      /\ idle' = 0
  BY <1>1, <1>2, <1>3, Zenon DEF Pool!Pass
<1>5. /\ slot \in [Pool!Slots -> Clients] /\ poolClock \in 0..ClockWrap-1
      /\ idle \in 0..MaxServe /\ WaitInv /\ ~held /\ ~killed
  BY Zenon DEF PoolInv, Pool!TypeOK, Clients
<1>6. /\ all \in [Pool!Slots -> Clients]
      /\ \A i \in Pool!Slots :
           \/ all[i] = slot[i]
           \/ /\ ~slot[i].used /\ all[i].used /\ all[i].did # "gone"
              /\ all[i].since = poolClock /\ all[i].age = 0
  BY <1>1, OnePlaced, ZenonT(40)
<1>7. took \in 0..MaxServe /\ took \in Nat BY <1>3
<1>8. this = 0 \/ this \in asks
  <2>1. SUFFICES ASSUME asks # {} PROVE first \in asks BY <1>2, Zenon
  <2>2. asks \in SUBSET (1..MaxPendingClients) BY DEF Pool!Slots
  <2>3. MaxPendingClients \in Nat OBVIOUS
  <2> HIDE DEF asks
  <2>4. \E i \in asks : \A j \in asks : i <= j BY <2>1, <2>2, <2>3, Smallest, Zenon
  <2>5. QED BY <2>4, Zenon
<1> HIDE DEF first, aged
<1>9. ASSUME NEW i \in Pool!Slots
      PROVE  /\ aged[i] \in Clients /\ aged[i].used = all[i].used
             /\ aged[i].since = all[i].since /\ aged[i].did = all[i].did
             /\ all[i].used => aged[i].age = Pool!Older(all[i].age, took)
             /\ ~all[i].used => aged[i] = all[i]
  <2>1. GrownBy(Pool!Aged(all, took)[i], all[i], took) BY <1>6, <1>7, OneAged, Zenon
  <2>2. GrownBy(aged[i], all[i], took) BY <2>1, Zenon DEF aged
  <2>3. QED BY <2>2, Zenon DEF GrownBy
<1>10. Pool!Unused \in Clients /\ Pool!Unused.used = FALSE /\ Pool!Unused.did = "nothing"
  BY DEF Pool!Unused, Clients
<1>11. \A i \in Pool!Slots : ~all[i].used => all[i].did = "nothing"
  BY <1>5, <1>6, Zenon DEF WaitInv
<1>12. ASSUME NEW i \in Pool!Slots, all[i].used, all[i].did = "nothing"
       PROVE  \E g \in Nat : /\ g <= IdleClientTimeout + 2 * MaxServe
                             /\ Waited(all[i], poolClock, g)
  <2>1. CASE all[i] = slot[i]
    <3>1. PICK g \in Nat : /\ g < IdleClientTimeout + MaxServe + idle
                           /\ Waited(slot[i], poolClock, g)
      BY <1>5, <1>12, <2>1, Zenon DEF WaitInv
    <3>2. g <= IdleClientTimeout + 2 * MaxServe BY <1>5, <3>1
    <3>3. QED BY <2>1, <3>1, <3>2, Zenon
  <2>2. CASE all[i].since = poolClock /\ all[i].age = 0
    <3>1. poolClock + 0 \in Int /\ poolClock + 0 \in 0..ClockWrap-1 /\ ClockWrap \in Nat \ {0}
      BY <1>5
    <3>2. (poolClock + 0) % ClockWrap = poolClock + 0 BY <3>1, SmallRemainder, Zenon
    <3>3. poolClock + 0 = poolClock BY <1>5
    <3>4. Pool!Older(0, 0) = 0 BY DEF Pool!Older
    <3>5. Waited(all[i], poolClock, 0) BY <2>2, <3>2, <3>3, <3>4, Zenon DEF Waited
    <3>6. 0 \in Nat /\ 0 <= IdleClientTimeout + 2 * MaxServe OBVIOUS
    <3>7. QED BY <3>5, <3>6, Zenon
  <2>3. QED BY <1>6, <2>1, <2>2, Zenon
\* A silent client is dropped exactly when it has waited the timeout where the pass looks at it.
<1>13. ASSUME NEW i \in Pool!Slots, all[i].used, all[i].did = "nothing",
              NEW g \in Nat, g <= IdleClientTimeout + 2 * MaxServe, Waited(all[i], poolClock, g)
       PROVE  /\ i # this
              /\ Waited(aged[i], poolClock', g + took)
              /\ drop(i) <=> (IF i < this THEN g ELSE g + took) >= IdleClientTimeout
  <2>1. i # this
    <3>1. i \in 1..MaxPendingClients BY DEF Pool!Slots
    <3>2. i # 0 BY <3>1
    <3>3. QED BY <1>8, <1>13, <3>2, Zenon
  <2>2. all[i] \in Clients /\ all[i].since \in 0..ClockWrap-1 BY <1>6 DEF Clients
  <2>3. aged[i].since = all[i].since /\ aged[i].age = Pool!Older(all[i].age, took)
    BY <1>9, <1>13, Zenon
  <2>4. Waited(aged[i], poolClock', g + took)
    BY <1>4, <1>5, <1>7, <1>13, <2>2, <2>3, WaitGoesOn, Zenon
  <2>5. drop(i) <=> Pool!IdleTooLong(now(i), all[i].since)
    BY <1>13, <2>1, Zenon DEF Pool!Releasable
  <2>6. g < IdleClientTimeout + ClockWrap \div 2 /\ g + took \in Nat
        /\ g + took < IdleClientTimeout + ClockWrap \div 2
    BY <1>7, <1>13
  <2>7. poolClock = (all[i].since + g) % ClockWrap BY <1>13, Zenon DEF Waited
  <2>8. poolClock' = (all[i].since + (g + took)) % ClockWrap
    BY <2>3, <2>4, Zenon DEF Waited
  <2>9. CASE i < this
    <3>1. now(i) = (all[i].since + g) % ClockWrap BY <2>7, <2>9, Zenon
    <3>2. Pool!IdleTooLong(now(i), all[i].since) <=> g >= IdleClientTimeout
      BY <2>2, <2>6, <3>1, TimeoutIsTold, Zenon
    <3>3. QED BY <2>1, <2>4, <2>5, <2>9, <3>2, Zenon
  <2>10. CASE ~(i < this)
    <3>1. now(i) = (all[i].since + (g + took)) % ClockWrap BY <1>4, <2>8, <2>10, Zenon
    <3>2. Pool!IdleTooLong(now(i), all[i].since) <=> g + took >= IdleClientTimeout
      BY <2>2, <2>6, <3>1, TimeoutIsTold, Zenon
    <3>3. QED BY <2>1, <2>4, <2>5, <2>10, <3>2, Zenon
  <2>11. QED BY <2>9, <2>10
<1>14. \A i \in Pool!Slots : drop(i) \in BOOLEAN OBVIOUS
<1>15. ASSUME NEW i \in Pool!Slots
       PROVE  slot'[i] = IF i = this \/ drop(i) THEN Pool!Unused ELSE aged[i]
  BY <1>4, Zenon
<1>16. slot' \in [Pool!Slots -> Clients]
  BY <1>4, <1>9, <1>10, Zenon
<1>17. WaitInv'
  <2>1. SUFFICES ASSUME NEW i \in Pool!Slots
                 PROVE  /\ ~slot'[i].used => slot'[i].did = "nothing"
                        /\ slot'[i].used /\ slot'[i].did = "nothing" =>
                             \E g \in Nat : /\ g < IdleClientTimeout + MaxServe + idle'
                                            /\ Waited(slot'[i], poolClock', g)
    BY Zenon DEF WaitInv, Pool!Slots, Waited, Pool!Older
  <2>2. ~slot'[i].used => slot'[i].did = "nothing" BY <1>9, <1>10, <1>11, <1>15, Zenon
  <2>3. ASSUME slot'[i].used, slot'[i].did = "nothing"
        PROVE  \E g \in Nat : /\ g < IdleClientTimeout + MaxServe + idle'
                              /\ Waited(slot'[i], poolClock', g)
    <3>1. slot'[i] = aged[i] /\ ~drop(i) /\ all[i].used /\ all[i].did = "nothing"
      BY <1>9, <1>10, <1>15, <2>3, Zenon
    <3>2. PICK g \in Nat : /\ g <= IdleClientTimeout + 2 * MaxServe
                           /\ Waited(all[i], poolClock, g)
      BY <1>12, <3>1, Zenon
    <3>3. /\ Waited(aged[i], poolClock', g + took)
          /\ ~((IF i < this THEN g ELSE g + took) >= IdleClientTimeout)
      BY <1>13, <3>1, <3>2, Zenon
    <3>4. g + took \in Nat /\ g + took < IdleClientTimeout + MaxServe + idle'
      <4>1. CASE i < this
        <5>1. ~(g >= IdleClientTimeout) BY <3>3, <4>1, Zenon
        <5>2. QED BY <1>4, <1>7, <3>2, <5>1
      <4>2. CASE ~(i < this)
        <5>1. ~(g + took >= IdleClientTimeout) BY <3>3, <4>2, Zenon
        <5>2. QED BY <1>4, <1>7, <3>2, <5>1
      <4>3. QED BY <4>1, <4>2
    <3>5. QED BY <3>1, <3>3, <3>4, Zenon
  <2>4. QED BY <2>2, <2>3, Zenon
<1>18. ~held'
  <2>1. SUFFICES ASSUME NEW i \in Pool!Slots, slot[i].did = "gone", slot'[i].used PROVE FALSE
    BY <1>4, <1>5, Zenon
  <2>2. slot[i].used BY <1>5, <2>1, Zenon DEF WaitInv
  <2>3. all[i] = slot[i] BY <1>6, <2>2, Zenon
  <2>4. Pool!Releasable(all[i], now(i)) BY <2>1, <2>2, <2>3, Zenon DEF Pool!Releasable
  <2>5. i = this \/ drop(i) BY <2>4, Zenon
  <2>6. slot'[i] = Pool!Unused BY <1>15, <2>5, Zenon
  <2>7. QED BY <1>10, <2>1, <2>6, Zenon
<1>19. ~killed'
  <2>1. SUFFICES ASSUME NEW i \in Pool!Slots, drop(i), all[i].did = "nothing",
                        later(i).age < IdleClientTimeout
                 PROVE  FALSE
    BY <1>4, <1>5, Zenon
  <2>2. all[i].used BY <2>1, Zenon DEF Pool!Releasable
  <2>3. PICK g \in Nat : /\ g <= IdleClientTimeout + 2 * MaxServe
                         /\ Waited(all[i], poolClock, g)
    BY <1>12, <2>1, <2>2, Zenon
  <2>4. /\ Waited(aged[i], poolClock', g + took)
        /\ (IF i < this THEN g ELSE g + took) >= IdleClientTimeout
    BY <1>13, <2>1, <2>2, <2>3, Zenon
  <2>5. CASE i < this
    <3>1. g >= IdleClientTimeout /\ Pool!Older(g, 0) < IdleClientTimeout
      BY <2>1, <2>3, <2>4, <2>5, Zenon DEF Waited
    <3>2. 0 \in Nat OBVIOUS
    <3>3. g < IdleClientTimeout BY <3>1, <3>2, Ages, Zenon
    <3>4. QED BY <3>1, <3>3
  <2>6. CASE ~(i < this)
    <3>1. g + took >= IdleClientTimeout /\ Pool!Older(g + took, 0) < IdleClientTimeout
      BY <2>1, <2>4, <2>6, Zenon DEF Waited
    <3>2. 0 \in Nat /\ g + took \in Nat BY <1>7
    <3>3. g + took < IdleClientTimeout BY <3>1, <3>2, Ages, Zenon
    <3>4. QED BY <1>7, <3>1, <3>3
  <2>7. QED BY <2>5, <2>6
<1>20. poolClock' \in 0..ClockWrap-1 /\ idle' \in 0..MaxServe
  <2>1. poolClock + took \in Nat BY <1>5, <1>7
  <2>2. (poolClock + took) % ClockWrap \in 0..ClockWrap-1 BY <2>1, Remainder, Zenon
  <2>3. QED BY <1>4, <2>2
<1>21. ({held, killed} \subseteq BOOLEAN)' BY <1>4, Zenon
<1>22. Pool!TypeOK' BY <1>16, <1>20, <1>21, Zenon DEF Pool!TypeOK, Clients, Pool!Slots
<1>23. QED BY <1>17, <1>18, <1>19, <1>22, Zenon DEF PoolInv


\* Every step of the pool keeps its invariant.
LEMMA PoolStep == PoolInv /\ [Pool!Next]_poolAll => PoolInv'
<1> SUFFICES ASSUME PoolInv, [Pool!Next]_poolAll PROVE PoolInv' OBVIOUS
<1>1. CASE UNCHANGED poolAll
  BY <1>1, Zenon DEF poolAll, PoolInv, WaitInv, Waited, Pool!TypeOK, Pool!Slots, Pool!Older
<1>2. ASSUME NEW did \in {"nobody", "nothing", "request"}, NEW d \in 0..MaxServe,
             Pool!Pass(did, d)
      PROVE  PoolInv'
  BY <1>2, PassStep, Zenon
<1>3. CASE Pool!Tick BY <1>3, PoolTick, Zenon
<1>4. ASSUME NEW i \in Pool!Slots, NEW did \in {"request", "gone"}, Pool!Acts(i, did)
      PROVE  PoolInv'
  <2>1. /\ slot \in [Pool!Slots -> Clients] /\ poolClock \in 0..ClockWrap-1
        /\ idle \in 0..MaxServe /\ WaitInv /\ ~held /\ ~killed
    BY Zenon DEF PoolInv, Pool!TypeOK, Clients
  <2>2. /\ slot[i].used /\ slot' = [slot EXCEPT ![i].did = did]
        /\ UNCHANGED <<poolClock, idle, held, killed>>
    BY <1>4, Zenon DEF Pool!Acts
  <2>3. PICK c : c = [slot[i] EXCEPT !.did = did] OBVIOUS
  <2>4. did # "nothing" BY <1>4
  <2>5. c \in Clients /\ c.used = slot[i].used /\ c.did # "nothing"
    <3>1. slot[i] \in Clients BY <2>1, Zenon
    <3>2. c \in Clients /\ c.used = slot[i].used /\ c.did = did BY <2>3, <3>1 DEF Clients
    <3>3. QED BY <2>4, <3>2, Zenon
  <2>6. slot' = [slot EXCEPT ![i] = c] BY <2>2, <2>3, Zenon
  <2>7. slot' \in [Pool!Slots -> Clients] /\ slot'[i] = c
        /\ \A j \in Pool!Slots : j # i => slot'[j] = slot[j]
    BY <2>1, <2>5, <2>6, Zenon
  <2>8. WaitInv'
    <3>1. SUFFICES ASSUME NEW j \in Pool!Slots
                   PROVE  /\ ~slot'[j].used => slot'[j].did = "nothing"
                          /\ slot'[j].used /\ slot'[j].did = "nothing" =>
                               \E g \in Nat : /\ g < IdleClientTimeout + MaxServe + idle'
                                              /\ Waited(slot'[j], poolClock', g)
      BY Zenon DEF WaitInv, Pool!Slots, Waited, Pool!Older
    <3>2. CASE j = i BY <2>2, <2>5, <2>7, <3>2, Zenon
    <3>3. CASE j # i BY <2>1, <2>2, <2>7, <3>3, Zenon DEF WaitInv
    <3>4. QED BY <3>2, <3>3, Zenon
  <2>9. Pool!TypeOK'
    BY <2>1, <2>2, <2>7, Zenon DEF PoolInv, Pool!TypeOK, Clients, Pool!Slots
  <2>10. QED BY <2>1, <2>2, <2>8, <2>9, Zenon DEF PoolInv
<1>5. QED BY <1>1, <1>2, <1>3, <1>4, Zenon DEF Pool!Next

-----------------------------------------------------------------------------
\* However requests, silences and the wraps of millis() fall: a pass of processWebServer() leaves
\* no slot with a client that had gone or kept silent for the timeout, and drops nobody else; too
\* many wrong PINs block the peer that gave them for the whole block, as long as its entry lasts,
\* and nobody who gave none (authPeerFor, writeAuthorized).
THEOREM AccessStaysFair == ServicesSpec => []AccessIsFair
<1> DEFINE Inv == (focus = "pool" => PoolInv) /\ (focus = "auth" => AuthInv)
<1>1. ServicesInit => Inv BY PoolStarts, AuthStarts, Zenon DEF ServicesInit
<1>2. Inv /\ Step => Inv'
  BY FocusStays, PoolMoves, PoolStep, AuthMoves, AuthStep, Zenon
<1>3. PoolInv => Pool!TypeOK /\ Pool!PoolIsFair
  <2> SUFFICES ASSUME PoolInv PROVE Pool!NoSlotIsLost
    BY Zenon DEF PoolInv, Pool!PoolIsFair, Pool!NobodyIsCutOff
  <2>1. SUFFICES ASSUME idle = 0, NEW i \in Pool!Slots, slot[i].used, slot[i].did = "nothing"
                 PROVE  slot[i].age < IdleClientTimeout + MaxServe
    BY Zenon DEF PoolInv, Pool!NoSlotIsLost
  <2>2. PICK g \in Nat : /\ g < IdleClientTimeout + MaxServe + idle
                         /\ slot[i].age = Pool!Older(g, 0)
    BY <2>1, Zenon DEF PoolInv, WaitInv, Waited
  <2>3. 0 \in Nat /\ g < IdleClientTimeout + MaxServe BY <2>1, <2>2, PoolConstants
  <2>4. Pool!Older(g, 0) < IdleClientTimeout + MaxServe BY <2>3, Ages, Zenon
  <2>5. QED BY <2>2, <2>4, Zenon
<1>4. AuthInv => Auth!TypeOK /\ Auth!AccessIsFair BY Zenon DEF AuthInv
<1>5. Inv => AccessIsFair BY <1>3, <1>4, Zenon DEF AccessIsFair
<1> HIDE DEF Inv
<1>6. QED BY <1>1, <1>2, <1>5, PTL DEF ServicesSpec, Step
-----------------------------------------------------------------------------
(* Presets.                                                                *)

\* The files a save puts on the card hold a whole document without a credential.
Clean(d) == d \in Presets!Documents /\ d.whole /\ d.password = Presets!None /\ d.pin = Presets!None

\* A save under way writes beside a preset of exactly its name or of none; once written, its file
\* is clean.
JobInv ==
  job # Presets!NoJob =>
    /\ json[Presets!Fold(job.name)].name \in {Presets!NoName, job.name}
    /\ job.stage # "write" =>
         /\ tmp[Presets!Fold(job.name)].name = job.name
         /\ Clean(tmp[Presets!Fold(job.name)].doc)

\* What every step of the presets keeps.
PresetsInv == Presets!TypeOK /\ JobInv /\ Presets!PresetsAreSafe

\* When presets are in focus, a step is one of theirs.
LEMMA PresetsMove == Step /\ focus = "presets" => [Presets!Next]_presetsAll
BY Zenon DEF Step, ServicesNext, Rest, servicesVars

\* What the proofs below use of the constants.
LEMMA PresetsConstants ==
  /\ Pins # {} /\ Presets!None \notin Passwords
  /\ Presets!None \notin Pins /\ Presets!None \notin Folded
  /\ \A n \in Presets!Names : Presets!Fold(n) \in Folded /\ n # Presets!NoName
BY ServicesAssumption DEF Presets!ConstantsOK, Presets!Names, Presets!Fold, Presets!NoName

\* The kinds of files and of documents are told apart by the names and the wholeness they have.
LEMMA FileKinds ==
  /\ Presets!NoFile \in Presets!Files /\ Presets!NoFile.name = Presets!NoName
  /\ ~Presets!NoFile.doc.whole
  /\ ~Presets!Partial.whole
  /\ \A n \in Presets!Names, d \in Presets!Documents \cup {Presets!Partial} :
       [name |-> n, doc |-> d] \in Presets!Files
  /\ \A f \in Presets!Files :
       /\ f.name \in Presets!Names \cup {Presets!NoName}
       /\ f.doc.whole => f # Presets!NoFile /\ f.doc \in Presets!Documents
       /\ f # Presets!NoFile => f.name \in Presets!Names
BY PresetsConstants DEF Presets!NoFile, Presets!Files, Presets!Partial

\* The document a save writes.
LEMMA RedactedIsClean == Presets!TypeOK => Clean(Presets!Redacted(mainCfg))
BY DEF Presets!TypeOK, Clean, Presets!Redacted, Presets!Documents

\* Nothing is stored on a new card.
LEMMA PresetsStart == Presets!Init => PresetsInv
<1> SUFFICES ASSUME Presets!Init PROVE PresetsInv OBVIOUS
<1>1. Presets!TypeOK
  <2>1. mainCfg \in [body : Bodies, host : Hosts, password : {Presets!None} \cup Passwords,
                     on : BOOLEAN, pin : Pins]
    BY DEF Presets!Init, Presets!Provisioned
  <2>2. json \in [Folded -> Presets!Files] /\ tmp \in [Folded -> Presets!Files]
    BY FileKinds DEF Presets!Init
  <2>3. opPin \in Pins BY DEF Presets!Init, Presets!Provisioned
  <2>4. QED BY <2>1, <2>2, <2>3 DEF Presets!Init, Presets!TypeOK
<1>2. JobInv BY Zenon DEF Presets!Init, JobInv
<1>3. Presets!PresetsAreSafe
  BY FileKinds
  DEF Presets!Init, Presets!Provisioned, Presets!PresetsAreSafe, Presets!FilesSetNoSecret,
      Presets!PresetsCarryNoSecret, Presets!StoredPresetsStay
<1>4. QED BY <1>1, <1>2, <1>3 DEF PresetsInv

\* No document the device accepts changes whose password and PIN it uses: whatever the file,
\* the types and the promise about credentials hold of the configuration it leaves.
LEMMA AppliedIsSafe ==
  ASSUME Presets!TypeOK, Presets!FilesSetNoSecret,
         NEW d \in Presets!Documents \cup {Presets!Partial}, Presets!ApplyDocument(d)
  PROVE  /\ mainCfg' \in [body : Bodies, host : Hosts,
                          password : {Presets!None} \cup Passwords, on : BOOLEAN, pin : Pins]
         /\ mainCfg'.password # Presets!None =>
              <<mainCfg'.host, mainCfg'.password>> \in granted
         /\ mainCfg'.pin = opPin
<1> DEFINE same == d.host = mainCfg.host
<1>1. d \in Presets!Documents BY FileKinds DEF Presets!ApplyDocument
<1>2. mainCfg \in [body : Bodies, host : Hosts, password : {Presets!None} \cup Passwords,
                   on : BOOLEAN, pin : Pins]
  BY DEF Presets!TypeOK
<1>3. /\ d.body \in Bodies /\ d.host \in Hosts /\ d.on \in BOOLEAN
      /\ mainCfg.pin \in Pins /\ mainCfg.password \in {Presets!None} \cup Passwords
  BY <1>1, <1>2 DEF Presets!Documents
<1>4. mainCfg' = [body |-> d.body, host |-> d.host, pin |-> mainCfg.pin,
                  password |-> IF same THEN mainCfg.password ELSE Presets!None,
                  on |-> same /\ d.on]
  BY DEF Presets!ApplyDocument, Presets!RestoreSecrets
<1>5. CASE same /\ d.on
  <2>1. mainCfg' = [body |-> d.body, host |-> d.host, pin |-> mainCfg.pin,
                    password |-> mainCfg.password, on |-> TRUE]
    BY <1>4, <1>5
  <2>2. QED BY <1>3, <1>5, <2>1 DEF Presets!FilesSetNoSecret
<1>6. CASE same /\ ~d.on
  <2>1. mainCfg' = [body |-> d.body, host |-> d.host, pin |-> mainCfg.pin,
                    password |-> mainCfg.password, on |-> FALSE]
    BY <1>4, <1>6
  <2>2. QED BY <1>3, <1>6, <2>1 DEF Presets!FilesSetNoSecret
<1>7. CASE ~same
  <2>1. mainCfg' = [body |-> d.body, host |-> d.host, pin |-> mainCfg.pin,
                    password |-> Presets!None, on |-> FALSE]
    BY <1>4, <1>7
  <2>2. QED BY <1>3, <2>1 DEF Presets!FilesSetNoSecret
<1>8. QED BY <1>5, <1>6, <1>7

\* What the operator posts: the password he leaves out is the one he gave before.
LEMMA PostedIsSafe ==
  ASSUME Presets!TypeOK, Presets!FilesSetNoSecret, NEW d \in Presets!Posted,
         Presets!PostSettings(d)
  PROVE  /\ mainCfg' \in [body : Bodies, host : Hosts,
                          password : {Presets!None} \cup Passwords, on : BOOLEAN, pin : Pins]
         /\ opPin' \in Pins /\ granted' \subseteq Hosts \X Passwords
         /\ Presets!FilesSetNoSecret'
<1>1. d \in Presets!Documents BY DEF Presets!Posted
<1>2. mainCfg \in [body : Bodies, host : Hosts, password : {Presets!None} \cup Passwords,
                   on : BOOLEAN, pin : Pins]
  BY DEF Presets!TypeOK
<1> DEFINE word == IF d.password = Presets!None THEN mainCfg.password ELSE d.password
           code == IF d.pin = Presets!None THEN mainCfg.pin ELSE d.pin
<1>3. /\ d.body \in Bodies /\ d.host \in Hosts /\ d.on \in BOOLEAN
      /\ word \in {Presets!None} \cup Passwords /\ code \in Pins
  BY <1>1, <1>2 DEF Presets!Documents
<1>4. mainCfg' = [body |-> d.body, host |-> d.host, on |-> d.on, password |-> word,
                  pin |-> code]
  BY DEF Presets!PostSettings, Presets!PreserveSecrets
<1> HIDE DEF word, code
<1>5. /\ mainCfg' \in [body : Bodies, host : Hosts,
                       password : {Presets!None} \cup Passwords, on : BOOLEAN, pin : Pins]
      /\ mainCfg'.host = d.host /\ mainCfg'.password = word /\ mainCfg'.pin = code
  BY <1>3, <1>4
<1>6. opPin' = code BY <1>5 DEF Presets!PostSettings
<1>7. granted' = granted \cup ({<<d.host, word>>} \cap (Hosts \X Passwords))
  BY <1>5 DEF Presets!PostSettings
<1>8. granted' \subseteq Hosts \X Passwords BY <1>7 DEF Presets!TypeOK
<1>9. word # Presets!None => <<d.host, word>> \in granted' BY <1>3, <1>7
<1>10. QED BY <1>3, <1>5, <1>6, <1>8, <1>9 DEF Presets!FilesSetNoSecret

\* What concerns the card: files, the save under way and the history of what was stored.
PresetCardInv ==
  /\ json \in [Folded -> Presets!Files] /\ tmp \in [Folded -> Presets!Files]
  /\ job \in {Presets!NoJob} \cup [stage : {"write", "remove", "rename"}, name : Presets!Names]
  /\ stored \subseteq Presets!Names /\ resaved \subseteq Presets!Names
  /\ JobInv /\ Presets!PresetsCarryNoSecret /\ Presets!StoredPresetsStay

\* What concerns the configuration: its types and who was given its password.
CredentialsInv ==
  /\ mainCfg \in [body : Bodies, host : Hosts, password : {Presets!None} \cup Passwords,
                  on : BOOLEAN, pin : Pins]
  /\ granted \subseteq Hosts \X Passwords /\ opPin \in Pins
  /\ Presets!FilesSetNoSecret

\* The invariant is about the two of them.
LEMMA PresetsInvParts == PresetsInv <=> CredentialsInv /\ PresetCardInv
BY Zenon DEF PresetsInv, CredentialsInv, PresetCardInv, Presets!TypeOK, Presets!PresetsAreSafe

\* A job is no job, or it has one of the three stages and a name.
LEMMA JobKinds ==
  ASSUME PresetCardInv
  PROVE  /\ Presets!NoJob.stage = "none"
         /\ job # Presets!NoJob =>
              /\ job.name \in Presets!Names /\ Presets!Fold(job.name) \in Folded
              /\ job.stage \in {"write", "remove", "rename"}
              /\ \A s \in {"write", "remove", "rename"} :
                   /\ [job EXCEPT !.stage = s].stage = s
                   /\ [job EXCEPT !.stage = s].name = job.name
                   /\ [job EXCEPT !.stage = s]
                        \in [stage : {"write", "remove", "rename"}, name : Presets!Names]
BY PresetsConstants DEF PresetCardInv, Presets!NoJob

\* Every step keeps what concerns the configuration.
LEMMA CredentialsStep == PresetsInv /\ [Presets!Next]_presetsAll => CredentialsInv'
<1> SUFFICES ASSUME PresetsInv, [Presets!Next]_presetsAll PROVE CredentialsInv' OBVIOUS
<1>0. CredentialsInv /\ PresetCardInv /\ Presets!TypeOK /\ Presets!FilesSetNoSecret
  BY PresetsInvParts, Zenon DEF PresetsInv, Presets!PresetsAreSafe
<1>1. CASE UNCHANGED <<mainCfg, granted, opPin>>
  BY <1>0, <1>1, Zenon DEF CredentialsInv, Presets!FilesSetNoSecret
<1>2. ASSUME NEW d \in Presets!Posted, Presets!PostSettings(d) PROVE CredentialsInv'
  BY <1>0, <1>2, PostedIsSafe, Zenon DEF CredentialsInv
<1>3. ASSUME NEW d \in Presets!Documents \cup {Presets!Partial}, Presets!ApplyDocument(d),
             UNCHANGED <<granted, opPin>>
      PROVE CredentialsInv'
  <2>1. Presets!FilesSetNoSecret'
    BY <1>0, <1>3, AppliedIsSafe, Zenon DEF Presets!FilesSetNoSecret
  <2>2. QED BY <1>0, <1>3, <2>1, AppliedIsSafe, Zenon DEF CredentialsInv
<1>4. ASSUME NEW d \in Presets!Foreign \cup {Presets!Partial}, Presets!Import(d)
      PROVE CredentialsInv'
  <2>1. d \in Presets!Documents \cup {Presets!Partial} BY DEF Presets!Foreign
  <2>2. Presets!ApplyDocument(d) /\ UNCHANGED <<granted, opPin>>
    BY <1>4, Zenon DEF Presets!Import, Presets!credVars
  <2>3. QED BY <1>3, <2>1, <2>2, Zenon
<1>5. ASSUME NEW n \in Presets!Names, Presets!Load(n) PROVE CredentialsInv'
  <2> DEFINE f == json[Presets!Fold(n)]
  <2>1. f \in Presets!Files BY <1>0, PresetsConstants DEF PresetCardInv
  <2>2. Presets!ApplyDocument(f.doc) /\ UNCHANGED <<granted, opPin>>
    BY <1>5, Zenon DEF Presets!Load, Presets!credVars
  <2>3. f.doc.whole BY <2>2, Zenon DEF Presets!ApplyDocument
  <2>4. f.doc \in Presets!Documents BY <2>1, <2>3, FileKinds, Zenon
  <2>5. QED BY <1>3, <2>2, <2>4, Zenon
<1>6. ASSUME \/ Presets!SaveShort \/ Presets!SaveWrite \/ Presets!SaveRemove
             \/ Presets!SaveRename \/ Presets!SaveRenameFails \/ Presets!PowerLoss
             \/ \E n \in Presets!Names : Presets!SaveStart(n) \/ Presets!Delete(n)
             \/ \E n \in Presets!Names, d \in Presets!Foreign \cup {Presets!Partial} :
                  Presets!EditCard(n, d)
      PROVE UNCHANGED <<mainCfg, granted, opPin>>
  BY <1>6, Zenon
  DEF Presets!SaveShort, Presets!SaveWrite, Presets!SaveRemove, Presets!SaveRename,
      Presets!SaveRenameFails, Presets!PowerLoss, Presets!SaveStart, Presets!Delete,
      Presets!EditCard, Presets!credVars
<1>7. CASE UNCHANGED presetsAll BY <1>1, <1>7, Zenon DEF presetsAll
<1>8. QED BY <1>1, <1>2, <1>4, <1>5, <1>6, <1>7, Zenon DEF Presets!Next

\* Every step keeps what concerns the card.
LEMMA CardStep == PresetsInv /\ [Presets!Next]_presetsAll => PresetCardInv'
<1> SUFFICES ASSUME PresetsInv, [Presets!Next]_presetsAll PROVE PresetCardInv' OBVIOUS
<1>0. PresetCardInv /\ Presets!TypeOK BY PresetsInvParts, Zenon DEF PresetsInv
<1> DEFINE f == Presets!Fold(job.name)
<1> USE DEF PresetCardInv, JobInv, Presets!PresetsCarryNoSecret, Presets!StoredPresetsStay,
        Presets!histVars, Presets!fileVars
<1>1. ASSUME UNCHANGED <<json, tmp, job, stored, resaved>> PROVE PresetCardInv'
  BY <1>0, <1>1, Zenon
<1>2. ASSUME NEW n \in Presets!Names, Presets!SaveStart(n) PROVE PresetCardInv'
  <2> DEFINE made == [name |-> n, doc |-> Presets!Partial]
  <2>1. made \in Presets!Files /\ ~made.doc.whole BY FileKinds
  <2>2. /\ tmp' = [tmp EXCEPT ![Presets!Fold(n)] = made] /\ json' = json /\ stored' = stored
        /\ resaved' = resaved /\ job' = [stage |-> "write", name |-> n]
        /\ json[Presets!Fold(n)].name \in {Presets!NoName, n}
    BY <1>2 DEF Presets!SaveStart, Presets!FreeOrExact, Presets!histVars
  <2> HIDE DEF made
  <2>3. QED BY <1>0, <2>1, <2>2, PresetsConstants
<1>3. ASSUME Presets!SaveShort \/ Presets!SaveRenameFails PROVE PresetCardInv'
  <2>1. job # Presets!NoJob BY <1>3, JobKinds, <1>0 DEF Presets!SaveShort, Presets!SaveRenameFails
  <2>2. /\ tmp' = [tmp EXCEPT ![f] = Presets!NoFile] /\ UNCHANGED <<json, stored, resaved>>
        /\ job' = Presets!NoJob
    BY <1>3 DEF Presets!SaveShort, Presets!SaveRenameFails
  <2>3. f \in Folded BY <2>1, <1>0, JobKinds
  <2>4. QED BY <1>0, <2>2, <2>3, FileKinds
<1>4. ASSUME Presets!SaveWrite PROVE PresetCardInv'
  <2>1. job # Presets!NoJob BY <1>4, JobKinds, <1>0 DEF Presets!SaveWrite
  <2> DEFINE d == Presets!Redacted(mainCfg)
             made == [name |-> job.name, doc |-> d]
             next == [job EXCEPT !.stage = "remove"]
  <2>2. /\ tmp' = [tmp EXCEPT ![f] = made] /\ UNCHANGED <<json, stored, resaved>>
        /\ job' = next
    BY <1>4 DEF Presets!SaveWrite
  <2>3. /\ f \in Folded /\ job.name \in Presets!Names
        /\ next.stage = "remove" /\ next.name = job.name
        /\ next \in [stage : {"write", "remove", "rename"}, name : Presets!Names]
    BY <2>1, <1>0, JobKinds
  <2>4. Clean(d) BY <1>0, RedactedIsClean
  <2>5. made.name = job.name /\ made.doc = d OBVIOUS
  <2> HIDE DEF d
  <2>6. made \in Presets!Files BY <2>3, <2>4, FileKinds DEF Clean
  <2> HIDE DEF made, next
  <2>7. QED BY <1>0, <2>1, <2>2, <2>3, <2>4, <2>5, <2>6 DEF Clean
<1>5. ASSUME Presets!SaveRemove PROVE PresetCardInv'
  <2>1. job # Presets!NoJob BY <1>5, JobKinds, <1>0 DEF Presets!SaveRemove
  <2> DEFINE next == [job EXCEPT !.stage = "rename"]
  <2>2. PICK gone \in BOOLEAN :
          /\ json' = IF gone THEN [json EXCEPT ![f] = Presets!NoFile] ELSE json
          /\ resaved' = IF gone THEN resaved \cup {job.name} ELSE resaved
    BY <1>5, Zenon DEF Presets!SaveRemove
  <2>3. UNCHANGED <<tmp, stored>> /\ job' = next /\ job.stage = "remove"
    BY <1>5, Zenon DEF Presets!SaveRemove
  <2>4. /\ f \in Folded /\ job.name \in Presets!Names
        /\ next.stage = "rename" /\ next.name = job.name
        /\ next \in [stage : {"write", "remove", "rename"}, name : Presets!Names]
    BY <2>1, <1>0, JobKinds
  <2> HIDE DEF next
  <2>5. CASE ~gone
    <3>1. UNCHANGED <<json, resaved>> BY <2>2, <2>5
    <3>2. Presets!PresetsCarryNoSecret' /\ Presets!StoredPresetsStay'
      BY <1>0, <2>3, <3>1, Zenon
    <3>3. JobInv' BY <1>0, <2>1, <2>3, <2>4, <3>1
    <3>4. QED BY <1>0, <2>3, <2>4, <3>1, <3>2, <3>3
  <2>6. CASE gone
    <3>1. json' = [json EXCEPT ![f] = Presets!NoFile] /\ resaved' = resaved \cup {job.name}
      BY <2>2, <2>6
    <3>2. ASSUME NEW n \in stored \ resaved, Presets!Fold(n) = f PROVE n = job.name
      BY <1>0, <2>1, <3>2, PresetsConstants
    <3>3. Presets!PresetsCarryNoSecret'
      BY <1>0, <2>3, <2>4, <3>1, FileKinds
    <3>4. Presets!StoredPresetsStay'
      BY <1>0, <2>3, <2>4, <3>1, <3>2
    <3>5. JobInv' BY <1>0, <2>1, <2>3, <2>4, <3>1, FileKinds
    <3>6. json' \in [Folded -> Presets!Files] /\ resaved' \subseteq Presets!Names
      BY <1>0, <2>4, <3>1, FileKinds
    <3>7. QED BY <1>0, <2>3, <2>4, <3>3, <3>4, <3>5, <3>6
  <2>7. QED BY <2>5, <2>6
<1>6. ASSUME Presets!SaveRename PROVE PresetCardInv'
  <2>1. job # Presets!NoJob BY <1>6, JobKinds, <1>0 DEF Presets!SaveRename
  <2>2. /\ json' = [json EXCEPT ![f] = tmp[f]] /\ tmp' = [tmp EXCEPT ![f] = Presets!NoFile]
        /\ stored' = stored \cup {job.name} /\ resaved' = resaved \ {job.name}
        /\ job' = Presets!NoJob /\ json[f] = Presets!NoFile /\ job.stage = "rename"
    BY <1>6 DEF Presets!SaveRename
  <2>3. f \in Folded /\ job.name \in Presets!Names BY <2>1, <1>0, JobKinds
  <2>4. tmp[f].name = job.name /\ Clean(tmp[f].doc) /\ tmp[f] \in Presets!Files
    BY <1>0, <2>1, <2>2, <2>3
  <2>5. ASSUME NEW n \in stored \ resaved, Presets!Fold(n) = f PROVE FALSE
    BY <1>0, <2>2, <2>5, PresetsConstants, FileKinds
  <2>6. Presets!PresetsCarryNoSecret'
    BY <1>0, <2>2, <2>3, <2>4, FileKinds DEF Clean
  <2>7. Presets!StoredPresetsStay'
    BY <1>0, <2>2, <2>3, <2>4, <2>5 DEF Clean
  <2>8. /\ json' \in [Folded -> Presets!Files] /\ tmp' \in [Folded -> Presets!Files]
        /\ stored' \subseteq Presets!Names /\ resaved' \subseteq Presets!Names /\ JobInv'
    BY <1>0, <2>2, <2>3, <2>4, FileKinds
  <2>9. QED BY <2>2, <2>6, <2>7, <2>8
<1>7. ASSUME NEW n \in Presets!Names, Presets!Delete(n) PROVE PresetCardInv'
  <2>1. /\ job = Presets!NoJob /\ json[Presets!Fold(n)].name = n
        /\ json' = [json EXCEPT ![Presets!Fold(n)] = Presets!NoFile]
        /\ stored' = stored \ {n} /\ resaved' = resaved \ {n} /\ UNCHANGED <<tmp, job>>
    BY <1>7 DEF Presets!Delete
  <2>2. Presets!Fold(n) \in Folded BY PresetsConstants
  <2>3. QED BY <1>0, <2>1, <2>2, FileKinds
<1>8. ASSUME Presets!PowerLoss PROVE PresetCardInv'
  BY <1>0, <1>8, Zenon DEF Presets!PowerLoss
<1>9. ASSUME NEW n \in Presets!Names, NEW d \in Presets!Foreign \cup {Presets!Partial},
             Presets!EditCard(n, d)
      PROVE PresetCardInv'
  <2> DEFINE made == [name |-> n, doc |-> d]
  <2>1. /\ job = Presets!NoJob /\ json' = [json EXCEPT ![Presets!Fold(n)] = made]
        /\ stored' = {m \in stored : Presets!Fold(m) # Presets!Fold(n)}
        /\ resaved' = {m \in resaved : Presets!Fold(m) # Presets!Fold(n)}
        /\ UNCHANGED <<tmp, job>>
    BY <1>9 DEF Presets!EditCard
  <2>2. d \in Presets!Documents \cup {Presets!Partial} BY DEF Presets!Foreign
  <2>3. Presets!Fold(n) \in Folded /\ made \in Presets!Files
    BY <2>2, PresetsConstants, FileKinds
  <2> HIDE DEF made
  <2>4. QED BY <1>0, <2>1, <2>3
<1>10. ASSUME \/ \E d \in Presets!Posted : Presets!PostSettings(d)
              \/ \E d \in Presets!Foreign \cup {Presets!Partial} : Presets!Import(d)
              \/ \E n \in Presets!Names : Presets!Load(n)
              \/ UNCHANGED presetsAll
       PROVE UNCHANGED <<json, tmp, job, stored, resaved>>
  BY <1>10, Zenon DEF Presets!PostSettings, Presets!Import, Presets!Load, presetsAll
<1> HIDE DEF PresetCardInv
<1>11. QED
  BY <1>1, <1>2, <1>3, <1>4, <1>5, <1>6, <1>7, <1>8, <1>9, <1>10, Zenon DEF Presets!Next

\* The invariant is inductive.
LEMMA PresetsStep == PresetsInv /\ [Presets!Next]_presetsAll => PresetsInv'
<1> SUFFICES ASSUME PresetsInv, [Presets!Next]_presetsAll PROVE PresetsInv' OBVIOUS
<1>1. CredentialsInv' /\ PresetCardInv' BY CredentialsStep, CardStep
<1>2. QED
  BY <1>1, Zenon
     DEF PresetsInv, CredentialsInv, PresetCardInv, Presets!TypeOK, Presets!PresetsAreSafe

(* Names of presets.                                                       *)

\* Any character: those of the extensions and those names are tried with.
Characters == Alphabet \cup {".", "j", "s", "o", "n", "t", "m", "p"}

\* A name is a sequence that is not empty.
LEMMA NamesAreSequences ==
  ASSUME NEW n \in CardNames!Names
  PROVE  n \in Seq(Characters) /\ Len(n) \in Nat /\ Len(n) > 0
<1>1. NameMax \in Nat BY ServicesAssumption DEF CardNames!ConstantsOK
<1>2. PICK k \in 1..(NameMax + 1) : n \in [1..k -> Alphabet] BY <1>1 DEF CardNames!Names
<1>3. k \in Nat /\ k > 0 BY <1>1
<1>4. n \in [1..k -> Characters] BY <1>2 DEF Characters
<1>5. QED BY <1>3, <1>4

\* The characters of a preset's file.
LEMMA FileCharacters ==
  ASSUME NEW n \in Seq(Characters)
  PROVE  LET path == CardNames!FileOf(n)  L == Len(n)
         IN /\ path \in Seq(Characters) /\ Len(path) = L + 5
            /\ \A i \in 1..L : path[i] = n[i]
            /\ path[L + 1] = "." /\ path[L + 2] = "j" /\ path[L + 3] = "s"
            /\ path[L + 4] = "o" /\ path[L + 5] = "n"
<1>1. Len(n) \in Nat OBVIOUS
<1>2. CardNames!Extension \in Seq(Characters) BY DEF CardNames!Extension, Characters
<1>3. QED BY <1>1, <1>2 DEF CardNames!FileOf, CardNames!Extension

\* The characters of the file of a save under way.
LEMMA TmpCharacters ==
  ASSUME NEW n \in Seq(Characters)
  PROVE  LET path == CardNames!TmpOf(n)  L == Len(n)
         IN /\ path \in Seq(Characters) /\ Len(path) = L + 9
            /\ path[L + 5] = "n" /\ path[L + 9] = "p"
<1> DEFINE base == CardNames!FileOf(n)
           tail == <<".", "t", "m", "p">>
<1>1. Len(n) \in Nat OBVIOUS
<1>2. base \in Seq(Characters) /\ Len(base) = Len(n) + 5 /\ base[Len(n) + 5] = "n"
  BY FileCharacters
<1>3. tail \in Seq(Characters) /\ Len(tail) = 4 /\ tail[4] = "p" BY DEF Characters
<1>4. CardNames!TmpOf(n) = base \o tail BY Zenon DEF CardNames!TmpOf
<1> HIDE DEF base, tail
<1>5. /\ base \o tail \in Seq(Characters) /\ Len(base \o tail) = Len(base) + Len(tail)
      /\ \A i \in 1..(Len(base) + Len(tail)) :
           (base \o tail)[i] = IF i <= Len(base) THEN base[i] ELSE tail[i - Len(base)]
  BY <1>2, <1>3, ConcatProperties, Zenon
<1>6. /\ Len(base) + Len(tail) = Len(n) + 9
      /\ Len(n) + 5 \in 1..(Len(base) + Len(tail)) /\ Len(n) + 5 <= Len(base)
      /\ Len(n) + 9 \in 1..(Len(base) + Len(tail)) /\ ~(Len(n) + 9 <= Len(base))
      /\ Len(n) + 9 - Len(base) = 4
  BY <1>1, <1>2, <1>3
<1>7. (base \o tail)[Len(n) + 5] = base[Len(n) + 5] BY <1>5, <1>6, Zenon
<1>8. (base \o tail)[Len(n) + 9] = tail[4] BY <1>1, <1>2, <1>3, <1>5, <1>6
<1>9. QED BY <1>2, <1>3, <1>4, <1>5, <1>6, <1>7, <1>8, Zenon

\* A file that has a name's characters and, in whatever case, those of the extension is found
\* again as that name.
LEMMA FoundAgain ==
  ASSUME NEW n \in Seq(Characters), CardNames!Valid(n), NEW path \in Seq(Characters \cup {"J"}),
         Len(path) = Len(n) + 5, \A i \in 1..Len(n) : path[i] = n[i],
         path[Len(n) + 1] = ".", path[Len(n) + 2] \in {"j", "J"}, path[Len(n) + 3] = "s",
         path[Len(n) + 4] = "o", path[Len(n) + 5] = "n"
  PROVE  CardNames!NameFromFile(path) = n
<1> DEFINE L == Len(n)
           stem == SubSeq(path, 1, L)
           ext == SubSeq(path, L + 1, L + 5)
<1>1. L \in Nat /\ L > 0 /\ L <= NameMax /\ n # <<>>
  BY DEF CardNames!Valid
<1>2. stem = n
  <2>1. \A i \in 1..L : path[i] \in Characters \cup {"J"} BY <1>1
  <2>2. /\ stem \in Seq(Characters \cup {"J"})
        /\ Len(stem) = IF 1 <= L THEN L - 1 + 1 ELSE 0
        /\ \A i \in 1..(L - 1 + 1) : stem[i] = path[1 + i - 1]
    BY <1>1, <2>1, SubSeqProperties, SMT
  <2>3. Len(stem) = L /\ \A i \in 1..L : stem[i] = path[i] BY <1>1, <2>2
  <2>4. n \in Seq(Characters \cup {"J"}) BY SeqMonotonic
  <2>5. QED BY <2>2, <2>3, <2>4, SeqEqual
<1>3. CardNames!LowerCased(ext) = CardNames!Extension
  <2>1. \A i \in (L + 1)..(L + 5) : path[i] \in Characters \cup {"J"} BY <1>1
  <2>2. /\ ext \in Seq(Characters \cup {"J"})
        /\ Len(ext) = IF L + 1 <= L + 5 THEN L + 5 - (L + 1) + 1 ELSE 0
        /\ \A i \in 1..(L + 5 - (L + 1) + 1) : ext[i] = path[L + 1 + i - 1]
    BY <1>1, <2>1, SubSeqProperties, SMT
  <2>3. /\ DOMAIN ext = 1..5 /\ ext[1] = "." /\ ext[2] \in {"j", "J"} /\ ext[3] = "s"
        /\ ext[4] = "o" /\ ext[5] = "n"
    BY <1>1, <2>2
  <2> HIDE DEF ext
  <2>4. CardNames!LowerCased(ext) = [i \in 1..5 |-> CardNames!Lower(ext[i])]
    BY <2>3 DEF CardNames!LowerCased
  <2>5. /\ CardNames!Lower(ext[1]) = "." /\ CardNames!Lower(ext[2]) = "j"
        /\ CardNames!Lower(ext[3]) = "s" /\ CardNames!Lower(ext[4]) = "o"
        /\ CardNames!Lower(ext[5]) = "n"
    BY <2>3 DEF CardNames!Lower
  <2>6. QED BY <2>4, <2>5 DEF CardNames!Extension
<1>4. Len(CardNames!Extension) = 5 BY DEF CardNames!Extension
<1>5. Len(path) - Len(CardNames!Extension) = L /\ L + 5 = Len(path) BY <1>1, <1>4
<1> HIDE DEF stem, ext, L
<1>6. ~(L <= 0 \/ L > NameMax)
  BY <1>1, ServicesAssumption DEF CardNames!ConstantsOK
<1>7. QED BY <1>2, <1>3, <1>5, <1>6, Zenon DEF CardNames!NameFromFile, stem, ext

\* Which characters the proofs below rely on.
LEMMA CharacterKinds ==
  /\ "n" \notin CardNames!Trailing /\ "p" \notin CardNames!Trailing
  /\ "j" \notin CardNames!Allowed
BY Zenon DEF CardNames!Trailing, CardNames!Allowed

\* In the listing of a card that reports the extension in capitals.
LEMMA LoudCharacters ==
  ASSUME NEW n \in Seq(Characters), CardNames!Valid(n)
  PROVE  CardNames!NameFromFile(CardNames!Loud(CardNames!FileOf(n))) = n
<1> DEFINE L == Len(n)
           path == CardNames!FileOf(n)
           loud == CardNames!Loud(path)
           S == Characters \cup {"J"}
<1>1. /\ path \in Seq(Characters) /\ Len(path) = L + 5
      /\ \A i \in 1..L : path[i] = n[i]
      /\ path[L + 1] = "." /\ path[L + 2] = "j" /\ path[L + 3] = "s"
      /\ path[L + 4] = "o" /\ path[L + 5] = "n"
  BY FileCharacters, Zenon
<1>2. L \in Nat /\ DOMAIN path = 1..(L + 5) BY <1>1
<1>3. \A i \in 1..L : n[i] # "j"
  <2>1. \A i \in DOMAIN n : n[i] \in CardNames!Allowed BY Zenon DEF CardNames!Valid
  <2>2. DOMAIN n = 1..L OBVIOUS
  <2>3. QED BY <2>1, <2>2, CharacterKinds, Zenon
<1> HIDE DEF path, L
<1>4. loud = [i \in 1..(L + 5) |-> IF path[i] = "j" THEN "J" ELSE path[i]]
  BY <1>2, Zenon DEF CardNames!Loud
<1>5. loud \in [1..(L + 5) -> S] BY <1>1, <1>2, <1>4
<1> HIDE DEF loud, S
<1>6. loud \in Seq(S) /\ Len(loud) = L + 5 BY <1>2, <1>5
<1>7. /\ \A i \in 1..L : loud[i] = n[i]
      /\ loud[L + 1] = "." /\ loud[L + 2] \in {"j", "J"} /\ loud[L + 3] = "s"
      /\ loud[L + 4] = "o" /\ loud[L + 5] = "n"
  BY <1>1, <1>2, <1>3, <1>4
<1>8. QED BY <1>6, <1>7, FoundAgain, Zenon DEF L, S, loud, path

\* An instance counts as everybody does.
LEMMA SameCardinality == \A S : CardNames!Cardinality(S) = Cardinality(S)
BY Zenon DEF CardNames!Cardinality, Cardinality

\* A card opens a file under its own name when nothing trails it.
LEMMA NothingTrails ==
  ASSUME NEW path \in Seq(Characters), Len(path) > 0, path[Len(path)] \notin CardNames!Trailing
  PROVE  /\ CardNames!CardFile(path) = CardNames!LowerCased(path)
         /\ DOMAIN CardNames!LowerCased(path) = 1..Len(path)
         /\ \A i \in 1..Len(path) : CardNames!LowerCased(path)[i] = CardNames!Lower(path[i])
<1> DEFINE L == Len(path)
           kept == {i \in DOMAIN path : \E j \in i..L : path[j] \notin CardNames!Trailing}
<1>1. L \in Nat /\ DOMAIN path = 1..L OBVIOUS
<1>2. kept = 1..L BY <1>1
<1>3. Cardinality(kept) = L
  <2>1. Cardinality(1..L) = IF 1 > L THEN 0 ELSE L - 1 + 1 BY <1>1, FS_Interval
  <2>2. Cardinality(1..L) = L BY <1>1, <2>1
  <2>3. QED BY <1>2, <2>2, Zenon
<1>4. SubSeq(path, 1, L) = path BY SubSeqFull
<1> HIDE DEF kept, L
<1>5. CardNames!CardFile(path) = CardNames!LowerCased(path)
  BY <1>3, <1>4, SameCardinality, Zenon DEF CardNames!CardFile, kept, L
<1>6. QED BY <1>1, <1>5 DEF CardNames!LowerCased, L

\* A file under way is nobody's preset: where the extension would be is something else.
LEMMA UnderWayIsNobodys ==
  ASSUME NEW n \in Seq(Characters)
  PROVE  CardNames!NameFromFile(CardNames!TmpOf(n)) = CardNames!None
<1> DEFINE L == Len(n)
           path == CardNames!TmpOf(n)
           ext == SubSeq(path, L + 5, L + 9)
<1>1. path \in Seq(Characters) /\ Len(path) = L + 9 /\ path[L + 5] = "n"
  BY TmpCharacters, Zenon
<1>2. L \in Nat OBVIOUS
<1> HIDE DEF path, L
<1>3. \A i \in (L + 5)..(L + 9) : path[i] \in Characters BY <1>1, <1>2
<1>4. /\ ext \in Seq(Characters)
      /\ Len(ext) = IF L + 5 <= L + 9 THEN L + 9 - (L + 5) + 1 ELSE 0
      /\ \A i \in 1..(L + 9 - (L + 5) + 1) : ext[i] = path[L + 5 + i - 1]
  BY <1>2, <1>3, SubSeqProperties, SMT
<1>5. DOMAIN ext = 1..5 /\ ext[1] = "n" BY <1>1, <1>2, <1>4
<1> HIDE DEF ext
<1>6. CardNames!LowerCased(ext)[1] = "n" BY <1>5 DEF CardNames!LowerCased, CardNames!Lower
<1>7. CardNames!Extension[1] = "." /\ Len(CardNames!Extension) = 5
  BY DEF CardNames!Extension
<1>8. Len(path) - Len(CardNames!Extension) + 1 = L + 5 /\ Len(path) = L + 9
  BY <1>1, <1>2, <1>7
<1>9. CardNames!LowerCased(ext) # CardNames!Extension BY <1>6, <1>7
<1>10. QED BY <1>8, <1>9, Zenon DEF CardNames!NameFromFile, ext, path

\* A file whose stem is no valid name is not listed.
LEMMA OnlyValidIsListed ==
  ASSUME NEW n \in Seq(Characters), ~CardNames!Valid(n)
  PROVE  CardNames!NameFromFile(CardNames!FileOf(n)) = CardNames!None
<1> DEFINE L == Len(n)
           path == CardNames!FileOf(n)
<1>1. /\ path \in Seq(Characters) /\ Len(path) = L + 5
      /\ \A i \in 1..L : path[i] = n[i]
  BY FileCharacters, Zenon
<1>2. L \in Nat OBVIOUS
<1>3. \A i \in 1..L : path[i] \in Characters BY <1>1, <1>2
<1>4. /\ SubSeq(path, 1, L) \in Seq(Characters)
      /\ Len(SubSeq(path, 1, L)) = IF 1 <= L THEN L - 1 + 1 ELSE 0
      /\ \A i \in 1..(L - 1 + 1) : SubSeq(path, 1, L)[i] = path[1 + i - 1]
  BY <1>2, <1>3, SubSeqProperties, SMT
<1>5. Len(SubSeq(path, 1, L)) = L /\ \A i \in 1..L : SubSeq(path, 1, L)[i] = path[i]
  BY <1>2, <1>4
<1>6. SubSeq(path, 1, L) = n BY <1>1, <1>4, <1>5, SeqEqual
<1>7. Len(path) - Len(CardNames!Extension) = L BY <1>1, <1>2 DEF CardNames!Extension
<1> HIDE DEF path, L
<1>8. QED BY <1>6, <1>7, Zenon DEF CardNames!NameFromFile, path

\* Two names are one file exactly when they are equal without regard to case, and the file of
\* a save under way is never that of a preset.
LEMMA FilesTellNamesApart ==
  ASSUME NEW n \in Seq(Characters), NEW m \in Seq(Characters)
  PROVE  /\ CardNames!CardFile(CardNames!FileOf(n)) = CardNames!LowerCased(CardNames!FileOf(n))
         /\ CardNames!EqualFold(n, m) <=>
              CardNames!CardFile(CardNames!FileOf(n)) = CardNames!CardFile(CardNames!FileOf(m))
         /\ CardNames!CardFile(CardNames!TmpOf(n)) # CardNames!CardFile(CardNames!FileOf(m))
<1> DEFINE Ends(s) ==
             /\ CardNames!CardFile(s) = CardNames!LowerCased(s)
             /\ DOMAIN CardNames!LowerCased(s) = 1..Len(s)
             /\ \A i \in 1..Len(s) : CardNames!LowerCased(s)[i] = CardNames!Lower(s[i])
           Extends(s, t) ==
             /\ Len(s) = Len(t) + 5 /\ \A i \in 1..Len(t) : s[i] = t[i]
             /\ s[Len(t) + 1] = "." /\ s[Len(t) + 2] = "j" /\ s[Len(t) + 3] = "s"
             /\ s[Len(t) + 4] = "o" /\ s[Len(t) + 5] = "n"
           x == CardNames!FileOf(n)
           y == CardNames!FileOf(m)
           z == CardNames!TmpOf(n)
<1>1. Extends(x, n) /\ Extends(y, m) /\ x \in Seq(Characters) /\ y \in Seq(Characters)
  BY FileCharacters, Zenon
<1>2. z \in Seq(Characters) /\ Len(z) = Len(n) + 9 /\ z[Len(n) + 9] = "p"
  BY TmpCharacters, Zenon
<1>3. Len(n) \in Nat /\ Len(m) \in Nat /\ Len(x) > 0 /\ Len(y) > 0 /\ Len(z) > 0
  BY <1>1, <1>2
<1>4. x[Len(x)] = "n" /\ y[Len(y)] = "n" /\ z[Len(z)] = "p" BY <1>1, <1>2, Zenon
<1>5. Ends(x) /\ Ends(y) /\ Ends(z)
  BY <1>1, <1>2, <1>3, <1>4, CharacterKinds, NothingTrails, Zenon
<1> HIDE DEF x, y, z
<1>6. ASSUME CardNames!EqualFold(n, m)
      PROVE  CardNames!LowerCased(x) = CardNames!LowerCased(y)
  <2>1. Len(x) = Len(y) /\ Len(n) = Len(m)
    BY <1>1, <1>6 DEF CardNames!EqualFold
  <2>2. \A i \in 1..Len(x) : CardNames!Lower(x[i]) = CardNames!Lower(y[i])
    <3>1. SUFFICES ASSUME NEW i \in 1..(Len(n) + 5)
                   PROVE  CardNames!Lower(x[i]) = CardNames!Lower(y[i])
      BY <1>1
    <3>2. CASE i \in 1..Len(n)
      <4>1. CardNames!Lower(n[i]) = CardNames!Lower(m[i])
        BY <1>6, <3>2 DEF CardNames!EqualFold
      <4>2. x[i] = n[i] /\ y[i] = m[i] BY <1>1, <2>1, <3>2
      <4>3. QED BY <4>1, <4>2
    <3>3. CASE i \notin 1..Len(n)
      <4>1. i \in {Len(n) + 1, Len(n) + 2, Len(n) + 3, Len(n) + 4, Len(n) + 5}
        <5> DEFINE L == Len(n)
        <5>1. L \in Nat /\ i \in 1..(L + 5) /\ i \notin 1..L BY <1>3, <3>3
        <5> HIDE DEF L
        <5>2. i \in {L + 1, L + 2, L + 3, L + 4, L + 5} BY <5>1
        <5>3. QED BY <5>2 DEF L
      <4>2. x[i] = y[i] BY <1>1, <2>1, <4>1
      <4>3. QED BY <4>2
    <3>4. QED BY <3>2, <3>3
  <2>3. /\ CardNames!LowerCased(x) = [i \in 1..Len(x) |-> CardNames!LowerCased(x)[i]]
        /\ CardNames!LowerCased(y) = [i \in 1..Len(y) |-> CardNames!LowerCased(y)[i]]
    BY <1>5 DEF CardNames!LowerCased
  <2>4. \A i \in 1..Len(x) : CardNames!LowerCased(x)[i] = CardNames!LowerCased(y)[i]
    BY <1>5, <2>1, <2>2
  <2>5. QED BY <2>1, <2>3, <2>4
<1>7. ASSUME CardNames!LowerCased(x) = CardNames!LowerCased(y)
      PROVE  CardNames!EqualFold(n, m)
  <2>1. 1..Len(x) = 1..Len(y) BY <1>5, <1>7, Zenon
  <2>2. Len(x) \in Nat /\ Len(y) \in Nat BY <1>1
  <2>3. Len(x) = Len(y) BY <1>3, <2>1, <2>2
  <2>4. Len(n) = Len(m) BY <1>1, <1>3, <2>3
  <2>5. ASSUME NEW i \in 1..Len(n) PROVE CardNames!Lower(n[i]) = CardNames!Lower(m[i])
    <3>1. i \in 1..Len(x) /\ i \in 1..Len(y) BY <1>1, <1>3, <2>4
    <3>2. CardNames!Lower(x[i]) = CardNames!Lower(y[i]) BY <1>5, <1>7, <3>1, Zenon
    <3>3. x[i] = n[i] /\ y[i] = m[i] BY <1>1, <2>4
    <3>4. QED BY <3>2, <3>3
  <2>6. DOMAIN n = 1..Len(n) OBVIOUS
  <2>7. QED BY <2>4, <2>5, <2>6 DEF CardNames!EqualFold
<1>8. CardNames!LowerCased(z) # CardNames!LowerCased(y)
  <2>1. SUFFICES ASSUME CardNames!LowerCased(z) = CardNames!LowerCased(y) PROVE FALSE OBVIOUS
  <2>2. 1..Len(z) = 1..Len(y) BY <1>5, <2>1, Zenon
  <2>3. Len(z) \in Nat /\ Len(y) \in Nat BY <1>1, <1>2
  <2>4. Len(z) = Len(y) /\ Len(z) \in 1..Len(z) BY <1>3, <2>2, <2>3
  <2>5. CardNames!Lower(z[Len(z)]) = CardNames!Lower(y[Len(z)])
    BY <1>5, <2>1, <2>2, <2>4, Zenon
  <2>6. CardNames!Lower("p") = "p" /\ CardNames!Lower("n") = "n" BY DEF CardNames!Lower
  <2>7. QED BY <1>4, <2>4, <2>5, <2>6
<1>9. QED BY <1>5, <1>6, <1>7, <1>8, Zenon DEF x, y, z

\* Every name has its file: in whatever case the card lists it, whatever other names there are.
LEMMA EveryNameIsItsFile ==
  ASSUME NEW n \in CardNames!Names
  PROVE  CardNames!NameIsItsFile(n)
<1>1. n \in Seq(Characters) BY NamesAreSequences
<1>2. ASSUME CardNames!Valid(n)
      PROVE  /\ CardNames!NameFromFile(CardNames!FileOf(n)) = n
             /\ CardNames!NameFromFile(CardNames!Loud(CardNames!FileOf(n))) = n
  <2>1. CardNames!FileOf(n) \in Seq(Characters \cup {"J"})
    BY <1>1, FileCharacters, SeqMonotonic
  <2>2. CardNames!NameFromFile(CardNames!FileOf(n)) = n
    BY <1>1, <1>2, <2>1, FileCharacters, FoundAgain, Zenon
  <2>3. QED BY <1>1, <1>2, <2>2, LoudCharacters
<1>3. ASSUME NEW m \in CardNames!Names
      PROVE  /\ CardNames!CardFile(CardNames!FileOf(n)) = CardNames!LowerCased(CardNames!FileOf(n))
             /\ CardNames!EqualFold(n, m) <=>
                  CardNames!CardFile(CardNames!FileOf(n)) =
                    CardNames!CardFile(CardNames!FileOf(m))
             /\ CardNames!CardFile(CardNames!TmpOf(n)) # CardNames!CardFile(CardNames!FileOf(m))
  <2>1. m \in Seq(Characters) BY NamesAreSequences
  <2>2. QED BY <1>1, <2>1, FilesTellNamesApart
<1>4. QED
  BY <1>1, <1>2, <1>3, UnderWayIsNobodys, OnlyValidIsListed, Zenon DEF CardNames!NameIsItsFile

-----------------------------------------------------------------------------
\* Whatever is posted, imported, loaded and saved in whatever order, with or without power: no
\* password goes to a host it was not given to, no file of the device carries one, and a stored
\* preset is there until it is deleted or saved again; and a preset's name is that of its file
\* (PresetsAreSafe).
THEOREM PresetsStaySafe == ServicesSpec => []PresetsAreSafe
<1> DEFINE Inv == /\ focus = "presets" => PresetsInv
                  /\ focus = "names" => input \in CardNames!Names
<1>1. ServicesInit => Inv
  <2>1. ServicesInit => (focus = "presets" => PresetsInv)
    BY PresetsStart, Zenon DEF ServicesInit
  <2>2. ASSUME ServicesInit, focus = "names" PROVE input \in CardNames!Names
    <3>1. Inputs("names") = CardNames!Names BY DEF Inputs
    <3>2. QED BY <2>2, <3>1, Zenon DEF ServicesInit
  <2>3. QED BY <2>1, <2>2, Zenon
<1>2. Inv /\ Step => Inv'
  <2>1. PresetsInv /\ Step /\ focus = "presets" => PresetsInv'
    BY PresetsMove, PresetsStep, Zenon
  <2>2. QED BY <2>1, FocusStays, InputStays, Zenon
<1>3. Inv => PresetsAreSafe
  BY EveryNameIsItsFile, Zenon DEF PresetsInv, PresetsAreSafe
<1> HIDE DEF Inv
<1>4. QED BY <1>1, <1>2, <1>3, PTL DEF ServicesSpec, Step
-----------------------------------------------------------------------------
(* The broker.                                                             *)

\* The configs sent since the connection was made are those before the next one, and all of
\* them once discovery is over.
SentInv ==
  /\ idx \in 0..SensorCount /\ sent \subseteq 0..SensorCount
  /\ connected => sent = IF pub THEN 0..SensorCount ELSE 0..(idx - 1)

\* The high-water mark is at least what subscribers were told, and they were told no dip.
ToldInv ==
  /\ {energy, highWater, mqTold.now, mqTold.peak} \subseteq 0..MaxEnergy
  /\ mqTold.now = mqTold.peak /\ mqTold.peak <= highWater

\* What the broker holds of the device.
SessionInv ==
  /\ link \in {"ok", "broken"} /\ will \in {BaseTopic} \cup {"none"}
  /\ retained \in [{BaseTopic} -> {"none", "online", "offline"}]
  /\ Broker!OnlineHasAWill

\* The waits and the failures they follow.
BackoffInv ==
  /\ sinceAttempt \in 0..Broker!LongestWait /\ sincePublish \in 0..Interval
  /\ backoff \in {1, 2, 4, 6} /\ fails \in 0..3
  /\ Broker!BackoffFollowsFailures

\* Settings and flags.
FlagsInv ==
  /\ mqttCfg \in [enabled : BOOLEAN, topic : {BaseTopic}, discovery : BOOLEAN]
  /\ connected \in BOOLEAN /\ mqNamed \in BOOLEAN /\ pub \in BOOLEAN /\ dark \in BOOLEAN

\* What every step of the connection keeps.
BrokerInv == FlagsInv /\ SentInv /\ ToldInv /\ SessionInv /\ BackoffInv

\* When the connection is in focus, a step is one of its own.
LEMMA BrokerMoves == Step /\ focus = "mqtt" => [Broker!Next]_mqttAll
BY Zenon DEF Step, ServicesNext, Rest, servicesVars

\* What the proofs below use of the constants.
LEMMA BrokerConstants ==
  BaseTopic # "none" /\ SensorCount \in Nat /\ Interval \in Nat /\ MaxEnergy \in Nat
BY ServicesAssumption DEF Broker!ConstantsOK

\* The parts of the invariant say what is promised.
LEMMA BrokerPromise ==
  BrokerInv => Broker!TypeOK /\ Broker!BrokerViewIsSound /\ Broker!BackoffFollowsFailures
<1> SUFFICES ASSUME BrokerInv
             PROVE  Broker!TypeOK /\ Broker!BrokerViewIsSound /\ Broker!BackoffFollowsFailures
  OBVIOUS
<1> USE DEF BrokerInv, FlagsInv, SentInv, ToldInv, SessionInv, BackoffInv
<1>1. {connected, mqNamed, pub, dark} \subseteq BOOLEAN BY Zenon
<1>2. Broker!TypeOK BY <1>1, Zenon DEF Broker!TypeOK
<1>3. Broker!DiscoveryIsWhole BY Zenon DEF Broker!DiscoveryIsWhole
<1>4. QED BY <1>2, <1>3, Zenon DEF Broker!BrokerViewIsSound, Broker!EnergyNeverDips

\* Nothing was sent before the first connection.
LEMMA BrokerStarts == Broker!Init => BrokerInv
<1> SUFFICES ASSUME Broker!Init PROVE BrokerInv OBVIOUS
<1> USE DEF Broker!Init
<1>1. FlagsInv BY Zenon DEF FlagsInv
<1>2. SentInv BY BrokerConstants DEF SentInv
<1>3. ToldInv BY BrokerConstants DEF ToldInv
<1>4. SessionInv BY DEF SessionInv, Broker!OnlineHasAWill
<1>5. BackoffInv
  BY BrokerConstants DEF BackoffInv, Broker!LongestWait, Broker!BackoffFollowsFailures
<1>6. QED BY <1>1, <1>2, <1>3, <1>4, <1>5, Zenon DEF BrokerInv

\* Settings and flags stay settings and flags.
LEMMA FlagsStep == FlagsInv /\ [Broker!Next]_mqttAll => FlagsInv'
<1> SUFFICES ASSUME FlagsInv, [Broker!Next]_mqttAll PROVE FlagsInv' OBVIOUS
<1> USE DEF FlagsInv, Broker!settingVars, Broker!deviceVars, Broker!timerVars, Broker!brokerVars
<1>1. ASSUME NEW topic, Broker!MqttConfigure(topic)
      PROVE  /\ connected' \in BOOLEAN /\ pub' = FALSE /\ mqNamed' = FALSE
  BY <1>1, Zenon DEF Broker!MqttConfigure, Broker!Disconnect
<1>2. ASSUME NEW c \in [enabled : BOOLEAN, topic : {BaseTopic}, discovery : BOOLEAN],
             Broker!Apply(c)
      PROVE FlagsInv'
  BY <1>1, <1>2, Zenon DEF Broker!Apply
<1>3. CASE Broker!TaskDisabled BY <1>1, <1>3, Zenon DEF Broker!TaskDisabled
<1>4. CASE Broker!TaskConnectFails
  <2>1. mqNamed' \in BOOLEAN BY <1>4, Zenon DEF Broker!TaskConnectFails
  <2>2. QED BY <1>4, <2>1, Zenon DEF Broker!TaskConnectFails
<1>5. CASE Broker!TaskConnects BY <1>5, Zenon DEF Broker!TaskConnects
<1>6. CASE Broker!DiscoverSensor BY <1>6, Zenon DEF Broker!DiscoverSensor
<1>7. CASE Broker!DiscoverFault BY <1>7, Zenon DEF Broker!DiscoverFault
<1>8. CASE Broker!PublishDue BY <1>8, Zenon DEF Broker!PublishDue
<1>9. CASE Broker!Tick \/ Broker!LinkBreaks \/ Broker!LinkNoticed \/ Broker!BrokerDrops
           \/ Broker!MeterMoves
  BY <1>9, Zenon
  DEF Broker!Tick, Broker!LinkBreaks, Broker!LinkNoticed, Broker!BrokerDrops, Broker!MeterMoves
<1>10. CASE Broker!GateChanges
  <2>1. dark' \in BOOLEAN BY <1>10, Zenon DEF Broker!GateChanges
  <2>2. QED BY <1>10, <2>1, Zenon DEF Broker!GateChanges
<1>11. CASE UNCHANGED mqttAll BY <1>11, Zenon DEF mqttAll
<1>12. QED
  BY <1>2, <1>3, <1>4, <1>5, <1>6, <1>7, <1>8, <1>9, <1>10, <1>11, Zenon DEF Broker!Next

\* Discovery counts what it sends and starts over with each connection.
LEMMA SentStep == FlagsInv /\ SentInv /\ [Broker!Next]_mqttAll => SentInv'
<1> SUFFICES ASSUME FlagsInv, SentInv, [Broker!Next]_mqttAll PROVE SentInv' OBVIOUS
<1> USE DEF SentInv, Broker!settingVars, Broker!deviceVars, Broker!timerVars, Broker!brokerVars
<1>1. ASSUME UNCHANGED <<idx, sent>>, connected' => connected /\ pub' = pub PROVE SentInv'
  <2>1. idx' = idx /\ sent' = sent BY <1>1, Zenon
  <2>2. CASE ~connected' BY <2>1, <2>2, Zenon
  <2>3. CASE connected' /\ pub BY <1>1, <2>1, <2>3, Zenon
  <2>4. CASE connected' /\ ~pub
    <3>1. pub' = pub /\ connected BY <1>1, <2>4, Zenon
    <3>2. ~pub' BY <2>4, <3>1
    <3>3. sent = 0..(idx - 1) BY <2>4, <3>1
    <3>4. sent' = 0..(idx' - 1) BY <2>1, <3>3, Zenon
    <3>5. QED BY <2>1, <3>2, <3>4, Zenon
  <2>5. QED BY <2>2, <2>3, <2>4, Zenon
<1>2. ASSUME NEW topic, Broker!MqttConfigure(topic) PROVE SentInv'
  <2>1. UNCHANGED <<idx, sent>> BY <1>2, Zenon DEF Broker!MqttConfigure
  <2>2. ~connected' BY <1>2, Zenon DEF Broker!MqttConfigure, Broker!Disconnect
  <2>3. QED BY <1>1, <2>1, <2>2, Zenon
<1>3. CASE Broker!TaskDisabled
        \/ \E c \in [enabled : BOOLEAN, topic : {BaseTopic}, discovery : BOOLEAN] : Broker!Apply(c)
  BY <1>2, <1>3, Zenon DEF Broker!TaskDisabled, Broker!Apply
<1>4. CASE Broker!TaskConnectFails
  <2>1. idx' = 0 /\ sent' = sent /\ ~connected'
    BY <1>4, Zenon DEF Broker!TaskConnectFails, Broker!AttemptDue
  <2>2. QED BY <2>1, BrokerConstants
<1>5. CASE Broker!TaskConnects
  <2>1. idx' = 0 /\ sent' = {} /\ ~pub' BY <1>5, Zenon DEF Broker!TaskConnects
  <2>2. QED BY <2>1, BrokerConstants
<1>6. CASE Broker!DiscoverSensor
  <2>1. /\ connected /\ ~pub /\ ~pub' /\ idx < SensorCount
        /\ idx' = idx + 1 /\ sent' = sent \cup {idx}
    BY <1>6, Zenon DEF Broker!DiscoverSensor, Broker!Maintained, FlagsInv
  <2>2. QED BY <2>1, BrokerConstants
<1>7. CASE Broker!DiscoverFault
  <2>1. /\ connected /\ ~pub /\ pub' = TRUE /\ idx = SensorCount /\ idx' = idx
        /\ sent' = sent \cup {idx}
    BY <1>7, Zenon DEF Broker!DiscoverFault, Broker!Maintained
  <2>2. QED BY <2>1, BrokerConstants
<1>8. CASE \/ Broker!PublishDue \/ Broker!Tick \/ Broker!LinkBreaks \/ Broker!BrokerDrops
           \/ Broker!MeterMoves \/ Broker!GateChanges \/ UNCHANGED mqttAll
  <2>1. UNCHANGED <<idx, sent, connected, pub>>
    BY <1>8, Zenon
    DEF Broker!PublishDue, Broker!Tick, Broker!LinkBreaks, Broker!BrokerDrops, Broker!MeterMoves,
        Broker!GateChanges, mqttAll
  <2>2. QED BY <1>1, <2>1, Zenon
<1>9. CASE Broker!LinkNoticed BY <1>1, <1>9, Zenon DEF Broker!LinkNoticed
<1>10. QED BY <1>3, <1>4, <1>5, <1>6, <1>7, <1>8, <1>9, Zenon DEF Broker!Next

\* What subscribers are told is the high-water mark.
LEMMA ToldStep == ToldInv /\ [Broker!Next]_mqttAll => ToldInv'
<1> SUFFICES ASSUME ToldInv, [Broker!Next]_mqttAll PROVE ToldInv' OBVIOUS
<1> USE DEF ToldInv, Broker!settingVars, Broker!deviceVars, Broker!timerVars, Broker!brokerVars
<1>1. ASSUME UNCHANGED <<energy, highWater, mqTold>> PROVE ToldInv'
  BY <1>1, Zenon
<1>2. ASSUME energy' = energy, highWater' = IF energy > highWater THEN energy ELSE highWater,
             mqTold' \in {mqTold, Broker!Telling(highWater')}
      PROVE  ToldInv'
  <2>1. highWater' \in 0..MaxEnergy /\ highWater' >= highWater BY <1>2, BrokerConstants
  <2>2. ASSUME mqTold' = Broker!Telling(highWater')
        PROVE  mqTold'.now = highWater' /\ mqTold'.peak = highWater'
    BY <2>1, <2>2, BrokerConstants DEF Broker!Telling
  <2>3. QED BY <1>2, <2>1, <2>2, BrokerConstants
<1>3. ASSUME NEW topic, Broker!MqttConfigure(topic), energy' = energy PROVE ToldInv'
  BY <1>1, <1>3, Zenon DEF Broker!MqttConfigure, Broker!Disconnect
<1>4. CASE Broker!TaskDisabled
        \/ \E c \in [enabled : BOOLEAN, topic : {BaseTopic}, discovery : BOOLEAN] : Broker!Apply(c)
  BY <1>3, <1>4, Zenon DEF Broker!TaskDisabled, Broker!Apply
<1>5. CASE Broker!TaskConnects
  <2>1. CASE mqttCfg.discovery BY <1>1, <1>5, <2>1, Zenon DEF Broker!TaskConnects
  <2>2. CASE ~mqttCfg.discovery BY <1>2, <1>5, <2>2, Zenon DEF Broker!TaskConnects
  <2>3. QED BY <2>1, <2>2
<1>6. CASE Broker!DiscoverFault \/ Broker!PublishDue
  <2>1. energy' = energy /\ Broker!PublishState
    BY <1>6, Zenon DEF Broker!DiscoverFault, Broker!PublishDue
  <2>2. mqTold' \in {mqTold, Broker!Telling(highWater')} BY <2>1, Zenon DEF Broker!PublishState
  <2>3. QED BY <1>2, <2>1, <2>2, Zenon DEF Broker!PublishState
<1>7. CASE Broker!MeterMoves
  <2>1. energy' \in 0..MaxEnergy /\ UNCHANGED <<highWater, mqTold>>
    BY <1>7, Zenon DEF Broker!MeterMoves
  <2>2. QED BY <2>1, BrokerConstants
<1>8. CASE \/ Broker!TaskConnectFails \/ Broker!DiscoverSensor \/ Broker!Tick \/ Broker!LinkBreaks
           \/ Broker!LinkNoticed \/ Broker!BrokerDrops \/ Broker!GateChanges \/ UNCHANGED mqttAll
  BY <1>1, <1>8, Zenon
  DEF Broker!TaskConnectFails, Broker!DiscoverSensor, Broker!Tick, Broker!LinkBreaks,
      Broker!LinkNoticed, Broker!BrokerDrops, Broker!GateChanges, mqttAll
<1>9. QED BY <1>4, <1>5, <1>6, <1>7, <1>8, Zenon DEF Broker!Next

\* Whatever the link swallows: what is shown as online has a will that will take it back.
LEMMA SessionStep == FlagsInv /\ SessionInv /\ [Broker!Next]_mqttAll => SessionInv'
<1> SUFFICES ASSUME FlagsInv, SessionInv, [Broker!Next]_mqttAll PROVE SessionInv' OBVIOUS
<1> DEFINE Settings == [enabled : BOOLEAN, topic : {BaseTopic}, discovery : BOOLEAN]
<1> USE DEF SessionInv, Broker!OnlineHasAWill, Broker!settingVars, Broker!deviceVars,
        Broker!timerVars, Broker!brokerVars
<1>0. mqttCfg.topic = BaseTopic /\ BaseTopic # "none" BY BrokerConstants DEF FlagsInv
<1>1. ASSUME UNCHANGED <<link, will, retained>> PROVE SessionInv'
  BY <1>1, Zenon
<1>2. ASSUME Broker!MqttConfigure(BaseTopic) PROVE SessionInv'
  <2>1. CASE connected
    <3>1. /\ will' = (IF link = "ok" THEN "none" ELSE will) /\ link' = link
          /\ retained' = IF link = "ok" THEN [retained EXCEPT ![BaseTopic] = "offline"]
                         ELSE retained
      BY <1>2, <2>1, Zenon DEF Broker!MqttConfigure, Broker!Disconnect, Broker!Available
    <3>2. CASE link = "ok"
      <4>1. will' = "none" /\ retained' = [retained EXCEPT ![BaseTopic] = "offline"]
        BY <3>1, <3>2
      <4>2. QED BY <3>1, <3>2, <4>1
    <3>3. CASE link # "ok" BY <1>1, <3>1, <3>3, Zenon
    <3>4. QED BY <3>2, <3>3
  <2>2. CASE ~connected BY <1>1, <1>2, <2>2, Zenon DEF Broker!MqttConfigure
  <2>3. QED BY <2>1, <2>2
<1>3. CASE Broker!TaskDisabled BY <1>0, <1>2, <1>3, Zenon DEF Broker!TaskDisabled
<1>4. CASE \E c \in Settings : Broker!Apply(c)
  <2>1. PICK c \in Settings : Broker!Apply(c) BY <1>4
  <2>2. c.topic = BaseTopic OBVIOUS
  <2>3. QED BY <1>2, <2>1, <2>2, Zenon DEF Broker!Apply
<1>5. CASE Broker!TaskConnects
  <2> DEFINE closed == IF will # "none" THEN [retained EXCEPT ![will] = "offline"] ELSE retained
  <2>1. /\ link' = "ok" /\ will' = mqttCfg.topic
        /\ retained' = [closed EXCEPT ![mqttCfg.topic] = "online"]
    BY <1>5, Zenon DEF Broker!TaskConnects
  <2>2. closed \in [{BaseTopic} -> {"none", "online", "offline"}] OBVIOUS
  <2> HIDE DEF closed
  <2>3. QED BY <1>0, <2>1, <2>2
<1>6. CASE Broker!LinkBreaks
  <2>1. link' = "broken" /\ UNCHANGED <<will, retained>> BY <1>6, Zenon DEF Broker!LinkBreaks
  <2>2. QED BY <2>1
<1>7. CASE Broker!BrokerDrops
  <2>1. /\ will # "none" /\ will' = "none" /\ link' = link
        /\ retained' = [retained EXCEPT ![will] = "offline"]
    BY <1>7, Zenon DEF Broker!BrokerDrops
  <2>2. QED BY <2>1
<1>8. CASE \/ Broker!TaskConnectFails \/ Broker!DiscoverSensor \/ Broker!DiscoverFault
           \/ Broker!PublishDue \/ Broker!Tick \/ Broker!LinkNoticed \/ Broker!GateChanges
           \/ Broker!MeterMoves \/ UNCHANGED mqttAll
  <2>1. UNCHANGED <<link, will, retained>>
    BY <1>8, Zenon
    DEF Broker!TaskConnectFails, Broker!DiscoverSensor, Broker!DiscoverFault, Broker!PublishDue,
        Broker!Tick, Broker!LinkNoticed, Broker!GateChanges, Broker!MeterMoves, mqttAll
  <2>2. QED BY <1>1, <2>1
<1> HIDE DEF SessionInv
<1>9. QED BY <1>3, <1>4, <1>5, <1>6, <1>7, <1>8, Zenon DEF Broker!Next

\* The wait after an attempt is the one its failures in a row call for.
LEMMA BackoffStep == BackoffInv /\ [Broker!Next]_mqttAll => BackoffInv'
<1> SUFFICES ASSUME BackoffInv, [Broker!Next]_mqttAll PROVE BackoffInv' OBVIOUS
<1> USE DEF BackoffInv, Broker!settingVars, Broker!deviceVars, Broker!timerVars,
        Broker!brokerVars
<1>1. ASSUME UNCHANGED <<backoff, fails>>,
             sinceAttempt' \in 0..Broker!LongestWait, sincePublish' \in 0..Interval
      PROVE  BackoffInv'
  BY <1>1, Zenon DEF Broker!BackoffFollowsFailures
<1>2. 0 \in 0..Interval /\ 0 \in 0..Broker!LongestWait
      /\ Broker!LongestWait \in 0..Broker!LongestWait
  BY BrokerConstants DEF Broker!LongestWait
<1>3. ASSUME NEW topic, Broker!MqttConfigure(topic) PROVE BackoffInv'
  BY <1>1, <1>2, <1>3, Zenon DEF Broker!MqttConfigure
<1>4. CASE Broker!TaskDisabled
        \/ \E c \in [enabled : BOOLEAN, topic : {BaseTopic}, discovery : BOOLEAN] : Broker!Apply(c)
  BY <1>3, <1>4, Zenon DEF Broker!TaskDisabled, Broker!Apply
<1>5. CASE Broker!TaskConnectFails
  <2>1. /\ sinceAttempt' = 0 /\ sincePublish' = sincePublish
        /\ backoff' = Broker!NextBackoff(backoff)
        /\ fails' = IF fails < 3 THEN fails + 1 ELSE fails
    BY <1>5, Zenon DEF Broker!TaskConnectFails
  <2>2. \/ fails = 0 /\ backoff = 1 /\ fails' = 1 /\ backoff' = 2
        \/ fails = 1 /\ backoff = 2 /\ fails' = 2 /\ backoff' = 4
        \/ fails = 2 /\ backoff = 4 /\ fails' = 3 /\ backoff' = 6
        \/ fails = 3 /\ backoff = 6 /\ fails' = 3 /\ backoff' = 6
    BY <2>1 DEF Broker!NextBackoff, Broker!BackoffFollowsFailures, Broker!LongestWait
  <2>3. backoff' \in {1, 2, 4, 6} /\ fails' \in 0..3 /\ Broker!BackoffFollowsFailures'
    BY <2>2 DEF Broker!BackoffFollowsFailures, Broker!LongestWait
  <2>4. QED BY <1>2, <2>1, <2>3, Zenon
<1>6. CASE Broker!TaskConnects
  <2>1. sinceAttempt' = 0 /\ backoff' = 1 /\ fails' = 0
    BY <1>6, Zenon DEF Broker!TaskConnects, Broker!BackoffReset
  <2>2. sincePublish' \in {0, sincePublish} BY <1>6, Zenon DEF Broker!TaskConnects
  <2>3. QED BY <1>2, <2>1, <2>2 DEF Broker!BackoffFollowsFailures
<1>7. CASE Broker!Tick
  <2>1. sinceAttempt' \in 0..Broker!LongestWait /\ sincePublish' \in 0..Interval
    BY <1>7, BrokerConstants DEF Broker!Tick, Broker!Saturated, Broker!LongestWait
  <2>2. QED BY <1>1, <1>7, <2>1, Zenon DEF Broker!Tick
<1>8. CASE \/ Broker!DiscoverSensor \/ Broker!DiscoverFault \/ Broker!PublishDue
           \/ Broker!LinkBreaks \/ Broker!LinkNoticed \/ Broker!BrokerDrops \/ Broker!GateChanges
           \/ Broker!MeterMoves \/ UNCHANGED mqttAll
  <2>1. UNCHANGED <<backoff, fails, sinceAttempt>> /\ sincePublish' \in {0, sincePublish}
    BY <1>8, Zenon
    DEF Broker!DiscoverSensor, Broker!DiscoverFault, Broker!PublishDue, Broker!LinkBreaks,
        Broker!LinkNoticed, Broker!BrokerDrops, Broker!GateChanges, Broker!MeterMoves, mqttAll
  <2>2. QED BY <1>1, <1>2, <2>1, Zenon
<1> HIDE DEF BackoffInv
<1>9. QED BY <1>4, <1>5, <1>6, <1>7, <1>8, Zenon DEF Broker!Next

\* The invariant is inductive.
LEMMA BrokerStep == BrokerInv /\ [Broker!Next]_mqttAll => BrokerInv'
BY FlagsStep, SentStep, ToldStep, SessionStep, BackoffStep, Zenon DEF BrokerInv
-----------------------------------------------------------------------------
(* What the device publishes.                                              *)

\* The number of an entity by its object: the sensors in their order, then the fault.
EntityNumber(object) ==
  CASE object = "power" -> 1 [] object = "vrms" -> 2 [] object = "irms" -> 3
    [] object = "pf" -> 4 [] object = "energy" -> 5 [] object = "frequency" -> 6
    [] object = "index" -> 7 [] object = "hot" -> 8 [] object = "cold" -> 9
    [] object = "die" -> 10 [] object = "derate" -> 11 [] object = "pll" -> 12
    [] object = "aux_power" -> 13 [] object = "aux_voltage" -> 14
    [] object = "aux_current" -> 15 [] object = "aux_energy" -> 16 [] object = "fault" -> 17

\* All the keys there are for a device that has every reading.
AllKeys ==
  {"freq_hz", "index", "derate_pct", "fault", "pll", "power_w", "vrms_v", "irms_a", "pf",
   "energy_wh", "hot_c", "cold_c", "die_c", "aux_power_w", "aux_voltage_v", "aux_current_a",
   "aux_energy_wh"}

\* What a row of the table of sensors is good for.
SensorIs(s, i) ==
  /\ EntityNumber(s.object) = i /\ s.key \in AllKeys /\ s.key # "fault"
  /\ s.class = "energy" <=> s.counts = "total_increasing"

\* The rows of the table, one by one.
LEMMA SensorTable ==
  /\ Len(Published!Sensors) = 16 /\ DOMAIN Published!Sensors = 1..16
  /\ \A i \in 1..16 : SensorIs(Published!Sensors[i], i)
<1> DEFINE T == Published!Sensors
<1> USE DEF Published!Shown, Published!Entity, SensorIs, EntityNumber, AllKeys
<1>1. Len(T) = 16 /\ DOMAIN T = 1..16 BY DEF Published!Sensors
<1>2. SensorIs(T[1], 1) /\ SensorIs(T[2], 2) /\ SensorIs(T[3], 3) /\ SensorIs(T[4], 4)
  BY DEF Published!Sensors
<1>3. SensorIs(T[5], 5) /\ SensorIs(T[6], 6) /\ SensorIs(T[7], 7) /\ SensorIs(T[8], 8)
  BY DEF Published!Sensors
<1>4. SensorIs(T[9], 9) /\ SensorIs(T[10], 10) /\ SensorIs(T[11], 11) /\ SensorIs(T[12], 12)
  BY DEF Published!Sensors
<1>5. SensorIs(T[13], 13) /\ SensorIs(T[14], 14) /\ SensorIs(T[15], 15) /\ SensorIs(T[16], 16)
  BY DEF Published!Sensors
<1> HIDE DEF T, SensorIs
<1>6. ASSUME NEW i \in 1..16 PROVE SensorIs(T[i], i)
  <2>1. i \in {1, 2, 3, 4, 5, 6, 7, 8, 9, 10, 11, 12, 13, 14, 15, 16} OBVIOUS
  <2>2. QED BY <1>2, <1>3, <1>4, <1>5, <2>1
<1>7. QED BY <1>1, <1>6 DEF T

\* Every key but those of the fault and the alert is that of a sensor.
LEMMA SensorKeys ==
  \A k \in AllKeys \ {"fault"} : \E i \in 1..16 : Published!Sensors[i].key = k
<1> DEFINE T == Published!Sensors
<1> USE DEF Published!Shown, Published!Entity
<1>1. T[1].key = "power_w" /\ T[2].key = "vrms_v" /\ T[3].key = "irms_a" /\ T[4].key = "pf"
  BY DEF Published!Sensors
<1>2. T[5].key = "energy_wh" /\ T[6].key = "freq_hz" /\ T[7].key = "index" /\ T[8].key = "hot_c"
  BY DEF Published!Sensors
<1>3. /\ T[9].key = "cold_c" /\ T[10].key = "die_c" /\ T[11].key = "derate_pct"
      /\ T[12].key = "pll"
  BY DEF Published!Sensors
<1>4. /\ T[13].key = "aux_power_w" /\ T[14].key = "aux_voltage_v"
      /\ T[15].key = "aux_current_a" /\ T[16].key = "aux_energy_wh"
  BY DEF Published!Sensors
<1> HIDE DEF T
<1>5. \A k \in AllKeys \ {"fault"} : \E i \in 1..16 : T[i].key = k
  BY <1>1, <1>2, <1>3, <1>4 DEF AllKeys
<1>6. QED BY <1>5 DEF T

\* The entities of one device: the sensors, and the fault as the last.
EntityOf(node, i) ==
  IF i = 17
  THEN [topic |-> Published!DiscoveryTopic(<<"homeassistant">>, "binary_sensor", node, "fault"),
        config |-> Published!FaultConfig(<<"teg">>, node)]
  ELSE [topic |-> Published!DiscoveryTopic(<<"homeassistant">>, "sensor", node,
                                           Published!Sensors[i].object),
        config |-> Published!SensorConfig(Published!Sensors[i], <<"teg">>, node)]

\* What is retained for one device are its entities.
LEMMA RetainedAreEntities ==
  ASSUME NEW node
  PROVE  Published!Retained(<<"homeassistant">>, <<"teg">>, node)
           = {EntityOf(node, i) : i \in 1..17}
<1> DEFINE sensor(i) ==
             [topic |-> Published!DiscoveryTopic(<<"homeassistant">>, "sensor", node,
                                                 Published!Sensors[i].object),
              config |-> Published!SensorConfig(Published!Sensors[i], <<"teg">>, node)]
           faulty ==
             [topic |-> Published!DiscoveryTopic(<<"homeassistant">>, "binary_sensor", node,
                                                 "fault"),
              config |-> Published!FaultConfig(<<"teg">>, node)]
           made == Published!Retained(<<"homeassistant">>, <<"teg">>, node)
<1>1. made = {sensor(i) : i \in 1..16} \union {faulty}
  BY SensorTable, Zenon DEF Published!Retained
<1>2. \A i : EntityOf(node, i) = IF i = 17 THEN faulty ELSE sensor(i) BY Zenon DEF EntityOf
<1> HIDE DEF sensor, faulty, made
<1>3. 17 \in 1..17 /\ \A i \in 1..16 : i \in 1..17 /\ i # 17 BY SMT
<1>4. \A i \in 1..17 : i = 17 \/ i \in 1..16 BY SMT
<1>5. made \subseteq {EntityOf(node, i) : i \in 1..17} BY <1>1, <1>2, <1>3, Zenon
<1>6. {EntityOf(node, i) : i \in 1..17} \subseteq made BY <1>1, <1>2, <1>4, Zenon
<1>7. made = {EntityOf(node, i) : i \in 1..17} BY <1>5, <1>6, Zenon
<1>8. QED BY <1>7 DEF made

\* Who an entity belongs to and which one it is can be read off its topic and off its identity.
LEMMA EntityIdentity ==
  ASSUME NEW node, NEW i \in 1..17
  PROVE  LET e == EntityOf(node, i)
         IN /\ e.topic[3] = node /\ EntityNumber(e.topic[4]) = i
            /\ e.config.id[1] = node /\ EntityNumber(e.config.id[2]) = i
            /\ e.config.state[2] = node /\ e.config.state[3] = "state"
            /\ e.config.availability[2] = node /\ e.config.availability[3] = "availability"
<1>1. LET state == Published!StateTopic(<<"teg">>, node)
          availability == Published!AvailabilityTopic(<<"teg">>, node)
      IN /\ state[2] = node /\ state[3] = "state"
         /\ availability[2] = node /\ availability[3] = "availability"
  BY DEF Published!StateTopic, Published!AvailabilityTopic
<1>2. ASSUME NEW c, NEW o
      PROVE  LET topic == Published!DiscoveryTopic(<<"homeassistant">>, c, node, o)
             IN topic[3] = node /\ topic[4] = o
  BY DEF Published!DiscoveryTopic
<1>3. CASE i = 17
  <2>1. EntityNumber("fault") = 17 BY DEF EntityNumber
  <2>2. QED BY <1>1, <1>2, <1>3, <2>1 DEF EntityOf, Published!FaultConfig
<1>4. CASE i # 17
  <2>1. EntityNumber(Published!Sensors[i].object) = i BY <1>4, SensorTable DEF SensorIs
  <2>2. QED BY <1>1, <1>2, <1>4, <2>1 DEF EntityOf, Published!SensorConfig
<1>5. QED BY <1>3, <1>4

\* A set with a number for each of its elements has as many.
LEMMA CountByNumber ==
  ASSUME NEW f, NEW n \in Nat, \A k, l \in 1..n : f[k] = f[l] => k = l
  PROVE  Cardinality({f[k] : k \in 1..n}) = n
<1> DEFINE S == {f[k] : k \in 1..n}
           g == [k \in 1..n |-> f[k]]
<1>1. g \in [1..n -> S] /\ \A k, l \in 1..n : g[k] = g[l] => k = l OBVIOUS
<1>2. \A s \in S : \E k \in 1..n : g[k] = s OBVIOUS
<1> HIDE DEF g, S
<1>3. g \in Bijection(1..n, S) BY <1>1, <1>2, Fun_IsBij
<1>4. ExistsBijection(1..n, S) BY <1>3 DEF ExistsBijection
<1>5. Cardinality(S) = n BY <1>4, FS_CountingElements, Zenon
<1>6. QED BY <1>5 DEF S

\* The entities of two devices, numbered one after the other.
NodeAt(k) == IF k \leq 17 THEN "n1" ELSE "n2"
EntityAt(k) == EntityOf(NodeAt(k), IF k \leq 17 THEN k ELSE k - 17)

\* They are those the two devices retain.
LEMMA NumberedEntities ==
  Published!Retained(<<"homeassistant">>, <<"teg">>, "n1")
    \cup Published!Retained(<<"homeassistant">>, <<"teg">>, "n2") = {EntityAt(k) : k \in 1..34}
<1> DEFINE own(node) == {EntityOf(node, i) : i \in 1..17}
<1>1. /\ Published!Retained(<<"homeassistant">>, <<"teg">>, "n1") = own("n1")
      /\ Published!Retained(<<"homeassistant">>, <<"teg">>, "n2") = own("n2")
  BY RetainedAreEntities
<1>2. own("n1") \cup own("n2") \subseteq {EntityAt(k) : k \in 1..34}
  <2>1. ASSUME NEW i \in 1..17 PROVE EntityAt(i) = EntityOf("n1", i) /\ i \in 1..34
    BY SMT DEF EntityAt, NodeAt
  <2>2. ASSUME NEW i \in 1..17 PROVE EntityAt(i + 17) = EntityOf("n2", i) /\ i + 17 \in 1..34
    <3>1. i + 17 \in 1..34 /\ ~(i + 17 \leq 17) /\ (i + 17) - 17 = i BY SMT
    <3>2. QED BY <3>1, Zenon DEF EntityAt, NodeAt
  <2>3. QED BY <2>1, <2>2, Zenon
<1>3. {EntityAt(k) : k \in 1..34} \subseteq own("n1") \cup own("n2")
  <2>1. ASSUME NEW k \in 1..34 PROVE EntityAt(k) \in own("n1") \cup own("n2")
    <3>1. CASE k \leq 17
      <4>1. k \in 1..17 BY <3>1
      <4>2. EntityAt(k) = EntityOf("n1", k) BY <3>1, Zenon DEF EntityAt, NodeAt
      <4>3. QED BY <4>1, <4>2, Zenon
    <3>2. CASE ~(k \leq 17)
      <4>1. k - 17 \in 1..17 BY <3>2
      <4>2. EntityAt(k) = EntityOf("n2", k - 17) BY <3>2, Zenon DEF EntityAt, NodeAt
      <4>3. QED BY <4>1, <4>2, Zenon
    <3>3. QED BY <3>1, <3>2, Zenon
  <2>2. QED BY <2>1, Zenon
<1>4. QED BY <1>1, <1>2, <1>3, Zenon

\* A number is told from the topic of its entity, and from its identity.
LEMMA NumbersAreTold ==
  ASSUME NEW k \in 1..34, NEW l \in 1..34,
         \/ EntityAt(k) = EntityAt(l) \/ EntityAt(k).topic = EntityAt(l).topic
         \/ EntityAt(k).config.id = EntityAt(l).config.id
  PROVE  k = l
<1> DEFINE place(n) == IF n \leq 17 THEN n ELSE n - 17
<1>1. ASSUME NEW n \in 1..34
      PROVE  /\ EntityAt(n).topic[3] = NodeAt(n)
             /\ EntityNumber(EntityAt(n).topic[4]) = place(n)
             /\ EntityAt(n).config.id[1] = NodeAt(n)
             /\ EntityNumber(EntityAt(n).config.id[2]) = place(n)
  <2>1. place(n) \in 1..17 OBVIOUS
  <2>2. EntityAt(n) = EntityOf(NodeAt(n), place(n)) BY Zenon DEF EntityAt
  <2> HIDE DEF place
  <2>3. LET e == EntityOf(NodeAt(n), place(n))
        IN /\ e.topic[3] = NodeAt(n) /\ EntityNumber(e.topic[4]) = place(n)
           /\ e.config.id[1] = NodeAt(n) /\ EntityNumber(e.config.id[2]) = place(n)
    BY <2>1, EntityIdentity
  <2>4. QED BY <2>2, <2>3, Zenon
<1>2. NodeAt(k) = NodeAt(l) /\ place(k) = place(l)
  <2> HIDE DEF place
  <2>1. QED BY <1>1, Zenon
<1>3. QED BY <1>2 DEF NodeAt

\* The three counts of what is retained.
LEMMA EntitiesAreCounted ==
  LET all == Published!Retained(<<"homeassistant">>, <<"teg">>, "n1")
               \cup Published!Retained(<<"homeassistant">>, <<"teg">>, "n2")
  IN /\ Published!Cardinality(all) = 34
     /\ Published!Cardinality({r.topic : r \in all}) = 34
     /\ Published!Cardinality({r.config.id : r \in all}) = 34
<1> DEFINE all == {EntityAt(k) : k \in 1..34}
           one == [k \in 1..34 |-> EntityAt(k)]
           topic == [k \in 1..34 |-> EntityAt(k).topic]
           id == [k \in 1..34 |-> EntityAt(k).config.id]
<1>1. \A S : Published!Cardinality(S) = Cardinality(S)
  BY Zenon DEF Published!Cardinality, Cardinality
<1>2. 34 \in Nat OBVIOUS
<1>3. \A k \in 1..34 : /\ one[k] = EntityAt(k) /\ topic[k] = EntityAt(k).topic
                       /\ id[k] = EntityAt(k).config.id
  BY Zenon
<1> HIDE DEF one, topic, id
<1>4. \A k, l \in 1..34 : one[k] = one[l] \/ topic[k] = topic[l] \/ id[k] = id[l] => k = l
  <2>1. ASSUME NEW k \in 1..34, NEW l \in 1..34,
               one[k] = one[l] \/ topic[k] = topic[l] \/ id[k] = id[l]
        PROVE  k = l
    <3>1. \/ EntityAt(k) = EntityAt(l) \/ EntityAt(k).topic = EntityAt(l).topic
          \/ EntityAt(k).config.id = EntityAt(l).config.id
      BY <1>3, <2>1
    <3>2. QED BY <3>1, NumbersAreTold
  <2>2. QED BY <2>1
<1>5. Cardinality({one[k] : k \in 1..34}) = 34 BY <1>2, <1>4, CountByNumber
<1>6. /\ Cardinality({topic[k] : k \in 1..34}) = 34
      /\ Cardinality({id[k] : k \in 1..34}) = 34
  BY <1>2, <1>4, CountByNumber
<1>7. /\ all = {one[k] : k \in 1..34} /\ {r.topic : r \in all} = {topic[k] : k \in 1..34}
      /\ {r.config.id : r \in all} = {id[k] : k \in 1..34}
  BY <1>3, Zenon
<1>8. QED BY <1>1, <1>5, <1>6, <1>7, NumberedEntities, Zenon

\* What a subscriber makes of the config of an entity: the fault is always shown, and any other
\* is shown when there is a reading and as "None" when there is none.
LEMMA EntityConfig ==
  ASSUME NEW node, NEW i \in 1..17
  PROVE  LET c == EntityOf(node, i).config
         IN /\ c.key \in AllKeys /\ (c.key = "fault" \/ c.absent = "None")
            /\ c.class = "energy" <=> c.counts = "total_increasing"
<1>1. CASE i = 17
  <2>1. "fault" \in AllKeys BY DEF AllKeys
  <2>2. QED BY <1>1, <2>1 DEF EntityOf, Published!FaultConfig
<1>2. CASE i # 17
  <2>1. i \in 1..16 BY <1>2
  <2>2. SensorIs(Published!Sensors[i], i) BY <2>1, SensorTable
  <2>3. LET s == Published!Sensors[i]
        IN s.key \in AllKeys /\ (s.class = "energy" <=> s.counts = "total_increasing")
    BY <2>2, Zenon DEF SensorIs
  <2>4. EntityOf(node, i).config = Published!SensorConfig(Published!Sensors[i], <<"teg">>, node)
    BY <1>2 DEF EntityOf
  <2>5. QED BY <2>3, <2>4 DEF Published!SensorConfig
<1>3. QED BY <1>1, <1>2

\* Every key of a state document but the alert has its entity.
LEMMA KeysHaveEntities ==
  ASSUME NEW v, NEW k \in Published!StateKeys(v), k # "aux_alert", NEW node
  PROVE  \E i \in 1..17 : EntityOf(node, i).config.key = k
<1>1. k \in AllKeys BY DEF Published!StateKeys, AllKeys
<1>2. CASE k = "fault"
  <2>1. 17 \in 1..17 OBVIOUS
  <2>2. EntityOf(node, 17).config.key = "fault" BY DEF EntityOf, Published!FaultConfig
  <2>3. QED BY <1>2, <2>1, <2>2
<1>3. CASE k # "fault"
  <2>1. PICK i \in 1..16 : Published!Sensors[i].key = k BY <1>1, <1>3, SensorKeys
  <2>2. i \in 1..17 /\ i # 17 OBVIOUS
  <2>3. EntityOf(node, i).config = Published!SensorConfig(Published!Sensors[i], <<"teg">>, node)
    BY <2>2 DEF EntityOf
  <2>4. QED BY <2>1, <2>2, <2>3 DEF Published!SensorConfig
<1>4. QED BY <1>2, <1>3

\* The document of a device with every reading has every key, and every document has the fault.
LEMMA FullDocument ==
  LET full == [meter |-> TRUE, hot |-> TRUE, cold |-> TRUE, die |-> TRUE, aux |-> TRUE]
  IN AllKeys \subseteq Published!StateKeys(full)
BY DEF AllKeys, Published!StateKeys

LEMMA FaultIsStated == \A v : "fault" \in Published!StateKeys(v)
BY DEF Published!StateKeys

\* Whatever readings are there, everything announced is served.
LEMMA DocumentsServeEntities == \A v : Published!EntitiesAreServed(v)
<1> SUFFICES ASSUME NEW v PROVE Published!EntitiesAreServed(v) OBVIOUS
<1> DEFINE mine == Published!Retained(<<"homeassistant">>, <<"teg">>, "n1")
           theirs == Published!Retained(<<"homeassistant">>, <<"teg">>, "n2")
           full == [meter |-> TRUE, hot |-> TRUE, cold |-> TRUE, die |-> TRUE, aux |-> TRUE]
<1>1. /\ mine = {EntityOf("n1", i) : i \in 1..17} /\ theirs = {EntityOf("n2", i) : i \in 1..17}
  BY RetainedAreEntities
<1>2. 2 * (Len(Published!Sensors) + 1) = 34 BY SensorTable
<1>3. Published!StateKeys(v) \ {r.config.key : r \in mine} \subseteq {"aux_alert"}
  <2>1. ASSUME NEW k \in Published!StateKeys(v), k # "aux_alert"
        PROVE  k \in {r.config.key : r \in mine}
    <3>1. PICK i \in 1..17 : EntityOf("n1", i).config.key = k BY <2>1, KeysHaveEntities
    <3>2. QED BY <1>1, <3>1, Zenon
  <2>2. QED BY <2>1, Zenon
<1>4. ASSUME NEW r \in mine
      PROVE  /\ Published!Rendered(r.config, full) = "value"
             /\ Published!Rendered(r.config, v) \in {"value", "None"}
             /\ r.config.state \notin {o.config.state : o \in theirs}
             /\ r.config.availability \notin {r.config.state}
                                               \cup {o.config.availability : o \in theirs}
             /\ r.config.class = "energy" <=> r.config.counts = "total_increasing"
  <2>1. PICK i \in 1..17 : r = EntityOf("n1", i) BY <1>1, Zenon
  <2>2. /\ r.config.key \in AllKeys /\ (r.config.key = "fault" \/ r.config.absent = "None")
        /\ r.config.class = "energy" <=> r.config.counts = "total_increasing"
    BY <2>1, EntityConfig
  <2>3. Published!Rendered(r.config, full) = "value"
    <3>1. AllKeys \subseteq Published!StateKeys(full) BY FullDocument, Zenon
    <3>2. r.config.key \in Published!StateKeys(full) BY <2>2, <3>1, Zenon
    <3>3. QED BY <3>2, Zenon DEF Published!Rendered
  <2>4. Published!Rendered(r.config, v) \in {"value", "None"}
    BY <2>2, FaultIsStated, Zenon DEF Published!Rendered
  <2>5. /\ r.config.state[2] = "n1" /\ r.config.state[3] = "state"
        /\ r.config.availability[2] = "n1" /\ r.config.availability[3] = "availability"
    BY <2>1, EntityIdentity, SMTT(30)
  <2>6. \A o \in theirs : o.config.state[2] = "n2" /\ o.config.availability[2] = "n2"
    <3>1. \A j \in 1..17 : /\ EntityOf("n2", j).config.state[2] = "n2"
                           /\ EntityOf("n2", j).config.availability[2] = "n2"
      BY EntityIdentity
    <3>2. QED BY <1>1, <3>1, Zenon
  <2>7. "n1" # "n2" /\ "state" # "availability" OBVIOUS
  <2>8. QED BY <2>2, <2>3, <2>4, <2>5, <2>6, <2>7, Zenon
<1>5. QED BY <1>2, <1>3, <1>4, EntitiesAreCounted, Zenon DEF Published!EntitiesAreServed

-----------------------------------------------------------------------------
\* Whatever the link does and in whatever order it is lost, refused and made again: what the
\* broker keeps is what was published to it and is true of the device, its will is the device's,
\* attempts back off by the failures in a row and by nothing else; and whatever readings there
\* are, every entity announced is served by the state document (BrokerIsServed).
THEOREM BrokerStaysServed == ServicesSpec => []BrokerIsServed
<1> DEFINE Inv == focus = "mqtt" => BrokerInv
<1>1. ServicesInit => Inv BY BrokerStarts, Zenon DEF ServicesInit
<1>2. Inv /\ Step => Inv'
  <2>1. BrokerInv /\ Step /\ focus = "mqtt" => BrokerInv' BY BrokerMoves, BrokerStep, Zenon
  <2>2. QED BY <2>1, FocusStays, Zenon
<1>3. Inv => BrokerIsServed
  BY BrokerPromise, DocumentsServeEntities, Zenon DEF BrokerIsServed
<1> HIDE DEF Inv
<1>4. QED BY <1>1, <1>2, <1>3, PTL DEF ServicesSpec, Step
=============================================================================
