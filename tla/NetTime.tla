------------------------------ MODULE NetTime -------------------------------
(***************************************************************************)
(* Time: the event clock over millis() and the battery-backed RTC          *)
(* (event_log.cpp) and the NTP client that disciplines it (ntpTask() of    *)
(* utils.cpp, ntp_utils.h), with a network that loses, delays, duplicates  *)
(* and invents replies.  A step is one pass of the task or one tick.       *)
(* millis() is wall time since the boot, modulo Wrap (2^32 in the code);   *)
(* an epoch is a wall time, and one below 1 stands for one before          *)
(* MinPlausibleEpoch.                                                      *)
(***************************************************************************)
EXTENDS Integers, FiniteSets

CONSTANTS Wrap,         \* modulus of millis(), even
          UpSince,      \* how long the device has been up when the behaviour starts
          Resync, Retry, ReplyTimeout, \* NtpResyncIntervalMs and the others, in ticks
          RtcTolerance, \* seconds of drift at which the RTC is not rewritten
          MaxWall,      \* bound: wall time
          MaxRequests   \* bound: requests of one behaviour

\* What the constants must satisfy.
ConstantsOK ==
  /\ Wrap \in Nat \ {0} /\ UpSince \in 0..Wrap-1 /\ MaxWall \in Nat \ {0}
  /\ {Resync, Retry, ReplyTimeout, RtcTolerance, MaxRequests} \subseteq Nat
  /\ ReplyTimeout < Retry /\ Retry <= Resync

VARIABLES
  wall, boot,        \* true time; the wall time of the last boot
  clock,             \* [valid, synced, base, at]: clockValid, ntpSynced, baseEpoch, baseMillis
  rtc,               \* the RTC's distance from true time
  awaiting, token,   \* ntpAwaiting; ntpAssociationToken, numbered
  sentAt, lastAttempt, everAttempted,
  named,             \* ntpAddrValid
  inbox,             \* the datagram waiting at the socket, or NoDatagram
  answers,           \* what the server answered to each request; the network repeats it
  sentWall, exact    \* history: when the pending request left; whether every time adopted
                     \* was the server's between that moment and its adoption

ntVars == <<wall, boot, clock, rtc, awaiting, token, sentAt, lastAttempt, everAttempted,
            named, inbox, answers, sentWall, exact>>
reqVars  == <<token, sentAt, lastAttempt, everAttempted, named, sentWall>>

Millis(b, w) == (w - b) % Wrap
Now == Millis(boot, wall)

\* eventNowEpoch(): a cached base and the milliseconds since.
NowEpoch == IF clock.valid THEN clock.base + ((Now - clock.at) % Wrap) ELSE 0

RtcReads == wall + rtc

\* The cell was flat: the RTC counts from long before MinPlausibleEpoch.
FlatRtc == -2 * MaxWall

\* eventLogBegin(): the clock of a boot comes from the RTC when that is plausible.
BootClock(reads) == [valid |-> reads >= 1, synced |-> FALSE,
                     base |-> IF reads >= 1 THEN reads ELSE 0, at |-> 0]

NoDatagram == [token |-> 0, sound |-> FALSE, stamp |-> -1]
Unanswered == -1

Init ==
  /\ wall = 1 /\ boot = 1 - UpSince
  /\ rtc \in {FlatRtc, 0, RtcTolerance + 1}
  /\ clock = BootClock(0)
  /\ awaiting = FALSE /\ token = 0 /\ sentAt = 0 /\ lastAttempt = 0 /\ everAttempted = FALSE
  /\ named = FALSE
  /\ inbox = NoDatagram /\ answers = [t \in 1..MaxRequests |-> Unanswered]
  /\ sentWall = 0 /\ exact = TRUE
-----------------------------------------------------------------------------
(* A datagram: the token it answers (0: no request's), whether it comes    *)
(* from the server's address and port with a sound header, and its time.   *)

\* mutant: a reply to an earlier request is taken for the answer
AssociatedAnyToken(d) == d.sound /\ d.token # 0

\* validateNtpResponse() and the source: what is taken for the answer to the pending request.
Associated(d) == d.sound /\ d.token = token

\* mutant: an implausible time is adopted as well
SyncedUnchecked(epoch) ==
  /\ clock' = [valid |-> TRUE, synced |-> TRUE, base |-> epoch, at |-> Now]
  /\ rtc' = IF RtcReads - epoch \in -RtcTolerance..RtcTolerance THEN rtc ELSE epoch - wall

\* eventClockSynced(): adopt, and rewrite the RTC only when it disagrees.
Synced(epoch) ==
  IF epoch >= 1
  THEN /\ clock' = [valid |-> TRUE, synced |-> TRUE, base |-> epoch, at |-> Now]
       /\ rtc' = IF RtcReads - epoch \in -RtcTolerance..RtcTolerance
                 THEN rtc ELSE epoch - wall
  ELSE UNCHANGED <<clock, rtc>>

\* A datagram waits and is not the answer: it is dropped, the wait goes on.
RejectReply ==
  /\ awaiting /\ inbox # NoDatagram
  /\ ~Associated(inbox)
  /\ inbox' = NoDatagram
  /\ UNCHANGED <<wall, boot, clock, rtc, awaiting, reqVars, answers, exact>>

TakeReply ==
  /\ awaiting /\ inbox # NoDatagram
  /\ Associated(inbox)
  /\ awaiting' = FALSE /\ inbox' = NoDatagram
  /\ Synced(inbox.stamp)
  /\ exact' = (exact /\ (clock' # clock => inbox.stamp \in sentWall..wall))
  /\ UNCHANGED <<wall, boot, reqVars, answers>>

\* No reply in time: the next attempt is on the normal cadence.
StopAwaiting ==
  /\ awaiting /\ inbox = NoDatagram
  /\ (Now - sentAt) % Wrap > ReplyTimeout
  /\ awaiting' = FALSE
  /\ UNCHANGED <<wall, boot, clock, rtc, reqVars, inbox, answers, exact>>

Due == IF clock.synced THEN Resync ELSE Retry
AttemptDue == ~awaiting /\ (~everAttempted \/ (Now - lastAttempt) % Wrap >= Due)

\* An address is leased; the name is not known, and DNS fails or must wait because outputs
\* are live.
AttemptWithoutName ==
  /\ AttemptDue /\ ~named
  /\ lastAttempt' = Now /\ everAttempted' = TRUE
  /\ UNCHANGED <<wall, boot, clock, rtc, awaiting, token, sentAt, named, sentWall, inbox,
                 answers, exact>>

\* mutant: datagrams that wait are not drained and the token is the one before
NewTokenReused == IF token = 0 THEN 1 ELSE token

NewToken == token + 1

\* The name is known or DNS answers; what waits is drained, then the request goes out under a
\* token of its own.
SendRequest ==
  /\ AttemptDue /\ token < MaxRequests
  /\ named' = TRUE /\ lastAttempt' = Now /\ everAttempted' = TRUE
  /\ token' = NewToken /\ sentAt' = Now /\ awaiting' = TRUE /\ inbox' = NoDatagram
  /\ sentWall' = wall
  /\ UNCHANGED <<wall, boot, clock, rtc, answers, exact>>
-----------------------------------------------------------------------------
(* The environment. *)

\* The server answers a request; a server without time answers 0.
ServerAnswers(t) ==
  /\ t <= token /\ answers[t] = Unanswered
  /\ \E s \in {0, wall} : answers' = [answers EXCEPT ![t] = s]
  /\ UNCHANGED <<wall, boot, clock, rtc, awaiting, reqVars, inbox, exact>>

\* A reply arrives, late or once more, or one nobody asked for.
Arrives(d) ==
  /\ inbox = NoDatagram /\ inbox' = d
  /\ UNCHANGED <<wall, boot, clock, rtc, awaiting, reqVars, answers, exact>>

Replies == {[token |-> t, sound |-> TRUE, stamp |-> answers[t]] :
             t \in {u \in 1..MaxRequests : answers[u] # Unanswered}}

Invented == [token : {0}, sound : BOOLEAN, stamp : {0, 1}]

Tick ==
  /\ wall < MaxWall /\ wall' = wall + 1
  /\ UNCHANGED <<boot, clock, rtc, awaiting, reqVars, inbox, answers, exact>>

\* A reset: the RTC keeps time, everything else starts over.
Restart ==
  /\ boot < wall
  /\ boot' = wall
  /\ clock' = BootClock(RtcReads)
  /\ awaiting' = FALSE /\ sentAt' = 0 /\ lastAttempt' = 0 /\ everAttempted' = FALSE
  /\ named' = FALSE /\ inbox' = NoDatagram
  /\ UNCHANGED <<wall, rtc, token, sentWall, answers, exact>>
-----------------------------------------------------------------------------
Next ==
  \/ RejectReply \/ TakeReply \/ StopAwaiting \/ AttemptWithoutName \/ SendRequest
  \/ \E t \in 1..MaxRequests : ServerAnswers(t)
  \/ \E d \in Replies \cup Invented : Arrives(d)
  \/ Tick \/ Restart

Spec == Init /\ [][Next]_ntVars
-----------------------------------------------------------------------------
Datagrams == [token : 0..MaxRequests, sound : BOOLEAN, stamp : 0..MaxWall]

TypeOK ==
  /\ wall \in 1..MaxWall /\ boot \in 1-UpSince..MaxWall /\ token \in 0..MaxRequests
  /\ clock \in [valid : BOOLEAN, synced : BOOLEAN, base : Nat, at : 0..Wrap-1]
  /\ rtc \in Int
  /\ {awaiting, everAttempted, named, exact} \subseteq BOOLEAN
  /\ {sentAt, lastAttempt} \subseteq 0..Wrap-1
  /\ inbox \in Datagrams \cup {NoDatagram}
  /\ answers \in [1..MaxRequests -> {Unanswered} \cup 0..MaxWall]

\* "an unsolicited or malformed datagram must never set the clock" (utils.cpp:197): a time
\* adopted is one the server had after the request it answers left, however replies are
\* delayed, repeated or invented and whatever was restarted in between.
ClockIsAnAnswer == exact

\* "the next boot starts disciplined" (event_log.cpp): from the first sync on, the RTC that
\* survives a reset stays within its tolerance of the clock, though it is not rewritten at
\* every sync, and an implausible time reaches neither.
RtcFollowsClock ==
  clock.synced /\ wall - boot < Wrap =>
    clock.base >= 1 /\ RtcReads - NowEpoch \in -RtcTolerance..RtcTolerance

\* Both promises of the clock.
ClockIsDisciplined == ClockIsAnAnswer /\ RtcFollowsClock

\* "events are still ordered and relatable" (event_log.h:8): unless a sync corrects it or the
\* device restarts, the clock of the log never goes back.
ClockNeverJumpsBack ==
  [][clock' = clock /\ boot' = boot => NowEpoch' >= NowEpoch]_ntVars
=============================================================================
