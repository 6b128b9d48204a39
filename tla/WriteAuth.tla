------------------------------ MODULE WriteAuth ------------------------------
(***************************************************************************)
(* Who may do what over HTTP (web_handlers.cpp): the check every /api      *)
(* request passes first and every mutating handler repeats, and the table  *)
(* of peers with their failures.  A step is one request or one tick of     *)
(* millis(), which counts modulo AuthWrap (2^32 in the code).              *)
(***************************************************************************)
EXTENDS Integers, FiniteSets

CONSTANTS PeerIps,      \* addresses of the local net
          PeerSlots,    \* entries of authPeers (4)
          AuthWindow, AuthBlock,   \* AuthWindowMs and AuthBlockMs (60 s), in ticks
          AuthFailures, \* AuthFailuresBeforeBlock (5)
          AuthWrap,     \* modulus of millis(), even
          UpTime,       \* millis() when the behaviour starts
          MaxTime       \* bound: ticks

\* What the constants must satisfy.
ConstantsOK ==
  /\ {PeerSlots, AuthFailures, AuthWrap} \subseteq Nat \ {0}
  /\ {AuthWindow, AuthBlock, MaxTime} \subseteq Nat /\ UpTime \in 0..AuthWrap-1
  /\ AuthWrap % 2 = 0 /\ AuthBlock < AuthWrap \div 2 /\ PeerIps # {}

VARIABLES
  authPeers,         \* the table
  time,              \* ticks since the behaviour began
  blockedAt,         \* history: when a peer's last failure before a block was, or -1
  guilty,            \* history: peers that have given a wrong PIN
  leaked, wronged    \* history: a blocked peer was let in; one that never failed was not

waVars == <<authPeers, time, blockedAt, guilty, leaked, wronged>>

Table == 1..PeerSlots
NewPeer == [used |-> FALSE, ip |-> CHOOSE p \in PeerIps : TRUE, start |-> 0, until |-> 0,
            failures |-> 0]

Init ==
  /\ authPeers = [i \in Table |-> NewPeer]
  /\ time = 0
  /\ blockedAt = [p \in PeerIps |-> -1]
  /\ guilty = {} /\ leaked = FALSE /\ wronged = FALSE
-----------------------------------------------------------------------------
AuthNow == (time + UpTime) % AuthWrap
Since(t) == (AuthNow - t) % AuthWrap

\* mutant: an evicted entry keeps the failures and the block of the peer before
EvictedKept(old, p) == [old EXCEPT !.ip = p, !.start = AuthNow]

Evicted(old, p) == [NewPeer EXCEPT !.used = TRUE, !.ip = p, !.start = AuthNow]

\* authPeerFor(): the peer's entry, else the first that is free, else the one with the
\* oldest window, which starts over.
SlotFor(p) ==
  LET mine == {i \in Table : authPeers[i].used /\ authPeers[i].ip = p}
      free == {i \in Table : ~authPeers[i].used}
      age(i) == Since(authPeers[i].start)
      First(S) == CHOOSE i \in S : \A j \in S : i <= j
  IN IF mine # {} THEN First(mine)
     ELSE IF free # {} THEN First(free)
     ELSE First({i \in Table : \A j \in Table : age(j) <= age(i)})

EntryFor(p) ==
  LET e == authPeers[SlotFor(p)]
  IN IF e.used /\ e.ip = p THEN e ELSE Evicted(e, p)

\* authPeerBlocked(): the signed comparison; 0 stands for no block.
Blocked(e) == e.until # 0 /\ Since(e.until) >= AuthWrap \div 2

\* Failures beyond the threshold are not told apart.
OneMore(n) == IF n < AuthFailures THEN n + 1 ELSE n

\* mutant: the block ends when the window of the first failure does
FailedBlockFromWindow(e) ==
  LET over == Since(e.start) >= AuthWindow
      n == IF over THEN 1 ELSE OneMore(e.failures)
      begun == IF over THEN AuthNow ELSE e.start
  IN [e EXCEPT !.start = begun, !.failures = n,
               !.until = IF n >= AuthFailures THEN (begun + AuthBlock) % AuthWrap ELSE @]

\* writeAuthorized(), a wrong PIN: a window that is over starts again.
Failed(e) ==
  LET over == Since(e.start) >= AuthWindow
      n == IF over THEN 1 ELSE OneMore(e.failures)
  IN [e EXCEPT !.start = IF over THEN AuthNow ELSE @, !.failures = n,
               !.until = IF n >= AuthFailures THEN (AuthNow + AuthBlock) % AuthWrap ELSE @]

\* writeAuthorized(), the right PIN.
Cleared(e) == [e EXCEPT !.failures = 0, !.until = 0, !.start = AuthNow]

\* The block that began at t would end at the value that stands for no block.
NoneIsTheEnd(t) == (t + UpTime + AuthBlock) % AuthWrap = 0

\* requireApiAuthorization() and, for a mutating handler, writeAuthorized() once more: the
\* entry of the peer after a request.
AfterCheck(p, right) ==
  LET e == EntryFor(p)
  IN IF Blocked(e) THEN e ELSE IF right THEN Cleared(e) ELSE Failed(e)

\* A request of a local peer whose Host and Origin are the device's, with a PIN.
Request(p, right) ==
  /\ authPeers' = [authPeers EXCEPT ![SlotFor(p)] = AfterCheck(p, right)]
  /\ LET before == EntryFor(p)
         entered == right /\ ~Blocked(before)
         evicted == authPeers[SlotFor(p)]
         fails == ~right /\ ~Blocked(before)
         ends == fails /\ AfterCheck(p, right).failures >= AuthFailures
         shut(q) == blockedAt[q] # -1 /\ time - blockedAt[q] < AuthBlock
     IN /\ leaked' = (leaked \/ (entered /\ shut(p) /\ ~NoneIsTheEnd(blockedAt[p])))
        /\ wronged' = (wronged \/ (right /\ p \notin guilty /\ ~entered))
        /\ guilty' = IF right THEN guilty ELSE guilty \cup {p}
        /\ blockedAt' = [q \in PeerIps |->
             IF q = p THEN IF entered THEN -1 ELSE IF ends THEN time ELSE blockedAt[q]
             ELSE IF evicted.used /\ evicted.ip = q THEN -1 ELSE blockedAt[q]]
  /\ UNCHANGED time

Tick ==
  /\ time < MaxTime /\ time' = time + 1
  /\ UNCHANGED <<authPeers, blockedAt, guilty, leaked, wronged>>

Next ==
  \/ \E p \in PeerIps, right \in BOOLEAN : Request(p, right)
  \/ Tick

Spec == Init /\ [][Next]_waVars
-----------------------------------------------------------------------------
Entries == [used : BOOLEAN, ip : PeerIps, start : 0..AuthWrap-1, until : 0..AuthWrap-1,
            failures : 0..AuthFailures]

TypeOK ==
  /\ authPeers \in [Table -> Entries]
  /\ time \in 0..MaxTime /\ {leaked, wronged} \subseteq BOOLEAN
  /\ blockedAt \in [PeerIps -> -1..MaxTime] /\ guilty \subseteq PeerIps

\* A peer with too many failures in one window stays out for the whole block, right PIN or
\* not, across the wrap of millis() - unless its entry was evicted for another peer, or the
\* end of the block falls on the one value that stands for none.
BlockHolds == ~leaked

\* A peer that never gave a wrong PIN is let in, whichever entry it takes over.
InnocentIsServed == ~wronged

\* Two peers never share an entry, and no peer has two.
OneEntryEach ==
  \A i, j \in Table : authPeers[i].used /\ authPeers[j].used /\ authPeers[i].ip = authPeers[j].ip
                        => i = j

\* The promises of the door.
AccessIsFair == BlockHolds /\ InnocentIsServed /\ OneEntryEach

\* "; blocked 60s" (web_handlers.cpp:343): a block is over when its time is.
BlockEnds ==
  \A i \in Table : authPeers[i].used /\ Blocked(authPeers[i]) =>
    LET p == authPeers[i].ip IN blockedAt[p] # -1 /\ time - blockedAt[p] < AuthBlock
=============================================================================
