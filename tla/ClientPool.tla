----------------------------- MODULE ClientPool -----------------------------
(***************************************************************************)
(* The connections the web server holds (processWebServer() of             *)
(* web_handlers.cpp): at most MaxPendingClients, one request a pass, the   *)
(* silent ones dropped.  A step is one pass, one tick of millis(), which   *)
(* counts modulo Wrap, or something a client does.  What a request does is *)
(* modelled elsewhere; here serving it may let time go by.                 *)
(***************************************************************************)
EXTENDS Integers

CONSTANTS MaxPendingClients,   \* slots (4)
          IdleClientTimeout,   \* in ticks (5 s)
          ClockWrap,           \* modulus of millis(), even
          MaxServe             \* bound: ticks one request may take

\* What the constants must satisfy.
ConstantsOK ==
  /\ MaxPendingClients \in Nat \ {0} /\ ClockWrap \in Nat \ {0} /\ ClockWrap % 2 = 0
  /\ IdleClientTimeout \in Nat /\ MaxServe \in Nat
  /\ IdleClientTimeout < ClockWrap \div 2
  /\ 3 * MaxServe < ClockWrap \div 2   \* two requests and the rest of loop() between looks

VARIABLES
  slot,    \* pendingClient, pendingSince, pendingUsed; what the client did; its true age
  clock,   \* millis()
  idle,    \* history: ticks since the last pass ended
  held,    \* history: a client that had hung up kept its slot through a pass
  killed   \* history: a client was dropped that was neither gone nor silent for the timeout

cpVars == <<slot, clock, idle, held, killed>>

Slots == 1..MaxPendingClients
Unused == [used |-> FALSE, since |-> 0, did |-> "nothing", age |-> 0]

Init ==
  /\ slot = [i \in Slots |-> Unused]
  /\ clock \in 0..ClockWrap-1 /\ idle = 0 /\ held = FALSE /\ killed = FALSE
-----------------------------------------------------------------------------
\* Ages are counted only as far as anything tells them apart.
Older(n, by) == IF n + by > IdleClientTimeout + MaxServe + 1 THEN IdleClientTimeout + MaxServe + 1
                                                              ELSE n + by
Aged(s, by) == [i \in Slots |-> IF s[i].used THEN [s[i] EXCEPT !.age = Older(@, by)] ELSE s[i]]

\* The first free slot takes what accept() returns; without one it is stopped.
Placed(did) ==
  LET free == {i \in Slots : ~slot[i].used}
  IN IF did = "nobody" \/ free = {} THEN slot
     ELSE [slot EXCEPT ![CHOOSE i \in free : \A j \in free : i <= j] =
             [used |-> TRUE, since |-> clock, did |-> did, age |-> 0]]

\* mutant: the times are compared as they are, without regard to the wrap
IdleTooLongAbsolute(now, since) == now >= since + IdleClientTimeout

\* The signed comparison.
IdleTooLong(now, since) ==
  (now - (since + IdleClientTimeout)) % ClockWrap < ClockWrap \div 2

\* mutant: a slot whose client has hung up is not freed
ReleasableSilentOnly(c, now) == c.used /\ c.did = "nothing" /\ IdleTooLong(now, c.since)

Releasable(c, now) ==
  c.used /\ c.did # "request" /\ (c.did = "gone" \/ IdleTooLong(now, c.since))

\* processWebServer(): the first slot with a request is served, for d ticks, and freed; the
\* slots before it are looked at before that, those after it later.
Pass(did, d) ==
  LET all  == Placed(did)
      asks == {i \in Slots : all[i].used /\ all[i].did = "request"}
      this == IF asks = {} THEN 0 ELSE CHOOSE i \in asks : \A j \in asks : i <= j
      took == IF this = 0 THEN 0 ELSE d
      now(i)   == IF i < this THEN clock ELSE (clock + took) % ClockWrap
      later(i) == IF i < this THEN all[i] ELSE Aged(all, took)[i]
      drop(i)  == this # i /\ Releasable(all[i], now(i))
  IN /\ d = 0 \/ this # 0
     /\ slot' = [i \in Slots |-> IF i = this \/ drop(i) THEN Unused ELSE Aged(all, took)[i]]
     /\ clock' = (clock + took) % ClockWrap
     /\ held' = (held \/ \E i \in Slots : slot[i].did = "gone" /\ slot'[i].used)
     /\ killed' = (killed \/ \E i \in Slots : /\ drop(i) /\ all[i].did = "nothing"
                                              /\ later(i).age < IdleClientTimeout)
     /\ idle' = 0

Tick ==
  /\ idle < MaxServe   \* loop() comes back: nothing else holds it longer
  /\ slot' = Aged(slot, 1) /\ clock' = (clock + 1) % ClockWrap /\ idle' = idle + 1
  /\ UNCHANGED <<held, killed>>

\* A client sends its request, or hangs up without one.
Acts(i, did) ==
  /\ slot[i].used /\ slot[i].did = "nothing"
  /\ slot' = [slot EXCEPT ![i].did = did]
  /\ UNCHANGED <<clock, idle, held, killed>>

Next ==
  \/ \E did \in {"nobody", "nothing", "request"}, d \in 0..MaxServe : Pass(did, d)
  \/ Tick
  \/ \E i \in Slots, did \in {"request", "gone"} : Acts(i, did)

Spec == Init /\ [][Next]_cpVars
-----------------------------------------------------------------------------
TypeOK ==
  /\ slot \in [Slots -> [used : BOOLEAN, since : 0..ClockWrap-1,
                         did : {"nothing", "request", "gone"},
                         age : 0..IdleClientTimeout+MaxServe+1]]
  /\ clock \in 0..ClockWrap-1 /\ idle \in 0..MaxServe /\ {held, killed} \subseteq BOOLEAN

\* "eight idle connections permanently disabled the web server" (web_handlers.cpp:131): whenever
\* a pass has ended, a client that says nothing has been held for less than the timeout and
\* the time one request takes, and one that was gone before is not held, across the wrap of
\* millis().
NoSlotIsLost ==
  /\ idle = 0 => \A i \in Slots : slot[i].used /\ slot[i].did = "nothing" =>
                                    slot[i].age < IdleClientTimeout + MaxServe
  /\ ~held

\* Nobody is dropped before his time: "the millis() wrap cannot extend an idle client's
\* welcome" nor cut it short, however long other requests take.
NobodyIsCutOff == ~killed

\* Both promises of the pool.
PoolIsFair == NoSlotIsLost /\ NobodyIsCutOff
=============================================================================
