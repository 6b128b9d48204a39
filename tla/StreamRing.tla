----------------------------- MODULE StreamRing -----------------------------
(***************************************************************************)
(* Playback of a waveform too long for memory: StreamRing (stream_ring.h)  *)
(* between the carrier interrupt and waveformStreamTask(), and everything  *)
(* that starts, stops or replaces it.                                      *)
(*                                                                         *)
(* The interrupt takes one sample per carrier cycle and hands a drained    *)
(* buffer back; the main thread claims it, fills it from the card and      *)
(* publishes it.  The interrupt preempts the main thread between any two   *)
(* of its accesses and runs to completion, so one call of next() is one    *)
(* step.  A sample is its position in the stored file.                     *)
(***************************************************************************)
EXTENDS Integers

CONSTANTS BufSamples,  \* samples of one buffer (16384 in the code)
          Stored,      \* samples of the stored waveform (more than 2097152)
          SdMayFail    \* a read of the card may return short

\* Only a waveform longer than the store in memory is streamed, 128 buffers, and a count
\* of samples fits below the two flags of a published word.  Three buffers are the least a
\* starved ring may span: one still played, one published after it, one being filled.
ASSUME BufSamplesAssumption == BufSamples \in Nat /\ 0 < BufSamples /\ BufSamples < 65536
ASSUME StoredAssumption == Stored \in Nat /\ Stored >= 3 * BufSamples
ASSUME SdMayFailAssumption == SdMayFail \in BOOLEAN

VARIABLES
  pub,             \* published[k]: a count of samples, or one of the two flags
  active, index,   \* of the interrupt: the buffer and sample it plays next
  starved,         \* underruns # 0
  heard,           \* position of lastSample; before the first one, that of the end
  at,              \* position of the first sample of each buffer
  next,            \* streamNextSample
  pc, k, total,    \* main thread: position, and the locals of fillStreamBuffer()
  streaming,       \* waveMode = ModeStreaming
  config,          \* what the settings select: "custom", "other", spwmActive() "off"
  playback, irq,   \* vStreamPlayback; the carrier interrupt is enabled
  due              \* history: positions read from the card and not played yet

isrVars  == <<active, index, starved, heard>>
fillVars == <<at, next>>
mainVars == <<pc, k, total>>
useVars  == <<config, playback>>
vars == <<pub, isrVars, fillVars, mainVars, streaming, useVars, irq, due>>

Buffers == {0, 1}
Positions == 0..(Stored - 1)
PcSet == {"load", "prefill", "idle", "claim", "fill", "apply"}

RefillRequested == 65536
Filling == 131072
Counts == 0..BufSamples
\* static_cast<uint16_t>(published[k])
Valid(b) == IF pub[b] \in Counts THEN pub[b] ELSE 0
Other(b) == 1 - b
Wrap(p) == IF p >= Stored THEN p - Stored ELSE p

-----------------------------------------------------------------------------
(* The interrupt: one call of StreamRing::next().                          *)

\* IsrOverflowSm20() reaches waveformStreamNext().
Reading == irq /\ playback /\ config # "off"
Drained(b) == Valid(b) # 0 /\ index >= Valid(b)
CanContinue == Valid(active) # 0 /\ ~Drained(active)

\* A buffer that has nothing to play is asked for, unless the main thread has it.
KeepIdle(b) == IF Valid(b) # 0 THEN RefillRequested ELSE pub[b]    \* mutant
Requested(b) == IF Valid(b) # 0 \/ pub[b] = 0 THEN RefillRequested ELSE pub[b]

PlaySample(b, i) ==
  /\ heard' = Wrap(at[b] + i)
  /\ due' = due \ {heard'}
  /\ active' = b /\ index' = i + 1

Continue ==
  /\ Reading /\ CanContinue
  /\ PlaySample(active, index)
  /\ UNCHANGED <<pub, starved, fillVars, mainVars, streaming, useVars, irq>>

\* The index a buffer is entered with.
NotRewound == index                                                \* mutant
Rewound == 0

Switch ==
  /\ Reading /\ ~CanContinue /\ Valid(Other(active)) # 0
  /\ pub' = [pub EXCEPT ![active] = Requested(active)]
  /\ PlaySample(Other(active), Rewound)
  /\ UNCHANGED <<starved, fillVars, mainVars, streaming, useVars, irq>>

\* Nothing to play: the last sample is held, and both buffers are asked for.
Underrun ==
  /\ Reading /\ ~CanContinue /\ Valid(Other(active)) = 0
  /\ pub' = [b \in Buffers |-> Requested(b)]
  /\ IF Drained(active) THEN active' = Other(active) /\ index' = Rewound
                        ELSE UNCHANGED <<active, index>>
  /\ starved' = TRUE
  /\ UNCHANGED <<heard, fillVars, mainVars, streaming, useVars, irq, due>>

Isr == Continue \/ Switch \/ Underrun

-----------------------------------------------------------------------------
(* The main thread: waveformStreamTask() and fillStreamBuffer().           *)

StreamTask ==
  /\ pc = "idle" /\ streaming
  /\ pc' = "claim" /\ k' = 0
  /\ UNCHANGED <<pub, isrVars, fillVars, total, streaming, useVars, irq, due>>

\* Where the loop over the two buffers goes after buffer k.
NextBuffer(loop) ==
  IF k = 0 THEN pc' = loop /\ k' = 1
  ELSE /\ pc' = IF loop = "prefill" /\ config = "custom" THEN "apply" ELSE "idle"
       /\ k' = 0

\* beginRefill(): only a requested buffer, and from now on the main thread's.
Claimed == [pub EXCEPT ![k] = Filling]

Claim ==
  /\ pc = "claim"
  /\ IF pub[k] = RefillRequested
       THEN pub' = Claimed /\ pc' = "fill" /\ k' = k
       ELSE pub' = pub /\ NextBuffer("claim")
  /\ total' = 0
  /\ UNCHANGED <<isrVars, fillVars, streaming, useVars, irq, due>>

\* One read of the card: to the end of the buffer or of the file, and round again.
ReadPastEnd == BufSamples - total                                  \* mutant
ReadSize == IF BufSamples - total > Stored - next THEN Stored - next
                                                  ELSE BufSamples - total
NextPosition(p) == IF p >= Stored THEN 0 ELSE p

FillRead ==
  /\ pc \in {"fill", "prefill"} /\ total < BufSamples
  /\ at' = IF total = 0 THEN [at EXCEPT ![k] = next] ELSE at
  /\ total' = total + ReadSize
  /\ next' = NextPosition(next + ReadSize)
  /\ due' = due \cup {next + i : i \in 0..(ReadSize - 1)}
  /\ UNCHANGED <<pub, isrVars, pc, k, streaming, useVars, irq>>

\* markFilled(): the buffer is full, or the card failed and part of it, or nothing,
\* is published.
Publish ==
  /\ pc \in {"fill", "prefill"}
  /\ total = BufSamples \/ SdMayFail
  /\ pub' = [pub EXCEPT ![k] = total]
  /\ NextBuffer(IF pc = "fill" THEN "claim" ELSE "prefill")
  /\ total' = 0
  /\ streaming' = (streaming \/ (pc = "prefill" /\ k = 1))
  /\ UNCHANGED <<isrVars, fillVars, useVars, irq, due>>

-----------------------------------------------------------------------------
(* Starting, stopping and replacing.                                       *)

\* ring.reset()
ResetRing ==
  /\ pub' = [b \in Buffers |-> 0]
  /\ active' = 0 /\ index' = 0 /\ starved' = FALSE
  /\ heard' = Stored - 1 /\ due' = {}

\* activateFromSd(): a long waveform is prefilled; anything else is not streamed.
Load ==
  /\ pc = "load"
  /\ \E long \in BOOLEAN :
       IF long THEN ResetRing /\ next' = 0 /\ pc' = "prefill"
       ELSE /\ pc' = IF config = "custom" THEN "apply" ELSE "idle"
            /\ UNCHANGED <<pub, isrVars, next, due>>
  /\ k' = 0 /\ total' = 0
  /\ UNCHANGED <<at, streaming, useVars, irq>>

\* api_waveform_post(): refused while the settings select the uploaded waveform.
AlwaysReplaceable == TRUE                                          \* mutant
Replaceable == config # "custom"

\* waveformApplyStream() at its swap: deactivate(), and the new file is loaded.
Replace ==
  /\ pc = "idle" /\ Replaceable
  /\ ResetRing /\ streaming' = FALSE
  /\ pc' = "load"
  /\ UNCHANGED <<fillVars, k, total, useVars, irq>>

\* api_config_post(): the carrier interrupt off, then the new settings.
Configure ==
  /\ pc = "idle"
  /\ config' \in {"custom", "other", "off"} \ {config}
  /\ irq' = FALSE
  /\ pc' = "apply"
  /\ UNCHANGED <<pub, isrVars, fillVars, k, total, streaming, playback, due>>

\* configurePwm(): buildSpwmLut(), if modulating.
Apply ==
  /\ pc = "apply"
  /\ playback' = IF config = "off" THEN playback ELSE config = "custom" /\ streaming
  /\ pc' = "idle"
  /\ UNCHANGED <<pub, isrVars, fillVars, k, total, streaming, config, irq, due>>

\* The end of an apply, or a trip that was cleared later.
EnableIrq ==
  /\ pc = "idle" /\ ~irq
  /\ irq' = TRUE
  /\ UNCHANGED <<pub, isrVars, fillVars, mainVars, streaming, useVars, due>>

\* A fault interrupt silences the carrier interrupt.
Trip ==
  /\ irq
  /\ irq' = FALSE
  /\ UNCHANGED <<pub, isrVars, fillVars, mainVars, streaming, useVars, due>>

-----------------------------------------------------------------------------
(* The specification.                                                      *)

Init ==
  /\ pub = [b \in Buffers |-> 0] /\ active = 0 /\ index = 0 /\ starved = FALSE
  /\ heard = Stored - 1 /\ at = [b \in Buffers |-> 0] /\ next = 0
  /\ pc = "load" /\ k = 0 /\ total = 0
  /\ streaming = FALSE /\ config \in {"custom", "other", "off"}
  /\ playback = FALSE /\ irq = FALSE /\ due = {}

Main == StreamTask \/ Claim \/ FillRead \/ Publish \/ Load \/ Apply

Next == Main \/ Isr \/ Replace \/ Configure \/ EnableIrq \/ Trip

\* The CPU keeps executing loop(), the carrier keeps running, and a card that is
\* asked again and again answers in full at last.
Fairness == WF_vars(Main) /\ WF_vars(Isr) /\ SF_vars(FillRead)

Spec == Init /\ [][Next]_vars /\ Fairness

-----------------------------------------------------------------------------
(* Properties.                                                             *)

\* Every index stays inside its buffer and every position inside the file, through
\* every wrap of the file and every short read (fillStreamBuffer, next).
TypeOK ==
  /\ pub \in [Buffers -> Counts \cup {RefillRequested, Filling}]
  /\ active \in Buffers /\ index \in Counts /\ starved \in BOOLEAN
  /\ heard \in Positions /\ at \in [Buffers -> Positions] /\ next \in Positions
  /\ pc \in PcSet /\ k \in Buffers /\ total \in Counts
  /\ streaming \in BOOLEAN /\ config \in {"custom", "other", "off"}
  /\ playback \in BOOLEAN /\ irq \in BOOLEAN /\ due \subseteq Positions

\* A buffer the main thread writes is out of the interrupt's reach: it is marked, or
\* the interrupt does not read the ring at all; and a marked buffer has its writer
\* (beginRefill against next(), the 409 of api_waveform_post against the prefill).
BufferHasOneOwner ==
  /\ pc = "fill" => pub[k] = Filling
  /\ pc = "prefill" => ~Reading /\ Valid(k) = 0
  /\ \A b \in Buffers : pub[b] = Filling => pc = "fill" /\ k = b

\* Until the card cannot keep up the output is the file, sample after sample, over
\* every change of buffer and every wrap of the file (next, fillStreamBuffer).
PlaysInOrder ==
  [][heard' # heard /\ ~starved /\ pc # "load" /\ pc' # "load"
       => heard' = Wrap(heard + 1)]_vars

\* Whatever starves, fails or is switched off and on in between, no sample read from
\* the card is dropped and none is played twice: what the buffers still hold is
\* exactly what was read and not yet heard.
Held(b) == {Wrap(at[b] + i) :
              i \in {j \in Counts : j < Valid(b) /\ (b = active => index <= j)}}
Incoming == IF pc \in {"fill", "prefill"}
              THEN {Wrap(at[k] + i) : i \in {j \in Counts : j < total}} ELSE {}
NothingSkippedOrRepeated == due = Held(0) \cup Held(1) \cup Incoming

\* While a modulation keeps reading the ring, new samples keep coming: no order of
\* requests, claims and short reads leaves both sides waiting (next, beginRefill).
PlaybackNeverStalls ==
  <>[](Reading /\ streaming) => []<><<heard' # heard>>_vars

=============================================================================
