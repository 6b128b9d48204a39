-------------------------- MODULE StreamRingProofs --------------------------
(***************************************************************************)
(* What StreamRing guarantees for buffers and files of every size.  The    *)
(* inductive invariant RingInv says who may touch which buffer at each     *)
(* position of the main thread, and how the two buffers and the read       *)
(* position of the card follow each other in the file until the first      *)
(* underrun.  SpanInv says, for ever, where the two buffers lie behind     *)
(* that position: an underrun may exchange their order, and what they      *)
(* span together stays below the length of the file.                       *)
(***************************************************************************)
EXTENDS StreamRing, TLAPS

\* A prefill runs unobserved on a reset ring, and nothing is streamed before it ends.
PrefillInv ==
  /\ pc \in {"load", "prefill"} => ~streaming /\ (~playback \/ config = "off")
  /\ pc \in {"claim", "fill"} => streaming
  /\ config = "other" /\ playback => pc = "apply"
  /\ ~streaming /\ pc # "prefill" => Valid(0) = 0 /\ Valid(1) = 0
  /\ pc = "prefill" =>
       /\ active = 0 /\ index = 0 /\ ~starved
       /\ pub[k] = 0 /\ (k = 0 => pub[1] = 0)
       /\ pub[0] \in Counts /\ pub[1] \in Counts

\* The file position after the last one published, in the order of playing.
ToHear == Wrap(heard + 1)
End(b) == Wrap(at[b] + Valid(b))
Tail == IF Valid(Other(active)) # 0 THEN End(Other(active))
        ELSE IF Valid(active) # 0 THEN End(active) ELSE ToHear

\* Until the first underrun the two buffers and the card continue each other.
OrderInv ==
  ~starved =>
    /\ pub[active] \in Counts
    /\ Valid(active) # 0 =>
         index <= Valid(active) /\ Wrap(at[active] + index) = ToHear
    /\ Valid(Other(active)) # 0 =>
         at[Other(active)] = IF Valid(active) # 0 THEN End(active) ELSE ToHear
    /\ streaming \/ pc = "prefill" =>
         IF pc \in {"fill", "prefill"} /\ total # 0
           THEN at[k] = Tail /\ next = Wrap(Tail + total)
           ELSE next = Tail

RingInv == TypeOK /\ PrefillInv /\ BufferHasOneOwner /\ OrderInv

USE DEF isrVars, fillVars, mainVars, useVars, Buffers, Positions, Counts, PcSet,
        RefillRequested, Filling

\* Both sizes are natural numbers, and a file is longer than the two buffers.
Sizes ==
  /\ BufSamples \in Nat /\ 0 < BufSamples /\ BufSamples < 65536
  /\ Stored \in Nat /\ Stored > 2 * BufSamples

LEMMA SizesHold == Sizes
  BY BufSamplesAssumption, StoredAssumption DEF Sizes

\* Flags stay Boolean, whatever expression they are assigned.
Flags ==
  starved \in BOOLEAN /\ streaming \in BOOLEAN /\ playback \in BOOLEAN /\ irq \in BOOLEAN

LEMMA FlagStep == TypeOK /\ [Next]_vars => Flags'
  <1> SUFFICES ASSUME TypeOK, [Next]_vars PROVE Flags' OBVIOUS
  <1> Flags BY DEF TypeOK, Flags
  <1>1. CASE StreamTask BY <1>1, Zenon DEF Flags, StreamTask
  <1>2. CASE Claim BY <1>2 DEF Flags, Claim
  <1>3. CASE FillRead BY <1>3, Zenon DEF Flags, FillRead
  <1>4. CASE Publish BY <1>4, Zenon DEF Flags, Publish
  <1>5. CASE Load BY <1>5, Zenon DEF Flags, Load, ResetRing
  <1>6. CASE Apply BY <1>6, Zenon DEF Flags, Apply
  <1>7. CASE Continue BY <1>7, Zenon DEF Flags, Continue
  <1>8. CASE Switch BY <1>8, Zenon DEF Flags, Switch
  <1>9. CASE Underrun BY <1>9, Zenon DEF Flags, Underrun
  <1>10. CASE Replace BY <1>10, Zenon DEF Flags, Replace, ResetRing
  <1>11. CASE Configure BY <1>11, Zenon DEF Flags, Configure
  <1>12. CASE EnableIrq BY <1>12, Zenon DEF Flags, EnableIrq
  <1>13. CASE Trip BY <1>13, Zenon DEF Flags, Trip
  <1>14. CASE UNCHANGED vars BY <1>14, Zenon DEF Flags, vars
  <1>15. QED
    BY <1>1, <1>2, <1>3, <1>4, <1>5, <1>6, <1>7, <1>8, <1>9, <1>10, <1>11, <1>12,
       <1>13, <1>14, Zenon DEF Next, Main, Isr


\* What is read and not yet heard are positions of the file.
LEMMA DueStep == TypeOK /\ [Next]_vars => (due \subseteq Positions)'
  <1> SUFFICES ASSUME TypeOK, [Next]_vars PROVE (due \subseteq Positions)' OBVIOUS
  <1> due \subseteq Positions BY DEF TypeOK
  <1> HIDE DEF Positions
  <1>1. CASE StreamTask BY <1>1 DEF StreamTask
  <1>2. CASE Claim BY <1>2 DEF Claim
  <1>3. CASE FillRead
    <2>1. \A i \in 0..(ReadSize - 1) : next + i \in Positions
      BY SizesHold, SMTT(20) DEF TypeOK, ReadSize, Sizes, Positions
    <2>2. due' = due \cup {next + i : i \in 0..(ReadSize - 1)}
      BY <1>3, Zenon DEF FillRead
    <2>3. QED BY <2>1, <2>2, SMTT(20)
  <1>4. CASE Publish BY <1>4 DEF Publish
  <1>5. CASE Load
    <2>1. due' = {} \/ due' = due BY <1>5, Zenon DEF Load, ResetRing
    <2>2. QED BY <2>1
  <1>6. CASE Apply BY <1>6 DEF Apply
  <1>7. CASE Continue BY <1>7 DEF Continue, PlaySample
  <1>8. CASE Switch BY <1>8 DEF Switch, PlaySample
  <1>9. CASE Underrun BY <1>9 DEF Underrun
  <1>10. CASE Replace BY <1>10 DEF Replace, ResetRing
  <1>11. CASE Configure BY <1>11 DEF Configure
  <1>12. CASE EnableIrq BY <1>12 DEF EnableIrq
  <1>13. CASE Trip BY <1>13 DEF Trip
  <1>14. CASE UNCHANGED vars BY <1>14 DEF vars
  <1>15. QED
    BY <1>1, <1>2, <1>3, <1>4, <1>5, <1>6, <1>7, <1>8, <1>9, <1>10, <1>11, <1>12,
       <1>13, <1>14, Zenon DEF Next, Main, Isr

\* The board starts in RingInv.
LEMMA InitRingInv == Init => RingInv
  <1> SUFFICES ASSUME Init PROVE RingInv OBVIOUS
  <1>1. TypeOK
    <2>1. Flags BY Zenon DEF Init, Flags
    <2>2. QED BY <2>1, SizesHold, SMTT(20) DEF Sizes, Init, TypeOK, Flags
  <1>2. PrefillInv BY SizesHold, SMTT(20) DEF Sizes, Init, PrefillInv, Valid
  <1>3. BufferHasOneOwner
    BY SizesHold, SMTT(20) DEF Sizes, Init, BufferHasOneOwner, Valid, Reading
  <1>4. OrderInv BY SizesHold, SMTT(20) DEF Sizes, Init, OrderInv, Valid, Other
  <1>5. QED BY <1>1, <1>2, <1>3, <1>4 DEF RingInv

\* Every step keeps the types.
LEMMA TypeStep == RingInv /\ [Next]_vars => TypeOK'
  <1> SUFFICES ASSUME RingInv, [Next]_vars PROVE TypeOK' OBVIOUS
  <1> USE SizesHold DEF Sizes
  <1> USE DEF RingInv, TypeOK, Valid, Other
  <1> Flags' /\ (due \subseteq Positions)' BY FlagStep, DueStep
  <1> USE DEF Flags
  <1>1. CASE StreamTask BY <1>1, SMTT(20) DEF StreamTask
  <1>2. CASE Claim BY <1>2, SMTT(20) DEF Claim, Claimed, NextBuffer
  <1>3. CASE FillRead BY <1>3, SMTT(20) DEF FillRead, ReadSize, NextPosition
  <1>4. CASE Publish BY <1>4, SMTT(20) DEF Publish, NextBuffer
  <1>5. CASE Load BY <1>5, SMTT(20) DEF Load, ResetRing
  <1>6. CASE Apply BY <1>6, SMTT(20) DEF Apply
  <1>7. CASE Continue
    BY <1>7, SMTT(20) DEF Continue, Reading, CanContinue, Drained, PlaySample, Wrap
  <1>8. CASE Switch
    BY <1>8, SMTT(20) DEF Switch, Reading, CanContinue, Drained, PlaySample, Wrap,
       Requested, Rewound
  <1>9. CASE Underrun
    BY <1>9, SMTT(20) DEF Underrun, Reading, CanContinue, Drained, Requested,
       Rewound
  <1>10. CASE Replace BY <1>10, SMTT(20) DEF Replace, ResetRing, Replaceable
  <1>11. CASE Configure BY <1>11, SMTT(20) DEF Configure
  <1>12. CASE EnableIrq BY <1>12, SMTT(20) DEF EnableIrq
  <1>13. CASE Trip BY <1>13, SMTT(20) DEF Trip
  <1>14. CASE UNCHANGED vars BY <1>14, SMTT(20) DEF vars
  <1> HIDE SizesHold DEF Sizes, RingInv, TypeOK, Valid, Other, Flags
  <1>15. QED
    BY <1>1, <1>2, <1>3, <1>4, <1>5, <1>6, <1>7, <1>8, <1>9, <1>10, <1>11,
       <1>12, <1>13, <1>14,
       Zenon DEF Next, Main, Isr

\* Every step keeps a prefill unobserved.
LEMMA PrefillStep == RingInv /\ [Next]_vars => PrefillInv'
  <1> SUFFICES ASSUME RingInv, [Next]_vars PROVE PrefillInv' OBVIOUS
  <1>a. Publish => /\ streaming' <=> streaming \/ (pc = "prefill" /\ k = 1)
                   /\ UNCHANGED <<playback, config>>
    BY Zenon DEF Publish
  <1>b. Apply => /\ config = "other" => ~playback'
                 /\ pc' = "idle" /\ UNCHANGED <<config, streaming, pub>>
    BY Zenon DEF Apply
  <1> USE SizesHold DEF Sizes
  <1> USE DEF RingInv, TypeOK, PrefillInv, Valid, Other
  <1>1. CASE StreamTask BY <1>1, SMTT(20) DEF StreamTask
  <1>2. CASE Claim BY <1>2, SMTT(20) DEF Claim, Claimed, NextBuffer
  <1>3. CASE FillRead BY <1>3, SMTT(20) DEF FillRead, ReadSize, NextPosition
  <1>4. CASE Publish
    BY <1>4, <1>a, SMTT(20) DEF Publish, NextBuffer
  <1>5. CASE Load BY <1>5, SMTT(20) DEF Load, ResetRing
  <1>6. CASE Apply
    BY <1>6, <1>b, SMTT(20) DEF Apply
  <1>7. CASE Continue
    BY <1>7, SMTT(20) DEF Continue, Reading, CanContinue, Drained, PlaySample, Wrap
  <1>8. CASE Switch
    BY <1>8, SMTT(20) DEF Switch, Reading, CanContinue, Drained, PlaySample, Wrap,
       Requested, Rewound
  <1>9. CASE Underrun
    BY <1>9, SMTT(20) DEF Underrun, Reading, CanContinue, Drained, Requested,
       Rewound
  <1>10. CASE Replace BY <1>10, SMTT(20) DEF Replace, ResetRing, Replaceable
  <1>11. CASE Configure BY <1>11, SMTT(20) DEF Configure
  <1>12. CASE EnableIrq BY <1>12, SMTT(20) DEF EnableIrq
  <1>13. CASE Trip BY <1>13, SMTT(20) DEF Trip
  <1>14. CASE UNCHANGED vars BY <1>14, SMTT(20) DEF vars
  <1> HIDE SizesHold DEF Sizes, RingInv, TypeOK, PrefillInv, Valid, Other
  <1>15. QED
    BY <1>1, <1>2, <1>3, <1>4, <1>5, <1>6, <1>7, <1>8, <1>9, <1>10, <1>11,
       <1>12, <1>13, <1>14,
       Zenon DEF Next, Main, Isr

\* Every step keeps a written buffer out of the interrupt's reach.
LEMMA OwnerStep == RingInv /\ [Next]_vars => BufferHasOneOwner'
  <1> SUFFICES ASSUME RingInv, [Next]_vars PROVE BufferHasOneOwner' OBVIOUS
  <1> USE SizesHold DEF Sizes
  <1> USE DEF RingInv, TypeOK, PrefillInv, BufferHasOneOwner, Valid, Other, Reading
  <1>1. CASE StreamTask BY <1>1, SMTT(20) DEF StreamTask
  <1>2. CASE Claim BY <1>2, SMTT(20) DEF Claim, Claimed, NextBuffer
  <1>3. CASE FillRead BY <1>3, SMTT(20) DEF FillRead, ReadSize, NextPosition
  <1>4. CASE Publish BY <1>4, SMTT(20) DEF Publish, NextBuffer
  <1>5. CASE Load BY <1>5, SMTT(20) DEF Load, ResetRing
  <1>6. CASE Apply BY <1>6, SMTT(20) DEF Apply
  <1>7. CASE Continue
    BY <1>7, SMTT(20) DEF Continue, Reading, CanContinue, Drained, PlaySample, Wrap
  <1>8. CASE Switch
    BY <1>8, SMTT(20) DEF Switch, Reading, CanContinue, Drained, PlaySample, Wrap,
       Requested, Rewound
  <1>9. CASE Underrun
    BY <1>9, SMTT(20) DEF Underrun, Reading, CanContinue, Drained, Requested,
       Rewound
  <1>10. CASE Replace BY <1>10, SMTT(20) DEF Replace, ResetRing, Replaceable
  <1>11. CASE Configure BY <1>11, SMTT(20) DEF Configure
  <1>12. CASE EnableIrq BY <1>12, SMTT(20) DEF EnableIrq
  <1>13. CASE Trip BY <1>13, SMTT(20) DEF Trip
  <1>14. CASE UNCHANGED vars BY <1>14, SMTT(20) DEF vars
  <1> HIDE SizesHold DEF Sizes, RingInv, TypeOK, PrefillInv, BufferHasOneOwner, Valid,
              Other, Reading
  <1>15. QED
    BY <1>1, <1>2, <1>3, <1>4, <1>5, <1>6, <1>7, <1>8, <1>9, <1>10, <1>11,
       <1>12, <1>13, <1>14,
       Zenon DEF Next, Main, Isr

\* Every step keeps the order of the file, until the first underrun.
LEMMA OrderStep == RingInv /\ [Next]_vars => OrderInv'
  <1> SUFFICES ASSUME RingInv, [Next]_vars PROVE OrderInv' OBVIOUS
  <1>a. Underrun => starved' BY Zenon DEF Underrun
  <1> USE SizesHold DEF Sizes
  <1> USE DEF RingInv, TypeOK, PrefillInv, BufferHasOneOwner, OrderInv, Valid, Other,
             ToHear, End, Tail, Wrap
  <1>1. CASE StreamTask BY <1>1, SMTT(20) DEF StreamTask
  <1>2. CASE Claim BY <1>2, SMTT(20) DEF Claim, Claimed, NextBuffer
  <1>3. CASE FillRead
    <2> SUFFICES ASSUME ~starved PROVE OrderInv'
      BY <1>3 DEF FillRead
    <2>1. ReadSize \in 1..(BufSamples - total)
      BY <1>3, SMTT(20) DEF FillRead, ReadSize
    <2>2. next' = Wrap(next + ReadSize)
      BY <1>3, SMTT(20) DEF FillRead, ReadSize, NextPosition
    <2>3. streaming \/ pc = "prefill" BY <1>3, SMTT(20) DEF FillRead
    <2>4. CASE total = 0
      BY <1>3, <2>1, <2>2, <2>3, <2>4, SMTT(30) DEF FillRead
    <2>5. CASE total # 0
      BY <1>3, <2>1, <2>2, <2>3, <2>5, SMTT(30) DEF FillRead
    <2>6. QED BY <2>4, <2>5
  <1>4. CASE Publish BY <1>4, SMTT(20) DEF Publish, NextBuffer
  <1>5. CASE Load BY <1>5, SMTT(20) DEF Load, ResetRing
  <1>6. CASE Apply BY <1>6, SMTT(20) DEF Apply
  <1>7. CASE Continue
    BY <1>7, SMTT(20) DEF Continue, Reading, CanContinue, Drained, PlaySample, Wrap
  <1>8. CASE Switch
    BY <1>8, SMTT(20) DEF Switch, Reading, CanContinue, Drained, PlaySample, Wrap,
       Requested, Rewound
  <1>9. CASE Underrun BY <1>9, <1>a
  <1>10. CASE Replace BY <1>10, SMTT(20) DEF Replace, ResetRing, Replaceable
  <1>11. CASE Configure BY <1>11, SMTT(20) DEF Configure
  <1>12. CASE EnableIrq BY <1>12, SMTT(20) DEF EnableIrq
  <1>13. CASE Trip BY <1>13, SMTT(20) DEF Trip
  <1>14. CASE UNCHANGED vars BY <1>14, SMTT(20) DEF vars
  <1> HIDE SizesHold DEF Sizes, RingInv, TypeOK, PrefillInv, BufferHasOneOwner, OrderInv,
              Valid, Other, ToHear, End, Tail, Wrap
  <1>15. QED
    BY <1>1, <1>2, <1>3, <1>4, <1>5, <1>6, <1>7, <1>8, <1>9, <1>10, <1>11,
       <1>12, <1>13, <1>14,
       Zenon DEF Next, Main, Isr

\* RingInv holds in every reachable state.
THEOREM RingInductive == Spec => []RingInv
  <1>1. RingInv /\ [Next]_vars => RingInv'
    BY TypeStep, PrefillStep, OwnerStep, OrderStep, Zenon DEF RingInv
  <1>2. QED BY InitRingInv, <1>1, PTL DEF Spec

\* Every index stays inside its buffer and every position inside the file, for
\* buffers and files of every size (next, fillStreamBuffer).
THEOREM RingTypeCorrect == Spec => []TypeOK
  <1>1. RingInv => TypeOK BY DEF RingInv
  <1>2. QED BY <1>1, RingInductive, PTL

\* A buffer is never written while the interrupt may play it (beginRefill, next, and
\* the refusal of api_waveform_post).
THEOREM RingHasOneOwner == Spec => []BufferHasOneOwner
  <1>1. RingInv => BufferHasOneOwner BY DEF RingInv
  <1>2. QED BY <1>1, RingInductive, PTL

\* Until the first underrun every sample heard is the successor of the one before,
\* over every change of buffer and wrap of the file (next, fillStreamBuffer).
THEOREM RingPlaysInOrder == Spec => PlaysInOrder
  <1>1. RingInv /\ [Next]_vars
          => [heard' # heard /\ ~starved /\ pc # "load" /\ pc' # "load"
                => heard' = Wrap(heard + 1)]_vars
    <2> SUFFICES ASSUME RingInv, [Next]_vars, heard' # heard, ~starved,
                        pc # "load", pc' # "load"
                 PROVE  heard' = Wrap(heard + 1)
      BY Zenon
    <2>1. Continue \/ Switch
      <3>1. ~UNCHANGED vars BY Zenon DEF vars
      <3>2. ~Load /\ ~Replace BY Zenon DEF Load, Replace
      <3>3. ~StreamTask /\ ~FillRead /\ ~Publish
        BY Zenon DEF StreamTask, FillRead, Publish
      <3>4. ~Claim BY SMT DEF Claim
      <3>5. ~Apply /\ ~Underrun /\ ~Configure /\ ~EnableIrq /\ ~Trip
        BY Zenon DEF Apply, Underrun, Configure, EnableIrq, Trip
      <3>6. QED BY <3>1, <3>2, <3>3, <3>4, <3>5, Zenon DEF Next, Main, Isr
    <2>2. CASE Continue
      BY <2>2, SizesHold, SMTT(20) DEF Sizes, RingInv, TypeOK, OrderInv, Valid, ToHear,
         Continue, CanContinue, Drained, PlaySample
    <2>3. CASE Switch
      BY <2>3, SizesHold, SMTT(30) DEF Sizes, RingInv, TypeOK, OrderInv, Valid, Other,
         ToHear, End, Wrap, Switch, CanContinue, Drained, PlaySample, Rewound
    <2>4. QED BY <2>1, <2>2, <2>3
  <1>2. QED BY <1>1, RingInductive, PTL DEF Spec, PlaysInOrder


-----------------------------------------------------------------------------
(* No sample skipped or repeated.                                          *)

\* How far the card has read past a position.
Age(p) == IF next > p THEN next - p ELSE next - p + Stored
\* What the buffer being filled has so far.
Read == IF pc \in {"fill", "prefill"} THEN total ELSE 0
Twice(p) == IF p THEN BufSamples ELSE 0

\* Playing starts at the first sample of a buffer; what is being filled is what the card
\* has just read.
FreshInv == /\ Valid(active) = 0 => index = 0
            /\ Read # 0 => Age(at[k]) = Read

\* A published buffer lies whole behind what is being filled.  When the other holds
\* nothing it is the last one read, or the one before it while it is still being played.
LoneInv == \A b \in Buffers : Valid(b) # 0 =>
  /\ Age(at[b]) >= Valid(b) + Read
  /\ Valid(Other(b)) = 0 => Age(at[b]) <= Read + BufSamples + Twice(active = b)

\* Of two published buffers o is the older: it ends before the other begins, at most one
\* buffer back, or two when it is the one being played.
Older(o) ==
  /\ Age(at[o]) >= Valid(o) + Age(at[Other(o)])
  /\ Age(at[Other(o)]) <= BufSamples
  /\ Age(at[o]) <= 2 * BufSamples + Twice(active = o)
PairInv == Valid(0) # 0 /\ Valid(1) # 0 => Older(0) \/ Older(1)

\* Whichever buffer is older, the two and the one being filled never span the file.
SpanInv == FreshInv /\ LoneInv /\ PairInv

\* What the proofs below need of the sizes.
LEMMA LongHolds ==
  Stored >= 3 * BufSamples /\ Stored \in Nat /\ BufSamples \in Nat /\ BufSamples > 0
BY BufSamplesAssumption, StoredAssumption

\* A step that leaves what the buffers hold and where, and nothing being filled.
LEMMA SpanSame ==
  SpanInv /\ active \in Buffers /\ UNCHANGED <<active, index, at, next>>
    /\ Valid(0)' = Valid(0) /\ Valid(1)' = Valid(1) /\ Read' = Read
    /\ (Read # 0 => k' = k) => SpanInv'
<1> SUFFICES ASSUME SpanInv, active \in Buffers, UNCHANGED <<active, index, at, next>>,
                    Valid(0)' = Valid(0), Valid(1)' = Valid(1), Read' = Read,
                    Read # 0 => k' = k
             PROVE  SpanInv'
  BY Zenon
<1>1. Age(at[0])' = Age(at[0]) /\ Age(at[1])' = Age(at[1]) BY DEF Age
<1>2. FreshInv'
  <2>1. Valid(active)' = Valid(active) OBVIOUS
  <2>2. Read # 0 => Age(at[k])' = Age(at[k]) BY DEF Age
  <2>3. QED BY <2>1, <2>2, Zenon DEF SpanInv, FreshInv
<1>3. LoneInv' /\ PairInv' BY <1>1 DEF SpanInv, LoneInv, PairInv, Older, Other, Twice
<1>4. QED BY <1>2, <1>3 DEF SpanInv

\* How far the card has read past a buffer is a number of samples of the file.
LEMMA AgeIs == ASSUME TypeOK, NEW p \in Positions PROVE Age(p) \in 1..Stored
BY LongHolds DEF TypeOK, Age

\* A published count is one of samples.
LEMMA ValidIs == ASSUME TypeOK, NEW b \in Buffers PROVE Valid(b) \in Counts
BY LongHolds DEF TypeOK, Valid

\* Every step of the interrupt and of the main thread keeps the span.
LEMMA SpanStep == RingInv /\ SpanInv /\ [Next]_vars => SpanInv'
  <1> SUFFICES ASSUME RingInv, SpanInv, [Next]_vars PROVE SpanInv' OBVIOUS
  <1>t. TypeOK /\ TypeOK' BY TypeStep DEF RingInv
  <1>n. active \in Buffers /\ index \in Counts /\ k \in Buffers /\ total \in Counts
        /\ next \in Positions /\ at \in [Buffers -> Positions]
        /\ pub \in [Buffers -> Counts \cup {RefillRequested, Filling}]
    BY <1>t DEF TypeOK
  <1>v. /\ Valid(0) \in Nat /\ Valid(1) \in Nat /\ Read \in Nat /\ BufSamples \in Nat
        /\ \A b \in Buffers : Age(at[b]) \in Nat
    BY <1>t, <1>n, AgeIs, ValidIs, LongHolds DEF Read
  <1>1. CASE StreamTask \/ Apply \/ Configure \/ EnableIrq \/ Trip \/ UNCHANGED vars
    <2>1. /\ UNCHANGED <<pub, active, index, at, next>>
          /\ \/ pc \notin {"fill", "prefill"} /\ pc' \notin {"fill", "prefill"}
             \/ UNCHANGED <<pc, total, k>>
      BY <1>1 DEF StreamTask, Apply, Configure, EnableIrq, Trip, vars
    <2>2. Read' = Read /\ Valid(0)' = Valid(0) /\ Valid(1)' = Valid(1)
          /\ (Read # 0 => k' = k)
      BY <2>1 DEF Read, Valid
    <2>3. QED BY <1>n, <2>1, <2>2, SpanSame
  <1>2. CASE Claim
    <2>1. UNCHANGED <<active, index, at, next>> /\ total' = 0 /\ pc = "claim"
      BY <1>2 DEF Claim
    <2>2. Read = 0 /\ Read' = 0 BY <2>1 DEF Read
    <2>3. Valid(0)' = Valid(0) /\ Valid(1)' = Valid(1)
      <3>1. pub' = pub \/ (pub[k] = RefillRequested /\ pub' = [pub EXCEPT ![k] = Filling])
        BY <1>2 DEF Claim, Claimed
      <3>2. QED BY <1>n, <3>1, LongHolds, BufSamplesAssumption DEF Valid
    <2>4. QED BY <1>n, <2>1, <2>2, <2>3, SpanSame
  <1>3. CASE FillRead
    <2>1. ReadSize \in 1..(BufSamples - total) /\ total < BufSamples
      BY <1>3, <1>n, LongHolds, SMTT(20) DEF FillRead, ReadSize
    <2>2. next' = Wrap(next + ReadSize)
      BY <1>3, <1>n, LongHolds, SMTT(20) DEF FillRead, ReadSize, NextPosition, Wrap
    <2>3. /\ pc \in {"fill", "prefill"} /\ total' = total + ReadSize
          /\ at' = IF total = 0 THEN [at EXCEPT ![k] = next] ELSE at
          /\ UNCHANGED <<pub, active, index, pc, k>>
      BY <1>3, Zenon DEF FillRead
    <2>4. Valid(k) = 0 /\ Read = total /\ Read' = total + ReadSize
      BY <2>3, LongHolds, BufSamplesAssumption DEF RingInv, BufferHasOneOwner, Valid, Read
    <2>5. Age(at[k])' = total + ReadSize
      <3>1. CASE total = 0
        BY <1>n, <2>1, <2>2, <2>3, <3>1, LongHolds DEF Age, Wrap
      <3>2. CASE total # 0
        <4>1. Age(at[k]) = total BY <2>4, <3>2 DEF SpanInv, FreshInv
        <4>2. QED BY <1>n, <2>1, <2>2, <2>3, <3>2, <4>1, LongHolds DEF Age, Wrap
      <3>3. QED BY <3>1, <3>2
    <2>6. ASSUME Valid(Other(k)) # 0 PROVE Age(at[Other(k)])' = Age(at[Other(k)]) + ReadSize
      <3>1. Age(at[Other(k)]) <= total + 2 * BufSamples
        BY <1>n, <1>v, <2>4, <2>6, LongHolds DEF SpanInv, LoneInv, Other, Twice
      <3>2. at'[Other(k)] = at[Other(k)] /\ Other(k) \in Buffers /\ at[Other(k)] \in Positions
        BY <1>n, <2>3 DEF Other
      <3>3. QED BY <1>n, <2>1, <2>2, <2>3, <3>1, <3>2, LongHolds DEF Age, Wrap
    <2>7. Valid(0)' = Valid(0) /\ Valid(1)' = Valid(1) BY <2>3 DEF Valid
    <2>8. FreshInv' BY <2>3, <2>4, <2>5, <2>7, <1>n DEF SpanInv, FreshInv
    <2>9. LoneInv'
      BY <1>n, <1>v, <2>1, <2>3, <2>4, <2>6, <2>7 DEF SpanInv, LoneInv, Other, Twice
    <2>10. PairInv' BY <1>n, <2>4, <2>7 DEF PairInv
    <2>11. QED BY <2>8, <2>9, <2>10 DEF SpanInv
  <1>4. CASE Publish
    <2>1. /\ pc \in {"fill", "prefill"} /\ pub' = [pub EXCEPT ![k] = total] /\ total' = 0
          /\ UNCHANGED <<active, index, at, next>>
      BY <1>4, Zenon DEF Publish
    <2>2. Valid(k) = 0 /\ Read = total /\ Read' = 0
      BY <2>1, LongHolds, BufSamplesAssumption DEF RingInv, BufferHasOneOwner, Valid, Read
    <2>3. pub'[k] = total /\ pub'[Other(k)] = pub[Other(k)]
      BY <1>n, <2>1 DEF Other
    <2>4. /\ k = 0 => Valid(0)' = total /\ Valid(1)' = Valid(1)
          /\ k = 1 => Valid(1)' = total /\ Valid(0)' = Valid(0)
      BY <1>n, <2>3 DEF Valid, Other
    <2>5. Age(at[0])' = Age(at[0]) /\ Age(at[1])' = Age(at[1]) BY <2>1 DEF Age
    <2>6. total # 0 => Age(at[k]) = total BY <2>2 DEF SpanInv, FreshInv
    <2>7. Valid(Other(k)) # 0 =>
            /\ Age(at[Other(k)]) >= Valid(Other(k)) + total
            /\ Age(at[Other(k)]) <= total + BufSamples + Twice(active = Other(k))
      BY <1>n, <2>2 DEF SpanInv, LoneInv, Other
    <2>8. FreshInv'
      BY <1>n, <2>1, <2>2, <2>4 DEF SpanInv, FreshInv
    <2>9. LoneInv'
      BY <1>n, <1>v, <2>1, <2>2, <2>4, <2>5, <2>6, <2>7 DEF LoneInv, Other, Twice
    <2>10. PairInv'
      BY <1>n, <1>v, <2>1, <2>2, <2>4, <2>5, <2>6, <2>7 DEF PairInv, Older, Other, Twice
    <2>11. QED BY <2>8, <2>9, <2>10 DEF SpanInv
  <1>5. CASE Load \/ Replace
    <2>1. CASE UNCHANGED <<pub, active, index, at, next>> /\ Load
      <3>1. Read = 0 /\ Read' = 0 BY <2>1, Zenon DEF Load, Read
      <3>2. Valid(0)' = Valid(0) /\ Valid(1)' = Valid(1) BY <2>1 DEF Valid
      <3>3. QED BY <1>n, <2>1, <3>1, <3>2, SpanSame
    <2>2. CASE ResetRing
      <3>1. Valid(0)' = 0 /\ Valid(1)' = 0 /\ index' = 0 BY <2>2, LongHolds DEF ResetRing, Valid
      <3>2. Read' = 0 BY <1>5, Zenon DEF Load, Replace, Read
      <3>3. QED BY <3>1, <3>2 DEF SpanInv, FreshInv, LoneInv, PairInv
    <2>3. QED BY <1>5, <2>1, <2>2, Zenon DEF Load, Replace
  <1>7. CASE Continue
    <2>1. /\ UNCHANGED <<pub, at, next, pc, total, k, active>> /\ Valid(active) # 0
      BY <1>7, Zenon DEF Continue, PlaySample, CanContinue
    <2>2. Read' = Read /\ Valid(0)' = Valid(0) /\ Valid(1)' = Valid(1)
      BY <2>1 DEF Read, Valid
    <2>3. Age(at[0])' = Age(at[0]) /\ Age(at[1])' = Age(at[1]) BY <2>1 DEF Age
    <2>4. FreshInv' BY <1>n, <2>1, <2>2, <2>3 DEF SpanInv, FreshInv
    <2>5. LoneInv' /\ PairInv'
      BY <2>1, <2>2, <2>3 DEF SpanInv, LoneInv, PairInv, Older, Other
    <2>6. QED BY <2>4, <2>5 DEF SpanInv
  <1>8. CASE Switch
    <2>1. /\ UNCHANGED <<at, next, pc, total, k>> /\ active' = Other(active)
          /\ pub' = [pub EXCEPT ![active] = Requested(active)] /\ Valid(Other(active)) # 0
      BY <1>8, Zenon DEF Switch, PlaySample
    <2>2. Read' = Read /\ Age(at[0])' = Age(at[0]) /\ Age(at[1])' = Age(at[1])
      BY <2>1 DEF Read, Age
    <2>3. /\ active = 0 => Valid(0)' = 0 /\ Valid(1)' = Valid(1)
          /\ active = 1 => Valid(1)' = 0 /\ Valid(0)' = Valid(0)
      BY <1>n, <2>1, LongHolds, BufSamplesAssumption DEF Valid, Requested, Other
    <2>4. FreshInv' BY <1>n, <2>1, <2>2, <2>3 DEF SpanInv, FreshInv, Other
    <2>5. LoneInv'
      BY <1>n, <1>v, <2>1, <2>2, <2>3 DEF SpanInv, LoneInv, PairInv, Older, Other, Twice
    <2>6. PairInv' BY <1>n, <2>3 DEF PairInv
    <2>7. QED BY <2>4, <2>5, <2>6 DEF SpanInv
  <1>9. CASE Underrun
    <2>1. /\ UNCHANGED <<at, next, pc, total, k>> /\ Valid(Other(active)) = 0
          /\ pub' = [b \in Buffers |-> Requested(b)]
          /\ IF Drained(active) THEN index' = 0 ELSE UNCHANGED <<active, index>>
          /\ Valid(active) = 0 \/ Drained(active)
      BY <1>9, Zenon DEF Underrun, CanContinue, Rewound
    <2>2. Valid(0)' = 0 /\ Valid(1)' = 0
      BY <1>n, <2>1, LongHolds, BufSamplesAssumption DEF Valid, Requested
    <2>3. index' = 0 BY <1>n, <2>1 DEF SpanInv, FreshInv, Drained
    <2>4. Read' = Read /\ Age(at[0])' = Age(at[0]) /\ Age(at[1])' = Age(at[1])
      BY <2>1 DEF Read, Age
    <2>5. FreshInv' BY <1>n, <2>1, <2>3, <2>4 DEF SpanInv, FreshInv
    <2>6. QED BY <2>2, <2>5 DEF SpanInv, LoneInv, PairInv
  <1>15. QED
    BY <1>1, <1>2, <1>3, <1>4, <1>5, <1>7, <1>8, <1>9, Zenon DEF Next, Main, Isr

\* The samples of a buffer that begins at position a and holds v of them, from the i-th on
\* if it is being played.
Arc(a, playing, i, v) ==
  {Wrap(a + n) : n \in {j \in Counts : j < v /\ (playing => i <= j)}}

\* Within one buffer no position comes twice.
LEMMA WrapOnce ==
  ASSUME NEW a \in Positions, NEW i \in Counts, NEW j \in Counts, Wrap(a + i) = Wrap(a + j)
  PROVE  i = j
BY LongHolds, SMTT(20) DEF Wrap

\* Playing the next sample of a buffer takes that one from it, and no other.
LEMMA ArcPlays ==
  ASSUME NEW a \in Positions, NEW i \in Counts, NEW v \in Counts, i < v
  PROVE  /\ Arc(a, TRUE, i + 1, v) = Arc(a, TRUE, i, v) \ {Wrap(a + i)}
         /\ Wrap(a + i) \in Arc(a, TRUE, i, v)
<1>1. ASSUME NEW p \in Arc(a, TRUE, i + 1, v) PROVE p \in Arc(a, TRUE, i, v) \ {Wrap(a + i)}
  <2>1. PICK j \in Counts : j < v /\ i + 1 <= j /\ p = Wrap(a + j) BY Zenon DEF Arc
  <2>2. i <= j /\ i # j BY <2>1, LongHolds
  <2>3. p # Wrap(a + i) BY <2>1, <2>2, WrapOnce
  <2>4. p \in Arc(a, TRUE, i, v) BY <2>1, <2>2, Zenon DEF Arc
  <2>5. QED BY <2>3, <2>4
<1>2. ASSUME NEW p \in Arc(a, TRUE, i, v), p # Wrap(a + i) PROVE p \in Arc(a, TRUE, i + 1, v)
  <2>1. PICK j \in Counts : j < v /\ i <= j /\ p = Wrap(a + j) BY Zenon DEF Arc
  <2>2. i # j BY <1>2, <2>1
  <2>3. i + 1 <= j BY <2>1, <2>2, LongHolds
  <2>4. QED BY <2>1, <2>3, Zenon DEF Arc
<1>3. Wrap(a + i) \in Arc(a, TRUE, i, v)
  <2>1. i <= i BY LongHolds
  <2>2. QED BY <2>1, Zenon DEF Arc
<1>4. QED BY <1>1, <1>2, <1>3, Zenon

\* A buffer that is not being played is one played from its first sample.
LEMMA ArcWhole ==
  ASSUME NEW a, NEW i, NEW v PROVE Arc(a, FALSE, i, v) = Arc(a, TRUE, 0, v)
<1>1. \A j \in Counts : 0 <= j BY LongHolds
<1>2. {j \in Counts : j < v /\ (FALSE => i <= j)} = {j \in Counts : j < v /\ (TRUE => 0 <= j)}
  BY <1>1, Zenon
<1>3. QED BY <1>2, Zenon DEF Arc

\* A buffer that is being played and has been played through holds nothing.
LEMMA ArcEmpty ==
  ASSUME NEW a, NEW i \in Counts, NEW v \in Counts, v = 0 \/ i >= v
  PROVE  Arc(a, TRUE, i, v) = {}
<1>1. \A j \in Counts : ~(j < v /\ (TRUE => i <= j)) BY LongHolds
<1>2. \A p : p \notin Arc(a, TRUE, i, v) BY <1>1, Zenon DEF Arc
<1>3. QED BY <1>2

\* The age of each sample of a buffer.
LEMMA AgeAt ==
  ASSUME TypeOK, NEW a \in Positions, NEW j \in Nat, j < Age(a)
  PROVE  Age(Wrap(a + j)) = Age(a) - j
BY LongHolds, SMTT(20) DEF TypeOK, Age, Wrap

\* A sample one buffer holds is in no other place.
LEMMA Apart ==
  ASSUME RingInv, SpanInv, NEW b \in Buffers, NEW i \in Counts, i < Valid(b)
  PROVE  /\ Wrap(at[b] + i) \notin Held(Other(b))
         /\ Wrap(at[b] + i) \notin Incoming
<1> DEFINE c == Other(b)
<1>1. TypeOK /\ c \in Buffers /\ c # b /\ Other(c) = b BY DEF RingInv, Other
<1>2. /\ Valid(b) \in Counts /\ Valid(c) \in Counts /\ at[b] \in Positions /\ at[c] \in Positions
      /\ at[k] \in Positions
      /\ Age(at[b]) \in 1..Stored /\ Age(at[c]) \in 1..Stored /\ Age(at[k]) \in 1..Stored
  <2>1. at[b] \in Positions /\ at[c] \in Positions /\ at[k] \in Positions BY <1>1 DEF TypeOK
  <2>2. QED BY <1>1, <2>1, AgeIs, ValidIs
<1>3. Read \in Counts BY <1>1, LongHolds DEF Read, TypeOK
<1>4. Age(at[b]) >= Valid(b) + Read BY <1>2, LongHolds DEF SpanInv, LoneInv
<1>5. Age(Wrap(at[b] + i)) = Age(at[b]) - i
  BY <1>1, <1>2, <1>3, <1>4, AgeAt, LongHolds
<1>6. ASSUME Wrap(at[b] + i) \in Held(c) PROVE FALSE
  <2>1. PICK j \in Counts : j < Valid(c) /\ Wrap(at[b] + i) = Wrap(at[c] + j)
    BY <1>6, Zenon DEF Held
  <2>2. Valid(b) # 0 /\ Valid(c) # 0 BY <1>2, <2>1, LongHolds
  <2>3. Age(at[c]) >= Valid(c) BY <1>1, <1>2, <1>3, <2>2, LongHolds DEF SpanInv, LoneInv
  <2>4. Age(Wrap(at[c] + j)) = Age(at[c]) - j
    BY <1>1, <1>2, <2>1, <2>3, AgeAt, LongHolds
  <2>5. Older(b) \/ Older(c)
    BY <1>1, <2>2 DEF SpanInv, PairInv, Other
  <2>6. Age(at[b]) >= Valid(b) + Age(at[c]) \/ Age(at[c]) >= Valid(c) + Age(at[b])
    BY <1>1, <2>5 DEF Older
  <2>7. QED BY <1>2, <1>5, <2>1, <2>4, <2>6, LongHolds
<1>7. ASSUME Wrap(at[b] + i) \in Incoming PROVE FALSE
  <2>1. PICK j \in Counts : j < Read /\ Wrap(at[b] + i) = Wrap(at[k] + j)
    BY <1>7, Zenon DEF Incoming, Read
  <2>2. Age(at[k]) = Read BY <1>3, <2>1, LongHolds DEF SpanInv, FreshInv
  <2>3. Age(Wrap(at[k] + j)) = Age(at[k]) - j
    BY <1>1, <1>2, <2>1, <2>2, AgeAt, LongHolds
  <2>4. QED BY <1>2, <1>4, <1>5, <2>1, <2>2, <2>3, LongHolds
<1>8. QED BY <1>6, <1>7

\* A step that neither reads a sample from the card nor plays one keeps the account.
LEMMA DueSame ==
  NothingSkippedOrRepeated /\ due' = due /\ Held(0)' = Held(0) /\ Held(1)' = Held(1)
    /\ Incoming' = Incoming => NothingSkippedOrRepeated'
BY Zenon DEF NothingSkippedOrRepeated

\* The interrupt plays the next sample of buffer b, which from now on is the active one.
LEMMA DuePlays ==
  ASSUME RingInv, SpanInv, NothingSkippedOrRepeated, NEW b \in Buffers, NEW i \in Counts,
         i < Valid(b), Held(b) = Arc(at[b], TRUE, i, Valid(b)),
         Held(b)' = Arc(at[b], TRUE, i + 1, Valid(b)),
         Held(Other(b))' = Held(Other(b)), Incoming' = Incoming,
         due' = due \ {Wrap(at[b] + i)}
  PROVE  NothingSkippedOrRepeated'
<1>1. at[b] \in Positions /\ Valid(b) \in Counts BY ValidIs DEF RingInv, TypeOK
<1>2. Held(b)' = Held(b) \ {Wrap(at[b] + i)}
  <2>1. Arc(at[b], TRUE, i + 1, Valid(b)) = Arc(at[b], TRUE, i, Valid(b)) \ {Wrap(at[b] + i)}
    BY <1>1, ArcPlays
  <2>2. QED BY <2>1, Zenon
<1>3. Wrap(at[b] + i) \notin Held(Other(b)) /\ Wrap(at[b] + i) \notin Incoming BY Apart
<1>4. due = Held(b) \cup Held(Other(b)) \cup Incoming
  <2>1. (b = 0 /\ Other(b) = 1) \/ (b = 1 /\ Other(b) = 0) BY DEF Other
  <2>2. Held(0) \cup Held(1) = Held(b) \cup Held(Other(b)) BY <2>1, Zenon
  <2>3. QED BY <2>2, Zenon DEF NothingSkippedOrRepeated
<1>5. due' = Held(b)' \cup Held(Other(b))' \cup Incoming' BY <1>2, <1>3, <1>4
<1>6. QED
  <2>1. (b = 0 /\ Other(b) = 1) \/ (b = 1 /\ Other(b) = 0) BY DEF Other
  <2>2. b' = b /\ Other(b)' = Other(b) OBVIOUS
  <2>3. QED BY <1>5, <2>1 DEF NothingSkippedOrRepeated

\* Every step keeps the account of what was read and not yet heard.
LEMMA AccountStep ==
  RingInv /\ SpanInv /\ NothingSkippedOrRepeated /\ [Next]_vars => NothingSkippedOrRepeated'
  <1> SUFFICES ASSUME RingInv, SpanInv, NothingSkippedOrRepeated, [Next]_vars
               PROVE  NothingSkippedOrRepeated'
    OBVIOUS
  <1>t. TypeOK BY DEF RingInv
  <1>n. active \in Buffers /\ index \in Counts /\ k \in Buffers /\ total \in Counts
        /\ next \in Positions /\ at \in [Buffers -> Positions]
        /\ pub \in [Buffers -> Counts \cup {RefillRequested, Filling}]
    BY <1>t DEF TypeOK
  <1>1. CASE StreamTask \/ Apply \/ Configure \/ EnableIrq \/ Trip \/ UNCHANGED vars
    <2>1. /\ UNCHANGED <<pub, active, index, at, due>>
          /\ \/ pc \notin {"fill", "prefill"} /\ pc' \notin {"fill", "prefill"}
             \/ UNCHANGED <<pc, total, k>>
      BY <1>1 DEF StreamTask, Apply, Configure, EnableIrq, Trip, vars
    <2>2. Held(0)' = Held(0) /\ Held(1)' = Held(1)
      BY <2>1, Zenon DEF Held, Valid
    <2>3. Incoming' = Incoming BY <2>1, Zenon DEF Incoming
    <2>4. QED BY <2>1, <2>2, <2>3, DueSame
  <1>2. CASE Claim
    <2>1. UNCHANGED <<active, index, at, due>> /\ pc = "claim" /\ total' = 0
      BY <1>2 DEF Claim
    <2>2. \A b \in Buffers : Valid(b)' = Valid(b)
      <3>1. pub' = pub \/ (pub[k] = RefillRequested /\ pub' = [pub EXCEPT ![k] = Filling])
        BY <1>2 DEF Claim, Claimed
      <3>2. QED BY <1>n, <3>1, LongHolds, BufSamplesAssumption DEF Valid
    <2>3. Held(0)' = Held(0) /\ Held(1)' = Held(1) BY <2>1, <2>2, Zenon DEF Held
    <2>4. Incoming = {} /\ Incoming' = {}
      <3>1. \A j \in Counts : ~(j < 0) BY LongHolds
      <3>2. \A p : p \notin Incoming' BY <2>1, <3>1, Zenon DEF Incoming
      <3>3. Incoming = {} BY <2>1 DEF Incoming
      <3>4. QED BY <3>2, <3>3
    <2>5. QED BY <2>1, <2>3, <2>4, DueSame
  <1>3. CASE FillRead
    <2>1. ReadSize \in 1..(BufSamples - total) /\ ReadSize <= Stored - next
      BY <1>3, <1>n, LongHolds, SMTT(20) DEF FillRead, ReadSize
    <2>2. /\ pc \in {"fill", "prefill"} /\ total' = total + ReadSize
          /\ at' = IF total = 0 THEN [at EXCEPT ![k] = next] ELSE at
          /\ due' = due \cup {next + i : i \in 0..(ReadSize - 1)}
          /\ UNCHANGED <<pub, active, index, pc, k>>
      BY <1>3, Zenon DEF FillRead
    <2>3. Valid(k) = 0 /\ Valid(k)' = 0
      BY <2>2, LongHolds, BufSamplesAssumption DEF RingInv, BufferHasOneOwner, Valid
    <2>4. PICK c \in Buffers : c = k BY <1>n
    <2>5. Held(c) = {} /\ Held(c)' = {}
      <3>1. \A j \in Counts : ~(j < 0) BY LongHolds
      <3>2. Valid(c) = 0 /\ Valid(c)' = 0 BY <2>2, <2>3, <2>4 DEF Valid
      <3>3. \A p : p \notin Held(c) /\ p \notin Held(c)' BY <3>1, <3>2, Zenon DEF Held
      <3>4. QED BY <3>3
    <2>6. Held(Other(c))' = Held(Other(c))
      <3>1. at'[Other(c)] = at[Other(c)] /\ Other(c)' = Other(c)
        BY <1>n, <2>2, <2>4 DEF Other
      <3>2. Valid(Other(c))' = Valid(Other(c)) BY <2>2, <3>1 DEF Valid
      <3>3. QED BY <2>2, <3>1, <3>2, Zenon DEF Held
    <2>7. at'[c] \in Positions /\ (total # 0 => at'[c] = at[c]) /\ (total = 0 => at'[c] = next)
      BY <1>n, <2>2, <2>4
    <2>8. total # 0 => Wrap(at[c] + total) = next
      <3>1. total # 0 => Age(at[c]) = total BY <2>2, <2>4 DEF SpanInv, FreshInv, Read
      <3>2. at[c] \in Positions BY <1>n
      <3>3. QED BY <1>n, <3>1, <3>2, LongHolds DEF Age, Wrap
    <2>9. ASSUME NEW i \in 0..(ReadSize - 1)
          PROVE  Wrap(at'[c] + (total + i)) = next + i /\ total + i \in Counts
      BY <1>n, <2>1, <2>7, <2>8, LongHolds DEF Wrap
    <2>10. Incoming = {Wrap(at[c] + i) : i \in {j \in Counts : j < total}}
           /\ Incoming' = {Wrap(at'[c] + i) : i \in {j \in Counts : j < total + ReadSize}}
      BY <2>2, <2>4, Zenon DEF Incoming
    <2>11. ASSUME NEW p \in Incoming PROVE p \in Incoming'
      <3>1. PICK j \in Counts : j < total /\ p = Wrap(at[c] + j) BY <2>10, <2>11, Zenon
      <3>2. total # 0 /\ j < total + ReadSize BY <1>n, <2>1, <3>1, LongHolds
      <3>3. p = Wrap(at'[c] + j) BY <2>7, <3>1, <3>2
      <3>4. QED BY <2>10, <3>2, <3>3, Zenon
    <2>12. ASSUME NEW i \in 0..(ReadSize - 1) PROVE next + i \in Incoming'
      <3>1. total + i \in Counts /\ total + i < total + ReadSize
        BY <1>n, <2>1, <2>9, <2>12, LongHolds
      <3>2. Wrap(at'[c] + (total + i)) = next + i BY <2>9, <2>12
      <3>3. QED BY <2>10, <3>1, <3>2, Zenon
    <2>13. ASSUME NEW p \in Incoming'
           PROVE  p \in Incoming \/ \E i \in 0..(ReadSize - 1) : p = next + i
      <3>1. PICK j \in Counts : j < total + ReadSize /\ p = Wrap(at'[c] + j)
        BY <2>10, <2>13, Zenon
      <3>2. CASE j < total
        <4>1. total # 0 BY <1>n, <3>2, LongHolds
        <4>2. p = Wrap(at[c] + j) BY <2>7, <3>1, <4>1
        <4>3. QED BY <2>10, <3>2, <4>2, Zenon
      <3>3. CASE ~(j < total)
        <4>1. j - total \in 0..(ReadSize - 1) /\ total + (j - total) = j
          BY <1>n, <2>1, <3>1, <3>3, LongHolds
        <4>2. p = next + (j - total) BY <2>9, <3>1, <4>1
        <4>3. QED BY <4>1, <4>2
      <3>4. QED BY <3>2, <3>3
    <2>14. Incoming' = Incoming \cup {next + i : i \in 0..(ReadSize - 1)}
      BY <2>11, <2>12, <2>13
    <2>15. Held(0)' \cup Held(1)' = Held(0) \cup Held(1)
      <3>1. (c = 0 /\ Other(c) = 1) \/ (c = 1 /\ Other(c) = 0) BY DEF Other
      <3>2. Other(c)' = Other(c) OBVIOUS
      <3>3. QED BY <2>5, <2>6, <3>1
    <2>16. QED BY <2>2, <2>14, <2>15 DEF NothingSkippedOrRepeated
  <1>4. CASE Publish
    <2>1. /\ pc \in {"fill", "prefill"} /\ pub' = [pub EXCEPT ![k] = total] /\ total' = 0
          /\ UNCHANGED <<active, index, at, due>>
      BY <1>4, Zenon DEF Publish
    <2>2. PICK c \in Buffers : c = k BY <1>n
    <2>3. Valid(c) = 0
      BY <2>1, <2>2, LongHolds, BufSamplesAssumption DEF RingInv, BufferHasOneOwner, Valid
    <2>4. Valid(c)' = total /\ Valid(Other(c))' = Valid(Other(c)) /\ Other(c) # c
      BY <1>n, <2>1, <2>2 DEF Valid, Other
    <2>5. Held(c) = {}
      <3>1. \A j \in Counts : ~(j < 0) BY LongHolds
      <3>2. \A p : p \notin Held(c) BY <2>3, <3>1, Zenon DEF Held
      <3>3. QED BY <3>2
    <2>6. Held(Other(c))' = Held(Other(c)) BY <2>1, <2>4, Zenon DEF Held
    <2>7. Held(c)' = Incoming
      <3>1. c = active => index = 0 BY <2>3 DEF SpanInv, FreshInv
      <3>2. \A j \in Counts : c = active => index <= j BY <3>1, LongHolds
      <3>3. Incoming = {Wrap(at[c] + i) : i \in {j \in Counts : j < total}}
        BY <2>1, <2>2, Zenon DEF Incoming
      <3>4. Held(c)' = {Wrap(at[c] + i) :
                          i \in {j \in Counts : j < total /\ (c = active => index <= j)}}
        BY <2>1, <2>4, Zenon DEF Held
      <3>5. {j \in Counts : j < total /\ (c = active => index <= j)} = {j \in Counts : j < total}
        BY <3>2, Zenon
      <3>6. QED BY <3>3, <3>4, <3>5, Zenon
    <2>8. Incoming' = {}
      <3>1. \A j \in Counts : ~(j < 0) BY LongHolds
      <3>2. \A p : p \notin Incoming' BY <2>1, <3>1, Zenon DEF Incoming
      <3>3. QED BY <3>2
    <2>9. QED
      <3>1. (c = 0 /\ Other(c) = 1) \/ (c = 1 /\ Other(c) = 0) BY DEF Other
      <3>2. Other(c)' = Other(c) OBVIOUS
      <3>3. due = Held(Other(c)) \cup Incoming
        BY <2>5, <3>1 DEF NothingSkippedOrRepeated
      <3>4. due' = Held(Other(c))' \cup Held(c)' \cup Incoming' BY <2>1, <2>6, <2>7, <2>8, <3>3
      <3>5. QED BY <3>1, <3>4 DEF NothingSkippedOrRepeated
  <1>5. CASE Load \/ Replace
    <2>1. CASE UNCHANGED <<pub, active, index, at, due>> /\ Load
      <3>1. Held(0)' = Held(0) /\ Held(1)' = Held(1) BY <2>1, Zenon DEF Held, Valid
      <3>2. Incoming = {} /\ Incoming' = {}
        <4>1. pc = "load" /\ total' = 0 BY <2>1, Zenon DEF Load
        <4>2. \A j \in Counts : ~(j < 0) BY LongHolds
        <4>3. \A p : p \notin Incoming' BY <4>1, <4>2, Zenon DEF Incoming
        <4>4. Incoming = {} BY <4>1 DEF Incoming
        <4>5. QED BY <4>3, <4>4
      <3>3. QED BY <2>1, <3>1, <3>2, DueSame
    <2>2. CASE ResetRing
      <3>1. \A j \in Counts : ~(j < 0) BY LongHolds
      <3>2. Valid(0)' = 0 /\ Valid(1)' = 0 /\ due' = {} BY <2>2, LongHolds DEF ResetRing, Valid
      <3>3. \A p : p \notin Held(0)' /\ p \notin Held(1)' BY <3>1, <3>2, Zenon DEF Held
      <3>4. pc' \notin {"fill", "prefill"} \/ total' = 0 BY <1>5, Zenon DEF Load, Replace
      <3>5. \A p : p \notin Incoming' BY <3>1, <3>4, Zenon DEF Incoming
      <3>6. QED BY <3>2, <3>3, <3>5 DEF NothingSkippedOrRepeated
    <2>3. QED BY <1>5, <2>1, <2>2, Zenon DEF Load, Replace
  <1>7. CASE Continue
    <2>1. /\ UNCHANGED <<pub, at, next, pc, total, k, active>> /\ index' = index + 1
          /\ due' = due \ {Wrap(at[active] + index)} /\ Valid(active) # 0 /\ ~Drained(active)
      BY <1>7, Zenon DEF Continue, PlaySample, CanContinue
    <2>2. PICK b \in Buffers : b = active BY <1>n
    <2>3. PICK i \in Counts : i = index BY <1>n
    <2>4. i < Valid(b)
      BY <1>n, <1>t, <2>1, <2>2, <2>3, ValidIs, LongHolds DEF Drained
    <2>5. Held(b) = Arc(at[b], TRUE, i, Valid(b))
      BY <2>2, <2>3, Zenon DEF Held, Arc
    <2>6. Held(b)' = Arc(at[b], TRUE, i + 1, Valid(b))
      BY <2>1, <2>2, <2>3, Zenon DEF Held, Arc, Valid
    <2>7. Other(b) # b BY DEF Other
    <2>8. Held(Other(b))' = Held(Other(b))
      BY <2>1, <2>2, <2>7, Zenon DEF Held, Valid
    <2>9. Incoming' = Incoming BY <2>1, Zenon DEF Incoming
    <2>10. due' = due \ {Wrap(at[b] + i)} BY <2>1, <2>2, <2>3
    <2>11. QED BY <2>4, <2>5, <2>6, <2>8, <2>9, <2>10, DuePlays
  <1>8. CASE Switch
    <2>1. /\ UNCHANGED <<at, next, pc, total, k>> /\ active' = Other(active) /\ index' = 0 + 1
          /\ due' = due \ {Wrap(at[Other(active)] + 0)}
          /\ pub' = [pub EXCEPT ![active] = Requested(active)] /\ Valid(Other(active)) # 0
          /\ (Valid(active) = 0 \/ Drained(active))
      BY <1>8, Zenon DEF Switch, PlaySample, Rewound, CanContinue
    <2>2. PICK b \in Buffers : b = Other(active) BY <1>n DEF Other
    <2>3. Other(b) = active /\ b # active /\ Other(b) \in Buffers /\ Other(b)' = Other(b)
      BY <1>n, <2>2 DEF Other
    <2>4. 0 < Valid(b) /\ 0 \in Counts BY <1>t, <2>1, <2>2, ValidIs, LongHolds
    <2>5. Valid(b)' = Valid(b) /\ Valid(Other(b))' = 0
      BY <1>n, <2>1, <2>2, <2>3, LongHolds, BufSamplesAssumption DEF Valid, Requested
    <2>6. Held(b) = Arc(at[b], TRUE, 0, Valid(b))
      <3>1. Held(b) = Arc(at[b], FALSE, index, Valid(b)) BY <2>3, Zenon DEF Held, Arc
      <3>2. QED BY <3>1, ArcWhole
    <2>7. Held(b)' = Arc(at[b], TRUE, 0 + 1, Valid(b))
      BY <2>1, <2>2, <2>5, Zenon DEF Held, Arc
    <2>8. Held(Other(b)) = {}
      <3>1. Held(Other(b)) = Arc(at[Other(b)], TRUE, index, Valid(Other(b)))
        BY <2>3, Zenon DEF Held, Arc
      <3>2. Valid(Other(b)) = 0 \/ index >= Valid(Other(b)) BY <2>1, <2>3 DEF Drained
      <3>3. Valid(Other(b)) \in Counts BY <1>t, <2>3, ValidIs
      <3>4. PICK i \in Counts : i = index BY <1>n
      <3>5. PICK v \in Counts : v = Valid(Other(b)) BY <3>3
      <3>6. PICK a : a = at[Other(b)] OBVIOUS
      <3>7. v = 0 \/ i >= v BY <3>2, <3>4, <3>5
      <3>8. Arc(a, TRUE, i, v) = {} BY <3>7, ArcEmpty
      <3>9. QED BY <3>1, <3>4, <3>5, <3>6, <3>8, Zenon
    <2>9. Held(Other(b))' = {}
      <3>1. \A j \in Counts : ~(j < 0) BY LongHolds
      <3>2. \A p : p \notin Held(Other(b))' BY <2>3, <2>5, <3>1, Zenon DEF Held
      <3>3. QED BY <3>2
    <2>10. Incoming' = Incoming BY <2>1, Zenon DEF Incoming
    <2>11. due' = due \ {Wrap(at[b] + 0)} BY <2>1, <2>2
    <2>12. Held(Other(b))' = Held(Other(b)) BY <2>8, <2>9
    <2>13. QED BY <2>4, <2>6, <2>7, <2>10, <2>11, <2>12, DuePlays
  <1>9. CASE Underrun
    <2>1. /\ UNCHANGED <<at, next, pc, total, k, due>> /\ Valid(Other(active)) = 0
          /\ pub' = [b \in Buffers |-> Requested(b)]
          /\ Valid(active) = 0 \/ Drained(active)
      BY <1>9, Zenon DEF Underrun, CanContinue
    <2>2. Valid(0)' = 0 /\ Valid(1)' = 0
      BY <1>n, <2>1, LongHolds, BufSamplesAssumption DEF Valid, Requested
    <2>3. \A j \in Counts : ~(j < 0) BY LongHolds
    <2>4. \A p : p \notin Held(0)' /\ p \notin Held(1)' BY <2>2, <2>3, Zenon DEF Held
    <2>5. Held(Other(active)) = {}
      <3>1. \A p : p \notin Held(Other(active)) BY <2>1, <2>3, Zenon DEF Held
      <3>2. QED BY <3>1
    <2>6. Held(active) = {}
      <3>1. Held(active) = Arc(at[active], TRUE, index, Valid(active))
        BY Zenon DEF Held, Arc
      <3>2. Valid(active) = 0 \/ index >= Valid(active) BY <2>1 DEF Drained
      <3>3. Valid(active) \in Counts BY <1>t, <1>n, ValidIs
      <3>4. PICK i \in Counts : i = index BY <1>n
      <3>5. PICK v \in Counts : v = Valid(active) BY <3>3
      <3>6. PICK a : a = at[active] OBVIOUS
      <3>7. v = 0 \/ i >= v BY <3>2, <3>4, <3>5
      <3>8. Arc(a, TRUE, i, v) = {} BY <3>7, ArcEmpty
      <3>9. QED BY <3>1, <3>4, <3>5, <3>6, <3>8, Zenon
    <2>7. Held(0) = {} /\ Held(1) = {}
      <3>1. (active = 0 /\ Other(active) = 1) \/ (active = 1 /\ Other(active) = 0)
        BY <1>n DEF Other
      <3>2. QED BY <2>5, <2>6, <3>1
    <2>8. Incoming' = Incoming BY <2>1, Zenon DEF Incoming
    <2>9. Held(0)' = Held(0) /\ Held(1)' = Held(1) BY <2>4, <2>7
    <2>10. QED BY <2>1, <2>8, <2>9, DueSame
  <1>15. QED
    BY <1>1, <1>2, <1>3, <1>4, <1>5, <1>7, <1>8, <1>9, Zenon DEF Next, Main, Isr

\* The board starts with an empty account.
LEMMA AccountStarts == Init => SpanInv /\ NothingSkippedOrRepeated
  <1> SUFFICES ASSUME Init PROVE SpanInv /\ NothingSkippedOrRepeated OBVIOUS
  <1>1. /\ pub = [b \in Buffers |-> 0] /\ index = 0 /\ pc = "load" /\ due = {}
    BY DEF Init
  <1>2. Valid(0) = 0 /\ Valid(1) = 0 /\ Read = 0 BY <1>1, LongHolds DEF Valid, Read
  <1>3. SpanInv BY <1>1, <1>2 DEF SpanInv, FreshInv, LoneInv, PairInv
  <1>4. \A j \in Counts : ~(j < 0) BY LongHolds
  <1>5. \A p : p \notin Held(0) /\ p \notin Held(1) BY <1>2, <1>4, Zenon DEF Held
  <1>6. Incoming = {} BY <1>1 DEF Incoming
  <1>7. QED BY <1>1, <1>3, <1>5, <1>6 DEF NothingSkippedOrRepeated

\* Whatever starves, fails or is switched off in between, no sample read from the card is
\* dropped and none is played twice, for buffers and files of every size (next,
\* markFilled, fillStreamBuffer).
THEOREM RingSkipsNothing == Spec => []NothingSkippedOrRepeated
  <1> DEFINE Account == RingInv /\ SpanInv /\ NothingSkippedOrRepeated
  <1>1. Init => Account BY InitRingInv, AccountStarts
  <1>2. Account /\ [Next]_vars => Account'
    BY TypeStep, PrefillStep, OwnerStep, OrderStep, SpanStep, AccountStep, Zenon DEF RingInv
  <1>3. Account => NothingSkippedOrRepeated OBVIOUS
  <1> HIDE DEF Account
  <1>4. QED BY <1>1, <1>2, <1>3, PTL DEF Spec

=============================================================================
