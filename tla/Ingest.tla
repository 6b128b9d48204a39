------------------------------- MODULE Ingest -------------------------------
(***************************************************************************)
(* How the body of a waveform upload becomes the staged file (waveform.cpp *)
(* with waveform_parse.h and gzip_stream.h): it may be a gzip container,   *)
(* what is in it may be text or binary, and it is consumed as it arrives.  *)
(* A unit stands for the bytes that belong together: a line, its end, a    *)
(* field of a header, half a binary record.  What the file is then used    *)
(* for is in WaveformStore.                                                *)
(***************************************************************************)
EXTENDS Integers, Sequences, FiniteSets, Functions

CONSTANTS
  StagingSamples,   \* 4096, the samples gathered before a write
  MaxWaveSegments,  \* 64
  MaxStreamSamples, \* 2 M, the samples a file may hold
  MaxLines,         \* bound: the lines of a text after its first
  MaxRecords        \* bound: the records of a binary upload

ConstantsOK ==
  /\ StagingSamples \in Nat \ {0} /\ MaxWaveSegments \in Nat \ {0}
  /\ MaxStreamSamples \in Nat
  /\ MaxLines \in Nat /\ MaxRecords \in Nat

VARIABLES
  wire,      \* the body of the request
  got,       \* receivedBytes
  gz,        \* [state, flags, left, crc]: GzipInflater while the body is a container
  stage,     \* "detect", "text", "samples", "segments" or "failed"
  pre,       \* pre, the units before the kind of payload is known
  line,      \* the line being gathered, "" when there is none
  parser,    \* [type, count]: WaveParser; staging and the segments are below
  staging,   \* staging: the samples not written yet
  bin,       \* [type, count, got, half]: binType, binCount, payloadGot and recBuf
  segments,  \* segLevelsQ15 with segMicros
  out,       \* the samples written to the staged file
  result     \* what came of it: [type, content] of the staged file, or Rejected or TimedOut

vars == <<wire, got, gz, stage, pre, line, parser, staging, bin, segments, out, result>>

Rejected == [type |-> "rejected", content |-> <<>>]
TimedOut == [type |-> "timed out", content |-> <<>>]
Pending == [type |-> "none", content |-> <<>>]
U(k, v) == [k |-> k, v |-> v]
-----------------------------------------------------------------------------
(* The bodies: texts, binaries and containers, whole or not.               *)

LineKinds == {"a", "b", "pair", "bad", "long", "blank", "#long"}
Texts ==
  LET rest == UNION {[1..n -> LineKinds] : n \in 0..MaxLines}
      text(ls, ended) ==
        [k \in 1..2 * Len(ls) - (IF ended THEN 0 ELSE 1) |->
           IF k % 2 = 1 THEN U("line", ls[(k + 1) \div 2]) ELSE U("nl", "")]
  IN  {text(<<f>> \o r, e) : f \in {"ref", "seq", "a"}, r \in rest, e \in BOOLEAN}

Value(i) == IF i % 2 = 0 THEN "a" ELSE "b"
Binary(type, count, halves, zero) ==
  <<U("magic", ""), U("kind", type), U("count", count)>>
    \o [k \in 1..halves |-> U("half", IF (k + 1) \div 2 = zero THEN "zero"
                                       ELSE Value((k + 1) \div 2))]
Binaries == {Binary(t, n, h, z) : t \in {"ref", "seq", "other"}, n \in 0..MaxRecords,
                                  h \in 0..(2 * MaxRecords + 1), z \in 0..1}
Headers == {SubSeq(Binary("ref", 2, 4, 0), 1, n) : n \in 0..2}

\* A container: a fixed header, the fields its flags tell of, the payload and a trailer.
Fault == {"none", "method", "block", "crc"}
Container(flags, payload, fault) ==
  LET field(f, units) == IF f \in flags THEN units ELSE <<>>
  IN  <<U("fixed", "id"),
        U("fixed", IF fault = "method" THEN "method" ELSE "flags")>>
        \o field("extra", <<U("xlen", 2), U("x", ""), U("x", "")>>)
        \o field("empty extra", <<U("xlen", 0)>>)
        \o field("name", <<U("c", "x"), U("c", "end")>>)
        \o field("comment", <<U("c", "end")>>)
        \o field("crc", <<U("h", ""), U("h", "")>>)
        \o [k \in 1..Len(payload) |-> U("block", payload[k])]
        \o <<U("last", IF fault = "block" THEN "bad" ELSE "ok"),
             U("trailer", ""), U("trailer", IF fault = "crc" THEN "bad" ELSE "ok"),
             U("after", "")>>
FlagSets == {f \in SUBSET {"extra", "empty extra", "name", "comment", "crc"} :
               ~({"extra", "empty extra"} \subseteq f)}
LongText(n) ==
  [k \in 1..2 * n + 1 |-> IF k = 1 THEN U("line", "ref")
                             ELSE IF k % 2 = 0 THEN U("nl", "") ELSE U("line", "a")]
Packed == {Binary("ref", 2, 4, 0), <<U("line", "ref"), U("nl", ""), U("line", "a"),
                                     U("nl", ""), U("line", "b")>>,
           LongText(3), LongText(4)}
GzBodies ==
  {[flags |-> f, units |-> SubSeq(Container(f, p, e), 1, Len(Container(f, p, e)) - cut)] :
     f \in FlagSets, p \in Packed, e \in Fault, cut \in 0..3}
PlainBodies == {[flags |-> {}, units |-> b] : b \in (Texts \cup Binaries \cup Headers) \ {<<>>}}
-----------------------------------------------------------------------------
(* Samples and segments.                                                   *)

Fail == stage' = "failed"
KeepOn == UNCHANGED stage

\* sinkSamples() of what was gathered: a file holds so many samples.
Sinks(samples) == Len(out) + Len(samples) <= MaxStreamSamples
Sunk(samples) ==
  IF Sinks(samples) THEN KeepOn /\ out' = out \o samples ELSE Fail /\ UNCHANGED out

\* waveParseLine() of a line that holds a level, or a level and a duration.
LevelOf(l) == IF l \in {"a", "b"} THEN l ELSE "none"

LineIsBad(l) ==
  CASE l \in {"blank", "#long"} -> FALSE
    [] l = "long" -> TRUE
    [] parser.type = "none" -> l \notin {"ref", "seq"}
    [] parser.type = "ref" -> LevelOf(l) = "none" \/ Len(staging) >= StagingSamples
    [] OTHER -> l # "pair" \/ Len(segments) >= MaxWaveSegments

FlushLate(n) == n > StagingSamples                                       \* mutant
FlushNow(n) == n >= StagingSamples

ParseLine(l) ==
  /\ line' = ""
  /\ CASE LineIsBad(l) -> Fail /\ UNCHANGED <<parser, staging, segments, out>>
       [] l \in {"blank", "#long"} -> KeepOn /\ UNCHANGED <<parser, staging, segments, out>>
       [] ~LineIsBad(l) /\ l \in {"ref", "seq"} ->
            KeepOn /\ parser' = [type |-> l] /\ UNCHANGED <<staging, segments, out>>
       [] ~LineIsBad(l) /\ l = "pair" ->
            KeepOn /\ segments' = Append(segments, l) /\ UNCHANGED <<parser, staging, out>>
       [] ~LineIsBad(l) /\ l \in {"a", "b"} ->
            /\ IF FlushNow(Len(staging) + 1)
               THEN Sunk(Append(staging, l)) /\ staging' = <<>>
               ELSE KeepOn /\ staging' = Append(staging, l) /\ UNCHANGED out
            /\ UNCHANGED <<parser, segments>>

\* feedTextByte(): a line is parsed when it ends; one too long fails before that, a comment
\* as well.
FeedText(u) ==
  IF u.k = "nl" THEN ParseLine(line)
  ELSE IF u.v \in {"long", "#long"}
  THEN Fail /\ UNCHANGED <<line, parser, staging, segments, out>>
  ELSE line' = u.v /\ UNCHANGED <<stage, parser, staging, segments, out>>

\* A binary record is complete with its second half.
Excess == bin.got >= bin.count
SampleHalf(u) ==
  IF Excess THEN Fail /\ UNCHANGED <<bin, staging, segments, out>>
  ELSE IF ~bin.half
  THEN bin' = [bin EXCEPT !.half = TRUE] /\ UNCHANGED <<stage, staging, segments, out>>
  ELSE LET n == bin.got + 1
           full == Append(staging, u.v)
       IN  /\ bin' = [bin EXCEPT !.half = FALSE, !.got = n]
           /\ IF n % StagingSamples = 0 \/ n = bin.count
              THEN Sunk(full) /\ staging' = <<>>
              ELSE KeepOn /\ staging' = full /\ UNCHANGED out
           /\ UNCHANGED segments

SegmentHalf(u) ==
  /\ UNCHANGED <<staging, out>>
  /\ IF Excess THEN Fail /\ UNCHANGED <<bin, segments>>
     ELSE IF ~bin.half
     THEN bin' = [bin EXCEPT !.half = TRUE] /\ UNCHANGED <<stage, segments>>
     ELSE /\ segments' = Append(segments, u.v)
          /\ IF u.v = "zero" THEN Fail /\ bin' = [bin EXCEPT !.half = FALSE]
             ELSE bin' = [bin EXCEPT !.half = FALSE, !.got = @ + 1] /\ KeepOn

\* leaveDetect() with waveBinaryHeaderRead(): a binary header is read when it is complete;
\* anything else is text, and the unit gathered so far is the first of it.
HeaderIsGood(type, count) ==
  \/ type = "ref" /\ count \in 2..MaxStreamSamples
  \/ type = "seq" /\ count \in 1..MaxWaveSegments

Detect(u) ==
  /\ pre' = Append(pre, u)
  /\ CASE pre = <<>> /\ u.k # "magic" /\ u.v \in {"long", "#long"} ->
            Fail /\ UNCHANGED <<line, bin>>
       [] pre = <<>> /\ u.k # "magic" /\ u.v \notin {"long", "#long"} ->
            stage' = "text" /\ line' = u.v /\ UNCHANGED bin
       [] (pre = <<>> /\ u.k = "magic") \/ Len(pre) = 1 -> UNCHANGED <<stage, line, bin>>
       [] OTHER ->
            /\ IF HeaderIsGood(pre[2].v, u.v)
               THEN /\ stage' = IF pre[2].v = "ref" THEN "samples" ELSE "segments"
                    /\ bin' = [type |-> pre[2].v, count |-> u.v, got |-> 0, half |-> FALSE]
               ELSE Fail /\ UNCHANGED bin
            /\ UNCHANGED line
  /\ UNCHANGED <<parser, staging, segments, out>>

\* feedLogical(): one unit of the payload.
FeedLogical(u) ==
  CASE stage = "detect" -> Detect(u)
    [] stage = "text" -> FeedText(u) /\ UNCHANGED <<pre, bin>>
    [] stage = "samples" -> SampleHalf(u) /\ UNCHANGED <<pre, line, parser>>
    [] stage = "segments" -> SegmentHalf(u) /\ UNCHANGED <<pre, line, parser>>

NoPayload == UNCHANGED <<stage, pre, line, parser, staging, bin, segments, out>>
-----------------------------------------------------------------------------
(* The container.                                                          *)

\* The field after a header field: the next one the flags tell of, or the payload.
NextField(flags, after) ==
  LET rank == [fixed |-> 0, extra |-> 1, name |-> 2, comment |-> 3, crc |-> 4]
      told == {f \in {"name", "comment", "crc"} : f \in flags /\ rank[f] > rank[after]}
  IN  IF after = "fixed" /\ flags \cap {"extra", "empty extra"} # {} THEN "extra"
      ELSE IF told = {} THEN "deflate"
      ELSE CHOOSE f \in told : \A g \in told : rank[f] <= rank[g]

Goto(s) == gz' = [gz EXCEPT !.state = s, !.left = 0]
GzFail == Goto("failed") /\ Fail /\ UNCHANGED <<pre, line, parser, staging, bin, segments, out>>
Header(s) == Goto(s) /\ NoPayload

\* GzipInflater::feed().
FeedGzip(u) ==
  CASE gz.state = "fixed" ->
         IF u.v = "method" THEN GzFail
         ELSE IF u.v = "flags" THEN Header(NextField(gz.flags, "fixed"))
         ELSE UNCHANGED gz /\ NoPayload
    [] gz.state = "extra" ->
         IF gz.left = 0 /\ u.k = "xlen" /\ u.v > 0
         THEN gz' = [gz EXCEPT !.left = u.v] /\ NoPayload
         ELSE IF gz.left > 1 THEN gz' = [gz EXCEPT !.left = @ - 1] /\ NoPayload
         ELSE Header(NextField(gz.flags, "extra"))
    [] gz.state \in {"name", "comment"} ->
         IF u.v = "end" THEN Header(NextField(gz.flags, gz.state)) ELSE UNCHANGED gz /\ NoPayload
    [] gz.state = "crc" ->
         IF gz.left = 0 THEN gz' = [gz EXCEPT !.left = 1] /\ NoPayload
         ELSE Header(NextField(gz.flags, "crc"))
    [] gz.state = "deflate" ->
         IF u.k = "block" THEN FeedLogical(u.v) /\ UNCHANGED gz
         ELSE IF u.v = "bad" \/ u.k # "last" THEN GzFail ELSE Header("trailer")
    [] gz.state = "trailer" ->
         IF gz.left = 0 THEN gz' = [gz EXCEPT !.left = 1] /\ NoPayload
         ELSE IF u.v = "bad" THEN GzFail ELSE Header("done")
    [] OTHER -> UNCHANGED gz /\ NoPayload

IsContainer == wire[1].k = "fixed"
-----------------------------------------------------------------------------
\* A unit of the body arrives.
Feed ==
  /\ result = Pending /\ stage # "failed" /\ got < Len(wire)
  /\ got' = got + 1
  /\ IF IsContainer THEN FeedGzip(wire[got + 1])
     ELSE FeedLogical(wire[got + 1]) /\ UNCHANGED gz
  /\ UNCHANGED <<wire, result>>

\* The rest of the body does not come within 5 s.
Stall ==
  /\ result = Pending /\ stage # "failed" /\ got < Len(wire)
  /\ result' = TimedOut
  /\ UNCHANGED <<wire, got, gz, stage, pre, line, parser, staging, bin, segments, out>>

\* The last line need not be ended.
LastLine ==
  /\ result = Pending /\ got = Len(wire) /\ stage = "text" /\ line # ""
  /\ ParseLine(line)
  /\ UNCHANGED <<wire, got, gz, pre, bin, result>>

\* What was received is staged when the payload and the container are complete.
ContainerDone == IsContainer => gz.state = "done"
TakesTheStart == bin.got <= bin.count                                    \* mutant
AllRecords == bin.got = bin.count
Staged(type, content) == [type |-> type, content |-> content]
Outcome ==
  CASE stage = "text" /\ parser.type = "ref" /\ Sinks(staging) /\ Len(out \o staging) >= 2 ->
         Staged("ref", out \o staging)
    [] stage = "text" /\ parser.type = "seq" /\ segments # <<>> -> Staged("seq", segments)
    [] stage = "samples" /\ AllRecords -> Staged("ref", out)
    [] stage = "segments" /\ AllRecords -> Staged("seq", segments)
    [] OTHER -> Rejected

Finish ==
  /\ result = Pending
  /\ \/ stage = "failed"
     \/ got = Len(wire) /\ ~(stage = "text" /\ line # "")
  /\ result' = IF ContainerDone THEN Outcome ELSE Rejected
  /\ UNCHANGED <<wire, got, gz, stage, pre, line, parser, staging, bin, segments, out>>
-----------------------------------------------------------------------------
Init ==
  /\ \E b \in PlainBodies \cup GzBodies :
       /\ wire = b.units
       /\ gz = [state |-> "fixed", flags |-> b.flags, left |-> 0]
  /\ got = 0 /\ stage = "detect" /\ pre = <<>> /\ line = ""
  /\ parser = [type |-> "none"] /\ staging = <<>> /\ segments = <<>> /\ out = <<>>
  /\ bin = [type |-> "none", count |-> 0, got |-> 0, half |-> FALSE]
  /\ result = Pending

Next == Feed \/ Stall \/ LastLine \/ Finish

Spec == Init /\ [][Next]_vars
-----------------------------------------------------------------------------
(* What a body means, decided with all of it at hand.                      *)

\* parseWaveform() of a whole text.
Meaning(ls) ==
  LET body == SelectSeq(ls, LAMBDA l : l \notin {"blank", "#long"})
      data == Tail(body)
  IN  IF body = <<>> \/ body[1] \notin {"ref", "seq"} THEN Rejected
      ELSE IF /\ body[1] = "ref" /\ Len(data) \in 2..MaxStreamSamples
              /\ Range(data) \subseteq {"a", "b"}
      THEN Staged("ref", data)
      ELSE IF body[1] = "seq" /\ Len(data) \in 1..MaxWaveSegments /\ Range(data) = {"pair"}
      THEN Staged("seq", data)
      ELSE Rejected

PayloadMeaning(p) ==
  IF p = <<>> THEN Rejected
  ELSE IF p[1].k # "magic"
  THEN LET ls == SelectSeq(p, LAMBDA u : u.k = "line")
       IN  Meaning([k \in 1..Len(ls) |-> ls[k].v])
  ELSE LET body == SubSeq(p, 4, Len(p))
           records == [k \in 1..(Len(body) \div 2) |-> body[2 * k].v]
       IN  IF Len(p) < 3 \/ Len(body) % 2 = 1 THEN Rejected
           ELSE IF p[3].v # Len(records) THEN Rejected
           ELSE IF p[2].v = "ref" /\ Len(records) \in 2..MaxStreamSamples
           THEN Staged("ref", records)
           ELSE IF p[2].v = "seq" /\ Len(records) \in 1..MaxWaveSegments
                   /\ "zero" \notin Range(records)
           THEN Staged("seq", records) ELSE Rejected

\* A container has everything up to its trailer, and nothing in it is damaged.
Unpacked(w) == LET blocks == SelectSeq(w, LAMBDA u : u.k = "block")
               IN  [k \in 1..Len(blocks) |-> blocks[k].v]
ContainerIsWhole(w) ==
  /\ \E k \in 1..Len(w) : w[k].k = "trailer" /\ w[k].v = "ok"
  /\ \A k \in 1..Len(w) :
       w[k].k \in {"fixed", "last", "trailer"} => w[k].v \notin {"method", "bad"}

Payload == IF IsContainer THEN Unpacked(wire) ELSE wire
BodyMeaning ==
  IF IsContainer /\ ~ContainerIsWhole(wire) THEN Rejected ELSE PayloadMeaning(Payload)

\* What is accepted is what the whole body means, sample by sample; what means nothing, is cut
\* or is damaged is refused; and nothing is refused that has a meaning and came completely,
\* unless a line was too long for the buffer (waveformApplyStream(), GzipInflater).
TooLong == \E k \in 1..Len(Payload) : Payload[k].k = "line" /\ Payload[k].v = "#long"
AcceptsWhatIsMeant ==
  result \notin {Pending, TimedOut} =>
    \/ result = BodyMeaning
    \/ result = Rejected /\ TooLong

\* Observation: a comment longer than a line is refused, where parseWaveform() skips it.
CommentsAreSkipped == result = Rejected => BodyMeaning = Rejected

\* Type invariant.
TypeOK ==
  /\ got \in 0..Len(wire) /\ Len(staging) <= StagingSamples
  /\ stage \in {"detect", "text", "samples", "segments", "failed"}
=============================================================================
