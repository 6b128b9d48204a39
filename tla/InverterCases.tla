--------------------------- MODULE InverterCases ----------------------------
(***************************************************************************)
(* The settings, tables and uploads Inverter and PlainTimers are checked   *)
(* with: sine and third harmonic at thirty degrees, a sequence of three    *)
(* levels, three samples, and every scheme with what distinguishes it; two *)
(* sets of the other timers.                                               *)
(***************************************************************************)
EXTENDS Integers

SineTable == <<0, 4, 7, 8, 7, 4, 0, -4, -7, -8, -7, -4>>
FlatTable == <<0, 5, 7, 7, 7, 5, 0, -5, -7, -7, -7, -5>>
StepSequence == <<[level |-> 8, cycles |-> 2], [level |-> -3, cycles |-> 1],
                [level |-> 5, cycles |-> 3]>>
StepSamples == <<8, -8, 3>>

Pairings == {[k \in 0..3 |-> "independent"], [k \in 0..3 |-> "half"],
             [k \in 0..3 |-> IF k = 1 THEN "differential" ELSE "independent"]}

FirstSettings ==
  {c \in [scheme : {"fixed", "unipolar", "bipolar", "thipwm", "level", "phase", "svpwm", "dpwm",
                    "svpwm3d"},
          disposition : {"pd", "pod", "apod"}, cells : 1..4, near : BOOLEAN,
          variant : {"min", "max", "wide", "3"}, source : {"table", "sequence", "samples"},
          comp : 0..1, index : {0, 8, 9}, dead : {0, 2}, duty : {9}, pairs : Pairings] :
     /\ c.scheme # "level" => c.disposition = "pd" /\ ~c.near
     /\ c.scheme # "dpwm" => c.variant = "min"
     /\ c.scheme \in {"fixed", "svpwm", "dpwm", "svpwm3d"} => c.cells = 2
     /\ c.source # "table" => c.scheme \in {"unipolar", "bipolar", "level", "phase"} /\ c.index = 8
     /\ c.scheme \in {"fixed", "level"} => c.comp = 0
     /\ (c.dead = 0) <=> (c.index = 8)
     /\ c.index = 0 => c.scheme = "dpwm"}

LaterSettings ==
  {[scheme |-> s, disposition |-> IF s = "level" THEN "apod" ELSE "pd", cells |-> 2,
    near |-> FALSE, variant |-> "min", source |-> IF s = "level" THEN "sequence" ELSE "table",
    comp |-> 0, index |-> 8, dead |-> 0, duty |-> 9, pairs |-> [k \in 0..3 |-> "half"]] :
      s \in {"fixed", "bipolar", "level"}}

\* A duty of 7 of 8 stands for "no channel B".
Sub(pair, f, a, b) == [pair |-> pair, frequency |-> f, dutyA |-> a, dutyB |-> b, dead |-> 150]
TimerCase(pair13, b13, pair31, asymmetric, f) ==
  [Sm13 |-> Sub(pair13, 100, 3, b13), Sm31 |-> Sub(pair31, f, 2, 5),
   Sm40 |-> Sub("independent", 100, 1, 7), Sm41 |-> Sub("independent", 200, 2, 7),
   Sm42 |-> Sub("independent", f, 4, 2),
   asymmetric |-> [enabled |-> asymmetric, pre |-> 1, post |-> 1]]
TimerCases ==
  {TimerCase("half", 4, "independent", FALSE, 200), TimerCase("independent", 7, "half", TRUE, 200)}
=============================================================================
