-------------------------- MODULE ConfigDocuments --------------------------
(* Documents around every limit of ConfigRules, one group of rules at a    *)
(* time, told by how they differ from an export of the defaults.           *)
EXTENDS ConfigFields

Export == [version |-> 1, says |-> <<>>, missing |-> {}, mistyped |-> {}]
With(over) == [Export EXCEPT !.says = over]

ShapeDocs ==
  {[Export EXCEPT !.version = v] : v \in 0..2}
  \union {[Export EXCEPT !.missing = {f}] : f \in Fields}
  \union {[Export EXCEPT !.mistyped = {f}] : f \in Fields}

CarrierDocs ==
  {With([UseSpwm |-> u, ModulationScheme |-> s, PllEnabled |-> p, MeterEnabled |-> m,
         ThermalEnabled |-> t, SpwmCarrierFrequency |-> c, SpwmModulationFrequency |-> f,
         ReferenceWaveform |-> w, WaveformSampleStep |-> w % 2]) :
     u \in 0..1, s \in 0..1, p \in 0..1, m \in 0..1, t \in 0..1,
     c \in {17, 100, 10000, 10001, 200000, 200001, 1000001}, f \in {0, 50, 51, 5001},
     w \in {0, Custom, Sequence}}

LoopDocs ==
  {With([PllEnabled |-> p, FeedbackEnabled |-> b, MpptEnabled |-> m, PllMinHz |-> lo,
         PllMaxHz |-> hi, SpwmModulationFrequency |-> f, SpwmCarrierFrequency |-> c,
         CarrierDitherMode |-> d, CaptureEnabled |-> p]) :
     p \in 0..1, b \in 0..1, m \in 0..1, lo \in {0, 45, 55}, hi \in {55, 400, 401},
     f \in {44, 45, 55, 56}, c \in {999, 1000, 1007, 1008}, d \in 0..1}

MpptDocs ==
  {With([SoftStartMs |-> r, MpptIntervalMs |-> i, MpptDeadband |-> b, MpptRestartDelta |-> d]) :
     r \in {0, 57900, 57901, 65535}, i \in {0, 2099, 2100, 60000, 65535},
     b \in {10, 99, 100}, d \in {99, 100}}
  \union {With([MpptMinIndex |-> lo, MpptMaxIndex |-> hi, MpptStep |-> s, MpptMinStep |-> n]) :
     lo \in {50, 1155}, hi \in {51, 1155, 1156}, s \in {0, 5, 200, 201}, n \in {0, 1, 5, 6}}

\* Numbers wider than their field, and every field at its limits.
WidthDocs ==
  {With([LimitThreshold |-> t, LimitEnabled |-> 1]) : t \in {-1, 99, 100, 3300, 3301, 65736}}
  \union {With([PllPhaseOffset |-> a, PllZero |-> z]) :
     a \in {-18001, -18000, 18000, 18001, 65535}, z \in {3300, 3301, 65536}}
  \union {With([PllMinLevel |-> l, PllBandwidth |-> b]) :
     l \in {19, 20, 3301}, b \in {9, 10, 500, 501}}
  \union {With([ModulationCells |-> n, MqttPort |-> p, MqttIntervalSeconds |-> i,
                PowerMonAddress |-> a]) :
     n \in {0, 1, 4, 5, 256}, p \in {0, 65536, 1}, i \in {0, 3600, 3601}, a \in {63, 79, 80}}
  \union {With([MeterCalibration |-> k, PowerMonCalibration |-> k, PowerMonIntervalMs |-> i,
                LimitPin |-> l, LimitFilterCount |-> k]) : k \in 0..1, i \in {0, 250},
     l \in {22, 40, 257}}
  \union {With([Pair |-> [s \in Submodules |-> m], DeadTime |-> [s \in Submodules |-> d],
                PwmFrequency |-> [s \in Submodules |-> f]]) :
     m \in {0, 1, 2, 3, 257}, d \in {0, 13646, 13647, 65535, 65536},
     f \in {17, 18, 1000000, 1000001}}

PinDocs ==
  {With([CaptureEnabled |-> c, MeterEnabled |-> m, LimitEnabled |-> l, FaultEnabled |-> f,
         ThermalEnabled |-> t, FeedbackPin |-> fb, MeterPin |-> mp, LimitPin |-> lp,
         FaultPin |-> fp, OneWirePin |-> ow]) :
     c \in 0..1, m \in 0..1, l \in 0..1, f \in 0..1, t \in 0..1, fb \in {41, 40, 2},
     mp \in {40, 41, 42}, lp \in {40, 18}, fp \in {32, 40}, ow \in {21, 24}}
  \union {With([PowerMonEnabled |-> 1, FaultEnabled |-> f, FaultPin |-> 14, PgEfusePin |-> e,
                PgBuckPin |-> b, AlertPin |-> a, ImonPin |-> i]) :
     f \in 0..1, e \in {14, 15, 24, 255}, b \in {15, 255}, a \in {20, 15, 255},
     i \in {255, 38, 20, 42}}

AllDocuments == ShapeDocs \union CarrierDocs \union LoopDocs \union MpptDocs \union WidthDocs
                \union PinDocs
=============================================================================
