------------------------------ MODULE Throughput ------------------------------
(***************************************************************************)
(* tps_tracker.py: the speed that a hardware table expects of a provider   *)
(* and the moving average of what its requests measured.  Speeds are       *)
(* fixed-point numbers of SpeedUnit; the average is exact as long as       *)
(* SpeedUnit is a multiple of 20^(MaxMeasured - 1), and otherwise rounded. *)
(*                                                                         *)
(* A row of the table is <<hardware, size, speed>> and a hardware name a   *)
(* sequence of words, of which the table may know the first ones only.     *)
(***************************************************************************)
EXTENDS Integers, SequencesExt

CONSTANTS
    ExpectedTps,            \* the rows of EXPECTED_TPS, in their order
    Hardware, Sizes,        \* what providers report
    Speeds,                 \* measured speeds
    SpeedUnit,              \* one token per second
    MaxMeasured             \* bound: measurements of one provider and model

ASSUME ThroughputAssumption ==
    /\ MaxMeasured \in Nat \ {0} /\ SpeedUnit \in Nat \ {0} /\ Speeds \subseteq Nat \ {0}
    /\ ExpectedTps \in Seq(Seq(STRING) \X STRING \X (Nat \ {0}))

VARIABLES stats     \* the ProviderModelTPS, or Untracked
throughputVars == <<stats>>
Untracked == [measured |-> -1]

\* The rows for models of a size that are for this very hardware, or for hardware
\* of which the table knows the first words
Exact(hardware, size) ==
    {i \in DOMAIN ExpectedTps : ExpectedTps[i][1] = hardware /\ ExpectedTps[i][2] = size}
Known(hardware, size) ==
    {i \in DOMAIN ExpectedTps : IsPrefix(ExpectedTps[i][1], hardware) /\ ExpectedTps[i][2] = size}

Fitting(hardware, size) ==
    IF Exact(hardware, size) # {} THEN Exact(hardware, size)
    ELSE IF Known(hardware, size) # {} THEN Known(hardware, size) ELSE Exact(<<"unknown">>, size)

\* estimate_initial_tps: the first row that fits
Estimate(hardware, size) ==
    LET rows == Fitting(hardware, size) IN IF rows = {} THEN 10 ELSE ExpectedTps[Min(rows)][3]

\* Variant of Measure: the average starts at zero
MeasureFromZero(s, speed) ==
    [s EXCEPT !.measured = @ + 1, !.latest = speed,
              !.ema = (3 * speed + 17 * s.ema) \div 20,
              !.low = IF @ = 0 \/ speed < @ THEN speed ELSE @,
              !.high = IF speed > @ THEN speed ELSE @]

\* ProviderModelTPS.record; the first measurement is the first average
Measure(s, speed) ==
    [s EXCEPT !.measured = @ + 1, !.latest = speed,
              !.ema = IF @ = 0 THEN speed ELSE (3 * speed + 17 * @) \div 20,
              !.low = IF @ = 0 \/ speed < @ THEN speed ELSE @,
              !.high = IF speed > @ THEN speed ELSE @]

\* Variant of Effective3: the blend counts a request too many
Effective3Early(s) ==
    IF s.measured >= 3 THEN 3 * s.ema ELSE (s.measured + 1) * s.ema + (2 - s.measured) * s.estimated

\* Three times effective_tps: the first two measurements are blended with the estimate
Effective3(s) ==
    IF s.measured >= 3 THEN 3 * s.ema ELSE s.measured * s.ema + (3 - s.measured) * s.estimated

IsAnomalous(s) == s.measured >= 5 /\ 2 * s.latest < s.ema

\* get_or_create
Track(hardware, size) ==
    /\ stats = Untracked
    /\ stats' = [hardware |-> hardware, size |-> size, measured |-> 0, latest |-> 0, ema |-> 0, low |-> 0, high |-> 0,
                 estimated |-> Estimate(hardware, size) * SpeedUnit]

\* record_request
RecordRequest(speed) ==
    /\ stats # Untracked /\ stats.measured < MaxMeasured
    /\ stats' = Measure(stats, speed * SpeedUnit)

ThroughputInit == stats = Untracked
ThroughputNext ==
    \/ \E h \in Hardware, z \in Sizes : Track(h, z)
    \/ \E v \in Speeds : RecordRequest(v)
ThroughputSpec == ThroughputInit /\ [][ThroughputNext]_throughputVars

-----------------------------------------------------------------------------
Between(x, a, b) == (a <= x /\ x <= b) \/ (b <= x /\ x <= a)

\* The average stays between the slowest and the fastest measurement, and the
\* effective speed between the estimate and the average, whatever was measured: a
\* provider is not marked anomalous unless it fell below half of its best.
SpeedIsPlausible ==
    stats # Untracked =>
        /\ stats.measured > 0 => Between(stats.ema, stats.low, stats.high)
        /\ Between(Effective3(stats), 3 * stats.estimated, 3 * stats.ema)
        /\ stats.measured = 0 => Effective3(stats) = 3 * stats.estimated
        /\ IsAnomalous(stats) => 2 * stats.latest < stats.high

-----------------------------------------------------------------------------
\* The inductive invariant behind SpeedIsPlausible.
SpeedIInv ==
    stats # Untracked =>
        /\ stats \in [hardware : Hardware, size : Sizes, measured : Nat, latest : Nat, ema : Nat,
                      low : Nat, high : Nat, estimated : Nat]
        /\ stats.measured = 0 => stats.ema = 0 /\ stats.low = 0 /\ stats.high = 0
        /\ stats.measured > 0 => /\ 0 < stats.low /\ stats.low <= stats.ema /\ stats.ema <= stats.high
                                 /\ stats.low <= stats.latest /\ stats.latest <= stats.high

=============================================================================
