---------------------------- MODULE Market_proofs -----------------------------
(***************************************************************************)
(* Proofs about what decides beside the relay: the speeds and the          *)
(* capabilities that providers are listed with, the score of a match, the  *)
(* choice of a provider and the matching strategies, each for every value  *)
(* of its constants.  The components do not share state, and neither do    *)
(* the sections.                                                           *)
(***************************************************************************)
EXTENDS Throughput, ModelCapabilities, Routing, Matching, FiniteSetTheorems, FoldLemmas,
        SequenceTheorems, TLAPS

-----------------------------------------------------------------------------
(* Throughput                                                               *)

(* What the hardware table expects is a speed.                               *)
LEMMA EstimateType ==
  ASSUME NEW h, NEW z
  PROVE  Estimate(h, z) \in Nat
<1> DEFINE rows == Fitting(h, z)
<1>1. rows \in SUBSET Nat /\ rows \subseteq DOMAIN ExpectedTps
  <2>1. DOMAIN ExpectedTps = 1..Len(ExpectedTps) /\ Len(ExpectedTps) \in Nat
    BY ThroughputAssumption
  <2>2. Exact(h, z) \subseteq DOMAIN ExpectedTps /\ Exact(<<"unknown">>, z) \subseteq DOMAIN ExpectedTps
    BY DEF Exact
  <2>3. Known(h, z) \subseteq DOMAIN ExpectedTps
    BY DEF Known
  <2>4. rows \subseteq DOMAIN ExpectedTps
    BY <2>2, <2>3 DEF Fitting
  <2> HIDE DEF rows
  <2>5. QED
    BY <2>1, <2>4
<1>2. \A i \in DOMAIN ExpectedTps : ExpectedTps[i][3] \in Nat
  BY ThroughputAssumption
<1>3. rows # {} => Min(rows) \in rows
  BY <1>1, LeastIsThere
<1> HIDE DEF rows
<1>4. Estimate(h, z) = IF rows = {} THEN 10 ELSE ExpectedTps[Min(rows)][3]
  BY DEF Estimate, rows
<1>5. CASE rows = {}
  <2>1. Estimate(h, z) = 10
    BY <1>4, <1>5
  <2>2. QED
    BY <2>1
<1>6. CASE rows # {}
  <2>1. Min(rows) \in DOMAIN ExpectedTps
    BY <1>1, <1>3, <1>6
  <2>2. QED
    BY <1>2, <1>4, <1>6, <2>1
<1>7. QED
  BY <1>5, <1>6

(* A measurement moves the average towards it and not beyond.                *)
LEMMA MeasureStep ==
  ASSUME SpeedIInv, NEW speed \in Speeds, RecordRequest(speed)
  PROVE  SpeedIInv'
<1> DEFINE v == speed * SpeedUnit
           u == stats
<1>1. v \in Nat /\ v > 0
  BY ThroughputAssumption
<1>2. /\ u \in [hardware : Hardware, size : Sizes, measured : Nat, latest : Nat, ema : Nat,
                low : Nat, high : Nat, estimated : Nat]
      /\ stats' = Measure(u, v)
  BY DEF SpeedIInv, RecordRequest
<1>3. \/ u.measured = 0 /\ u.ema = 0 /\ u.low = 0 /\ u.high = 0
      \/ /\ u.measured > 0 /\ 0 < u.low /\ u.low <= u.ema /\ u.ema <= u.high
  BY <1>2 DEF SpeedIInv, RecordRequest
<1> HIDE DEF v, u
<1>4. /\ stats'.measured = u.measured + 1 /\ stats'.latest = v
      /\ stats'.ema = (IF u.ema = 0 THEN v ELSE (3 * v + 17 * u.ema) \div 20)
      /\ stats'.low = (IF u.low = 0 \/ v < u.low THEN v ELSE u.low)
      /\ stats'.high = (IF v > u.high THEN v ELSE u.high)
      /\ stats' \in [hardware : Hardware, size : Sizes, measured : Nat, latest : Nat, ema : Nat,
                     low : Nat, high : Nat, estimated : Nat]
  <2>1. u.ema \in Nat /\ (3 * v + 17 * u.ema) \div 20 \in Nat
    BY <1>1, <1>2
  <2> DEFINE e == IF u.ema = 0 THEN v ELSE (3 * v + 17 * u.ema) \div 20
             low == IF u.low = 0 \/ v < u.low THEN v ELSE u.low
             high == IF v > u.high THEN v ELSE u.high
             k == u.measured + 1
  <2>2. e \in Nat /\ low \in Nat /\ high \in Nat /\ k \in Nat
    BY <1>1, <1>2, <2>1
  <2>3. stats' = [u EXCEPT !.measured = k, !.latest = v, !.ema = e, !.low = low, !.high = high]
    BY <1>2 DEF Measure
  <2> HIDE DEF e, low, high, k
  <2>4. /\ stats'.measured = k /\ stats'.latest = v /\ stats'.ema = e /\ stats'.low = low /\ stats'.high = high
        /\ stats' \in [hardware : Hardware, size : Sizes, measured : Nat, latest : Nat, ema : Nat,
                       low : Nat, high : Nat, estimated : Nat]
    BY <1>1, <1>2, <2>2, <2>3
  <2>5. QED
    BY <2>4 DEF e, low, high, k
<1>5. 0 < stats'.low /\ stats'.low <= stats'.ema /\ stats'.ema <= stats'.high
  <2>1. CASE u.ema = 0
    BY <1>1, <1>2, <1>3, <1>4, <2>1
  <2>2. CASE u.ema # 0
    <3>1. /\ 20 * stats'.low <= 3 * v + 17 * u.ema /\ 3 * v + 17 * u.ema <= 20 * stats'.high
          /\ 0 < stats'.low
      BY <1>1, <1>2, <1>3, <1>4, <2>2
    <3>2. \A n, a, b \in Nat : 20 * a <= n /\ n <= 20 * b => a <= n \div 20 /\ n \div 20 <= b
      OBVIOUS
    <3>3. QED
      BY <1>1, <1>2, <1>4, <2>2, <3>1, <3>2
  <2>3. QED
    BY <2>1, <2>2
<1>6. stats'.low <= stats'.latest /\ stats'.latest <= stats'.high
  BY <1>1, <1>2, <1>4
<1>7. QED
  BY <1>2, <1>4, <1>5, <1>6 DEF SpeedIInv

(* The average speed stays between the slowest and the fastest measurement   *)
(* and the effective one between the estimate and the average, whatever the  *)
(* table says and however many speeds were measured.                         *)
THEOREM SpeedsArePlausible == ThroughputSpec => []SpeedIsPlausible
<1>1. ThroughputInit => SpeedIInv
  BY DEF ThroughputInit, SpeedIInv
<1>2. SpeedIInv /\ [ThroughputNext]_throughputVars => SpeedIInv'
  <2> SUFFICES ASSUME SpeedIInv, [ThroughputNext]_throughputVars PROVE SpeedIInv'
    OBVIOUS
  <2>1. ASSUME NEW h \in Hardware, NEW z \in Sizes, Track(h, z) PROVE SpeedIInv'
    <3>1. Estimate(h, z) * SpeedUnit \in Nat
      BY EstimateType, ThroughputAssumption
    <3>2. Estimate(h, z) * SpeedUnit >= 0
      BY <3>1
    <3> DEFINE x == Estimate(h, z) * SpeedUnit
    <3>3. stats' = [hardware |-> h, size |-> z, measured |-> 0, latest |-> 0, ema |-> 0, low |-> 0,
                    high |-> 0, estimated |-> x]
      BY <2>1 DEF Track
    <3> HIDE DEF x
    <3>4. QED
      BY <3>1, <3>3 DEF SpeedIInv, x
  <2>2. CASE UNCHANGED throughputVars
    BY <2>2 DEF throughputVars, SpeedIInv
  <2>3. QED
    BY <2>1, <2>2, MeasureStep DEF ThroughputNext
<1>3. SpeedIInv => SpeedIsPlausible
  <2> SUFFICES ASSUME SpeedIInv, stats # Untracked PROVE SpeedIsPlausible
    BY DEF SpeedIsPlausible
  <2> DEFINE m == stats.measured
             e == stats.ema
             x == stats.estimated
  <2>1. /\ m \in Nat /\ e \in Nat /\ x \in Nat /\ stats.low \in Nat /\ stats.high \in Nat
        /\ stats.latest \in Nat
    BY DEF SpeedIInv
  <2>2. m > 0 => stats.low <= e /\ e <= stats.high
    BY DEF SpeedIInv
  <2>3. m = 0 => e = 0
    BY DEF SpeedIInv
  <2>4. Effective3(stats) = IF m >= 3 THEN 3 * e ELSE m * e + (3 - m) * x
    BY DEF Effective3
  <2>5. IsAnomalous(stats) => m >= 5 /\ 2 * stats.latest < e
    BY DEF IsAnomalous
  <2> HIDE DEF m, e, x
  <2>6. Between(Effective3(stats), 3 * x, 3 * e) /\ (m = 0 => Effective3(stats) = 3 * x)
    <3>1. CASE m = 0
      BY <2>1, <2>4, <3>1 DEF Between
    <3>2. CASE m = 1
      BY <2>1, <2>4, <3>2 DEF Between
    <3>3. CASE m = 2
      BY <2>1, <2>4, <3>3 DEF Between
    <3>4. CASE m >= 3
      BY <2>1, <2>4, <3>4 DEF Between
    <3>5. QED
      BY <2>1, <3>1, <3>2, <3>3, <3>4
  <2>7. m > 0 => Between(e, stats.low, stats.high)
    BY <2>2 DEF Between
  <2>8. IsAnomalous(stats) => 2 * stats.latest < stats.high
    BY <2>1, <2>2, <2>5
  <2>9. QED
    BY <2>6, <2>7, <2>8 DEF SpeedIsPlausible, m, e, x
<1>4. QED
  BY <1>1, <1>2, <1>3, PTL DEF ThroughputSpec

-----------------------------------------------------------------------------
(* ModelCapabilities                                                        *)

(* Partial functions, element by element.                                    *)
LEMMA PartialElements ==
  ASSUME NEW S, NEW T, NEW f
  PROVE  f \in Partial(S, T) <=>
           /\ f = [x \in DOMAIN f |-> f[x]] /\ DOMAIN f \subseteq S
           /\ \A x \in DOMAIN f : f[x] \in T
<1>1. ASSUME f \in Partial(S, T)
      PROVE  /\ f = [x \in DOMAIN f |-> f[x]] /\ DOMAIN f \subseteq S
             /\ \A x \in DOMAIN f : f[x] \in T
  <2>1. PICK D \in SUBSET S : f \in [D -> T]
    BY <1>1 DEF Partial
  <2>2. QED
    BY <2>1
<1>2. ASSUME f = [x \in DOMAIN f |-> f[x]], DOMAIN f \subseteq S, \A x \in DOMAIN f : f[x] \in T
      PROVE  f \in Partial(S, T)
  <2>1. f \in [DOMAIN f -> T]
    BY <1>2
  <2>2. QED
    BY <1>2, <2>1 DEF Partial
<1>3. QED
  BY <1>1, <1>2

LEMMA EnteredType ==
  ASSUME NEW S, NEW T, NEW f \in Partial(S, T), NEW x \in S, NEW y \in T
  PROVE  Entered(f, x, y) \in Partial(S, T)
<1> DEFINE g == Entered(f, x, y)
<1>1. DOMAIN f \subseteq S /\ \A z \in DOMAIN f : f[z] \in T
  BY PartialElements
<1>2. /\ g = [z \in DOMAIN g |-> g[z]] /\ DOMAIN g = DOMAIN f \union {x} /\ g[x] = y
      /\ \A z \in DOMAIN f : z # x => g[z] = f[z]
  BY DEF Entered
<1> HIDE DEF g
<1>3. DOMAIN g \subseteq S /\ \A z \in DOMAIN g : g[z] \in T
  BY <1>1, <1>2
<1>4. g \in Partial(S, T)
  BY <1>2, <1>3, PartialElements
<1>5. QED
  BY <1>4 DEF g

LEMMA EnteredDomain ==
  ASSUME NEW f, NEW x, NEW y
  PROVE  DOMAIN Entered(f, x, y) = DOMAIN f \union {x} /\ Entered(f, x, y)[x] = y
BY DEF Entered

LEMMA EnteredOthers ==
  ASSUME NEW f, NEW x, NEW y, NEW z \in DOMAIN f, z # x
  PROVE  Entered(f, x, y)[z] = f[z]
BY DEF Entered

LEMMA WithoutElements ==
  ASSUME NEW S, NEW T, NEW f \in Partial(S, T), NEW x
  PROVE  [z \in DOMAIN f \ {x} |-> f[z]] \in Partial(S, T)
<1> DEFINE g == [z \in DOMAIN f \ {x} |-> f[z]]
<1>1. DOMAIN f \subseteq S /\ \A z \in DOMAIN f : f[z] \in T
  BY PartialElements
<1>2. g = [z \in DOMAIN g |-> g[z]] /\ DOMAIN g = DOMAIN f \ {x} /\ \A z \in DOMAIN g : g[z] = f[z]
  OBVIOUS
<1> HIDE DEF g
<1>3. g \in Partial(S, T)
  BY <1>1, <1>2, PartialElements
<1>4. QED
  BY <1>3 DEF g

(* One more lookup of a repository that is neither known nor lately failed.  *)
Asks(s, repo, how, t) ==
  /\ s \in Caches /\ AskedInTime(s) /\ FailuresAreRemembered(s) /\ hubClock \in Nat
  /\ repo \in Repos /\ repo \notin DOMAIN s.known /\ ~ Fresh(s, repo)
  /\ how \in {"found", "half", "failed"}
  /\ t.asks = Append(s.asks, <<repo, hubClock, how>>)

LEMMA AskOnce ==
  ASSUME NEW s, NEW repo, NEW how, NEW t, Asks(s, repo, how, t)
  PROVE  /\ t.asks \in Seq(Lookups)
         /\ Len(t.asks) = Len(s.asks) + 1 /\ t.asks[Len(t.asks)] = <<repo, hubClock, how>>
         /\ \A i \in DOMAIN s.asks : i \in DOMAIN t.asks /\ t.asks[i] = s.asks[i]
         /\ DOMAIN t.asks = DOMAIN s.asks \union {Len(t.asks)}
         /\ AskedInTime(t)
<1> DEFINE A == Lookups
           n == Len(s.asks)
           new == <<repo, hubClock, how>>
<1>0. /\ s \in Caches /\ AskedInTime(s) /\ FailuresAreRemembered(s) /\ hubClock \in Nat
      /\ repo \in Repos /\ repo \notin DOMAIN s.known /\ ~ Fresh(s, repo)
      /\ how \in {"found", "half", "failed"}
      /\ t.asks = Append(s.asks, new)
  BY DEF Asks
<1>1. s.asks \in Seq(A) /\ n \in Nat /\ DOMAIN s.asks = 1..n /\ new \in A
  BY <1>0 DEF Caches, Lookups
<1> HIDE DEF A, new
<1>2. /\ t.asks \in Seq(A) /\ Len(t.asks) = n + 1 /\ t.asks[n + 1] = new
      /\ \A i \in 1..n : t.asks[i] = s.asks[i]
      /\ DOMAIN t.asks = 1..(n + 1)
  BY <1>0, <1>1, AppendProperties
<1> HIDE DEF n
<1>3. \A i \in 1..n : s.asks[i][1] = repo =>
        s.asks[i][3] = "failed" /\ hubClock - s.asks[i][2] >= RetryAfter
  <2> SUFFICES ASSUME NEW i \in 1..n, s.asks[i][1] = repo
      PROVE  s.asks[i][3] = "failed" /\ hubClock - s.asks[i][2] >= RetryAfter
    OBVIOUS
  <2>1. repo \in DOMAIN s.failed /\ s.asks[i][2] <= s.failed[repo] /\ s.asks[i][3] = "failed"
    BY <1>0, <1>1 DEF FailuresAreRemembered
  <2>2. s.failed[repo] \in Nat /\ s.asks[i][2] \in Nat
    <3>1. s.failed \in Partial(Repos, Nat)
      BY <1>0 DEF Caches
    <3>2. s.failed[repo] \in Nat
      BY <2>1, <3>1, PartialElements
    <3>3. s.asks[i] \in A
      BY <1>1
    <3>4. QED
      BY <3>2, <3>3 DEF A, Lookups
  <2>3. hubClock - s.failed[repo] >= RetryAfter
    BY <1>0, <2>1, <2>2, CapabilitiesAssumption DEF Fresh
  <2>4. QED
    BY <1>0, <2>1, <2>2, <2>3, CapabilitiesAssumption
<1>4. AskedInTime(t)
  <2> SUFFICES ASSUME NEW i \in 1..(n + 1), NEW j \in 1..(n + 1), i < j, t.asks[i][1] = t.asks[j][1]
      PROVE  t.asks[i][3] = "failed" /\ t.asks[j][2] - t.asks[i][2] >= RetryAfter
    BY <1>2 DEF AskedInTime
  <2>0. i \in 1..n
    BY <1>1
  <2>1. CASE j \in 1..n
    BY <1>0, <1>1, <1>2, <2>0, <2>1 DEF AskedInTime
  <2>2. CASE j = n + 1
    <3>1. t.asks[j] = new /\ t.asks[i] = s.asks[i] /\ new[1] = repo /\ new[2] = hubClock
      BY <1>2, <2>0, <2>2 DEF new
    <3>2. QED
      BY <1>3, <2>0, <3>1
  <2>3. QED
    BY <1>1, <2>1, <2>2
<1>5. QED
  BY <1>1, <1>2, <1>4 DEF A, new, n

FilesType == files \in Partial(Repos, Configurations)

(* What was asked stays asked, and what was known stays known.               *)
Later(s, t) ==
  /\ DOMAIN s.known \subseteq DOMAIN t.known
  /\ \A i \in DOMAIN s.asks : i \in DOMAIN t.asks /\ t.asks[i] = s.asks[i]

FailedLately(s, repo) ==
  \E i \in DOMAIN s.asks : /\ s.asks[i][1] = repo /\ s.asks[i][3] = "failed"
                          /\ s.asks[i][2] <= hubClock /\ hubClock - s.asks[i][2] < RetryAfter

(* An answer of the hub is kept.                                             *)
LEMMA LearnStep ==
  ASSUME NEW s, CacheInv(s), hubClock \in Nat, FilesType,
         NEW repo \in DOMAIN files, repo \notin DOMAIN s.known, ~ Fresh(s, repo),
         NEW facts, NEW how \in {"found", "half"},
         facts = files[repo] \/ (how = "half" /\ facts = [files[repo] EXCEPT !.tools = FALSE])
  PROVE  /\ CacheInv(Learn(s, repo, facts, how)) /\ Later(s, Learn(s, repo, facts, how))
         /\ repo \in DOMAIN Learn(s, repo, facts, how).known
<1> DEFINE t == Learn(s, repo, facts, how)
           new == <<repo, hubClock, how>>
           known_ == Entered(s.known, repo, facts)
           failed_ == [r \in DOMAIN s.failed \ {repo} |-> s.failed[r]]
           asks_ == Append(s.asks, new)
<1>1. /\ s \in Caches /\ s.known \in Partial(Repos, Facts) /\ s.failed \in Partial(Repos, Nat)
      /\ s.asks \in Seq(Lookups)
  BY DEF CacheInv, Caches
<1>2. repo \in Repos /\ files[repo] \in Configurations
  BY PartialElements DEF FilesType
<1>3. /\ facts \in Facts /\ facts.context = files[repo].context /\ (facts.tools => files[repo].tools)
      /\ how = "found" => facts = files[repo]
  BY <1>2 DEF Facts, Configurations
<1>4. t = [s EXCEPT !.known = known_, !.failed = failed_, !.asks = asks_]
  BY DEF Learn
<1>5. /\ known_ \in Partial(Repos, Facts) /\ DOMAIN known_ = DOMAIN s.known \union {repo}
      /\ known_[repo] = facts /\ \A r \in DOMAIN s.known : known_[r] = s.known[r]
  <2>1. known_ \in Partial(Repos, Facts)
    BY <1>1, <1>2, <1>3, EnteredType
  <2>2. DOMAIN known_ = DOMAIN s.known \union {repo} /\ known_[repo] = facts
    BY DEF Entered
  <2>3. ASSUME NEW r \in DOMAIN s.known  PROVE known_[r] = s.known[r]
    BY EnteredOthers
  <2> HIDE DEF known_
  <2>4. QED
    BY <2>1, <2>2, <2>3
<1>6. /\ failed_ \in Partial(Repos, Nat) /\ DOMAIN failed_ = DOMAIN s.failed \ {repo}
      /\ \A r \in DOMAIN failed_ : failed_[r] = s.failed[r]
  BY <1>1, WithoutElements
<1> HIDE DEF known_, failed_
<1>7. new \in Lookups
  BY <1>2 DEF Lookups
<1>8. asks_ \in Seq(Lookups)
  BY <1>1, <1>7, AppendProperties
<1> HIDE DEF asks_
<1>9. t \in Caches /\ t.known = known_ /\ t.failed = failed_ /\ t.asks = asks_
  BY <1>1, <1>4, <1>5, <1>6, <1>8 DEF Caches
<1> HIDE DEF t
<1>10. /\ t.asks[Len(t.asks)] = new
       /\ \A i \in DOMAIN s.asks : i \in DOMAIN t.asks /\ t.asks[i] = s.asks[i]
       /\ DOMAIN t.asks = DOMAIN s.asks \union {Len(t.asks)}
       /\ AskedInTime(t)
  <2>1. t.asks = Append(s.asks, <<repo, hubClock, how>>) /\ how \in {"found", "half", "failed"}
    BY <1>9 DEF asks_
  <2>2. AskedInTime(s) /\ FailuresAreRemembered(s)
    BY DEF CacheInv
  <2>3. s \in Caches /\ repo \in Repos /\ repo \notin DOMAIN s.known /\ ~ Fresh(s, repo) /\ hubClock \in Nat
    BY <1>1, <1>2
  <2>4. /\ t.asks[Len(t.asks)] = <<repo, hubClock, how>>
        /\ \A i \in DOMAIN s.asks : i \in DOMAIN t.asks /\ t.asks[i] = s.asks[i]
        /\ DOMAIN t.asks = DOMAIN s.asks \union {Len(t.asks)}
        /\ AskedInTime(t)
    <3> HIDE DEF new
    <3>1. QED
      <4>1. Asks(s, repo, how, t)
        BY <2>1, <2>2, <2>3 DEF Asks
      <4>2. QED
        BY <4>1, AskOnce
  <2>5. QED
    BY <2>4 DEF new
<1>11. Later(s, t) /\ repo \in DOMAIN t.known
  BY <1>5, <1>9, <1>10 DEF Later
<1>12. KnownIsTrue(t)
  <2> SUFFICES ASSUME NEW r \in DOMAIN t.known
      PROVE  /\ r \in DOMAIN files /\ t.known[r].context = files[r].context
             /\ t.known[r].tools => files[r].tools
             /\ t.known[r] = files[r] \/ Asked(t, r, "half")
    BY DEF KnownIsTrue
  <2>1. CASE r = repo
    <3>1. Asked(t, repo, how)
      BY <1>10 DEF Asked
    <3>2. QED
      BY <1>3, <1>5, <1>9, <2>1, <3>1
  <2>2. CASE r # repo
    <3>1. r \in DOMAIN s.known /\ t.known[r] = s.known[r]
      BY <1>5, <1>9, <2>2
    <3>2. Asked(s, r, "half") => Asked(t, r, "half")
      BY <1>10 DEF Asked
    <3>3. QED
      BY <3>1, <3>2 DEF CacheInv, KnownIsTrue
  <2>3. QED
    BY <2>1, <2>2
<1>13. FailuresAreRemembered(t)
  <2>1. ASSUME NEW r \in DOMAIN t.failed
        PROVE  t.failed[r] <= hubClock /\ \E i \in DOMAIN t.asks : t.asks[i] = <<r, t.failed[r], "failed">>
    <3>1. r \in DOMAIN s.failed /\ t.failed[r] = s.failed[r]
      BY <1>6, <1>9
    <3>2. s.failed[r] <= hubClock /\ \E i \in DOMAIN s.asks : s.asks[i] = <<r, s.failed[r], "failed">>
      BY <3>1 DEF CacheInv, FailuresAreRemembered
    <3>3. QED
      BY <1>10, <3>1, <3>2
  <2>2. ASSUME NEW i \in DOMAIN t.asks
        PROVE  \/ t.asks[i][1] \in DOMAIN t.known
               \/ /\ t.asks[i][1] \in DOMAIN t.failed /\ t.asks[i][2] <= t.failed[t.asks[i][1]]
                  /\ t.asks[i][3] = "failed"
    <3>1. CASE i = Len(t.asks)
      <4>1. t.asks[i][1] = repo
        BY <1>10, <3>1
      <4>2. QED
        BY <1>5, <1>9, <4>1
    <3>2. CASE i # Len(t.asks)
      <4>1. i \in DOMAIN s.asks /\ t.asks[i] = s.asks[i]
        BY <1>10, <3>2
      <4>2. CASE s.asks[i][1] = repo
        BY <1>5, <1>9, <4>1, <4>2
      <4>3. CASE s.asks[i][1] # repo
        BY <1>5, <1>6, <1>9, <4>1, <4>3 DEF CacheInv, FailuresAreRemembered
      <4>4. QED
        BY <4>2, <4>3
    <3>3. QED
      BY <3>1, <3>2
  <2>3. QED
    BY <2>1, <2>2 DEF FailuresAreRemembered
<1>14. QED
  BY <1>9, <1>10, <1>11, <1>12, <1>13 DEF CacheInv, t

(* A failure is remembered with its time.                                    *)
LEMMA FailStep ==
  ASSUME NEW s, CacheInv(s), hubClock \in Nat,
         NEW repo \in Repos, repo \notin DOMAIN s.known, ~ Fresh(s, repo),
         NEW how, how = "failed"
  PROVE  LET t == [s EXCEPT !.failed = Entered(s.failed, repo, hubClock),
                            !.asks = Append(s.asks, <<repo, hubClock, how>>)]
         IN  CacheInv(t) /\ Later(s, t) /\ t.known = s.known
<1> DEFINE t == [s EXCEPT !.failed = Entered(s.failed, repo, hubClock),
                          !.asks = Append(s.asks, <<repo, hubClock, how>>)]
<1> DEFINE new == <<repo, hubClock, how>>
           failed_ == Entered(s.failed, repo, hubClock)
           asks_ == Append(s.asks, new)
<1>1. /\ s \in Caches /\ s.known \in Partial(Repos, Facts) /\ s.failed \in Partial(Repos, Nat)
      /\ s.asks \in Seq(Lookups)
  BY DEF CacheInv, Caches
<1>2. /\ failed_ \in Partial(Repos, Nat) /\ DOMAIN failed_ = DOMAIN s.failed \union {repo}
      /\ failed_[repo] = hubClock /\ \A r \in DOMAIN s.failed : r # repo => failed_[r] = s.failed[r]
  <2>1. failed_ \in Partial(Repos, Nat)
    BY <1>1, EnteredType
  <2>2. DOMAIN failed_ = DOMAIN s.failed \union {repo} /\ failed_[repo] = hubClock
    BY DEF Entered
  <2>3. ASSUME NEW r \in DOMAIN s.failed, r # repo  PROVE failed_[r] = s.failed[r]
    BY <2>3, EnteredOthers
  <2> HIDE DEF failed_
  <2>4. QED
    BY <2>1, <2>2, <2>3
<1> HIDE DEF failed_
<1>3. new \in Lookups /\ asks_ \in Seq(Lookups)
  BY <1>1, AppendProperties DEF Lookups
<1> HIDE DEF asks_
<1>4. t \in Caches /\ t.known = s.known /\ t.failed = failed_ /\ t.asks = asks_
  BY <1>1, <1>2, <1>3 DEF Caches, failed_, asks_
<1> HIDE DEF t
<1>5. /\ t.asks[Len(t.asks)] = new
      /\ \A i \in DOMAIN s.asks : i \in DOMAIN t.asks /\ t.asks[i] = s.asks[i]
      /\ DOMAIN t.asks = DOMAIN s.asks \union {Len(t.asks)}
      /\ AskedInTime(t)
  <2>1. t.asks = Append(s.asks, <<repo, hubClock, how>>) /\ how \in {"found", "half", "failed"}
    BY <1>4 DEF asks_
  <2>2. AskedInTime(s) /\ FailuresAreRemembered(s)
    BY DEF CacheInv
  <2> HIDE DEF new
  <2>3. QED
    <3>1. Asks(s, repo, how, t)
      BY <1>1, <2>1, <2>2 DEF Asks, new
    <3> HIDE DEF t
    <3>2. /\ t.asks[Len(t.asks)] = <<repo, hubClock, how>>
          /\ \A i \in DOMAIN s.asks : i \in DOMAIN t.asks /\ t.asks[i] = s.asks[i]
          /\ DOMAIN t.asks = DOMAIN s.asks \union {Len(t.asks)}
          /\ AskedInTime(t)
      BY <3>1, AskOnce
    <3>3. QED
      BY <3>2 DEF new
<1>6. Later(s, t)
  BY <1>4, <1>5 DEF Later
<1>7. KnownIsTrue(t)
  <2>1. \A r : Asked(s, r, "half") => Asked(t, r, "half")
    BY <1>5 DEF Asked
  <2>2. QED
    BY <1>4, <2>1 DEF CacheInv, KnownIsTrue
<1>8. FailuresAreRemembered(t)
  <2>1. ASSUME NEW r \in DOMAIN t.failed
        PROVE  t.failed[r] <= hubClock /\ \E i \in DOMAIN t.asks : t.asks[i] = <<r, t.failed[r], "failed">>
    <3>1. CASE r = repo
      <4>1. t.failed[r] = hubClock /\ Len(t.asks) \in DOMAIN t.asks
        BY <1>2, <1>4, <1>5, <3>1
      <4>2. QED
        BY <1>5, <3>1, <4>1
    <3>2. CASE r # repo
      <4>1. r \in DOMAIN s.failed /\ t.failed[r] = s.failed[r]
        BY <1>2, <1>4, <3>2
      <4>2. s.failed[r] <= hubClock /\ \E i \in DOMAIN s.asks : s.asks[i] = <<r, s.failed[r], "failed">>
        BY <4>1 DEF CacheInv, FailuresAreRemembered
      <4>3. QED
        BY <1>5, <4>1, <4>2
    <3>3. QED
      BY <3>1, <3>2
  <2>2. ASSUME NEW i \in DOMAIN t.asks
        PROVE  \/ t.asks[i][1] \in DOMAIN t.known
               \/ /\ t.asks[i][1] \in DOMAIN t.failed /\ t.asks[i][2] <= t.failed[t.asks[i][1]]
                  /\ t.asks[i][3] = "failed"
    <3>1. CASE i = Len(t.asks)
      <4>1. t.asks[i][1] = repo /\ t.asks[i][2] = hubClock /\ t.asks[i][3] = "failed"
        BY <1>5, <3>1
      <4>2. QED
        BY <1>2, <1>4, <4>1
    <3>2. CASE i # Len(t.asks)
      <4>1. i \in DOMAIN s.asks /\ t.asks[i] = s.asks[i]
        BY <1>5, <3>2
      <4>2. \/ s.asks[i][1] \in DOMAIN s.known
            \/ /\ s.asks[i][1] \in DOMAIN s.failed /\ s.asks[i][2] <= s.failed[s.asks[i][1]]
               /\ s.asks[i][3] = "failed"
        BY <4>1 DEF CacheInv, FailuresAreRemembered
      <4>3. CASE s.asks[i][1] = repo
        <5>1. repo \in DOMAIN s.failed /\ s.failed[repo] <= hubClock
          BY <4>2, <4>3 DEF CacheInv, FailuresAreRemembered
        <5>2. s.failed[repo] \in Nat /\ s.asks[i][2] \in Nat
          <6>1. s.failed[repo] \in Nat
            BY <1>1, <5>1, PartialElements
          <6>2. s.asks[i] \in Lookups
            BY <1>1, <4>1
          <6>3. QED
            BY <6>1, <6>2 DEF Lookups
        <5>3. s.asks[i][2] <= hubClock
          BY <4>2, <4>3, <5>1, <5>2
        <5>4. QED
          BY <1>2, <1>4, <4>1, <4>2, <4>3, <5>3
      <4>4. CASE s.asks[i][1] # repo
        BY <1>2, <1>4, <4>1, <4>2, <4>4
      <4>5. QED
        BY <4>3, <4>4
    <3>3. QED
      BY <3>1, <3>2
  <2>3. QED
    BY <2>1, <2>2 DEF FailuresAreRemembered
<1>9. QED
  BY <1>4, <1>5, <1>6, <1>7, <1>8 DEF CacheInv, t

(* One lookup keeps the cache in order, and finds what the hub has unless it *)
(* failed a short while ago.                                                 *)
LEMMA FetchStep ==
  ASSUME NEW s, CacheInv(s), hubClock \in Nat, hubUp \in BOOLEAN, FilesType,
         NEW repo \in Repos, NEW halfway \in BOOLEAN
  PROVE  /\ CacheInv(Fetch(s, repo, halfway)) /\ Later(s, Fetch(s, repo, halfway))
         /\ hubUp /\ repo \in DOMAIN files =>
              repo \in DOMAIN Fetch(s, repo, halfway).known \/ FailedLately(s, repo)
<1> DEFINE t == Fetch(s, repo, halfway)
<1>1. CASE repo \in DOMAIN s.known
  <2>1. t = s
    BY <1>1 DEF Fetch
  <2> HIDE DEF t
  <2>2. QED
    BY <1>1, <2>1 DEF Later, t
<1>2. CASE repo \notin DOMAIN s.known /\ Fresh(s, repo)
  <2>1. t = s
    BY <1>2 DEF Fetch
  <2>2. repo \in DOMAIN s.failed /\ hubClock - s.failed[repo] < RetryAfter
    BY <1>2 DEF Fresh
  <2>3. s.failed[repo] <= hubClock /\ \E i \in DOMAIN s.asks : s.asks[i] = <<repo, s.failed[repo], "failed">>
    BY <2>2 DEF CacheInv, FailuresAreRemembered
  <2>4. FailedLately(s, repo)
    BY <2>2, <2>3 DEF FailedLately
  <2> HIDE DEF t
  <2>5. QED
    BY <2>1, <2>4 DEF Later, t
<1>3. CASE repo \notin DOMAIN s.known /\ ~ Fresh(s, repo)
  <2>1. t = Inquire(s, repo, halfway)
    BY <1>3 DEF Fetch
  <2>2. CASE hubUp /\ repo \in DOMAIN files /\ halfway
    <3>1. t = Learn(s, repo, [files[repo] EXCEPT !.tools = FALSE], "half")
      BY <2>1, <2>2 DEF Inquire
    <3> HIDE DEF t
    <3>2. QED
      BY <1>3, <2>2, <3>1, LearnStep DEF t
  <2>3. CASE hubUp /\ repo \in DOMAIN files /\ ~ halfway
    <3>1. t = Learn(s, repo, files[repo], "found")
      BY <2>1, <2>3 DEF Inquire
    <3> HIDE DEF t
    <3>2. QED
      BY <1>3, <2>3, <3>1, LearnStep DEF t
  <2>4. CASE ~ (hubUp /\ repo \in DOMAIN files)
    <3>1. t = [s EXCEPT !.failed = Entered(s.failed, repo, hubClock),
                        !.asks = Append(s.asks, <<repo, hubClock, "failed">>)]
      BY <2>1, <2>4 DEF Inquire
    <3>2. PICK how : how = "failed"
      OBVIOUS
    <3> DEFINE u == [s EXCEPT !.failed = Entered(s.failed, repo, hubClock),
                              !.asks = Append(s.asks, <<repo, hubClock, how>>)]
    <3>3. CacheInv(u) /\ Later(s, u)
      BY <1>3, <3>2, FailStep
    <3>4. t = u
      BY <3>1, <3>2
    <3> HIDE DEF t, u
    <3>5. QED
      BY <2>4, <3>3, <3>4 DEF t
  <2>5. QED
    BY <2>2, <2>3, <2>4
<1>4. QED
  BY <1>1, <1>2, <1>3

LEMMA LaterAgain ==
  ASSUME NEW s, NEW t, NEW u, Later(s, t), Later(t, u)
  PROVE  Later(s, u)
BY DEF Later

LEMMA FailedLatelyLater ==
  ASSUME NEW s, NEW t, NEW repo, Later(s, t), FailedLately(s, repo)
  PROVE  FailedLately(t, repo)
BY DEF Later, FailedLately

(* The repository that has the facts of a model is the one LookUp shows.     *)
Source(repo) == IF repo \in DOMAIN files THEN repo ELSE baseOf[repo]

LEMMA LookUpStep ==
  ASSUME NEW s, CacheInv(s), hubClock \in Nat, hubUp \in BOOLEAN, FilesType,
         baseOf \in [Repos -> Repos \union {NoRepo}],
         NEW repo \in Repos, NEW halfway \in BOOLEAN
  PROVE  LET t == LookUp(s, repo, halfway)
         IN  /\ CacheInv(t) /\ Later(s, t)
             /\ hubUp /\ Source(repo) \in DOMAIN files =>
                  \/ Source(repo) \in DOMAIN t.known /\ Found(t, repo) = t.known[Source(repo)]
                  \/ FailedLately(t, Source(repo))
<1> DEFINE t == LookUp(s, repo, halfway)
           direct == Fetch(s, repo, halfway)
           base == Base(repo)
           through == Fetch(direct, base, halfway)
<1>1. /\ CacheInv(direct) /\ Later(s, direct)
      /\ hubUp /\ repo \in DOMAIN files => repo \in DOMAIN direct.known \/ FailedLately(s, repo)
  BY FetchStep
<1>2. base \in Repos \union {NoRepo} /\ (hubUp => base = baseOf[repo])
  BY DEF Base
<1>3. t = IF repo \in DOMAIN direct.known \/ base \in {NoRepo, repo} THEN direct ELSE through
  BY DEF LookUp
<1>4. \A z : CacheInv(z) => DOMAIN z.known \subseteq DOMAIN files
  BY DEF CacheInv, KnownIsTrue
<1>5. Found(t, repo) = IF repo \in DOMAIN t.known THEN t.known[repo]
                       ELSE IF base \in DOMAIN t.known THEN t.known[base] ELSE Nothing
  BY DEF Found
<1>6. ASSUME base \in Repos, CacheInv(direct)
      PROVE  /\ CacheInv(through) /\ Later(direct, through)
             /\ hubUp /\ base \in DOMAIN files => base \in DOMAIN through.known \/ FailedLately(direct, base)
  <2> HIDE DEF direct, base
  <2>1. QED
    BY <1>6, FetchStep
<1> HIDE DEF t, direct, base, through
<1>7. DOMAIN files \subseteq Repos
  BY PartialElements DEF FilesType
<1>8. CASE repo \in DOMAIN direct.known \/ base \in {NoRepo, repo}
  <2>1. t = direct
    BY <1>3, <1>8
  <2>2. CASE repo \in DOMAIN files
    <3>1. Source(repo) = repo
      BY <2>2 DEF Source
    <3>2. hubUp => repo \in DOMAIN t.known \/ FailedLately(t, repo)
      BY <1>1, <2>1, <2>2, FailedLatelyLater
    <3>3. QED
      BY <1>1, <1>5, <2>1, <3>1, <3>2 DEF t
  <2>3. CASE repo \notin DOMAIN files
    <3>1. hubUp => Source(repo) \notin DOMAIN files
      BY <1>1, <1>2, <1>4, <1>7, <1>8, <2>3, CapabilitiesAssumption DEF Source
    <3>2. QED
      BY <1>1, <2>1, <3>1 DEF t
  <2>4. QED
    BY <2>2, <2>3
<1>9. CASE ~ (repo \in DOMAIN direct.known \/ base \in {NoRepo, repo})
  <2>1. t = through /\ base \in Repos
    BY <1>2, <1>3, <1>9
  <2>2. /\ CacheInv(t) /\ Later(direct, t)
        /\ hubUp /\ base \in DOMAIN files => base \in DOMAIN t.known \/ FailedLately(direct, base)
    BY <1>1, <1>6, <2>1
  <2>3. Later(s, t)
    BY <1>1, <2>2, LaterAgain
  <2>4. CASE repo \in DOMAIN files
    <3>1. Source(repo) = repo
      BY <2>4 DEF Source
    <3>2. hubUp => FailedLately(t, repo)
      BY <1>1, <1>9, <2>3, <2>4, FailedLatelyLater
    <3>3. QED
      BY <2>2, <2>3, <3>1, <3>2 DEF t
  <2>5. CASE repo \notin DOMAIN files
    <3>1. hubUp => Source(repo) = base
      BY <1>2, <2>5 DEF Source
    <3>2. repo \notin DOMAIN t.known
      BY <1>4, <2>2, <2>5
    <3>3. FailedLately(direct, base) => FailedLately(t, base)
      BY <2>2, FailedLatelyLater
    <3>4. QED
      BY <1>5, <2>2, <2>3, <3>1, <3>2, <3>3 DEF t
  <2>6. QED
    BY <2>4, <2>5
<1>10. QED
  BY <1>8, <1>9

LEMMA FoundType ==
  ASSUME NEW s, CacheInv(s), NEW repo
  PROVE  Found(s, repo) \in Facts
<1>1. s.known \in Partial(Repos, Facts)
  BY DEF CacheInv, Caches
<1>2. \A r \in DOMAIN s.known : s.known[r] \in Facts
  BY <1>1, PartialElements
<1>3. Nothing \in Facts
  BY DEF Nothing, Facts
<1>4. QED
  BY <1>2, <1>3 DEF Found

LEMMA MergedType ==
  ASSUME NEW own \in Facts, NEW hub \in Facts, NEW header \in Facts
  PROVE  Merged(own, hub, header) \in Facts
BY CapabilitiesAssumption DEF Merged, Facts

(* What one record says, in terms of a cache.                                *)
Shown(r, s) ==
  LET source == SourceOf(r.report)
  IN  /\ r.up /\ source \in DOMAIN files
      /\ ~ (\E i \in DOMAIN s.asks : /\ s.asks[i][1] = source /\ s.asks[i][3] \in {"failed"}
                                    /\ s.asks[i][2] <= r.at /\ r.at - s.asks[i][2] < RetryAfter)
      /\ ~ (\E i \in DOMAIN s.asks : s.asks[i][1] = source /\ s.asks[i][3] \in {"half"})
      => Complete(r)

AllShown == \A n \in DOMAIN record : Shown(record[n], Cache)

LEMMA OutageByRecord == OutageIsForgotten <=> AllShown
<1> DEFINE c == Cache
<1>1. c.asks = asks
  BY DEF Cache
<1>2. ASSUME NEW r
      PROVE  Shown(r, c) <=>
               (/\ r.up /\ SourceOf(r.report) \in DOMAIN files
                /\ ~Lately(SourceOf(r.report), r.at, {"failed"}) /\ ~Ever(SourceOf(r.report), {"half"})
                => Complete(r))
  <2> HIDE DEF c
  <2>1. QED
    BY <1>1 DEF Shown, Lately, Ever
<1>3. QED
  BY <1>2 DEF OutageIsForgotten, AllShown

LEMMA ShownLater ==
  ASSUME NEW s, NEW t, Later(s, t), NEW r, Shown(r, s)
  PROVE  Shown(r, t)
BY DEF Later, Shown

(* The record of a registration is complete, unless an outage explains it.   *)
LEMMA RegistrationShows ==
  ASSUME NEW s, CacheInv(s), hubClock \in Nat, hubUp \in BOOLEAN, FilesType,
         baseOf \in [Repos -> Repos \union {NoRepo}],
         NEW report \in Reports, report.repo # NoRepo, NEW halfway \in BOOLEAN,
         NEW t, t = LookUp(s, report.repo, halfway), NEW r,
         r = [report |-> report, at |-> hubClock, up |-> hubUp,
              shown |-> Merged(report.own, Found(t, report.repo), report.header)]
  PROVE  Shown(r, t)
<1>1. report.repo \in Repos /\ report.own \in Facts /\ report.header \in Facts
  BY DEF Reports
<1>2. /\ CacheInv(t)
      /\ hubUp /\ Source(report.repo) \in DOMAIN files =>
           \/ Source(report.repo) \in DOMAIN t.known /\ Found(t, report.repo) = t.known[Source(report.repo)]
           \/ FailedLately(t, Source(report.repo))
  BY <1>1, LookUpStep
<1> DEFINE source == Source(report.repo)
           hub == Found(t, report.repo)
<1>3. SourceOf(report) = source
  BY <1>1, CapabilitiesAssumption DEF SourceOf, Source
<1>4. r.report = report /\ r.at = hubClock /\ r.up = hubUp /\ r.shown = Merged(report.own, hub, report.header)
  OBVIOUS
<1>5. hub \in Facts
  BY <1>2, FoundType
<1> HIDE DEF source, hub
<1>6. SUFFICES ASSUME hubUp, source \in DOMAIN files, ~ FailedLately(t, source), ~ Asked(t, source, "half")
      PROVE  Complete(r)
  BY <1>3, <1>4 DEF Shown, FailedLately, Asked
<1>7. source \in DOMAIN t.known /\ hub = t.known[source]
  BY <1>2, <1>6 DEF source, hub
<1>8. hub.context = files[source].context /\ hub = files[source]
  BY <1>2, <1>6, <1>7 DEF CacheInv, KnownIsTrue
<1>9. files[source] \in Configurations
  BY <1>6, PartialElements DEF FilesType
<1>10. hub.context # 0
  BY <1>8, <1>9, CapabilitiesAssumption DEF Configurations
<1>11. /\ report.own.context = 0 => r.shown.context = hub.context
       /\ hub.tools => r.shown.tools
  BY <1>4, <1>10 DEF Merged
<1>12. QED
  BY <1>3, <1>4, <1>8, <1>11 DEF Complete

LEMMA RegisterModelStep ==
  ASSUME CapabilitiesIInv,
         NEW n \in Nodes, NEW report \in Reports, NEW halfway \in BOOLEAN,
         RegisterModel(n, report, halfway)
  PROVE  CapabilitiesIInv'
<1> DEFINE after == IF report.repo = NoRepo THEN Cache ELSE LookUp(Cache, report.repo, halfway)
           hub == IF report.repo = NoRepo THEN Nothing ELSE Found(after, report.repo)
           r == [report |-> report, at |-> hubClock, up |-> hubUp,
                 shown |-> Merged(report.own, hub, report.header)]
<1>1. /\ hubClock \in 0 .. MaxHubTime /\ hubClock \in Nat /\ hubUp \in BOOLEAN /\ FilesType
      /\ baseOf \in [Repos -> Repos \union {NoRepo}]
      /\ record \in Partial(Nodes, Records)
      /\ \A m \in DOMAIN record : record[m].at <= hubClock
      /\ CacheInv(Cache)
      /\ \A m \in DOMAIN record : Shown(record[m], Cache)
  BY OutageByRecord, CapabilitiesAssumption DEF CapabilitiesIInv, FilesType, AllShown
<1>2. report.repo \in Repos \union {NoRepo} /\ report.own \in Facts /\ report.header \in Facts
  BY DEF Reports
<1>3. CacheInv(after) /\ Later(Cache, after) /\ hub \in Facts /\ Shown(r, after)
  <2>1. CASE report.repo = NoRepo
    <3>1. after = Cache /\ hub = Nothing /\ Nothing \in Facts
      BY <2>1 DEF Nothing, Facts
    <3>2. r.report = report /\ SourceOf(report) = NoRepo
      BY <2>1 DEF SourceOf
    <3>3. NoRepo \notin DOMAIN files
      BY <1>1, PartialElements, CapabilitiesAssumption DEF FilesType
    <3> HIDE DEF after, hub, r
    <3>4. Shown(r, after)
      BY <3>2, <3>3 DEF Shown
    <3>5. Later(Cache, Cache)
      BY DEF Later
    <3>6. QED
      BY <1>1, <3>1, <3>4, <3>5
  <2>2. CASE report.repo # NoRepo
    <3>1. after = LookUp(Cache, report.repo, halfway) /\ hub = Found(after, report.repo)
      BY <2>2
    <3>2. r = [report |-> report, at |-> hubClock, up |-> hubUp,
               shown |-> Merged(report.own, hub, report.header)]
      OBVIOUS
    <3> HIDE DEF after, hub, r
    <3>3. CacheInv(after) /\ Later(Cache, after)
      BY <1>1, <1>2, <2>2, <3>1, LookUpStep
    <3>4. hub \in Facts
      BY <3>1, <3>3, FoundType
    <3>5. Shown(r, after)
      BY <1>1, <2>2, <3>1, <3>2, RegistrationShows
    <3>6. QED
      BY <3>3, <3>4, <3>5
  <2>3. QED
    BY <2>1, <2>2
<1>4. r \in Records /\ r.at = hubClock
  BY <1>1, <1>2, <1>3, MergedType DEF Records
<1>5. /\ known' = after.known /\ failed' = after.failed /\ asks' = after.asks
      /\ hubUp' = (hubUp /\ ~halfway) /\ record' = Entered(record, n, r)
      /\ UNCHANGED <<hubClock, files, baseOf>>
  BY DEF RegisterModel, Cache
<1> HIDE DEF after, hub, r
<1>6. after = Cache'
  <2>1. after \in Caches
    BY <1>3 DEF CacheInv
  <2>2. QED
    BY <1>5, <2>1 DEF Cache, Caches
<1>7. CacheInv(Cache)'
  <2>1. CacheInv(after)
    BY <1>3
  <2>2. (Cache \in Caches)'
    BY <1>6, <2>1 DEF CacheInv, Caches, Lookups
  <2>3. KnownIsTrue(Cache)'
    BY <1>5, <1>6, <2>1 DEF CacheInv, KnownIsTrue, Asked
  <2>4. FailuresAreRemembered(Cache)'
    BY <1>5, <1>6, <2>1 DEF CacheInv, FailuresAreRemembered
  <2>5. AskedInTime(Cache)'
    BY <1>6, <2>1 DEF CacheInv, AskedInTime
  <2>6. QED
    BY <2>2, <2>3, <2>4, <2>5 DEF CacheInv
<1>8. /\ record' \in Partial(Nodes, Records) /\ DOMAIN record' = DOMAIN record \union {n}
      /\ record'[n] = r /\ \A m \in DOMAIN record : m # n => record'[m] = record[m]
  <2>1. record' \in Partial(Nodes, Records)
    BY <1>1, <1>4, <1>5, EnteredType
  <2>2. QED
    BY <1>5, <2>1 DEF Entered
<1>9. ASSUME NEW m \in DOMAIN record'
      PROVE  record'[m].at <= hubClock' /\ Shown(record[m], Cache)'
  <2>1. record'[m].at <= hubClock /\ Shown(record'[m], after)
    BY <1>1, <1>3, <1>4, <1>8, <1>9, ShownLater
  <2>2. Shown(record'[m], after) => Shown(record[m], Cache)'
    BY <1>5, <1>6 DEF Shown, SourceOf, Complete
  <2>3. QED
    BY <1>5, <2>1, <2>2
<1>10. OutageIsForgotten'
  <2>1. AllShown'
    BY <1>9 DEF AllShown
  <2>2. QED
    BY <2>1, OutageByRecord, PTL
<1>11. QED
  BY <1>1, <1>5, <1>7, <1>8, <1>9, <1>10 DEF CapabilitiesIInv, FilesType

(* Actions that leave the cache and the hub's files alone, and only forget   *)
(* records.                                                                  *)
LEMMA CacheUntouched ==
  ASSUME CapabilitiesIInv, UNCHANGED <<files, baseOf, known, failed, asks>>,
         hubClock' \in 0 .. MaxHubTime, hubClock <= hubClock', hubUp' \in BOOLEAN,
         record' \in Partial(Nodes, Records),
         \A m \in DOMAIN record' : m \in DOMAIN record /\ record'[m] = record[m]
  PROVE  CapabilitiesIInv'
<1>0. hubClock \in Nat /\ hubClock' \in Nat
  BY CapabilitiesAssumption DEF CapabilitiesIInv
<1>1. Cache' = Cache /\ CacheInv(Cache) /\ AllShown
  BY OutageByRecord DEF CapabilitiesIInv, Cache
<1>2. CacheInv(Cache)'
  <2>1. (Cache \in Caches)'
    BY <1>1 DEF CacheInv, Caches, Lookups
  <2>2. KnownIsTrue(Cache)'
    BY <1>1 DEF CacheInv, KnownIsTrue, Asked
  <2>3. FailuresAreRemembered(Cache)'
    <3>1. \A r \in DOMAIN Cache.failed : Cache.failed[r] \in Nat
      <4>1. Cache.failed \in Partial(Repos, Nat)
        BY <1>1 DEF CacheInv, Caches
      <4>2. QED
        BY <4>1, PartialElements
    <3> DEFINE s == Cache
    <3>2. FailuresAreRemembered(s) /\ s' = s
      BY <1>1 DEF CacheInv
    <3> HIDE DEF s
    <3>3. \A r \in DOMAIN s.failed : s.failed[r] <= hubClock'
      BY <1>0, <3>1, <3>2 DEF FailuresAreRemembered, s
    <3>4. FailuresAreRemembered(s)'
      BY <3>2, <3>3 DEF FailuresAreRemembered
    <3>5. QED
      BY <3>4 DEF s
  <2>4. AskedInTime(Cache)'
    BY <1>1 DEF CacheInv, AskedInTime
  <2>5. QED
    BY <2>1, <2>2, <2>3, <2>4 DEF CacheInv
<1>3. AllShown'
  <2> SUFFICES ASSUME NEW m \in DOMAIN record'  PROVE Shown(record[m], Cache)'
    BY DEF AllShown
  <2>1. record'[m] = record[m] /\ Shown(record[m], Cache)
    BY <1>1 DEF AllShown
  <2>2. QED
    BY <1>1, <2>1 DEF Shown, SourceOf, Complete
<1>4. OutageIsForgotten'
  BY <1>3, OutageByRecord, PTL
<1>5. (\A m \in DOMAIN record : record[m].at <= hubClock)'
  <2> SUFFICES ASSUME NEW m \in DOMAIN record'  PROVE record'[m].at <= hubClock'
    OBVIOUS
  <2>1. m \in DOMAIN record /\ record'[m] = record[m] /\ record[m].at <= hubClock
    BY DEF CapabilitiesIInv
  <2>2. record[m].at \in Nat
    <3>1. record[m] \in Records
      BY <2>1, PartialElements DEF CapabilitiesIInv
    <3>2. QED
      BY <3>1 DEF Records
  <2>3. QED
    BY <1>0, <2>1, <2>2
<1>6. QED
  BY <1>2, <1>4, <1>5 DEF CapabilitiesIInv

LEMMA CapabilitiesStart ==
  ASSUME CapabilitiesInit
  PROVE  CapabilitiesIInv
<1>1. /\ known = <<>> /\ failed = <<>> /\ record = <<>> /\ asks = <<>>
      /\ hubClock = 0 /\ hubUp \in BOOLEAN /\ baseOf \in [Repos -> Repos \union {NoRepo}]
      /\ files \in Partial(Repos, Configurations)
  BY DEF CapabilitiesInit, Partial
<1> DEFINE e == <<>>
<1>2. DOMAIN e = {} /\ e \in Seq(Lookups) /\ e = [x \in DOMAIN e |-> e[x]]
  OBVIOUS
<1> HIDE DEF e
<1>3. e \in Partial(Repos, Facts) /\ e \in Partial(Repos, Nat) /\ e \in Partial(Nodes, Records)
  BY <1>2, PartialElements
<1>4. /\ Cache \in Caches /\ Cache.known = e /\ Cache.failed = e /\ Cache.asks = e
      /\ record = e
  BY <1>1, <1>2, <1>3 DEF Cache, Caches, e
<1>5. CacheInv(Cache)
  BY <1>2, <1>4 DEF CacheInv, KnownIsTrue, FailuresAreRemembered, AskedInTime
<1>6. OutageIsForgotten
  BY <1>2, <1>4 DEF OutageIsForgotten
<1>7. QED
  BY <1>1, <1>2, <1>3, <1>4, <1>5, <1>6, CapabilitiesAssumption DEF CapabilitiesIInv

(* Each action keeps the invariant.                                          *)
LEMMA CapabilitiesStep ==
  ASSUME CapabilitiesIInv, [CapabilitiesNext]_capabilityVars
  PROVE  CapabilitiesIInv'
<1>0. /\ hubClock \in 0 .. MaxHubTime /\ hubUp \in BOOLEAN /\ record \in Partial(Nodes, Records)
      /\ hubClock \in Nat /\ MaxHubTime \in Nat
  BY CapabilitiesAssumption DEF CapabilitiesIInv
<1>1. CASE \E n \in Nodes, report \in Reports, halfway \in BOOLEAN : RegisterModel(n, report, halfway)
  BY <1>1, RegisterModelStep
<1>2. ASSUME NEW n \in Nodes, LeaveHub(n)
      PROVE  CapabilitiesIInv'
  <2>1. record' \in Partial(Nodes, Records)
    BY <1>0, <1>2, WithoutElements DEF LeaveHub
  <2>2. \A m \in DOMAIN record' : m \in DOMAIN record /\ record'[m] = record[m]
    BY <1>2 DEF LeaveHub
  <2>3. QED
    BY <1>0, <1>2, <2>1, <2>2, CacheUntouched DEF LeaveHub
<1>3. CASE HubFlips
  BY <1>0, <1>3, CacheUntouched DEF HubFlips
<1>4. CASE HubTick
  BY <1>0, <1>4, CacheUntouched DEF HubTick
<1>5. CASE UNCHANGED capabilityVars
  BY <1>0, <1>5, CacheUntouched DEF capabilityVars
<1>6. QED
  BY <1>1, <1>2, <1>3, <1>4, <1>5 DEF CapabilitiesNext

(* What a provider's model can do is found, and the hub is spared.           *)
THEOREM CapabilitiesAlwaysFound == CapabilitiesSpec => []CapabilitiesAreFound
<1>1. CapabilitiesInit => CapabilitiesIInv
  BY CapabilitiesStart
<1>2. CapabilitiesIInv /\ [CapabilitiesNext]_capabilityVars => CapabilitiesIInv'
  BY CapabilitiesStep
<1>3. CapabilitiesIInv => CapabilitiesAreFound
  <2> SUFFICES ASSUME CapabilitiesIInv  PROVE CapabilitiesAreFound
    OBVIOUS
  <2> DEFINE c == Cache
  <2>1. c.known = known /\ c.failed = failed /\ c.asks = asks
    BY DEF Cache
  <2>2. c \in Caches /\ KnownIsTrue(c) /\ FailuresAreRemembered(c) /\ AskedInTime(c)
    BY DEF CapabilitiesIInv, CacheInv
  <2> HIDE DEF c
  <2>3. failed \in Partial(Repos, Nat)
    BY <2>1, <2>2 DEF Caches
  <2>4. DOMAIN failed \subseteq Repos /\ \A r \in DOMAIN failed : failed[r] \in 0 .. hubClock
    <3>1. DOMAIN failed \subseteq Repos /\ \A r \in DOMAIN failed : failed[r] \in Nat
      BY <2>3, PartialElements
    <3>2. \A r \in DOMAIN failed : failed[r] <= hubClock
      BY <2>1, <2>2 DEF FailuresAreRemembered
    <3>3. QED
      BY <3>1, <3>2, CapabilitiesAssumption DEF CapabilitiesIInv
  <2>5. /\ DOMAIN known \subseteq DOMAIN files
        /\ \A r \in DOMAIN known : known[r].context = files[r].context /\ (known[r].tools => files[r].tools)
    BY <2>1, <2>2 DEF KnownIsTrue
  <2>6. DOMAIN record \subseteq Nodes /\ \A n \in DOMAIN record : record[n].shown \in Facts
    <3>1. DOMAIN record \subseteq Nodes /\ \A n \in DOMAIN record : record[n] \in Records
      BY PartialElements DEF CapabilitiesIInv
    <3>2. QED
      BY <3>1 DEF Records
  <2>7. HubIsNotHammered
    BY <2>1, <2>2 DEF HubIsNotHammered, AskedInTime
  <2>8. QED
    BY <2>4, <2>5, <2>6, <2>7 DEF CapabilitiesAreFound, CapabilitiesTypeOK, CapabilitiesIInv
<1>4. QED
  BY <1>1, <1>2, <1>3, PTL DEF CapabilitiesSpec

-----------------------------------------------------------------------------
(* MatchScore                                                               *)

(* Quotients that leave no remainder.                                        *)
LEMMA ExactQuotient ==
  ASSUME NEW n \in Nat, NEW d \in Nat \ {0}, n % d = 0
  PROVE  n \div d \in Nat /\ (n \div d) * d = n
OBVIOUS

LEMMA SmallerQuotient ==
  ASSUME NEW u \in Nat, NEW a \in Nat \ {0}, NEW b \in Nat \ {0}, NEW p \in Nat, NEW q \in Nat,
         p * a = u, q * b = u, a <= b, u # 0
  PROVE  p >= q /\ (a < b => p > q) /\ p > 0
OBVIOUS

LEMMA ProductGrows ==
  ASSUME NEW a \in Nat, NEW b \in Nat, NEW c \in Nat, NEW d \in Nat, a <= b, c <= d
  PROVE  a * c <= b * d
OBVIOUS

LEMMA ProductGrowsStrictly ==
  ASSUME NEW a \in Nat, NEW b \in Nat, NEW c \in Nat, NEW d \in Nat,
         a <= b, c <= d, (a < b /\ c > 0) \/ (c < d /\ a > 0)
  PROVE  a * c < b * d
<1>1. CASE a < b /\ c > 0
  BY <1>1
<1>2. CASE c < d /\ a > 0
  BY <1>2
<1>3. QED
  BY <1>1, <1>2

LEMMA ProductPositive ==
  ASSUME NEW a \in Nat \ {0}, NEW b \in Nat \ {0}
  PROVE  a * b \in Nat \ {0}
OBVIOUS

(* An offer as the proofs use it.                                            *)
IsOffer(f) ==
  /\ f.price \in Nat /\ f.speed \in Nat /\ f.level \in 0..3 /\ f.total \in Nat \ {0}
  /\ f.used \in Nat /\ f.reputation \in Nat /\ IsExact(f)

PricePart(f) == Unit \div (1 + f.price)
SpeedPart(f) == (Unit * f.speed) \div (10 + f.speed)
TrustPart(f) == (Unit * f.level) \div 4
LoadPart(f) == (Unit * Free(f)) \div f.total

LEMMA FreeType ==
  ASSUME NEW f, IsOffer(f)
  PROVE  Free(f) \in Nat
BY DEF Free, IsOffer

LEMMA PricePartType ==
  ASSUME NEW f, IsOffer(f)
  PROVE  PricePart(f) \in Nat /\ PricePart(f) > 0 /\ PricePart(f) * (1 + f.price) = Unit
<1> DEFINE d == 1 + f.price
<1>1. d \in Nat \ {0} /\ Unit \in Nat \ {0} /\ Unit % d = 0
  BY UnitAssumption DEF IsOffer, IsExact
<1>2. PricePart(f) = Unit \div d
  BY DEF PricePart
<1> HIDE DEF d
<1>3. Unit \div d \in Nat /\ (Unit \div d) * d = Unit
  BY <1>1, ExactQuotient
<1>4. Unit \div d > 0
  BY <1>1, <1>3
<1>5. QED
  BY <1>2, <1>3, <1>4 DEF d

LEMMA SpeedPartType ==
  ASSUME NEW f, IsOffer(f)
  PROVE  SpeedPart(f) \in Nat /\ SpeedPart(f) * (10 + f.speed) = Unit * f.speed
<1> DEFINE d == 10 + f.speed
           n == Unit * f.speed
<1>1. d \in Nat \ {0} /\ n \in Nat /\ n % d = 0
  <2>1. f.speed \in Nat /\ Unit \in Nat
    BY UnitAssumption DEF IsOffer
  <2>2. n % d = 0
    BY DEF IsOffer, IsExact
  <2>3. n \in Nat
    BY <2>1
  <2> HIDE DEF n
  <2>4. QED
    BY <2>1, <2>2, <2>3
<1>2. SpeedPart(f) = n \div d
  BY DEF SpeedPart
<1> HIDE DEF d, n
<1>3. QED
  BY <1>1, <1>2, ExactQuotient DEF d, n

LEMMA TrustPartType ==
  ASSUME NEW f, IsOffer(f)
  PROVE  TrustPart(f) \in Nat /\ TrustPart(f) * 4 = Unit * f.level
<1>1. f.level \in 0..3 /\ Unit \in Nat /\ Unit % 4 = 0
  BY UnitAssumption DEF IsOffer
<1>2. QED
  BY <1>1 DEF TrustPart

LEMMA LoadPartType ==
  ASSUME NEW f, IsOffer(f)
  PROVE  LoadPart(f) \in Nat /\ LoadPart(f) * f.total = Unit * Free(f)
<1> DEFINE d == f.total
           k == Free(f)
           q == Unit \div d
<1>1. d \in Nat \ {0} /\ Unit \in Nat /\ Unit % d = 0 /\ k \in Nat
  BY UnitAssumption, FreeType DEF IsOffer, IsExact
<1>2. LoadPart(f) = (Unit * k) \div d
  BY DEF LoadPart
<1>3. q \in Nat /\ q * d = Unit
  <2> HIDE DEF d
  <2>1. QED
    BY <1>1, ExactQuotient
<1> HIDE DEF d, k, q
<1>4. Unit * k = (q * k) * d /\ q * k \in Nat
  BY <1>1, <1>3
<1> DEFINE w == q * k
<1>5. (w * d) \div d = w
  <2> HIDE DEF w
  <2>1. w \in Nat => (w * d) \div d = w
    BY <1>1
  <2>2. QED
    BY <1>4, <2>1 DEF w
<1>6. LoadPart(f) = w
  BY <1>2, <1>4, <1>5
<1>7. QED
  BY <1>4, <1>6 DEF d, k

(* The weights are positive.                                                 *)
LEMMA WeightsType ==
  ASSUME NEW p \in Preferences
  PROVE  /\ Weights[p].price \in Nat \ {0} /\ Weights[p].speed \in Nat \ {0}
         /\ Weights[p].trust \in Nat \ {0} /\ Weights[p].load \in Nat \ {0}
BY DEF Preferences, Weights

(* A sum of four products grows with each of them.                           *)
LEMMA SumGrows ==
  ASSUME NEW w \in Nat \ {0}, NEW x \in Nat, NEW y \in Nat, x <= y
  PROVE  w * x \in Nat /\ w * y \in Nat /\ w * x <= w * y /\ (x < y => w * x < w * y)
OBVIOUS

LEMMA SoftType ==
  ASSUME NEW f, IsOffer(f), NEW p \in Preferences
  PROVE  Soft(Weights[p], f) \in Nat \ {0}
<1>1. /\ PricePart(f) \in Nat \ {0} /\ SpeedPart(f) \in Nat /\ TrustPart(f) \in Nat /\ LoadPart(f) \in Nat
  BY PricePartType, SpeedPartType, TrustPartType, LoadPartType
<1>2. Soft(Weights[p], f) = Weights[p].price * PricePart(f) + Weights[p].speed * SpeedPart(f)
                            + Weights[p].trust * TrustPart(f) + Weights[p].load * LoadPart(f)
  BY DEF Soft, PricePart, SpeedPart, TrustPart, LoadPart
<1> DEFINE a == Weights[p].price * PricePart(f)
           b == Weights[p].speed * SpeedPart(f)
           c == Weights[p].trust * TrustPart(f)
           d == Weights[p].load * LoadPart(f)
<1>3. a \in Nat \ {0}
  BY <1>1, WeightsType, ProductPositive
<1>4. b \in Nat /\ c \in Nat /\ d \in Nat
  BY <1>1, WeightsType
<1> HIDE DEF a, b, c, d
<1>5. a + b + c + d \in Nat \ {0}
  BY <1>3, <1>4
<1>6. QED
  BY <1>2, <1>5 DEF a, b, c, d

(* An offer scores when it is eligible.                                      *)
LEMMA ScoreType ==
  ASSUME NEW f, IsOffer(f), NEW o, o.preference \in Preferences, NEW u \in Nat \ {0}
  PROVE  /\ Score(o, f, u) \in Int
         /\ Eligible(o, f) => Score(o, f, u) > 0
         /\ ~ Eligible(o, f) => Score(o, f, u) = -1
<1>1. CASE ~ Eligible(o, f)
  BY <1>1 DEF Score
<1>2. CASE Eligible(o, f)
  <2> DEFINE a == Soft(Weights[o.preference], f)
             b == u + f.reputation
             c == IF o.affinity = f.provider THEN 12 ELSE 10
  <2>1. Score(o, f, u) = a * b * c
    BY <1>2 DEF Score
  <2>2. a \in Nat \ {0}
    BY SoftType
  <2>3. b \in Nat \ {0} /\ c \in Nat \ {0}
    BY DEF IsOffer
  <2> HIDE DEF a, b, c
  <2>4. a * b \in Nat \ {0}
    BY <2>2, <2>3, ProductPositive
  <2>5. a * b * c \in Nat \ {0}
    BY <2>3, <2>4, ProductPositive
  <2>6. QED
    BY <1>2, <2>1, <2>5
<1>3. QED
  BY <1>1, <1>2

(* Each part grows with what it measures.                                    *)
LEMMA PriceGrows ==
  ASSUME NEW f, IsOffer(f), NEW g, IsOffer(g), f.price <= g.price
  PROVE  PricePart(f) >= PricePart(g) /\ (f.price < g.price => PricePart(f) > PricePart(g))
<1> DEFINE a == 1 + f.price
           b == 1 + g.price
           p == PricePart(f)
           q == PricePart(g)
<1>1. /\ a \in Nat \ {0} /\ b \in Nat \ {0} /\ a <= b /\ (f.price < g.price => a < b)
      /\ p \in Nat /\ q \in Nat /\ p * a = Unit /\ q * b = Unit /\ Unit \in Nat \ {0}
  BY PricePartType, UnitAssumption DEF IsOffer
<1> HIDE DEF a, b, p, q
<1>2. p >= q /\ (a < b => p > q)
  BY <1>1, SmallerQuotient
<1>3. QED
  BY <1>1, <1>2 DEF p, q

LEMMA SpeedGrows ==
  ASSUME NEW f, IsOffer(f), NEW g, IsOffer(g), f.speed >= g.speed
  PROVE  SpeedPart(f) >= SpeedPart(g) /\ (f.speed > g.speed => SpeedPart(f) > SpeedPart(g))
<1> DEFINE s == f.speed
           r == g.speed
           x == SpeedPart(f)
           y == SpeedPart(g)
<1>1. /\ s \in Nat /\ r \in Nat /\ r <= s /\ x \in Nat /\ y \in Nat /\ Unit \in Nat \ {0}
      /\ x * (10 + s) = Unit * s /\ y * (10 + r) = Unit * r
  BY SpeedPartType, UnitAssumption DEF IsOffer
<1> HIDE DEF s, r, x, y
<1>2. ASSUME NEW v \in Nat, NEW z \in Nat, v * (10 + z) = Unit * z
      PROVE  Unit - v \in Nat /\ (Unit - v) * (10 + z) = 10 * Unit
  <2>1. (Unit - v) * (10 + z) = 10 * Unit
    BY <1>1, <1>2
  <2>2. Unit - v >= 0
    BY <1>1, <2>1
  <2>3. QED
    BY <1>1, <2>1, <2>2
<1> DEFINE p == Unit - y
           q == Unit - x
           a == 10 + r
           b == 10 + s
           u == 10 * Unit
<1>3. /\ p \in Nat /\ q \in Nat /\ p * a = u /\ q * b = u /\ a \in Nat \ {0} /\ b \in Nat \ {0}
      /\ u \in Nat \ {0} /\ a <= b
  BY <1>1, <1>2
<1>4. p >= q /\ (a < b => p > q)
  <2> HIDE DEF p, q, a, b, u
  <2>1. QED
    BY <1>3, SmallerQuotient
<1>5. x >= y /\ (r < s => x > y)
  BY <1>1, <1>4
<1>6. QED
  BY <1>1, <1>5 DEF s, r, x, y

LEMMA TrustGrows ==
  ASSUME NEW f, IsOffer(f), NEW g, IsOffer(g), f.level >= g.level
  PROVE  TrustPart(f) >= TrustPart(g) /\ (f.level > g.level => TrustPart(f) > TrustPart(g))
<1> DEFINE s == f.level
           r == g.level
           x == TrustPart(f)
           y == TrustPart(g)
<1>1. /\ s \in 0..3 /\ r \in 0..3 /\ r <= s /\ x \in Nat /\ y \in Nat /\ Unit \in Nat \ {0}
      /\ x * 4 = Unit * s /\ y * 4 = Unit * r
  BY TrustPartType, UnitAssumption DEF IsOffer
<1> HIDE DEF s, r, x, y
<1>2. Unit * r <= Unit * s /\ (r < s => Unit * r < Unit * s)
  BY <1>1, SumGrows
<1>3. x >= y /\ (r < s => x > y)
  BY <1>1, <1>2
<1>4. QED
  BY <1>1, <1>3 DEF s, r, x, y

LEMMA LoadGrows ==
  ASSUME NEW f, IsOffer(f), NEW g, IsOffer(g), Free(f) * g.total >= Free(g) * f.total
  PROVE  /\ LoadPart(f) >= LoadPart(g)
         /\ Free(f) * g.total > Free(g) * f.total => LoadPart(f) > LoadPart(g)
<1> DEFINE i == Free(f)
           j == Free(g)
           a == f.total
           b == g.total
           x == LoadPart(f)
           y == LoadPart(g)
<1>1. /\ i \in Nat /\ j \in Nat /\ a \in Nat \ {0} /\ b \in Nat \ {0} /\ x \in Nat /\ y \in Nat
      /\ Unit \in Nat \ {0} /\ x * a = Unit * i /\ y * b = Unit * j /\ j * a <= i * b
  BY FreeType, LoadPartType, UnitAssumption DEF IsOffer
<1> HIDE DEF i, j, a, b, x, y
<1> DEFINE m == j * a
           n == i * b
           c == a * b
<1>2. m \in Nat /\ n \in Nat /\ m <= n /\ c \in Nat \ {0}
  BY <1>1, ProductPositive
<1>3. x * c = Unit * n
  <2>1. x * c = (x * a) * b
    BY <1>1
  <2>2. (Unit * i) * b = Unit * n
    BY <1>1
  <2>3. QED
    BY <1>1, <2>1, <2>2
<1>4. y * c = Unit * m
  <2>1. y * c = (y * b) * a
    BY <1>1
  <2>2. (Unit * j) * a = Unit * m
    BY <1>1
  <2>3. QED
    BY <1>1, <2>1, <2>2
<1> HIDE DEF m, n, c
<1>5. Unit * m <= Unit * n /\ (m < n => Unit * m < Unit * n)
  BY <1>1, <1>2, SumGrows
<1>6. y * c <= x * c /\ (m < n => y * c < x * c)
  BY <1>3, <1>4, <1>5
<1>7. y <= x /\ (m < n => y < x)
  <2>1. x < y => x * c < y * c
    BY <1>1, <1>2, ProductGrowsStrictly
  <2>2. x \in Nat /\ y \in Nat /\ x * c \in Nat /\ y * c \in Nat
    BY <1>1, <1>2
  <2>3. y = x => y * c = x * c
    OBVIOUS
  <2>4. QED
    BY <1>6, <2>1, <2>2, <2>3
<1>8. QED
  BY <1>1, <1>7 DEF i, j, a, b, x, y, m, n

LEMMA SoftGrows ==
  ASSUME NEW f, IsOffer(f), NEW g, IsOffer(g), NEW p \in Preferences, AtLeastAsGood(f, g)
  PROVE  /\ Soft(Weights[p], f) >= Soft(Weights[p], g)
         /\ \/ f.price < g.price \/ f.speed > g.speed \/ f.level > g.level
            \/ Free(f) * g.total > Free(g) * f.total
            => Soft(Weights[p], f) > Soft(Weights[p], g)
<1>1. /\ PricePart(f) \in Nat /\ SpeedPart(f) \in Nat /\ TrustPart(f) \in Nat /\ LoadPart(f) \in Nat
      /\ PricePart(g) \in Nat /\ SpeedPart(g) \in Nat /\ TrustPart(g) \in Nat /\ LoadPart(g) \in Nat
  BY PricePartType, SpeedPartType, TrustPartType, LoadPartType
<1>2. \A h : Soft(Weights[p], h) = Weights[p].price * PricePart(h) + Weights[p].speed * SpeedPart(h)
                            + Weights[p].trust * TrustPart(h) + Weights[p].load * LoadPart(h)
  BY DEF Soft, PricePart, SpeedPart, TrustPart, LoadPart
<1>3. /\ PricePart(f) >= PricePart(g) /\ (f.price < g.price => PricePart(f) > PricePart(g))
      /\ SpeedPart(f) >= SpeedPart(g) /\ (f.speed > g.speed => SpeedPart(f) > SpeedPart(g))
      /\ TrustPart(f) >= TrustPart(g) /\ (f.level > g.level => TrustPart(f) > TrustPart(g))
      /\ LoadPart(f) >= LoadPart(g)
      /\ (Free(f) * g.total > Free(g) * f.total => LoadPart(f) > LoadPart(g))
  BY PriceGrows, SpeedGrows, TrustGrows, LoadGrows DEF AtLeastAsGood
<1> DEFINE a(h) == Weights[p].price * PricePart(h)
           b(h) == Weights[p].speed * SpeedPart(h)
           c(h) == Weights[p].trust * TrustPart(h)
           d(h) == Weights[p].load * LoadPart(h)
<1>4. /\ a(f) \in Nat /\ a(g) \in Nat /\ a(f) >= a(g) /\ (f.price < g.price => a(f) > a(g))
  BY <1>1, <1>3, WeightsType, SumGrows
<1>5. /\ b(f) \in Nat /\ b(g) \in Nat /\ b(f) >= b(g) /\ (f.speed > g.speed => b(f) > b(g))
  BY <1>1, <1>3, WeightsType, SumGrows
<1>6. /\ c(f) \in Nat /\ c(g) \in Nat /\ c(f) >= c(g) /\ (f.level > g.level => c(f) > c(g))
  BY <1>1, <1>3, WeightsType, SumGrows
<1>7. /\ d(f) \in Nat /\ d(g) \in Nat /\ d(f) >= d(g)
      /\ (Free(f) * g.total > Free(g) * f.total => d(f) > d(g))
  BY <1>1, <1>3, WeightsType, SumGrows
<1>8. /\ Soft(Weights[p], f) = a(f) + b(f) + c(f) + d(f)
      /\ Soft(Weights[p], g) = a(g) + b(g) + c(g) + d(g)
  BY <1>2
<1> DEFINE more == Free(f) * g.total > Free(g) * f.total
<1> HIDE DEF a, b, c, d, more
<1>9. more => d(f) > d(g)
  BY <1>7 DEF more
<1>10. QED
  BY <1>4, <1>5, <1>6, <1>7, <1>8, <1>9 DEF more

(* Of two eligible offers the better one scores higher, unless the session   *)
(* of the order is with the other.                                           *)
LEMMA ScoreGrows ==
  ASSUME NEW f, IsOffer(f), NEW g, IsOffer(g), NEW o, o.preference \in Preferences,
         NEW u \in Nat \ {0}, Eligible(o, f), Eligible(o, g), AtLeastAsGood(f, g), ~ AtLeastAsGood(g, f),
         o.affinity # g.provider
  PROVE  Score(o, f, u) > Score(o, g, u)
<1> DEFINE a == Soft(Weights[o.preference], f)
           b == u + f.reputation
           c == IF o.affinity = f.provider THEN 12 ELSE 10
           i == Soft(Weights[o.preference], g)
           j == u + g.reputation
<1>1. Score(o, f, u) = a * b * c /\ Score(o, g, u) = i * j * 10
  BY DEF Score
<1>2. /\ a \in Nat \ {0} /\ i \in Nat \ {0} /\ b \in Nat \ {0} /\ j \in Nat \ {0}
      /\ c \in Nat /\ c >= 10
  BY SoftType DEF IsOffer
<1>3. a >= i /\ b >= j /\ (a > i \/ b > j)
  <2>1. a >= i /\ b >= j
    BY SoftGrows DEF AtLeastAsGood, IsOffer
  <2>2. CASE f.reputation > g.reputation
    BY <2>1, <2>2 DEF IsOffer
  <2>3. CASE ~ (f.reputation > g.reputation)
    <3>1. g.reputation >= f.reputation
      BY <2>3 DEF IsOffer
    <3>2. \/ f.price < g.price \/ f.speed > g.speed \/ f.level > g.level
          \/ Free(f) * g.total > Free(g) * f.total
      <4>1. ~ (g.price <= f.price /\ g.speed >= f.speed /\ g.level >= f.level
               /\ Free(g) * f.total >= Free(f) * g.total)
        BY <3>1 DEF AtLeastAsGood
      <4> DEFINE m == Free(f) * g.total
                 n == Free(g) * f.total
      <4>2. m \in Nat /\ n \in Nat
        BY FreeType DEF IsOffer
      <4> HIDE DEF m, n
      <4>3. ~ (n >= m) => m > n
        BY <4>2
      <4>4. QED
        BY <4>1, <4>3 DEF IsOffer, m, n
    <3>3. a > i
      BY <3>2, SoftGrows
    <3>4. QED
      BY <2>1, <3>3
  <2>4. QED
    BY <2>2, <2>3
<1> HIDE DEF a, b, c, i, j
<1>4. i * j < a * b
  BY <1>2, <1>3, ProductGrowsStrictly
<1> DEFINE x == i * j
           y == a * b
<1>5. x \in Nat /\ y \in Nat /\ x < y
  BY <1>2, <1>4
<1> HIDE DEF x, y
<1>6. x * 10 < y * c
  BY <1>2, <1>5, ProductGrowsStrictly
<1>7. QED
  BY <1>1, <1>6 DEF x, y

-----------------------------------------------------------------------------
(* Routing                                                                  *)

(* An average stays within the scale, and moves by a fifth.                  *)
LEMMA AveragedType ==
  ASSUME NEW ema \in 0..Scale
  PROVE  /\ Averaged(ema, 0) \in 0..Scale /\ 5 * Averaged(ema, 0) <= 4 * ema
         /\ Averaged(ema, Scale) \in 0..Scale
         /\ 5 * (Scale - Averaged(ema, Scale)) <= 4 * (Scale - ema) + 4
<1>1. Scale \in Nat
  BY RoutingAssumption
<1>2. QED
  BY <1>1 DEF Averaged

(* What the streaks show is kept by one more outcome.                        *)
LEMMA RecordedType ==
  ASSUME NEW rep \in Reputations, NEW kind \in OutcomeKinds
  PROVE  /\ Recorded(rep, kind) \in Reputations
         /\ Recorded(rep, kind).recent = Append(rep.recent, kind)
         /\ Recorded(rep, kind).rate = Averaged(rep.rate, IF kind \in Successes THEN Scale ELSE 0)
<1>1. rep.rate \in 0..Scale /\ rep.latency \in 0..Scale /\ rep.recent \in Seq(OutcomeKinds)
  BY DEF Reputations
<1> DEFINE a == Averaged(rep.rate, IF kind \in Successes THEN Scale ELSE 0)
           b == CASE kind = "fast" -> Averaged(rep.latency, Scale)
                  [] kind \in {"slow", "timeout"} -> Averaged(rep.latency, 0)
                  [] OTHER -> rep.latency
           c == Append(rep.recent, kind)
<1>2. a \in 0..Scale
  BY <1>1, AveragedType
<1>3. b \in 0..Scale
  <2>1. Averaged(rep.latency, Scale) \in 0..Scale /\ Averaged(rep.latency, 0) \in 0..Scale
    BY <1>1, AveragedType
  <2>2. QED
    BY <1>1, <2>1
<1>4. c \in Seq(OutcomeKinds)
  BY <1>1, AppendProperties
<1>5. Recorded(rep, kind) = [rate |-> a, latency |-> b, recent |-> c]
  BY DEF Recorded
<1> HIDE DEF a, b, c
<1>6. QED
  BY <1>2, <1>3, <1>4, <1>5 DEF Reputations, a, c

LEMMA StreakBefore ==
  ASSUME NEW recent \in Seq(OutcomeKinds), NEW kind, NEW k \in Nat, NEW kinds,
         Streak(Append(recent, kind), k + 1, kinds), kind \in OutcomeKinds
  PROVE  kind \in kinds /\ Streak(recent, k, kinds)
<1> DEFINE n == Len(recent)
           more == Append(recent, kind)
<1>1. n \in Nat /\ Len(more) = n + 1 /\ more[n + 1] = kind /\ \A i \in 1..n : more[i] = recent[i]
  BY AppendProperties
<1>2. k + 1 <= n + 1 /\ \A i \in ((n + 1) - (k + 1) + 1)..(n + 1) : more[i] \in kinds
  BY <1>1 DEF Streak
<1> HIDE DEF n, more
<1>3. kind \in kinds
  <2>1. n + 1 \in ((n + 1) - (k + 1) + 1)..(n + 1)
    BY <1>1, <1>2
  <2>2. QED
    BY <1>1, <1>2, <2>1
<1>4. ASSUME NEW i \in (n - k + 1)..n PROVE recent[i] \in kinds
  <2>1. i \in 1..n /\ i \in ((n + 1) - (k + 1) + 1)..(n + 1)
    BY <1>1, <1>2
  <2>2. QED
    BY <1>1, <1>2, <2>1
<1>5. QED
  BY <1>1, <1>2, <1>3, <1>4 DEF Streak, n

LEMMA RecordedStep ==
  ASSUME NEW rep \in Reputations, StreaksShow(rep), NEW kind \in OutcomeKinds
  PROVE  StreaksShow(Recorded(rep, kind))
<1> DEFINE new == Recorded(rep, kind)
           good == kind \in Successes
           x == rep.rate
           y == new.rate
           failing(r, k) == Streak(r, k, OutcomeKinds \ Successes)
           passing(r, k) == Streak(r, k, Successes)
           f(k) == failing(rep.recent, k)
           p(k) == passing(rep.recent, k)
           g(k) == failing(new.recent, k)
           q(k) == passing(new.recent, k)
<1>1. x \in 0..Scale /\ y \in 0..Scale /\ rep.recent \in Seq(OutcomeKinds)
  BY RecordedType DEF Reputations
<1>2. \A k \in Nat : /\ g(k + 1) => ~ good /\ f(k)
                     /\ q(k + 1) => good /\ p(k)
  <2> SUFFICES ASSUME NEW k \in Nat
               PROVE  (g(k + 1) => ~ good /\ f(k)) /\ (q(k + 1) => good /\ p(k))
    OBVIOUS
  <2>1. new.recent = Append(rep.recent, kind)
    BY RecordedType
  <2>2. ASSUME NEW kinds, Streak(new.recent, k + 1, kinds)
        PROVE  kind \in kinds /\ Streak(rep.recent, k, kinds)
    <3> HIDE DEF new
    <3>1. Streak(Append(rep.recent, kind), k + 1, kinds)
      BY <2>1, <2>2
    <3>2. QED
      BY <1>1, <3>1, StreakBefore
  <2> HIDE DEF new
  <2>3. QED
    BY <2>2
<1>3. /\ g(1) => ~ good
      /\ g(2) => ~ good /\ f(1)
      /\ g(3) => ~ good /\ f(2)
      /\ g(4) => ~ good /\ f(3)
      /\ q(1) => good
      /\ q(2) => good /\ p(1)
      /\ q(3) => good /\ p(2)
      /\ q(4) => good /\ p(3)
  <2> HIDE DEF f, g, p, q, good
  <2>1. g(0 + 1) => ~ good
    BY <1>2
  <2>2. q(0 + 1) => good
    BY <1>2
  <2>3. (g(1 + 1) => ~ good /\ f(1)) /\ (q(1 + 1) => good /\ p(1))
    BY <1>2
  <2>4. (g(2 + 1) => ~ good /\ f(2)) /\ (q(2 + 1) => good /\ p(2))
    BY <1>2
  <2>5. (g(3 + 1) => ~ good /\ f(3)) /\ (q(3 + 1) => good /\ p(3))
    BY <1>2
  <2>6. 0 + 1 = 1 /\ 1 + 1 = 2 /\ 2 + 1 = 3 /\ 3 + 1 = 4
    OBVIOUS
  <2>7. QED
    BY <2>1, <2>2, <2>3, <2>4, <2>5, <2>6
<1>4. /\ f(1) => 5 * x <= 4 * Scale
      /\ f(2) => 25 * x <= 16 * Scale
      /\ f(3) => 125 * x <= 64 * Scale
      /\ p(1) => 5 * (Scale - x) <= 4 * Scale + 4
      /\ p(2) => 25 * (Scale - x) <= 16 * Scale + 36
      /\ p(3) => 125 * (Scale - x) <= 64 * Scale + 244
  BY DEF StreaksShow
<1>5. IF good THEN 5 * (Scale - y) <= 4 * (Scale - x) + 4 ELSE 5 * y <= 4 * x
  BY <1>1, RecordedType, AveragedType
<1>6. Scale \in Nat
  BY RoutingAssumption
<1> HIDE DEF good, x, y, f, p, g, q
<1>7. /\ g(1) => 5 * y <= 4 * Scale
      /\ g(2) => 25 * y <= 16 * Scale
      /\ g(3) => 125 * y <= 64 * Scale
      /\ g(4) => 625 * y <= 256 * Scale
  BY <1>1, <1>3, <1>4, <1>5, <1>6
<1>8. /\ q(1) => 5 * (Scale - y) <= 4 * Scale + 4
      /\ q(2) => 25 * (Scale - y) <= 16 * Scale + 36
      /\ q(3) => 125 * (Scale - y) <= 64 * Scale + 244
      /\ q(4) => 625 * (Scale - y) <= 256 * Scale + 1476
  BY <1>1, <1>3, <1>4, <1>5, <1>6
<1>9. QED
  BY <1>7, <1>8 DEF StreaksShow, g, q, y

(* The last four outcomes decide.                                            *)
LEMMA StreaksTell ==
  ASSUME RoutingIInv
  PROVE  StreaksDecide
<1> SUFFICES ASSUME NEW c \in Connections, Len(reputation[c].recent) >= 5
    PROVE  LET recent == reputation[c].recent
               last == {recent[i] : i \in (Len(recent) - 3)..Len(recent)}
           IN  /\ last \subseteq Successes => ~IsDegraded(reputation[c])
               /\ last \cap Successes = {} => IsDegraded(reputation[c])
  BY DEF StreaksDecide
<1> DEFINE rep == reputation[c]
           recent == rep.recent
           n == Len(recent)
           last == {recent[i] : i \in (n - 3)..n}
<1>1. /\ rep.rate \in 0..Scale /\ recent \in Seq(OutcomeKinds) /\ n \in Nat /\ n >= 5
      /\ StreaksShow(rep) /\ Scale \in Nat /\ Scale >= 30
  <2>1. rep \in Reputations /\ StreaksShow(rep)
    BY DEF RoutingIInv
  <2> HIDE DEF rep
  <2>2. QED
    BY <2>1, RoutingAssumption DEF Reputations, rep
<1>2. (n - 3)..n = (n - 4 + 1)..n
  BY <1>1
<1>3. \A i \in (n - 3)..n : recent[i] \in OutcomeKinds /\ recent[i] \in last
  BY <1>1
<1> HIDE DEF rep, last
<1>4. ASSUME last \subseteq Successes PROVE ~ IsDegraded(rep)
  <2>1. Streak(recent, 4, Successes)
    BY <1>1, <1>2, <1>3, <1>4 DEF Streak
  <2>2. 625 * (Scale - rep.rate) <= 256 * Scale + 1476
    BY <1>1, <2>1 DEF StreaksShow
  <2>3. QED
    BY <1>1, <2>2 DEF IsDegraded
<1>5. ASSUME last \cap Successes = {} PROVE IsDegraded(rep)
  <2>1. Streak(recent, 4, OutcomeKinds \ Successes)
    BY <1>1, <1>2, <1>3, <1>5 DEF Streak
  <2>2. 625 * rep.rate <= 256 * Scale
    BY <1>1, <2>1 DEF StreaksShow
  <2>3. QED
    BY <1>1, <2>2 DEF IsDegraded
<1>6. QED
  BY <1>4, <1>5 DEF rep, last

(* What the hub may choose from.                                             *)
LEMMA OffersType ==
  ASSUME RoutingIInv, NEW way, NEW loads \in [Connections -> Nat], NEW c \in DOMAIN OffersOf(way, loads)
  PROVE  /\ c \in OnlineNow /\ c \in routable /\ c \in Connections
         /\ IsOffer(OffersOf(way, loads)[c]) /\ OffersOf(way, loads)[c].provider = c
         /\ OffersOf(way, loads)[c] =
              OfferOf(c, loads[c], IF way = "fresh" THEN ScoreOf(reputation[c]) ELSE RepUnit)
<1>1. c \in OnlineNow \cap routable /\ c \in Connections
  BY DEF OffersOf, RoutingIInv
<1> DEFINE w == IF way = "fresh" THEN ScoreOf(reputation[c]) ELSE RepUnit
           f == Capabilities[c]
           o == OffersOf(way, loads)[c]
<1>2. w \in Nat
  <2>1. reputation[c].rate \in Nat /\ reputation[c].latency \in Nat /\ Scale \in Nat
    BY <1>1, RoutingAssumption DEF RoutingIInv, Reputations
  <2>2. RepUnit \in Nat
    BY <2>1 DEF RepUnit
  <2>3. RepUnit \div 2 \in Nat
    BY <2>2
  <2>4. ScoreOf(reputation[c]) \in Nat
    BY <2>1, <2>3 DEF ScoreOf
  <2>5. QED
    BY <2>2, <2>4
<1>3. o = OfferOf(c, loads[c], w)
  BY <1>1 DEF OffersOf
<1> HIDE DEF w, o
<1>4. /\ o.provider = c /\ o.price = f.price /\ o.speed = f.speed /\ o.level = f.level
      /\ o.total = f.total /\ o.used = loads[c] /\ o.reputation = w
  BY <1>3 DEF OfferOf
<1>5. /\ f.price \in Nat /\ f.speed \in Nat /\ f.level \in 0..3 /\ f.total \in Nat \ {0}
      /\ IsExact(f)
  BY <1>1, RoutingAssumption
<1>6. IsOffer(o)
  BY <1>1, <1>2, <1>4, <1>5 DEF IsOffer, IsExact
<1>7. QED
  BY <1>1, <1>3, <1>4, <1>6 DEF o, w

(* The choice: the best of what is eligible, or nothing when nothing is.     *)
LEMMA ChoiceStep ==
  ASSUME RoutingIInv, NEW order, order.preference \in Preferences, NEW given,
         DOMAIN given \subseteq OnlineNow, \A c \in DOMAIN given : IsOffer(given[c])
  PROVE  /\ Choice(order, given) \subseteq DOMAIN given
         /\ Choice(order, given) = {} \/ \E c \in Connections : Choice(order, given) = {c}
         /\ \A c \in Choice(order, given) :
              /\ Eligible(order, given[c])
              /\ \A d \in DOMAIN given :
                   Score(order, given[d], RepUnit) <= Score(order, given[c], RepUnit)
         /\ Choice(order, given) = {} => \A c \in DOMAIN given : ~ Eligible(order, given[c])
<1> DEFINE best == Best(order, given)
           n == Len(online)
           places == {i \in DOMAIN online : online[i] \in best}
           rank(c) == Score(order, given[c], RepUnit)
<1>1. /\ online \in Seq(Connections) /\ n \in Nat /\ DOMAIN online = 1..n
      /\ \A i \in 1..n : online[i] \in Connections
      /\ OnlineNow = {online[i] : i \in 1..n}
  <2>1. online \in Seq(Connections)
    BY DEF RoutingIInv
  <2>2. OnlineNow = {online[i] : i \in DOMAIN online}
    BY DEF OnlineNow, ToSet
  <2>3. QED
    BY <2>1, <2>2
<1>2. RepUnit \in Nat \ {0}
  BY RoutingAssumption DEF RepUnit
<1>3. \A c \in DOMAIN given : /\ rank(c) \in Int
                              /\ (rank(c) > 0 => Eligible(order, given[c]))
                              /\ (Eligible(order, given[c]) => rank(c) > 0)
  BY <1>2, ScoreType
<1>4. best = {c \in DOMAIN given : rank(c) > 0 /\ \A d \in DOMAIN given : rank(d) <= rank(c)}
  BY DEF Best
<1> HIDE DEF rank, best
<1>5. Choice(order, given) = IF places = {} THEN {} ELSE {online[Min(places)]}
  BY DEF Choice, FirstOf, best
<1>6. places # {} => Min(places) \in places
  <2>1. places \in SUBSET Nat
    BY <1>1
  <2> HIDE DEF places
  <2>2. QED
    BY <2>1, LeastIsThere
<1>7. Choice(order, given) \subseteq best
  BY <1>5, <1>6
<1>8. ASSUME places = {} PROVE \A c \in DOMAIN given : ~ Eligible(order, given[c])
  <2> SUFFICES ASSUME NEW e \in DOMAIN given, Eligible(order, given[e]) PROVE FALSE
    OBVIOUS
  <2> DEFINE v == [i \in 1..n |-> IF online[i] \in DOMAIN given THEN rank(online[i]) ELSE 0]
             s == {i \in 1..n : online[i] \in DOMAIN given}
  <2>1. v \in [1..n -> Int] /\ s \in SUBSET (1..n)
    BY <1>3
  <2>2. PICK k \in s : online[k] = e
    BY <1>1
  <2>3. PICK i \in s : \A j \in s : v[j] <= v[i]
    <3> HIDE DEF v, s
    <3>1. QED
      BY <1>1, <2>1, <2>2, BestIsThere
  <2>4. \A j \in s : v[j] = rank(online[j])
    OBVIOUS
  <2>5. \A d \in DOMAIN given : rank(d) <= rank(online[i])
    <3> SUFFICES ASSUME NEW d \in DOMAIN given PROVE rank(d) <= rank(online[i])
      OBVIOUS
    <3>1. PICK j \in s : online[j] = d
      BY <1>1
    <3> HIDE DEF v, s
    <3>2. QED
      BY <2>3, <2>4, <3>1
  <2>6. rank(online[i]) > 0
    <3>1. rank(e) > 0 /\ rank(e) <= rank(online[i]) /\ rank(e) \in Int /\ rank(online[i]) \in Int
      BY <1>3, <2>5
    <3>2. QED
      BY <3>1
  <2>7. online[i] \in best /\ i \in DOMAIN online
    BY <1>1, <1>4, <2>5, <2>6
  <2>8. QED
    BY <1>8, <2>7
<1>9. places = {} \/ \E c \in Connections : Choice(order, given) = {c}
  BY <1>1, <1>5, <1>6
<1> HIDE DEF places
<1>10. QED
  BY <1>3, <1>4, <1>5, <1>7, <1>8, <1>9 DEF rank

LEMMA OrderType ==
  ASSUME NEW r \in Requests, NEW session
  PROVE  /\ OrderOf(r, session).preference \in Preferences
         /\ OrderOf(r, session).affinity = AffinityOf(session)
         /\ OrderOf(r, session).model = r.model /\ OrderOf(r, session).floor = r.floor
         /\ OrderOf(r, session).ceiling = r.ceiling
         /\ r.floor \in 0..3 /\ r.ceiling \in Nat
BY RoutingAssumption DEF OrderOf

(* A decision keeps the hard constraints, and its winner is not beaten.      *)
LEMMA DecisionHolds ==
  ASSUME RoutingIInv, NEW way \in {"fresh", "queued", "again"}, NEW r \in Requests, NEW session,
         NEW loads \in [Connections -> Nat], NEW won, NEW answer, NEW given, NEW order,
         given = OffersOf(way, loads), order = OrderOf(r, session), won \subseteq Choice(order, given),
         decision' = Decided(way, r, session, given, won, answer)
  PROVE  /\ decision' # NoDecision /\ Chosen' = won /\ won \subseteq DOMAIN given
         /\ decision'.way = way /\ decision'.session = session
         /\ decision'.offers = given /\ decision'.order = order /\ decision'.answer = answer
         /\ ConstraintsAreHard' /\ WinnerIsUndominated'
         /\ Choice(order, given) = {} => \A c \in DOMAIN given : ~ Eligible(order, given[c])
<1>1. /\ decision'.way = way /\ decision'.session = session /\ decision'.won = won
      /\ decision'.offers = given /\ decision'.order = order /\ decision'.answer = answer
  BY DEF Decided
<1>2. decision' # NoDecision
  <2>1. NoDecision.way = "none"
    BY DEF NoDecision
  <2>2. QED
    BY <1>1, <2>1
<1>3. Chosen' = won
  BY <1>1, <1>2 DEF Chosen
<1>4. /\ DOMAIN given \subseteq OnlineNow
      /\ \A c \in DOMAIN given : IsOffer(given[c]) /\ given[c].provider = c
  BY OffersType
<1>5. order.preference \in Preferences
  BY OrderType
<1>6. /\ Choice(order, given) \subseteq DOMAIN given
      /\ \A c \in Choice(order, given) :
              /\ Eligible(order, given[c])
              /\ \A d \in DOMAIN given :
                   Score(order, given[d], RepUnit) <= Score(order, given[c], RepUnit)
      /\ Choice(order, given) = {} => \A c \in DOMAIN given : ~ Eligible(order, given[c])
  BY <1>4, <1>5, ChoiceStep
<1>7. ConstraintsAreHard'
  <2>1. \A c \in won : Meets(order, given[c]) /\ Free(given[c]) > 0
    BY <1>6 DEF Eligible
  <2>2. QED
    BY <1>1, <1>3, <2>1 DEF ConstraintsAreHard
<1>8. WinnerIsUndominated'
  <2>1. ASSUME NEW c \in won, NEW d \in DOMAIN given,
               Eligible(order, given[d]), AtLeastAsGood(given[d], given[c]),
               ~ AtLeastAsGood(given[c], given[d]), order.affinity # c
        PROVE  FALSE
    <3> DEFINE f == given[d]
               g == given[c]
    <3>1. /\ IsOffer(f) /\ IsOffer(g) /\ g.provider = c /\ Eligible(order, g)
          /\ Score(order, f, RepUnit) <= Score(order, g, RepUnit)
      BY <1>4, <1>6
    <3>2. RepUnit \in Nat \ {0}
      BY RoutingAssumption DEF RepUnit
    <3>3. Eligible(order, f) /\ AtLeastAsGood(f, g) /\ ~ AtLeastAsGood(g, f) /\ order.affinity # g.provider
      BY <2>1, <3>1
    <3> HIDE DEF f, g
    <3>4. Score(order, f, RepUnit) > Score(order, g, RepUnit)
      BY <1>5, <3>1, <3>2, <3>3, ScoreGrows
    <3>5. Score(order, f, RepUnit) \in Int /\ Score(order, g, RepUnit) \in Int
      BY <1>5, <3>1, <3>2, ScoreType
    <3>6. QED
      BY <3>1, <3>4, <3>5
  <2>2. QED
    BY <1>1, <1>2, <1>3, <2>1 DEF WinnerIsUndominated
<1>9. QED
  BY <1>1, <1>2, <1>3, <1>6, <1>7, <1>8

(* What is refused at once could not be served by an idle provider.          *)
LEMMA RefusalHolds ==
  ASSUME RoutingIInv, NEW r \in Requests, NEW session, NEW given, NEW order,
         given = OffersOf("fresh", active), order = OrderOf(r, session),
         \A c \in DOMAIN given : ~ Eligible(order, given[c])
  PROVE  LET could == {c \in DOMAIN given : Meets(order, given[c])}
         IN  CASE Explained(r) = "sent" -> FALSE
               [] Explained(r) = "none" -> could # {} /\ \A c \in could : Free(given[c]) = 0
               [] OTHER -> could = {}
<1> DEFINE could == {c \in DOMAIN given : Meets(order, given[c])}
           there == OnlineNow \cap routable
           serving == {c \in there : Serves(r, Capabilities[c])}
           trusted == {c \in serving : Capabilities[c].level >= r.floor}
           priced == {c \in trusted : Capabilities[c].price <= r.ceiling}
<1>1. DOMAIN given = there
  BY DEF OffersOf
<1>2. ASSUME NEW c \in there
      PROVE  Meets(order, given[c]) <=> c \in priced
  <2>1. /\ given[c] = OfferOf(c, active[c], ScoreOf(reputation[c]))
    BY DEF OffersOf
  <2>2. /\ given[c].models = Capabilities[c].models /\ given[c].price = Capabilities[c].price
        /\ given[c].level = Capabilities[c].level
    BY <2>1 DEF OfferOf
  <2>3. order.model = r.model /\ order.floor = r.floor /\ order.ceiling = r.ceiling
    BY OrderType
  <2>4. QED
    BY <2>2, <2>3 DEF Meets, Serves
<1>3. could = priced
  BY <1>1, <1>2
<1>4. \A c \in could : Free(given[c]) = 0
  <2> SUFFICES ASSUME NEW c \in could PROVE Free(given[c]) = 0
    OBVIOUS
  <2>1. ~ (Free(given[c]) > 0)
    BY DEF Eligible
  <2>2. Free(given[c]) \in Nat
    <3>1. active \in [Connections -> Nat]
      BY DEF RoutingIInv
    <3>2. IsOffer(given[c])
      BY <3>1, OffersType
    <3>3. QED
      BY <3>2, FreeType
  <2>3. QED
    BY <2>1, <2>2
<1>5. Explained(r) = CASE there = {} -> "no_provider_available"
          [] there # {} /\ serving = {} -> "model_not_available"
          [] serving # {} /\ priced = {} -> "no_compatible_provider"
          [] OTHER -> "none"
  BY DEF Explained
<1>6. priced \subseteq serving /\ serving \subseteq there
  OBVIOUS
<1> HIDE DEF could, there, serving, priced
<1>7. CASE priced = {}
  <2>1. Explained(r) \in {"no_provider_available", "model_not_available", "no_compatible_provider"}
    BY <1>5, <1>6, <1>7
  <2>2. QED
    BY <1>3, <1>7, <2>1 DEF could
<1>8. CASE priced # {}
  <2>1. Explained(r) = "none"
    BY <1>5, <1>6, <1>8
  <2>2. QED
    BY <1>3, <1>4, <1>8, <2>1 DEF could
<1>9. QED
  BY <1>7, <1>8

AffinityType(table) ==
  /\ table \in Seq(SessionIds \X Connections) /\ Len(table) <= MaxAffinity
  /\ \A i, j \in DOMAIN table : table[i][1] = table[j][1] => i = j

(* The table of sessions: one more is put in, and the table stays in order.  *)
LEMMA RememberedStep ==
  ASSUME AffinityType(affinity), NEW session \in SessionIds \union {NoSession}, NEW c \in Connections
  PROVE  /\ AffinityType(Remembered(session, c))
         /\ session # NoSession =>
              \E i \in DOMAIN Remembered(session, c) : Remembered(session, c)[i] = <<session, c>>
<1> DEFINE A == SessionIds \X Connections
           new == <<session, c>>
           n == Len(affinity)
           longer == Append(affinity, new)
           changed == [i \in DOMAIN affinity |-> IF affinity[i][1] = session THEN new ELSE affinity[i]]
           isKnown == Remembers(session) # {}
           table == Remembered(session, c)
<1>1. /\ affinity \in Seq(A) /\ n \in Nat /\ n <= MaxAffinity /\ DOMAIN affinity = 1..n
      /\ \A i, j \in 1..n : affinity[i][1] = affinity[j][1] => i = j
      /\ MaxAffinity \in Nat /\ MaxAffinity >= 1
  BY RoutingAssumption DEF AffinityType
<1>2. CASE session = NoSession
  BY <1>2 DEF Remembered
<1>3. CASE session # NoSession /\ isKnown
  <2>1. session \in SessionIds /\ new \in A /\ table = changed
    BY <1>3 DEF Remembered
  <2>2. changed \in Seq(A) /\ Len(changed) = n /\ DOMAIN changed = 1..n
    <3> HIDE DEF A, new
    <3>1. \A i \in 1..n : changed[i] \in A
      BY <1>1, <2>1
    <3>2. changed = [i \in 1..n |-> changed[i]]
      BY <1>1
    <3> HIDE DEF changed
    <3>3. changed \in [1..n -> A]
      BY <3>1, <3>2
    <3>4. QED
      BY <1>1, <3>3
  <2>3. \A i \in 1..n : changed[i][1] = affinity[i][1]
    BY <1>1
  <2>4. PICK k \in 1..n : affinity[k][1] = session
    BY <1>1, <1>3 DEF Remembers
  <2>5. changed[k] = new
    BY <1>1, <2>4
  <2> HIDE DEF changed, new
  <2>6. AffinityType(changed)
    BY <1>1, <2>2, <2>3 DEF AffinityType
  <2>7. QED
    BY <2>1, <2>2, <2>5, <2>6 DEF new
<1>4. CASE session # NoSession /\ ~ isKnown
  <2>1. session \in SessionIds /\ new \in A /\ new[1] = session
    BY <1>4
  <2>2. table = IF Len(longer) > MaxAffinity THEN Tail(longer) ELSE longer
    BY <1>4 DEF Remembered
  <2>3. \A i \in 1..n : affinity[i][1] # session
    BY <1>1, <1>4 DEF Remembers
  <2> HIDE DEF A, new, isKnown, table
  <2>4. /\ longer \in Seq(A) /\ Len(longer) = n + 1 /\ DOMAIN longer = 1..(n + 1)
        /\ longer[n + 1] = new /\ \A i \in 1..n : longer[i] = affinity[i]
    BY <1>1, <2>1, AppendProperties
  <2> HIDE DEF longer
  <2>5. \A i, j \in 1..(n + 1) : longer[i][1] = longer[j][1] => i = j
    <3> SUFFICES ASSUME NEW i \in 1..(n + 1), NEW j \in 1..(n + 1), longer[i][1] = longer[j][1]
                 PROVE  i = j
      OBVIOUS
    <3>1. i \in 1..n /\ j \in 1..n => i = j
      BY <1>1, <2>4
    <3>2. i = n + 1 /\ j \in 1..n => FALSE
      BY <2>1, <2>3, <2>4
    <3>3. j = n + 1 /\ i \in 1..n => FALSE
      BY <2>1, <2>3, <2>4
    <3>4. QED
      BY <1>1, <3>1, <3>2, <3>3
  <2>6. CASE n + 1 <= MaxAffinity
    <3>1. table = longer
      BY <1>1, <2>2, <2>4, <2>6
    <3>2. AffinityType(longer) /\ longer[n + 1] = new /\ n + 1 \in DOMAIN longer
      BY <1>1, <2>4, <2>5, <2>6 DEF AffinityType, A
    <3>3. QED
      BY <3>1, <3>2 DEF table, new
  <2>7. CASE n + 1 > MaxAffinity
    <3> DEFINE rest == Tail(longer)
    <3>1. table = rest
      BY <1>1, <2>2, <2>4, <2>7
    <3>2. longer # <<>>
      BY <1>1, <2>4
    <3>3. /\ rest \in Seq(A) /\ Len(rest) = n /\ DOMAIN rest = 1..n
          /\ \A i \in 1..n : rest[i] = longer[i + 1]
      BY <1>1, <2>4, <3>2, HeadTailProperties
    <3> HIDE DEF rest
    <3>4. \A i, j \in 1..n : rest[i][1] = rest[j][1] => i = j
      <4> SUFFICES ASSUME NEW i \in 1..n, NEW j \in 1..n, rest[i][1] = rest[j][1] PROVE i = j
        OBVIOUS
      <4>1. i + 1 \in 1..(n + 1) /\ j + 1 \in 1..(n + 1) /\ longer[i + 1][1] = longer[j + 1][1]
        BY <1>1, <3>3
      <4>2. i + 1 = j + 1
        BY <2>5, <4>1
      <4>3. QED
        BY <4>2
    <3>5. n \in 1..n /\ rest[n] = new
      BY <1>1, <2>4, <2>7, <3>3
    <3>6. AffinityType(rest)
      BY <1>1, <3>3, <3>4 DEF AffinityType, A
    <3>7. QED
      BY <3>1, <3>3, <3>5, <3>6 DEF table, new
  <2>8. QED
    BY <1>1, <2>6, <2>7
<1>5. QED
  BY <1>2, <1>3, <1>4

(* A session in the table has the provider of its entry.                     *)
LEMMA AffinityFound ==
  ASSUME AffinityType(affinity), NEW session, NEW c,
         \E i \in DOMAIN affinity : affinity[i] = <<session, c>>
  PROVE  AffinityOf(session) = c
<1> DEFINE at == Remembers(session)
<1>1. PICK i \in DOMAIN affinity : affinity[i] = <<session, c>>
  OBVIOUS
<1>2. at = {i}
  BY <1>1 DEF Remembers, AffinityType
<1> HIDE DEF at
<1> DEFINE k == CHOOSE j \in at : TRUE
<1>3. at # {} /\ k = i
  BY <1>2
<1>4. AffinityOf(session) = IF at = {} THEN NoSession ELSE affinity[k][2]
  BY DEF AffinityOf, at
<1> HIDE DEF k
<1>5. affinity[k] = <<session, c>>
  BY <1>1, <1>3
<1>6. QED
  BY <1>3, <1>4, <1>5

(* One of a sequence without repetitions is taken out.                       *)
LEMMA RemovedAt ==
  ASSUME NEW A, NEW s \in Seq(A), \A i, j \in DOMAIN s : s[i] = s[j] => i = j, NEW k \in DOMAIN s
  PROVE  /\ RemoveAt(s, k) \in Seq(A)
         /\ \A i, j \in DOMAIN RemoveAt(s, k) : RemoveAt(s, k)[i] = RemoveAt(s, k)[j] => i = j
         /\ ToSet(RemoveAt(s, k)) = ToSet(s) \ {s[k]}
<1> DEFINE n == Len(s)
           t == RemoveAt(s, k)
           a == SubSeq(s, 1, k - 1)
           b == SubSeq(s, k + 1, n)
<1>1. s \in Seq(A) /\ n \in Nat /\ DOMAIN s = 1..n /\ k \in 1..n
  OBVIOUS
<1>2. t = a \o b
  BY DEF RemoveAt
<1>3. a \in Seq(A) /\ Len(a) = k - 1 /\ \A i \in 1..(k - 1) : a[i] = s[i]
  BY <1>1
<1>4. b \in Seq(A) /\ Len(b) = n - k /\ \A i \in 1..(n - k) : b[i] = s[k + i]
  <2>1. \A i \in (k + 1)..n : s[i] \in A
    BY <1>1
  <2>2. /\ b \in Seq(A) /\ Len(b) = IF k + 1 <= n THEN n - (k + 1) + 1 ELSE 0
        /\ \A i \in 1..(n - (k + 1) + 1) : b[i] = s[(k + 1) + i - 1]
    BY <1>1, <2>1, SubSeqProperties
  <2> HIDE DEF b
  <2>3. n - (k + 1) + 1 = n - k /\ \A i \in 1..(n - k) : (k + 1) + i - 1 = k + i
    BY <1>1
  <2>4. QED
    BY <1>1, <2>2, <2>3
<1> HIDE DEF a, b, t
<1>5. /\ t \in Seq(A) /\ Len(t) = n - 1 /\ DOMAIN t = 1..(n - 1)
      /\ \A i \in 1..(n - 1) : t[i] = IF i <= k - 1 THEN a[i] ELSE b[i - (k - 1)]
  <2>1. /\ t \in Seq(A) /\ Len(t) = (k - 1) + (n - k)
        /\ \A i \in 1..((k - 1) + (n - k)) : t[i] = IF i <= k - 1 THEN a[i] ELSE b[i - (k - 1)]
    <3>1. /\ a \o b \in Seq(A) /\ Len(a \o b) = Len(a) + Len(b)
          /\ \A i \in 1..(Len(a) + Len(b)) : (a \o b)[i] = IF i <= Len(a) THEN a[i] ELSE b[i - Len(a)]
      <4>1. a \in Seq(A) /\ b \in Seq(A)
        BY <1>3, <1>4
      <4>2. QED
        BY <4>1, ConcatProperties
    <3>2. QED
      BY <1>2, <1>3, <1>4, <3>1
  <2>2. (k - 1) + (n - k) = n - 1
    BY <1>1
  <2>3. QED
    BY <1>1, <2>1, <2>2
<1> DEFINE at(i) == IF i < k THEN i ELSE i + 1
<1>6. \A i \in 1..(n - 1) : at(i) \in 1..n /\ at(i) # k /\ t[i] = s[at(i)]
  <2> SUFFICES ASSUME NEW i \in 1..(n - 1) PROVE at(i) \in 1..n /\ at(i) # k /\ t[i] = s[at(i)]
    OBVIOUS
  <2>1. CASE i < k
    <3>1. i \in 1..(k - 1)
      BY <1>1, <2>1
    <3>2. QED
      BY <1>1, <1>3, <1>5, <2>1, <3>1
  <2>2. CASE ~ (i < k)
    <3>1. i - (k - 1) \in 1..(n - k) /\ k + (i - (k - 1)) = i + 1
      BY <1>1, <2>2
    <3>2. t[i] = b[i - (k - 1)]
      BY <1>1, <1>5, <2>2
    <3>3. t[i] = s[i + 1]
      BY <1>4, <3>1, <3>2
    <3>4. QED
      BY <1>1, <2>2, <3>3
  <2>3. QED
    BY <2>1, <2>2
<1>7. \A i, j \in 1..(n - 1) : at(i) = at(j) => i = j
  BY <1>1
<1>8. \A j \in 1..n : j # k => \E i \in 1..(n - 1) : at(i) = j
  <2> SUFFICES ASSUME NEW j \in 1..n, j # k PROVE \E i \in 1..(n - 1) : at(i) = j
    OBVIOUS
  <2>1. CASE j < k
    BY <1>1, <2>1
  <2>2. CASE j > k
    <3>1. j - 1 \in 1..(n - 1) /\ at(j - 1) = j
      BY <1>1, <2>2
    <3>2. QED
      BY <3>1
  <2>3. QED
    BY <1>1, <2>1, <2>2
<1> HIDE DEF at
<1>9. ToSet(t) = {t[i] : i \in 1..(n - 1)} /\ ToSet(s) = {s[i] : i \in 1..n}
  BY <1>1, <1>5 DEF ToSet
<1>10. ToSet(t) = ToSet(s) \ {s[k]}
  <2>1. ASSUME NEW i \in 1..(n - 1) PROVE t[i] \in {s[j] : j \in 1..n} /\ t[i] # s[k]
    <3>1. at(i) \in 1..n /\ at(i) # k /\ t[i] = s[at(i)]
      BY <1>6
    <3>2. s[at(i)] # s[k]
      BY <1>1, <3>1
    <3>3. QED
      BY <3>1, <3>2
  <2>2. ASSUME NEW j \in 1..n, s[j] # s[k] PROVE \E i \in 1..(n - 1) : t[i] = s[j]
    <3>1. PICK i \in 1..(n - 1) : at(i) = j
      BY <1>8, <2>2
    <3>2. t[i] = s[j]
      BY <1>6, <3>1
    <3>3. QED
      BY <3>2
  <2>3. ASSUME NEW x PROVE x \in ToSet(t) <=> x \in ToSet(s) \ {s[k]}
    <3>1. CASE x \in ToSet(t)
      <4>1. PICK i \in 1..(n - 1) : x = t[i]
        BY <1>9, <3>1
      <4>2. x \in {s[j] : j \in 1..n} /\ x # s[k]
        BY <2>1, <4>1
      <4>3. QED
        BY <1>9, <3>1, <4>2
    <3>2. CASE x \in ToSet(s) \ {s[k]}
      <4>1. PICK j \in 1..n : x = s[j]
        BY <1>9, <3>2
      <4>2. s[j] # s[k]
        BY <3>2, <4>1
      <4>3. PICK i \in 1..(n - 1) : t[i] = s[j]
        BY <2>2, <4>2
      <4>4. x = t[i]
        BY <4>1, <4>3
      <4>5. x \in ToSet(t)
        BY <1>9, <4>4
      <4>6. QED
        BY <3>2, <4>5
    <3>3. QED
      BY <3>1, <3>2
  <2>4. QED
    BY <2>3
<1>11. \A i, j \in 1..(n - 1) : t[i] = t[j] => i = j
  <2> SUFFICES ASSUME NEW i \in 1..(n - 1), NEW j \in 1..(n - 1), t[i] = t[j] PROVE i = j
    OBVIOUS
  <2>1. at(i) \in 1..n /\ at(j) \in 1..n /\ s[at(i)] = s[at(j)]
    BY <1>6
  <2>2. at(i) = at(j)
    BY <1>1, <2>1
  <2>3. QED
    BY <1>7, <2>2
<1>12. QED
  BY <1>5, <1>10, <1>11 DEF t

(* Nothing is decided in a step that only changes what is known.             *)
LEMMA Undecided ==
  ASSUME RoutingIInv, decision' = NoDecision, affinity' = affinity
  PROVE  Decisions' /\ SessionIsRemembered' /\ affinity' \in Seq(SessionIds \X Connections)
<1>1. Chosen' = {}
  BY DEF Chosen
<1>2. ConstraintsAreHard' /\ WinnerIsUndominated'
  BY <1>1 DEF ConstraintsAreHard, WinnerIsUndominated
<1>3. RefusalIsRight'
  BY DEF RefusalIsRight
<1>4. SessionIsRemembered'
  BY <1>1 DEF RoutingIInv, SessionIsRemembered
<1>5. QED
  BY <1>2, <1>3, <1>4 DEF Decisions, RoutingIInv

LEMMA CountsType ==
  ASSUME NEW counts \in [Connections -> Nat], NEW won, NEW c \in Connections
  PROVE  More(counts, won) \in [Connections -> Nat] /\ Less(counts, c) \in [Connections -> Nat]
<1>1. \A d \in Connections : counts[d] \in Nat
  OBVIOUS
<1>2. More(counts, won) \in [Connections -> Nat]
  BY <1>1 DEF More
<1>3. Less(counts, c) \in [Connections -> Nat]
  <2>1. (IF counts[c] > 0 THEN counts[c] - 1 ELSE 0) \in Nat
    BY <1>1
  <2>2. QED
    BY <2>1 DEF Less
<1>4. QED
  BY <1>2, <1>3

LEMMA SendingType ==
  ASSUME RoutingIInv, NEW c, sent[c] > SendingTo(c), c \in Connections
  PROVE  sent[c] - 1 \in Nat
<1>1. SendingTo(c) \in Nat
  <2> DEFINE s == {x \in sending : x[2] = c}
  <2>1. IsFiniteSet(s)
    <3>1. IsFiniteSet(sending) /\ s \in SUBSET sending
      BY DEF RoutingIInv
    <3> HIDE DEF s
    <3>2. QED
      BY <3>1, FS_Subset
  <2> HIDE DEF s
  <2>2. Cardinality(s) \in Nat
    BY <2>1, FS_CardinalityType
  <2>3. QED
    BY <2>2 DEF SendingTo, s
<1>2. sent[c] \in Nat
  BY DEF RoutingIInv
<1>3. QED
  BY <1>1, <1>2

(* The steps of a connection.                                                *)
LEMMA ConnectKeeps ==
  ASSUME RoutingIInv, NEW c \in Connections, Connect(c)
  PROVE  RoutingIInv'
<1>1. Decisions' /\ SessionIsRemembered' /\ affinity' \in Seq(SessionIds \X Connections)
  BY Undecided DEF Connect
<1>2. online \in Seq(Connections) /\ \A i, j \in DOMAIN online : online[i] = online[j] => i = j
  BY DEF RoutingIInv
<1>3. /\ online' \in Seq(Connections) /\ \A i, j \in DOMAIN online' : online'[i] = online'[j] => i = j
      /\ OnlineNow' = OnlineNow \union {c}
  <2> DEFINE n == Len(online)
  <2>1. /\ n \in Nat /\ DOMAIN online = 1..n /\ OnlineNow = {online[i] : i \in 1..n}
    BY <1>2 DEF OnlineNow, ToSet
  <2>2. /\ online' \in Seq(Connections) /\ DOMAIN online' = 1..(n + 1)
        /\ online'[n + 1] = c /\ \A i \in 1..n : online'[i] = online[i]
    <3>1. online' = Append(online, c)
      BY DEF Connect
    <3>2. QED
      BY <1>2, <2>1, <3>1, AppendProperties
  <2>3. OnlineNow' = {online'[i] : i \in 1..(n + 1)}
    BY <2>2 DEF OnlineNow, ToSet
  <2>4. \A i \in 1..n : online[i] # c
    BY <2>1 DEF Connect
  <2> HIDE DEF n
  <2>5. 1..(n + 1) = 1..n \union {n + 1}
    BY <2>1
  <2>6. OnlineNow' = OnlineNow \union {c}
    BY <2>1, <2>2, <2>3, <2>5
  <2>7. QED
    BY <1>2, <2>1, <2>2, <2>4, <2>5, <2>6
<1>4. gone' \subseteq Connections \ OnlineNow'
  BY <1>3 DEF RoutingIInv, Connect
<1>5. routable' \subseteq Connections
  BY DEF RoutingIInv, Connect
<1>6. /\ active' \in [Connections -> Nat] /\ sent' \in [Connections -> Nat]
      /\ woken' \in [Connections -> Nat]
  BY DEF RoutingIInv, Connect
<1>7. /\ sending' \subseteq Requests \X Connections /\ IsFiniteSet(sending')
      /\ reputation' \in [Connections -> Reputations]
      /\ \A d \in Connections : StreaksShow(reputation'[d])
  BY DEF RoutingIInv, Connect
<1>8. QED
  BY <1>1, <1>3, <1>4, <1>5, <1>6, <1>7 DEF RoutingIInv

LEMMA DisconnectKeeps ==
  ASSUME RoutingIInv, NEW c \in Connections, Disconnect(c)
  PROVE  RoutingIInv'
<1>1. Decisions' /\ SessionIsRemembered' /\ affinity' \in Seq(SessionIds \X Connections)
  BY Undecided DEF Disconnect
<1>2. /\ online \in Seq(Connections) /\ \A i, j \in DOMAIN online : online[i] = online[j] => i = j
      /\ OnlineNow = ToSet(online)
  BY DEF RoutingIInv, OnlineNow
<1> DEFINE k == CHOOSE i \in DOMAIN online : online[i] = c
<1>3. k \in DOMAIN online /\ online[k] = c
  <2>1. \E i \in DOMAIN online : online[i] = c
    BY DEF Disconnect, OnlineNow, ToSet
  <2>2. QED
    BY <2>1
<1>4. online' = RemoveAt(online, k)
  BY DEF Disconnect
<1> HIDE DEF k
<1>5. /\ online' \in Seq(Connections) /\ \A i, j \in DOMAIN online' : online'[i] = online'[j] => i = j
      /\ ToSet(online') = ToSet(online) \ {c}
  BY <1>2, <1>3, <1>4, RemovedAt
<1>6. OnlineNow' = OnlineNow \ {c}
  BY <1>2, <1>5 DEF OnlineNow
<1>7. gone' \subseteq Connections \ OnlineNow'
  BY <1>6 DEF RoutingIInv, Disconnect
<1>8. /\ routable' \subseteq Connections
      /\ active' \in [Connections -> Nat] /\ sent' \in [Connections -> Nat]
      /\ woken' \in [Connections -> Nat]
      /\ sending' \subseteq Requests \X Connections /\ IsFiniteSet(sending')
      /\ reputation' \in [Connections -> Reputations]
      /\ \A d \in Connections : StreaksShow(reputation'[d])
  BY DEF RoutingIInv, Disconnect
<1>9. QED
  BY <1>1, <1>5, <1>7, <1>8 DEF RoutingIInv

(* The steps that change no more than counts.                                *)
LEMMA CountingKeeps ==
  ASSUME RoutingIInv, NEW c \in Connections,
         \/ SetRoutable(c) \/ Heartbeat(c) \/ Release(c) \/ SendQueued(c) \/ SendFails(c)
         \/ \E r \in Requests : SendEnds(r, c)
  PROVE  RoutingIInv'
<1>1. /\ online' = online /\ gone' = gone /\ reputation' = reputation /\ affinity' = affinity
      /\ decision' = NoDecision
  BY DEF SetRoutable, Heartbeat, Release, SendQueued, SendFails, SendEnds
<1>2. Decisions' /\ SessionIsRemembered' /\ affinity' \in Seq(SessionIds \X Connections)
  BY <1>1, Undecided
<1>3. active' \in [Connections -> Nat]
  <2>1. active \in [Connections -> Nat] /\ sent \in [Connections -> Nat]
    BY DEF RoutingIInv
  <2>2. Less(active, c) \in [Connections -> Nat] /\ active[c] \in Nat /\ sent[c] \in Nat
    BY <2>1, CountsType
  <2>3. CASE active' = active
    BY <2>1, <2>3
  <2>4. CASE Heartbeat(c)
    BY <2>1, <2>2, <2>4 DEF Heartbeat
  <2>5. CASE Release(c)
    BY <2>1, <2>2, <2>5 DEF Release
  <2>6. CASE SendFails(c)
    BY <2>2, <2>6 DEF SendFails
  <2>7. CASE SendQueued(c)
    <3>1. More(active, {c}) \in [Connections -> Nat]
      BY <2>1, CountsType
    <3>2. QED
      BY <2>1, <2>7, <3>1 DEF SendQueued
  <2>8. QED
    BY <2>3, <2>4, <2>5, <2>6, <2>7 DEF SetRoutable, SendEnds
<1>4. sent' \in [Connections -> Nat]
  <2>1. /\ sent \in [Connections -> Nat] /\ Less(sent, c) \in [Connections -> Nat]
        /\ More(sent, {c}) \in [Connections -> Nat]
    BY CountsType DEF RoutingIInv
  <2>2. sent' = sent \/ sent' = Less(sent, c) \/ sent' = More(sent, {c})
    BY DEF SetRoutable, Heartbeat, Release, SendQueued, SendFails, SendEnds
  <2>3. QED
    BY <2>1, <2>2
<1>5. routable' \subseteq Connections
  BY DEF RoutingIInv, SetRoutable, Heartbeat, Release, SendQueued, SendFails, SendEnds
<1>6. sending' \subseteq sending
  BY DEF SetRoutable, Heartbeat, Release, SendQueued, SendFails, SendEnds
<1>7. sending' \subseteq Requests \X Connections /\ IsFiniteSet(sending')
  BY <1>6, FS_Subset DEF RoutingIInv
<1>8. /\ online' \in Seq(Connections) /\ \A i, j \in DOMAIN online' : online'[i] = online'[j] => i = j
      /\ gone' \subseteq Connections \ OnlineNow'
      /\ reputation' \in [Connections -> Reputations]
      /\ \A d \in Connections : StreaksShow(reputation'[d])
  BY <1>1 DEF RoutingIInv, OnlineNow
<1>9. woken' \in [Connections -> Nat]
  <2>1. woken \in [Connections -> Nat]
    BY DEF RoutingIInv
  <2>2. CASE woken' = woken
    BY <2>1, <2>2
  <2>3. CASE SendQueued(c)
    BY <2>1, <2>3 DEF SendQueued
  <2>4. QED
    BY <2>2, <2>3 DEF SetRoutable, Heartbeat, Release, SendFails, SendEnds
<1>10. QED
  BY <1>2, <1>3, <1>4, <1>5, <1>7, <1>8, <1>9 DEF RoutingIInv

LEMMA RecordKeeps ==
  ASSUME RoutingIInv, NEW c \in Connections, NEW kind \in OutcomeKinds, Record(c, kind)
  PROVE  RoutingIInv'
<1>1. Decisions' /\ SessionIsRemembered' /\ affinity' \in Seq(SessionIds \X Connections)
  BY Undecided DEF Record
<1> DEFINE new == Recorded(reputation[c], kind)
<1>2. reputation \in [Connections -> Reputations] /\ \A d \in Connections : StreaksShow(reputation[d])
  BY DEF RoutingIInv
<1>3. new \in Reputations /\ StreaksShow(new)
  <2>1. reputation[c] \in Reputations /\ StreaksShow(reputation[c])
    BY <1>2
  <2>2. QED
    BY <2>1, RecordedType, RecordedStep
<1>4. reputation' = [reputation EXCEPT ![c] = new]
  BY DEF Record
<1> HIDE DEF new
<1>5. reputation' \in [Connections -> Reputations]
  BY <1>2, <1>3, <1>4
<1>6. \A d \in Connections : StreaksShow(reputation'[d])
  <2> SUFFICES ASSUME NEW d \in Connections PROVE StreaksShow(reputation'[d])
    OBVIOUS
  <2>1. reputation'[d] = IF d = c THEN new ELSE reputation[d]
    BY <1>2, <1>4
  <2>2. QED
    BY <1>2, <1>3, <2>1
<1>7. sent' \in [Connections -> Nat]
  <2>1. sent[c] - 1 \in Nat
    BY SendingType DEF Record
  <2>2. sent \in [Connections -> Nat] /\ sent' = [sent EXCEPT ![c] = sent[c] - 1]
    BY DEF RoutingIInv, Record
  <2>3. QED
    BY <2>1, <2>2
<1>8. /\ online' \in Seq(Connections) /\ \A i, j \in DOMAIN online' : online'[i] = online'[j] => i = j
      /\ gone' \subseteq Connections \ OnlineNow' /\ routable' \subseteq Connections
      /\ active' \in [Connections -> Nat] /\ woken' \in [Connections -> Nat]
      /\ sending' \subseteq Requests \X Connections /\ IsFiniteSet(sending')
  BY DEF RoutingIInv, Record, OnlineNow
<1>9. QED
  BY <1>1, <1>5, <1>6, <1>7, <1>8 DEF RoutingIInv

(* What the three ways to choose have in common.                             *)
Decides(way, r, session, loads, given, order, won, answer) ==
  /\ given = OffersOf(way, loads) /\ order = OrderOf(r, session) /\ won \subseteq Choice(order, given)
  /\ decision' = Decided(way, r, session, given, won, answer)
  /\ way = "fresh" => /\ loads = active /\ won = Choice(order, given)
                      /\ won # {} => answer = "sent"
                      /\ won = {} => answer = Explained(r)
  /\ affinity' = IF won = {} THEN affinity ELSE Remembered(session, CHOOSE c \in won : TRUE)

AtMostOne(won) == won = {} \/ \E c \in Connections : won = {c}

LEMMA DecidingKeeps ==
  ASSUME RoutingIInv, NEW way \in {"fresh", "queued", "again"}, NEW r \in Requests,
         NEW session \in SessionIds \union {NoSession}, NEW loads \in [Connections -> Nat],
         NEW won, NEW answer, NEW given, NEW order,
         Decides(way, r, session, loads, given, order, won, answer)
  PROVE  /\ Decisions' /\ SessionIsRemembered' /\ affinity' \in Seq(SessionIds \X Connections)
         /\ AtMostOne(won)
<1>0. /\ given = OffersOf(way, loads) /\ order = OrderOf(r, session) /\ won \subseteq Choice(order, given)
      /\ decision' = Decided(way, r, session, given, won, answer)
      /\ way = "fresh" => /\ loads = active /\ won = Choice(order, given)
                          /\ won # {} => answer = "sent"
                          /\ won = {} => answer = Explained(r)
      /\ affinity' = IF won = {} THEN affinity ELSE Remembered(session, CHOOSE c \in won : TRUE)
  BY DEF Decides
<1>1. /\ decision' # NoDecision /\ Chosen' = won /\ won \subseteq DOMAIN given
      /\ decision'.way = way /\ decision'.session = session
      /\ decision'.offers = given /\ decision'.order = order /\ decision'.answer = answer
      /\ ConstraintsAreHard' /\ WinnerIsUndominated'
      /\ Choice(order, given) = {} => \A c \in DOMAIN given : ~ Eligible(order, given[c])
  BY <1>0, DecisionHolds
<1>2. won = {} \/ \E c \in Connections : won = {c}
  <2>1. Choice(order, given) = {} \/ \E c \in Connections : Choice(order, given) = {c}
    <3>1. /\ DOMAIN given \subseteq OnlineNow
          /\ \A c \in DOMAIN given : IsOffer(given[c])
      BY <1>0, OffersType
    <3>2. order.preference \in Preferences
      BY <1>0, OrderType
    <3>3. QED
      BY <3>1, <3>2, ChoiceStep
  <2>2. QED
    BY <1>0, <2>1
<1>3. RefusalIsRight'
  <2> DEFINE could == {c \in DOMAIN given : Meets(order, given[c])}
  <2>1. SUFFICES ASSUME way = "fresh"
                 PROVE  CASE answer = "sent" -> could # {}
                          [] answer = "none" -> could # {} /\ \A c \in could : Free(given[c]) = 0
                          [] OTHER -> could = {}
    BY <1>1 DEF RefusalIsRight
  <2>2. CASE won # {}
    <3>1. answer = "sent"
      BY <1>0, <2>1, <2>2
    <3>2. could # {}
      BY <1>1, <2>2 DEF ConstraintsAreHard
    <3> HIDE DEF could
    <3>3. QED
      BY <3>1, <3>2
  <2>3. CASE won = {}
    <3>1. answer = Explained(r) /\ \A c \in DOMAIN given : ~ Eligible(order, given[c])
      BY <1>0, <1>1, <2>1, <2>3
    <3>2. (CASE Explained(r) = "sent" -> FALSE
             [] Explained(r) = "none" -> could # {} /\ \A c \in could : Free(given[c]) = 0
             [] OTHER -> could = {})
      BY <1>0, <2>1, <3>1, RefusalHolds
    <3> HIDE DEF could
    <3>3. QED
      BY <3>1, <3>2
  <2>4. QED
    BY <2>2, <2>3
<1>4. Decisions'
  <2>1. decision'.won = won
    BY <1>0 DEF Decided
  <2>2. QED
    BY <1>1, <1>3, <2>1 DEF Decisions
<1>5. AffinityType(affinity)
  BY DEF RoutingIInv, SessionIsRemembered, AffinityType
<1>6. SessionIsRemembered' /\ affinity' \in Seq(SessionIds \X Connections)
  <2>1. CASE won = {}
    <3>1. affinity' = affinity
      BY <1>0, <2>1
    <3>2. AffinityType(affinity')
      BY <1>5, <3>1
    <3>3. QED
      BY <1>1, <2>1, <3>2 DEF SessionIsRemembered, AffinityType
  <2>2. ASSUME NEW c \in Connections, won = {c}
        PROVE  SessionIsRemembered' /\ affinity' \in Seq(SessionIds \X Connections)
    <3>1. affinity' = Remembered(session, c)
      <4>1. (CHOOSE d \in won : TRUE) = c
        BY <2>2
      <4> DEFINE k == CHOOSE d \in won : TRUE
      <4>2. affinity' = Remembered(session, k)
        BY <1>0, <2>2
      <4> HIDE DEF k
      <4>3. k = c
        BY <4>1 DEF k
      <4>4. QED
        BY <4>2, <4>3
    <3>2. /\ AffinityType(affinity')
          /\ session # NoSession => \E i \in DOMAIN affinity' : affinity'[i] = <<session, c>>
      BY <1>5, <3>1, RememberedStep
    <3>3. session # NoSession => AffinityOf(session)' = c
      <4>1. (AffinityType(affinity) /\ (\E i \in DOMAIN affinity : affinity[i] = <<session, c>>)
              => AffinityOf(session) = c)'
        BY AffinityFound, PTL
      <4>2. AffinityType(affinity)'
        BY <3>2 DEF AffinityType
      <4>3. QED
        BY <3>2, <4>1, <4>2
    <3>4. QED
      BY <1>1, <2>2, <3>2, <3>3 DEF SessionIsRemembered, AffinityType
  <2>3. QED
    BY <1>2, <2>1, <2>2
<1>7. QED
  BY <1>2, <1>4, <1>6 DEF AtMostOne

(* The steps that choose a provider.                                         *)
LEMMA RouteKeeps ==
  ASSUME RoutingIInv, NEW r \in Requests, NEW session \in SessionIds \union {NoSession},
         Route(r, session)
  PROVE  RoutingIInv'
<1> DEFINE given == OffersOf("fresh", active)
           order == OrderOf(r, session)
           won == Choice(order, given)
           answer == IF won # {} THEN "sent" ELSE Explained(r)
<1>1. /\ affinity' = IF won = {} THEN affinity ELSE Remembered(session, CHOOSE c \in won : TRUE)
      /\ decision' = Decided("fresh", r, session, given, won, answer)
      /\ active' = More(active, won) /\ sent' = More(sent, won)
      /\ sending' = sending \union {<<r, c>> : c \in won}
      /\ UNCHANGED <<online, gone, routable, woken, reputation>>
  BY DEF Route
<1>2. active \in [Connections -> Nat] /\ sent \in [Connections -> Nat]
  BY DEF RoutingIInv
<1>3. /\ given = OffersOf("fresh", active) /\ order = OrderOf(r, session) /\ won \subseteq Choice(order, given)
      /\ won = Choice(order, given)
      /\ won # {} => answer = "sent"
      /\ won = {} => answer = Explained(r)
  OBVIOUS
<1> HIDE DEF given, order, won, answer
<1>4. /\ Decisions' /\ SessionIsRemembered' /\ affinity' \in Seq(SessionIds \X Connections)
      /\ won = {} \/ \E c \in Connections : won = {c}
  <2> DEFINE way == "fresh"
  <2>1. way \in {"fresh", "queued", "again"} /\ Decides(way, r, session, active, given, order, won, answer)
    BY <1>1, <1>3 DEF Decides
  <2> HIDE DEF way
  <2>2. Decisions' /\ SessionIsRemembered' /\ affinity' \in Seq(SessionIds \X Connections)
    BY <1>2, <2>1, DecidingKeeps
  <2>3. AtMostOne(won)
    BY <1>2, <2>1, DecidingKeeps
  <2>4. QED
    BY <2>2, <2>3 DEF AtMostOne
<1>5. active' \in [Connections -> Nat] /\ sent' \in [Connections -> Nat]
  <2>1. More(active, won) \in [Connections -> Nat] /\ More(sent, won) \in [Connections -> Nat]
    BY <1>2 DEF More
  <2>2. QED
    BY <1>1, <2>1
<1>6. sending' \subseteq Requests \X Connections /\ IsFiniteSet(sending')
  <2>1. sending \subseteq Requests \X Connections /\ IsFiniteSet(sending)
    BY DEF RoutingIInv
  <2>2. CASE won = {}
    BY <1>1, <2>1, <2>2
  <2>3. ASSUME NEW c \in Connections, won = {c}
        PROVE  sending' \subseteq Requests \X Connections /\ IsFiniteSet(sending')
    <3>1. sending' = sending \union {<<r, c>>}
      BY <1>1, <2>3
    <3>2. IsFiniteSet(sending \union {<<r, c>>})
      BY <2>1, FS_AddElement
    <3>3. QED
      BY <2>1, <3>1, <3>2
  <2>4. QED
    BY <1>4, <2>2, <2>3
<1>7. /\ online' \in Seq(Connections) /\ \A i, j \in DOMAIN online' : online'[i] = online'[j] => i = j
      /\ gone' \subseteq Connections \ OnlineNow' /\ routable' \subseteq Connections
      /\ woken' \in [Connections -> Nat]
      /\ reputation' \in [Connections -> Reputations]
      /\ \A d \in Connections : StreaksShow(reputation'[d])
  BY <1>1 DEF RoutingIInv, OnlineNow
<1>8. QED
  BY <1>4, <1>5, <1>6, <1>7 DEF RoutingIInv

LEMMA DequeueKeeps ==
  ASSUME RoutingIInv, NEW r \in Requests, NEW session \in SessionIds \union {NoSession},
         Dequeue(r, session)
  PROVE  RoutingIInv'
<1> DEFINE given == OffersOf("queued", active)
           order == OrderOf(r, session)
           won == Choice(order, given)
<1>1. /\ won # {}
      /\ affinity' = Remembered(session, CHOOSE c \in won : TRUE)
      /\ decision' = Decided("queued", r, session, given, won, "given")
      /\ woken' = More(woken, won)
      /\ UNCHANGED <<online, gone, routable, active, sent, sending, reputation>>
  BY DEF Dequeue
<1>2. active \in [Connections -> Nat] /\ woken \in [Connections -> Nat]
  BY DEF RoutingIInv
<1>3. /\ given = OffersOf("queued", active) /\ order = OrderOf(r, session) /\ won \subseteq Choice(order, given)
  OBVIOUS
<1> HIDE DEF given, order, won
<1>4. Decisions' /\ SessionIsRemembered' /\ affinity' \in Seq(SessionIds \X Connections)
  <2> DEFINE way == "queued"
             answer == "given"
  <2>1. way \in {"fresh", "queued", "again"} /\ Decides(way, r, session, active, given, order, won, answer)
    BY <1>1, <1>3 DEF Decides
  <2> HIDE DEF way, answer
  <2>2. QED
    BY <1>2, <2>1, DecidingKeeps
<1>5. woken' \in [Connections -> Nat]
  <2>1. More(woken, won) \in [Connections -> Nat]
    BY <1>2 DEF More
  <2>2. QED
    BY <1>1, <2>1
<1>6. /\ online' \in Seq(Connections) /\ \A i, j \in DOMAIN online' : online'[i] = online'[j] => i = j
      /\ gone' \subseteq Connections \ OnlineNow' /\ routable' \subseteq Connections
      /\ active' \in [Connections -> Nat] /\ sent' \in [Connections -> Nat]
      /\ sending' \subseteq Requests \X Connections /\ IsFiniteSet(sending')
      /\ reputation' \in [Connections -> Reputations]
      /\ \A d \in Connections : StreaksShow(reputation'[d])
  BY <1>1 DEF RoutingIInv, OnlineNow
<1>7. QED
  BY <1>4, <1>5, <1>6 DEF RoutingIInv

LEMMA RetryKeeps ==
  ASSUME RoutingIInv, NEW r \in Requests, NEW c \in Connections, Retry(r, c)
  PROVE  RoutingIInv'
<1> DEFINE loads == Less(active, c)
           given == OffersOf("again", loads)
           order == OrderOf(r, NoSession)
           won == Choice(order, given) \ {c}
           answer == IF won = {} THEN "failed" ELSE "sent"
<1>1. /\ sending' = sending \ {<<r, c>>}
      /\ decision' = Decided("again", r, NoSession, given, won, answer)
      /\ active' = More(loads, won) /\ sent' = More(Less(sent, c), won)
      /\ UNCHANGED <<online, gone, routable, woken, reputation, affinity>>
  BY DEF Retry
<1>2. active \in [Connections -> Nat] /\ sent \in [Connections -> Nat]
  BY DEF RoutingIInv
<1>3. loads \in [Connections -> Nat] /\ Less(sent, c) \in [Connections -> Nat]
  BY <1>2, CountsType
<1>4. /\ given = OffersOf("again", loads) /\ order = OrderOf(r, NoSession) /\ won \subseteq Choice(order, given)
      /\ affinity' = IF won = {} THEN affinity ELSE Remembered(NoSession, CHOOSE d \in won : TRUE)
  BY <1>1 DEF Remembered
<1> HIDE DEF loads, given, order, won, answer
<1>5. Decisions' /\ SessionIsRemembered' /\ affinity' \in Seq(SessionIds \X Connections)
  <2> DEFINE way == "again"
  <2>1. way \in {"fresh", "queued", "again"}
        /\ Decides(way, r, NoSession, loads, given, order, won, answer)
    BY <1>1, <1>4 DEF Decides
  <2> HIDE DEF way
  <2>2. QED
    BY <1>3, <2>1, DecidingKeeps
<1>6. active' \in [Connections -> Nat] /\ sent' \in [Connections -> Nat]
  <2>1. \A counts \in [Connections -> Nat] : More(counts, won) \in [Connections -> Nat]
    BY DEF More
  <2>2. QED
    BY <1>1, <1>3, <2>1
<1>7. sending' \subseteq Requests \X Connections /\ IsFiniteSet(sending')
  BY <1>1, FS_Subset DEF RoutingIInv
<1>8. /\ online' \in Seq(Connections) /\ \A i, j \in DOMAIN online' : online'[i] = online'[j] => i = j
      /\ gone' \subseteq Connections \ OnlineNow' /\ routable' \subseteq Connections
      /\ woken' \in [Connections -> Nat]
      /\ reputation' \in [Connections -> Reputations]
      /\ \A d \in Connections : StreaksShow(reputation'[d])
  BY <1>1 DEF RoutingIInv, OnlineNow
<1>9. QED
  BY <1>5, <1>6, <1>7, <1>8 DEF RoutingIInv

LEMMA RoutingInvariant ==
  RoutingSpec => []RoutingIInv
<1>1. RoutingInit => RoutingIInv
  <2> SUFFICES ASSUME RoutingInit PROVE RoutingIInv
    OBVIOUS
  <2>1. /\ online \in Seq(Connections) /\ \A i, j \in DOMAIN online : online[i] = online[j] => i = j
        /\ gone \subseteq Connections \ OnlineNow /\ routable \subseteq Connections
        /\ active \in [Connections -> Nat] /\ sent \in [Connections -> Nat]
        /\ woken \in [Connections -> Nat]
        /\ sending \subseteq Requests \X Connections
    BY DEF RoutingInit
  <2>2. IsFiniteSet(sending)
    BY FS_EmptySet DEF RoutingInit
  <2>3. NewReputation \in Reputations /\ StreaksShow(NewReputation)
    <3>1. Scale \in Nat /\ Scale \div 2 \in 0..Scale
      BY RoutingAssumption
    <3>2. /\ NewReputation.rate = Scale \div 2 /\ NewReputation.latency = Scale \div 2
          /\ NewReputation.recent = <<>> /\ NewReputation \in Reputations
      BY <3>1 DEF NewReputation, Reputations
    <3>3. Len(NewReputation.recent) = 0
      BY <3>2
    <3>4. \A k \in Nat : \A kinds : Streak(NewReputation.recent, k, kinds) => k = 0
      BY <3>3 DEF Streak
    <3>5. QED
      BY <3>2, <3>4 DEF StreaksShow
  <2>4. reputation \in [Connections -> Reputations] /\ \A c \in Connections : StreaksShow(reputation[c])
    BY <2>3 DEF RoutingInit
  <2>5. affinity \in Seq(SessionIds \X Connections)
    BY DEF RoutingInit
  <2>6. Chosen = {}
    BY DEF Chosen, RoutingInit
  <2>7. Decisions
    BY <2>6 DEF Decisions, ConstraintsAreHard, RefusalIsRight, WinnerIsUndominated, RoutingInit
  <2>8. SessionIsRemembered
    <3>1. MaxAffinity \in Nat /\ Len(affinity) = 0 /\ DOMAIN affinity = {}
      BY RoutingAssumption DEF RoutingInit
    <3>2. QED
      BY <2>6, <3>1 DEF SessionIsRemembered
  <2>9. QED
    BY <2>1, <2>2, <2>4, <2>5, <2>7, <2>8 DEF RoutingIInv
<1>2. RoutingIInv /\ [RoutingNext]_routingVars => RoutingIInv'
  <2> SUFFICES ASSUME RoutingIInv, [RoutingNext]_routingVars PROVE RoutingIInv'
    OBVIOUS
  <2>1. ASSUME NEW c \in Connections, Connect(c) PROVE RoutingIInv'
    BY <2>1, ConnectKeeps
  <2>2. ASSUME NEW c \in Connections, Disconnect(c) PROVE RoutingIInv'
    BY <2>2, DisconnectKeeps
  <2>3. ASSUME NEW c \in Connections,
               SetRoutable(c) \/ Heartbeat(c) \/ Release(c) \/ SendQueued(c) \/ SendFails(c)
        PROVE  RoutingIInv'
    BY <2>3, CountingKeeps
  <2>4. ASSUME NEW c \in Connections, NEW kind \in OutcomeKinds, Record(c, kind) PROVE RoutingIInv'
    BY <2>4, RecordKeeps
  <2>5. ASSUME NEW r \in Requests, NEW s \in SessionIds \union {NoSession}, Route(r, s) PROVE RoutingIInv'
    BY <2>5, RouteKeeps
  <2>6. ASSUME NEW r \in Requests, NEW s \in SessionIds \union {NoSession}, Dequeue(r, s) PROVE RoutingIInv'
    BY <2>6, DequeueKeeps
  <2>7. ASSUME NEW r \in Requests, NEW c \in Connections, SendEnds(r, c) PROVE RoutingIInv'
    BY <2>7, CountingKeeps
  <2>8. ASSUME NEW r \in Requests, NEW c \in Connections, Retry(r, c) PROVE RoutingIInv'
    BY <2>8, RetryKeeps
  <2>9. CASE UNCHANGED routingVars
    <3>1. /\ UNCHANGED <<online, gone, routable, active, sent, sending, woken, reputation>>
          /\ UNCHANGED <<affinity, decision>>
      BY <2>9 DEF routingVars
    <3>2. Decisions' /\ SessionIsRemembered'
      BY <3>1 DEF RoutingIInv, Decisions, ConstraintsAreHard, RefusalIsRight, WinnerIsUndominated,
          SessionIsRemembered, Chosen, AffinityOf, Remembers
    <3>3. gone' \subseteq Connections \ OnlineNow'
      BY <3>1 DEF RoutingIInv, OnlineNow
    <3>4. QED
      BY <3>1, <3>2, <3>3 DEF RoutingIInv
  <2>10. QED
    BY <2>1, <2>2, <2>3, <2>4, <2>5, <2>6, <2>7, <2>8, <2>9 DEF RoutingNext
<1>3. QED
  BY <1>1, <1>2, PTL DEF RoutingSpec

(* A provider that is chosen was allowed and had room, a refusal says why,   *)
(* the winner is not beaten, the session is remembered, and four outcomes in *)
(* a row decide whether a provider is degraded: for every table of           *)
(* capabilities and every history.                                           *)
THEOREM RoutingAlwaysSound == RoutingSpec => []RoutingIsSound
<1>1. RoutingIInv => RoutingIsSound
  <2> SUFFICES ASSUME RoutingIInv PROVE RoutingIsSound
    OBVIOUS
  <2>1. RoutingTypeOK
    <3>1. OnlineNow \subseteq Connections
      <4>1. online \in Seq(Connections) /\ OnlineNow = {online[i] : i \in DOMAIN online}
        BY DEF RoutingIInv, OnlineNow, ToSet
      <4>2. QED
        BY <4>1
    <3>2. \A c \in Connections : /\ reputation[c].rate \in 0..Scale /\ reputation[c].latency \in 0..Scale
                                 /\ reputation[c].recent \in Seq(OutcomeKinds)
      BY DEF RoutingIInv, Reputations
    <3>3. \A i \in DOMAIN affinity : affinity[i] \in SessionIds \X Connections
      BY DEF RoutingIInv
    <3>4. decision = NoDecision \/ decision.won \subseteq DOMAIN decision.offers
      BY DEF RoutingIInv, Decisions
    <3>5. QED
      BY <3>1, <3>2, <3>3, <3>4 DEF RoutingIInv, RoutingTypeOK
  <2>2. StreaksDecide
    BY StreaksTell
  <2>3. QED
    BY <2>1, <2>2 DEF RoutingIInv, Decisions, RoutingIsSound
<1>2. QED
  BY <1>1, RoutingInvariant, PTL

-----------------------------------------------------------------------------
(* Matching                                                                 *)

(* The lists of a round, and the ranks of its offers.                        *)
RoundOK ==
  /\ orders \in Seq(OrderKinds) /\ offers \in Seq(Posts)
  /\ \A j \in DOMAIN offers : \E f \in OfferKinds : offers[j] = Posted(f, j)

LEMMA RoundType ==
  ASSUME RoundOK
  PROVE  /\ Len(orders) \in Nat /\ DOMAIN orders = 1..Len(orders)
         /\ Len(offers) \in Nat /\ DOMAIN offers = 1..Len(offers)
         /\ \A i \in DOMAIN orders : orders[i].preference \in Preferences
                                     /\ orders[i].expired \in BOOLEAN /\ orders[i].at \in Nat
         /\ \A j \in DOMAIN offers : IsOffer(offers[j]) /\ Free(offers[j]) \in Nat
<1>1. /\ Len(orders) \in Nat /\ DOMAIN orders = 1..Len(orders)
      /\ Len(offers) \in Nat /\ DOMAIN offers = 1..Len(offers)
      /\ \A i \in DOMAIN orders : orders[i] \in OrderKinds
  BY DEF RoundOK
<1>2. \A i \in DOMAIN orders : orders[i].preference \in Preferences
                               /\ orders[i].expired \in BOOLEAN /\ orders[i].at \in Nat
  BY <1>1, MatchingAssumption
<1>3. \A j \in DOMAIN offers : IsOffer(offers[j])
  <2> SUFFICES ASSUME NEW j \in DOMAIN offers PROVE IsOffer(offers[j])
    OBVIOUS
  <2>1. PICK f \in OfferKinds : offers[j] = Posted(f, j)
    BY DEF RoundOK
  <2>2. /\ offers[j].price = f.price /\ offers[j].speed = f.speed /\ offers[j].level = f.level
        /\ offers[j].total = f.total /\ offers[j].used = f.used /\ offers[j].reputation = f.reputation
    BY <2>1 DEF Posted
  <2>3. /\ f.price \in Nat /\ f.speed \in Nat /\ f.level \in 0..3 /\ f.total \in Nat \ {0}
        /\ f.used \in Nat /\ f.reputation \in Nat /\ IsExact(f)
    BY MatchingAssumption DEF RepScale
  <2>4. QED
    BY <2>2, <2>3 DEF IsOffer, IsExact
<1>4. \A j \in DOMAIN offers : Free(offers[j]) \in Nat
  BY <1>3, FreeType
<1>5. QED
  BY <1>1, <1>2, <1>3, <1>4

LEMMA RankType ==
  ASSUME RoundOK, NEW i \in DOMAIN orders, NEW j \in DOMAIN offers
  PROVE  Rank(i, j) \in Int /\ (Rank(i, j) > 0 <=> Eligible(orders[i], offers[j]))
<1>1. orders[i].preference \in Preferences /\ IsOffer(offers[j]) /\ RepScale \in Nat \ {0}
  BY RoundType DEF RepScale
<1> DEFINE o == orders[i]
           f == offers[j]
           x == Score(o, f, RepScale)
<1> HIDE DEF o, f
<1>2. x \in Int /\ (Eligible(o, f) => x > 0) /\ (~ Eligible(o, f) => x = -1)
  BY <1>1, ScoreType DEF o, f
<1> HIDE DEF x
<1>3. x > 0 <=> Eligible(o, f)
  BY <1>2
<1>4. QED
  BY <1>2, <1>3 DEF Rank, x, o, f

(* A scan finds the best of the candidates.                                  *)
LEMMA BestOfType ==
  ASSUME RoundOK, NEW i \in DOMAIN orders, NEW candidates \in SUBSET DOMAIN offers, candidates # {}
  PROVE  /\ BestOf(i, candidates) \in candidates
         /\ \A k \in candidates : Rank(i, k) <= Rank(i, BestOf(i, candidates))
<1> DEFINE n == Len(offers)
           v == [j \in 1..n |-> Rank(i, j)]
           First(j) == \A k \in candidates : \/ Rank(i, k) < Rank(i, j)
                                             \/ Rank(i, k) = Rank(i, j) /\ j <= k
           b == BestOf(i, candidates)
<1>1. n \in Nat /\ candidates \in SUBSET (1..n) /\ \A j \in 1..n : Rank(i, j) \in Int
  BY RoundType, RankType
<1>2. v \in [1..n -> Int] /\ \A j \in 1..n : v[j] = Rank(i, j)
  BY <1>1
<1> HIDE DEF v, n
<1>3. PICK m \in candidates : \A j \in candidates : v[j] <= v[m]
  BY <1>1, <1>2, BestIsThere
<1> DEFINE T == {j \in candidates : Rank(i, j) = Rank(i, m)}
<1>4. T \in SUBSET Nat /\ m \in T
  BY <1>1
<1>5. Min(T) \in T /\ \A x \in T : Min(T) <= x
  <2> HIDE DEF T
  <2>1. QED
    BY <1>4, LeastIsThere
<1>6. First(Min(T))
  <2> SUFFICES ASSUME NEW k \in candidates
               PROVE  \/ Rank(i, k) < Rank(i, Min(T))
                      \/ Rank(i, k) = Rank(i, Min(T)) /\ Min(T) <= k
    OBVIOUS
  <2>1. Rank(i, Min(T)) = Rank(i, m) /\ Min(T) \in candidates
    BY <1>5
  <2>2. Rank(i, k) <= Rank(i, m) /\ Rank(i, k) \in Int /\ Rank(i, m) \in Int
    BY <1>1, <1>2, <1>3
  <2>3. Rank(i, k) = Rank(i, m) => Min(T) <= k
    BY <1>5
  <2> HIDE DEF T
  <2>4. QED
    BY <2>1, <2>2, <2>3
<1>7. b \in candidates /\ First(b)
  <2>1. b = CHOOSE j \in candidates : First(j)
    BY DEF BestOf
  <2>2. \E j \in candidates : First(j)
    BY <1>5, <1>6
  <2> HIDE DEF First, b
  <2>3. QED
    BY <2>1, <2>2
<1>8. \A k \in candidates : Rank(i, k) <= Rank(i, b)
  <2> SUFFICES ASSUME NEW k \in candidates PROVE Rank(i, k) <= Rank(i, b)
    OBVIOUS
  <2> HIDE DEF b
  <2>1. Rank(i, k) \in Int /\ Rank(i, b) \in Int
    BY <1>1, <1>7
  <2>2. Rank(i, k) < Rank(i, b) \/ Rank(i, k) = Rank(i, b)
    BY <1>7
  <2>3. QED
    BY <2>1, <2>2
<1>9. QED
  BY <1>7, <1>8

(* The slots of a round are finitely many.                                   *)
LEMMA EligibleSlotsType ==
  ASSUME RoundOK, NEW i
  PROVE  EligibleSlots(i) \in Nat
<1> DEFINE n == Len(offers)
           v == [j \in 1..n |-> Free(offers[j])]
<1>1. n \in Nat /\ DOMAIN offers = 1..n /\ \A j \in 1..n : Free(offers[j]) \in Nat
  BY RoundType
<1>2. v \in [1..n -> Int] /\ \A j \in 1..n : v[j] = Free(offers[j])
  BY <1>1
<1>3. \E m \in Nat : \A j \in 1..n : v[j] <= m
  <2>1. CASE 1..n = {}
    BY <2>1
  <2>2. CASE 1..n # {}
    <3> DEFINE s == 1..n
    <3>1. s \in SUBSET (1..n) /\ s # {}
      BY <2>2
    <3> HIDE DEF s, v, n
    <3>2. PICK k \in s : \A j \in s : v[j] <= v[k]
      BY <1>1, <1>2, <3>1, BestIsThere
    <3>3. v[k] \in Nat
      BY <1>1, <1>2, <3>1
    <3>4. QED
      BY <3>2, <3>3 DEF s
  <2>3. QED
    BY <2>1, <2>2
<1>4. PICK m \in Nat : \A j \in 1..n : Free(offers[j]) <= m
  BY <1>2, <1>3
<1>5. Slots \subseteq (1..n) \X (1..m)
  <2>1. ASSUME NEW j \in 1..n PROVE {j} \X (1..Free(offers[j])) \subseteq (1..n) \X (1..m)
    <3>1. 1..Free(offers[j]) \subseteq 1..m
      BY <1>1, <1>4
    <3>2. QED
      BY <3>1
  <2>2. QED
    BY <1>1, <2>1 DEF Slots
<1>6. IsFiniteSet((1..n) \X (1..m))
  <2>1. IsFiniteSet(1..n) /\ IsFiniteSet(1..m)
    BY <1>1, FS_Interval
  <2>2. QED
    BY <2>1, FS_Product
<1> DEFINE T == {s \in Slots : Rank(i, s[1]) > 0}
<1>7. IsFiniteSet(T)
  <2>1. T \in SUBSET ((1..n) \X (1..m))
    BY <1>5
  <2> HIDE DEF T, n
  <2>2. QED
    BY <1>6, <2>1, FS_Subset
<1> HIDE DEF T
<1>8. Cardinality(T) \in Nat
  BY <1>7, FS_CardinalityType
<1>9. QED
  BY <1>8 DEF EligibleSlots, T

(* The orders can be sorted by every key: one more order finds its place     *)
(* among those that are sorted.                                              *)
Arranged(key, m, s) ==
  /\ s \in [1..m -> 1..m]
  /\ \A i \in 1..m : \E p \in 1..m : s[p] = i
  /\ \A p, q \in 1..m : p < q => Comes(key, s[p], s[q])

LEMMA ComesOrders ==
  ASSUME NEW n \in Nat, NEW key \in [1..n -> Nat]
  PROVE  /\ \A i, j \in 1..n : i # j => Comes(key, i, j) \/ Comes(key, j, i)
         /\ \A i, j, k \in 1..n : Comes(key, i, j) /\ Comes(key, j, k) => Comes(key, i, k)
         /\ \A i \in 1..n : ~ Comes(key, i, i)
<1>1. \A i \in 1..n : key[i] \in Nat
  OBVIOUS
<1>2. \A i, j \in 1..n : i # j => Comes(key, i, j) \/ Comes(key, j, i)
  BY <1>1 DEF Comes
<1>3. ASSUME NEW i \in 1..n, NEW j \in 1..n, NEW k \in 1..n, Comes(key, i, j), Comes(key, j, k)
      PROVE  Comes(key, i, k)
  BY <1>1, <1>3 DEF Comes
<1>4. \A i \in 1..n : ~ Comes(key, i, i)
  BY <1>1 DEF Comes
<1>5. QED
  BY <1>2, <1>3, <1>4

LEMMA OneMoreArranged ==
  ASSUME NEW n \in Nat, NEW key \in [1..n -> Nat], NEW m \in Nat, m + 1 <= n,
         NEW s, Arranged(key, m, s)
  PROVE  \E t : Arranged(key, m + 1, t)
<1> DEFINE e == m + 1
           After == {q \in 1..m : Comes(key, e, s[q])}
           Places == After \union {e}
           k == Min(Places)
           t == [q \in 1..e |-> IF q < k THEN s[q] ELSE IF q = k THEN e ELSE s[q - 1]]
           C(i, j) == Comes(key, i, j)
<1>1. /\ \A i, j \in 1..n : i # j => C(i, j) \/ C(j, i)
      /\ \A i, j, l \in 1..n : C(i, j) /\ C(j, l) => C(i, l)
  BY ComesOrders
<1>2. /\ \A q \in 1..m : s[q] \in 1..m
      /\ \A i \in 1..m : \E p \in 1..m : s[p] = i
      /\ \A p, q \in 1..m : p < q => C(s[p], s[q])
  BY DEF Arranged
<1>3. e \in Nat /\ e = m + 1 /\ e \in 1..n /\ 1..m \subseteq 1..n /\ 1..m \subseteq 1..e
      /\ \A i \in 1..m : i # e
  OBVIOUS
<1>4. /\ k \in 1..e /\ (k # e => C(e, s[k]))
      /\ \A q \in 1..m : C(e, s[q]) => k <= q
  <2>1. Places \in SUBSET Nat /\ Places # {}
    BY <1>3
  <2> HIDE DEF Places
  <2>2. Min(Places) \in Places /\ \A x \in Places : Min(Places) <= x
    BY <2>1, LeastIsThere
  <2>3. QED
    BY <1>3, <2>2 DEF Places
<1> HIDE DEF k, e, C
<1>5. \A q \in 1..m : q < k => C(s[q], e)
  <2> SUFFICES ASSUME NEW q \in 1..m, q < k PROVE C(s[q], e)
    OBVIOUS
  <2>1. ~ C(e, s[q])
    BY <1>3, <1>4
  <2>2. s[q] \in 1..n /\ s[q] # e
    BY <1>2, <1>3
  <2>3. QED
    BY <1>1, <1>3, <2>1, <2>2
<1>6. \A q \in 1..m : q >= k => C(e, s[q])
  <2> SUFFICES ASSUME NEW q \in 1..m, q >= k PROVE C(e, s[q])
    OBVIOUS
  <2>1. k \in 1..m /\ C(e, s[k])
    BY <1>3, <1>4
  <2>2. q = k \/ C(s[k], s[q])
    BY <1>2, <2>1
  <2>3. s[k] \in 1..n /\ s[q] \in 1..n
    BY <1>2, <1>3, <2>1
  <2>4. QED
    BY <1>1, <1>3, <2>1, <2>2, <2>3
<1>7. \A q \in 1..e : /\ q < k => q \in 1..m /\ t[q] = s[q]
                      /\ q = k => t[q] = e
                      /\ q > k => q - 1 \in 1..m /\ q - 1 >= k /\ t[q] = s[q - 1]
  BY <1>3, <1>4
<1>8. t \in [1..e -> 1..e]
  <2>1. \A q \in 1..e : t[q] \in 1..e
    <3> SUFFICES ASSUME NEW q \in 1..e PROVE t[q] \in 1..e
      OBVIOUS
    <3> HIDE DEF t
    <3>1. CASE q < k
      BY <1>2, <1>3, <1>7, <3>1
    <3>2. CASE q = k
      BY <1>3, <1>7, <3>2
    <3>3. CASE q > k
      BY <1>2, <1>3, <1>7, <3>3
    <3>4. QED
      BY <1>3, <1>4, <3>1, <3>2, <3>3
  <2>2. t = [q \in 1..e |-> t[q]]
    OBVIOUS
  <2> HIDE DEF t
  <2>3. QED
    BY <2>1, <2>2
<1> HIDE DEF t
<1>9. \A i \in 1..e : \E p \in 1..e : t[p] = i
  <2> SUFFICES ASSUME NEW i \in 1..e PROVE \E p \in 1..e : t[p] = i
    OBVIOUS
  <2>1. CASE i = e
    BY <1>4, <1>7, <2>1
  <2>2. CASE i \in 1..m
    <3>1. PICK p \in 1..m : s[p] = i
      BY <1>2, <2>2
    <3>2. CASE p < k
      BY <1>3, <1>7, <3>1, <3>2
    <3>3. CASE p >= k
      <4>1. p + 1 \in 1..e /\ p + 1 > k /\ (p + 1) - 1 = p
        BY <1>3, <1>4, <3>3
      <4>2. t[p + 1] = s[(p + 1) - 1]
        BY <1>7, <4>1
      <4>3. QED
        BY <3>1, <4>1, <4>2
    <3>4. QED
      BY <1>4, <3>2, <3>3
  <2>3. QED
    BY <1>3, <2>1, <2>2
<1>10. \A p, q \in 1..e : p < q => C(t[p], t[q])
  <2> SUFFICES ASSUME NEW p \in 1..e, NEW q \in 1..e, p < q PROVE C(t[p], t[q])
    OBVIOUS
  <2>1. CASE q < k
    BY <1>2, <1>4, <1>7, <2>1
  <2>2. CASE q = k
    BY <1>5, <1>4, <1>7, <2>2
  <2>3. CASE q > k /\ p = k
    BY <1>6, <1>4, <1>7, <2>3
  <2>4. CASE q > k /\ p > k
    <3>1. /\ q - 1 \in 1..m /\ p - 1 \in 1..m /\ p - 1 < q - 1
          /\ t[q] = s[q - 1] /\ t[p] = s[p - 1]
      BY <1>4, <1>7, <2>4
    <3>2. QED
      BY <1>2, <3>1
  <2>5. CASE q > k /\ p < k
    <3>1. /\ q - 1 \in 1..m /\ p \in 1..m /\ p < q - 1
          /\ t[q] = s[q - 1] /\ t[p] = s[p]
      BY <1>4, <1>7, <2>5
    <3>2. QED
      BY <1>2, <3>1
  <2>6. QED
    BY <1>4, <2>1, <2>2, <2>3, <2>4, <2>5
<1>11. Arranged(key, e, t)
  BY <1>8, <1>9, <1>10 DEF Arranged, C
<1>12. QED
  BY <1>11 DEF e

LEMMA SortedType ==
  ASSUME RoundOK, NEW key \in [DOMAIN orders -> Nat]
  PROVE  Arranged(key, Len(orders), Sorted(key))
<1> DEFINE n == Len(orders)
           S == {m \in Nat : m <= n => \E s : Arranged(key, m, s)}
<1>1. n \in Nat /\ DOMAIN orders = 1..n
  BY RoundType
<1>2. 0 \in S
  <2>1. 1..0 = {}
    OBVIOUS
  <2>2. [q \in 1..0 |-> q] \in [1..0 -> 1..0]
    OBVIOUS
  <2>3. Arranged(key, 0, [q \in 1..0 |-> q])
    BY <2>1, <2>2 DEF Arranged
  <2>4. QED
    BY <2>3
<1>3. ASSUME NEW m \in Nat, m \in S PROVE m + 1 \in S
  BY <1>1, <1>3, OneMoreArranged
<1>4. n \in S
  <2> HIDE DEF S
  <2>1. QED
    BY <1>1, <1>2, <1>3, SetInduction
<1>5. \E s : Arranged(key, n, s)
  BY <1>1, <1>4
<1> DEFINE Right(s) == /\ \A i \in DOMAIN orders : \E p \in DOMAIN s : s[p] = i
                       /\ \A p, q \in DOMAIN s : p < q => Comes(key, s[p], s[q])
<1>6. \E s \in [DOMAIN orders -> DOMAIN orders] : Right(s)
  BY <1>1, <1>5 DEF Arranged
<1>7. Sorted(key) = CHOOSE s \in [DOMAIN orders -> DOMAIN orders] : Right(s)
  BY DEF Sorted
<1> DEFINE c == Sorted(key)
<1>8. c \in [DOMAIN orders -> DOMAIN orders] /\ Right(c)
  <2> HIDE DEF Right, c
  <2>1. c = CHOOSE s \in [DOMAIN orders -> DOMAIN orders] : Right(s)
    BY <1>7 DEF c
  <2>2. QED
    BY <1>6, <2>1
<1> HIDE DEF c
<1>9. Arranged(key, n, c)
  BY <1>1, <1>8 DEF Arranged
<1>10. QED
  BY <1>9 DEF c

(* What a round has come to after some of its orders.                        *)
Outcomes(how) ==
  [by : {how}, match : [DOMAIN orders -> 0..Len(offers)], reason : [DOMAIN orders -> Reasons \union {"none"}]]
Taken(done, j) == Cardinality({k \in DOMAIN orders : done.match[k] = j})
Open(done, i) == {j \in DOMAIN offers : Taken(done, j) < Free(offers[j]) /\ Rank(i, j) > 0}
Expires(how, i) == how = "greedy" /\ orders[i].expired

(* One order, in either strategy: it fails for a reason, or has the best.    *)
Advances(how, done, i, next) ==
  \/ /\ Expires(how, i) \/ Open(done, i) = {}
     /\ \E r \in Reasons : next = [done EXCEPT !.reason[i] = r]
  \/ Open(done, i) # {} /\ next = [done EXCEPT !.match[i] = BestOf(i, Open(done, i))]

LEMMA AdvancesType ==
  ASSUME RoundOK, NEW how, NEW done \in Outcomes(how), NEW i \in DOMAIN orders, NEW next,
         Advances(how, done, i, next)
  PROVE  next \in Outcomes(how)
<1>1. Len(offers) \in Nat /\ DOMAIN offers = 1..Len(offers)
  BY RoundType
<1>2. /\ done.match \in [DOMAIN orders -> 0..Len(offers)]
      /\ done.reason \in [DOMAIN orders -> Reasons \union {"none"}] /\ done.by = how
      /\ done = [by |-> done.by, match |-> done.match, reason |-> done.reason]
  BY DEF Outcomes
<1>3. CASE \E r \in Reasons : next = [done EXCEPT !.reason[i] = r]
  <2>1. PICK r \in Reasons : next = [done EXCEPT !.reason[i] = r]
    BY <1>3
  <2> DEFINE new == [done.reason EXCEPT ![i] = r]
  <2>2. new \in [DOMAIN orders -> Reasons \union {"none"}]
    BY <1>2
  <2>3. next = [done EXCEPT !.reason = new]
    BY <2>1
  <2> HIDE DEF new
  <2>4. next = [by |-> done.by, match |-> done.match, reason |-> new]
    BY <1>2, <2>3
  <2>5. QED
    BY <1>2, <2>2, <2>4 DEF Outcomes
<1>4. CASE Open(done, i) # {} /\ next = [done EXCEPT !.match[i] = BestOf(i, Open(done, i))]
  <2> DEFINE b == BestOf(i, Open(done, i))
  <2>1. Open(done, i) \in SUBSET DOMAIN offers
    BY DEF Open
  <2>2. b \in 0..Len(offers)
    BY <1>1, <1>4, <2>1, BestOfType
  <2> DEFINE new == [done.match EXCEPT ![i] = b]
  <2> HIDE DEF b
  <2>3. new \in [DOMAIN orders -> 0..Len(offers)]
    BY <1>2, <2>2
  <2>4. next = [done EXCEPT !.match = new]
    BY <1>4 DEF b
  <2> HIDE DEF new
  <2>5. next = [by |-> done.by, match |-> new, reason |-> done.reason]
    BY <1>2, <2>4
  <2>6. QED
    BY <1>2, <2>3, <2>5 DEF Outcomes
<1>5. QED
  BY <1>3, <1>4 DEF Advances

LEMMA GreedyAdvances ==
  ASSUME NEW done, NEW i \in DOMAIN orders
  PROVE  Advances("greedy", done, i, GreedyStep(done, i))
<1> DEFINE open == {j \in DOMAIN offers : Taken(done, j) < Free(offers[j]) /\ Rank(i, j) > 0}
<1>1. open = Open(done, i)
  BY DEF Open
<1>2. GreedyStep(done, i) =
        IF orders[i].expired THEN [done EXCEPT !.reason[i] = "timeout"]
        ELSE IF open = {} THEN [done EXCEPT !.reason[i] = "no_provider"]
        ELSE [done EXCEPT !.match[i] = BestOf(i, open)]
  BY DEF GreedyStep, Taken
<1> HIDE DEF open
<1>3. CASE orders[i].expired
  <2>1. Expires("greedy", i) /\ "timeout" \in Reasons
    BY <1>3 DEF Expires, Reasons
  <2>2. GreedyStep(done, i) = [done EXCEPT !.reason[i] = "timeout"]
    BY <1>2, <1>3
  <2>3. QED
    BY <2>1, <2>2 DEF Advances
<1>4. CASE ~ orders[i].expired /\ open = {}
  <2>1. "no_provider" \in Reasons
    BY DEF Reasons
  <2>2. GreedyStep(done, i) = [done EXCEPT !.reason[i] = "no_provider"]
    BY <1>2, <1>4
  <2>3. QED
    BY <1>1, <1>4, <2>1, <2>2 DEF Advances
<1>5. CASE ~ orders[i].expired /\ open # {}
  BY <1>1, <1>2, <1>5 DEF Advances
<1>6. QED
  BY <1>3, <1>4, <1>5

LEMMA BatchAdvances ==
  ASSUME NEW done, NEW i \in DOMAIN orders
  PROVE  Advances("batch", done, i, BatchStep(done, i))
<1> DEFINE open == {j \in DOMAIN offers : Taken(done, j) < Free(offers[j]) /\ Rank(i, j) > 0}
           r == IF Slots # {} /\ orders[i].expired THEN "timeout"
                ELSE IF offers = <<>> THEN "no_provider" ELSE "no_capacity"
<1>1. open = Open(done, i)
  BY DEF Open
<1>2. BatchStep(done, i) = IF open = {} THEN [done EXCEPT !.reason[i] = r]
                           ELSE [done EXCEPT !.match[i] = BestOf(i, open)]
  BY DEF BatchStep, Taken
<1>3. r \in Reasons
  BY DEF Reasons
<1> HIDE DEF open, r
<1>4. QED
  BY <1>1, <1>2, <1>3 DEF Advances

(* The folds of the two strategies are runs of such steps.                   *)
Runs(how, s, n, run) ==
  /\ run[0] = Started(how)
  /\ \A m \in 0..(n - 1) : Advances(how, run[m], s[m + 1], run[m + 1])

LEMMA StartedType ==
  ASSUME RoundOK, NEW how
  PROVE  Started(how) \in Outcomes(how)
<1>1. [i \in DOMAIN orders |-> 0] \in [DOMAIN orders -> 0..Len(offers)]
  BY RoundType
<1>2. [i \in DOMAIN orders |-> "none"] \in [DOMAIN orders -> Reasons \union {"none"}]
  OBVIOUS
<1>3. QED
  BY <1>1, <1>2 DEF Started, Outcomes

GreedyResult(s) == FoldLeft(GreedyStep, Started("greedy"), s)

LEMMA GreedyRuns ==
  ASSUME RoundOK, NEW n \in Nat, NEW s \in [1..n -> DOMAIN orders]
  PROVE  \E run : Runs("greedy", s, n, run) /\ run[n] = GreedyResult(s)
<1> DEFINE A == Outcomes("greedy")
           base == Started("greedy")
           step == [x \in A \X (1..n) |-> GreedyStep(x[1], s[x[2]])]
           Body(h) == [u \in SUBSET (1..n) |->
                         IF u = {} THEN base ELSE GreedyStep(h[u \ {Max(u)}], s[Max(u)])]
           g == CHOOSE h : h = Body(h)
<1>1. base \in A /\ step \in [A \X (1..n) -> A]
  <2>1. \A done \in A, q \in 1..n : GreedyStep(done, s[q]) \in A
    BY GreedyAdvances, AdvancesType
  <2> HIDE DEF A
  <2>2. \A x \in A \X (1..n) : GreedyStep(x[1], s[x[2]]) \in A
    BY <2>1
  <2>3. base \in A
    BY StartedType DEF A
  <2>4. QED
    BY <2>2, <2>3
<1>2. \E f : f = Body(f)
  <2> HIDE DEF A, base
  <2>1. PICK f : IsFold(A, base, step, n, f)
    <3> HIDE DEF step
    <3>1. QED
      BY <1>1, FoldExists
  <2>2. \A u \in SUBSET (1..n) : u # {} => Max(u) \in 1..n /\ u \ {Max(u)} \in SUBSET (1..n)
    BY Greatest
  <2>3. \A u \in SUBSET (1..n) : u # {} =>
          step[<<f[u \ {Max(u)}], Max(u)>>] = GreedyStep(f[u \ {Max(u)}], s[Max(u)])
    BY <2>1, <2>2 DEF IsFold
  <2> HIDE DEF step
  <2>4. f = Body(f)
    BY <2>1, <2>3 DEF IsFold
  <2>5. QED
    BY <2>4
<1>3. g = Body(g)
  <2> HIDE DEF Body
  <2>1. QED
    BY <1>2
<1>4. GreedyResult(s) = g[1..n]
  BY DEF GreedyResult, FoldLeft, MapThenFoldSet
<1> HIDE DEF g
<1>5. g[1..0] = base
  BY <1>3, OneMore
<1>6. ASSUME NEW m \in 0..(n - 1) PROVE g[1..(m + 1)] = GreedyStep(g[1..m], s[m + 1])
  <2>1. 1..(m + 1) \in SUBSET (1..n) /\ m \in Nat
    OBVIOUS
  <2>2. 1..(m + 1) # {} /\ Max(1..(m + 1)) = m + 1 /\ (1..(m + 1)) \ {m + 1} = 1..m
    BY <2>1, OneMore
  <2> DEFINE all == 1..(m + 1)
  <2> HIDE DEF all, base
  <2>3. g[all] = GreedyStep(g[all \ {Max(all)}], s[Max(all)])
    BY <1>3, <2>1, <2>2 DEF all
  <2>4. QED
    BY <2>2, <2>3 DEF all
<1> DEFINE run == [m \in 0..n |-> g[1..m]]
<1>7. run[0] = base /\ run[n] = g[1..n]
  BY <1>5
<1>8. ASSUME NEW m \in 0..(n - 1) PROVE Advances("greedy", run[m], s[m + 1], run[m + 1])
  <2>1. run[m + 1] = GreedyStep(run[m], s[m + 1]) /\ s[m + 1] \in DOMAIN orders
    BY <1>6
  <2> HIDE DEF run
  <2>2. QED
    BY <2>1, GreedyAdvances
<1> HIDE DEF run, base
<1>9. QED
  BY <1>4, <1>7, <1>8 DEF Runs, base

BatchResult(s) == FoldLeft(BatchStep, Started("batch"), s)

LEMMA BatchRuns ==
  ASSUME RoundOK, NEW n \in Nat, NEW s \in [1..n -> DOMAIN orders]
  PROVE  \E run : Runs("batch", s, n, run) /\ run[n] = BatchResult(s)
<1> DEFINE A == Outcomes("batch")
           base == Started("batch")
           step == [x \in A \X (1..n) |-> BatchStep(x[1], s[x[2]])]
           Body(h) == [u \in SUBSET (1..n) |->
                         IF u = {} THEN base ELSE BatchStep(h[u \ {Max(u)}], s[Max(u)])]
           g == CHOOSE h : h = Body(h)
<1>1. base \in A /\ step \in [A \X (1..n) -> A]
  <2>1. \A done \in A, q \in 1..n : BatchStep(done, s[q]) \in A
    BY BatchAdvances, AdvancesType
  <2> HIDE DEF A
  <2>2. \A x \in A \X (1..n) : BatchStep(x[1], s[x[2]]) \in A
    BY <2>1
  <2>3. base \in A
    BY StartedType DEF A
  <2>4. QED
    BY <2>2, <2>3
<1>2. \E f : f = Body(f)
  <2> HIDE DEF A, base
  <2>1. PICK f : IsFold(A, base, step, n, f)
    <3> HIDE DEF step
    <3>1. QED
      BY <1>1, FoldExists
  <2>2. \A u \in SUBSET (1..n) : u # {} => Max(u) \in 1..n /\ u \ {Max(u)} \in SUBSET (1..n)
    BY Greatest
  <2>3. \A u \in SUBSET (1..n) : u # {} =>
          step[<<f[u \ {Max(u)}], Max(u)>>] = BatchStep(f[u \ {Max(u)}], s[Max(u)])
    BY <2>1, <2>2 DEF IsFold
  <2> HIDE DEF step
  <2>4. f = Body(f)
    BY <2>1, <2>3 DEF IsFold
  <2>5. QED
    BY <2>4
<1>3. g = Body(g)
  <2> HIDE DEF Body
  <2>1. QED
    BY <1>2
<1>4. BatchResult(s) = g[1..n]
  BY DEF BatchResult, FoldLeft, MapThenFoldSet
<1> HIDE DEF g
<1>5. g[1..0] = base
  BY <1>3, OneMore
<1>6. ASSUME NEW m \in 0..(n - 1) PROVE g[1..(m + 1)] = BatchStep(g[1..m], s[m + 1])
  <2>1. 1..(m + 1) \in SUBSET (1..n) /\ m \in Nat
    OBVIOUS
  <2>2. 1..(m + 1) # {} /\ Max(1..(m + 1)) = m + 1 /\ (1..(m + 1)) \ {m + 1} = 1..m
    BY <2>1, OneMore
  <2> DEFINE all == 1..(m + 1)
  <2> HIDE DEF all, base
  <2>3. g[all] = BatchStep(g[all \ {Max(all)}], s[Max(all)])
    BY <1>3, <2>1, <2>2 DEF all
  <2>4. QED
    BY <2>2, <2>3 DEF all
<1> DEFINE run == [m \in 0..n |-> g[1..m]]
<1>7. run[0] = base /\ run[n] = g[1..n]
  BY <1>5
<1>8. ASSUME NEW m \in 0..(n - 1) PROVE Advances("batch", run[m], s[m + 1], run[m + 1])
  <2>1. run[m + 1] = BatchStep(run[m], s[m + 1]) /\ s[m + 1] \in DOMAIN orders
    BY <1>6
  <2> HIDE DEF run
  <2>2. QED
    BY <2>1, BatchAdvances
<1> HIDE DEF run, base
<1>9. QED
  BY <1>4, <1>7, <1>8 DEF Runs, base

(* One more of the slots of an offer is taken.                               *)
LEMMA TakenStep ==
  ASSUME RoundOK, NEW how, NEW done \in Outcomes(how), NEW next \in Outcomes(how),
         NEW i \in DOMAIN orders, NEW b \in DOMAIN offers, NEW j \in DOMAIN offers,
         done.match[i] = 0, next.match = [done.match EXCEPT ![i] = b]
  PROVE  Taken(done, j) \in Nat /\ Taken(next, j) = IF j = b THEN Taken(done, j) + 1 ELSE Taken(done, j)
<1> DEFINE D == DOMAIN orders
           old == {k \in D : done.match[k] = j}
           new == {k \in D : next.match[k] = j}
<1>1. IsFiniteSet(D)
  <2>1. D = 1..Len(orders) /\ Len(orders) \in Nat
    BY RoundType
  <2>2. QED
    BY <2>1, FS_Interval
<1>2. old \in SUBSET D
  OBVIOUS
<1>3. IsFiniteSet(old) /\ Cardinality(old) \in Nat
  <2> HIDE DEF old, D
  <2>1. QED
    BY <1>1, <1>2, FS_Subset, FS_CardinalityType
<1>4. \A k \in D : next.match[k] = IF k = i THEN b ELSE done.match[k]
  BY DEF Outcomes
<1>5. b # 0 /\ j # 0
  BY RoundType
<1>6. CASE j = b
  <2>1. new = old \union {i} /\ i \notin old
    BY <1>4, <1>5, <1>6
  <2> HIDE DEF new, old
  <2>2. Cardinality(new) = Cardinality(old) + 1
    BY <1>3, <2>1, FS_AddElement
  <2>3. QED
    BY <1>3, <1>6, <2>2 DEF Taken, new, old
<1>7. CASE j # b
  <2>1. new = old
    BY <1>4, <1>5, <1>7
  <2> HIDE DEF new, old
  <2>2. QED
    BY <1>3, <1>7, <2>1 DEF Taken, new, old
<1>8. QED
  BY <1>6, <1>7

(* The first m of the sorted orders have what they may expect: none of them  *)
(* would rather have what is left, or what a later one has.                  *)
Content(how, done, i, j) ==
  IF done.match[i] = 0 THEN Expires(how, i) \/ Rank(i, j) <= 0 ELSE Rank(i, j) <= Rank(i, done.match[i])
Answered(done, i) ==
  IF done.match[i] = 0 THEN done.reason[i] \in Reasons
  ELSE done.reason[i] = "none" /\ Rank(i, done.match[i]) > 0

FairSoFar(how, s, n, m, done) ==
  /\ done \in Outcomes(how)
  /\ \A j \in DOMAIN offers : Taken(done, j) <= Free(offers[j])
  /\ \A q \in (m + 1)..n : done.match[s[q]] = 0 /\ done.reason[s[q]] = "none"
  /\ \A p \in 1..m : Answered(done, s[p])
  /\ \A p \in 1..m, j \in DOMAIN offers : Taken(done, j) < Free(offers[j]) => Content(how, done, s[p], j)
  /\ \A p, q \in 1..m : p < q /\ done.match[s[q]] # 0 => Content(how, done, s[p], done.match[s[q]])

LEMMA FairStart ==
  ASSUME RoundOK, NEW how, NEW n \in Nat, NEW s \in [1..n -> DOMAIN orders]
  PROVE  FairSoFar(how, s, n, 0, Started(how))
<1> DEFINE done == Started(how)
<1>1. done \in Outcomes(how)
  BY StartedType
<1>2. \A i \in DOMAIN orders : done.match[i] = 0 /\ done.reason[i] = "none"
  BY DEF Started
<1>3. \A j \in DOMAIN offers : Taken(done, j) = 0 /\ Free(offers[j]) \in Nat
  <2> SUFFICES ASSUME NEW j \in DOMAIN offers PROVE Taken(done, j) = 0 /\ Free(offers[j]) \in Nat
    OBVIOUS
  <2>1. j # 0 /\ Free(offers[j]) \in Nat
    BY RoundType
  <2>2. {k \in DOMAIN orders : done.match[k] = j} = {}
    BY <1>2, <2>1
  <2>3. QED
    BY <2>1, <2>2, FS_EmptySet DEF Taken
<1>4. 1..0 = {}
  OBVIOUS
<1> HIDE DEF done
<1>5. QED
  BY <1>1, <1>2, <1>3, <1>4 DEF FairSoFar, done

LEMMA FairStep ==
  ASSUME RoundOK, NEW how, NEW n \in Nat, NEW s \in [1..n -> DOMAIN orders],
         \A p, q \in 1..n : s[p] = s[q] => p = q,
         NEW m \in Nat, m + 1 <= n, NEW done, NEW next,
         FairSoFar(how, s, n, m, done), Advances(how, done, s[m + 1], next)
  PROVE  FairSoFar(how, s, n, m + 1, next)
<1> DEFINE i == s[m + 1]
           open == Open(done, i)
           D == DOMAIN orders
           F == DOMAIN offers
<1>1. /\ done \in Outcomes(how)
      /\ \A j \in F : Taken(done, j) <= Free(offers[j])
      /\ \A q \in (m + 1)..n : done.match[s[q]] = 0 /\ done.reason[s[q]] = "none"
      /\ \A p \in 1..m : Answered(done, s[p])
      /\ \A p \in 1..m, j \in F : Taken(done, j) < Free(offers[j]) => Content(how, done, s[p], j)
      /\ \A p, q \in 1..m : p < q /\ done.match[s[q]] # 0 => Content(how, done, s[p], done.match[s[q]])
  BY DEF FairSoFar
<1>2. i \in D /\ done.match[i] = 0 /\ done.reason[i] = "none" /\ 1..m \subseteq 1..n
  BY <1>1
<1>3. \A p \in 1..m : s[p] \in D /\ s[p] # i
  OBVIOUS
<1>4. \A q \in ((m + 1) + 1)..n : s[q] \in D /\ s[q] # i /\ q \in (m + 1)..n
  OBVIOUS
<1>5. \A p \in 1..(m + 1) : p \in 1..m \/ p = m + 1
  OBVIOUS
<1>6. next \in Outcomes(how)
  <2> HIDE DEF i
  <2>1. QED
    BY <1>1, <1>2, AdvancesType DEF i
<1>7. \A j \in F : Rank(i, j) \in Int
  <2> HIDE DEF i
  <2>1. QED
    BY <1>2, RankType
<1>8. done.match \in [D -> 0..Len(offers)] /\ done.reason \in [D -> Reasons \union {"none"}]
  BY <1>1 DEF Outcomes
<1>9. \A k \in D : done.match[k] # 0 => done.match[k] \in F
  <2>1. F = 1..Len(offers) /\ Len(offers) \in Nat
    BY RoundType
  <2> HIDE DEF D, F
  <2>2. \A k \in D : done.match[k] \in 0..Len(offers)
    BY <1>8
  <2>3. QED
    BY <2>1, <2>2
<1> HIDE DEF D, F, i, open
<1>10. CASE (Expires(how, i) \/ open = {}) /\ \E r \in Reasons : next = [done EXCEPT !.reason[i] = r]
  <2>1. PICK r \in Reasons : next = [done EXCEPT !.reason[i] = r]
    BY <1>10
  <2>2. /\ next.match = done.match
        /\ \A k \in D : next.reason[k] = IF k = i THEN r ELSE done.reason[k]
    BY <1>1, <1>8, <2>1 DEF Outcomes
  <2>3. \A j : Taken(next, j) = Taken(done, j)
    BY <2>2 DEF Taken
  <2>4. \A k, j : Content(how, next, k, j) <=> Content(how, done, k, j)
    BY <2>2 DEF Content
  <2>5. \A q \in ((m + 1) + 1)..n : next.match[s[q]] = 0 /\ next.reason[s[q]] = "none"
    BY <1>1, <1>4, <2>2
  <2>6. \A p \in 1..m : Answered(next, s[p])
    BY <1>1, <1>3, <2>2 DEF Answered
  <2>7. Answered(next, i)
    BY <1>2, <2>2 DEF Answered
  <2>8. \A p \in 1..(m + 1) : Answered(next, s[p])
    BY <1>5, <2>6, <2>7 DEF i
  <2>9. \A j \in F : Taken(done, j) < Free(offers[j]) => Content(how, done, i, j)
    <3> SUFFICES ASSUME NEW j \in F, Taken(done, j) < Free(offers[j]) PROVE Content(how, done, i, j)
      OBVIOUS
    <3>1. CASE Expires(how, i)
      BY <1>2, <3>1 DEF Content
    <3>2. CASE open = {}
      <4>1. ~ (Rank(i, j) > 0)
        BY <3>2 DEF open, Open, F
      <4>2. QED
        BY <1>2, <1>7, <4>1 DEF Content
    <3>3. QED
      BY <1>10, <3>1, <3>2
  <2>10. \A p \in 1..(m + 1), j \in F : Taken(next, j) < Free(offers[j]) => Content(how, next, s[p], j)
    BY <1>1, <1>5, <2>3, <2>4, <2>9 DEF i
  <2>11. \A p, q \in 1..(m + 1) : p < q /\ next.match[s[q]] # 0 => Content(how, next, s[p], next.match[s[q]])
    <3> SUFFICES ASSUME NEW p \in 1..(m + 1), NEW q \in 1..(m + 1), p < q, next.match[s[q]] # 0
                 PROVE  Content(how, next, s[p], next.match[s[q]])
      OBVIOUS
    <3>1. q # m + 1
      BY <1>2, <2>2 DEF i
    <3>2. p \in 1..m /\ q \in 1..m
      BY <3>1
    <3>3. QED
      BY <1>1, <2>2, <2>4, <3>2
  <2>12. \A j \in F : Taken(next, j) <= Free(offers[j])
    BY <1>1, <2>3
  <2>13. QED
    BY <1>6, <2>5, <2>8, <2>10, <2>11, <2>12 DEF FairSoFar, F
<1>11. CASE open # {} /\ next = [done EXCEPT !.match[i] = BestOf(i, open)]
  <2> DEFINE b == BestOf(i, open)
  <2>1. open \in SUBSET F
    BY DEF open, Open, F
  <2>2. b \in open /\ \A j \in open : Rank(i, j) <= Rank(i, b)
    BY <1>2, <1>11, <2>1, BestOfType DEF D, F
  <2>3. next = [done EXCEPT !.match[i] = b]
    BY <1>11
  <2> HIDE DEF b
  <2>4. b \in F /\ Taken(done, b) < Free(offers[b]) /\ Rank(i, b) > 0 /\ b # 0
    BY <2>1, <2>2, RoundType DEF open, Open, F
  <2>5. /\ next.reason = done.reason /\ next.match = [done.match EXCEPT ![i] = b]
        /\ \A k \in D : next.match[k] = IF k = i THEN b ELSE done.match[k]
    BY <1>1, <1>8, <2>3 DEF Outcomes
  <2>6. \A j \in F : /\ Taken(done, j) \in Nat /\ Free(offers[j]) \in Nat
                     /\ Taken(next, j) = IF j = b THEN Taken(done, j) + 1 ELSE Taken(done, j)
    <3> SUFFICES ASSUME NEW j \in F
                 PROVE  /\ Taken(done, j) \in Nat /\ Free(offers[j]) \in Nat
                        /\ Taken(next, j) = IF j = b THEN Taken(done, j) + 1 ELSE Taken(done, j)
      OBVIOUS
    <3>1. Free(offers[j]) \in Nat
      BY RoundType DEF F
    <3>2. /\ i \in DOMAIN orders /\ b \in DOMAIN offers /\ j \in DOMAIN offers
          /\ done.match[i] = 0 /\ next.match = [done.match EXCEPT ![i] = b]
      BY <1>2, <2>4, <2>5 DEF D, F
    <3>3. Taken(done, j) \in Nat /\ Taken(next, j) = IF j = b THEN Taken(done, j) + 1 ELSE Taken(done, j)
      BY <1>1, <1>6, <3>2, TakenStep
    <3>4. QED
      BY <3>1, <3>3
  <2>7. \A j \in F : Taken(next, j) < Free(offers[j]) => Taken(done, j) < Free(offers[j])
    BY <2>6
  <2>8. \A j \in F : Taken(next, j) <= Free(offers[j])
    BY <1>1, <2>4, <2>6
  <2>9. \A p \in 1..m : \A j : Content(how, next, s[p], j) <=> Content(how, done, s[p], j)
    BY <1>3, <2>5 DEF Content, D
  <2>10. \A q \in ((m + 1) + 1)..n : next.match[s[q]] = 0 /\ next.reason[s[q]] = "none"
    BY <1>1, <1>4, <2>5
  <2>11. \A p \in 1..(m + 1) : Answered(next, s[p])
    <3>1. \A p \in 1..m : Answered(next, s[p])
      BY <1>1, <1>3, <2>5 DEF Answered
    <3>2. Answered(next, i)
      BY <1>2, <2>4, <2>5 DEF Answered
    <3>3. QED
      BY <1>5, <3>1, <3>2 DEF i
  <2>12. \A j \in F : Taken(done, j) < Free(offers[j]) => Content(how, next, i, j)
    <3> SUFFICES ASSUME NEW j \in F, Taken(done, j) < Free(offers[j]) PROVE Content(how, next, i, j)
      OBVIOUS
    <3>1. next.match[i] = b
      BY <1>2, <2>5
    <3>2. CASE Rank(i, j) > 0
      <4>1. j \in open
        BY <3>2 DEF open, Open, F
      <4>2. QED
        BY <2>2, <2>4, <3>1, <4>1 DEF Content
    <3>3. CASE ~ (Rank(i, j) > 0)
      <4>1. Rank(i, j) <= Rank(i, b)
        BY <1>7, <2>4, <3>3
      <4>2. QED
        BY <2>4, <3>1, <4>1 DEF Content
    <3>4. QED
      BY <3>2, <3>3
  <2>13. \A p \in 1..(m + 1), j \in F : Taken(next, j) < Free(offers[j]) => Content(how, next, s[p], j)
    BY <1>1, <1>5, <2>7, <2>9, <2>12 DEF i
  <2>14. \A p, q \in 1..(m + 1) : p < q /\ next.match[s[q]] # 0 => Content(how, next, s[p], next.match[s[q]])
    <3> SUFFICES ASSUME NEW p \in 1..(m + 1), NEW q \in 1..(m + 1), p < q, next.match[s[q]] # 0
                 PROVE  Content(how, next, s[p], next.match[s[q]])
      OBVIOUS
    <3>1. p \in 1..m
      OBVIOUS
    <3>2. CASE q = m + 1
      <4>1. next.match[s[q]] = b
        BY <1>2, <2>5, <3>2 DEF i
      <4>2. Content(how, done, s[p], b)
        BY <1>1, <2>4, <3>1
      <4>3. QED
        BY <2>9, <3>1, <4>1, <4>2
    <3>3. CASE q \in 1..m
      <4>1. next.match[s[q]] = done.match[s[q]]
        BY <1>3, <2>5, <3>3
      <4>2. QED
        BY <1>1, <2>9, <3>1, <3>3, <4>1
    <3>4. QED
      BY <1>5, <3>2, <3>3
  <2>15. QED
    BY <1>6, <2>8, <2>10, <2>11, <2>13, <2>14 DEF FairSoFar, F
<1>12. QED
  BY <1>10, <1>11 DEF Advances, i, open

LEMMA FairRun ==
  ASSUME RoundOK, NEW how, NEW n \in Nat, NEW s \in [1..n -> DOMAIN orders],
         \A p, q \in 1..n : s[p] = s[q] => p = q, NEW run, Runs(how, s, n, run)
  PROVE  FairSoFar(how, s, n, n, run[n])
<1> DEFINE S == {m \in Nat : m <= n => FairSoFar(how, s, n, m, run[m])}
<1>1. 0 \in S
  BY FairStart DEF Runs
<1>2. ASSUME NEW m \in Nat, m \in S PROVE m + 1 \in S
  <2> SUFFICES ASSUME m + 1 <= n PROVE FairSoFar(how, s, n, m + 1, run[m + 1])
    OBVIOUS
  <2>1. FairSoFar(how, s, n, m, run[m])
    BY <1>2
  <2>2. Advances(how, run[m], s[m + 1], run[m + 1])
    BY DEF Runs
  <2>3. QED
    BY <2>1, <2>2, FairStep
<1>3. n \in S
  <2> HIDE DEF S
  <2>1. QED
    BY <1>1, <1>2, SetInduction
<1>4. QED
  BY <1>3

(* A round that is matched in the order of a key has what it may expect.     *)
Verdict(how, key, done) ==
  /\ done \in Outcomes(how)
  /\ \A j \in DOMAIN offers : Taken(done, j) <= Free(offers[j])
  /\ \A i \in DOMAIN orders : Answered(done, i)
  /\ \A i \in DOMAIN orders, j \in DOMAIN offers :
       Taken(done, j) < Free(offers[j]) => Content(how, done, i, j)
  /\ \A i, k \in DOMAIN orders :
       Comes(key, i, k) /\ done.match[k] # 0 => Content(how, done, i, done.match[k])

LEMMA VerdictIsFair ==
  ASSUME RoundOK, NEW how, NEW key \in [DOMAIN orders -> Nat],
         NEW run, Runs(how, Sorted(key), Len(orders), run)
  PROVE  Verdict(how, key, run[Len(orders)])
<1> DEFINE n == Len(orders)
           s == Sorted(key)
           done == run[n]
<1>1. n \in Nat /\ DOMAIN orders = 1..n
  BY RoundType
<1>2. /\ s \in [1..n -> 1..n] /\ \A i \in 1..n : \E p \in 1..n : s[p] = i
      /\ \A p, q \in 1..n : p < q => Comes(key, s[p], s[q])
  BY SortedType DEF Arranged
<1>3. /\ \A i, j \in 1..n : i # j => Comes(key, i, j) \/ Comes(key, j, i)
      /\ \A i, j, k \in 1..n : Comes(key, i, j) /\ Comes(key, j, k) => Comes(key, i, k)
      /\ \A i \in 1..n : ~ Comes(key, i, i)
  BY <1>1, ComesOrders
<1> HIDE DEF n, s, done
<1>4. \A p, q \in 1..n : s[p] = s[q] => p = q
  <2> SUFFICES ASSUME NEW p \in 1..n, NEW q \in 1..n, s[p] = s[q], p < q PROVE FALSE
    BY <1>1
  <2>1. Comes(key, s[p], s[p]) /\ s[p] \in 1..n
    BY <1>2
  <2>2. QED
    BY <1>3, <2>1
<1>5. \A p, q \in 1..n : Comes(key, s[p], s[q]) => p < q
  <2> SUFFICES ASSUME NEW p \in 1..n, NEW q \in 1..n, Comes(key, s[p], s[q]) PROVE p < q
    OBVIOUS
  <2>1. CASE p = q
    BY <1>2, <1>3, <2>1
  <2>2. CASE q < p
    <3>1. Comes(key, s[q], s[p]) /\ s[p] \in 1..n /\ s[q] \in 1..n
      BY <1>2, <2>2
    <3>2. Comes(key, s[p], s[p])
      BY <1>3, <3>1
    <3>3. QED
      BY <1>3, <3>1, <3>2
  <2>3. QED
    BY <1>1, <2>1, <2>2
<1>6. FairSoFar(how, s, n, n, done)
  BY <1>1, <1>2, <1>4, FairRun DEF done, n, s
<1>7. /\ done \in Outcomes(how)
      /\ \A j \in DOMAIN offers : Taken(done, j) <= Free(offers[j])
      /\ \A p \in 1..n : Answered(done, s[p])
      /\ \A p \in 1..n, j \in DOMAIN offers : Taken(done, j) < Free(offers[j]) => Content(how, done, s[p], j)
      /\ \A p, q \in 1..n : p < q /\ done.match[s[q]] # 0 => Content(how, done, s[p], done.match[s[q]])
  BY <1>6 DEF FairSoFar
<1>8. \A i \in 1..n : Answered(done, i)
  BY <1>2, <1>7
<1>9. \A i \in 1..n, j \in DOMAIN offers : Taken(done, j) < Free(offers[j]) => Content(how, done, i, j)
  BY <1>2, <1>7
<1>10. ASSUME NEW i \in 1..n, NEW k \in 1..n, Comes(key, i, k), done.match[k] # 0
       PROVE  Content(how, done, i, done.match[k])
  <2>1. PICK p \in 1..n : s[p] = i
    BY <1>2
  <2>2. PICK q \in 1..n : s[q] = k
    BY <1>2
  <2>3. p < q
    BY <1>5, <1>10, <2>1, <2>2
  <2>4. QED
    BY <1>7, <1>10, <2>1, <2>2, <2>3
<1>11. Verdict(how, key, done)
  BY <1>1, <1>7, <1>8, <1>9, <1>10 DEF Verdict
<1>12. QED
  BY <1>11 DEF done, n

(* What the two strategies return.                                           *)
Returns(how, key, done) == RoundOK /\ orders # <<>> /\ key \in [DOMAIN orders -> Nat] /\ Verdict(how, key, done)

LEMMA ReturnsFair ==
  ASSUME MatchingIInv, NEW how \in {"greedy", "batch"},
         UNCHANGED <<orders, offers>>, Len(orders) <= MaxOrders, Len(offers) <= MaxOffers,
         how = "greedy" => Returns(how, BySubmission, outcome'),
         how = "batch" => Returns(how, ByEligibility, outcome')
  PROVE  MatchingIInv'
<1> DEFINE done == outcome'
           key == IF how = "greedy" THEN BySubmission ELSE ByEligibility
<1>1. Returns(how, key, done)
  OBVIOUS
<1>2. RoundOK /\ Verdict(how, key, done)
  BY <1>1 DEF Returns
<1>3. /\ done \in Outcomes(how)
      /\ \A j \in DOMAIN offers : Taken(done, j) <= Free(offers[j])
      /\ \A i \in DOMAIN orders : Answered(done, i)
      /\ \A i \in DOMAIN orders, j \in DOMAIN offers :
           Taken(done, j) < Free(offers[j]) => Content(how, done, i, j)
      /\ \A i, k \in DOMAIN orders :
           Comes(key, i, k) /\ done.match[k] # 0 => Content(how, done, i, done.match[k])
  BY <1>2 DEF Verdict
<1>4. /\ done.by = how /\ done.match \in [DOMAIN orders -> 0..Len(offers)]
      /\ done.reason \in [DOMAIN orders -> Reasons \union {"none"}]
  BY <1>3 DEF Outcomes
<1>5. done # Unmatched
  <2>1. Unmatched.by = "none"
    BY DEF Unmatched
  <2>2. QED
    BY <1>4, <2>1
<1>6. \A i \in DOMAIN orders : done.match[i] # 0 => done.match[i] \in DOMAIN offers
  BY <1>2, <1>4, RoundType
<1>7. orders' = orders /\ offers' = offers
  OBVIOUS
<1>8. Matched' = {i \in DOMAIN orders : done.match[i] # 0}
  BY <1>5, <1>7 DEF Matched
<1>9. \A j \in DOMAIN offers : TakenOf(j)' = {i \in DOMAIN orders : done.match[i] = j}
  <2> SUFFICES ASSUME NEW j \in DOMAIN offers PROVE TakenOf(j)' = {i \in DOMAIN orders : done.match[i] = j}
    OBVIOUS
  <2>1. j # 0
    BY <1>2, RoundType
  <2>2. TakenOf(j)' = {i \in Matched' : outcome'.match[i] = j}
    BY DEF TakenOf
  <2>3. QED
    BY <1>8, <2>1, <2>2
<1>10. \A j \in DOMAIN offers : Cardinality(TakenOf(j)') = Taken(done, j)
  BY <1>9 DEF Taken
<1>11. \A i \in DOMAIN orders, j \in DOMAIN offers :
         Rank(i, j) \in Int /\ (Rank(i, j) > 0 <=> Eligible(orders[i], offers[j]))
  BY <1>2, RankType
<1>12. \A i, j : Rank(i, j)' = Rank(i, j)
  BY <1>7 DEF Rank
<1> HIDE DEF done
<1>13. MatchingTypeOK'
  <2>1. /\ orders' \in Seq(OrderKinds) /\ Len(orders') <= MaxOrders /\ Len(offers') <= MaxOffers
        /\ \A j \in DOMAIN offers' : \E f \in OfferKinds : offers'[j] = Posted(f, j)
    BY <1>2, <1>7 DEF RoundOK
  <2>2. \A i \in DOMAIN orders : IF done.match[i] = 0 THEN done.reason[i] \in Reasons
                                 ELSE done.match[i] \in DOMAIN offers /\ done.reason[i] = "none"
    BY <1>3, <1>6 DEF Answered
  <2>3. outcome' = done
    BY DEF done
  <2>4. QED
    BY <1>4, <1>7, <2>1, <2>2, <2>3 DEF MatchingTypeOK
<1>14. SlotsAreNotOverdrawn'
  <2>1. \A j \in DOMAIN offers' : Cardinality(TakenOf(j)') <= Free(offers'[j])
    BY <1>3, <1>7, <1>10
  <2>2. \A i \in Matched' : Meets(orders'[i], offers'[outcome'.match[i]])
    <3> SUFFICES ASSUME NEW i \in DOMAIN orders, done.match[i] # 0
                 PROVE  Meets(orders[i], offers[done.match[i]])
      BY <1>7, <1>8 DEF done
    <3>1. done.match[i] \in DOMAIN offers /\ Rank(i, done.match[i]) > 0
      BY <1>3, <1>6 DEF Answered
    <3>2. QED
      BY <1>11, <3>1 DEF Eligible
  <2>3. QED
    BY <2>1, <2>2 DEF SlotsAreNotOverdrawn
<1>15. NobodyWaitsInVain'
  <2> SUFFICES ASSUME NEW i \in DOMAIN orders, done.match[i] = 0, NEW j \in DOMAIN offers,
                      Meets(orders[i], offers[j]), Taken(done, j) < Free(offers[j])
               PROVE  orders[i].expired
    BY <1>7, <1>8, <1>10 DEF NobodyWaitsInVain, done
  <2>1. Content(how, done, i, j)
    BY <1>3
  <2>2. Taken(done, j) \in Nat
    <3>1. IsFiniteSet(DOMAIN orders)
      <4>1. DOMAIN orders = 1..Len(orders) /\ Len(orders) \in Nat
        BY <1>2, RoundType
      <4>2. QED
        BY <4>1, FS_Interval
    <3> DEFINE T == {k \in DOMAIN orders : done.match[k] = j}
    <3>2. T \in SUBSET DOMAIN orders
      OBVIOUS
    <3> HIDE DEF T
    <3>3. Cardinality(T) \in Nat
      BY <3>1, <3>2, FS_Subset, FS_CardinalityType
    <3>4. QED
      BY <3>3 DEF Taken, T
  <2>3. Free(offers[j]) \in Nat
    BY <1>2, RoundType
  <2>4. Free(offers[j]) > 0
    BY <2>2, <2>3
  <2>5. Rank(i, j) > 0 /\ Rank(i, j) \in Int
    BY <1>11, <2>4 DEF Eligible
  <2>6. Expires(how, i)
    BY <2>1, <2>5 DEF Content
  <2>7. QED
    BY <2>6 DEF Expires
<1>16. EarlierChooseFirst'
  <2> SUFFICES ASSUME how = "greedy", NEW i \in DOMAIN orders, NEW k \in DOMAIN orders,
                      done.match[i] # 0, done.match[k] # 0, orders[i].at < orders[k].at
               PROVE  Rank(i, done.match[i]) >= Rank(i, done.match[k])
    BY <1>4, <1>7, <1>8, <1>12 DEF EarlierChooseFirst, done
  <2>1. Comes(key, i, k)
    BY DEF Comes, BySubmission
  <2>2. Content(how, done, i, done.match[k])
    BY <1>3, <2>1
  <2>3. Rank(i, done.match[i]) \in Int /\ Rank(i, done.match[k]) \in Int
    BY <1>6, <1>11
  <2>4. QED
    BY <2>2, <2>3 DEF Content
<1>17. ConstrainedAreNotSqueezedOut'
  <2>0. \A i : EligibleSlots(i)' = EligibleSlots(i)
    BY <1>7 DEF EligibleSlots, Slots, Rank
  <2> SUFFICES ASSUME how = "batch", NEW i \in DOMAIN orders, NEW k \in DOMAIN orders,
                      done.match[i] = 0, done.match[k] # 0, Rank(i, done.match[k]) > 0
               PROVE  EligibleSlots(k) <= EligibleSlots(i)
    BY <1>4, <1>7, <1>8, <1>12, <2>0 DEF ConstrainedAreNotSqueezedOut, done
  <2>1. ~ Comes(key, i, k)
    <3>1. ~ Content(how, done, i, done.match[k])
      <4>1. Rank(i, done.match[k]) \in Int
        BY <1>6, <1>11
      <4>2. ~ Expires(how, i)
        BY DEF Expires
      <4>3. QED
        BY <4>1, <4>2 DEF Content
    <3>2. QED
      BY <1>3, <3>1
  <2>2. key[i] = EligibleSlots(i) /\ key[k] = EligibleSlots(k)
    BY DEF ByEligibility
  <2>3. EligibleSlots(i) \in Nat /\ EligibleSlots(k) \in Nat
    BY <1>2, EligibleSlotsType
  <2>4. ~ (key[i] < key[k])
    BY <2>1 DEF Comes
  <2> HIDE DEF key
  <2>5. QED
    BY <2>2, <2>3, <2>4
<1>18. offers' \in Seq(Posts)
  BY <1>7 DEF MatchingIInv
<1>19. QED
  BY <1>13, <1>14, <1>15, <1>16, <1>17, <1>18 DEF MatchingIInv, MatchingIsFair

LEMMA MatchGreedilyKeeps ==
  ASSUME MatchingIInv, MatchGreedily
  PROVE  MatchingIInv'
<1>1. RoundOK /\ Len(orders) <= MaxOrders /\ Len(offers) <= MaxOffers
  BY DEF MatchingIInv, MatchingIsFair, MatchingTypeOK, RoundOK
<1> DEFINE n == Len(orders)
           s == Sorted(BySubmission)
<1>2. n \in Nat /\ DOMAIN orders = 1..n /\ BySubmission \in [DOMAIN orders -> Nat]
  BY <1>1, RoundType DEF BySubmission
<1>3. s \in [1..n -> DOMAIN orders]
  BY <1>1, <1>2, SortedType DEF Arranged
<1>4. orders # <<>> /\ UNCHANGED <<orders, offers>> /\ outcome' = GreedyResult(s)
  BY DEF MatchGreedily, GreedyResult
<1>5. PICK run : Runs("greedy", s, n, run) /\ run[n] = GreedyResult(s)
  <2> HIDE DEF n, s
  <2>1. QED
    BY <1>1, <1>2, <1>3, GreedyRuns
<1>6. Verdict("greedy", BySubmission, run[n])
  BY <1>1, <1>2, <1>5, VerdictIsFair
<1> HIDE DEF n, s
<1>7. Returns("greedy", BySubmission, outcome')
  BY <1>1, <1>2, <1>4, <1>5, <1>6 DEF Returns
<1> DEFINE how == "greedy"
<1>8. /\ how \in {"greedy", "batch"}
      /\ how = "greedy" => Returns(how, BySubmission, outcome')
      /\ how = "batch" => Returns(how, ByEligibility, outcome')
  BY <1>7
<1> HIDE DEF how
<1>9. QED
  BY <1>1, <1>4, <1>8, ReturnsFair

LEMMA MatchBatchKeeps ==
  ASSUME MatchingIInv, MatchBatch
  PROVE  MatchingIInv'
<1>1. RoundOK /\ Len(orders) <= MaxOrders /\ Len(offers) <= MaxOffers
  BY DEF MatchingIInv, MatchingIsFair, MatchingTypeOK, RoundOK
<1> DEFINE n == Len(orders)
           s == Sorted(ByEligibility)
<1>2. n \in Nat /\ DOMAIN orders = 1..n /\ ByEligibility \in [DOMAIN orders -> Nat]
  BY <1>1, RoundType, EligibleSlotsType DEF ByEligibility
<1>3. s \in [1..n -> DOMAIN orders]
  BY <1>1, <1>2, SortedType DEF Arranged
<1>4. orders # <<>> /\ UNCHANGED <<orders, offers>> /\ outcome' = BatchResult(s)
  BY DEF MatchBatch, BatchResult
<1>5. PICK run : Runs("batch", s, n, run) /\ run[n] = BatchResult(s)
  <2> HIDE DEF n, s
  <2>1. QED
    BY <1>1, <1>2, <1>3, BatchRuns
<1>6. Verdict("batch", ByEligibility, run[n])
  BY <1>1, <1>2, <1>5, VerdictIsFair
<1> HIDE DEF n, s
<1>7. Returns("batch", ByEligibility, outcome')
  BY <1>1, <1>2, <1>4, <1>5, <1>6 DEF Returns
<1> DEFINE how == "batch"
<1>8. /\ how \in {"greedy", "batch"}
      /\ how = "greedy" => Returns(how, BySubmission, outcome')
      /\ how = "batch" => Returns(how, ByEligibility, outcome')
  BY <1>7
<1> HIDE DEF how
<1>9. QED
  BY <1>1, <1>4, <1>8, ReturnsFair

(* Without an outcome there is only the type to keep.                        *)
LEMMA NoOutcomeIsFair ==
  ASSUME outcome = Unmatched, offers \in Seq(Posts), orders \in Seq(OrderKinds),
         Len(orders) <= MaxOrders, Len(offers) <= MaxOffers,
         \A j \in DOMAIN offers : \E f \in OfferKinds : offers[j] = Posted(f, j)
  PROVE  MatchingIInv
<1>1. Matched = {} /\ \A j : TakenOf(j) = {}
  BY DEF Matched, TakenOf
<1>2. MatchingTypeOK
  BY DEF MatchingTypeOK
<1>3. SlotsAreNotOverdrawn
  <2>1. RoundOK
    BY DEF RoundOK
  <2>2. \A j \in DOMAIN offers : Free(offers[j]) \in Nat
    BY <2>1, RoundType
  <2>3. Cardinality({}) = 0
    BY FS_EmptySet
  <2>4. ASSUME NEW j \in DOMAIN offers PROVE Cardinality(TakenOf(j)) <= Free(offers[j])
    <3>1. TakenOf(j) = {}
      BY <1>1
    <3>2. Cardinality(TakenOf(j)) = 0
      BY <2>3, <3>1
    <3>3. QED
      BY <2>2, <3>2
  <2>5. QED
    BY <1>1, <2>4 DEF SlotsAreNotOverdrawn
<1>4. NobodyWaitsInVain /\ EarlierChooseFirst /\ ConstrainedAreNotSqueezedOut
  BY DEF NobodyWaitsInVain, EarlierChooseFirst, ConstrainedAreNotSqueezedOut
<1>5. QED
  BY <1>2, <1>3, <1>4 DEF MatchingIInv, MatchingIsFair

LEMMA MatchingStep ==
  ASSUME MatchingIInv, [MatchingNext]_matchingVars
  PROVE  MatchingIInv'
<1>1. /\ orders \in Seq(OrderKinds) /\ offers \in Seq(Posts)
      /\ Len(orders) <= MaxOrders /\ Len(offers) <= MaxOffers
      /\ \A j \in DOMAIN offers : \E f \in OfferKinds : offers[j] = Posted(f, j)
      /\ MaxOrders \in Nat /\ MaxOffers \in Nat
  BY MatchingAssumption DEF MatchingIInv, MatchingIsFair, MatchingTypeOK
<1>2. (/\ outcome = Unmatched /\ offers \in Seq(Posts) /\ orders \in Seq(OrderKinds)
       /\ Len(orders) <= MaxOrders /\ Len(offers) <= MaxOffers
       /\ \A j \in DOMAIN offers : \E f \in OfferKinds : offers[j] = Posted(f, j)
       => MatchingIInv)'
  BY NoOutcomeIsFair, PTL
<1>3. ASSUME NEW o \in OrderKinds, SubmitOrder(o) PROVE MatchingIInv'
  <2>1. /\ outcome' = Unmatched /\ offers' = offers /\ orders' = Append(orders, o)
        /\ Len(orders) < MaxOrders
    BY <1>3 DEF SubmitOrder
  <2>2. orders' \in Seq(OrderKinds) /\ Len(orders') = Len(orders) + 1 /\ Len(orders) \in Nat
    BY <1>1, <2>1, AppendProperties
  <2>3. QED
    BY <1>1, <1>2, <2>1, <2>2
<1>4. ASSUME NEW f \in OfferKinds, PostOffer(f) PROVE MatchingIInv'
  <2> DEFINE n == Len(offers)
             new == Posted(f, n + 1)
  <2>1. /\ outcome' = Unmatched /\ orders' = orders /\ offers' = Append(offers, new) /\ n < MaxOffers
    BY <1>4 DEF PostOffer
  <2>2. n \in Nat /\ DOMAIN offers = 1..n
    BY <1>1
  <2>3. new \in Posts
    BY <1>1, <2>1, <2>2 DEF Posts
  <2> HIDE DEF new
  <2>4. /\ offers' \in Seq(Posts) /\ Len(offers') = n + 1 /\ DOMAIN offers' = 1..(n + 1)
        /\ offers'[n + 1] = new /\ \A j \in 1..n : offers'[j] = offers[j]
    BY <1>1, <2>1, <2>2, <2>3, AppendProperties
  <2> HIDE DEF n
  <2>5. \A j \in DOMAIN offers' : \E g \in OfferKinds : offers'[j] = Posted(g, j)
    <3> SUFFICES ASSUME NEW j \in 1..(n + 1) PROVE \E g \in OfferKinds : offers'[j] = Posted(g, j)
      BY <2>4
    <3>1. CASE j = n + 1
      BY <2>4, <3>1 DEF new
    <3>2. CASE j \in 1..n
      BY <1>1, <2>2, <2>4, <3>2
    <3>3. QED
      BY <2>2, <3>1, <3>2
  <2>6. QED
    BY <1>1, <1>2, <2>1, <2>2, <2>4, <2>5
<1>5. CASE MatchGreedily
  BY <1>5, MatchGreedilyKeeps
<1>6. CASE MatchBatch
  BY <1>6, MatchBatchKeeps
<1>7. CASE NextRound
  <2>1. orders' = <<>> /\ offers' = <<>> /\ outcome' = Unmatched
    BY <1>7 DEF NextRound
  <2>2. QED
    BY <1>1, <1>2, <2>1
<1>8. CASE UNCHANGED matchingVars
  <2>1. orders' = orders /\ offers' = offers /\ outcome' = outcome
    BY <1>8 DEF matchingVars
  <2>2. QED
    BY <2>1 DEF MatchingIInv, MatchingIsFair, MatchingTypeOK, SlotsAreNotOverdrawn, NobodyWaitsInVain,
        EarlierChooseFirst, ConstrainedAreNotSqueezedOut, Matched, TakenOf, Rank, EligibleSlots, Slots
<1>9. QED
  BY <1>3, <1>4, <1>5, <1>6, <1>7, <1>8 DEF MatchingNext

(* Whatever orders and offers a round has, no slot is given twice, no order  *)
(* that could be served is left over while a slot for it is, an earlier      *)
(* order chooses first when the strategy is greedy, and in a batch the most  *)
(* constrained ones do.                                                      *)
THEOREM MatchingAlwaysFair == MatchingSpec => []MatchingIsFair
<1>1. MatchingInit => MatchingIInv
  <2> SUFFICES ASSUME MatchingInit PROVE MatchingIInv
    OBVIOUS
  <2>1. orders = <<>> /\ offers = <<>> /\ outcome = Unmatched
    BY DEF MatchingInit
  <2>2. MaxOrders \in Nat /\ MaxOffers \in Nat
    BY MatchingAssumption
  <2>3. QED
    BY <2>1, <2>2, NoOutcomeIsFair
<1>2. MatchingIInv /\ [MatchingNext]_matchingVars => MatchingIInv'
  BY MatchingStep
<1>3. MatchingIInv => MatchingIsFair
  BY DEF MatchingIInv
<1>4. QED
  BY <1>1, <1>2, <1>3, PTL DEF MatchingSpec
=============================================================================
