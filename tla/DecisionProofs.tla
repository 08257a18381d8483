--------------------------- MODULE DecisionProofs ---------------------------
(* What an owner decides from. Profiles, for every set of evidence, policies and
   settings: no two comparisons of the same evidence contradict each other, a recommended
   candidate hides no regression behind its gain, and a selection reported as
   current was true of the host. A recommendation means that each case's median
   throughput grew (GainGrows), and the medians of a case cannot grow in both
   directions; the invariants tie a report to the evidence it was computed from
   and an observation to the instant it was made. Below, what is exported
   (Bundle), what a patch does (Plans), what a plan to remove caches says (Cache),
   and where the evidence comes from: measurements (Measure) and lower memory
   limits (Resize).                                                          *)
EXTENDS Decisions, Serving, FiniteSets, Sequences, FiniteSetTheorems,
        SequenceTheorems, TLAPS

\* percent_regression's sign: a gain that is not noise is a larger median.
LEMMA GainGrows ==
    ASSUME NEW b \in Nat, NEW c \in Nat, NEW noise \in 0..100, b > 0, c > 0,
           (c - b) * 100 * c >= 0,
           ~((c - b) * 100 * c <= noise * (b * c))
    PROVE  c > b
<1>1. b * c \in Nat  OBVIOUS
<1>2. noise * (b * c) >= 0  BY <1>1
<1> DEFINE x == (c - b) * 100
<1>3. x \in Int  OBVIOUS
<1>4. x * c > 0  BY <1>2, <1>3
<1>5. x > 0
  <2>1. SUFFICES ASSUME x <= 0  PROVE FALSE
    BY <1>3
  <2>2. x * c <= 0  BY <1>3, <2>1
  <2>3. QED  BY <2>2, <1>4
<1>6. QED  BY <1>5

\* What a recommendation says of the throughput of each case.
LEMMA RecommendedGrows ==
    ASSUME NEW b \in Evidence, NEW c \in Evidence, NEW policy \in Policies,
           Recommended(b, c, policy), NEW w \in DOMAIN b.cases
    PROVE  c.cases[w].throughput.median > b.cases[w].throughput.median
<1> DEFINE left == b.cases[w].throughput
           right == c.cases[w].throughput
<1>1. w \in DOMAIN c.cases
  BY DEF Recommended, Ready, SameCases
<1>2. left.median \in Nat /\ right.median \in Nat
  BY <1>1, ProfilesAssumption
<1>3. left.median > 0 /\ right.median > 0
  BY DEF Recommended, throughput_gate
<1>4. policy.noise \in 0..100 /\ policy.minimum_gain \in 0..100
  BY ProfilesAssumption
<1>5. ~Noisy(left, right, policy.noise)
  BY DEF Recommended
<1>6. Gain(left, right) >= policy.minimum_gain * Scale(left, right)
  BY DEF Recommended, EnoughGain, EveryCase
<1> HIDE DEF left, right
<1>7. Scale(left, right) \in Nat
  BY <1>2 DEF Scale
<1>8. policy.minimum_gain * Scale(left, right) >= 0
  BY <1>4, <1>7
<1>9. Gain(left, right) \in Int
  BY <1>2 DEF Gain
<1>10. Gain(left, right) >= 0
  BY <1>4, <1>6, <1>7, <1>8, <1>9
<1>11. ~(Gain(left, right) <= policy.noise * Scale(left, right))
  BY <1>5, <1>9, <1>10 DEF Noisy, Distance
<1>12. right.median > left.median
  BY <1>2, <1>3, <1>4, <1>10, <1>11, GainGrows DEF Gain, Scale
<1>13. QED
  BY <1>12 DEF left, right

\* Of two bundles at most one is recommended over the other, whatever the policies: a
\* gain of one is a loss of the other, and a loss beyond the bound fails a gate.
LEMMA Asymmetric ==
    ASSUME NEW b \in Evidence, NEW c \in Evidence, NEW p \in Policies, NEW q \in Policies,
           Recommended(b, c, p)
    PROVE  ~Recommended(c, b, q)
<1>1. SUFFICES ASSUME Recommended(c, b, q)  PROVE FALSE
  OBVIOUS
<1>2. PICK w \in DOMAIN b.cases : TRUE
  BY DEF Recommended, Ready, Measured
<1>3. w \in DOMAIN c.cases
  BY DEF Recommended, Ready, SameCases
<1> DEFINE x == b.cases[w].throughput.median
           y == c.cases[w].throughput.median
<1>4. x \in Nat /\ y \in Nat
  BY <1>3, ProfilesAssumption
<1>5. y > x
  BY RecommendedGrows
<1>6. x > y
  BY <1>1, <1>3, RecommendedGrows
<1>7. QED
  BY <1>4, <1>5, <1>6

-----------------------------------------------------------------------------
(* The report is of the evidence at hand.                                   *)

IInv ==
    /\ baseline \in Evidence \union {None}
    /\ candidate \in Evidence \union {None}
    /\ baseline = None => candidate = None
    /\ candidate = None => report = None
    /\ report # None /\ report.recommendation = "candidate" =>
         report.policy \in Policies /\ Recommended(baseline, candidate, report.policy)

\* At the start there is no report.
LEMMA IInvInit == Init => IInv
BY DEF Init, IInv

\* Every command leaves a report of the evidence at hand, or none.
LEMMA IInvNext == IInv /\ [Next]_vars => IInv'
<1> SUFFICES ASSUME IInv, [Next]_vars  PROVE IInv'
  OBVIOUS
<1> USE DEF IInv
<1>1. ASSUME NEW e \in Evidence, InspectBaseline(e)  PROVE IInv'
  BY <1>1 DEF InspectBaseline
<1>2. ASSUME NEW e \in Evidence, InspectCandidate(e)  PROVE IInv'
  BY <1>2 DEF InspectCandidate
<1>3. ASSUME NEW declared \in Declarations, NEW policy \in Policies,
             CompareBundles(declared, policy)
      PROVE  IInv'
  <2>1. baseline' = baseline /\ candidate' = candidate /\ candidate # None /\ baseline # None
    BY <1>3 DEF CompareBundles
  <2>2. /\ report'.policy = policy
        /\ report'.recommendation = "candidate" => Recommended(baseline, candidate, policy)
    BY <1>3 DEF CompareBundles
  <2>3. QED
    BY <2>1, <2>2
<1>4. CASE Select
  BY <1>4 DEF Select
<1>5. ASSUME UNCHANGED <<baseline, candidate, report>>  PROVE IInv'
  BY <1>5
<1>6. CASE Tick \/ profile_status \/ \E s \in Settings : HostChanges(s)
  BY <1>5, <1>6 DEF Tick, profile_status, HostChanges
<1>7. CASE \E conditions \in BOOLEAN : Observe(conditions)
  BY <1>5, <1>7 DEF Observe
<1>8. CASE UNCHANGED vars
  BY <1>5, <1>8 DEF vars
<1>9. QED
  BY <1>1, <1>2, <1>3, <1>4, <1>6, <1>7, <1>8 DEF Next

\* A recommended report has no way back, by Asymmetric.
LEMMA IInvNoWayBack == IInv => NoWayBack
<1> SUFFICES ASSUME IInv, report # None, report.recommendation = "candidate",
                    NEW policy \in Policies
             PROVE  ~Recommended(candidate, baseline, policy)
  BY DEF NoWayBack
<1>1. baseline \in Evidence /\ candidate \in Evidence
  BY DEF IInv
<1>2. report.policy \in Policies /\ Recommended(baseline, candidate, report.policy)
  BY DEF IInv
<1>3. QED
  BY <1>1, <1>2, Asymmetric

\* Whatever the evidence and the policies, a comparison that recommends a candidate
\* over its baseline excludes one of the same evidence that recommends the baseline.
THEOREM NeverBack == Spec => []NoWayBack
<1>1. Init => IInv
  BY IInvInit
<1>2. IInv /\ [Next]_vars => IInv'
  BY IInvNext
<1>3. IInv => NoWayBack
  BY IInvNoWayBack
<1>4. QED
  BY <1>1, <1>2, <1>3, PTL DEF Spec

-----------------------------------------------------------------------------
(* What a recommendation says of every measurement                          *)

\* A gain of at least the policy's share, free of the common denominator.
LEMMA GainShare ==
    ASSUME NEW b \in Nat, NEW c \in Nat, NEW g \in Nat, c > 0,
           (c - b) * 100 * c >= g * (b * c)
    PROVE  c * 100 >= b * (100 + g)
<1> DEFINE x == (c - b) * 100 - g * b
<1>1. x \in Int /\ g * b \in Nat
  OBVIOUS
<1>2. x * c = (c - b) * 100 * c - g * (b * c)
  OBVIOUS
<1>3. x * c >= 0
  BY <1>2
<1>4. x >= 0
  <2>1. SUFFICES ASSUME x < 0  PROVE FALSE
    BY <1>1
  <2>2. x * c < 0
    BY <1>1, <2>1
  <2> QED BY <1>3, <2>2
<1>5. x = c * 100 - b * (100 + g)
  OBVIOUS
<1> QED BY <1>4, <1>5

\* Not a regression, and comparable: within the policy's limit.
WithinLimit(b, c, limit) == b > 0 /\ c * 100 <= b * (100 + limit)

\* A change that does not count as a regression is within its limit.
LEMMA NoRegress ==
    ASSUME NEW b \in Nat, NEW c \in Nat, NEW limit \in Nat, Comparable(b), ~Regresses(b, c, limit)
    PROVE  WithinLimit(b, c, limit)
<1>1. limit * b \in Nat /\ b * (100 + limit) = b * 100 + limit * b
  OBVIOUS
<1>2. (c - b) * 100 <= limit * b
  BY <1>1 DEF Regresses
<1> QED BY <1>1, <1>2 DEF WithinLimit, Comparable

\* Each case of a recommended candidate was measured, gained, and is nowhere slow.
LEMMA CaseHolds ==
    ASSUME NEW b \in Evidence, NEW c \in Evidence, NEW p \in Policies, Recommended(b, c, p),
           NEW w \in DOMAIN c.cases
    PROVE  LET bw == b.cases[w]
               cw == c.cases[w]
           IN  /\ bw.failures = 0 /\ cw.failures = 0
               /\ cw.throughput.median * 100 >= bw.throughput.median * (100 + p.minimum_gain)
               /\ \A m \in {"latency", "ttft"} :
                    /\ bw[m].samples > 0 /\ cw[m].samples > 0
                    /\ WithinLimit(bw[m].median, cw[m].median, p.maximum_regression)
                    /\ bw[m].samples >= 20 /\ cw[m].samples >= 20
                          => WithinLimit(bw[m].tail, cw[m].tail, p.maximum_regression)
<1> DEFINE bw == b.cases[w]
           cw == c.cases[w]
           limit == p.maximum_regression
<1>1. w \in DOMAIN b.cases
  BY DEF Recommended, Ready, SameCases
<1>2. \A m \in {"throughput", "latency", "ttft"} :
         /\ bw[m].samples \in Nat /\ bw[m].median \in Nat /\ bw[m].tail \in Nat
         /\ cw[m].samples \in Nat /\ cw[m].median \in Nat /\ cw[m].tail \in Nat
  BY <1>1, ProfilesAssumption
<1>3. limit \in Nat /\ p.minimum_gain \in Nat
  BY ProfilesAssumption
<1>4. bw.failures = 0 /\ cw.failures = 0
  BY <1>1 DEF Recommended, Ready
<1>5. cw.throughput.median * 100 >= bw.throughput.median * (100 + p.minimum_gain)
  <2>1. Gain(bw.throughput, cw.throughput) >= p.minimum_gain * Scale(bw.throughput, cw.throughput)
    BY <1>1 DEF Recommended, EnoughGain, EveryCase
  <2>2. cw.throughput.median > 0
    BY <1>1 DEF Recommended, throughput_gate
  <2> QED BY <1>2, <1>3, <2>1, <2>2, GainShare DEF Gain, Scale
<1>6. /\ \A m \in {"latency", "ttft"} : Observed(bw[m]) /\ Observed(cw[m])
      /\ \A s \in Statistics(bw, cw) : Comparable(s[1]) /\ ~Regresses(s[1], s[2], limit)
  <2>1. serving_latency_gate(b, c, limit) = "passed"
    BY DEF Recommended
  <2> QED BY <1>1, <2>1 DEF serving_latency_gate, Answer
<1>7. ASSUME NEW m \in {"latency", "ttft"}
      PROVE  /\ bw[m].samples > 0 /\ cw[m].samples > 0
             /\ WithinLimit(bw[m].median, cw[m].median, limit)
             /\ bw[m].samples >= 20 /\ cw[m].samples >= 20
                   => WithinLimit(bw[m].tail, cw[m].tail, limit)
  <2>1. <<bw[m].median, cw[m].median>> \in Statistics(bw, cw)
    BY DEF Statistics
  <2>2. bw[m].samples >= 20 /\ cw[m].samples >= 20 => <<bw[m].tail, cw[m].tail>> \in Statistics(bw, cw)
    BY DEF Statistics, HasTail
  <2>3. \A x, y \in Nat : <<x, y>> \in Statistics(bw, cw) => WithinLimit(x, y, limit)
    BY <1>3, <1>6, NoRegress
  <2> QED BY <1>2, <1>6, <2>1, <2>2, <2>3 DEF Observed
<1> QED BY <1>4, <1>5, <1>7

\* So is each phase of its startup.
LEMMA StartupHolds ==
    ASSUME NEW b \in Evidence, NEW c \in Evidence, NEW p \in Policies, Recommended(b, c, p),
           NEW phase \in {"cold", "warm"}
    PROVE  LET bp == b.startup[phase]
               cp == c.startup[phase]
           IN  /\ bp.failed = 0 /\ bp.unknown = 0 /\ cp.failed = 0 /\ cp.unknown = 0
               /\ bp.samples > 0 /\ cp.samples > 0
               /\ WithinLimit(bp.median, cp.median, p.maximum_regression)
<1> DEFINE bp == b.startup[phase]
           cp == c.startup[phase]
<1>1. /\ bp.samples \in Nat /\ bp.median \in Nat /\ cp.samples \in Nat /\ cp.median \in Nat
      /\ p.maximum_regression \in Nat
  BY ProfilesAssumption
<1>2. startup_gate(b, c, p.maximum_regression) = "passed"
  BY DEF Recommended
<1>3. /\ StartsKnown(bp) /\ StartsKnown(cp) /\ Comparable(bp.median)
      /\ ~Regresses(bp.median, cp.median, p.maximum_regression)
  BY <1>2 DEF startup_gate, Answer
<1> QED BY <1>1, <1>3, NoRegress DEF StartsKnown

\* The quality of both sides, and their memory.
LEMMA SidesHold ==
    ASSUME NEW b \in Evidence, NEW c \in Evidence, NEW p \in Policies, Recommended(b, c, p),
           NEW e \in {b, c}
    PROVE  /\ e.numerical = "passed" /\ e.coding = "passed" /\ e.run
           /\ e.memory # "refused" /\ (e.memory # "none" => e.pressure # "observed")
<1>1. QualityPassed(b, c) /\ memory_gate(b, c)
  BY DEF Recommended
<1> QED BY <1>1 DEF QualityPassed, CrossQuality, memory_gate, Adverse

\* The gates that a recommended pair passed leave none of its changes adverse.
LEMMA IInvNothingHidden == IInv => NothingHidden
<1> SUFFICES ASSUME IInv, report # None, report.recommendation = "candidate"
             PROVE  NothingHidden
  BY DEF NothingHidden
<1> DEFINE p == report.policy
<1>1. /\ baseline \in Evidence /\ candidate \in Evidence /\ p \in Policies
      /\ Recommended(baseline, candidate, p)
  BY DEF IInv
<1>2. DOMAIN baseline.cases = DOMAIN candidate.cases
  BY <1>1 DEF Recommended, Ready, SameCases
<1> HIDE DEF p
<1>3. \A w \in DOMAIN candidate.cases :
         /\ baseline.cases[w].failures = 0 /\ candidate.cases[w].failures = 0
         /\ candidate.cases[w].throughput.median * 100
              >= baseline.cases[w].throughput.median * (100 + p.minimum_gain)
         /\ \A m \in {"latency", "ttft"} :
              /\ baseline.cases[w][m].samples > 0 /\ candidate.cases[w][m].samples > 0
              /\ WithinLimit(baseline.cases[w][m].median, candidate.cases[w][m].median,
                             p.maximum_regression)
              /\ baseline.cases[w][m].samples >= 20 /\ candidate.cases[w][m].samples >= 20
                    => WithinLimit(baseline.cases[w][m].tail, candidate.cases[w][m].tail,
                                   p.maximum_regression)
  BY <1>1, CaseHolds
<1>4. \A phase \in {"cold", "warm"} :
         LET bp == baseline.startup[phase]
             cp == candidate.startup[phase]
         IN  /\ bp.failed = 0 /\ bp.unknown = 0 /\ cp.failed = 0 /\ cp.unknown = 0
             /\ bp.samples > 0 /\ cp.samples > 0
             /\ WithinLimit(bp.median, cp.median, p.maximum_regression)
  BY <1>1, StartupHolds
<1>5. \A e \in {baseline, candidate} :
         /\ e.numerical = "passed" /\ e.coding = "passed" /\ e.run
         /\ e.memory # "refused" /\ (e.memory # "none" => e.pressure # "observed")
  BY <1>1, SidesHold
<1> QED BY <1>2, <1>3, <1>4, <1>5 DEF NothingHidden, WithinLimit, p

\* Whatever the evidence and the policy, a recommended candidate was measured in
\* every respect in which its baseline was, without a failure, gains what the policy
\* asks in every case and regresses nowhere beyond it (comparison_record's gates).
THEOREM NoRegressionHidden == Spec => []NothingHidden
<1>1. Init => IInv
  BY IInvInit
<1>2. IInv /\ [Next]_vars => IInv'
  BY IInvNext
<1>3. IInv => NothingHidden
  BY IInvNothingHidden
<1> QED BY <1>1, <1>2, <1>3, PTL DEF Spec

-----------------------------------------------------------------------------
(* The selection and the host                                               *)

\* The history never forgets: an observation is of settings the host had when it
\* was made, and an answer of current is of an observation of the settings selected.
Dates ==
    /\ clock \in Nat /\ host \in Settings
    /\ last \in [Settings -> Int] /\ \A s \in Settings : last[s] <= clock
    /\ last[host] = clock
    /\ selection # None => baseline = None /\ candidate = None /\ report = None
    /\ observation # None =>
          /\ observation.at \in Nat /\ observation.at <= clock
          /\ observation.setting \in Settings /\ observation.at <= last[observation.setting]
    /\ answer # None =>
          /\ selection # None /\ answer.at \in Nat
          /\ answer.is = "selected-unqualified-current" =>
                /\ selection.setting \in Settings /\ last[selection.setting] >= 0
                /\ answer.at - last[selection.setting] <= MaxAge

\* A step keeps the dates of what it does not renew: the instants at which the
\* host had its settings only move forward.
LEMMA DatesKept ==
    ASSUME Dates, UNCHANGED <<selection, baseline, candidate, report, observation, answer>>,
           clock' \in Nat, clock <= clock', host' \in Settings,
           last' = [last EXCEPT ![host'] = clock']
    PROVE  Dates'
<1>1. /\ last' \in [Settings -> Int] /\ last'[host'] = clock'
      /\ \A s \in Settings : last'[s] <= clock' /\ last[s] <= last'[s]
  BY DEF Dates
<1>2. observation # None => observation.at <= last'[observation.setting] /\ observation.at <= clock'
  BY <1>1 DEF Dates
<1>3. answer # None /\ answer.is = "selected-unqualified-current" =>
         last'[selection.setting] >= 0 /\ answer.at - last'[selection.setting] <= MaxAge
  BY <1>1, ProfilesAssumption DEF Dates
<1> QED BY <1>1, <1>2, <1>3 DEF Dates

\* At the start nothing was observed but the settings of the host.
LEMMA DatesInit == Init => Dates
<1> SUFFICES ASSUME Init PROVE Dates
  OBVIOUS
<1>1. host \in Settings
  BY ProfilesAssumption DEF Init
<1> QED BY <1>1 DEF Init, Dates

\* Every command, and every change of the host, keeps the dates right.
LEMMA DatesNext == Dates /\ [Next]_vars => Dates'
<1> SUFFICES ASSUME Dates, [Next]_vars  PROVE Dates'
  OBVIOUS
<1>1. ASSUME NEW e \in Evidence, InspectBaseline(e) \/ InspectCandidate(e)
      PROVE  Dates'
  BY <1>1 DEF InspectBaseline, InspectCandidate, Dates
<1>2. ASSUME NEW declared \in Declarations, NEW policy \in Policies,
             CompareBundles(declared, policy)
      PROVE  Dates'
  BY <1>2 DEF CompareBundles, Dates
<1>3. CASE Select
  BY <1>3 DEF Select, Dates
<1>4. CASE Tick
  BY <1>4, DatesKept DEF Tick, Dates
<1>5. ASSUME NEW s \in Settings, HostChanges(s)
      PROVE  Dates'
  BY <1>5, DatesKept DEF HostChanges, Dates
<1>6. ASSUME NEW conditions \in BOOLEAN, Observe(conditions)
      PROVE  Dates'
  BY <1>6 DEF Observe, Dates
<1>7. CASE profile_status
  <2>1. /\ selection # None /\ observation # None /\ answer'.at = clock
        /\ answer'.is = "selected-unqualified-current" =>
              Fresh(observation) /\ selection.setting = observation.setting
    BY <1>7 DEF profile_status, selection_status
  <2>2. UNCHANGED <<baseline, candidate, report, selection, host, observation, clock, last>>
    BY <1>7 DEF profile_status
  <2>3. Fresh(observation) => clock - last[observation.setting] <= MaxAge
    BY <2>1, ProfilesAssumption DEF Fresh, Dates
  <2> QED BY <2>1, <2>2, <2>3 DEF Dates
<1>8. CASE UNCHANGED vars
  BY <1>8 DEF vars, Dates
<1> QED BY <1>1, <1>2, <1>3, <1>4, <1>5, <1>6, <1>7, <1>8 DEF Next

\* A selection reported as current had its settings on the host at some instant of
\* the last 15 minutes, in any order of changes, observations and questions
\* (current_profile_identity, selection_status).
THEOREM CurrentHolds == Spec => []CurrentWasTrue
<1>1. Dates => CurrentWasTrue
  BY DEF Dates, CurrentWasTrue
<1> QED BY <1>1, DatesInit, DatesNext, PTL DEF Spec

-----------------------------------------------------------------------------
(* What is exported is one run's: Bundle, for any runs, directories and edits.

   A summary says what a directory holds at that moment, and nobody looks at it
   again: that it stays true needs that a directory has one maker, which is the
   only one to write and does so before its summary (Owned), what a maker has
   written by each of its steps (Partial), and what a run's earlier reads still
   say of the evidence while nobody edits it (Unedited).                      *)

Steps == {"idle", "tree", "spec", "mkdir", "analyse", "clean", "finish", "done"}
Writing == {"analyse", "clean", "finish"}

SealTypes ==
    /\ spec \in S!Versions /\ data \in S!Versions /\ written \in S!Versions
    /\ manifest \subseteq S!Digests /\ sealing \subseteq S!Digests
    /\ seals \in [Runs -> [pc : Steps, digest : S!Digests, out : Outputs \union {NoRun},
                           spec : S!Versions, read : S!Versions, status : S!Statuses]]
    /\ output \in [Outputs -> [by : Runs \union {NoRun}, files : SUBSET S!Names]]
    /\ summary \in [Outputs -> SUBSET [status : S!Statuses, by : Runs, digest : S!Digests,
                           spec : S!Versions, read : S!Versions, artifacts : SUBSET S!Names]]
    /\ whole \subseteq Runs

\* A directory that is being written has its run, and no summary yet.
OwnedBy(r, o) == output[o].by = r /\ summary[o] = {} /\ "summary" \notin output[o].files
Owned ==
    /\ \A r \in Runs : seals[r].pc \notin {"idle", "done"} => seals[r].out \in Outputs
    /\ \A r \in Runs : seals[r].pc \in Writing => OwnedBy(r, seals[r].out)
    /\ \A o \in Outputs : output[o].by = NoRun => summary[o] = {}

\* What is in it after each step.
Result(status) == IF status = "failed" THEN {"failure"} ELSE {"result"}
Partial == \A r \in Runs :
    /\ seals[r].pc \in {"tree", "spec", "mkdir", "analyse"} => seals[r].status = "analysed"
    /\ seals[r].pc = "analyse" => output[seals[r].out].files = {}
    /\ seals[r].pc = "clean" =>
        seals[r].status = "failed" /\ output[seals[r].out].files \subseteq {"result"}
    /\ seals[r].pc = "finish" => output[seals[r].out].files = Result(seals[r].status)

\* What the earlier reads of a run say, while nobody has edited since its first.
Unedited == \A r \in whole :
    /\ seals[r].pc # "idle"
    /\ seals[r].pc \in {"spec", "mkdir", "analyse"} => seals[r].digest = [spec |-> spec, data |-> data]
    /\ seals[r].pc \in {"mkdir", "analyse"} => seals[r].spec = spec
    /\ seals[r].pc \in {"clean", "finish"} =>
        seals[r].digest = [spec |-> seals[r].spec, data |-> seals[r].read]

\* A summary is of a run that has ended, and of all that its directory holds.
Describes(o, s) ==
    /\ seals[s.by].pc = "done"
    /\ output[o].by = s.by
    /\ output[o].files = s.artifacts \union {"summary"}
    /\ s.artifacts = Result(s.status)
    /\ s.by \in whole => s.digest = [spec |-> s.spec, data |-> s.read]
Exported == \A o \in Outputs : \A s \in summary[o] : Describes(o, s)

SealInv == SealTypes /\ Owned /\ Partial /\ Unedited /\ Exported

\* Nothing is sealed or written at first.
LEMMA SealInit == ASSUME S!Allowed  PROVE S!Init => SealInv
<1> SUFFICES ASSUME S!Init  PROVE SealInv
  OBVIOUS
<1>1. 0 \in S!Versions
  BY DEF S!Allowed, S!Versions
<1>2. SealTypes
  BY <1>1 DEF SealTypes, S!Init, S!Idle, S!Digests, S!Statuses, S!Names, Steps
<1>3. Owned /\ Partial /\ Unedited /\ Exported
  BY DEF S!Init, S!Idle, Owned, OwnedBy, Partial, Unedited, Exported, Writing
<1> QED BY <1>2, <1>3 DEF SealInv

\* The steps of the owner, and those of a run.
OwnerStep == S!Edits \/ S!Hashes \/ S!Seals
\* An edit lets every run's reads count as old; sealing touches no run.
LEMMA OwnerSeals == ASSUME S!Allowed, SealInv, OwnerStep  PROVE SealInv'
<1> USE DEF SealInv
<1>1. UNCHANGED <<seals, output, summary>>
  BY DEF OwnerStep, S!Edits, S!Hashes, S!Seals, S!exported
<1>2. SealTypes'
  <2>1. CASE S!Edits
    <3>1. written + 1 \in S!Versions /\ whole' = {} /\ UNCHANGED <<manifest, sealing>>
      BY <2>1 DEF S!Edits, SealTypes, S!Versions, S!Allowed, S!sealed
    <3>2. spec' \in S!Versions /\ data' \in S!Versions /\ written' \in S!Versions
      BY <2>1, <3>1 DEF S!Edits, SealTypes
    <3> QED BY <1>1, <3>1, <3>2 DEF SealTypes
  <2>2. CASE S!Hashes
    BY <1>1, <2>2 DEF S!Hashes, SealTypes, S!Digests, S!evidence
  <2>3. CASE S!Seals
    BY <1>1, <2>3 DEF S!Seals, SealTypes, S!evidence
  <2> QED BY <2>1, <2>2, <2>3 DEF OwnerStep
<1>3. whole' = {} \/ UNCHANGED <<spec, data, whole>>
  BY DEF OwnerStep, S!Edits, S!Hashes, S!Seals, S!evidence
<1>4. Owned' /\ Partial'
  BY <1>1 DEF Owned, OwnedBy, Partial
<1>5. Unedited'
  BY <1>1, <1>3 DEF Unedited
<1>6. Exported'
  BY <1>1, <1>3 DEF Exported, Describes
<1> QED BY <1>2, <1>4, <1>5, <1>6

\* A step of a run that writes nothing, nor goes on to write: it reads, or ends.
Reads(r) ==
    /\ UNCHANGED <<spec, data, output, summary, whole>>
    /\ seals' = [seals EXCEPT ![r] = seals'[r]]
    /\ seals[r].pc \notin {"idle", "done"}
    /\ \/ seals'[r].pc = "done"
       \/ /\ seals[r].pc \in {"tree", "spec"} /\ seals'[r].pc \in {"spec", "mkdir"}
          /\ seals'[r].out = seals[r].out /\ seals'[r].status = seals[r].status
          /\ seals'[r].digest = seals[r].digest /\ seals[r].digest = seals'[r].digest
\* Such a step keeps the invariant, when what it read is what is there.
LEMMA ReadKeeps ==
    ASSUME SealInv, SealTypes', NEW r \in Runs, Reads(r),
           seals'[r].pc \in {"spec", "mkdir"} /\ r \in whole =>
              seals[r].digest = [spec |-> spec, data |-> data],
           seals'[r].pc = "mkdir" /\ r \in whole => seals'[r].spec = spec
    PROVE  SealInv'
<1> USE DEF SealInv
<1>1. \A d \in Runs \ {r} : seals'[d] = seals[d]
  BY DEF Reads, SealTypes
<1>2. UNCHANGED <<spec, data, output, summary, whole>> /\ seals'[r].pc \notin Writing
  BY DEF Reads, Writing
<1>3. Owned'
  BY <1>1, <1>2 DEF Owned, OwnedBy, Reads, Writing
<1>4. Partial'
  BY <1>1, <1>2 DEF Partial, Reads, Writing
<1>5. Unedited'
  BY <1>1, <1>2 DEF Unedited, Reads, Writing, SealTypes
<1>6. Exported'
  <2> SUFFICES ASSUME NEW o \in Outputs, NEW s \in summary[o]  PROVE Describes(o, s)'
    BY <1>2 DEF Exported
  <2>1. s.by \in Runs /\ Describes(o, s)
    BY DEF SealTypes, Exported
  <2>2. s.by # r
    BY <2>1 DEF Describes, Reads
  <2> QED BY <1>1, <1>2, <2>1, <2>2 DEF Describes
<1> QED BY <1>3, <1>4, <1>5, <1>6

\* inspect: what each of its reads saw.
LEMMA InspectSeals ==
    ASSUME S!Allowed, SealInv, NEW r \in Runs, S!Inspected(r) \/ S!SpecRead(r) \/ S!Killed(r)
    PROVE  SealInv'
<1>0. 0 \in S!Versions
  BY DEF S!Allowed, S!Versions
<1>1. UNCHANGED <<spec, data, written, manifest, sealing, output, summary, whole>>
  BY DEF S!Inspected, S!SpecRead, S!Killed, S!evidence, S!sealed, S!exported
<1>2. SealTypes'
  <2>1. \/ seals' = [seals EXCEPT ![r].pc = seals'[r].pc] /\ seals'[r].pc \in Steps
        \/ seals' = [seals EXCEPT ![r].pc = "mkdir", ![r].spec = spec]
        \/ seals' = [seals EXCEPT ![r] = [S!Idle EXCEPT !.pc = "done"]]
    BY DEF SealInv, SealTypes, S!Inspected, S!SpecRead, S!Killed, S!Goes, S!Stops, S!Put, Steps
  <2>2. [S!Idle EXCEPT !.pc = "done"] \in [pc : Steps, digest : S!Digests, out : Outputs \union {NoRun},
                           spec : S!Versions, read : S!Versions, status : S!Statuses]
    BY <1>0 DEF S!Idle, S!Digests, S!Statuses, Steps
  <2>3. seals' \in [Runs -> [pc : Steps, digest : S!Digests, out : Outputs \union {NoRun},
                           spec : S!Versions, read : S!Versions, status : S!Statuses]]
    <3> HIDE DEF Steps
    <3>1. "mkdir" \in Steps
      BY DEF Steps
    <3> QED BY <2>1, <2>2, <3>1 DEF SealInv, SealTypes
  <2> QED BY <1>1, <2>3 DEF SealInv, SealTypes
<1>3. Reads(r)
  BY <1>1 DEF SealInv, SealTypes, Reads, S!Inspected, S!SpecRead, S!Killed, S!Goes, S!Stops, S!Put,
     S!Idle, S!At
<1>4. seals'[r].pc \in {"spec", "mkdir"} /\ r \in whole =>
        seals[r].digest = [spec |-> spec, data |-> data]
  <2>1. CASE S!Inspected(r)
    BY <2>1 DEF SealInv, SealTypes, S!Inspected, S!Goes, S!Stops, S!Put, S!Idle, S!At, S!SameTree
  <2>2. CASE S!SpecRead(r)
    BY <2>2 DEF SealInv, Unedited, S!SpecRead, S!At
  <2>3. CASE S!Killed(r)
    BY <2>3 DEF SealInv, SealTypes, S!Killed, S!Goes
  <2> QED BY <2>1, <2>2, <2>3
<1>5. seals'[r].pc = "mkdir" /\ r \in whole => seals'[r].spec = spec
  BY <1>1 DEF SealInv, SealTypes, S!Inspected, S!SpecRead, S!Killed, S!Goes, S!Stops, S!Put,
     S!Idle, S!At
<1> QED BY <1>2, <1>3, <1>4, <1>5, ReadKeeps

\* A run that begins has summarised nothing yet.
LEMMA NamedSeals == ASSUME S!Allowed, SealInv, NEW r \in Runs, S!Named(r)  PROVE SealInv'
<1> USE DEF SealInv
<1>0. 0 \in S!Versions
  BY DEF S!Allowed, S!Versions
<1>1. PICK m \in manifest, o \in Outputs :
        seals' = [seals EXCEPT ![r] = [S!Idle EXCEPT !.pc = "tree", !.digest = m, !.out = o]]
  BY DEF S!Named, S!Put
<1>2. UNCHANGED <<spec, data, written, manifest, sealing, output, summary>>
  BY DEF S!Named, S!evidence, S!sealed, S!exported
<1>3. whole' = whole \union {r} /\ seals[r].pc = "idle"
  BY DEF S!Named, S!At
<1>4. /\ seals'[r].pc = "tree" /\ seals'[r].out = o /\ seals'[r].status = "analysed"
      /\ \A d \in Runs \ {r} : seals'[d] = seals[d]
  BY <1>1 DEF SealTypes, S!Idle
<1>5. SealTypes'
  BY <1>0, <1>1, <1>2, <1>3 DEF SealTypes, S!Idle, Steps, S!Statuses
<1>6. Owned' /\ Partial'
  BY <1>2, <1>4 DEF Owned, OwnedBy, Partial, Writing
<1>7. Unedited'
  BY <1>2, <1>3, <1>4 DEF Unedited, SealTypes
<1>8. Exported'
  <2> SUFFICES ASSUME NEW x \in Outputs, NEW s \in summary[x]  PROVE Describes(x, s)'
    BY <1>2 DEF Exported
  <2>1. s.by \in Runs /\ Describes(x, s)
    BY DEF SealTypes, Exported
  <2> QED BY <1>2, <1>3, <1>4, <2>1 DEF Describes
<1> QED BY <1>5, <1>6, <1>7, <1>8

\* A directory that does not exist is nobody's, so nobody writes it or has
\* summarised it.
LEMMA MakeSeals == ASSUME S!Allowed, SealInv, NEW r \in Runs, S!MakesOutput(r)  PROVE SealInv'
<1> USE DEF SealInv
<1>0. 0 \in S!Versions
  BY DEF S!Allowed, S!Versions
<1>1. UNCHANGED <<spec, data, written, manifest, sealing, summary, whole>> /\ seals[r].pc = "mkdir"
  BY DEF S!MakesOutput, S!evidence, S!sealed, S!At
<1> DEFINE o == seals[r].out
<1>2. o \in Outputs
  BY <1>1 DEF Owned
<1>3. CASE ~S!New(o)
  <2>1. S!Stops(r) /\ UNCHANGED output
    BY <1>3 DEF S!MakesOutput
  <2>2. SealTypes'
    BY <1>0, <1>1, <2>1 DEF SealTypes, S!Stops, S!Put, S!Idle, S!Digests, S!Statuses, Steps
  <2>3. Reads(r) /\ seals'[r].pc = "done"
    BY <1>1, <2>1 DEF SealTypes, Reads, S!Stops, S!Put, S!Idle
  <2> QED BY <2>2, <2>3, ReadKeeps
<1>4. CASE S!New(o)
  <2>1. /\ seals' = [seals EXCEPT ![r].pc = "analyse"]
        /\ output' = [output EXCEPT ![o] = [by |-> r, files |-> {}]]
    BY <1>4 DEF S!MakesOutput, S!Goes
  <2>2. SealTypes'
    BY <1>1, <1>2, <2>1 DEF SealTypes, Steps
  <2>3. /\ \A d \in Runs \ {r} : seals'[d] = seals[d]
        /\ seals'[r] = [seals[r] EXCEPT !.pc = "analyse"]
        /\ \A x \in Outputs \ {o} : output'[x] = output[x]
        /\ output'[o] = [by |-> r, files |-> {}]
    BY <1>2, <2>1 DEF SealTypes
  <2>4. summary[o] = {} /\ output[o].by = NoRun
    BY <1>2, <1>4 DEF S!New, Owned
  <2>5. \A d \in Runs : seals[d].pc \in Writing => seals[d].out # o
    BY <2>4 DEF Owned, OwnedBy, S!Allowed
  <2>6. /\ seals'[r].pc = "analyse" /\ seals'[r].out = o /\ seals'[r].status = "analysed"
        /\ seals'[r].digest = seals[r].digest /\ seals'[r].spec = seals[r].spec
    BY <1>1, <2>3 DEF SealTypes, Partial
  <2>7. Owned'
    <3>1. \A d \in Runs : seals'[d].pc \notin {"idle", "done"} => seals'[d].out \in Outputs
      BY <1>2, <2>3, <2>6 DEF Owned
    <3>2. ASSUME NEW d \in Runs \ {r}, seals'[d].pc \in Writing
          PROVE  OwnedBy(d, seals[d].out)'
      <4>1. seals'[d] = seals[d] /\ seals[d].out \in Outputs \ {o} /\ OwnedBy(d, seals[d].out)
        BY <2>3, <2>5, <3>2 DEF Owned, Writing
      <4> QED BY <1>1, <2>3, <4>1 DEF OwnedBy
    <3>3. OwnedBy(r, seals[r].out)'
      BY <1>1, <2>3, <2>4, <2>6 DEF OwnedBy
    <3>4. \A x \in Outputs : output'[x].by = NoRun => summary'[x] = {}
      BY <1>1, <2>3, <2>4 DEF Owned
    <3> QED BY <3>1, <3>2, <3>3, <3>4 DEF Owned
  <2>8. Partial'
    <3>1. output'[o].files = {}
      BY <2>3
    <3>2. ASSUME NEW d \in Runs \ {r}  PROVE
          /\ seals'[d] = seals[d]
          /\ seals[d].pc = "analyse" => output'[seals[d].out].files = {}
          /\ seals[d].pc = "clean" =>
               seals[d].status = "failed" /\ output'[seals[d].out].files \subseteq {"result"}
          /\ seals[d].pc = "finish" => output'[seals[d].out].files = Result(seals[d].status)
          /\ seals[d].pc \in {"tree", "spec", "mkdir", "analyse"} => seals[d].status = "analysed"
      <4>1. seals[d].pc \in Writing => output'[seals[d].out] = output[seals[d].out]
        BY <2>3, <2>5 DEF Owned, Writing
      <4> QED BY <2>3, <4>1 DEF Partial, Writing
    <3> QED BY <2>6, <3>1, <3>2 DEF Partial
  <2>9. Unedited'
    BY <1>1, <2>3, <2>6 DEF Unedited, SealTypes
  <2>10. Exported'
    <3> SUFFICES ASSUME NEW x \in Outputs, NEW s \in summary[x]  PROVE Describes(x, s)'
      BY <1>1 DEF Exported
    <3>1. s.by \in Runs /\ Describes(x, s)
      BY DEF SealTypes, Exported
    <3>2. x # o /\ s.by # r
      BY <1>1, <2>4, <3>1 DEF Describes
    <3> QED BY <1>1, <2>3, <3>1, <3>2 DEF Describes
  <2> QED BY <2>2, <2>7, <2>8, <2>9, <2>10
<1> QED BY <1>3, <1>4

\* A step of a run that writes into its directory and has not yet summarised.
Writes(r, files) ==
    /\ UNCHANGED <<spec, data, written, manifest, sealing, summary, whole>>
    /\ output' = [output EXCEPT ![seals[r].out].files = files]
    /\ files \subseteq {"result", "failure"}
    /\ seals' = [seals EXCEPT ![r] = seals'[r]]
    /\ seals[r].pc \in Writing /\ seals'[r].pc \in {"clean", "finish"}
    /\ seals'[r].out = seals[r].out
\* Such a step keeps the invariant, when it leaves what its next place expects:
\* other runs write other directories, and this one has no summary.
LEMMA WriteKeeps ==
    ASSUME SealInv, SealTypes', NEW r \in Runs, NEW files, Writes(r, files),
           seals'[r].pc = "clean" => seals'[r].status = "failed" /\ files \subseteq {"result"},
           seals'[r].pc = "finish" => files = Result(seals'[r].status),
           r \in whole => seals'[r].digest = [spec |-> seals'[r].spec, data |-> seals'[r].read]
    PROVE  SealInv'
<1> USE DEF SealInv
<1> DEFINE o == seals[r].out
<1>1. \A d \in Runs \ {r} : seals'[d] = seals[d]
  BY DEF Writes, SealTypes
<1>2. o \in Outputs /\ OwnedBy(r, o)
  BY DEF Owned, Writes, Writing
<1>3. /\ \A x \in Outputs \ {o} : output'[x] = output[x]
      /\ output'[o].by = r /\ output'[o].files = files
  BY <1>2 DEF Writes, SealTypes, OwnedBy
<1>4. \A d \in Runs \ {r} : seals[d].pc \in Writing => seals[d].out \in Outputs \ {o}
  BY <1>2 DEF Owned, OwnedBy, Writing
<1>5. Owned'
  <2>1. summary' = summary /\ seals'[r].out = o
    BY DEF Writes
  <2>2. \A d \in Runs : seals'[d].pc \notin {"idle", "done"} => seals'[d].out \in Outputs
    BY <1>1, <1>2, <2>1 DEF Owned
  <2>3. ASSUME NEW d \in Runs \ {r}, seals'[d].pc \in Writing
        PROVE  OwnedBy(d, seals[d].out)'
    <3>1. seals'[d] = seals[d] /\ seals[d].out \in Outputs \ {o} /\ OwnedBy(d, seals[d].out)
      BY <1>1, <1>4, <2>3 DEF Owned
    <3> QED BY <1>3, <2>1, <3>1 DEF OwnedBy
  <2>4. OwnedBy(r, seals[r].out)'
    BY <1>2, <1>3, <2>1 DEF OwnedBy, Writes
  <2>5. \A x \in Outputs : output'[x].by = NoRun => summary'[x] = {}
    BY <1>2, <1>3, <2>1 DEF Owned, OwnedBy
  <2> QED BY <2>2, <2>3, <2>4, <2>5 DEF Owned
<1>6. Partial'
  <2> SUFFICES ASSUME NEW d \in Runs \ {r}  PROVE
        /\ seals[d].pc = "analyse" => output'[seals[d].out].files = {}
        /\ seals[d].pc = "clean" =>
             seals[d].status = "failed" /\ output'[seals[d].out].files \subseteq {"result"}
        /\ seals[d].pc = "finish" => output'[seals[d].out].files = Result(seals[d].status)
    BY <1>1, <1>3 DEF Partial, Writes
  <2> QED BY <1>3, <1>4 DEF Partial, Writing
<1>7. Unedited'
  BY <1>1 DEF Unedited, Writes, SealTypes
<1>8. Exported'
  <2> SUFFICES ASSUME NEW x \in Outputs, NEW s \in summary[x]  PROVE Describes(x, s)'
    BY DEF Exported, Writes
  <2>1. s.by \in Runs /\ Describes(x, s)
    BY DEF SealTypes, Exported
  <2>2. x # o /\ s.by # r
    BY <1>2, <2>1 DEF Describes, OwnedBy, Writes, Writing
  <2> QED BY <1>1, <1>3, <2>1, <2>2 DEF Describes, Writes
<1> QED BY <1>5, <1>6, <1>7, <1>8

\* run_kind and failure_only_output.
LEMMA AnalysisSeals ==
    ASSUME SealInv, NEW r \in Runs, S!Analyses(r) \/ S!AnalysisFails(r) \/ S!FailureOnly(r)
    PROVE  SealInv'
<1> USE DEF SealInv
<1>1. /\ UNCHANGED <<spec, data, written, manifest, sealing, summary, whole>>
      /\ seals[r].pc \in {"analyse", "clean"} /\ seals[r] \in [pc : Steps, digest : S!Digests,
            out : Outputs \union {NoRun}, spec : S!Versions, read : S!Versions, status : S!Statuses]
  BY DEF S!Analyses, S!AnalysisFails, S!FailureOnly, S!evidence, S!sealed, S!At, SealTypes
<1>2. seals[r].out \in Outputs
  BY <1>1 DEF Owned
<1>3. output[seals[r].out] \in [by : Runs \union {NoRun}, files : SUBSET S!Names]
  BY <1>2 DEF SealTypes
<1>4. CASE S!Analyses(r)
  <2>1. seals' = [seals EXCEPT ![r].pc = "finish", ![r].read = data] /\ seals[r].pc = "analyse"
    BY <1>4 DEF S!Analyses, S!At
  <2>2. Writes(r, {"result"})
    BY <1>1, <1>2, <1>4, <2>1 DEF Writes, S!Analyses, S!Adds, Partial, SealTypes, Writing
  <2>3. SealTypes'
    BY <1>1, <1>2, <1>3, <2>1, <2>2 DEF SealTypes, Writes, Steps, S!Names
  <2>4. /\ seals'[r].pc = "finish" /\ seals'[r].status = "analysed"
        /\ r \in whole => seals'[r].digest = [spec |-> seals'[r].spec, data |-> seals'[r].read]
    BY <1>1, <2>1 DEF Partial, Unedited, SealTypes
  <2> QED BY <2>2, <2>3, <2>4, WriteKeeps DEF Result
<1>5. CASE S!AnalysisFails(r)
  <2>1. seals' = [seals EXCEPT ![r].pc = "clean", ![r].status = "failed", ![r].read = data]
        /\ seals[r].pc = "analyse"
    BY <1>5 DEF S!AnalysisFails, S!At
  <2>2. PICK f \in SUBSET {"result"} : Writes(r, f)
    BY <1>1, <1>2, <1>5, <2>1 DEF Writes, S!AnalysisFails, S!Adds, Partial, SealTypes, Writing
  <2>3. SealTypes'
    BY <1>1, <1>2, <1>3, <2>1, <2>2 DEF SealTypes, Writes, Steps, S!Names, S!Statuses
  <2>4. /\ seals'[r].pc = "clean" /\ seals'[r].status = "failed"
        /\ r \in whole => seals'[r].digest = [spec |-> seals'[r].spec, data |-> seals'[r].read]
    BY <1>1, <2>1 DEF Unedited, SealTypes
  <2> QED BY <2>2, <2>3, <2>4, WriteKeeps DEF Result
<1>6. CASE S!FailureOnly(r)
  <2>1. seals[r].pc = "clean" /\ seals[r].status = "failed"
    BY <1>6 DEF S!FailureOnly, S!At, Partial
  <2>2. CASE output' = [output EXCEPT ![seals[r].out].files = {}] /\ UNCHANGED seals
    <3>1. Writes(r, {})
      BY <1>1, <2>1, <2>2 DEF Writes, SealTypes, Writing
    <3>2. SealTypes'
      BY <1>1, <1>2, <1>3, <2>2 DEF SealTypes
    <3>3. r \in whole => seals'[r].digest = [spec |-> seals'[r].spec, data |-> seals'[r].read]
      BY <2>1, <2>2 DEF Unedited
    <3> QED BY <2>1, <2>2, <3>1, <3>2, <3>3, WriteKeeps
  <2>3. CASE /\ output[seals[r].out].files = {} /\ S!Adds(r, {"failure"})
             /\ S!Goes(r, "finish")
    <3>1. seals' = [seals EXCEPT ![r].pc = "finish"] /\ seals'[r] = [seals[r] EXCEPT !.pc = "finish"]
      BY <2>3 DEF S!Goes, SealTypes
    <3>2. Writes(r, {"failure"})
      BY <1>1, <1>2, <2>1, <2>3, <3>1 DEF Writes, SealTypes, Writing, S!Adds
    <3>3. SealTypes'
      BY <1>1, <1>2, <1>3, <3>1, <3>2 DEF SealTypes, Writes, Steps, S!Names
    <3>4. r \in whole => seals'[r].digest = [spec |-> seals'[r].spec, data |-> seals'[r].read]
      BY <1>1, <2>1, <3>1 DEF Unedited
    <3>5. seals'[r].pc = "finish" /\ seals'[r].status = "failed"
      BY <1>1, <2>1, <3>1
    <3> QED BY <3>2, <3>3, <3>4, <3>5, WriteKeeps DEF Result
  <2> QED BY <1>6, <2>2, <2>3 DEF S!FailureOnly, S!Cleared
<1> QED BY <1>4, <1>5, <1>6

\* The summary, after which its run is done and nobody writes the directory.
LEMMA SummarySeals == ASSUME S!Allowed, SealInv, NEW r \in Runs, S!Summarises(r)  PROVE SealInv'
<1> USE DEF SealInv
<1> DEFINE o == seals[r].out
           new == [status |-> seals[r].status, by |-> r, digest |-> seals[r].digest,
                   spec |-> seals[r].spec, read |-> seals[r].read, artifacts |-> output[o].files]
<1>1. /\ UNCHANGED <<spec, data, written, manifest, sealing, whole>>
      /\ seals' = [seals EXCEPT ![r].pc = "done"] /\ seals[r].pc = "finish"
  BY DEF S!Summarises, S!evidence, S!sealed, S!At, S!Goes
<1>2. /\ o \in Outputs /\ OwnedBy(r, o) /\ output[o].files = Result(seals[r].status)
      /\ r \in whole => seals[r].digest = [spec |-> seals[r].spec, data |-> seals[r].read]
  BY <1>1 DEF Owned, Partial, Writing, Unedited
<1>3. /\ summary' = [summary EXCEPT ![o] = {new}]
      /\ output' = [output EXCEPT ![o].files = @ \union {"summary"}]
  BY <1>2 DEF S!Summarises, OwnedBy, S!Adds
<1>4. new \in [status : S!Statuses, by : Runs, digest : S!Digests,
               spec : S!Versions, read : S!Versions, artifacts : SUBSET S!Names]
  BY <1>2 DEF SealTypes
<1>5. /\ \A d \in Runs \ {r} : seals'[d] = seals[d]
      /\ seals'[r].pc = "done"
      /\ \A x \in Outputs \ {o} : output'[x] = output[x] /\ summary'[x] = summary[x]
      /\ output'[o].by = r /\ output'[o].files = output[o].files \union {"summary"}
      /\ summary'[o] = {new}
  <2>1. output[o].by = r
    BY <1>2 DEF OwnedBy
  <2> HIDE DEF new
  <2> QED BY <1>1, <1>2, <1>3, <2>1 DEF SealTypes
<1>6. SealTypes'
  <2>1. output' \in [Outputs -> [by : Runs \union {NoRun}, files : SUBSET S!Names]]
    BY <1>2, <1>3 DEF SealTypes, S!Names
  <2>2. seals' \in [Runs -> [pc : Steps, digest : S!Digests, out : Outputs \union {NoRun},
                           spec : S!Versions, read : S!Versions, status : S!Statuses]]
    BY <1>1 DEF SealTypes, Steps
  <2> HIDE DEF new
  <2> QED BY <1>1, <1>2, <1>3, <1>4, <2>1, <2>2 DEF SealTypes
<1>7. \A d \in Runs \ {r} : seals[d].pc \in Writing => seals[d].out \in Outputs \ {o}
  BY <1>2 DEF Owned, OwnedBy, Writing
<1>8. Owned'
  <2> HIDE DEF new, o
  <2>2. \A d \in Runs : seals'[d].pc \notin {"idle", "done"} => seals'[d].out \in Outputs
    BY <1>5 DEF Owned
  <2>3. ASSUME NEW d \in Runs, seals'[d].pc \in Writing
        PROVE  OwnedBy(d, seals[d].out)'
    <3>1. d # r
      BY <1>5, <2>3 DEF Writing
    <3>2. seals'[d] = seals[d] /\ seals[d].out \in Outputs \ {o} /\ OwnedBy(d, seals[d].out)
      BY <1>5, <1>7, <2>3, <3>1 DEF Owned
    <3> QED BY <1>5, <3>2 DEF OwnedBy
  <2>4. \A x \in Outputs : output'[x].by = NoRun => summary'[x] = {}
    <3>1. r # NoRun
      BY DEF S!Allowed
    <3> QED BY <1>2, <1>5, <3>1 DEF Owned
  <2> QED BY <2>2, <2>3, <2>4 DEF Owned
<1>9. Partial'
  <2> HIDE DEF new, o
  <2> SUFFICES ASSUME NEW d \in Runs \ {r}  PROVE
        /\ seals[d].pc = "analyse" => output'[seals[d].out].files = {}
        /\ seals[d].pc = "clean" =>
             seals[d].status = "failed" /\ output'[seals[d].out].files \subseteq {"result"}
        /\ seals[d].pc = "finish" => output'[seals[d].out].files = Result(seals[d].status)
    BY <1>5 DEF Partial
  <2> QED BY <1>5, <1>7 DEF Partial, Writing
<1>10. Unedited'
  BY <1>1, <1>5 DEF Unedited, SealTypes
<1>11. Exported'
  <2> SUFFICES ASSUME NEW x \in Outputs, NEW s \in summary'[x]  PROVE Describes(x, s)'
    BY DEF Exported
  <2>1. CASE x = o
    BY <1>1, <1>2, <1>5, <2>1 DEF Describes
  <2>2. CASE x # o
    <3> HIDE DEF new
    <3>1. s \in summary[x] /\ output'[x] = output[x]
      BY <1>5, <2>2
    <3>2. s.by \in Runs /\ Describes(x, s)
      BY <3>1 DEF SealTypes, Exported
    <3>3. s.by # r
      BY <1>1, <3>2 DEF Describes
    <3> QED BY <1>1, <1>5, <3>1, <3>2, <3>3 DEF Describes
  <2> QED BY <2>1, <2>2
<1> QED BY <1>6, <1>8, <1>9, <1>10, <1>11

\* Every step of owners and runs.
LEMMA SealNext == ASSUME S!Allowed  PROVE SealInv /\ [S!Next]_S!vars => SealInv'
<1> SUFFICES ASSUME SealInv, [S!Next]_S!vars  PROVE SealInv'
  OBVIOUS
<1>1. CASE UNCHANGED S!vars
  <2> USE <1>1 DEF S!vars, S!evidence, S!sealed, S!exported, SealInv
  <2>1. SealTypes'
    BY DEF SealTypes
  <2>2. Owned' /\ Partial' /\ Unedited'
    BY DEF Owned, OwnedBy, Partial, Unedited
  <2>3. Exported'
    BY DEF Exported, Describes
  <2> QED BY <2>1, <2>2, <2>3
<1>2. CASE OwnerStep
  BY <1>2, OwnerSeals
<1>3. ASSUME NEW r \in Runs, S!Named(r)  PROVE SealInv'
  BY <1>3, NamedSeals
<1>4. ASSUME NEW r \in Runs, S!Inspected(r) \/ S!SpecRead(r) \/ S!Killed(r)  PROVE SealInv'
  BY <1>4, InspectSeals
<1>5. ASSUME NEW r \in Runs, S!MakesOutput(r)  PROVE SealInv'
  BY <1>5, MakeSeals
<1>6. ASSUME NEW r \in Runs, S!Analyses(r) \/ S!AnalysisFails(r) \/ S!FailureOnly(r)  PROVE SealInv'
  BY <1>6, AnalysisSeals
<1>7. ASSUME NEW r \in Runs, S!Summarises(r)  PROVE SealInv'
  BY <1>7, SummarySeals
<1> QED BY <1>1, <1>2, <1>3, <1>4, <1>5, <1>6, <1>7 DEF S!Next, OwnerStep

\* What is exported is one run's (performance_bundle.run, failure_only_output): a
\* directory with a summary holds what that run listed and nothing else, a failed run
\* its report alone, any other the result of the evidence that was sealed, if nobody
\* edited it meanwhile; for any runs, directories, kills and edits.
THEOREM BundleWhole == S!Spec => []S!ExportWhole
<1>1. S!Init => SealInv
  BY SealInit, DecisionsAssumption
<1>2. SealInv /\ [S!Next]_S!vars => SealInv'
  BY SealNext, DecisionsAssumption
<1>3. SealInv => S!ExportWhole
  BY DEF SealInv, Exported, Describes, S!ExportWhole, Result
<1> QED BY <1>1, <1>2, <1>3, PTL DEF S!Spec

-----------------------------------------------------------------------------
(* What a patch does when it is applied: Plans, for any sizes, plans and edits.

   The limits were weighed when the plan was made, the patch lands later. What a
   plan says of its own target is settled once and for all (Fitting, Narrow), and
   the test of the base carries it to the Deployment.                         *)

PlanTypes ==
    /\ live \in P!Templates /\ planned \in P!Templates /\ rendered \in P!Templates
    /\ used \in Uses
    /\ seen \subseteq [pod : P!Templates, used : Uses, pinned : BOOLEAN, fresh : BOOLEAN]
    /\ pinned \in BOOLEAN
    /\ plans \subseteq P!Proposed

Fitting == \A p \in plans :
    /\ p.axis = "loading" =>
        /\ p.reserve + p.to.threads * TP * Each <= p.to.memory
        /\ p.to.threads * TP <= Cpus
    /\ p.axis = "compile" =>
        /\ p.reserve + p.to.workers * TP * Each <= p.to.memory
        /\ p.to.workers * TP < Cpus
    /\ p.axis \in {"loading", "compile"} => p.to.memory = p.base.memory

NarrowPlan(p) == \A f \in P!Fields : p.to[f] # p.base[f] => f \in P!About(p.axis)
Narrow == \A p \in plans : NarrowPlan(p)

PlanInv == PlanTypes /\ Fitting /\ Narrow /\ P!AppliedFits

\* What fits a quotient fits the whole.
LEMMA DivFits ==
    ASSUME NEW n \in Nat, NEW a \in Int, NEW b \in Nat \ {0}, n <= a \div b
    PROVE  n * b <= a
<1> DEFINE q == a \div b
<1>1. q \in Int /\ q * b <= a /\ n <= q
  OBVIOUS
<1>2. n * b <= q * b
  <2> HIDE DEF q
  <2>1. q - n \in Nat
    BY <1>1
  <2>2. (q - n) * b \in Nat
    BY <2>1
  <2> QED BY <1>1, <2>2
<1>3. n * b \in Int /\ q * b \in Int
  BY <1>1
<1> QED BY <1>1, <1>2, <1>3

\* The smallest of three bounds is none above any.
LEMMA SmallestBelow ==
    ASSUME NEW a \in Int, NEW b \in Int, NEW c \in Int, NEW n \in Int,
           n <= P!Smallest({a, b, c})
    PROVE  n <= b /\ n <= c
<1> DEFINE three == {a, b, c}
<1>1. \E x \in three : \A y \in three : x <= y
  <2>1. CASE a <= b /\ a <= c
    BY <2>1
  <2>2. CASE b <= a /\ b <= c
    BY <2>2
  <2>3. CASE c <= a /\ c <= b
    BY <2>3
  <2> QED BY <2>1, <2>2, <2>3
<1>2. P!Smallest(three) \in three /\ \A y \in three : P!Smallest(three) <= y
  BY <1>1 DEF P!Smallest
<1> QED BY <1>2

\* There is no plan at first, and no patch applied.
LEMMA PlanInit == ASSUME P!Allowed  PROVE P!Init => PlanInv
BY DEF P!Allowed, P!Init, P!Untouched, PlanInv, PlanTypes, Fitting, Narrow, P!AppliedFits

\* What Put leaves in the Deployment, field by field.
LEMMA PutFields ==
    ASSUME NEW axis, NEW to, P!Put(axis, to)
    PROVE  \A f \in P!Fields : live'[f] = IF f \in P!Replaced(axis) THEN to[f] ELSE live[f]
BY DEF P!Put

\* It is a template again.
LEMMA PutTypes ==
    ASSUME NEW axis, NEW to \in P!Templates, live \in P!Templates, P!Put(axis, to)
    PROVE  live' \in P!Templates
BY DEF P!Put, P!Templates, P!Fields, P!Args

Evidenced == [pod : P!Templates, used : Uses, pinned : BOOLEAN, fresh : BOOLEAN]

\* loading_plan and its limits.
LEMMA LoadingFits ==
    ASSUME P!Allowed, rendered \in P!Templates, NEW e \in Evidenced, NEW p \in P!Loading(e)
    PROVE  /\ p \in P!Proposed /\ p.axis = "loading"
           /\ p.to.memory = p.base.memory
           /\ p.reserve + p.to.threads * TP * Each <= p.to.memory
           /\ p.to.threads * TP <= Cpus
           /\ NarrowPlan(p)
<1>1. PICK n \in Threads :
        /\ P!Single(e) /\ n <= P!MostThreads(e)
        /\ p = [axis |-> "loading", base |-> rendered, to |-> [rendered EXCEPT !.threads = n],
                reserve |-> P!ReserveOf(e)]
  BY DEF P!Loading, P!Plan
<1> DEFINE res == P!ReserveOf(e)
           mem == e.pod.memory
<1>2. /\ n \in Nat /\ Cpus \in Nat /\ TP \in Nat \ {0} /\ Each \in Nat \ {0} /\ res \in Nat
      /\ mem \in Nat /\ mem = rendered.memory
  BY <1>1 DEF P!Allowed, Evidenced, P!Templates, P!ReserveOf, P!Larger, P!Single
<1>3. Each * TP \in Nat \ {0}
  BY <1>2
<1>4. n <= Cpus \div TP /\ n <= (mem - res) \div (Each * TP)
  <2>1. Cpus \div TP \in Int /\ (mem - res) \div (Each * TP) \in Int
    BY <1>2, <1>3
  <2>2. n <= P!Smallest({64, Cpus \div TP, (mem - res) \div (Each * TP)})
    BY <1>1 DEF P!MostThreads
  <2> HIDE DEF mem, res
  <2> QED BY <1>2, <2>1, <2>2, SmallestBelow
<1>5. n * TP <= Cpus /\ n * (Each * TP) <= mem - res
  <2>1. mem - res \in Int
    BY <1>2
  <2> HIDE DEF mem, res
  <2>2. n * TP <= Cpus
    <3>1. n <= Cpus \div TP /\ n \in Nat /\ Cpus \in Int /\ TP \in Nat \ {0}
      BY <1>2, <1>4
    <3> QED BY <3>1, DivFits
  <2>3. n * (Each * TP) <= mem - res
    BY <1>2, <1>3, <1>4, <2>1, DivFits
  <2> QED BY <2>2, <2>3
<1>6. n * (Each * TP) = n * TP * Each
  BY <1>2
<1>7. res + n * TP * Each <= mem
  <2> HIDE DEF mem, res
  <2> DEFINE x == n * (Each * TP)
  <2>1. x \in Nat /\ x <= mem - res
    BY <1>2, <1>3, <1>5
  <2>2. x = n * TP * Each
    BY <1>6
  <2> HIDE DEF x
  <2> QED BY <1>2, <2>1, <2>2
<1>8. /\ p.to.threads = n /\ p.to.memory = rendered.memory /\ p.base = rendered /\ p.reserve = res
      /\ p.axis = "loading"
  BY <1>1 DEF P!Templates
<1>9. p \in P!Proposed
  BY <1>1, <1>2 DEF P!Templates, P!Proposed, P!Axes
<1>10. NarrowPlan(p)
  BY <1>1 DEF NarrowPlan, P!Templates, P!Fields, P!Args, P!About
<1> QED BY <1>2, <1>5, <1>7, <1>8, <1>9, <1>10

\* model_kernels.plan and its limits.
LEMMA CompileFits ==
    ASSUME P!Allowed, rendered \in P!Templates, NEW e \in Evidenced, NEW p \in P!Compile(e)
    PROVE  /\ p \in P!Proposed /\ p.axis = "compile"
           /\ p.to.memory = p.base.memory
           /\ p.reserve + p.to.workers * TP * Each <= p.to.memory
           /\ p.to.workers * TP < Cpus
           /\ NarrowPlan(p)
<1>1. PICK n \in Threads, g \in {0, 2} :
        /\ P!Single(e) /\ n <= P!MostWorkers(e)
        /\ p = [axis |-> "compile", base |-> rendered,
                to |-> [rendered EXCEPT !.workers = n, !.graph = g], reserve |-> Spare]
  <2>1. PICK n \in {m \in Threads : /\ P!Single(e) /\ Spare >= e.used /\ rendered.graph = 0
                                    /\ m <= P!MostWorkers(e)} :
            p \in {P!Plan("compile", [rendered EXCEPT !.workers = n, !.graph = g], Spare) :
                      g \in {0, 2}}
    BY DEF P!Compile
  <2> QED BY <2>1 DEF P!Plan
<1> DEFINE mem == e.pod.memory
<1>2. /\ n \in Nat /\ Cpus \in Nat /\ TP \in Nat \ {0} /\ Each \in Nat \ {0} /\ Spare \in Nat
      /\ mem \in Nat /\ mem = rendered.memory
  BY <1>1 DEF P!Allowed, Evidenced, P!Templates, P!Single
<1>3. Each * TP \in Nat \ {0}
  BY <1>2
<1>4. n <= (Cpus - 1) \div TP /\ n <= (mem - Spare) \div (Each * TP)
  <2>1. (Cpus - 1) \div TP \in Int /\ (mem - Spare) \div (Each * TP) \in Int
    BY <1>2, <1>3
  <2>2. n <= P!Smallest({16, (Cpus - 1) \div TP, (mem - Spare) \div (Each * TP)})
    BY <1>1 DEF P!MostWorkers
  <2> HIDE DEF mem
  <2> QED BY <1>2, <2>1, <2>2, SmallestBelow
<1>5. n * TP <= Cpus - 1 /\ n * (Each * TP) <= mem - Spare
  <2>1. mem - Spare \in Int /\ Cpus - 1 \in Int
    BY <1>2
  <2> HIDE DEF mem
  <2>2. n * TP <= Cpus - 1
    BY <1>2, <1>4, <2>1, DivFits
  <2>3. n * (Each * TP) <= mem - Spare
    BY <1>2, <1>3, <1>4, <2>1, DivFits
  <2> QED BY <2>2, <2>3
<1>6. n * (Each * TP) = n * TP * Each
  BY <1>2
<1>7. Spare + n * TP * Each <= mem /\ n * TP < Cpus
  <2> HIDE DEF mem
  <2> DEFINE x == n * (Each * TP)
             y == n * TP
  <2>1. x \in Nat /\ x <= mem - Spare /\ y \in Nat /\ y <= Cpus - 1
    BY <1>2, <1>3, <1>5
  <2>2. x = y * Each
    BY <1>6
  <2> HIDE DEF x, y
  <2>3. Spare + y * Each <= mem /\ y < Cpus
    BY <1>2, <2>1, <2>2
  <2> QED BY <2>3 DEF y
<1>8. /\ p.to.workers = n /\ p.to.memory = rendered.memory /\ p.base = rendered /\ p.reserve = Spare
      /\ p.axis = "compile"
  BY <1>1 DEF P!Templates
<1>9. p \in P!Proposed
  BY <1>1, <1>2 DEF P!Templates, P!Proposed, P!Axes
<1>10. NarrowPlan(p)
  BY <1>1 DEF NarrowPlan, P!Templates, P!Fields, P!Args, P!About
<1> QED BY <1>2, <1>7, <1>8, <1>9, <1>10

\* The other planners change the one thing their plan is about.
OtherPlans(e) == P!Queue(e) \union P!Speculation(e) \union P!Memory(e) \union P!Gemm(e) \union P!Graph(e)
\* A plan that sets one field, which it is about, changes no other.
LEMMA OneField ==
    ASSUME rendered \in P!Templates, NEW axis \in P!Axes, NEW f \in P!About(axis), f \in P!Fields,
           NEW v, [rendered EXCEPT ![f] = v] \in P!Templates, axis \notin {"loading", "compile"},
           NEW p, p = P!Change(axis, f, v)
    PROVE  p \in P!Proposed /\ p.axis \notin {"loading", "compile"} /\ NarrowPlan(p)
<1>1. p = [axis |-> axis, base |-> rendered, to |-> [rendered EXCEPT ![f] = v], reserve |-> 0]
  BY DEF P!Change, P!Plan
<1>2. p \in P!Proposed
  BY <1>1 DEF P!Proposed
<1>3. NarrowPlan(p)
  BY <1>1 DEF P!Templates, P!Fields, P!Args, NarrowPlan
<1> QED BY <1>1, <1>2, <1>3

\* queue_plan, experiment_plan, serving_memory.plan, gemm_profile.plan and
\* graph_profile.plan.
LEMMA OthersNarrow ==
    ASSUME rendered \in P!Templates, NEW e \in Evidenced, NEW p \in OtherPlans(e)
    PROVE  p \in P!Proposed /\ p.axis \notin {"loading", "compile"} /\ NarrowPlan(p)
<1> USE DEF P!About, P!Axes, P!Fields, P!Args
<1>1. CASE p \in P!Queue(e)
  <2>1. p = P!Change("queue", "queue", 1)
    BY <1>1 DEF P!Queue
  <2>2. [rendered EXCEPT !["queue"] = 1] \in P!Templates
    BY DEF P!Templates
  <2> QED BY <2>1, <2>2, OneField
<1>2. CASE p \in P!Speculation(e)
  <2>1. PICK d \in {0, 1} : p = P!Change("speculation", "depth", d)
    BY <1>2 DEF P!Speculation
  <2>2. [rendered EXCEPT !["depth"] = d] \in P!Templates
    BY DEF P!Templates
  <2> QED BY <2>1, <2>2, OneField
<1>3. CASE p \in P!Memory(e)
  <2>1. PICK m \in Memories : p = P!Change("memory", "memory", m)
    BY <1>3 DEF P!Memory
  <2>2. [rendered EXCEPT !["memory"] = m] \in P!Templates
    BY DEF P!Templates
  <2> QED BY <2>1, <2>2, OneField
<1>4. CASE p \in P!Gemm(e)
  <2>1. PICK i \in P!Images : p = P!Change("gemm", "image", i)
    BY <1>4 DEF P!Gemm, P!Images
  <2>2. [rendered EXCEPT !["image"] = i] \in P!Templates
    BY DEF P!Templates
  <2> QED BY <2>1, <2>2, OneField
<1>5. CASE p \in P!Graph(e)
  <2>1. PICK g \in {0, 1, 2, 4} : p = P!Change("graph", "graph", g)
    BY <1>5 DEF P!Graph, P!Templates
  <2>2. [rendered EXCEPT !["graph"] = g] \in P!Templates
    BY DEF P!Templates
  <2> QED BY <2>1, <2>2, OneField
<1> QED BY <1>1, <1>2, <1>3, <1>4, <1>5 DEF OtherPlans

\* A plan fits when it is written, whatever its evidence was.
LEMMA WrittenInv == ASSUME P!Allowed, PlanInv, P!Written  PROVE PlanInv'
<1> USE DEF PlanInv
<1>1. PICK e \in seen : \E q \in P!Planned(e) \ plans : plans' = plans \union {q}
  BY DEF P!Written
<1>2. PICK p \in P!Planned(e) : plans' = plans \union {p}
  BY <1>1
<1>3. e \in Evidenced /\ rendered \in P!Templates
  BY DEF PlanTypes, Evidenced
<1>4. UNCHANGED <<live, planned, used, pinned, rendered, seen, patched, edits>>
  BY DEF P!Written
<1>5. p \in P!Loading(e) \/ p \in P!Compile(e) \/ p \in OtherPlans(e)
  BY DEF P!Planned, OtherPlans
<1>6. /\ p \in P!Proposed /\ NarrowPlan(p)
      /\ p.axis = "loading" =>
            /\ p.reserve + p.to.threads * TP * Each <= p.to.memory
            /\ p.to.threads * TP <= Cpus
      /\ p.axis = "compile" =>
            /\ p.reserve + p.to.workers * TP * Each <= p.to.memory
            /\ p.to.workers * TP < Cpus
      /\ p.axis \in {"loading", "compile"} => p.to.memory = p.base.memory
  <2>1. CASE p \in P!Loading(e)
    BY <1>3, <2>1, LoadingFits
  <2>2. CASE p \in P!Compile(e)
    BY <1>3, <2>2, CompileFits
  <2>3. CASE p \in OtherPlans(e)
    BY <1>3, <2>3, OthersNarrow
  <2> QED BY <1>5, <2>1, <2>2, <2>3
<1>7. PlanTypes'
  BY <1>2, <1>4, <1>6 DEF PlanTypes
<1>8. Fitting'
  BY <1>2, <1>6 DEF Fitting
<1>9. Narrow'
  BY <1>2, <1>6 DEF Narrow, NarrowPlan
<1>10. P!AppliedFits'
  BY <1>4 DEF P!AppliedFits
<1> QED BY <1>7, <1>8, <1>9, <1>10

\* The test of the base: a plan that lands has its own target beside what it found.
LEMMA PatchInv ==
    ASSUME P!Allowed, PlanInv, NEW p \in plans, P!Apply(p) \/ P!Rollback(p)
    PROVE  PlanInv'
<1> USE DEF PlanInv
<1>1. p \in P!Proposed
  BY DEF PlanTypes
<1>2. UNCHANGED <<planned, used, pinned, rendered, seen, plans>>
  BY DEF P!Apply, P!Rollback
<1>3. live' \in P!Templates
  BY <1>1, PutTypes DEF P!Apply, P!Rollback, PlanTypes, P!Proposed
<1>4. PlanTypes' /\ Fitting' /\ Narrow'
  BY <1>2, <1>3 DEF PlanTypes, Fitting, Narrow, NarrowPlan
<1>5. P!AppliedFits'
  <2>1. CASE P!Apply(p) /\ p.axis = "loading"
    <3>1. live = p.base /\ patched'.reserve = p.reserve /\ patched'.axis = "loading"
      BY <2>1 DEF P!Apply, P!Tested
    <3>2. live'["threads"] = p.to["threads"] /\ live'["memory"] = live["memory"]
      BY <2>1 DEF P!Apply, P!Put, P!Replaced, P!Fields, P!Args
    <3>3. /\ p.reserve + p.to.threads * TP * Each <= p.to.memory
          /\ p.to.threads * TP <= Cpus
          /\ p.to.memory = live.memory
      BY <2>1, <3>1 DEF Fitting
    <3> QED BY <3>1, <3>2, <3>3 DEF P!AppliedFits
  <2>2. CASE P!Apply(p) /\ p.axis = "compile"
    <3>1. live = p.base /\ patched'.reserve = p.reserve /\ patched'.axis = "compile"
      BY <2>2 DEF P!Apply, P!Tested
    <3>2. live'["workers"] = p.to["workers"] /\ live'["memory"] = live["memory"]
      BY <2>2 DEF P!Apply, P!Put, P!Replaced, P!Fields, P!Args
    <3>3. /\ p.reserve + p.to.workers * TP * Each <= p.to.memory
          /\ p.to.workers * TP < Cpus
          /\ p.to.memory = live.memory
      BY <2>2, <3>1 DEF Fitting
    <3> QED BY <3>1, <3>2, <3>3 DEF P!AppliedFits
  <2>3. CASE P!Rollback(p) \/ p.axis \notin {"loading", "compile"}
    <3>1. patched'.axis \notin {"loading", "compile"}
      BY <2>3 DEF P!Apply, P!Rollback
    <3> QED BY <3>1 DEF P!AppliedFits
  <2> QED BY <2>1, <2>2, <2>3
<1> QED BY <1>4, <1>5

\* The world moves on, and inputs are read: the plans stay as they are. An edit
\* ends what the last patch stood for.
World == P!Rolls \/ P!Drifts \/ P!Edits \/ P!Renders \/ P!Collects \/ P!Ages
\* These steps keep the invariant.
LEMMA WorldInv == ASSUME P!Allowed, PlanInv, World  PROVE PlanInv'
<1> USE DEF PlanInv
<1>1. UNCHANGED plans
  BY DEF World, P!Rolls, P!Drifts, P!Edits, P!Renders, P!Collects, P!Ages
<1>2. UNCHANGED <<live, patched>> \/ patched'.axis = "none"
  BY DEF World, P!Rolls, P!Drifts, P!Edits, P!Renders, P!Collects, P!Ages, P!Untouched
<1>3. PlanTypes'
  <2>1. CASE P!Rolls
    BY <2>1 DEF P!Rolls, PlanTypes
  <2>2. CASE P!Drifts
    BY <2>2 DEF P!Drifts, PlanTypes
  <2>3. CASE P!Edits
    <3>1. live' \in P!Templates
      BY <2>3 DEF P!Edits, PlanTypes, P!Templates
    <3> QED BY <2>3, <3>1 DEF P!Edits, PlanTypes
  <2>4. CASE P!Renders
    BY <2>4 DEF P!Renders, PlanTypes
  <2>5. CASE P!Collects
    BY <2>5 DEF P!Collects, PlanTypes
  <2>6. CASE P!Ages
    <3>1. PICK e \in seen : seen' = {[e EXCEPT !.fresh = FALSE]}
      BY <2>6 DEF P!Ages
    <3> DEFINE Receipts == [pod : P!Templates, used : Uses, pinned : BOOLEAN, fresh : BOOLEAN]
    <3>2. e \in Receipts
      BY DEF PlanTypes
    <3>3. [e EXCEPT !.fresh = FALSE] \in Receipts
      BY <3>2
    <3> QED BY <2>6, <3>1, <3>3 DEF P!Ages, PlanTypes
  <2> QED BY <2>1, <2>2, <2>3, <2>4, <2>5, <2>6 DEF World
<1>4. Fitting' /\ Narrow'
  BY <1>1 DEF Fitting, Narrow, NarrowPlan
<1>5. P!AppliedFits'
  BY <1>2 DEF P!AppliedFits
<1> QED BY <1>3, <1>4, <1>5

\* Every step, of planners, owners and the world.
LEMMA PlanNext == ASSUME P!Allowed  PROVE PlanInv /\ [P!Next]_P!vars => PlanInv'
<1> SUFFICES ASSUME PlanInv, [P!Next]_P!vars  PROVE PlanInv'
  OBVIOUS
<1>1. CASE UNCHANGED P!vars
  BY <1>1 DEF P!vars, PlanInv, PlanTypes, Fitting, Narrow, NarrowPlan, P!AppliedFits
<1>2. CASE World
  BY <1>2, WorldInv
<1>3. CASE P!Written
  BY <1>3, WrittenInv
<1>4. CASE \E p \in plans : P!Apply(p) \/ P!Rollback(p)
  BY <1>4, PatchInv
<1> QED BY <1>1, <1>2, <1>3, <1>4 DEF P!Next, World

\* Threads and workers that a plan brought into the Deployment fit the memory and the
\* processors deployed with them, beside the reserve (loading_plan, model_kernels.plan):
\* for any sizes, any evidence, however old, and any order of plans, patches,
\* rollbacks and edits.
THEOREM PlanFits == P!Spec => []P!AppliedFits
<1>1. P!Init => PlanInv
  BY PlanInit, DecisionsAssumption
<1>2. PlanInv /\ [P!Next]_P!vars => PlanInv'
  BY PlanNext, DecisionsAssumption
<1>3. PlanInv => P!AppliedFits
  BY DEF PlanInv
<1> QED BY <1>1, <1>2, <1>3, PTL DEF P!Spec

\* No step of an owner, an edit or a tool is a patch that erases something.
LEMMA NoneErased ==
    ASSUME PlanInv, P!Next  PROVE ~P!Erases
<1>1. CASE UNCHANGED live
  BY <1>1 DEF P!Erases
<1>2. CASE P!Edits
  BY <1>2 DEF P!Edits, P!Untouched, P!Erases, P!About
<1>3. ASSUME NEW p \in plans, P!Apply(p) \/ P!Rollback(p)  PROVE ~P!Erases
  <2>1. NarrowPlan(p)
    BY DEF PlanInv, Narrow
  <2>2. patched'.axis = p.axis
    BY <1>3 DEF P!Apply, P!Rollback
  <2>3. CASE P!Apply(p)
    BY <2>1, <2>2, <2>3, PutFields DEF P!Apply, P!Tested, P!Erases, NarrowPlan
  <2>4. CASE P!Rollback(p)
    BY <2>1, <2>2, <2>4, PutFields DEF P!Rollback, P!Tested, P!Erases, NarrowPlan
  <2> QED BY <1>3, <2>3, <2>4
<1> QED
  BY <1>1, <1>2, <1>3 DEF P!Next, P!Rolls, P!Drifts, P!Renders, P!Collects, P!Ages, P!Written

\* A patch or a rollback changes what its plan is about and nothing else, whoever
\* edits the Deployment between plan and patch (the op "test" of every patch).
THEOREM PlanKeeps == P!Spec => P!NothingErased
<1>1. P!Init => PlanInv
  BY PlanInit, DecisionsAssumption
<1>2. PlanInv /\ [P!Next]_P!vars => PlanInv'
  BY PlanNext, DecisionsAssumption
<1>3. PlanInv /\ [P!Next]_P!vars => [~P!Erases]_P!vars
  BY NoneErased
<1> QED BY <1>1, <1>2, <1>3, PTL DEF P!Spec, P!NothingErased

-----------------------------------------------------------------------------
(* What a plan to remove caches says: Cache, for any files, links, namespaces and
   changes.

   A sum is the size of a set of units, so that it is compared with a set of files
   by a bijection. A row that may be reclaimed counts the files that have one link,
   which is in its namespace: no two rows count the same file, and nothing else
   holds it (Reclaims). Rows are of the registry and, while no file is touched, of
   the links as they are (Rowed); an inventory ends the walk (Inventoried).   *)

\* The instance has its own copy of the definitions of FiniteSets.
LEMMA SameSize ==
    ASSUME NEW T
    PROVE  C!Cardinality(T) = Cardinality(T) /\ (C!IsFiniteSet(T) <=> IsFiniteSet(T))
<1>1. C!Cardinality(T) = Cardinality(T)
  BY Zenon DEF Cardinality, C!Cardinality
<1>2. C!IsFiniteSet(T) <=> IsFiniteSet(T)
  BY Zenon DEF IsFiniteSet, C!IsFiniteSet
<1>3. QED
  BY <1>1, <1>2

LEMMA SumIs == ASSUME NEW X, NEW count  PROVE C!Sum(count, X) = Cardinality(C!Units(count, X))
  BY SameSize DEF C!Sum

LEMMA FewFiles ==
    ASSUME C!Allowed, NEW T \in SUBSET Files
    PROVE  IsFiniteSet(T) /\ Cardinality(T) \in Nat
<1>1. IsFiniteSet(Files)
  BY SameSize DEF C!Allowed
<1>2. IsFiniteSet(T)
  BY <1>1, FS_Subset
<1>3. QED
  BY <1>2, FS_CardinalityType

\* No unit is counted twice.
LEMMA FiniteUnits ==
    ASSUME NEW X, IsFiniteSet(X), NEW count, NEW m \in Nat, \A x \in X : count[x] \in 0..m
    PROVE  IsFiniteSet(C!Units(count, X)) /\ C!Sum(count, X) \in Nat
<1>1. IsFiniteSet(X \X (1..m))
  <2>1. IsFiniteSet(1..m)
    BY FS_Interval
  <2>2. QED
    BY <2>1, FS_Product
<1>2. C!Units(count, X) \in SUBSET (X \X (1..m))
  BY DEF C!Units
<1>3. IsFiniteSet(C!Units(count, X))
  BY <1>1, <1>2, FS_Subset
<1>4. QED
  BY <1>3, SumIs, FS_CardinalityType

\* The links of a file that has one are in one place.
LEMMA OneLink ==
    ASSUME C!Allowed, NEW f \in Files, links[f] \in [C!Places -> 0..2], C!Nlink(f) = 1,
           NEW p \in C!Places, links[f][p] > 0
    PROVE  \A q \in C!Places \ {p} : links[f][q] = 0
<1> DEFINE U == C!Units(links[f], C!Places)
<1>1. IsFiniteSet(C!Places)
  <2>1. Len(Order) \in Nat /\ DOMAIN Order = 1..Len(Order)
    BY LenProperties DEF C!Allowed
  <2>2. IsFiniteSet(1..Len(Order))
    BY <2>1, FS_Interval
  <2> DEFINE at == [n \in DOMAIN Order |-> Order[n]]
  <2>3. at \in Surjection(DOMAIN Order, C!Namespaces)
    BY DEF Surjection, C!Namespaces
  <2>4. IsFiniteSet(C!Namespaces)
    BY <2>1, <2>2, <2>3, FS_Surjection
  <2>5. QED
    BY <2>4, FS_AddElement DEF C!Places
<1>2. IsFiniteSet(U)
  BY <1>1, FiniteUnits
<1>3. PICK u : U = {u}
  <2>1. Cardinality(U) = 1
    BY SumIs DEF C!Nlink
  <2> HIDE DEF U
  <2>2. QED
    BY <1>2, <2>1, FS_Singleton
<1> SUFFICES ASSUME NEW q \in C!Places \ {p}, links[f][q] # 0  PROVE FALSE
  OBVIOUS
<1>4. <<p, 1>> \in U /\ <<q, 1>> \in U
  BY DEF C!Units
<1>5. QED
  BY <1>3, <1>4

Physical(rs) == [n \in DOMAIN rs |-> rs[n].physical]

CacheTypes ==
    /\ links \in [Files -> [C!Places -> 0..2]]
    /\ registry \in [C!Namespaces -> C!Liveness]
    /\ entries \in Seq(C!Liveness)
    /\ entries = <<>> \/ DOMAIN entries = DOMAIN Order
    /\ rows \in Seq(C!Rows) /\ Len(rows) <= Len(entries)
    /\ inodes \in SUBSET Files

\* What was walked through, inode by inode.
CountedIn ==
    /\ IsFiniteSet(C!Units(Physical(rows), DOMAIN rows))
    /\ C!Sum(Physical(rows), DOMAIN rows) = Cardinality(inodes)

\* A namespace that may be removed was recorded as inactive; what it counts as its own
\* are the files that have their one link there.
Rowed == \A n \in DOMAIN rows :
    /\ rows[n].state = "managed-disposable" => entries[n] = "inactive"
    /\ still /\ rows[n].reclaimable > 0 =>
         rows[n].reclaimable = Cardinality(C!Exclusive(Order[n]))

\* An inventory is of the walk and the links as they are: both have ended.
Inventoried == \A i \in inventory : entries # <<>> /\ i.rows = rows /\ i.free = C!Free

\* A plan is of the inventory.
PlanOf(i) == [status |-> C!Status(i), disposable |-> C!Disposable(i),
              remove |-> {Order[n] : n \in C!Candidates(i)}]
Planned == \A q \in prune : \E i \in inventory : q = PlanOf(i)

CacheInv == CacheTypes /\ CountedIn /\ Rowed /\ Inventoried /\ Planned

\* CountedIn of the next state, without the sum.
LEMMA CountedLater ==
    ASSUME IsFiniteSet(C!Units(Physical(rows), DOMAIN rows)'),
           Cardinality(C!Units(Physical(rows), DOMAIN rows)') = Cardinality(inodes')
    PROVE  CountedIn'
<1>1. C!Sum(Physical(rows), DOMAIN rows)' = Cardinality(C!Units(Physical(rows), DOMAIN rows)')
  BY SameSize DEF C!Sum, C!Units, Physical
<1>2. QED
  BY <1>1 DEF CountedIn

\* Nothing was walked through yet.
LEMMA NoRows ==
    ASSUME rows = <<>>, inodes = {}
    PROVE  CountedIn /\ Rowed
<1>1. DOMAIN rows = {}
  OBVIOUS
<1>2. C!Units(Physical(rows), DOMAIN rows) = {}
  BY <1>1 DEF C!Units
<1>3. QED
  BY <1>1, <1>2, SumIs, FS_EmptySet DEF CountedIn, Rowed

LEMMA CacheInit == ASSUME C!Allowed  PROVE C!Init => CacheInv
<1> SUFFICES ASSUME C!Init  PROVE CacheInv
  OBVIOUS
<1>1. rows = <<>> /\ inodes = {} /\ entries = <<>> /\ inventory = {} /\ prune = {}
  BY DEF C!Init
<1>2. CacheTypes
  BY <1>1, EmptySeq DEF C!Init, CacheTypes
<1>3. CountedIn /\ Rowed
  BY <1>1, NoRows
<1>4. QED
  BY <1>1, <1>2, <1>3 DEF CacheInv, Inventoried, Planned

\* A namespace that is walked through counts what no earlier one had.
LEMMA WalkCounts ==
    ASSUME C!Allowed, CacheInv, C!Walks
    PROVE  CacheTypes' /\ CountedIn' /\ Rowed'
<1> DEFINE n == Len(rows) + 1
           p == Order[n]
           row == C!Row(p, entries[n])
<1>1. /\ rows' = Append(rows, row) /\ inodes' = inodes \union C!InPlace(p)
      /\ UNCHANGED <<links, registry, entries, still>>
      /\ Len(rows) < Len(entries)
  BY DEF C!Walks, C!files
<1>2. /\ Len(rows) \in Nat /\ DOMAIN rows = 1..Len(rows)
      /\ Len(entries) \in Nat /\ DOMAIN entries = 1..Len(entries)
  BY LenProperties DEF CacheInv, CacheTypes
<1>3. n \in DOMAIN entries /\ n \notin DOMAIN rows /\ n \in Nat
  BY <1>1, <1>2
<1>4. n \in DOMAIN Order /\ entries[n] \in C!Liveness
  <2>1. entries # <<>>
    BY <1>3
  <2>2. QED
    BY <1>2, <1>3, <2>1, ElementOfSeq DEF CacheInv, CacheTypes
<1>5. /\ IsFiniteSet(inodes) /\ IsFiniteSet(C!Unseen(p))
      /\ Cardinality(C!Unseen(p)) \in Nat /\ Cardinality(C!Shared(p)) \in Nat
      /\ Cardinality(C!Exclusive(p)) \in Nat
  <2>1. \A T \in SUBSET Files : IsFiniteSet(T) /\ Cardinality(T) \in Nat
    BY FewFiles
  <2>2. inodes \in SUBSET Files /\ C!Unseen(p) \in SUBSET Files
        /\ C!Shared(p) \in SUBSET Files /\ C!Exclusive(p) \in SUBSET Files
    BY DEF CacheInv, CacheTypes, C!Unseen, C!Shared, C!Exclusive, C!InPlace
  <2>3. QED
    BY <2>1, <2>2
<1>6. /\ row.state = C!StateOf(p, entries[n]) /\ row.physical = Cardinality(C!Unseen(p))
      /\ row.reclaimable = C!Reclaimable(p, entries[n])
  BY SameSize DEF C!Row
<1>7. row \in C!Rows
  <2>1. C!StateOf(p, entries[n]) \in C!States
    BY DEF C!StateOf, C!States
  <2>2. C!Reclaimable(p, entries[n]) \in Nat
    BY <1>5, SameSize DEF C!Reclaimable
  <2>3. QED
    BY <1>5, <2>1, <2>2, SameSize DEF C!Row, C!Rows
<1> HIDE DEF row, p, n
<1>8. /\ rows' \in Seq(C!Rows) /\ Len(rows') = Len(rows) + 1
      /\ DOMAIN rows' = DOMAIN rows \union {n} /\ rows'[n] = row
      /\ \A m \in DOMAIN rows : rows'[m] = rows[m]
  BY <1>1, <1>2, <1>7 DEF CacheInv, CacheTypes, n
<1>9. CacheTypes'
  <2>1. inodes' \in SUBSET Files
    BY <1>1 DEF CacheInv, CacheTypes, C!InPlace
  <2>2. QED
    BY <1>1, <1>2, <1>8, <2>1 DEF CacheInv, CacheTypes
<1>10. CountedIn'
  <2> DEFINE old == C!Units(Physical(rows), DOMAIN rows)
             new == C!Units(Physical(rows'), DOMAIN rows')
             c == Cardinality(C!Unseen(p))
             more == {n} \X (1..c)
  <2>1. /\ \A m \in DOMAIN rows : Physical(rows')[m] = Physical(rows)[m]
        /\ Physical(rows')[n] = c
    BY <1>6, <1>8 DEF Physical
  <2>2. new = old \union more
    BY <2>1, <1>8 DEF C!Units
  <2>3. old \intersect more = {}
    BY <1>3 DEF C!Units
  <2>4. c \in Nat
    BY <1>5
  <2>5. IsFiniteSet(old) /\ Cardinality(old) = Cardinality(inodes)
    BY SumIs DEF CacheInv, CountedIn
  <2> HIDE DEF old, new, c
  <2>6. IsFiniteSet(more) /\ Cardinality(more) = c
    <3>1. IsFiniteSet({n}) /\ Cardinality({n}) = 1
      BY FS_Singleton
    <3>2. IsFiniteSet(1..c) /\ Cardinality(1..c) = c
      BY <2>4, FS_Interval
    <3>3. IsFiniteSet({n} \X (1..c)) /\ Cardinality({n} \X (1..c)) = 1 * c
      BY <3>1, <3>2, FS_Product
    <3>4. QED
      BY <3>3, <2>4
  <2> HIDE DEF more
  <2>7. IsFiniteSet(new) /\ Cardinality(new) = Cardinality(inodes) + c
    <3>1. Cardinality(inodes) \in Nat
      BY <1>5, FS_CardinalityType
    <3>2. IsFiniteSet(new)
          /\ Cardinality(new) = Cardinality(old) + Cardinality(more) - Cardinality(old \intersect more)
      BY <2>2, <2>5, <2>6, FS_Union
    <3>3. Cardinality(old \intersect more) = 0
      BY <2>3, FS_EmptySet
    <3>4. QED
      BY <2>4, <2>5, <2>6, <3>1, <3>2, <3>3
  <2>8. Cardinality(inodes') = Cardinality(inodes) + c
    <3>1. inodes' = inodes \union C!Unseen(p) /\ inodes \intersect C!Unseen(p) = {}
      BY <1>1 DEF C!Unseen
    <3>2. Cardinality(inodes) \in Nat
      BY <1>5, FS_CardinalityType
    <3>3. QED
      BY <3>1, <3>2, <1>5, <2>4, FS_Union, FS_EmptySet DEF c
  <2>9. C!Units(Physical(rows), DOMAIN rows)' = new
    BY DEF C!Units, Physical, new
  <2>10. QED
    BY <2>7, <2>8, <2>9, CountedLater
<1>11. Rowed'
  <2> DEFINE own(k) == C!Exclusive(Order[k])
  <2>0. \A k : own(k)' = own(k)
    BY <1>1 DEF C!Exclusive, C!InPlace, C!Nlink, C!Sum, C!Units
  <2> HIDE DEF own
  <2> SUFFICES ASSUME NEW m \in DOMAIN rows'
               PROVE  /\ rows'[m].state = "managed-disposable" => entries[m] = "inactive"
                      /\ still /\ rows'[m].reclaimable > 0 =>
                           rows'[m].reclaimable = Cardinality(own(m))
    BY <1>1, <2>0 DEF Rowed, own
  <2>1. CASE m = n
    BY <2>1, <1>4, <1>6, <1>8, SameSize DEF C!StateOf, C!Reclaimable, C!Liveness, p, own
  <2>2. CASE m # n
    BY <2>2, <1>8 DEF CacheInv, Rowed, own
  <2>3. QED
    BY <2>1, <2>2
<1>12. QED
  BY <1>9, <1>10, <1>11

\* Every step of the inventory, the plan, the compilers and the owner.
LEMMA CacheNext == ASSUME C!Allowed  PROVE CacheInv /\ [C!Next]_C!vars => CacheInv'
<1> SUFFICES ASSUME CacheInv, [C!Next]_C!vars  PROVE CacheInv'
  OBVIOUS
<1> USE DEF CacheInv
<1>1. CASE C!Touched
  <2>1. /\ inventory = {} /\ still' = FALSE
        /\ \E f \in Files, p \in C!Places, k \in 0..2 : links' = [links EXCEPT ![f][p] = k]
        /\ UNCHANGED <<registry, entries, rows, inodes, inventory, prune>>
    BY <1>1 DEF C!Touched, C!Walking, C!walk
  <2>2. links' \in [Files -> [C!Places -> 0..2]]
    BY <2>1 DEF CacheTypes
  <2>3. CacheTypes'
    BY <2>1, <2>2 DEF CacheTypes
  <2>4. CountedIn'
    BY <2>1 DEF CountedIn, C!Sum, C!Units, Physical
  <2>5. Rowed' /\ Inventoried' /\ Planned'
    BY <2>1 DEF Rowed, Inventoried, Planned
  <2>6. QED
    BY <2>3, <2>4, <2>5
<1>2. CASE C!Records
  <2>1. /\ \E p \in C!Namespaces, l \in C!Liveness : registry' = [registry EXCEPT ![p] = l]
        /\ UNCHANGED <<links, entries, rows, inodes, inventory, prune, still>>
    BY <1>2 DEF C!Records, C!walk
  <2>2. CacheTypes'
    BY <2>1 DEF CacheTypes
  <2>3. CountedIn' /\ Rowed'
    BY <2>1 DEF CountedIn, Rowed, C!Sum, C!Units, Physical, C!Exclusive, C!InPlace, C!Nlink
  <2>4. Inventoried' /\ Planned'
    BY <2>1 DEF Inventoried, Planned, C!Free, C!Used, C!Nlink, C!Sum, C!Units
  <2>5. QED
    BY <2>2, <2>3, <2>4
<1>3. CASE C!Begins
  <2>1. /\ entries = <<>>
        /\ entries' = [n \in DOMAIN Order |-> registry[Order[n]]]
        /\ UNCHANGED <<links, registry, rows, inodes, inventory, prune, still>>
    BY <1>3 DEF C!Begins, C!files
  <2>2. rows = <<>> /\ inventory = {} /\ prune = {}
    <3>1. Len(rows) \in Nat /\ Len(rows) <= 0
      BY <2>1, LenProperties DEF CacheTypes
    <3>2. QED
      BY <2>1, <3>1, EmptySeq DEF CacheTypes, Inventoried, Planned
  <2>3. entries' \in Seq(C!Liveness) /\ DOMAIN entries' = DOMAIN Order
    <3>1. Len(Order) \in Nat /\ DOMAIN Order = 1..Len(Order)
      BY LenProperties DEF C!Allowed
    <3>2. \A n \in 1..Len(Order) : registry[Order[n]] \in C!Liveness
      BY <3>1 DEF CacheTypes, C!Namespaces
    <3>3. [n \in 1..Len(Order) |-> registry[Order[n]]] \in Seq(C!Liveness)
      BY <3>1, <3>2, IsASeq
    <3>4. QED
      BY <2>1, <3>1, <3>3
  <2>4. CacheTypes'
    BY <2>1, <2>2, <2>3, LenProperties DEF CacheTypes
  <2>5. CountedIn' /\ Rowed'
    BY <2>1, <2>2 DEF CountedIn, Rowed, C!Sum, C!Units, Physical
  <2>6. QED
    BY <2>1, <2>2, <2>4, <2>5 DEF Inventoried, Planned
<1>4. CASE C!Walks
  <2>1. CacheTypes' /\ CountedIn' /\ Rowed'
    BY <1>4, WalkCounts
  <2>2. inventory = {} /\ inventory' = {} /\ prune' = prune
    BY <1>4 DEF C!Walks, C!Walking
  <2>3. QED
    BY <2>1, <2>2 DEF Inventoried, Planned
<1>5. CASE C!Writes
  <2>1. /\ inventory = {} /\ entries # <<>>
        /\ inventory' = {[rows |-> rows, free |-> C!Free, registry |-> registry]}
        /\ UNCHANGED <<links, registry, entries, rows, inodes, prune, still>>
    BY <1>5 DEF C!Writes, C!Walking, C!files, C!walk
  <2>2. CacheTypes'
    BY <2>1 DEF CacheTypes
  <2>3. CountedIn' /\ Rowed'
    <3>1. CountedIn'
      BY <2>1 DEF CountedIn, C!Sum, C!Units, Physical
    <3>2. Rowed'
      BY <2>1 DEF Rowed, C!Exclusive, C!InPlace, C!Nlink, C!Sum, C!Units
    <3>3. QED
      BY <3>1, <3>2
  <2>4. Inventoried'
    BY <2>1 DEF Inventoried, C!Free, C!Used, C!Nlink, C!Sum, C!Units
  <2>5. Planned'
    BY <2>1 DEF Planned
  <2>6. QED
    BY <2>2, <2>3, <2>4, <2>5
<1>6. CASE C!Refuses
  <2>1. /\ inventory = {} /\ entries' = <<>> /\ rows' = <<>> /\ inodes' = {}
        /\ UNCHANGED <<links, registry, inventory, prune>>
    BY <1>6 DEF C!Refuses, C!Walking, C!files
  <2>2. CacheTypes'
    BY <2>1, EmptySeq DEF CacheTypes
  <2>3. DOMAIN rows' = {}
    BY <2>1
  <2>4. CountedIn' /\ Rowed'
    <3>1. C!Units(Physical(rows), DOMAIN rows)' = {}
      BY <2>3 DEF C!Units
    <3>2. QED
      BY <2>1, <2>3, <3>1, FS_EmptySet, CountedLater DEF Rowed
  <2>5. QED
    BY <2>1, <2>2, <2>4 DEF Inventoried, Planned
<1>7. CASE C!Plans
  <2>1. /\ \E i \in inventory : prune' = {PlanOf(i)}
        /\ UNCHANGED <<links, registry, entries, rows, inodes, inventory, still>>
    BY <1>7 DEF C!Plans, PlanOf, C!files, C!walk
  <2>2. CacheTypes'
    BY <2>1 DEF CacheTypes
  <2>3. CountedIn' /\ Rowed'
    BY <2>1 DEF CountedIn, Rowed, C!Sum, C!Units, Physical, C!Exclusive, C!InPlace, C!Nlink
  <2>4. Inventoried'
    BY <2>1 DEF Inventoried, C!Free, C!Used, C!Nlink, C!Sum, C!Units
  <2>5. Planned'
    BY <2>1 DEF Planned
  <2>6. QED
    BY <2>2, <2>3, <2>4, <2>5
<1>8. CASE UNCHANGED C!vars
  <2>1. UNCHANGED <<links, registry, entries, rows, inodes, inventory, prune, still>>
    BY <1>8 DEF C!vars, C!files, C!walk
  <2>2. CacheTypes'
    BY <2>1 DEF CacheTypes
  <2>3. CountedIn' /\ Rowed'
    BY <2>1 DEF CountedIn, Rowed, C!Sum, C!Units, Physical, C!Exclusive, C!InPlace, C!Nlink
  <2>4. Inventoried' /\ Planned'
    BY <2>1 DEF Inventoried, Planned, C!Free, C!Used, C!Nlink, C!Sum, C!Units
  <2>5. QED
    BY <2>2, <2>3, <2>4
<1>9. QED
  BY <1>1, <1>2, <1>3, <1>4, <1>5, <1>6, <1>7, <1>8 DEF C!Next

\* What is to be removed holds at least what it was counted for.
LEMMA Reclaims ==
    ASSUME C!Allowed, CacheInv, still, NEW i \in inventory
    PROVE  /\ C!Disposable(i) \in Nat
           /\ Cardinality(C!FreedBy({Order[n] : n \in C!Candidates(i)})) >= C!Disposable(i)
<1> DEFINE N == C!Candidates(i)
           Gone == {Order[n] : n \in N}
           own(n) == C!Exclusive(Order[n])
           count == [n \in DOMAIN i.rows |-> i.rows[n].reclaimable]
           B(n) == Bijection(1..count[n], own(n))
           nth(n) == CHOOSE b : b \in B(n)
           U == C!Units(count, N)
           g == [u \in U |-> nth(u[1])[u[2]]]
<1>1. i.rows = rows /\ entries # <<>>
  BY DEF CacheInv, Inventoried
<1>2. N \subseteq DOMAIN rows /\ DOMAIN rows \subseteq DOMAIN Order
  <2>1. /\ Len(rows) \in Nat /\ DOMAIN rows = 1..Len(rows)
        /\ Len(entries) \in Nat /\ DOMAIN entries = 1..Len(entries)
    BY LenProperties DEF CacheInv, CacheTypes
  <2>2. QED
    BY <1>1, <2>1 DEF CacheInv, CacheTypes, C!Candidates
<1>3. \A n \in N : count[n] = Cardinality(own(n))
  BY <1>1, <1>2 DEF CacheInv, Rowed, C!Candidates
<1>4. \A n \in N : IsFiniteSet(own(n)) /\ nth(n) \in B(n)
  <2> SUFFICES ASSUME NEW n \in N  PROVE IsFiniteSet(own(n)) /\ nth(n) \in B(n)
    OBVIOUS
  <2>1. own(n) \in SUBSET Files
    BY DEF C!Exclusive, C!InPlace
  <2>2. IsFiniteSet(own(n))
    BY <2>1, FewFiles
  <2>3. ExistsBijection(1..Cardinality(own(n)), own(n))
    BY <2>2, FS_CardinalityType
  <2>4. \E b : b \in B(n)
    BY <2>3, <1>3 DEF ExistsBijection
  <2> HIDE DEF B
  <2>5. QED
    BY <2>2, <2>4
<1> HIDE DEF nth
<1>5. \A n \in N : \A k \in 1..count[n] : nth(n)[k] \in own(n)
  BY <1>4 DEF Bijection, Injection
<1>6. \A n \in N : \A k, m \in 1..count[n] : nth(n)[k] = nth(n)[m] => k = m
  BY <1>4 DEF Bijection, Injection, IsInjective
<1>7. \A n \in N : Order[n] \in C!Places
  BY <1>2 DEF C!Places, C!Namespaces
\* What has one link in a namespace has none elsewhere.
<1>8. \A n \in N : \A f \in own(n) : \A q \in C!Places \ {Order[n]} : links[f][q] = 0
  <2> SUFFICES ASSUME NEW n \in N, NEW f \in own(n)
               PROVE  \A q \in C!Places \ {Order[n]} : links[f][q] = 0
    OBVIOUS
  <2>1. f \in Files /\ C!Nlink(f) = 1 /\ links[f][Order[n]] > 0
    BY DEF C!Exclusive, C!InPlace
  <2>2. links[f] \in [C!Places -> 0..2]
    BY <2>1 DEF CacheInv, CacheTypes
  <2>3. QED
    BY <2>1, <2>2, <1>7, OneLink
<1>9. \A m, n \in N : own(m) \intersect own(n) # {} => m = n
  <2> SUFFICES ASSUME NEW m \in N, NEW n \in N, NEW f \in own(m), f \in own(n), m # n
               PROVE  FALSE
    OBVIOUS
  <2>1. Order[m] # Order[n]
    BY <1>2 DEF C!Allowed
  <2>2. links[f][Order[n]] = 0
    BY <2>1, <1>7, <1>8
  <2>3. links[f][Order[n]] > 0
    BY DEF C!Exclusive, C!InPlace
  <2>4. QED
    BY <2>2, <2>3
<1>10. \A n \in N : own(n) \subseteq C!FreedBy(Gone)
  <2> SUFFICES ASSUME NEW n \in N, NEW f \in own(n)  PROVE f \in C!FreedBy(Gone)
    OBVIOUS
  <2>1. f \in C!Used
    BY DEF C!Exclusive, C!InPlace, C!Used
  <2>2. \A q \in C!Places \ Gone : links[f][q] = 0
    BY <1>8
  <2>3. QED
    BY <2>1, <2>2 DEF C!FreedBy
<1>11. \A u \in U : u[1] \in N /\ u[2] \in 1..count[u[1]] /\ u = <<u[1], u[2]>>
  BY DEF C!Units
<1>12. IsFiniteSet(C!FreedBy(Gone)) /\ Cardinality(C!FreedBy(Gone)) \in Nat
  <2>1. C!FreedBy(Gone) \in SUBSET Files
    BY DEF C!FreedBy, C!Used
  <2>2. QED
    BY <2>1, FewFiles
<1> HIDE DEF U, N, own, count, Gone, B
<1>13. g \in Injection(U, C!FreedBy(Gone))
  <2>1. \A u \in U : g[u] \in own(u[1])
    BY <1>5, <1>11
  <2>2. g \in [U -> C!FreedBy(Gone)]
    BY <1>10, <1>11, <2>1
  <2>3. \A u, v \in U : g[u] = g[v] => u = v
    <3> SUFFICES ASSUME NEW u \in U, NEW v \in U, g[u] = g[v]  PROVE u = v
      OBVIOUS
    <3>1. u[1] = v[1]
      BY <2>1, <1>9, <1>11
    <3>2. u[2] = v[2]
      BY <3>1, <1>6, <1>11
    <3>3. QED
      BY <3>1, <3>2, <1>11
  <2>4. QED
    BY <2>2, <2>3 DEF Injection, IsInjective
<1>14. Cardinality(U) <= Cardinality(C!FreedBy(Gone)) /\ Cardinality(U) \in Nat
  BY <1>12, <1>13, FS_Injection, FS_CardinalityType
<1>15. C!Disposable(i) = Cardinality(U)
  BY SumIs DEF C!Disposable, U, N, count
<1>16. QED
  BY <1>12, <1>14, <1>15 DEF Gone, N

\* A plan is kept.
LEMMA CacheHolds == ASSUME C!Allowed  PROVE CacheInv => C!PlanHolds
<1> SUFFICES ASSUME CacheInv  PROVE C!PlanHolds
  OBVIOUS
<1>1. C!Sum([n \in DOMAIN rows |-> rows[n].physical], DOMAIN rows) = Cardinality(inodes)
  BY DEF CacheInv, CountedIn, Physical
<1>2. ASSUME NEW q \in prune
      PROVE  /\ \A n \in DOMAIN entries : entries[n] # "inactive" => Order[n] \notin q.remove
             /\ still =>
                  /\ Cardinality(C!FreedBy(q.remove)) >= q.disposable
                  /\ q.status = "review-required" =>
                       C!Free + Cardinality(C!FreedBy(q.remove)) >= Reserve
  <2>1. PICK i \in inventory : q = PlanOf(i)
    BY DEF CacheInv, Planned
  <2>2. /\ q.remove = {Order[n] : n \in C!Candidates(i)}
        /\ q.disposable = C!Disposable(i) /\ q.status = C!Status(i)
    BY <2>1 DEF PlanOf
  <2>3. i.rows = rows /\ i.free = C!Free /\ entries # <<>>
    BY DEF CacheInv, Inventoried
  <2>4. \A n \in DOMAIN entries : entries[n] # "inactive" => Order[n] \notin q.remove
    <3> SUFFICES ASSUME NEW n \in DOMAIN entries, NEW m \in C!Candidates(i), Order[n] = Order[m]
                 PROVE  entries[n] = "inactive"
      BY <2>2
    <3>1. m \in DOMAIN rows /\ entries[m] = "inactive"
      BY <2>3 DEF CacheInv, Rowed, C!Candidates
    <3>2. m \in DOMAIN entries
      BY <3>1, LenProperties DEF CacheInv, CacheTypes
    <3>3. m = n
      BY <2>3, <3>2 DEF CacheInv, CacheTypes, C!Allowed
    <3>4. QED
      BY <3>1, <3>3
  <2>5. ASSUME still
        PROVE  /\ Cardinality(C!FreedBy(q.remove)) >= q.disposable
               /\ q.status = "review-required" =>
                    C!Free + Cardinality(C!FreedBy(q.remove)) >= Reserve
    <3> DEFINE freed == Cardinality(C!FreedBy(q.remove))
               d == C!Disposable(i)
    <3>1. freed >= d
      BY <2>2, <2>5, Reclaims
    <3>2. freed \in Nat /\ C!Free \in Int /\ Reserve \in Nat
      <4>1. C!FreedBy(q.remove) \in SUBSET Files /\ C!Used \in SUBSET Files
        BY DEF C!FreedBy, C!Used
      <4>2. freed \in Nat /\ Cardinality(C!Used) \in Nat
        BY <4>1, FewFiles
      <4>3. QED
        BY <4>2, SameSize DEF C!Free, C!Allowed
    <3>3. q.status = "review-required" => C!Free + d >= Reserve
      BY <2>2, <2>3 DEF C!Status
    <3>4. d \in Nat
      BY <2>5, Reclaims
    <3> HIDE DEF freed, d
    <3>5. QED
      BY <3>1, <3>2, <3>3, <3>4, <2>2 DEF freed, d
  <2>6. QED
    BY <2>4, <2>5
<1>3. QED
  BY <1>1, <1>2, SameSize DEF C!PlanHolds

\* The numbers of a plan are true (inference_cache.prune_plan): while no file is
\* touched, removing its candidates frees at least what it estimates, wherever inodes
\* are linked, and nothing protected is among them.
THEOREM PlanTrue == C!Spec => []C!PlanHolds
<1>1. C!Init => CacheInv
  BY CacheInit, DecisionsAssumption
<1>2. CacheInv /\ [C!Next]_C!vars => CacheInv'
  BY CacheNext, DecisionsAssumption
<1>3. CacheInv => C!PlanHolds
  BY CacheHolds, DecisionsAssumption
<1> QED BY <1>1, <1>2, <1>3, PTL DEF C!Spec

-----------------------------------------------------------------------------
(* The same of the composition: a behaviour is one tool's, and the tool in which a
   property is stated keeps its invariant.                                   *)

LEMMA OneBundle == SpecOne => [](part = "bundle" => SealInv)
<1>1. InitOne => (part = "bundle" => SealInv)
  BY SealInit, DecisionsAssumption DEF InitOne
<1>2. (part = "bundle" => SealInv) /\ [NextOne]_<<part, vars, pvars, cvars, svars>>
        => (part = "bundle" => SealInv)'
  <2> SUFFICES ASSUME part = "bundle" => SealInv, part' = "bundle",
                      [NextOne]_<<part, vars, pvars, cvars, svars>>
               PROVE  SealInv'
    OBVIOUS
  <2>1. part = "bundle" /\ [S!Next]_S!vars
    BY DEF NextOne, NextProfiles, NextPlans, NextCache, NextBundle, svars, S!vars,
           S!evidence, S!sealed, S!exported
  <2> QED BY <2>1, SealNext, DecisionsAssumption
<1> QED BY <1>1, <1>2, PTL DEF SpecOne

\* What leaves the measuring host is whole, in a run of any of the tools: see
\* BundleWhole (performance_bundle.run).
THEOREM ExportedWhole == SpecOne => []ExportWhole
<1>1. (part = "bundle" => SealInv) => ExportWhole
  BY DEF SealInv, Exported, Describes, ExportWhole, S!ExportWhole, Result
<1> QED BY <1>1, OneBundle, PTL

LEMMA OnePlan == SpecOne => [](part = "plans" => PlanInv)
<1>1. InitOne => (part = "plans" => PlanInv)
  BY PlanInit, DecisionsAssumption DEF InitOne
<1>2. (part = "plans" => PlanInv) /\ [NextOne]_<<part, vars, pvars, cvars, svars>>
        => (part = "plans" => PlanInv)'
  <2> SUFFICES ASSUME part = "plans" => PlanInv, part' = "plans",
                      [NextOne]_<<part, vars, pvars, cvars, svars>>
               PROVE  PlanInv'
    OBVIOUS
  <2>1. part = "plans" /\ [P!Next]_P!vars
    BY DEF NextOne, NextProfiles, NextPlans, NextCache, NextBundle, pvars, P!vars
  <2> QED BY <2>1, PlanNext, DecisionsAssumption
<1> QED BY <1>1, <1>2, PTL DEF SpecOne

\* What a plan brings into the Deployment fits it (loading_plan, model_kernels.plan):
\* see PlanFits.
THEOREM PlansFit == SpecOne => []AppliedFits
<1>1. (part = "plans" => PlanInv) => AppliedFits
  BY DEF PlanInv, AppliedFits
<1> QED BY <1>1, OnePlan, PTL

\* What a patch is not about, it leaves alone: see PlanKeeps.
THEOREM PlansKeep == SpecOne => NothingErased
<1>1. (part = "plans" => PlanInv) /\ [NextOne]_<<part, vars, pvars, cvars, svars>>
        => [part = "plans" => ~P!Erases]_pvars
  <2> SUFFICES ASSUME part = "plans", PlanInv, pvars' # pvars,
                      [NextOne]_<<part, vars, pvars, cvars, svars>>
               PROVE  ~P!Erases
    BY DEF pvars
  <2>1. P!Next
    BY DEF NextOne, NextProfiles, NextPlans, NextCache, NextBundle
  <2> QED BY <2>1, NoneErased
<1> QED BY <1>1, OnePlan, PTL DEF SpecOne, NothingErased

LEMMA OneCache == SpecOne => [](part = "cache" => CacheInv)
<1>1. InitOne => (part = "cache" => CacheInv)
  BY CacheInit, DecisionsAssumption DEF InitOne
<1>2. (part = "cache" => CacheInv) /\ [NextOne]_<<part, vars, pvars, cvars, svars>>
        => (part = "cache" => CacheInv)'
  <2> SUFFICES ASSUME part = "cache" => CacheInv, part' = "cache",
                      [NextOne]_<<part, vars, pvars, cvars, svars>>
               PROVE  CacheInv'
    OBVIOUS
  <2>1. part = "cache" /\ [C!Next]_C!vars
    BY DEF NextOne, NextProfiles, NextPlans, NextCache, NextBundle, cvars, C!vars,
           C!files, C!walk
  <2> QED BY <2>1, CacheNext, DecisionsAssumption
<1> QED BY <1>1, <1>2, PTL DEF SpecOne

\* What a plan says will be free will be: see PlanTrue.
THEOREM PlansTrue == SpecOne => []PlanHolds
<1>1. (part = "cache" => CacheInv) => PlanHolds
  BY CacheHolds, DecisionsAssumption DEF PlanHolds
<1> QED BY <1>1, OneCache, PTL

-----------------------------------------------------------------------------
(* Measurements: Measure, for any owners, workloads, deployments and changes.

   Nothing is locked, so what a command has read bounds what answered its requests:
   processes and versions only grow, and between two equal readings all that was
   there in between is the same (Bounds). The memory events of a process are
   compared before the last look at the Pod, which is why they are settled only if
   the process is still the one of the evidence (Agreed).                     *)

Commands ==
    [pc : M!PCs, kind : M!Kinds \union {"none", "status"}, pod : M!Views, first : M!Views,
     seen : M!Inside, events : 0..MaxChanges, work : Workloads \union {"none"},
     answer : M!Answers]
Results ==
    [status : M!Statuses, kind : M!Kinds \union {"none", "status"}, pod : M!Views,
     seen : M!Inside, work : Workloads \union {"none"}, checked : BOOLEAN]
Replied == [proc : 1..MaxProcs, in : M!Inside]

MeasureTypes ==
    /\ pod \in M!Views /\ pod.proc >= 1
    /\ inside \in M!Inside
    /\ changes \in 0..MaxChanges
    /\ run \in [Owners -> Commands]
    /\ disk \in [Owners -> Results]
    /\ served \in [Owners -> SUBSET Replied]
    /\ watch \in 0..MaxProcs
    /\ started \subseteq 1..MaxProcs
    /\ reports \subseteq [kind : M!ReportKinds, a : Owners, b : Owners]

\* Changes are numbered.
Newest == inside.files <= changes /\ inside.libs <= changes /\ inside.events <= changes

Before == {"new", "collect", "hash", "probe", "collected"}
During == {"warm", "steady", "stop", "rehash", "same"}
After == {"finish", "look"}

\* What an owner's command is about, and what is on disk by then.
Stage(o) ==
    /\ run[o].pc \in {"new", "hash", "probe", "collected", "collect"} =>
          run[o].kind \in {"none", "status"} /\ disk[o].status = "none"
    /\ run[o].pc = "new" => run[o].kind = "none"
    /\ run[o].pc \in During \union After => run[o].kind \in M!Kinds
    /\ run[o].pc \in {"warm", "stop", "finish"} => run[o].kind # "serving"
    /\ run[o].pc \in {"warm", "steady", "stop"} => disk[o].status = "none"
    /\ run[o].kind = "status" => disk[o].status = "none" /\ run[o].pc \in Before \union {"done", "dead"}
    /\ run[o].pc \in {"rehash", "same", "finish", "look"} =>
          /\ disk[o].status = "awaiting" /\ disk[o].kind = run[o].kind
          /\ disk[o].pod = run[o].pod /\ disk[o].seen = run[o].seen

\* What it has read was there before.
Held(o) ==
    /\ run[o].pc \notin {"new", "collect", "done", "dead"} => run[o].pod.proc <= pod.proc
    /\ run[o].pc \notin {"new", "collect", "done", "dead", "hash"} =>
          run[o].seen.files <= inside.files
    /\ run[o].pc \notin {"new", "collect", "done", "dead", "hash", "probe"} =>
          run[o].seen.libs <= inside.libs
    /\ run[o].pc \in During \union After /\ run[o].kind # "serving"
       /\ run[o].pod.proc = pod.proc => run[o].events <= inside.events

\* What answered it was there between its reading and now.
Bounds(o, s) ==
    /\ run[o].pod.proc <= s.proc /\ s.proc <= pod.proc
    /\ run[o].seen.files <= s.in.files /\ s.in.files <= inside.files
    /\ s.in.libs <= inside.libs
    /\ s.proc = pod.proc => s.in.events <= inside.events
    /\ run[o].kind # "serving" =>
          /\ run[o].seen.libs <= s.in.libs
          /\ s.proc = run[o].pod.proc => run[o].events <= s.in.events

\* What the second reading of the Pod and the files settles, and the last one.
Agreed(o, s) ==
    /\ s.proc = run[o].pod.proc /\ s.in.files = run[o].seen.files
    /\ run[o].pc = "look" /\ run[o].kind # "serving" =>
          /\ s.in.libs = run[o].seen.libs
          /\ pod.proc = run[o].pod.proc => s.in.events = run[o].events

Witnessed(o) ==
    /\ run[o].pc \in Before \union {"warm", "dead"} => served[o] = {}
    /\ run[o].pc \in {"stop", "rehash", "same", "finish", "look"} => served[o] # {}
    /\ \A s \in served[o] :
        /\ run[o].pc \in During \union After => Bounds(o, s)
        /\ run[o].pc \in After => Agreed(o, s)

Verdict(o) == disk[o].status = "verified" =>
    /\ run[o].pc = "done"
    /\ served[o] # {}
    /\ M!AnsweredBy(o, disk[o])
    /\ disk[o].kind # "serving" => \A s, t \in served[o] : s.in.events = t.in.events

\* What an owner was told, and what was compared, rests on results that stay.
Told(o) == run[o].answer = "ready" =>
    /\ run[o].pc = "done" /\ run[o].kind = "status"
    /\ \E t \in Owners \ {o} : M!Warm(disk[t]) /\ M!AnsweredBy(t, run[o])

Stands(r) ==
    LET a == disk[r.a]
        b == disk[r.b]
    IN  /\ a.status = "verified" /\ b.status = "verified"
        /\ a.work = b.work /\ a.seen.files = b.seen.files
        /\ r.kind = "reuse" =>
            /\ a.pod.proc # b.pod.proc
            /\ {a.pod.proc, b.pod.proc} \subseteq started
            /\ a.pod.dep = b.pod.dep
        /\ r.kind = "memory" => b.pod.dep = [a.pod.dep EXCEPT !.memory = b.pod.dep.memory]

MeasureInv ==
    /\ MeasureTypes /\ Newest
    /\ \A o \in Owners : Stage(o) /\ Held(o) /\ Witnessed(o) /\ Verdict(o) /\ Told(o)
    /\ \A r \in reports : Stands(r)

LEMMA MeasureInit ==
    ASSUME M!Allowed, M!Init  PROVE MeasureInv
<1> USE DEF M!Init, M!Allowed, M!Nothing, M!NoRun, M!NoResult, M!NoPod
<1>1. pod \in M!Views /\ inside \in M!Inside /\ M!NoPod \in M!Views /\ M!Nothing \in M!Inside
  BY DEF M!Views, M!Inside
<1>2. M!NoRun \in Commands /\ M!NoResult \in Results
  BY <1>1 DEF Commands, Results, M!PCs, M!Kinds, M!Statuses, M!Answers
<1>3. MeasureTypes
  <2> HIDE DEF M!NoRun, M!NoResult, M!Nothing
  <2>1. run \in [Owners -> Commands] /\ disk \in [Owners -> Results]
    BY <1>2
  <2>2. served \in [Owners -> SUBSET Replied]
    OBVIOUS
  <2> QED BY <1>1, <2>1, <2>2 DEF MeasureTypes
<1>4. Newest
  BY DEF Newest
<1>5. ASSUME NEW o \in Owners  PROVE Stage(o) /\ Held(o) /\ Witnessed(o) /\ Verdict(o) /\ Told(o)
  BY DEF Stage, Held, Witnessed, Verdict, Told, Before, During, After
<1> QED BY <1>3, <1>4, <1>5 DEF MeasureInv

-----------------------------------------------------------------------------
(* The world                                                                 *)

\* Processes and versions only grow; the events are those of a process.
Grown ==
    /\ pod.proc <= pod'.proc
    /\ inside.files <= inside'.files /\ inside.libs <= inside'.libs
    /\ pod'.proc = pod.proc => inside.events <= inside'.events

LEMMA WorldGrows ==
    ASSUME M!Allowed, MeasureTypes, Newest,
           M!Restarts \/ M!Loads \/ M!KubeletSays \/ M!Crashes \/ M!Drifts
    PROVE  /\ pod' \in M!Views /\ pod'.proc >= 1 /\ inside' \in M!Inside
           /\ changes' \in 0..MaxChanges /\ Newest' /\ Grown
<1> USE DEF MeasureTypes, M!Views, M!Inside
<1>1. CASE M!Restarts
  BY <1>1 DEF M!Restarts, M!NewProcess, M!Allowed, Newest, Grown
<1>2. CASE M!Loads
  BY <1>2 DEF M!Loads, Newest, Grown
<1>3. CASE M!KubeletSays
  <2>1. inside' = inside /\ changes' = changes
    BY <1>3 DEF M!KubeletSays
  <2>2. PICK b \in BOOLEAN : pod' = [pod EXCEPT !.ready = b]
    <3>1. pod' = [pod EXCEPT !.ready = ~pod.ready]
      BY <1>3 DEF M!KubeletSays
    <3> HIDE DEF MeasureTypes, M!Views, M!Inside
    <3> QED BY <3>1, Zenon
  <2> QED BY <2>1, <2>2 DEF Newest, Grown
<1>4. CASE M!Crashes
  BY <1>4 DEF M!Crashes, M!Changed, M!Allowed, Newest, Grown
<1>5. CASE M!Drifts
  <2>1. changes' = changes + 1 /\ changes' \in 0..MaxChanges /\ pod' = pod
    BY <1>5 DEF M!Drifts, M!Changed, M!Allowed
  <2>2. PICK f \in {"files", "libs", "events"} : inside' = [inside EXCEPT ![f] = changes + 1]
    BY <1>5 DEF M!Drifts
  <2>3. CASE f = "files"
    BY <2>1, <2>2, <2>3 DEF Newest, Grown
  <2>4. CASE f = "libs"
    BY <2>1, <2>2, <2>4 DEF Newest, Grown
  <2>5. CASE f = "events"
    BY <2>1, <2>2, <2>5 DEF Newest, Grown
  <2> QED BY <2>2, <2>3, <2>4, <2>5
<1> QED BY <1>1, <1>2, <1>3, <1>4, <1>5

\* What a command or an answer rests on stays between its bounds.
LEMMA WorldKeeps ==
    ASSUME M!Allowed, MeasureInv, M!World  PROVE MeasureInv'
<1>1. UNCHANGED <<run, disk, served, watch, started, reports>>
  BY DEF M!World
<1>2. /\ pod' \in M!Views /\ pod'.proc >= 1 /\ inside' \in M!Inside
      /\ changes' \in 0..MaxChanges /\ Newest' /\ Grown
  BY WorldGrows DEF M!World, MeasureInv
<1>3. MeasureTypes'
  BY <1>1, <1>2 DEF MeasureInv, MeasureTypes
<1> USE DEF MeasureInv
<1>4. ASSUME NEW o \in Owners  PROVE Stage(o)' /\ Held(o)' /\ Witnessed(o)' /\ Verdict(o)' /\ Told(o)'
  <2>1. Stage(o)' /\ Verdict(o)' /\ Told(o)'
    BY <1>1 DEF Stage, Verdict, Told, M!AnsweredBy, M!Warm
  <2>2. /\ pod.proc \in Nat /\ pod'.proc \in Nat /\ run[o] \in Commands
        /\ inside.files \in Nat /\ inside'.files \in Nat /\ inside.libs \in Nat /\ inside'.libs \in Nat
        /\ inside.events \in Nat /\ inside'.events \in Nat
    BY <1>2, <1>3 DEF MeasureTypes, M!Views, M!Inside
  <2>3. /\ run[o].pod.proc \in Nat /\ run[o].seen.files \in Nat /\ run[o].seen.libs \in Nat
        /\ run[o].events \in Nat
    BY <2>2 DEF Commands, M!Views, M!Inside
  <2>4. Held(o)'
    BY <1>1, <1>2, <2>2, <2>3 DEF Held, Grown, Before, During, After
  <2>5. ASSUME NEW s \in served[o]
        PROVE  /\ run[o].pc \in During \union After => Bounds(o, s)'
               /\ run[o].pc \in After => Agreed(o, s)'
    <3>1. s.proc \in Nat /\ s.in.files \in Nat /\ s.in.libs \in Nat /\ s.in.events \in Nat
      BY DEF MeasureTypes, Replied, M!Inside
    <3>2. /\ run[o].pc \in During \union After => Bounds(o, s)
          /\ run[o].pc \in After => Agreed(o, s) /\ run[o].pod.proc <= pod.proc
      BY DEF Witnessed, Held, After
    <3>3. run[o].pc \in During \union After => Bounds(o, s)'
      BY <1>1, <1>2, <2>2, <2>3, <3>1, <3>2 DEF Bounds, Grown
    <3>4. run[o].pc \in After => Agreed(o, s)'
      BY <1>1, <1>2, <2>2, <2>3, <3>1, <3>2, <3>3 DEF Agreed, Bounds, Grown
    <3> QED BY <3>3, <3>4
  <2>6. Witnessed(o)'
    BY <1>1, <2>5 DEF Witnessed
  <2> QED BY <2>1, <2>4, <2>6
<1>5. ASSUME NEW r \in reports  PROVE Stands(r)'
  BY <1>1 DEF Stands
<1> QED BY <1>1, <1>2, <1>3, <1>4, <1>5

-----------------------------------------------------------------------------
(* The commands                                                              *)

\* A step of one command leaves the others, their results and what rests on them.
LEMMA OwnStep ==
    ASSUME MeasureInv, NEW o \in Owners, run[o].pc # "done",
           UNCHANGED <<pod, inside, changes, watch, started, reports>>, MeasureTypes',
           \A q \in Owners \ {o} : run'[q] = run[q] /\ disk'[q] = disk[q] /\ served'[q] = served[q],
           Stage(o)', Held(o)', Witnessed(o)', Verdict(o)', Told(o)'
    PROVE  MeasureInv'
<1> USE DEF MeasureInv
<1>1. disk[o].status # "verified"
  BY DEF Verdict
<1>2. ASSUME NEW q \in Owners \ {o}
      PROVE  Stage(q)' /\ Held(q)' /\ Witnessed(q)' /\ Verdict(q)'
  <2>1. run'[q] = run[q] /\ disk'[q] = disk[q] /\ served'[q] = served[q]
    OBVIOUS
  <2>2. Stage(q) /\ Held(q) /\ Witnessed(q) /\ Verdict(q)
    OBVIOUS
  <2> HIDE DEF MeasureInv
  <2>3. Stage(q)' /\ Held(q)'
    BY <2>1, <2>2 DEF Stage, Held
  <2>4. Witnessed(q)'
    BY <2>1, <2>2 DEF Witnessed, Bounds, Agreed
  <2>5. Verdict(q)'
    BY <2>1, <2>2 DEF Verdict, M!AnsweredBy
  <2> QED BY <2>3, <2>4, <2>5
<1>3. ASSUME NEW q \in Owners \ {o}, run'[q].answer = "ready"  PROVE Told(q)'
  <2>1. run[q].pc = "done" /\ run[q].kind = "status"
    BY <1>3 DEF Told
  <2>2. PICK t \in Owners \ {q} : M!Warm(disk[t]) /\ M!AnsweredBy(t, run[q])
    BY <1>3 DEF Told
  <2>3. t # o
    BY <1>1, <2>2 DEF M!Warm
  <2>4. M!Warm(disk[t])' /\ M!AnsweredBy(t, run[q])'
    BY <2>2, <2>3 DEF M!Warm, M!AnsweredBy
  <2> QED BY <2>1, <2>4 DEF Told
<1>4. ASSUME NEW r \in reports  PROVE Stands(r)'
  <2>1. r.a \in Owners \ {o} /\ r.b \in Owners \ {o}
    BY <1>1 DEF Stands, MeasureTypes
  <2> QED BY <2>1 DEF Stands
<1>5. Newest'
  BY DEF Newest
<1>6. ASSUME NEW q \in Owners \ {o}  PROVE Told(q)'
  BY <1>3 DEF Told
<1> QED BY <1>2, <1>4, <1>5, <1>6

LEMMA NoRunTyped ==
    ASSUME M!Allowed  PROVE M!NoRun \in Commands /\ M!NoPod \in M!Views /\ M!Nothing \in M!Inside
  BY DEF M!NoRun, M!Nothing, M!NoPod, M!Allowed, M!Views, M!Inside, Commands, M!PCs, M!Kinds,
         M!Answers

\* Evidence is read: the Pod, then its files, then its libraries.
LEMMA EvidenceKeeps ==
    ASSUME M!Allowed, MeasureInv, NEW o \in Owners, M!Collect(o) \/ M!Hash(o) \/ M!Probe(o)
    PROVE  MeasureInv'
<1>1. UNCHANGED <<pod, inside, changes, disk, served, watch, started, reports>>
  BY DEF M!Collect, M!Hash, M!Probe, M!Keep, M!world
<1>2. /\ MeasureTypes /\ Stage(o) /\ Held(o) /\ Witnessed(o) /\ Verdict(o) /\ Told(o)
      /\ run[o] \in Commands
  BY DEF MeasureInv, MeasureTypes
<1>3. run[o].pc \in {"new", "collect", "hash", "probe"} /\ run[o].answer # "ready"
  BY <1>2 DEF M!Collect, M!Hash, M!Probe, M!At, Told
<1>4. /\ \A q \in Owners \ {o} : run'[q] = run[q] /\ disk'[q] = disk[q] /\ served'[q] = served[q]
      /\ \/ run'[o] = [run[o] EXCEPT !.pc = "hash", !.pod = pod]
         \/ /\ run[o].pc = "hash" /\ pod = run[o].pod
            /\ run'[o] = [run[o] EXCEPT !.pc = "probe", !.seen.files = inside.files]
         \/ /\ run[o].pc = "probe" /\ pod = run[o].pod
            /\ run'[o] = [run[o] EXCEPT !.pc = "collected", !.seen.libs = inside.libs]
         \/ run'[o] = [M!NoRun EXCEPT !.pc = "dead", !.kind = run[o].kind]
      /\ run' = [run EXCEPT ![o] = run'[o]]
  BY <1>1, <1>2 DEF M!Collect, M!Hash, M!Probe, M!Ends, M!At, MeasureTypes
<1> DEFINE r == run[o]
<1> DEFINE r2 == run'[o]
<1>5. r2 \in Commands /\ r2.kind = r.kind /\ r2.answer # "ready"
      /\ \/ r2.pc = "hash" /\ r2.pod = pod
         \/ r.pc = "hash" /\ r2.pc = "probe" /\ r2.pod = r.pod /\ r2.seen.files = inside.files
         \/ r.pc = "probe" /\ r2.pc = "collected" /\ r2.pod = r.pod
            /\ r2.seen.files = r.seen.files /\ r2.seen.libs = inside.libs
         \/ r2.pc = "dead"
  <2>1. r \in Commands /\ pod \in M!Views /\ inside \in M!Inside /\ r.answer # "ready"
    BY <1>2, <1>3 DEF MeasureTypes
  <2>2. CASE r2 = [r EXCEPT !.pc = "hash", !.pod = pod]
    BY <2>1, <2>2 DEF Commands, M!PCs
  <2>3. CASE /\ r.pc = "hash" /\ pod = r.pod
             /\ r2 = [r EXCEPT !.pc = "probe", !.seen.files = inside.files]
    <3> DEFINE u == [r.seen EXCEPT !.files = inside.files]
    <3>1. u \in M!Inside /\ u.files = inside.files
      BY <2>1 DEF Commands, M!Inside
    <3>2. r2 = [r EXCEPT !.pc = "probe", !.seen = u]
      BY <2>3
    <3> HIDE DEF u
    <3> QED BY <2>1, <2>3, <3>1, <3>2 DEF Commands, M!PCs
  <2>4. CASE /\ r.pc = "probe" /\ pod = r.pod
             /\ r2 = [r EXCEPT !.pc = "collected", !.seen.libs = inside.libs]
    <3> DEFINE u == [r.seen EXCEPT !.libs = inside.libs]
    <3>1. u \in M!Inside /\ u.libs = inside.libs /\ u.files = r.seen.files
      BY <2>1 DEF Commands, M!Inside
    <3>2. r2 = [r EXCEPT !.pc = "collected", !.seen = u]
      BY <2>4
    <3> HIDE DEF u
    <3> QED BY <2>1, <2>4, <3>1, <3>2 DEF Commands, M!PCs
  <2>5. CASE r2 = [M!NoRun EXCEPT !.pc = "dead", !.kind = r.kind]
    BY <2>1, <2>5, NoRunTyped DEF Commands, M!PCs, M!NoRun
  <2> QED BY <1>4, <2>2, <2>3, <2>4, <2>5
<1>6. MeasureTypes'
  BY <1>1, <1>2, <1>4, <1>5 DEF MeasureTypes
<1>7. served[o] = {} /\ served'[o] = {} /\ disk'[o] = disk[o] /\ disk[o].status = "none"
  BY <1>1, <1>2, <1>3 DEF Witnessed, Stage, Before
<1>8. Stage(o)'
  BY <1>2, <1>3, <1>5, <1>7 DEF Stage, Before, During, After, M!Kinds
<1>9. Held(o)'
  <2>1. /\ pod.proc \in Nat /\ inside.files \in Nat /\ inside.libs \in Nat
    BY <1>2 DEF MeasureTypes, M!Views, M!Inside
  <2> QED BY <1>1, <1>2, <1>3, <1>5, <2>1 DEF Held, During, After
<1>10. Witnessed(o)' /\ Verdict(o)' /\ Told(o)'
  BY <1>2, <1>3, <1>5, <1>7 DEF Witnessed, Verdict, Told, Before, During, After
<1> QED BY <1>1, <1>3, <1>4, <1>6, <1>8, <1>9, <1>10, OwnStep

\* What is compared are numbers.
LEMMA Numbers ==
    ASSUME MeasureTypes, NEW o \in Owners
    PROVE  /\ pod.proc \in Nat /\ inside.files \in Nat /\ inside.libs \in Nat /\ inside.events \in Nat
           /\ pod.proc \in 1..MaxProcs /\ inside.events \in 0..MaxChanges
           /\ run[o].pod.proc \in Nat /\ run[o].seen.files \in Nat /\ run[o].seen.libs \in Nat
           /\ run[o].events \in 0..MaxChanges /\ run[o].events \in Nat
           /\ \A s \in served[o] : /\ s.proc \in Nat /\ s.in.files \in Nat
                                   /\ s.in.libs \in Nat /\ s.in.events \in Nat
<1>1. run[o] \in Commands /\ served[o] \in SUBSET Replied
  BY DEF MeasureTypes
<1> QED BY <1>1 DEF MeasureTypes, Commands, Replied, M!Views, M!Inside

\* A command that ends without a result leaves nothing that rests on its requests.
LEMMA EndKeeps ==
    ASSUME M!Allowed, MeasureInv, NEW o \in Owners, run[o].pc # "done",
           UNCHANGED <<pod, inside, changes, watch, started, reports>>,
           run' = [run EXCEPT ![o] = [M!NoRun EXCEPT !.pc = "dead", !.kind = run[o].kind]],
           served' = [served EXCEPT ![o] = {}],
           disk' \in [Owners -> Results], \A q \in Owners \ {o} : disk'[q] = disk[q],
           disk'[o].status # "verified",
           run[o].kind = "status" => disk'[o] = disk[o]
    PROVE  MeasureInv'
<1>1. MeasureTypes /\ Stage(o) /\ run[o] \in Commands
  BY DEF MeasureInv, MeasureTypes
<1>2. /\ run'[o].pc = "dead" /\ run'[o].kind = run[o].kind /\ run'[o].answer = "none"
      /\ run'[o] \in Commands /\ served'[o] = {}
  BY <1>1, NoRunTyped DEF Commands, M!PCs, M!NoRun, MeasureTypes
<1>3. \A q \in Owners \ {o} : run'[q] = run[q] /\ disk'[q] = disk[q] /\ served'[q] = served[q]
  BY <1>1 DEF MeasureTypes
<1>4. MeasureTypes'
  BY <1>1, <1>2 DEF MeasureTypes
<1>5. Stage(o)' /\ Held(o)' /\ Witnessed(o)' /\ Verdict(o)' /\ Told(o)'
  BY <1>1, <1>2 DEF Stage, Held, Witnessed, Verdict, Told, Before, During, After
<1> QED BY <1>3, <1>4, <1>5, OwnStep

\* The deployment is checked against the evidence, the requests begin.
LEMMA BeginKeeps ==
    ASSUME M!Allowed, MeasureInv, NEW o \in Owners, M!Begin(o)  PROVE MeasureInv'
<1>1. UNCHANGED <<pod, inside, changes, disk, served, watch, started, reports>>
  BY DEF M!Begin, M!Keep, M!world
<1>2. /\ MeasureTypes /\ Stage(o) /\ Held(o) /\ Witnessed(o) /\ Verdict(o) /\ Told(o)
      /\ run[o] \in Commands /\ run[o].pc = "collected" /\ run[o].answer # "ready"
  BY DEF MeasureInv, MeasureTypes, M!Begin, M!At, Told
<1>3. PICK k \in M!Kinds, w \in Workloads :
        /\ k # "serving" => inside.libs = run[o].seen.libs
        /\ run' = [run EXCEPT ![o].pc = IF k = "serving" THEN "steady" ELSE "warm",
                              ![o].kind = k, ![o].work = w,
                              ![o].events = IF k = "serving" THEN 0 ELSE inside.events]
  BY DEF M!Begin, M!SameBefore
<1> DEFINE r2 == run'[o]
<1>4. /\ r2 \in Commands /\ r2.pc = (IF k = "serving" THEN "steady" ELSE "warm") /\ r2.kind = k
      /\ r2.pod = run[o].pod /\ r2.seen = run[o].seen /\ r2.answer = run[o].answer
      /\ k # "serving" => r2.events = inside.events
  <2>1. inside.events \in 0..MaxChanges /\ 0 \in 0..MaxChanges
    BY <1>2 DEF MeasureTypes, M!Inside, M!Allowed
  <2> DEFINE e == IF k = "serving" THEN 0 ELSE inside.events
  <2> DEFINE p == IF k = "serving" THEN "steady" ELSE "warm"
  <2>2. run'[o] = [run[o] EXCEPT !.pc = p, !.kind = k, !.work = w, !.events = e]
    BY <1>2, <1>3 DEF MeasureTypes
  <2>3. e \in 0..MaxChanges /\ p \in M!PCs /\ (k # "serving" => e = inside.events)
    BY <2>1 DEF M!PCs
  <2> HIDE DEF e
  <2> QED BY <1>2, <2>2, <2>3 DEF Commands
<1>5. \A q \in Owners \ {o} : run'[q] = run[q] /\ disk'[q] = disk[q] /\ served'[q] = served[q]
  BY <1>1, <1>2, <1>3 DEF MeasureTypes
<1>6. MeasureTypes'
  BY <1>1, <1>2, <1>3, <1>4 DEF MeasureTypes
<1>7. served'[o] = {} /\ disk'[o].status = "none" /\ k # "status"
  BY <1>1, <1>2 DEF Witnessed, Stage, Before, M!Kinds
<1>8. Stage(o)' /\ Verdict(o)' /\ Told(o)' /\ Witnessed(o)'
  BY <1>2, <1>4, <1>7 DEF Stage, Verdict, Told, Witnessed, Before, During, After
<1>9. Held(o)'
  BY <1>1, <1>2, <1>4, Numbers DEF Held, During, After
<1> QED BY <1>1, <1>2, <1>5, <1>6, <1>8, <1>9, OwnStep

\* What answers now is within the bounds, as is what answered before.
LEMMA AnswerBounds ==
    ASSUME MeasureInv, NEW o \in Owners, M!Answered(o), run[o].pc \in {"warm", "steady"},
           UNCHANGED <<pod, inside>>,
           run'[o].pod = run[o].pod, run'[o].seen = run[o].seen, run'[o].kind = run[o].kind,
           run'[o].events = run[o].events
    PROVE  /\ served'[o] # {} /\ served' \in [Owners -> SUBSET Replied]
           /\ \A q \in Owners \ {o} : served'[q] = served[q]
           /\ \A s \in served'[o] : Bounds(o, s)'
<1> DEFINE new == [proc |-> pod.proc, in |-> inside]
<1>1. MeasureTypes /\ Held(o) /\ Witnessed(o)
  BY DEF MeasureInv
<1>2. new \in Replied
  BY <1>1 DEF MeasureTypes, Replied, M!Views
<1>3. served' = [served EXCEPT ![o] = served[o] \union {new}]
  BY DEF M!Answered
<1>4. served'[o] = served[o] \union {new} /\ served' \in [Owners -> SUBSET Replied]
      /\ \A q \in Owners \ {o} : served'[q] = served[q]
  <2> HIDE DEF new
  <2> QED BY <1>1, <1>2, <1>3 DEF MeasureTypes
<1>5. ASSUME NEW s \in served[o]  PROVE Bounds(o, s)'
  BY <1>1 DEF Witnessed, Bounds, During
<1>6. Bounds(o, new)'
  BY <1>1, Numbers DEF Held, Bounds, During
<1> QED BY <1>4, <1>5, <1>6

\* Requests are sent and answered; the last of them writes the report.
LEMMA RequestKeeps ==
    ASSUME M!Allowed, MeasureInv, NEW o \in Owners, M!Warmup(o) \/ M!Steady(o) \/ M!StopProfile(o)
    PROVE  MeasureInv'
<1>1. UNCHANGED <<pod, inside, changes, watch, started, reports>>
  BY DEF M!Warmup, M!Steady, M!StopProfile, M!world
<1>2. /\ MeasureTypes /\ Stage(o) /\ Held(o) /\ Witnessed(o) /\ Verdict(o) /\ Told(o)
      /\ run[o] \in Commands /\ run[o].pc \in {"warm", "steady", "stop"} /\ run[o].answer # "ready"
  BY DEF MeasureInv, MeasureTypes, M!Warmup, M!Steady, M!StopProfile, M!At, Told
<1>3. PICK p \in {"steady", "stop", "rehash"} :
        /\ run' = [run EXCEPT ![o].pc = p]
        /\ p = "rehash" <=> run[o].pc \in {"steady", "stop"}
        /\ p = "rehash" => M!Writes(o, "awaiting")
        /\ p = "stop" => run[o].kind = "kernel-profile"
        /\ p # "rehash" => disk' = disk
        /\ IF run[o].pc = "stop" THEN served' = served ELSE M!Answered(o)
  BY DEF M!Warmup, M!Steady, M!StopProfile, M!At, M!To
<1> DEFINE r2 == run'[o]
<1>4. /\ r2 \in Commands /\ r2.pc = p /\ r2.kind = run[o].kind /\ r2.pod = run[o].pod
      /\ r2.seen = run[o].seen /\ r2.events = run[o].events /\ r2.answer = run[o].answer
      /\ run' \in [Owners -> Commands] /\ \A q \in Owners \ {o} : run'[q] = run[q]
  BY <1>2, <1>3 DEF MeasureTypes, Commands, M!PCs
<1>5. /\ served'[o] # {} /\ served' \in [Owners -> SUBSET Replied]
      /\ \A q \in Owners \ {o} : served'[q] = served[q]
      /\ \A s \in served'[o] : Bounds(o, s)'
  <2>1. CASE run[o].pc = "stop"
    <3>1. served' = served
      BY <1>3, <2>1
    <3> QED BY <1>1, <1>2, <1>4, <2>1, <3>1 DEF Witnessed, MeasureTypes, Bounds, During
  <2>2. CASE run[o].pc # "stop"
    BY <1>1, <1>2, <1>3, <1>4, <2>2, AnswerBounds
  <2> QED BY <2>1, <2>2
<1>6. /\ disk' \in [Owners -> Results] /\ \A q \in Owners \ {o} : disk'[q] = disk[q]
      /\ p = "rehash" => /\ disk'[o].status = "awaiting" /\ disk'[o].kind = run[o].kind
                        /\ disk'[o].pod = run[o].pod /\ disk'[o].seen = run[o].seen
      /\ p # "rehash" => disk'[o].status = "none"
  <2>1. CASE p = "rehash"
    <3> DEFINE d == [status |-> "awaiting", kind |-> run[o].kind, pod |-> run[o].pod,
                     seen |-> run[o].seen, work |-> run[o].work, checked |-> FALSE]
    <3>1. disk' = [disk EXCEPT ![o] = d]
      BY <1>3, <2>1 DEF M!Writes
    <3>2. d \in Results
      BY <1>2 DEF Commands, Results, M!Statuses
    <3> QED BY <1>2, <2>1, <3>1, <3>2 DEF MeasureTypes
  <2>2. CASE p # "rehash"
    BY <1>2, <1>3, <2>2 DEF MeasureTypes, Stage
  <2> QED BY <2>1, <2>2
<1>7. MeasureTypes'
  BY <1>1, <1>2, <1>4, <1>5, <1>6 DEF MeasureTypes
<1>8. Stage(o)' /\ Verdict(o)' /\ Told(o)'
  BY <1>2, <1>3, <1>4, <1>6 DEF Stage, Verdict, Told, Before, During, After, M!Kinds
<1>9. Held(o)'
  BY <1>1, <1>2, <1>3, <1>4 DEF Held, During, After
<1>10. Witnessed(o)'
  BY <1>3, <1>4, <1>5 DEF Witnessed, Before, During, After
<1> QED BY <1>1, <1>2, <1>4, <1>5, <1>6, <1>7, <1>8, <1>9, <1>10, OwnStep

\* The run fails before its report is complete.
LEMMA FailureKeeps ==
    ASSUME M!Allowed, MeasureInv, NEW o \in Owners, M!RunFails(o) \/ M!Gives(o)
    PROVE  MeasureInv'
<1>1. /\ UNCHANGED <<pod, inside, changes, watch, started, reports>>
      /\ run' = [run EXCEPT ![o] = [M!NoRun EXCEPT !.pc = "dead", !.kind = run[o].kind]]
      /\ served' = [served EXCEPT ![o] = {}]
      /\ disk' = disk \/ M!Writes(o, "failed")
      /\ disk' = disk \/ run[o].pc \in {"warm", "steady", "stop"}
      /\ run[o].pc \notin {"done", "dead", "new"}
  BY DEF M!RunFails, M!Gives, M!Ends, M!world
<1>2. MeasureTypes /\ Stage(o) /\ Verdict(o) /\ run[o] \in Commands
  BY DEF MeasureInv, MeasureTypes
<1>3. CASE disk' = disk
  BY <1>1, <1>2, <1>3, EndKeeps DEF MeasureTypes, Verdict
<1>4. CASE disk' # disk
  <2> DEFINE d == [status |-> "failed", kind |-> run[o].kind, pod |-> run[o].pod,
                   seen |-> run[o].seen, work |-> run[o].work, checked |-> FALSE]
  <2>1. disk' = [disk EXCEPT ![o] = d]
    BY <1>1, <1>4 DEF M!Writes
  <2>2. d \in Results
    BY <1>2 DEF Commands, Results, M!Statuses
  <2>3. disk' \in [Owners -> Results] /\ disk'[o].status # "verified"
        /\ \A q \in Owners \ {o} : disk'[q] = disk[q]
    BY <1>2, <2>1, <2>2 DEF MeasureTypes
  <2>4. run[o].kind # "status"
    BY <1>1, <1>2, <1>4 DEF Stage, During, M!Kinds
  <2> QED BY <1>1, <2>3, <2>4, EndKeeps
<1> QED BY <1>3, <1>4

\* The Pod is identified again.
LEMMA RehashKeeps ==
    ASSUME M!Allowed, MeasureInv, NEW o \in Owners, M!Rehash(o)  PROVE MeasureInv'
<1>1. UNCHANGED <<pod, inside, changes, disk, served, watch, started, reports>>
  BY DEF M!Rehash, M!Keep, M!world
<1>2. /\ MeasureTypes /\ Stage(o) /\ Held(o) /\ Witnessed(o) /\ Verdict(o) /\ Told(o)
      /\ run[o] \in Commands /\ run[o].pc = "rehash" /\ run[o].answer # "ready"
  BY DEF MeasureInv, MeasureTypes, M!Rehash, M!At, Told
<1> DEFINE r2 == run'[o]
<1>3. /\ run' \in [Owners -> Commands] /\ \A q \in Owners \ {o} : run'[q] = run[q]
      /\ r2.pc = "same" /\ r2.kind = run[o].kind /\ r2.pod = run[o].pod
      /\ r2.seen = run[o].seen /\ r2.events = run[o].events /\ r2.answer = run[o].answer
  BY <1>2 DEF M!Rehash, MeasureTypes, Commands, M!PCs
<1>4. MeasureTypes'
  BY <1>1, <1>2, <1>3 DEF MeasureTypes
<1>5. Stage(o)' /\ Verdict(o)' /\ Told(o)' /\ Held(o)'
  BY <1>1, <1>2, <1>3 DEF Stage, Verdict, Told, Held, Before, During, After
<1>6. Witnessed(o)'
  BY <1>1, <1>2, <1>3 DEF Witnessed, Bounds, Before, During, After
<1> QED BY <1>1, <1>2, <1>3, <1>4, <1>5, <1>6, OwnStep

\* The result of a command that refuses what it read is marked as failed.
LEMMA Refusal ==
    ASSUME M!Allowed, MeasureInv, NEW o \in Owners, run[o].pc \in {"same", "finish"},
           UNCHANGED <<pod, inside, changes, watch, started, reports>>,
           M!Ends(o, "dead"), served' = [served EXCEPT ![o] = {}],
           disk' = disk \/ disk' = [disk EXCEPT ![o].status = "failed"]
    PROVE  MeasureInv'
<1>1. MeasureTypes /\ Stage(o) /\ Verdict(o) /\ disk[o] \in Results
  BY DEF MeasureInv, MeasureTypes
<1>2. disk' \in [Owners -> Results] /\ \A q \in Owners \ {o} : disk'[q] = disk[q]
  <2>1. CASE disk' = disk
    BY <1>1, <2>1 DEF MeasureTypes
  <2>2. CASE disk' = [disk EXCEPT ![o].status = "failed"]
    BY <1>1, <2>2 DEF MeasureTypes, Results, M!Statuses
  <2> QED BY <2>1, <2>2
<1>3. disk'[o].status # "verified"
  BY <1>1 DEF MeasureTypes, Verdict, Results
<1>4. run[o].kind # "status"
  BY <1>1 DEF Stage, During, After, M!Kinds
<1> QED BY <1>2, <1>3, <1>4, EndKeeps DEF M!Ends

\* Between two readings of one process and one set of files nothing else was there.
LEMMA SameKeeps ==
    ASSUME M!Allowed, MeasureInv, NEW o \in Owners, M!Same(o)  PROVE MeasureInv'
<1>1. UNCHANGED <<pod, inside, changes, watch, started, reports>>
  BY DEF M!Same, M!world
<1>2. /\ MeasureTypes /\ Stage(o) /\ Held(o) /\ Witnessed(o) /\ Verdict(o) /\ Told(o)
      /\ run[o] \in Commands /\ run[o].pc = "same" /\ run[o].answer # "ready"
  BY DEF MeasureInv, MeasureTypes, M!Same, M!At, Told
<1>3. CASE ~(M!SamePod(o) /\ inside.files = run[o].seen.files)
  BY <1>1, <1>2, <1>3, Refusal DEF M!Same
<1>4. CASE M!SamePod(o) /\ inside.files = run[o].seen.files
  <2> DEFINE p == IF run[o].kind = "serving" THEN "look" ELSE "finish"
  <2>1. /\ pod = run[o].pod /\ run' = [run EXCEPT ![o].pc = p]
        /\ disk' = disk /\ served' = served
    BY <1>4 DEF M!Same, M!SamePod, M!To
  <2>2. p \in After /\ p \in M!PCs /\ p # "done" /\ (p = "look" <=> run[o].kind = "serving")
    BY DEF After, M!PCs
  <2> HIDE DEF p
  <2> DEFINE r2 == run'[o]
  <2>3. /\ run' \in [Owners -> Commands] /\ \A q \in Owners \ {o} : run'[q] = run[q]
        /\ r2.pc = p /\ r2.kind = run[o].kind /\ r2.pod = run[o].pod
        /\ r2.seen = run[o].seen /\ r2.events = run[o].events /\ r2.answer = run[o].answer
    BY <1>2, <2>1, <2>2 DEF MeasureTypes, Commands
  <2>4. MeasureTypes'
    BY <1>1, <1>2, <2>1, <2>3 DEF MeasureTypes
  <2>5. Stage(o)' /\ Verdict(o)' /\ Told(o)' /\ Held(o)'
    BY <1>1, <1>2, <2>1, <2>2, <2>3 DEF Stage, Verdict, Told, Held, Before, During, After
  <2>6. ASSUME NEW s \in served[o]  PROVE Bounds(o, s)' /\ Agreed(o, s)'
    <3>1. Bounds(o, s)
      BY <1>2 DEF Witnessed, During
    <3>2. Bounds(o, s)'
      BY <1>1, <2>3, <3>1 DEF Bounds
    <3>3. s.proc = run[o].pod.proc /\ s.in.files = run[o].seen.files
      BY <1>2, <1>4, <2>1, <3>1, Numbers DEF Bounds
    <3> QED BY <2>2, <2>3, <3>2, <3>3 DEF Agreed
  <2>7. Witnessed(o)'
    BY <1>2, <2>1, <2>2, <2>3, <2>6 DEF Witnessed, Before, During, After
  <2> QED BY <1>1, <1>2, <2>1, <2>3, <2>4, <2>5, <2>7, OwnStep
<1> QED BY <1>3, <1>4

\* The libraries and the memory events too, as long as the process is the same.
LEMMA FinishKeeps ==
    ASSUME M!Allowed, MeasureInv, NEW o \in Owners, M!Finish(o)  PROVE MeasureInv'
<1>1. UNCHANGED <<pod, inside, changes, watch, started, reports>>
  BY DEF M!Finish, M!world
<1>2. /\ MeasureTypes /\ Stage(o) /\ Held(o) /\ Witnessed(o) /\ Verdict(o) /\ Told(o)
      /\ run[o] \in Commands /\ disk[o] \in Results
      /\ run[o].pc = "finish" /\ run[o].answer # "ready"
  BY DEF MeasureInv, MeasureTypes, M!Finish, M!At, Told
<1>3. CASE ~M!SameAfter(o)
  BY <1>1, <1>2, <1>3, Refusal DEF M!Finish
<1>4. CASE M!SameAfter(o)
  <2>1. /\ run' = [run EXCEPT ![o].pc = "look"] /\ disk' = [disk EXCEPT ![o].checked = TRUE]
        /\ served' = served
    BY <1>4 DEF M!Finish, M!To
  <2> DEFINE r2 == run'[o]
  <2> DEFINE d2 == disk'[o]
  <2>2. /\ run' \in [Owners -> Commands] /\ \A q \in Owners \ {o} : run'[q] = run[q]
        /\ r2.pc = "look" /\ r2.kind = run[o].kind /\ r2.pod = run[o].pod
        /\ r2.seen = run[o].seen /\ r2.events = run[o].events /\ r2.answer = run[o].answer
    BY <1>2, <2>1 DEF MeasureTypes, Commands, M!PCs
  <2>3. /\ disk' \in [Owners -> Results] /\ \A q \in Owners \ {o} : disk'[q] = disk[q]
        /\ d2.status = disk[o].status /\ d2.kind = disk[o].kind /\ d2.pod = disk[o].pod
        /\ d2.seen = disk[o].seen
    BY <1>2, <2>1 DEF MeasureTypes, Results
  <2>4. MeasureTypes'
    BY <1>1, <1>2, <2>1, <2>2, <2>3 DEF MeasureTypes
  <2>5. Stage(o)' /\ Verdict(o)' /\ Told(o)' /\ Held(o)'
    BY <1>1, <1>2, <2>2, <2>3 DEF Stage, Verdict, Told, Held, Before, During, After, M!Kinds
  <2>6. ASSUME NEW s \in served[o]  PROVE Bounds(o, s)' /\ Agreed(o, s)'
    <3>1. Bounds(o, s) /\ Agreed(o, s)
      BY <1>2 DEF Witnessed, After
    <3>2. Bounds(o, s)'
      BY <1>1, <2>2, <3>1 DEF Bounds
    <3>3. run[o].kind # "serving" /\ inside.libs = run[o].seen.libs /\ inside.events = run[o].events
      BY <1>2, <1>4 DEF Stage, M!SameAfter
    <3>4. s.in.libs = run[o].seen.libs /\ (pod.proc = run[o].pod.proc => s.in.events = run[o].events)
      BY <1>2, <3>1, <3>3, Numbers DEF Bounds, Agreed
    <3> QED BY <1>1, <2>2, <3>1, <3>2, <3>4 DEF Agreed
  <2>7. Witnessed(o)'
    BY <1>2, <2>1, <2>2, <2>6 DEF Witnessed, Before, During, After
  <2> QED BY <1>1, <1>2, <2>1, <2>2, <2>3, <2>4, <2>5, <2>7, OwnStep
<1> QED BY <1>3, <1>4

\* The last look at the Pod: what answered is what the result names.
LEMMA VerifiedKeeps ==
    ASSUME M!Allowed, MeasureInv, NEW o \in Owners, M!Verified(o)  PROVE MeasureInv'
<1>1. /\ UNCHANGED <<pod, inside, changes, watch, started, reports, served>>
      /\ run' = [run EXCEPT ![o] = [M!NoRun EXCEPT !.pc = "done", !.kind = run[o].kind]]
      /\ disk' = [disk EXCEPT ![o].status = "verified"]
      /\ run[o].kind # "serving" => pod = run[o].pod
  BY DEF M!Verified, M!Ends, M!LastLook, M!world
<1>2. /\ MeasureTypes /\ Stage(o) /\ Held(o) /\ Witnessed(o)
      /\ run[o] \in Commands /\ disk[o] \in Results /\ run[o].pc = "look"
  BY DEF MeasureInv, MeasureTypes, M!Verified, M!At
<1> DEFINE r2 == run'[o]
<1> DEFINE d2 == disk'[o]
<1>3. /\ run' \in [Owners -> Commands] /\ \A q \in Owners \ {o} : run'[q] = run[q]
      /\ r2.pc = "done" /\ r2.kind = run[o].kind /\ r2.answer = "none"
  <2>1. [M!NoRun EXCEPT !.pc = "done", !.kind = run[o].kind] \in Commands
    BY <1>2, NoRunTyped DEF Commands, M!PCs, M!NoRun
  <2> QED BY <1>1, <1>2, <2>1 DEF MeasureTypes, M!NoRun
<1>4. /\ disk' \in [Owners -> Results] /\ \A q \in Owners \ {o} : disk'[q] = disk[q]
      /\ d2.status = "verified" /\ d2.kind = run[o].kind /\ d2.pod = run[o].pod
      /\ d2.seen = run[o].seen
  BY <1>1, <1>2 DEF MeasureTypes, Results, M!Statuses, Stage
<1>5. MeasureTypes'
  BY <1>1, <1>2, <1>3, <1>4 DEF MeasureTypes
<1>6. run[o].kind \in M!Kinds /\ served[o] # {}
  BY <1>2 DEF Stage, Witnessed, After
<1>7. Stage(o)' /\ Told(o)' /\ Held(o)' /\ Witnessed(o)'
  BY <1>3, <1>6 DEF Stage, Told, Held, Witnessed, Before, During, After, M!Kinds
<1>8. ASSUME NEW s \in served[o]  PROVE Agreed(o, s) /\ s.in.events \in 0..MaxChanges
  BY <1>2 DEF Witnessed, After, MeasureTypes, Replied, M!Inside
<1>9. M!AnsweredBy(o, disk[o])'
  BY <1>1, <1>2, <1>4, <1>8 DEF M!AnsweredBy, Agreed
<1>10. ASSUME run[o].kind # "serving"
       PROVE  \A s \in served[o] : s.in.events = run[o].events
  BY <1>1, <1>2, <1>8, <1>10 DEF Agreed
<1>11. Verdict(o)'
  BY <1>1, <1>3, <1>4, <1>6, <1>9, <1>10 DEF Verdict
<1> QED BY <1>1, <1>2, <1>3, <1>4, <1>5, <1>7, <1>11, OwnStep

-----------------------------------------------------------------------------
(* The questions                                                             *)

\* An answer is given once, and "ready" for a warmup of another command.
LEMMA AnswerKeeps ==
    ASSUME M!Allowed, MeasureInv, NEW o \in Owners, NEW a \in M!Answers, M!Answer(o, a),
           run[o].pc # "done", run[o].pc \in Before \union {"dead"}, disk[o].status = "none",
           a = "ready" => \E t \in Owners \ {o} : M!Warm(disk[t]) /\ M!SameWarm(o, disk[t])
    PROVE  MeasureInv'
<1>1. UNCHANGED <<pod, inside, changes, disk, served, watch, started, reports>>
  BY DEF M!Answer, M!Keep, M!world
<1>2. /\ MeasureTypes /\ Witnessed(o) /\ run[o] \in Commands /\ served[o] = {}
  BY DEF MeasureInv, MeasureTypes, Witnessed
<1> DEFINE r2 == run'[o]
<1>3. /\ run' \in [Owners -> Commands] /\ \A q \in Owners \ {o} : run'[q] = run[q]
      /\ r2.pc = "done" /\ r2.kind = "status" /\ r2.answer = a
      /\ a = "ready" => r2.pod = run[o].pod /\ r2.seen = run[o].seen
  <2> DEFINE p == IF a = "ready" THEN run[o].pod ELSE M!NoPod
  <2> DEFINE v == IF a = "ready" THEN run[o].seen ELSE M!Nothing
  <2>1. run' = [run EXCEPT ![o] = [M!NoRun EXCEPT !.pc = "done", !.kind = "status",
                                                 !.answer = a, !.pod = p, !.seen = v]]
    BY DEF M!Answer
  <2>2. p \in M!Views /\ v \in M!Inside
    BY <1>2, NoRunTyped DEF Commands
  <2> DEFINE c == [M!NoRun EXCEPT !.pc = "done", !.kind = "status", !.answer = a,
                                  !.pod = p, !.seen = v]
  <2>3. c \in Commands /\ c.pc = "done" /\ c.kind = "status" /\ c.answer = a
        /\ c.pod = p /\ c.seen = v
    <3> HIDE DEF p, v
    <3> QED BY <2>2, NoRunTyped DEF Commands, M!PCs, M!NoRun
  <2>4. run' = [run EXCEPT ![o] = c]
    BY <2>1
  <2> HIDE DEF c
  <2> QED BY <1>2, <2>3, <2>4 DEF MeasureTypes
<1>4. MeasureTypes'
  BY <1>1, <1>2, <1>3 DEF MeasureTypes
<1>5. Stage(o)' /\ Held(o)' /\ Witnessed(o)' /\ Verdict(o)'
  BY <1>1, <1>2, <1>3 DEF Stage, Held, Witnessed, Verdict, Before, During, After
<1>6. Told(o)'
  <2> SUFFICES ASSUME a = "ready"
               PROVE  \E t \in Owners \ {o} : (M!Warm(disk[t]) /\ M!AnsweredBy(t, run[o]))'
    BY <1>3 DEF Told
  <2>1. PICK t \in Owners \ {o} : M!Warm(disk[t]) /\ M!SameWarm(o, disk[t])
    OBVIOUS
  <2>2. M!AnsweredBy(t, disk[t]) /\ disk[t].kind # "serving"
    BY <2>1 DEF MeasureInv, Verdict, M!Warm
  <2>3. /\ disk[t].pod.proc = r2.pod.proc /\ disk[t].seen.files = r2.seen.files
        /\ disk[t].seen.libs = r2.seen.libs
    BY <1>3, <2>1 DEF M!SameWarm, M!SameIdentity
  <2>4. M!Warm(disk[t])' /\ M!AnsweredBy(t, run[o])'
    BY <1>1, <2>1, <2>2, <2>3 DEF M!Warm, M!AnsweredBy
  <2> QED BY <2>4
<1> QED BY <1>1, <1>2, <1>3, <1>4, <1>5, <1>6, OwnStep

\* The first look.
LEMMA LookKeeps ==
    ASSUME M!Allowed, MeasureInv, NEW o \in Owners, M!Looks(o)  PROVE MeasureInv'
<1>1. /\ MeasureTypes /\ Stage(o) /\ Witnessed(o) /\ Verdict(o) /\ Told(o)
      /\ run[o] \in Commands /\ run[o].pc = "new" /\ disk[o].status = "none"
      /\ run[o].answer # "ready"
  BY DEF MeasureInv, MeasureTypes, M!Looks, M!At, Stage, Told
<1>2. CASE pod.ready /\ pod.phase = "running"
  <2>1. /\ UNCHANGED <<pod, inside, changes, disk, served, watch, started, reports>>
        /\ run' = [run EXCEPT ![o].pc = "collect", ![o].kind = "status", ![o].first = pod]
    BY <1>2 DEF M!Looks, M!Keep, M!world
  <2> DEFINE r2 == run'[o]
  <2>2. /\ run' \in [Owners -> Commands] /\ \A q \in Owners \ {o} : run'[q] = run[q]
        /\ r2.pc = "collect" /\ r2.kind = "status" /\ r2.answer = run[o].answer
    BY <1>1, <2>1 DEF MeasureTypes, Commands, M!PCs
  <2>3. MeasureTypes'
    BY <1>1, <2>1, <2>2 DEF MeasureTypes
  <2>4. Stage(o)' /\ Held(o)' /\ Witnessed(o)' /\ Verdict(o)' /\ Told(o)'
    BY <1>1, <2>1, <2>2 DEF Stage, Held, Witnessed, Verdict, Told, Before, During, After
  <2> QED BY <1>1, <2>1, <2>2, <2>3, <2>4, OwnStep
<1>3. CASE ~(pod.ready /\ pod.phase = "running")
  <2>1. M!Answer(o, M!PodStatus(pod))
    BY <1>3 DEF M!Looks
  <2>2. M!PodStatus(pod) \in M!Answers /\ M!PodStatus(pod) # "ready"
    BY <1>1 DEF M!PodStatus, M!Answers, MeasureTypes, M!Views
  <2> QED BY <1>1, <2>1, <2>2, AnswerKeeps DEF Before
<1> QED BY <1>2, <1>3

\* No answer rests on evidence that is not there.
LEMMA UnknownKeeps ==
    ASSUME M!Allowed, MeasureInv, NEW o \in Owners, M!NoEvidence(o)  PROVE MeasureInv'
<1>1. Stage(o) /\ M!Answer(o, "unknown") /\ run[o].kind = "status"
      /\ run[o].pc \in {"collect", "hash", "probe", "dead", "collected"}
  BY DEF MeasureInv, M!NoEvidence, M!At
<1> QED BY <1>1, AnswerKeeps DEF Stage, Before, M!Answers

\* "ready" is said of the process, the files and the libraries of a verified warmup.
LEMMA ReplyKeeps ==
    ASSUME M!Allowed, MeasureInv, NEW o \in Owners, M!Replies(o)  PROVE MeasureInv'
<1>1. Stage(o) /\ run[o].pc = "collected" /\ run[o].kind = "status" /\ disk[o].status = "none"
  BY DEF MeasureInv, M!Replies, M!At, Stage
<1>2. CASE run[o].pod # run[o].first
  BY <1>1, <1>2, AnswerKeeps DEF M!Replies, Before, M!Answers
<1>3. CASE run[o].pod = run[o].first
  <2>1. PICK t \in Owners : M!Answer(o, M!WarmStatus(o, disk[t]))
    BY <1>3 DEF M!Replies
  <2> DEFINE w == disk[t]
  <2>2. \/ w.status = "none" /\ M!WarmStatus(o, w) = "healthy"
        \/ w.status # "none" /\ w.kind # "kernel-warmup" /\ M!WarmStatus(o, w) = "unknown"
        \/ w.kind = "kernel-warmup" /\ w.status # "none"
           /\ ~M!SameWarm(o, w) /\ M!WarmStatus(o, w) = "stale"
        \/ w.kind = "kernel-warmup" /\ w.status = "verified" /\ M!SameWarm(o, w)
           /\ M!WarmStatus(o, w) = "ready"
        \/ M!WarmStatus(o, w) \in {"healthy", "unknown"}
    <3> DEFINE N == w.status = "none"
    <3> DEFINE K == w.kind = "kernel-warmup"
    <3> DEFINE Q == M!SameWarm(o, w)
    <3>1. CASE N
      <4> HIDE DEF Q
      <4> QED BY <3>1 DEF M!WarmStatus
    <3>3. CASE ~N /\ ~K
      BY <3>3 DEF M!WarmStatus
    <3>4. CASE ~N /\ K /\ ~Q
      BY <3>4 DEF M!WarmStatus
    <3>5. CASE ~N /\ K /\ Q
      BY <3>5 DEF M!WarmStatus
    <3> QED BY <3>1, <3>3, <3>4, <3>5
  <2>3. M!WarmStatus(o, w) \in M!Answers
    BY <2>2 DEF M!Answers
  <2>4. M!WarmStatus(o, w) = "ready" => M!Warm(w) /\ M!SameWarm(o, w) /\ t # o
    BY <1>1, <2>2 DEF M!Warm
  <2> HIDE DEF w
  <2>5. M!WarmStatus(o, w) = "ready"
          => \E u \in Owners \ {o} : M!Warm(disk[u]) /\ M!SameWarm(o, disk[u])
    BY <2>4 DEF w
  <2> QED BY <1>1, <2>1, <2>3, <2>5, AnswerKeeps DEF Before, w
<1> QED BY <1>2, <1>3

-----------------------------------------------------------------------------
(* The observation of starts, and comparisons                                *)

LEMMA WatchKeeps ==
    ASSUME M!Allowed, MeasureInv, M!Watches \/ M!Observed  PROVE MeasureInv'
<1>1. UNCHANGED <<pod, inside, changes, run, disk, served, reports>>
  BY DEF M!Watches, M!Observed, M!world
<1>2. MeasureTypes
  BY DEF MeasureInv
<1>3. watch' \in 0..MaxProcs /\ started' \subseteq 1..MaxProcs /\ started \subseteq started'
  BY <1>2 DEF M!Watches, M!Observed, M!SameStart, M!Allowed, MeasureTypes, M!Views
<1>4. MeasureTypes' /\ Newest'
  BY <1>1, <1>2, <1>3 DEF MeasureTypes, MeasureInv, Newest
<1>5. ASSUME NEW o \in Owners  PROVE Stage(o)' /\ Held(o)' /\ Witnessed(o)' /\ Verdict(o)' /\ Told(o)'
  <2>1. Stage(o) /\ Held(o) /\ Witnessed(o) /\ Verdict(o) /\ Told(o)
    BY DEF MeasureInv
  <2>2. Witnessed(o)'
    BY <1>1, <2>1 DEF Witnessed, Bounds, Agreed
  <2>3. Told(o)'
    BY <1>1, <2>1 DEF Told, M!Warm, M!AnsweredBy
  <2>4. Verdict(o)'
    BY <1>1, <2>1 DEF Verdict, M!AnsweredBy
  <2> QED BY <1>1, <2>1, <2>2, <2>3, <2>4 DEF Stage, Held
<1>6. ASSUME NEW r \in reports  PROVE Stands(r)'
  BY <1>1, <1>3 DEF Stands, MeasureInv
<1> QED BY <1>1, <1>4, <1>5, <1>6 DEF MeasureInv

\* A memory comparison is of deployments that differ in nothing else.
LEMMA OnlyMemory ==
    ASSUME M!Allowed, NEW a \in Results, NEW b \in Results,
           M!SameIdentity(a, [b EXCEPT !.pod.dep.memory = a.pod.dep.memory])
    PROVE  b.pod.dep = [a.pod.dep EXCEPT !.memory = b.pod.dep.memory]
<1> DEFINE d == a.pod.dep
<1> DEFINE e == b.pod.dep
<1>1. d \in Deployments /\ e \in Deployments
  BY DEF Results, M!Views
<1>2. d = [image |-> d.image, settings |-> d.settings, memory |-> d.memory, descriptor |-> d.descriptor]
      /\ e = [image |-> e.image, settings |-> e.settings, memory |-> e.memory, descriptor |-> e.descriptor]
  BY <1>1 DEF M!Allowed
<1>3. d = [e EXCEPT !.memory = d.memory]
  <2>1. b.pod \in M!Views
    BY DEF Results
  <2>2. [b EXCEPT !.pod.dep.memory = d.memory].pod.dep = [e EXCEPT !.memory = d.memory]
    BY <2>1 DEF Results, M!Views
  <2> QED BY <2>2 DEF M!SameIdentity
<1> HIDE DEF d, e
<1>4. e = [d EXCEPT !.memory = e.memory]
  BY <1>2, <1>3
<1> QED BY <1>4 DEF d, e

LEMMA ReportKeeps ==
    ASSUME M!Allowed, MeasureInv, NEW a \in Owners, NEW b \in Owners,
           M!Quality(a, b) \/ M!Compare(a, b) \/ (a = b /\ M!Tunes(a))
    PROVE  MeasureInv'
<1>1. PICK k \in M!ReportKinds :
        /\ M!Reports(k, a, b)
        /\ k = "tuning" => a = b
        /\ k # "tuning" => M!Comparable(IF k = "reuse" THEN "kernel" ELSE k, disk[a], disk[b])
        /\ k = "reuse" => /\ M!SameIdentity(disk[a], disk[b]) /\ M!Restarted(disk[a], disk[b])
                         /\ M!StartsSeen(disk[a], disk[b])
        /\ disk[a].status = "verified" /\ disk[b].status = "verified"
  <2>1. CASE M!Quality(a, b)
    BY <2>1 DEF M!Quality, M!ReportKinds, M!Warm
  <2>2. CASE M!Compare(a, b)
    BY <2>2 DEF M!Compare, M!ReportKinds, M!Warm
  <2>3. CASE a = b /\ M!Tunes(a)
    BY <2>3 DEF M!Tunes, M!ReportKinds, M!Profiled
  <2> QED BY <2>1, <2>2, <2>3
<1>2. UNCHANGED <<pod, inside, changes, run, disk, served, watch, started>>
      /\ reports' = {[kind |-> k, a |-> a, b |-> b]}
  BY <1>1 DEF M!Reports, M!world
<1>3. MeasureTypes /\ Newest /\ disk[a] \in Results /\ disk[b] \in Results
  BY DEF MeasureInv, MeasureTypes
<1>4. MeasureTypes' /\ Newest'
  BY <1>2, <1>3 DEF MeasureTypes, Newest
<1>5. ASSUME NEW o \in Owners  PROVE Stage(o)' /\ Held(o)' /\ Witnessed(o)' /\ Verdict(o)' /\ Told(o)'
  <2>1. Stage(o) /\ Held(o) /\ Witnessed(o) /\ Verdict(o) /\ Told(o)
    BY DEF MeasureInv
  <2>2. Witnessed(o)'
    BY <1>2, <2>1 DEF Witnessed, Bounds, Agreed
  <2>3. Told(o)'
    BY <1>2, <2>1 DEF Told, M!Warm, M!AnsweredBy
  <2>4. Verdict(o)'
    BY <1>2, <2>1 DEF Verdict, M!AnsweredBy
  <2> QED BY <1>2, <2>1, <2>2, <2>3, <2>4 DEF Stage, Held
<1>6. k = "memory" => disk[b].pod.dep = [disk[a].pod.dep EXCEPT !.memory = disk[b].pod.dep.memory]
  BY <1>1, <1>3, OnlyMemory DEF M!Comparable
<1>7. disk[a].work = disk[b].work /\ disk[a].seen.files = disk[b].seen.files
  BY <1>1 DEF M!Comparable
<1>8. k = "reuse" => /\ disk[a].pod.proc # disk[b].pod.proc
                    /\ {disk[a].pod.proc, disk[b].pod.proc} \subseteq started
                    /\ disk[a].pod.dep = disk[b].pod.dep
  BY <1>1 DEF M!SameIdentity, M!Restarted, M!StartsSeen
<1>9. ASSUME NEW r \in reports'  PROVE Stands(r)'
  <2>1. r.kind = k /\ r.a = a /\ r.b = b
    BY <1>2
  <2> QED BY <1>1, <1>2, <1>6, <1>7, <1>8, <2>1 DEF Stands
<1> QED BY <1>4, <1>5, <1>9 DEF MeasureInv

-----------------------------------------------------------------------------
LEMMA MeasureNext ==
    ASSUME M!Allowed, MeasureInv, [M!Next]_M!vars  PROVE MeasureInv'
<1>1. CASE UNCHANGED M!vars
  <2>1. UNCHANGED <<pod, inside, changes, run, disk, served, watch, started, reports>>
    BY <1>1 DEF M!vars, M!world
  <2>2. MeasureTypes' /\ Newest'
    BY <2>1 DEF MeasureInv, MeasureTypes, Newest
  <2>3. ASSUME NEW o \in Owners  PROVE Stage(o)' /\ Held(o)' /\ Witnessed(o)' /\ Verdict(o)' /\ Told(o)'
    <3>1. Stage(o) /\ Held(o) /\ Witnessed(o) /\ Verdict(o) /\ Told(o)
      BY DEF MeasureInv
    <3>2. Stage(o)' /\ Held(o)'
      BY <2>1, <3>1 DEF Stage, Held
    <3>3. Witnessed(o)'
      BY <2>1, <3>1 DEF Witnessed, Bounds, Agreed
    <3>4. Verdict(o)'
      BY <2>1, <3>1 DEF Verdict, M!AnsweredBy
    <3>5. Told(o)'
      BY <2>1, <3>1 DEF Told, M!Warm, M!AnsweredBy
    <3> QED BY <3>2, <3>3, <3>4, <3>5
  <2>4. ASSUME NEW r \in reports  PROVE Stands(r)'
    BY <2>1 DEF Stands, MeasureInv
  <2> QED BY <2>1, <2>2, <2>3, <2>4 DEF MeasureInv
<1>2. ASSUME NEW o \in Owners, M!Measures(o)  PROVE MeasureInv'
  BY <1>2, EvidenceKeeps, BeginKeeps, RequestKeeps, FailureKeeps, RehashKeeps, SameKeeps,
     FinishKeeps, VerifiedKeeps
     DEF M!Measures
<1>3. ASSUME NEW o \in Owners, M!Asks(o)  PROVE MeasureInv'
  BY <1>3, LookKeeps, UnknownKeeps, ReplyKeeps DEF M!Asks
<1>4. ASSUME NEW o \in Owners, M!Tunes(o)  PROVE MeasureInv'
  BY <1>4, ReportKeeps
<1>5. ASSUME NEW a \in Owners, NEW b \in Owners, M!Quality(a, b) \/ M!Compare(a, b)
      PROVE  MeasureInv'
  BY <1>5, ReportKeeps
<1> QED BY <1>1, <1>2, <1>3, <1>4, <1>5, WorldKeeps, WatchKeeps DEF M!Next

LEMMA MeasureHolds == SpecServing => []MeasureInv
<1>1. InitServing => MeasureInv
  BY MeasureInit, ServingAssumption DEF InitServing
<1>2. MeasureInv /\ [NextMeasure \/ NextResize]_<<subject, measurement, resize>> => MeasureInv'
  <2> SUFFICES ASSUME MeasureInv, [NextMeasure \/ NextResize]_<<subject, measurement, resize>>
               PROVE  MeasureInv'
    OBVIOUS
  <2>1. [M!Next]_M!vars
    BY DEF NextMeasure, NextResize, measurement, M!vars, M!world
  <2> QED BY <2>1, MeasureNext, ServingAssumption
<1> QED BY <1>1, <1>2, PTL DEF SpecServing

\* A result marked as measured (performance.sh, kernel_run.py) is of one process, with
\* the model and the libraries it names: for any number of owners, of restarts and
\* of changes between any two looks.
THEOREM OneMeasured == SpecServing => []OneProcess
<1>1. MeasureInv => OneProcess
  BY DEF MeasureInv, Verdict, OneProcess, M!OneProcess
<1> QED BY <1>1, MeasureHolds, PTL

\* "ready" (serving_runtime.warm_status) is a process that answered a verified warmup.
THEOREM ReadyWarm == SpecServing => []ReadyIsWarm
<1>1. MeasureInv => ReadyIsWarm
  BY DEF MeasureInv, Told, ReadyIsWarm, M!ReadyIsWarm
<1> QED BY <1>1, MeasureHolds, PTL

\* A comparison (model_kernels.py) is of verified runs that may be compared.
THEOREM Compared == SpecServing => []ReportsStand
<1>1. MeasureInv => ReportsStand
  <2> SUFFICES ASSUME MeasureInv, NEW r \in reports
               PROVE  Stands(r) /\ M!AnsweredBy(r.a, disk[r.a]) /\ M!AnsweredBy(r.b, disk[r.b])
    BY DEF ReportsStand, M!ReportsStand, Stands
  <2>1. Stands(r) /\ r.a \in Owners /\ r.b \in Owners
    BY DEF MeasureInv, MeasureTypes
  <2>2. Verdict(r.a) /\ Verdict(r.b)
    BY <2>1 DEF MeasureInv
  <2> QED BY <2>1, <2>2 DEF Stands, Verdict
<1> QED BY <1>1, MeasureHolds, PTL

-----------------------------------------------------------------------------
(* A lower limit: Resize, for any Pods, levels of memory, samples and faults.

   The last sample of a steady window was taken when the workload was over, so it
   covers what was used until then (Covering), and a Pod that was measured does not
   change any more (Sound). What the planner read may change on disk; a version
   tells (Whole).                                                             *)

Samples ==
    [peak : Levels \union {0}, stalls : Nat, pressure : BOOLEAN, late : BOOLEAN, after : BOOLEAN]
OnePod ==
    [phase : R!Phases, peak : Levels \union {0}, stalls : Nat, pressure : BOOLEAN,
     restarted : BOOLEAN, key : {1, 2}, cache : R!Caches]
OneFile == [start : Seq(Samples), run : Seq(Samples), fresh : BOOLEAN, version : Nat]
OneResize ==
    [pc : {"idle", "reading", "proposed", "refused", "written"},
     read : Seq([pod : Pods, version : Nat]), limit : Nat, other : Nat, whole : BOOLEAN]

ResizeTypes ==
    /\ pods \in [Pods -> OnePod]
    /\ file \in [Pods -> OneFile]
    /\ high \in [Pods -> [peak : Levels \union {0}, pressure : BOOLEAN]]
    /\ plan \in OneResize
    /\ faults \in Nat

\* A sample taken after the workload covers what was used until it ended.
Covers(h, s) == s.after => h.peak <= s.peak /\ (h.pressure => s.pressure)
Covering == \A p \in Pods :
    /\ pods[p].phase = "finished" =>
          high[p].peak <= pods[p].peak /\ (high[p].pressure => pods[p].pressure)
    /\ \A i \in 1..Len(file[p].run) :
          /\ Covers(high[p], file[p].run[i])
          /\ file[p].run[i].after => pods[p].phase \in {"finished", "measured"}

\* What has been read is of distinct, measured Pods of one runtime.
Sound ==
    /\ plan.pc \in {"idle", "refused"} => plan.read = <<>>
    /\ plan.pc = "reading" => Len(plan.read) >= 1
    /\ \A i \in 1..Len(plan.read) :
        LET p == plan.read[i].pod
        IN  /\ pods[p].phase = "measured"
            /\ R!Window(file[p].start, 2) /\ R!Window(file[p].run, LongEnough)
            /\ R!Covers(file[p].run)
            /\ plan.read[i].version <= file[p].version
    /\ \A i, j \in 1..Len(plan.read) :
        /\ plan.read[i].pod = plan.read[j].pod => i = j
        /\ pods[plan.read[i].pod].key = pods[plan.read[j].pod].key

\* A limit covers them, fits the host, and rests on files that were there together.
Room(p) == high[p].peak + Shm + R!Headroom(high[p].peak + Shm)
Whole ==
    /\ plan.pc \in {"proposed", "written"} =>
        /\ \A i \in 1..Len(plan.read) : Room(plan.read[i].pod) <= plan.limit
        /\ Cardinality(R!Observed) >= 2 * PerPhase
        /\ R!Fits(plan.limit, plan.other)
    /\ plan.pc = "proposed" =>
        \/ plan.whole
        \/ \E i \in 1..Len(plan.read) : plan.read[i].version < file[plan.read[i].pod].version
    /\ plan.pc = "written" => plan.whole

ResizeInv == ResizeTypes /\ Covering /\ Sound /\ Whole

LEMMA SameCount == ASSUME NEW T  PROVE R!Cardinality(T) = Cardinality(T)
  BY Zenon DEF Cardinality, R!Cardinality

\* A bounded set of numbers has a greatest element, which is what is chosen.
LEMMA HasGreatest ==
    ASSUME NEW n \in Nat, NEW T, T \subseteq 0..n, T # {}
    PROVE  R!Greatest(T) \in T /\ \A y \in T : y <= R!Greatest(T)
<1> DEFINE D == {n - x : x \in T}
<1>1. D \subseteq Nat /\ D # {}
  OBVIOUS
<1>2. PICK d \in D : \A y \in D : ~(<<y, d>> \in OpToRel(<, Nat))
  BY <1>1, NatLessThanWellFounded, WFMin
<1>3. \A y \in D : d <= y
  <2> SUFFICES ASSUME NEW y \in D, y < d  PROVE FALSE
    BY <1>1
  <2>1. <<y, d>> \in OpToRel(<, Nat)
    BY <1>1 DEF OpToRel
  <2> QED BY <1>2, <2>1
<1>4. PICK m \in T : d = n - m
  BY <1>2
<1> DEFINE Top(x) == x \in T /\ \A y \in T : y <= x
<1>5. Top(m)
  <2> SUFFICES ASSUME NEW y \in T  PROVE y <= m
    OBVIOUS
  <2>1. d <= n - y
    BY <1>3
  <2> QED BY <1>4, <2>1
<1>6. R!Greatest(T) = CHOOSE x : Top(x)
  BY DEF R!Greatest
<1> HIDE DEF Top
<1>7. Top(CHOOSE x : Top(x))
  BY <1>5, Zenon
<1> QED BY <1>6, <1>7 DEF Top

\* A limit is rounded up, and the headroom grows with what it is a part of.
LEMMA RoundsUp ==
    ASSUME R!Allowed, NEW n \in Nat  PROVE R!RoundUp(n) \in Nat /\ R!RoundUp(n) >= n
<1> DEFINE k == n + Round - 1
<1> DEFINE q == k \div Round
<1>1. Round \in Nat /\ Round >= 1 /\ k \in Nat
  BY DEF R!Allowed
<1>2. q \in Nat /\ k = Round * q + (k % Round) /\ k % Round < Round
  <2> HIDE DEF k
  <2> QED BY <1>1
<1> HIDE DEF q
<1>3. q * Round = Round * q /\ q * Round \in Nat
  BY <1>1, <1>2
<1>4. q * Round >= n
  BY <1>1, <1>2, <1>3
<1> QED BY <1>3, <1>4 DEF R!RoundUp, q, k

LEMMA Headrooms ==
    ASSUME R!Allowed, NEW a \in Nat, NEW b \in Nat, a <= b
    PROVE  R!Headroom(a) \in Nat /\ R!Headroom(b) \in Nat /\ R!Headroom(a) <= R!Headroom(b)
<1>1. Margin \in Nat
  BY DEF R!Allowed
<1>2. ASSUME NEW e \in Nat
      PROVE  /\ R!Headroom(e) \in {Margin, (e + 3) \div 4}
             /\ Margin <= R!Headroom(e) /\ (e + 3) \div 4 <= R!Headroom(e)
  <2> DEFINE f == (e + 3) \div 4
  <2>1. f \in Nat
    OBVIOUS
  <2> HIDE DEF f
  <2>2. \E n \in Nat : {Margin, f} \subseteq 0..n
    <3>1. {Margin, f} \subseteq 0..(Margin + f) /\ Margin + f \in Nat
      BY <1>1, <2>1
    <3> QED BY <3>1
  <2>3. PICK n \in Nat : {Margin, f} \subseteq 0..n
    BY <2>2
  <2>4. R!Greatest({Margin, f}) \in {Margin, f} /\ \A y \in {Margin, f} : y <= R!Greatest({Margin, f})
    BY <2>3, HasGreatest
  <2>5. R!Headroom(e) = R!Greatest({Margin, f})
    BY DEF R!Headroom, f
  <2> QED BY <2>4, <2>5 DEF f
<1>3. (a + 3) \div 4 \in Nat /\ (b + 3) \div 4 \in Nat /\ (a + 3) \div 4 <= (b + 3) \div 4
  OBVIOUS
<1> QED BY <1>1, <1>2, <1>3

LEMMA ResizeInit ==
    ASSUME R!Allowed, R!Init  PROVE ResizeInv
<1>1. ResizeTypes
  <2>1. R!NewPod \in OnePod /\ R!NoFile \in OneFile /\ R!NoPlan \in OneResize
    BY DEF R!NewPod, R!NoFile, R!NoPlan, OnePod, OneFile, OneResize, R!Phases, R!Caches
  <2>2. [peak |-> 0, pressure |-> FALSE] \in [peak : Levels \union {0}, pressure : BOOLEAN]
    OBVIOUS
  <2> QED BY <2>1, <2>2 DEF R!Init, ResizeTypes
<1>2. \A p \in Pods : pods[p].phase = "none" /\ file[p].run = <<>>
  BY DEF R!Init, R!NewPod, R!NoFile
<1>3. plan.read = <<>> /\ plan.pc = "idle"
  BY DEF R!Init, R!NoPlan
<1>4. Covering
  BY <1>2 DEF Covering
<1>5. Sound /\ Whole
  BY <1>3 DEF Sound, Whole
<1> QED BY <1>1, <1>4, <1>5 DEF ResizeInv

-----------------------------------------------------------------------------
(* The Pods and the observers change nothing of a Pod that was measured.     *)

\* What is used of a Pod that was measured stays; a file may get another version.
Untouched(p) ==
    /\ pods'[p] = pods[p] /\ high'[p] = high[p]
    /\ file'[p].start = file[p].start /\ file'[p].run = file[p].run
    /\ file[p].version <= file'[p].version

LEMMA StillRead ==
    ASSUME ResizeInv, ResizeTypes', Covering', plan' = plan,
           \A p \in Pods : pods[p].phase = "measured" => Untouched(p)
    PROVE  ResizeInv'
<1>1. ResizeTypes /\ Sound /\ Whole
  BY DEF ResizeInv
<1>2. ASSUME NEW i \in 1..Len(plan.read)
      PROVE  plan.read[i].pod \in Pods /\ Untouched(plan.read[i].pod) /\ plan.read[i].version \in Nat
  <2>1. plan.read \in Seq([pod : Pods, version : Nat])
    BY <1>1 DEF ResizeTypes, OneResize
  <2>2. plan.read[i] \in [pod : Pods, version : Nat]
    BY <2>1, ElementOfSeq
  <2>3. pods[plan.read[i].pod].phase = "measured"
    BY <1>1 DEF Sound
  <2> QED BY <2>2, <2>3
<1>3. ASSUME NEW p \in Pods
      PROVE  file[p].version \in Nat /\ file'[p].version \in Nat
  BY <1>1 DEF ResizeTypes, OneFile
<1>4. Sound'
  <2>1. ASSUME NEW i \in 1..Len(plan.read)
        PROVE  LET p == plan.read[i].pod
               IN  /\ pods'[p].phase = "measured"
                   /\ R!Window(file'[p].start, 2) /\ R!Window(file'[p].run, LongEnough)
                   /\ R!Covers(file'[p].run)
                   /\ plan.read[i].version <= file'[p].version
    <3> DEFINE p == plan.read[i].pod
    <3>1. /\ pods[p].phase = "measured" /\ plan.read[i].version <= file[p].version
          /\ R!Window(file[p].start, 2) /\ R!Window(file[p].run, LongEnough)
          /\ R!Covers(file[p].run)
      BY <1>1 DEF Sound
    <3>2. Untouched(p) /\ p \in Pods /\ plan.read[i].version \in Nat
      BY <1>2
    <3>3. file[p].version \in Nat /\ file'[p].version \in Nat
      BY <1>3, <3>2
    <3> HIDE DEF p
    <3>4. /\ pods'[p].phase = "measured" /\ file'[p].start = file[p].start
          /\ file'[p].run = file[p].run /\ file[p].version <= file'[p].version
      BY <3>1, <3>2 DEF Untouched
    <3>5. /\ pods'[p].phase = "measured" /\ R!Window(file'[p].start, 2)
          /\ R!Window(file'[p].run, LongEnough) /\ R!Covers(file'[p].run)
          /\ plan.read[i].version <= file'[p].version
      BY <3>1, <3>2, <3>3, <3>4
    <3> QED BY <3>5 DEF p
  <2>2. ASSUME NEW i \in 1..Len(plan.read), NEW j \in 1..Len(plan.read)
        PROVE  pods'[plan.read[i].pod].key = pods'[plan.read[j].pod].key
    <3>1. pods[plan.read[i].pod].key = pods[plan.read[j].pod].key
      BY <1>1 DEF Sound
    <3> QED BY <1>2, <3>1 DEF Untouched
  <2> QED BY <1>1, <2>1, <2>2 DEF Sound
<1>5. Whole'
  <2>1. ASSUME NEW i \in 1..Len(plan.read)
        PROVE  Room(plan.read[i].pod)' = Room(plan.read[i].pod)
    BY <1>2 DEF Room, Untouched
  <2>2. ASSUME NEW i \in 1..Len(plan.read),
               plan.read[i].version < file[plan.read[i].pod].version
        PROVE  plan.read[i].version < file'[plan.read[i].pod].version
    BY <1>2, <1>3, <2>2 DEF Untouched
  <2>3. R!Observed' = R!Observed
    BY DEF R!Observed
  <2> QED BY <1>1, <2>1, <2>2, <2>3 DEF Whole, R!Fits
<1> QED BY <1>4, <1>5 DEF ResizeInv

LEMMA PeaksBounded ==
    ASSUME R!Allowed  PROVE Old \in Nat /\ \A x \in Levels \union {0} : x \in Nat /\ x <= Old
<1>1. Old \in Nat /\ \A x \in Levels : x \in 1..Old
  BY DEF R!Allowed
<1> QED BY <1>1

\* A fresh Pod, its memory, its faults.
LEMMA PodKeeps ==
    ASSUME R!Allowed, ResizeInv, NEW p \in Pods, R!Start(p) \/ R!Grows(p) \/ R!Suffers(p)
    PROVE  ResizeInv'
<1>1. ResizeTypes /\ Covering /\ pods[p] \in OnePod /\ plan' = plan /\ file' = file /\ high' = high
  BY DEF ResizeInv, ResizeTypes, R!Start, R!Grows, R!Suffers
<1>2. PICK n \in OnePod :
        /\ pods' = [pods EXCEPT ![p] = n]
        /\ pods[p].phase # "measured"
        /\ n.phase = pods[p].phase \/ (pods[p].phase = "none" /\ n.phase = "starting")
        /\ n.phase = "finished" =>
              /\ n.peak \in Nat /\ pods[p].peak \in Nat /\ pods[p].peak <= n.peak
              /\ pods[p].pressure => n.pressure
  <2> USE DEF R!Allowed, OnePod, R!Phases, R!Caches
  <2>1. CASE R!Start(p)
    <3>1. PICK c \in R!Caches, l \in Levels, k \in {1, 2} :
            pods' = [pods EXCEPT ![p] = [@ EXCEPT !.phase = "starting", !.cache = c, !.key = k,
                                                   !.peak = l]]
      BY <2>1 DEF R!Start
    <3> DEFINE n == [pods[p] EXCEPT !.phase = "starting", !.cache = c, !.key = k, !.peak = l]
    <3>2. n \in OnePod /\ n.phase = "starting" /\ pods[p].phase = "none"
      BY <1>1, <2>1 DEF R!Start
    <3>3. pods' = [pods EXCEPT ![p] = n]
      BY <3>1
    <3> HIDE DEF n
    <3> QED BY <3>2, <3>3
  <2>2. CASE R!Grows(p)
    <3>1. PICK l \in Levels : l > pods[p].peak /\ pods' = [pods EXCEPT ![p].peak = l]
      BY <2>2 DEF R!Grows
    <3> DEFINE n == [pods[p] EXCEPT !.peak = l]
    <3>2. n \in OnePod /\ n.phase = pods[p].phase /\ n.peak \in Nat /\ pods[p].peak \in Nat
          /\ pods[p].peak <= n.peak /\ (pods[p].pressure => n.pressure)
      BY <1>1, <3>1
    <3>3. pods' = [pods EXCEPT ![p] = n] /\ pods[p].phase # "measured"
      BY <2>2, <3>1 DEF R!Grows, R!Used
    <3> HIDE DEF n
    <3> QED BY <3>2, <3>3
  <2>3. CASE R!Suffers(p)
    <3>1. pods[p].phase # "measured" /\ pods[p].peak \in Nat
      BY <1>1, <2>3 DEF R!Suffers, R!Used
    <3>3. CASE pods' = [pods EXCEPT ![p].stalls = @ + 1]
      <4> DEFINE n == [pods[p] EXCEPT !.stalls = pods[p].stalls + 1]
      <4>1. n \in OnePod /\ n.phase = pods[p].phase /\ n.peak = pods[p].peak
            /\ (pods[p].pressure => n.pressure)
        BY <1>1
      <4>2. pods' = [pods EXCEPT ![p] = n]
        BY <3>3
      <4> HIDE DEF n
      <4>3. n.peak \in Nat /\ pods[p].peak <= n.peak /\ (pods[p].pressure => n.pressure)
        BY <3>1, <4>1
      <4> HIDE DEF OnePod
      <4> QED BY <3>1, <4>1, <4>2, <4>3
    <3>4. CASE pods' = [pods EXCEPT ![p].pressure = TRUE]
      <4> DEFINE n == [pods[p] EXCEPT !.pressure = TRUE]
      <4>1. n \in OnePod /\ n.phase = pods[p].phase /\ n.peak = pods[p].peak /\ n.pressure
        BY <1>1
      <4>2. pods' = [pods EXCEPT ![p] = n]
        BY <3>4
      <4> HIDE DEF n
      <4>3. n.peak \in Nat /\ pods[p].peak <= n.peak /\ (pods[p].pressure => n.pressure)
        BY <3>1, <4>1
      <4> HIDE DEF OnePod
      <4> QED BY <3>1, <4>1, <4>2, <4>3
    <3>5. CASE pods' = [pods EXCEPT ![p].restarted = TRUE]
      <4> DEFINE n == [pods[p] EXCEPT !.restarted = TRUE]
      <4>1. n \in OnePod /\ n.phase = pods[p].phase /\ n.peak = pods[p].peak
            /\ (pods[p].pressure => n.pressure)
        BY <1>1
      <4>2. pods' = [pods EXCEPT ![p] = n]
        BY <3>5
      <4> HIDE DEF n
      <4>3. n.peak \in Nat /\ pods[p].peak <= n.peak /\ (pods[p].pressure => n.pressure)
        BY <3>1, <4>1
      <4> HIDE DEF OnePod
      <4> QED BY <3>1, <4>1, <4>2, <4>3
    <3> QED BY <2>3, <3>3, <3>4, <3>5 DEF R!Suffers
  <2> QED BY <2>1, <2>2, <2>3
<1>3. faults' \in Nat
  <2>1. faults' = faults \/ faults' = faults + 1
    <3>1. CASE R!Start(p)
      <4>1. PICK k \in {1, 2} : (k # 1 => R!Fault) /\ (k = 1 => UNCHANGED faults)
        BY <3>1 DEF R!Start
      <4> QED BY <4>1 DEF R!Fault
    <3> QED BY <3>1 DEF R!Grows, R!Suffers, R!Fault
  <2> QED BY <1>1, <2>1 DEF ResizeTypes
<1>4. ResizeTypes'
  BY <1>1, <1>2, <1>3 DEF ResizeTypes
<1>5. Covering'
  <2> SUFFICES ASSUME NEW q \in Pods
               PROVE  /\ pods'[q].phase = "finished" =>
                            /\ high[q].peak <= pods'[q].peak
                            /\ high[q].pressure => pods'[q].pressure
                      /\ \A i \in 1..Len(file[q].run) :
                            /\ Covers(high[q], file[q].run[i])
                            /\ file[q].run[i].after => pods'[q].phase \in {"finished", "measured"}
    BY <1>1 DEF Covering
  <2>1. CASE q # p
    BY <1>1, <1>2, <2>1 DEF Covering, ResizeTypes
  <2>2. CASE q = p
    <3>1. pods'[p] = n
      BY <1>1, <1>2 DEF ResizeTypes
    <3>2. high[p].peak \in Nat
      <4>1. high[p] \in [peak : Levels \union {0}, pressure : BOOLEAN]
        BY <1>1 DEF ResizeTypes
      <4> QED BY <4>1, PeaksBounded
    <3> QED BY <3>2, <1>1, <1>2, <2>2, <3>1 DEF Covering
  <2> QED BY <2>1, <2>2
<1>6. ASSUME NEW q \in Pods, pods[q].phase = "measured"  PROVE Untouched(q)
  <2>1. q # p
    BY <1>2, <1>6
  <2> QED BY <1>1, <1>2, <2>1 DEF Untouched, ResizeTypes, OneFile
<1> QED BY <1>1, <1>4, <1>5, <1>6, StillRead

\* A sample: taken when the workload is over, it covers what was used.
LEMMA SampleKeeps ==
    ASSUME R!Allowed, ResizeInv, NEW p \in Pods, R!Samples(p)  PROVE ResizeInv'
<1>1. ResizeTypes /\ Covering /\ pods[p] \in OnePod /\ file[p] \in OneFile
      /\ UNCHANGED <<pods, high, plan>>
  BY DEF ResizeInv, ResizeTypes, R!Samples
<1>2. PICK late \in BOOLEAN :
        /\ faults' = faults \/ faults' = faults + 1
        /\ \/ /\ pods[p].phase = "starting"
              /\ file' = [file EXCEPT ![p].start = Append(@, R!Taken(p, late))]
           \/ /\ pods[p].phase \in {"busy", "finished"}
              /\ file' = [file EXCEPT ![p].run = Append(@, R!Taken(p, late))]
  BY DEF R!Samples, R!Fault
<1> DEFINE t == R!Taken(p, late)
<1>3. /\ t \in Samples /\ t.peak = pods[p].peak
      /\ t.pressure = pods[p].pressure /\ (t.after <=> pods[p].phase = "finished")
  BY <1>1 DEF R!Taken, Samples, OnePod
<1> HIDE DEF t
<1>4. PICK f \in OneFile :
        /\ file' = [file EXCEPT ![p] = f]
        /\ f.run = file[p].run \/ (pods[p].phase # "starting" /\ f.run = Append(file[p].run, t))
  <2>1. Append(file[p].start, t) \in Seq(Samples) /\ Append(file[p].run, t) \in Seq(Samples)
    BY <1>1, <1>3 DEF OneFile
  <2>2. CASE file' = [file EXCEPT ![p].start = Append(@, t)]
    <3> DEFINE g == [file[p] EXCEPT !.start = Append(file[p].start, t)]
    <3>1. g \in OneFile /\ g.run = file[p].run
      BY <1>1, <2>1 DEF OneFile
    <3>2. file' = [file EXCEPT ![p] = g]
      BY <2>2
    <3> HIDE DEF g
    <3> QED BY <3>1, <3>2
  <2>3. CASE /\ pods[p].phase # "starting"
             /\ file' = [file EXCEPT ![p].run = Append(@, t)]
    <3> DEFINE g == [file[p] EXCEPT !.run = Append(file[p].run, t)]
    <3>1. g \in OneFile /\ g.run = Append(file[p].run, t)
      BY <1>1, <2>1 DEF OneFile
    <3>2. file' = [file EXCEPT ![p] = g]
      BY <2>3
    <3> HIDE DEF g
    <3> QED BY <2>3, <3>1, <3>2
  <2> QED BY <1>2, <2>2, <2>3 DEF t
<1>5. ResizeTypes'
  BY <1>1, <1>2, <1>4 DEF ResizeTypes
<1>6. /\ file'[p] = f /\ \A q \in Pods \ {p} : file'[q] = file[q]
  BY <1>1, <1>4 DEF ResizeTypes
<1>7. Covers(high[p], t) /\ (t.after => pods[p].phase = "finished")
  BY <1>1, <1>3 DEF Covering, Covers
<1>8. ASSUME NEW i \in 1..Len(f.run)
      PROVE  Covers(high[p], f.run[i]) /\ (f.run[i].after => pods[p].phase \in {"finished", "measured"})
  <2>1. CASE f.run = file[p].run
    BY <1>1, <2>1 DEF Covering
  <2>2. CASE f.run = Append(file[p].run, t)
    <3>1. file[p].run \in Seq(Samples)
      BY <1>1 DEF OneFile
    <3>2. \/ i \in 1..Len(file[p].run) /\ f.run[i] = file[p].run[i]
          \/ f.run[i] = t
      BY <1>3, <2>2, <3>1
    <3> QED BY <1>1, <1>7, <3>2 DEF Covering
  <2> QED BY <1>4, <2>1, <2>2
<1>9. Covering'
  BY <1>1, <1>6, <1>8 DEF Covering
<1>10. ASSUME NEW q \in Pods, pods[q].phase = "measured"  PROVE Untouched(q)
  <2>1. q # p
    BY <1>2, <1>10
  <2> QED BY <1>1, <1>6, <2>1 DEF Untouched, ResizeTypes, OneFile
<1> QED BY <1>1, <1>5, <1>9, <1>10, StillRead

\* A Pod becomes ready, works, has finished, is measured.
LEMMA AdvanceKeeps ==
    ASSUME R!Allowed, ResizeInv, NEW p \in Pods, R!Advances(p)  PROVE ResizeInv'
<1>1. ResizeTypes /\ Covering /\ pods[p] \in OnePod /\ file[p] \in OneFile
      /\ UNCHANGED <<plan, faults>>
  BY DEF ResizeInv, ResizeTypes, R!Advances
<1>2. high[p] \in [peak : Levels \union {0}, pressure : BOOLEAN]
  BY <1>1 DEF ResizeTypes
<1> USE DEF OnePod, R!Phases, R!Caches
<1>3. PICK n \in OnePod :
        /\ pods' = [pods EXCEPT ![p] = n]
        /\ \/ /\ pods[p].phase = "starting" /\ n.phase = "ready" /\ file' = file /\ high' = high
           \/ /\ pods[p].phase = "ready" /\ n.phase = "busy" /\ file' = file /\ high' = high
           \/ /\ pods[p].phase = "busy" /\ n.phase = "finished" /\ file' = file
              /\ n.peak = pods[p].peak /\ n.pressure = pods[p].pressure
              /\ high' = [high EXCEPT ![p] = [peak |-> pods[p].peak, pressure |-> pods[p].pressure]]
           \/ /\ pods[p].phase = "finished" /\ n.phase = "measured" /\ high' = high
              /\ file' = [file EXCEPT ![p].fresh = ~pods[p].restarted]
  <2>1. CASE pods[p].phase = "starting" /\ pods' = [pods EXCEPT ![p].phase = "ready"]
             /\ UNCHANGED <<file, high>>
    <3> DEFINE n == [pods[p] EXCEPT !.phase = "ready"]
    <3>1. n \in OnePod /\ n.phase = "ready" /\ pods' = [pods EXCEPT ![p] = n]
      BY <1>1, <2>1
    <3> HIDE DEF n, OnePod
    <3> QED BY <2>1, <3>1
  <2>2. CASE pods[p].phase = "ready" /\ pods' = [pods EXCEPT ![p].phase = "busy"]
             /\ UNCHANGED <<file, high>>
    <3> DEFINE n == [pods[p] EXCEPT !.phase = "busy"]
    <3>1. n \in OnePod /\ n.phase = "busy" /\ pods' = [pods EXCEPT ![p] = n]
      BY <1>1, <2>2
    <3> HIDE DEF n, OnePod
    <3> QED BY <2>2, <3>1
  <2>3. CASE /\ pods[p].phase = "busy" /\ pods' = [pods EXCEPT ![p].phase = "finished"]
             /\ high' = [high EXCEPT ![p] = [peak |-> pods[p].peak, pressure |-> pods[p].pressure]]
             /\ UNCHANGED file
    <3> DEFINE n == [pods[p] EXCEPT !.phase = "finished"]
    <3>1. n \in OnePod /\ n.phase = "finished" /\ pods' = [pods EXCEPT ![p] = n]
          /\ n.peak = pods[p].peak /\ n.pressure = pods[p].pressure
      BY <1>1, <2>3
    <3> HIDE DEF n, OnePod
    <3> QED BY <2>3, <3>1
  <2>4. CASE /\ pods[p].phase = "finished"
             /\ pods' = [pods EXCEPT ![p] = [R!NewPod EXCEPT !.phase = "measured", !.key = pods[p].key,
                                                            !.cache = pods[p].cache]]
             /\ file' = [file EXCEPT ![p].fresh = ~pods[p].restarted]
             /\ UNCHANGED high
    <3> DEFINE n == [R!NewPod EXCEPT !.phase = "measured", !.key = pods[p].key,
                                     !.cache = pods[p].cache]
    <3>1. n \in OnePod /\ n.phase = "measured"
      BY <1>1 DEF R!NewPod
    <3>2. pods' = [pods EXCEPT ![p] = n]
      BY <2>4
    <3> HIDE DEF n, OnePod
    <3> QED BY <2>4, <3>1, <3>2
  <2> QED BY <2>1, <2>2, <2>3, <2>4 DEF R!Advances
<1>4. /\ file' \in [Pods -> OneFile]
      /\ \A q \in Pods : /\ file'[q].run = file[q].run /\ file'[q].start = file[q].start
                         /\ file'[q].version = file[q].version
  <2>1. CASE file' = file
    BY <1>1, <2>1 DEF ResizeTypes
  <2>2. CASE file' = [file EXCEPT ![p].fresh = ~pods[p].restarted]
    <3>1. PICK b \in BOOLEAN : file' = [file EXCEPT ![p].fresh = b]
      <4> HIDE DEF ResizeInv, OnePod
      <4> QED BY <2>2, Zenon
    <3> QED BY <1>1, <3>1 DEF ResizeTypes, OneFile
  <2> QED BY <1>3, <2>1, <2>2
<1>5. /\ high' \in [Pods -> [peak : Levels \union {0}, pressure : BOOLEAN]]
      /\ pods' \in [Pods -> OnePod] /\ pods'[p] = n
      /\ \A q \in Pods \ {p} : pods'[q] = pods[q] /\ high'[q] = high[q]
  BY <1>1, <1>3 DEF ResizeTypes
<1>6. ResizeTypes'
  BY <1>1, <1>4, <1>5 DEF ResizeTypes
<1>7. /\ pods'[p].phase = "finished" =>
            high'[p].peak <= pods'[p].peak /\ (high'[p].pressure => pods'[p].pressure)
      /\ \A i \in 1..Len(file[p].run) :
            /\ Covers(high'[p], file[p].run[i])
            /\ file[p].run[i].after => pods'[p].phase \in {"finished", "measured"}
  <2>1. CASE pods[p].phase = "busy"
    <3>1. \A i \in 1..Len(file[p].run) : ~file[p].run[i].after
      BY <1>1, <2>1 DEF Covering
    <3>2. n.phase = "finished" /\ high'[p].peak = n.peak /\ high'[p].pressure = n.pressure
      BY <1>1, <1>3, <2>1 DEF ResizeTypes
    <3>3. n.peak \in Nat
      BY PeaksBounded
    <3> QED BY <1>5, <3>1, <3>2, <3>3 DEF Covers
  <2>2. CASE pods[p].phase # "busy"
    BY <1>1, <1>3, <1>5, <2>2 DEF Covering
  <2> QED BY <2>1, <2>2
<1>8. Covering'
  BY <1>1, <1>4, <1>5, <1>7 DEF Covering
<1>9. ASSUME NEW q \in Pods, pods[q].phase = "measured"  PROVE Untouched(q)
  <2>1. q # p
    BY <1>3, <1>9
  <2>2. file[q].version \in Nat
    BY <1>1 DEF ResizeTypes, OneFile
  <2> QED BY <1>4, <1>5, <2>1, <2>2 DEF Untouched
<1> QED BY <1>1, <1>6, <1>8, <1>9, StillRead

LEMMA RewriteKeeps ==
    ASSUME R!Allowed, ResizeInv, NEW p \in Pods, R!Rewritten(p)  PROVE ResizeInv'
<1>1. /\ ResizeTypes /\ Covering /\ file[p] \in OneFile /\ UNCHANGED <<pods, high, plan>>
      /\ file' = [file EXCEPT ![p].version = @ + 1] /\ faults' = faults + 1
  BY DEF ResizeInv, ResizeTypes, R!Rewritten, R!Fault
<1>2. /\ file' \in [Pods -> OneFile]
      /\ \A q \in Pods : /\ file'[q].run = file[q].run /\ file'[q].start = file[q].start
                         /\ file[q].version <= file'[q].version
  <2> DEFINE f == [file[p] EXCEPT !.version = file[p].version + 1]
  <2>1. f \in OneFile /\ f.run = file[p].run /\ f.start = file[p].start
        /\ file[p].version \in Nat /\ file[p].version <= f.version
    BY <1>1 DEF OneFile
  <2>2. file' = [file EXCEPT ![p] = f]
    BY <1>1
  <2>3. \A q \in Pods : file[q].version \in Nat
    BY <1>1 DEF ResizeTypes, OneFile
  <2> HIDE DEF f
  <2> QED BY <1>1, <2>1, <2>2, <2>3 DEF ResizeTypes
<1>3. ResizeTypes' /\ Covering'
  BY <1>1, <1>2 DEF ResizeTypes, Covering
<1> QED BY <1>1, <1>2, <1>3, StillRead DEF Untouched

-----------------------------------------------------------------------------
(* The planner                                                               *)

\* The observations are sound because each was when it was read.
LEMMA ObserveKeeps ==
    ASSUME R!Allowed, ResizeInv, NEW p \in Pods, R!Observe(p)  PROVE ResizeInv'
<1>1. ResizeTypes /\ Covering /\ Sound /\ plan \in OneResize /\ file[p] \in OneFile
      /\ UNCHANGED <<pods, file, high, faults>> /\ plan.pc \in {"idle", "reading"}
  BY DEF ResizeInv, ResizeTypes, R!Observe
<1>2. CASE ~R!Acceptable(p)
  <2>1. plan' = [R!NoPlan EXCEPT !.pc = "refused"]
    BY <1>2 DEF R!Observe
  <2>2. plan' \in OneResize /\ plan'.pc = "refused" /\ plan'.read = <<>>
    <3>1. R!NoPlan \in OneResize /\ R!NoPlan.read = <<>>
      BY DEF R!NoPlan, OneResize
    <3> QED BY <2>1, <3>1 DEF OneResize
  <2>3. ResizeTypes' /\ Covering'
    BY <1>1, <2>2 DEF ResizeTypes, Covering
  <2>4. Sound' /\ Whole'
    BY <2>2 DEF Sound, Whole
  <2> QED BY <2>3, <2>4 DEF ResizeInv
<1>3. CASE R!Acceptable(p)
  <2> DEFINE e == [pod |-> p, version |-> file[p].version]
  <2> DEFINE l == Append(plan.read, e)
  <2>1. plan' = [plan EXCEPT !.pc = "reading", !.read = l]
    BY <1>3 DEF R!Observe
  <2>2. e \in [pod : Pods, version : Nat] /\ plan.read \in Seq([pod : Pods, version : Nat])
    BY <1>1 DEF OneFile, OneResize
  <2>3. /\ l \in Seq([pod : Pods, version : Nat]) /\ Len(l) = Len(plan.read) + 1
        /\ l[Len(l)].pod = p /\ l[Len(l)].version = file[p].version
        /\ \A i \in 1..Len(l) : i # Len(l) => i \in 1..Len(plan.read) /\ l[i] = plan.read[i]
    <3>1. e.pod = p /\ e.version = file[p].version
      OBVIOUS
    <3> HIDE DEF e
    <3> QED BY <2>2, <3>1
  <2> HIDE DEF l
  <2>4. plan' \in OneResize /\ plan'.pc = "reading" /\ plan'.read = l
    BY <1>1, <2>1, <2>3 DEF OneResize
  <2>5. ResizeTypes' /\ Covering'
    BY <1>1, <2>4 DEF ResizeTypes, Covering
  <2>6. /\ pods[p].phase = "measured"
        /\ \A i \in 1..Len(plan.read) : plan.read[i].pod # p
        /\ \A i \in 1..Len(plan.read) : pods[plan.read[i].pod].key = pods[p].key
        /\ R!Window(file[p].start, 2) /\ R!Window(file[p].run, LongEnough)
        /\ R!Covers(file[p].run)
    BY <1>3 DEF R!Acceptable, R!Distinct, R!SameSettings
  <2>7. file[p].version \in Nat
    BY <1>1 DEF OneFile
  <2>8. Len(plan.read) \in Nat
    BY <2>2
  <2>9. ASSUME NEW i \in 1..Len(l)
        PROVE  LET q == l[i].pod
               IN  /\ pods[q].phase = "measured"
                   /\ R!Window(file[q].start, 2) /\ R!Window(file[q].run, LongEnough)
                   /\ R!Covers(file[q].run)
                   /\ l[i].version <= file[q].version
    <3>1. CASE i = Len(l)
      BY <2>3, <2>6, <2>7, <3>1
    <3>2. CASE i # Len(l)
      <4>1. i \in 1..Len(plan.read) /\ l[i] = plan.read[i]
        BY <2>3, <3>2
      <4> QED BY <1>1, <4>1 DEF Sound
    <3> QED BY <3>1, <3>2
  <2>10. ASSUME NEW i \in 1..Len(l), NEW j \in 1..Len(l)
         PROVE  /\ l[i].pod = l[j].pod => i = j
                /\ pods[l[i].pod].key = pods[l[j].pod].key
    <3> DEFINE n == Len(l)
    <3>1. CASE i = n /\ j = n
      BY <3>1
    <3>5. /\ i \in 1..n /\ j \in 1..n
          /\ \A k \in 1..n : k # n => k \in 1..Len(plan.read) /\ l[k] = plan.read[k]
      BY <2>3
    <3> HIDE DEF n
    <3>2. CASE i = n /\ j # n
      <4>1. l[j].pod # p /\ pods[l[j].pod].key = pods[p].key
        BY <2>6, <3>2, <3>5
      <4> QED BY <2>3, <3>2, <4>1 DEF n
    <3>3. CASE i # n /\ j = n
      <4>1. l[i].pod # p /\ pods[l[i].pod].key = pods[p].key
        BY <2>6, <3>3, <3>5
      <4> QED BY <2>3, <3>3, <4>1 DEF n
    <3>4. CASE i # n /\ j # n
      <4>1. l[i] = plan.read[i] /\ l[j] = plan.read[j] /\ i \in 1..Len(plan.read) /\ j \in 1..Len(plan.read)
        BY <3>4, <3>5
      <4> QED BY <1>1, <4>1 DEF Sound
    <3> QED BY <3>1, <3>2, <3>3, <3>4
  <2>11. Sound'
    BY <1>1, <2>3, <2>4, <2>8, <2>9, <2>10 DEF Sound
  <2>12. Whole'
    BY <2>4 DEF Whole
  <2> QED BY <2>5, <2>11, <2>12 DEF ResizeInv
<1> QED BY <1>2, <1>3

\* What is proposed is enough for each of the Pods that were read.
LEMMA Enough ==
    ASSUME R!Allowed, ResizeInv, NEW i \in 1..Len(plan.read)
    PROVE  /\ R!Proposed \in Nat /\ Room(plan.read[i].pod) <= R!Proposed
           /\ plan.read[i].pod \in R!Observed
           /\ Room(plan.read[i].pod) \in Nat
<1> DEFINE p == plan.read[i].pod
<1> DEFINE Peaks(q) == R!PeaksOf(file[q].start) \union R!PeaksOf(file[q].run)
<1> DEFINE U == UNION {Peaks(q) : q \in R!Observed}
<1>1. ResizeTypes /\ Covering /\ Sound /\ plan.read \in Seq([pod : Pods, version : Nat])
  BY DEF ResizeInv, ResizeTypes, OneResize
<1>2. ASSUME NEW j \in 1..Len(plan.read)  PROVE plan.read[j].pod \in Pods
  <2>1. plan.read[j] \in [pod : Pods, version : Nat]
    BY <1>1, ElementOfSeq
  <2> QED BY <2>1
<1>3. R!Observed \subseteq Pods /\ p \in R!Observed /\ p \in Pods
  BY <1>2 DEF R!Observed
<1>4. U \subseteq 0..Old
  <2> SUFFICES ASSUME NEW q \in R!Observed, NEW x \in Peaks(q)  PROVE x \in 0..Old
    OBVIOUS
  <2>1. file[q].start \in Seq(Samples) /\ file[q].run \in Seq(Samples)
    BY <1>1, <1>3 DEF ResizeTypes, OneFile
  <2>2. ASSUME NEW v \in Seq(Samples), NEW k \in 1..Len(v)
        PROVE  v[k].peak \in Levels \union {0}
    <3>1. v[k] \in Samples
      BY ElementOfSeq
    <3> QED BY <3>1 DEF Samples
  <2>3. x \in Levels \union {0}
    BY <2>1, <2>2 DEF R!PeaksOf
  <2> QED BY <2>3, PeaksBounded
<1> DEFINE w == file[p].run
<1> DEFINE n == Len(w)
<1>5. w \in Seq(Samples) /\ n \in Nat /\ n >= 2 /\ n \in 1..n /\ w[n] \in Samples
      /\ w[n].after /\ Covers(high[p], w[n])
  <2>1. w \in Seq(Samples)
    BY <1>1, <1>3 DEF ResizeTypes, OneFile
  <2>2. R!Window(w, LongEnough) /\ R!Covers(w)
    BY <1>1 DEF Sound
  <2>3. n \in Nat /\ n >= 2 /\ n \in 1..n
    BY <2>1, <2>2 DEF R!Window
  <2>4. w[n].after
    BY <2>2 DEF R!Covers
  <2> HIDE DEF w
  <2>5. w[n] \in Samples
    BY <2>1, <2>3, ElementOfSeq
  <2> QED BY <1>1, <1>3, <2>1, <2>3, <2>4, <2>5 DEF Covering, w
<1>6. w[n].peak \in U
  <2>1. w[n].peak \in R!PeaksOf(w)
    <3> HIDE DEF w
    <3> QED BY <1>5 DEF R!PeaksOf
  <2> QED BY <1>3, <2>1
<1>7. Old \in Nat /\ Shm \in Nat
  BY DEF R!Allowed
<1> DEFINE g == R!Greatest(U)
<1>8. g \in 0..Old /\ w[n].peak <= g
  <2> HIDE DEF U, w
  <2> QED BY <1>4, <1>6, <1>7, HasGreatest
<1>9. R!Envelope = g + Shm
  BY DEF R!Envelope
<1>10. high[p].peak \in Nat /\ high[p].peak <= w[n].peak /\ w[n].peak \in Nat
  <2>1. high[p].peak \in Levels \union {0} /\ w[n].peak \in Levels \union {0}
    BY <1>1, <1>3, <1>5 DEF ResizeTypes, Samples
  <2> QED BY <1>5, <2>1, PeaksBounded DEF Covers
<1> DEFINE a == high[p].peak + Shm
<1> DEFINE b == g + Shm
<1>11. a \in Nat /\ b \in Nat /\ a <= b
  <2> HIDE DEF U, w, g
  <2> QED BY <1>7, <1>8, <1>10
<1>12. R!Headroom(a) \in Nat /\ R!Headroom(b) \in Nat /\ R!Headroom(a) <= R!Headroom(b)
  <2> HIDE DEF a, b
  <2> QED BY <1>11, Headrooms
<1>13. R!Proposed = R!RoundUp(b + R!Headroom(b))
  BY <1>9 DEF R!Proposed
<1>14. R!RoundUp(b + R!Headroom(b)) \in Nat /\ R!RoundUp(b + R!Headroom(b)) >= b + R!Headroom(b)
  <2> HIDE DEF b
  <2>1. b + R!Headroom(b) \in Nat
    BY <1>11, <1>12
  <2> QED BY <2>1, RoundsUp
<1>15. Room(p) = a + R!Headroom(a)
  BY DEF Room
<1> HIDE DEF a, b, U, w
<1> QED BY <1>3, <1>11, <1>12, <1>13, <1>14, <1>15

\* Distinct Pods are counted once each, and cold and warm ones apart.
LEMMA Counts ==
    ASSUME R!Allowed, ResizeInv
    PROVE  /\ R!Enough => Cardinality(R!Observed) >= 2 * PerPhase
           /\ Cardinality(R!Observed) = Len(plan.read)
<1> DEFINE O == R!Observed
<1> DEFINE n == Len(plan.read)
<1>1. ResizeTypes /\ Sound /\ plan.read \in Seq([pod : Pods, version : Nat]) /\ n \in Nat
  BY DEF ResizeInv, ResizeTypes, OneResize
<1>2. O = {plan.read[i].pod : i \in 1..n}
  BY DEF R!Observed
<1>3. IsFiniteSet(1..n) /\ Cardinality(1..n) = n
  BY <1>1, FS_Interval
<1>4. IsFiniteSet(O) /\ Cardinality(O) = n
  <2> DEFINE f == [i \in 1..n |-> plan.read[i].pod]
  <2>1. f \in Bijection(1..n, O)
    <3>1. f \in [1..n -> O] /\ \A y \in O : \E i \in 1..n : f[i] = y
      BY <1>2
    <3>2. \A i, j \in 1..n : f[i] = f[j] => i = j
      BY <1>1 DEF Sound
    <3> QED BY <3>1, <3>2 DEF Bijection, Injection, Surjection, IsInjective
  <2> HIDE DEF f, O
  <2>2. ExistsBijection(1..n, O)
    BY <2>1 DEF ExistsBijection
  <2> QED BY <1>3, <2>2, FS_Bijection
<1>5. ASSUME R!Enough  PROVE Cardinality(O) >= 2 * PerPhase
  <2> DEFINE Of(c) == {p \in O : pods[p].cache = c}
  <2>1. Cardinality(Of("cold")) >= PerPhase /\ Cardinality(Of("warm")) >= PerPhase
    <3>1. R!Counted("cold") >= PerPhase /\ R!Counted("warm") >= PerPhase
      BY <1>5 DEF R!Enough, R!Caches
    <3>2. R!Counted("cold") = Cardinality(Of("cold")) /\ R!Counted("warm") = Cardinality(Of("warm"))
      BY SameCount DEF R!Counted
    <3> QED BY <3>1, <3>2
  <2>2. IsFiniteSet(Of("cold")) /\ IsFiniteSet(Of("warm"))
    BY <1>4, FS_Subset
  <2>3. Of("cold") \intersect Of("warm") = {}
    OBVIOUS
  <2>4. Cardinality(Of("cold") \union Of("warm")) = Cardinality(Of("cold")) + Cardinality(Of("warm"))
    <3> HIDE DEF Of
    <3>1. Cardinality(Of("cold") \union Of("warm"))
            = Cardinality(Of("cold")) + Cardinality(Of("warm")) - Cardinality(Of("cold") \intersect Of("warm"))
      BY <2>2, FS_Union
    <3>2. Cardinality(Of("cold") \intersect Of("warm")) = 0
      BY <2>3, FS_EmptySet
    <3>3. Cardinality(Of("cold")) \in Nat /\ Cardinality(Of("warm")) \in Nat
      BY <2>2, FS_CardinalityType
    <3> QED BY <3>1, <3>2, <3>3
  <2>5. Cardinality(Of("cold") \union Of("warm")) <= Cardinality(O)
    BY <1>4, FS_Subset
  <2>6. Cardinality(Of("cold")) \in Nat /\ Cardinality(Of("warm")) \in Nat /\ Cardinality(O) \in Nat
        /\ PerPhase \in Nat /\ Cardinality(Of("cold") \union Of("warm")) \in Nat
    <3>1. IsFiniteSet(Of("cold") \union Of("warm"))
      BY <1>4, FS_Subset
    <3>2. PerPhase \in Nat
      BY DEF R!Allowed
    <3> HIDE DEF Of, O
    <3> QED BY <1>4, <2>2, <3>1, <3>2, FS_CardinalityType
  <2> HIDE DEF Of, O
  <2> QED BY <2>1, <2>4, <2>5, <2>6
<1> QED BY <1>4, <1>5

\* What was whole when it was proposed and has not changed since, was whole.
LEMMA ProposalKeeps ==
    ASSUME R!Allowed, ResizeInv, R!Propose \/ R!WritesPlan  PROVE ResizeInv'
<1>1. ResizeTypes /\ Covering /\ Sound /\ Whole /\ plan \in OneResize
      /\ UNCHANGED <<pods, file, high, faults>> /\ plan.pc \in {"reading", "proposed"}
  BY DEF ResizeInv, ResizeTypes, R!Propose, R!WritesPlan
<1>2. CASE plan' = [R!NoPlan EXCEPT !.pc = "refused"]
  <2>1. plan' \in OneResize /\ plan'.pc = "refused" /\ plan'.read = <<>>
    <3>1. R!NoPlan \in OneResize /\ R!NoPlan.read = <<>>
      BY DEF R!NoPlan, OneResize
    <3> QED BY <1>2, <3>1 DEF OneResize
  <2>2. ResizeTypes' /\ Covering'
    BY <1>1, <2>1 DEF ResizeTypes, Covering
  <2>3. Sound' /\ Whole'
    BY <2>1 DEF Sound, Whole
  <2> QED BY <2>2, <2>3 DEF ResizeInv
<1>3. CASE R!Propose /\ plan' # [R!NoPlan EXCEPT !.pc = "refused"]
  <2>1. PICK limit \in R!Proposed..Old, other \in Others :
          /\ R!Fits(limit, other)
          /\ plan' = [plan EXCEPT !.pc = "proposed", !.limit = limit, !.other = other,
                         !.whole = \A i \in 1..Len(plan.read) :
                                      plan.read[i].version = file[plan.read[i].pod].version]
    BY <1>3 DEF R!Propose
  <2> DEFINE W == \A i \in 1..Len(plan.read) :
                    plan.read[i].version = file[plan.read[i].pod].version
  <2>2. W \in BOOLEAN
    OBVIOUS
  <2>3. Cardinality(R!Observed) >= 2 * PerPhase /\ plan.pc = "reading" /\ R!Enough
    BY <1>3, Counts DEF R!Propose
  <2>4. plan'.read = plan.read /\ plan'.pc = "proposed" /\ plan'.limit = limit
        /\ plan'.other = other /\ (W <=> plan'.whole = TRUE)
    <3> HIDE DEF W
    <3>1. plan' = [plan EXCEPT !.pc = "proposed", !.limit = limit, !.other = other, !.whole = W]
      BY <2>1 DEF W
    <3> QED BY <1>1, <2>2, <3>1 DEF OneResize
  <2>5. plan' \in OneResize
    <3>1. limit \in Nat /\ other \in Nat
      <4>1. Len(plan.read) >= 1 /\ Len(plan.read) \in Nat
        BY <1>1, <2>3 DEF Sound, OneResize
      <4>2. 1 \in 1..Len(plan.read)
        BY <4>1
      <4>3. R!Proposed \in Nat
        BY <4>2, Enough
      <4> QED BY <2>1, <4>3 DEF R!Allowed
    <3> HIDE DEF W
    <3>2. plan' = [plan EXCEPT !.pc = "proposed", !.limit = limit, !.other = other, !.whole = W]
      BY <2>1 DEF W
    <3>3. PICK x \in BOOLEAN :
            plan' = [plan EXCEPT !.pc = "proposed", !.limit = limit, !.other = other, !.whole = x]
      BY <2>2, <3>2, Zenon
    <3> QED BY <1>1, <3>1, <3>3 DEF OneResize
  <2>6. ResizeTypes' /\ Covering' /\ Sound'
    BY <1>1, <2>4, <2>5 DEF ResizeTypes, Covering, Sound
  <2>7. R!Observed' = R!Observed
    BY <2>4 DEF R!Observed
  <2>8. ASSUME NEW i \in 1..Len(plan.read)  PROVE Room(plan.read[i].pod)' <= limit
    <3>1. Room(plan.read[i].pod)' = Room(plan.read[i].pod)
      BY <1>1, <2>4 DEF Room
    <3>2. Room(plan.read[i].pod) <= R!Proposed /\ Room(plan.read[i].pod) \in Nat /\ R!Proposed \in Nat
      BY Enough
    <3> QED BY <2>1, <3>1, <3>2
  <2>9. \/ plan'.whole
        \/ \E i \in 1..Len(plan.read) : plan.read[i].version < file[plan.read[i].pod].version
    <3> SUFFICES ASSUME ~W  PROVE \E i \in 1..Len(plan.read) :
                                    plan.read[i].version < file[plan.read[i].pod].version
      BY <2>4
    <3>1. PICK i \in 1..Len(plan.read) : plan.read[i].version # file[plan.read[i].pod].version
      OBVIOUS
    <3>2. plan.read[i].version \in Nat /\ plan.read[i].pod \in Pods
      <4>1. plan.read[i] \in [pod : Pods, version : Nat]
        BY <1>1, ElementOfSeq DEF OneResize
      <4> QED BY <4>1
    <3>3. file[plan.read[i].pod].version \in Nat
      BY <1>1, <3>2 DEF ResizeTypes, OneFile
    <3>4. plan.read[i].version <= file[plan.read[i].pod].version
      BY <1>1 DEF Sound
    <3> QED BY <3>1, <3>2, <3>3, <3>4
  <2> HIDE DEF W
  <2>10. Whole'
    BY <1>1, <2>1, <2>3, <2>4, <2>7, <2>8, <2>9 DEF Whole
  <2> QED BY <2>6, <2>10 DEF ResizeInv
<1>4. CASE R!WritesPlan /\ plan' # [R!NoPlan EXCEPT !.pc = "refused"]
  <2>1. R!Unchanged /\ plan.pc = "proposed" /\ plan' = [plan EXCEPT !.pc = "written"]
    BY <1>4 DEF R!WritesPlan
  <2>2. /\ plan' \in OneResize /\ plan'.pc = "written" /\ plan'.read = plan.read
        /\ plan'.limit = plan.limit /\ plan'.other = plan.other /\ plan'.whole = plan.whole
    BY <1>1, <2>1 DEF OneResize
  <2>3. ResizeTypes' /\ Covering' /\ Sound'
    BY <1>1, <2>2 DEF ResizeTypes, Covering, Sound
  <2>4. R!Observed' = R!Observed /\ \A i \in 1..Len(plan.read) :
            Room(plan.read[i].pod)' = Room(plan.read[i].pod)
    BY <1>1, <2>2 DEF R!Observed, Room
  <2>5. plan.whole
    <3> SUFFICES ASSUME NEW i \in 1..Len(plan.read),
                        plan.read[i].version < file[plan.read[i].pod].version
                 PROVE  FALSE
      BY <1>1, <2>1 DEF Whole
    <3>1. plan.read[i].version = file[plan.read[i].pod].version
      BY <2>1 DEF R!Unchanged
    <3>2. plan.read[i] \in [pod : Pods, version : Nat]
      BY <1>1, ElementOfSeq DEF OneResize
    <3> QED BY <3>1, <3>2
  <2>6. Whole'
    BY <1>1, <2>1, <2>2, <2>4, <2>5 DEF Whole, R!Fits
  <2> QED BY <2>3, <2>6 DEF ResizeInv
<1> QED BY <1>2, <1>3, <1>4 DEF R!Propose, R!WritesPlan

-----------------------------------------------------------------------------
LEMMA ResizeNext ==
    ASSUME R!Allowed, ResizeInv, [R!Next]_R!vars  PROVE ResizeInv'
<1>1. CASE UNCHANGED R!vars
  <2>1. UNCHANGED <<pods, file, high, plan, faults>>
    BY <1>1 DEF R!vars
  <2>2. ResizeTypes' /\ Covering'
    BY <2>1 DEF ResizeInv, ResizeTypes, Covering
  <2>3. \A p \in Pods : Untouched(p)
    BY <2>1 DEF Untouched, ResizeInv, ResizeTypes, OneFile
  <2> QED BY <2>1, <2>2, <2>3, StillRead
<1>2. ASSUME NEW p \in Pods,
             R!Start(p) \/ R!Grows(p) \/ R!Suffers(p) \/ R!Samples(p) \/ R!Advances(p)
                \/ R!Rewritten(p) \/ R!Observe(p)
      PROVE  ResizeInv'
  BY <1>2, PodKeeps, SampleKeeps, AdvanceKeeps, RewriteKeeps, ObserveKeeps
<1> QED BY <1>1, <1>2, ProposalKeeps DEF R!Next

LEMMA ResizeHolds == SpecServing => []ResizeInv
<1>1. InitServing => ResizeInv
  BY ResizeInit, ServingAssumption DEF InitServing
<1>2. ResizeInv /\ [NextMeasure \/ NextResize]_<<subject, measurement, resize>> => ResizeInv'
  <2> SUFFICES ASSUME ResizeInv, [NextMeasure \/ NextResize]_<<subject, measurement, resize>>
               PROVE  ResizeInv'
    OBVIOUS
  <2>1. [R!Next]_R!vars
    BY DEF NextMeasure, NextResize, resize, R!vars
  <2> QED BY <2>1, ResizeNext, ServingAssumption
<1> QED BY <1>1, <1>2, PTL DEF SpecServing

\* A limit that is written (serving_memory.plan) is enough for the most memory that
\* any observed Pod used until its workload had finished, for any number of Pods and
\* samples and whatever memory does between two of them.
THEOREM Roomy == SpecServing => []PeakCovered
<1>1. ResizeInv => PeakCovered
  <2> SUFFICES ASSUME ResizeInv, plan.pc = "written", NEW p \in R!Observed
               PROVE  high[p].peak + Shm + R!Headroom(high[p].peak + Shm) <= plan.limit
    BY DEF PeakCovered, R!PeakCovered
  <2>1. PICK i \in 1..Len(plan.read) : p = plan.read[i].pod
    BY DEF R!Observed
  <2> QED BY <2>1 DEF ResizeInv, Whole, Room
<1> QED BY <1>1, ResizeHolds, PTL

\* It rests on distinct Pods of one runtime, none of them under pressure, cold and warm,
\* and on files that were all there at one moment (Inputs.unchanged).
THEOREM Founded == SpecServing => []WellFounded
<1>1. ResizeInv => WellFounded
  <2> SUFFICES ASSUME ResizeInv, plan.pc = "written"
               PROVE  /\ plan.whole
                      /\ R!Cardinality(R!Observed) = Len(plan.read)
                      /\ R!Cardinality(R!Observed) >= 2 * PerPhase
                      /\ \A p, q \in R!Observed : pods[p].key = pods[q].key /\ ~high[p].pressure
                      /\ plan.limit < Old /\ plan.limit + plan.other <= Allocatable
    BY DEF WellFounded, R!WellFounded
  <2>1. plan.whole /\ plan.limit < Old /\ plan.limit + plan.other <= Allocatable
    BY DEF ResizeInv, Whole, R!Fits
  <2>2. Cardinality(R!Observed) = Len(plan.read) /\ Cardinality(R!Observed) >= 2 * PerPhase
    BY Counts, ServingAssumption DEF ResizeInv, Whole
  <2>3. ASSUME NEW p \in R!Observed, NEW q \in R!Observed
        PROVE  pods[p].key = pods[q].key
    BY DEF R!Observed, ResizeInv, Sound
  <2>4. ASSUME NEW p \in R!Observed  PROVE ~high[p].pressure
    <3>1. PICK i \in 1..Len(plan.read) : p = plan.read[i].pod
      BY DEF R!Observed
    <3>2. plan.read[i] \in [pod : Pods, version : Nat]
      BY ElementOfSeq DEF ResizeInv, ResizeTypes, OneResize
    <3> DEFINE w == file[p].run
    <3>3. R!Window(w, LongEnough) /\ R!Covers(w) /\ p \in Pods
      BY <3>1, <3>2 DEF ResizeInv, Sound
    <3>4. w \in Seq(Samples)
      BY <3>3 DEF ResizeInv, ResizeTypes, OneFile
    <3>5. Len(w) \in 1..Len(w)
      BY <3>3, <3>4 DEF R!Window
    <3>6. w[Len(w)].after /\ ~w[Len(w)].pressure
      BY <3>3, <3>5 DEF R!Covers, R!Window, R!InOrder
    <3>7. Covers(high[p], w[Len(w)])
      BY <3>3, <3>5 DEF ResizeInv, Covering
    <3> QED BY <3>6, <3>7 DEF Covers
  <2> QED BY <2>1, <2>2, <2>3, <2>4, SameCount
<1> QED BY <1>1, ResizeHolds, PTL
=============================================================================
