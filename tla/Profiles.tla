------------------------------ MODULE Profiles ------------------------------
(* Choosing a serving profile (lib/workstation/performance_profiles.py and the
   status of lib/workstation/performance_bundle.py). Evidence of two profiles
   is inspected and compared under a policy, an owner may select a candidate
   the comparison recommends, and the selection is later held against a dated
   observation of the host, whose settings may change at any time. Percentages
   are compared by cross multiplication, so no rounding is lost. Hashes,
   schemas and malformed input (refused) are left out.                      *)
EXTENDS Integers, FiniteSets

CONSTANTS
    Evidence,      \* what inspect may return
    Policies,      \* thresholds, in percent
    Declarations,  \* sets of variables an owner declares as the experiment
    Settings,      \* identity, conditions and KV descriptor a host may have
    MaxAge,        \* MAX_PROFILE_IDENTITY_AGE_SECONDS
    MaxTime        \* bound on the clock

ASSUME ProfilesAssumption ==
    /\ MaxAge \in Nat
    /\ MaxTime \in Nat
    /\ Policies \subseteq [minimum_gain : 0..100, maximum_regression : 0..100, noise : 0..100]
    /\ \A e \in Evidence :
         /\ \A w \in DOMAIN e.cases : \A m \in {"throughput", "latency", "ttft"} :
              {e.cases[w][m].samples, e.cases[w][m].median, e.cases[w][m].tail} \subseteq Nat
         /\ \A phase \in {"cold", "warm"} :
              {e.startup[phase].samples, e.startup[phase].median} \subseteq Nat
    /\ Settings # {}

VARIABLES
    baseline,     \* the evidence inspected, or none
    candidate,
    report,       \* the comparison, or none
    selection,    \* the selection, or none
    host,         \* the host's settings
    observation,  \* the last observation, or none
    clock,
    answer,       \* profile_status's last answer, and when it was given
    last          \* history: when the host last had each of the settings

vars == <<baseline, candidate, report, selection, host, observation, clock, answer, last>>

None == [is |-> "none"]

-----------------------------------------------------------------------------
(* What is read from a bundle                                               *)

\* median_summary: no measurement, or a median, a spread and, from 20 samples
\* on, a tail.
Observed(m) == m.samples >= 1
HasTail(m) == m.samples >= 20

\* startup_metrics: a phase counts only when every attempt succeeded.
StartsKnown(phase) == phase.samples >= 1 /\ phase.failed = 0 /\ phase.unknown = 0

\* serving_metrics
Measured(e) == e.serving = "measured-not-qualified" /\ DOMAIN e.cases # {}

-----------------------------------------------------------------------------
(* The gates. Each has an answer; incomplete goes before regressed.         *)

\* percent_regression: unknown for a zero baseline.
Comparable(b) == b > 0
Regresses(b, c, limit) == (c - b) * 100 > limit * b

OnlyKnown(incomplete, regressed) == IF regressed THEN "regressed" ELSE "passed"
Answer(incomplete, regressed) ==
    IF incomplete THEN "incomplete" ELSE IF regressed THEN "regressed" ELSE "passed"

startup_gate(b, c, limit) ==
    LET phases == {"cold", "warm"}
        Known(phase) == /\ StartsKnown(b.startup[phase])
                        /\ StartsKnown(c.startup[phase])
                        /\ Comparable(b.startup[phase].median)
    IN  Answer(\E phase \in phases : ~Known(phase),
               \E phase \in phases :
                  Regresses(b.startup[phase].median, c.startup[phase].median, limit))

\* The statistics of a case both sides have; a tail only where both have one.
Statistics(b, c) ==
    {<<b.latency.median, c.latency.median>>, <<b.ttft.median, c.ttft.median>>}
        \union {<<b[m].tail, c[m].tail>> :
                  m \in {n \in {"latency", "ttft"} : HasTail(b[n]) /\ HasTail(c[n])}}

serving_latency_gate(b, c, limit) ==
    LET cases == DOMAIN b.cases
        Known(w) == /\ \A m \in {"latency", "ttft"} :
                         Observed(b.cases[w][m]) /\ Observed(c.cases[w][m])
                    /\ \A s \in Statistics(b.cases[w], c.cases[w]) : Comparable(s[1])
    IN  Answer(\E w \in cases : ~Known(w),
               \E w \in cases : \E s \in Statistics(b.cases[w], c.cases[w]) :
                  Regresses(s[1], s[2], limit))

\* memory_gate: no plan is unknown, not healthy, and does not stop a candidate.
Adverse(e) ==
    \/ e.memory \notin {"none", "plan-only-unqualified", "unknown"}
    \/ e.memory # "none" /\ e.pressure \notin {"absent", "unknown", "none", "not-observed"}

memory_gate(b, c) == ~Adverse(b) /\ ~Adverse(c)

\* throughput_gate: three samples on each side and medians that are not zero.
throughput_gate(b, c) ==
    \A w \in DOMAIN b.cases :
        \A m \in {b.cases[w].throughput, c.cases[w].throughput} :
            m.samples >= 3 /\ m.median > 0

\* Throughput of a case: the gain of c over b in percent is Gain / Scale, and the
\* spread of both together is Spread / Scale.
Gain(b, c) == (c.median - b.median) * 100 * c.median
Scale(b, c) == b.median * c.median
Spread(b, c) == 100 * (b.stdev * c.median + c.stdev * b.median)

Distance(x) == IF x < 0 THEN -x ELSE x

\* Within the configured noise or the spread observed, whichever is larger.
Noisy(b, c, noise) ==
    \/ Distance(Gain(b, c)) <= noise * Scale(b, c)
    \/ Distance(Gain(b, c)) <= Spread(b, c)

-----------------------------------------------------------------------------
(* comparison_record                                                        *)

NonEquivalent == {"model", "tokenizer", "workload", "hardware", "quantization", "resources",
                  "concurrency", "coding_corpus", "generation", "profile", "prefix_state"}

\* differences and coding_differences, by the variable that must declare them.
Differences(b, c) ==
    {v \in DOMAIN b.setting : b.setting[v] # c.setting[v]}
        \union (IF b.corpus # c.corpus THEN {"coding_corpus"} ELSE {})

Experimental(e) == e.setting["kv_cache"] # "default"

\* cross_profile_quality: the runs retained for both profiles are compared again.
\* Only a candidate with an experimental KV cache may change the software.
CrossQuality(b, c) ==
    /\ b.run /\ c.run
    /\ b.tolerance = c.tolerance
    /\ ~Experimental(b)
    /\ "software" \in Differences(b, c) => Experimental(c)

QualityPassed(b, c) ==
    /\ \A e \in {b, c} : e.numerical = "passed" /\ e.coding = "passed"
    /\ CrossQuality(b, c)
    /\ b.corpus = c.corpus

\* align_cases
SameCases(b, c) == DOMAIN b.cases = DOMAIN c.cases

Ready(b, c) ==
    /\ b.status = "measured-not-qualified"
    /\ c.status = "measured-not-qualified"
    /\ Measured(b) /\ Measured(c) /\ SameCases(b, c)
    /\ \A w \in DOMAIN b.cases : \A case \in {b.cases[w], c.cases[w]} :
         case.failures = 0 /\ Observed(case.throughput)

EveryCase(b, c, limit) ==
    \A w \in DOMAIN b.cases :
        LET left == b.cases[w].throughput
            right == c.cases[w].throughput
        IN  Gain(left, right) >= limit * Scale(left, right)
SomeCase(b, c, limit) ==
    \E w \in DOMAIN b.cases :
        LET left == b.cases[w].throughput
            right == c.cases[w].throughput
        IN  Gain(left, right) >= limit * Scale(left, right)

\* The gain is the least of all cases.
EnoughGain(b, c, limit) == EveryCase(b, c, limit)

\* recommendation = "candidate"
Recommended(b, c, policy) ==
    /\ Ready(b, c)
    /\ Differences(b, c) \intersect NonEquivalent = {}
    /\ QualityPassed(b, c)
    /\ startup_gate(b, c, policy.maximum_regression) = "passed"
    /\ serving_latency_gate(b, c, policy.maximum_regression) = "passed"
    /\ memory_gate(b, c)
    /\ throughput_gate(b, c)
    /\ \A w \in DOMAIN b.cases :
         ~Noisy(b.cases[w].throughput, c.cases[w].throughput, policy.noise)
    /\ EnoughGain(b, c, policy.minimum_gain)
-----------------------------------------------------------------------------
(* Inspecting, comparing and selecting                                      *)

Init ==
    /\ baseline = None
    /\ candidate = None
    /\ report = None
    /\ selection = None
    /\ host = CHOOSE s \in Settings : TRUE
    /\ observation = None
    /\ clock = 0
    /\ answer = None
    /\ last = [s \in Settings |-> IF s = host THEN 0 ELSE -1]

InspectBaseline(e) ==
    /\ selection = None
    /\ baseline = None
    /\ baseline' = e
    /\ UNCHANGED <<candidate, report, selection, host, observation, clock, answer, last>>

InspectCandidate(e) ==
    /\ baseline # None
    /\ candidate = None
    /\ candidate' = e
    /\ UNCHANGED <<baseline, report, selection, host, observation, clock, answer, last>>

\* compare refuses an undeclared difference, and two models on two machines.
CompareBundles(declared, policy) ==
    /\ candidate # None
    /\ report = None
    /\ Differences(baseline, candidate) \subseteq declared
    /\ ~({"model", "hardware"} \subseteq declared)
    /\ report' = [is |-> "comparison", policy |-> policy,
                  recommendation |-> IF Recommended(baseline, candidate, policy)
                                     THEN "candidate" ELSE "retain-baseline"]
    /\ UNCHANGED <<baseline, candidate, selection, host, observation, clock, answer, last>>

\* select recomputes the report, and asks of an experimental KV cache that the
\* retained run executed it. The bundles and the report are then put aside.
Select ==
    /\ report # None
    /\ report.recommendation = "candidate"
    /\ Experimental(candidate) => candidate.executed
    /\ selection' = [is |-> "selected-unqualified", setting |-> candidate.setting]
    /\ baseline' = None
    /\ candidate' = None
    /\ report' = None
    /\ UNCHANGED <<host, observation, clock, answer, last>>

-----------------------------------------------------------------------------
(* The host, its observation, and the status of the selection               *)

HostChanges(s) ==
    /\ selection # None
    /\ host' = s
    /\ last' = [last EXCEPT ![s] = clock]
    /\ UNCHANGED <<baseline, candidate, report, selection, observation, clock, answer>>

Tick ==
    /\ selection # None
    /\ clock < MaxTime
    /\ clock' = clock + 1
    /\ last' = [last EXCEPT ![host] = clock + 1]
    /\ UNCHANGED <<baseline, candidate, report, selection, host, observation, answer>>

\* An observation without conditions, of an older observer, is kept for its identity.
Observe(conditions) ==
    /\ selection # None
    /\ observation' = [is |-> "observed-not-qualified", at |-> clock, setting |-> host,
                       conditions |-> conditions]
    /\ UNCHANGED <<baseline, candidate, report, selection, host, clock, answer, last>>

\* current_profile_identity
Dated(o) == clock - o.at >= 0
Fresh(o) == Dated(o) /\ clock - o.at <= MaxAge

\* selection_status: a changed identity is stale even when the rest is unknown.
selection_status(s, o) ==
    IF s.setting["software"] # o.setting["software"] THEN "stale"
    ELSE IF ~o.conditions THEN "unknown"
    ELSE IF s.setting["kv_cache"] # "default" /\ o.setting["kv_cache"] = "default" THEN "unknown"
    ELSE IF s.setting # o.setting THEN "stale"
    ELSE "selected-unqualified-current"

profile_status ==
    /\ selection # None
    /\ observation # None
    /\ answer' = [at |-> clock,
                  is |-> IF Fresh(observation) THEN selection_status(selection, observation)
                                               ELSE "unknown"]
    /\ UNCHANGED <<baseline, candidate, report, selection, host, observation, clock, last>>

-----------------------------------------------------------------------------
Next ==
    \/ \E e \in Evidence : InspectBaseline(e) \/ InspectCandidate(e)
    \/ \E declared \in Declarations, policy \in Policies : CompareBundles(declared, policy)
    \/ Select \/ Tick \/ profile_status
    \/ \E s \in Settings : HostChanges(s)
    \/ \E conditions \in BOOLEAN : Observe(conditions)

Spec == Init /\ [][Next]_vars

-----------------------------------------------------------------------------
(* Properties                                                               *)

\* docs/PERFORMANCE-PROFILES.md: "a token-rate increase cannot override any
\* regression", and nothing unknown counts as zero. A candidate that may be selected was measured
\* without a failure in every respect in which its baseline was, gains in every
\* case what the policy asks, and is nowhere slower than the policy allows.
NothingHidden ==
    report # None /\ report.recommendation = "candidate" =>
        LET limit == 100 + report.policy.maximum_regression
            Ok(b, c) == b > 0 /\ c * 100 <= b * limit
        IN  /\ DOMAIN baseline.cases = DOMAIN candidate.cases
            /\ \A w \in DOMAIN candidate.cases :
                 LET b == baseline.cases[w]
                     c == candidate.cases[w]
                 IN  /\ b.failures + c.failures = 0
                     /\ c.throughput.median * 100
                          >= b.throughput.median * (100 + report.policy.minimum_gain)
                     /\ \A m \in {"latency", "ttft"} :
                          /\ b[m].samples > 0 /\ c[m].samples > 0
                          /\ Ok(b[m].median, c[m].median)
                          /\ b[m].samples >= 20 /\ c[m].samples >= 20 => Ok(b[m].tail, c[m].tail)
            /\ \A phase \in {"cold", "warm"} :
                 LET b == baseline.startup[phase]
                     c == candidate.startup[phase]
                 IN  /\ b.failed + b.unknown + c.failed + c.unknown = 0
                     /\ b.samples > 0 /\ c.samples > 0
                     /\ Ok(b.median, c.median)
            /\ \A e \in {baseline, candidate} :
                 /\ e.numerical = "passed" /\ e.coding = "passed" /\ e.run
                 /\ e.memory # "refused" /\ (e.memory # "none" => e.pressure # "observed")

\* No two policies can talk an owner back and forth: the evidence that recommends a
\* candidate over its baseline never, under any policy, recommends the baseline over
\* the candidate.
NoWayBack ==
    report # None /\ report.recommendation = "candidate" =>
        \A policy \in Policies : ~Recommended(candidate, baseline, policy)

\* A status of current means that the host did have the settings the selected
\* evidence was measured with at some instant of the last 15 minutes, whatever the
\* owner observed, changed and asked in which order.
CurrentWasTrue ==
    answer # None /\ answer.is = "selected-unqualified-current" =>
        /\ last[selection.setting] >= 0
        /\ answer.at - last[selection.setting] <= MaxAge
=============================================================================
