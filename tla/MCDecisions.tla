---------------------------- MODULE MCDecisions ----------------------------
(* The evidence of a profile is a bounded set: two that differ in throughput and,
   each, in one further respect from sound evidence. Two deployments to plan for, two
   namespaces with two files, two runs that may be given one directory.       *)
EXTENDS Decisions, TLC

-----------------------------------------------------------------------------
(* Values for Profiles                                                       *)

Sample(n, median, stdev, tail) ==
    [samples |-> n, median |-> median, stdev |-> stdev, tail |-> tail]
Start(n, median, failed, unknown) ==
    [samples |-> n, median |-> median, failed |-> failed, unknown |-> unknown]

Default == [software |-> "v1", launch |-> "l1", kv_cache |-> "default"]

Case(rate, spread) ==
    [failures |-> 0, throughput |-> Sample(3, rate, spread, 0),
     latency |-> Sample(20, 100, 0, 200), ttft |-> Sample(3, 50, 0, 0)]

Sound(short, long, spread) ==
    [status |-> "measured-not-qualified", serving |-> "measured-not-qualified",
     cases |-> [w \in {"short", "long"} |-> Case(IF w = "short" THEN short ELSE long, spread)],
     startup |-> [phase \in {"cold", "warm"} |-> Start(2, 40, 0, 0)],
     memory |-> "plan-only-unqualified", pressure |-> "absent",
     numerical |-> "passed", coding |-> "passed", corpus |-> "c1",
     run |-> TRUE, tolerance |-> 1, executed |-> TRUE, setting |-> Default]

\* One more respect in which evidence may differ.
Variants(e) ==
    LET long == e.cases["long"]
    IN  {e, [e EXCEPT !.status = "failed"], [e EXCEPT !.serving = "failed"],
         [e EXCEPT !.cases["long"].failures = 1],
         [e EXCEPT !.cases["long"].throughput.samples = 2],
         [e EXCEPT !.cases["long"].latency = Sample(20, 100, 0, 211)],
         [e EXCEPT !.cases["long"].latency = Sample(19, 105, 0, 211)],
         [e EXCEPT !.cases["long"].ttft.median = 53],
         [e EXCEPT !.cases["long"].ttft.samples = 0],
         [e EXCEPT !.cases["long"].ttft.median = 0],
         [e EXCEPT !.cases = [w \in {"short"} |-> e.cases["short"]]],
         [e EXCEPT !.startup["warm"] = Start(2, 43, 0, 0)],
         [e EXCEPT !.startup["cold"] = Start(1, 40, 1, 0)],
         [e EXCEPT !.startup["cold"] = Start(0, 0, 0, 1)],
         [e EXCEPT !.memory = "refused"], [e EXCEPT !.memory = "none"],
         [e EXCEPT !.pressure = "observed"],
         [e EXCEPT !.numerical = "unknown"], [e EXCEPT !.coding = "failed"],
         [e EXCEPT !.corpus = "c2"], [e EXCEPT !.run = FALSE], [e EXCEPT !.tolerance = 2],
         [e EXCEPT !.setting.launch = "l2"], [e EXCEPT !.setting.software = "v2"],
         [e EXCEPT !.setting = [software |-> "v2", launch |-> "l1", kv_cache |-> "turbo"]],
         [e EXCEPT !.setting.kv_cache = "turbo", !.executed = FALSE]}

Uneven == {<<110, 100, 0>>, <<100, 110, 0>>, <<110, 104, 0>>, <<110, 110, 3>>}

SomeEvidence ==
    Variants(Sound(100, 100, 0)) \union Variants(Sound(110, 110, 0))
        \union {Sound(r[1], r[2], r[3]) : r \in Uneven}

SomePolicies ==
    {[minimum_gain |-> 5, maximum_regression |-> 5, noise |-> 2],
     [minimum_gain |-> 0, maximum_regression |-> 0, noise |-> 0],
     [minimum_gain |-> 3, maximum_regression |-> 10, noise |-> 5]}

SomeDeclarations ==
    {{}, {"launch"}, {"software", "kv_cache", "coding_corpus"}}

SomeSettings ==
    {Default, [Default EXCEPT !.launch = "l2"], [Default EXCEPT !.software = "v2"],
     [Default EXCEPT !.software = "v2", !.kv_cache = "turbo"],
     [Default EXCEPT !.kv_cache = "turbo"]}

-----------------------------------------------------------------------------
(* Values for the others                                                     *)

\* A deployment without graph arguments, and the full-b1 comparator.
TwoTemplates ==
    {[image |-> "stock", memory |-> 6, threads |-> 0, queue |-> 0, depth |-> 0,
      graph |-> g, workers |-> 0] : g \in {0, 1}}

CONSTANTS n1, n2, f1, f2, r1, r2, x1, x2

TwoNames == <<n1, n2>>
TwoFiles == {f1, f2}
TwoRuns == {r1, r2}
TwoOutputs == {x1, x2}

Symmetric == Permutations(TwoFiles)
=============================================================================
