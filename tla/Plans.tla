------------------------------- MODULE Plans -------------------------------
(* Offline plans for the serving Deployment (lib/workstation/serving_runtime.py,
   model_kernels.py, gemm_profile.py, graph_profile.py; of serving_memory.py the
   patch, its evidence is in Resize). Each planner reads a rendered manifest and
   the evidence of a running Pod, both of which may be old, and leaves a JSON
   patch. Owners apply patches later, in any order, to a Deployment that others
   may have changed: all a patch can do about that is to test the Pod template it
   was computed from.                                                         *)
EXTENDS Integers, FiniteSets

CONSTANTS
    First,         \* what may be deployed at first
    Memories,      \* memory limits of the container
    Threads,       \* loading threads or compilation workers an owner asks for
    Uses,          \* memory in use when evidence is collected
    Cpus, TP,      \* processors of the Pod, tensor-parallel ranks
    Reserve,       \* memory an owner reserves for the rest
    Each,          \* memory for a loading thread or a compilation worker
    MaxPlans,      \* bound on the plans
    MaxEdits       \* bound on what others change in the Deployment

Images == {"stock", "gemm", "kv"}
Args == {"threads", "queue", "depth", "graph"}
Fields == Args \union {"image", "memory", "workers"}

\* What of a Pod template the planners look at. graph: 0 without graph arguments,
\* 1 and 4 are the full-b1 comparator and the full-b4 candidate, 2 a captured set.
Templates == [image : Images, memory : Memories, threads : Threads \union {0},
              queue : {0, 1}, depth : {0, 1}, graph : {0, 1, 2, 4},
              workers : Threads \union {0}]

Axes == {"loading", "queue", "speculation", "compile", "memory", "gemm", "graph"}
Proposed == [axis : Axes, base : Templates, to : Templates, reserve : Nat]

\* What the constants must satisfy: sizes and counts, and at least one rank.
Allowed ==
    /\ First \subseteq Templates
    /\ Memories \union Threads \union Uses \union {Cpus, Reserve, MaxPlans, MaxEdits} \subseteq Nat
    /\ {TP, Each} \subseteq Nat \ {0}

VARIABLES
    live,      \* the Deployment's Pod template
    pod,       \* the template of the running Pod
    used,      \* the memory it uses
    pinned,    \* libraries, sources and model files are those of the profiles
    rendered,  \* the manifest file the owner passes
    seen,      \* the evidence of a Pod, or {}
    plans,     \* the plans written
    last,      \* history: axis, reserve and direction of the patch applied last
    edits

vars == <<live, pod, used, pinned, rendered, seen, plans, last, edits>>

Untouched == [axis |-> "none", reserve |-> 0, back |-> FALSE]

TypeOK ==
    /\ live \in Templates /\ pod \in Templates /\ rendered \in Templates
    /\ used \in Uses /\ pinned \in BOOLEAN
    /\ seen \subseteq [pod : Templates, used : Uses, pinned : BOOLEAN, fresh : BOOLEAN]
    /\ Cardinality(seen) <= 1
    /\ plans \subseteq Proposed
    /\ edits \in 0..MaxEdits

Init ==
    /\ live \in First
    /\ pod = live /\ rendered = live
    /\ used \in Uses
    /\ pinned = TRUE
    /\ seen = {} /\ plans = {}
    /\ last = Untouched
    /\ edits = 0

-----------------------------------------------------------------------------
(* The world: the Deployment's Pod is replaced, its host drifts, others edit *)

\* gemm_profile's launch: the image verifies itself before it starts the server,
\* and refuses to start when anything it was measured with differs.
LaunchVerified == live.image = "gemm" => pinned

Rolls ==
    /\ pod # live
    /\ LaunchVerified
    /\ pod' = live
    /\ used' \in Uses
    /\ UNCHANGED <<live, pinned, rendered, seen, plans, last, edits>>

Drifts ==
    /\ pinned
    /\ pinned' = FALSE
    /\ UNCHANGED <<live, pod, used, rendered, seen, plans, last, edits>>

Edits ==
    /\ edits < MaxEdits
    /\ edits' = edits + 1
    /\ \/ \E i \in Images \ {live.image} : live' = [live EXCEPT !.image = i]
       \/ \E m \in Memories \ {live.memory} : live' = [live EXCEPT !.memory = m]
       \/ live' = [live EXCEPT !.queue = 1 - @]
    /\ last' = Untouched
    /\ UNCHANGED <<pod, used, pinned, rendered, seen, plans>>

-----------------------------------------------------------------------------
(* Inputs of the planners *)

Renders ==
    /\ rendered # live
    /\ rendered' = live
    /\ UNCHANGED <<live, pod, used, pinned, seen, plans, last, edits>>

Collects ==
    /\ seen' = {[pod |-> pod, used |-> used, pinned |-> pinned, fresh |-> TRUE]}
    /\ UNCHANGED <<live, pod, used, pinned, rendered, plans, last, edits>>

\* Ten minutes pass, the limit of graph_profile.
Ages ==
    /\ \E e \in seen : e.fresh /\ seen' = {[e EXCEPT !.fresh = FALSE]}
    /\ UNCHANGED <<live, pod, used, pinned, rendered, plans, last, edits>>

-----------------------------------------------------------------------------
(* The planners. e is the evidence; the manifest is the one rendered. *)

Larger(a, b) == IF a > b THEN a ELSE b
Smallest(S) == CHOOSE x \in S : \A y \in S : x <= y

Plan(axis, to, reserve) == [axis |-> axis, base |-> rendered, to |-> to, reserve |-> reserve]
Change(axis, f, v) == Plan(axis, [rendered EXCEPT ![f] = v], 0)

SameImage(e) == rendered.image = e.pod.image

\* _single: image and resources are those of the observed Pod; the other
\* arguments of the manifest are not held against the observed launch.
Single(e) == rendered.image = e.pod.image /\ rendered.memory = e.pod.memory

\* _limits: what remains beside the reserve, and at least beside what was in use.
ReserveOf(e) == Larger(Reserve, e.used)
MostThreads(e) == Smallest({64, Cpus \div TP, (e.pod.memory - ReserveOf(e)) \div (Each * TP)})

\* loading_plan: no silent clipping.
Loading(e) ==
    {Plan("loading", [rendered EXCEPT !.threads = n], ReserveOf(e)) :
        n \in {m \in Threads : Single(e) /\ m <= MostThreads(e)}}

\* queue_plan: at least the observed running requests.
Queue(e) == {p \in {Change("queue", "queue", 1)} : Single(e)}

\* _without_arguments and experiment_plan: the manifest's controls of this axis
\* are the observed ones; not beside an experimental KV cache. A weight-kernel
\* plan is always blocked and has no patch.
SameControls(e) == rendered.depth = e.pod.depth

Speculation(e) ==
    {p \in {Change("speculation", "depth", d) : d \in {0, 1}} :
        Single(e) /\ e.pod.image # "kv" /\ SameControls(e)}

\* model_kernels.plan: an owner's reserve below what is in use is refused; from
\* an unmodified baseline, without graphs and workers of another candidate.
MostWorkers(e) == Smallest({16, (Cpus - 1) \div TP, (e.pod.memory - Reserve) \div (Each * TP)})

Compile(e) ==
    UNION {{Plan("compile", [rendered EXCEPT !.workers = n, !.graph = g], Reserve) :
               g \in {0, 2}} :
           n \in {m \in Threads : /\ Single(e) /\ Reserve >= e.used /\ rendered.graph = 0
                                 /\ m <= MostWorkers(e)}}

\* serving_memory.plan: a smaller limit, from observations of Pods with this very
\* launch and these resources.
SameLaunch(e) == rendered = e.pod

Memory(e) ==
    {p \in {Change("memory", "memory", m) : m \in Memories} :
        SameLaunch(e) /\ p.to.memory < rendered.memory}

\* gemm_profile.plan: mismatches() and a manifest with other arguments select the
\* incumbent image; an image of neither is refused.
GemmMatches(e) == e.pinned /\ \A f \in Args : rendered[f] = 0

Gemm(e) ==
    {p \in {Change("gemm", "image", IF GemmMatches(e) THEN "gemm" ELSE "stock")} :
        rendered.image \in {"stock", "gemm"}}

\* graph_profile.plan: a fresh receipt of a Pod that is the rendered one, with the
\* pinned full-b1 arguments; anything else selects the unchanged incumbent.
ReceiptHolds(e) == e.fresh /\ e.pinned /\ e.pod = rendered
PinnedArguments == rendered.image = "stock" /\ rendered.graph = 1
                   /\ \A f \in Args \ {"graph"} : rendered[f] = 0

Graph(e) == {Change("graph", "graph", IF ReceiptHolds(e) /\ PinnedArguments THEN 4 ELSE rendered.graph)}

Planned(e) == Loading(e) \union Queue(e) \union Speculation(e) \union Compile(e)
              \union Memory(e) \union Gemm(e) \union Graph(e)

Written ==
    /\ Cardinality(plans) < MaxPlans
    /\ \E e \in seen : \E p \in Planned(e) \ plans : plans' = plans \union {p}
    /\ UNCHANGED <<live, pod, used, pinned, rendered, seen, last, edits>>

-----------------------------------------------------------------------------
(* The patches *)

Untested(template) == TRUE

\* The op "test" on the Pod template.
Tested(template) == live = template

\* The op "replace": the arguments as a whole, with the environment of a compile
\* plan; the resources; or the whole template.
Replaced(axis) ==
    CASE axis \in {"loading", "queue", "speculation"} -> Args
      [] axis = "compile" -> Args \union {"workers"}
      [] axis = "memory" -> {"memory"}
      [] axis \in {"gemm", "graph"} -> Fields

Put(axis, to) == live' = [f \in Fields |-> IF f \in Replaced(axis) THEN to[f] ELSE live[f]]

Apply(p) ==
    /\ Tested(p.base)
    /\ Put(p.axis, p.to)
    /\ last' = [axis |-> p.axis, reserve |-> p.reserve, back |-> FALSE]
    /\ UNCHANGED <<pod, used, pinned, rendered, seen, plans, edits>>

\* Memory, GEMM and graph plans come with their rollback.
Rollback(p) ==
    /\ p.axis \in {"memory", "gemm", "graph"}
    /\ Tested(p.to)
    /\ Put(p.axis, p.base)
    /\ last' = [axis |-> p.axis, reserve |-> p.reserve, back |-> TRUE]
    /\ UNCHANGED <<pod, used, pinned, rendered, seen, plans, edits>>

Next ==
    \/ Rolls \/ Drifts \/ Edits \/ Renders \/ Collects \/ Ages \/ Written
    \/ \E p \in plans : Apply(p) \/ Rollback(p)

Spec == Init /\ [][Next]_vars

-----------------------------------------------------------------------------
(* Properties *)

\* When the threads or workers of a plan are deployed (loading_plan,
\* model_kernels.plan), they fit the memory and the processors deployed with them,
\* beside the reserve and beside what the Pod used, although the plan was computed
\* earlier, from a file and from evidence, and the limit may be lowered meanwhile.
AppliedFits ==
    /\ last.axis = "loading" =>
        /\ last.reserve + live.threads * TP * Each <= live.memory
        /\ live.threads * TP <= Cpus
    /\ last.axis = "compile" =>
        /\ last.reserve + live.workers * TP * Each <= live.memory
        /\ live.workers * TP < Cpus

\* A patch or a rollback changes what its plan is about and nothing else: neither
\* erases what somebody changed after the plan was made (the comment on the
\* rollback in gemm_profile.plan, and the requirement that candidates be
\* independent in loading_plan).
About(axis) ==
    CASE axis = "loading" -> {"threads"}
      [] axis = "queue" -> {"queue"}
      [] axis = "speculation" -> {"depth"}
      [] axis = "compile" -> {"workers", "graph"}
      [] axis = "memory" -> {"memory"}
      [] axis = "gemm" -> {"image"}
      [] axis = "graph" -> {"graph"}
      [] axis = "none" -> Fields

Erases == \E f \in Fields : live'[f] # live[f] /\ f \notin About(last'.axis)
NothingErased == [][~Erases]_vars

=============================================================================
