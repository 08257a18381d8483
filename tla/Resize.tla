------------------------------- MODULE Resize -------------------------------
(* A smaller memory limit for the serving Pod (lib/workstation/serving_memory.py).
   The planner reads what observers left of several fresh Pods: samples of the
   Pod's memory taken while it started and while it served a workload. Memory
   moves between the samples, the sampler may be late, and files may change while
   they are being read.                                                        *)
EXTENDS Integers, Sequences, FiniteSets

CONSTANTS
    Pods,          \* Pods of the Deployment, 1..n, one after the other
    Levels,        \* how much memory a Pod may come to use at most
    Old, Shm,      \* the limit to be lowered, the ceiling of the shared memory
    Margin, Round, \* least headroom, and what a limit is rounded up to
    Allocatable,   \* of the host, by the resource plan
    Others,        \* what an owner says other workloads need
    PerPhase,      \* cold and warm observations needed, each
    MostObserved,  \* observations at most
    LongEnough,        \* samples that make a long enough steady window
    MaxSamples,    \* bound on the samples of a window
    MaxFaults      \* bound on what goes wrong

\* Margins are a quarter in the runs, see Headroom.
Allowed ==
    /\ Pods = 1..Cardinality(Pods) /\ {Old, Shm, Margin, Allocatable} \subseteq Nat
    /\ Levels \subseteq 1..Old /\ Others \subseteq Nat /\ Round \in Nat \ {0}
    /\ {PerPhase, MaxFaults} \subseteq Nat

Caches == {"cold", "warm"}
Phases == {"none", "starting", "ready", "busy", "finished", "measured"}
Sample == [peak : Levels, stalls : 0..MaxFaults, pressure : BOOLEAN,
           late : BOOLEAN, after : BOOLEAN]

VARIABLES
    pods,      \* phase, high-water mark of its memory, and what identifies a Pod
    file,      \* what the observers have left of a Pod: two windows, a version
    high,      \* history: the most memory used, and pressure, until the workload had finished
    plan,      \* the planner: what it has read, and the limit it proposes
    faults

vars == <<pods, file, high, plan, faults>>

NewPod == [phase |-> "none", peak |-> 0, stalls |-> 0, pressure |-> FALSE,
           restarted |-> FALSE, key |-> 1, cache |-> "cold"]
NoFile == [start |-> <<>>, run |-> <<>>, fresh |-> FALSE, version |-> 0]
NoPlan == [pc |-> "idle", read |-> <<>>, limit |-> 0, other |-> 0, whole |-> FALSE]

TypeOK ==
    /\ \A p \in Pods :
        /\ pods[p].phase \in Phases /\ pods[p].cache \in Caches
        /\ pods[p].peak \in Levels \union {0}
        /\ file[p].start \in Seq(Sample) /\ file[p].run \in Seq(Sample)
        /\ file[p].version \in 0..MaxFaults
        /\ high[p].peak \in Levels \union {0}
    /\ plan.pc \in {"idle", "reading", "proposed", "refused", "written"}
    /\ faults \in 0..MaxFaults

Init ==
    /\ pods = [p \in Pods |-> NewPod]
    /\ file = [p \in Pods |-> NoFile]
    /\ high = [p \in Pods |-> [peak |-> 0, pressure |-> FALSE]]
    /\ plan = NoPlan
    /\ faults = 0

-----------------------------------------------------------------------------
(* The Pods *)

Fault == faults < MaxFaults /\ faults' = faults + 1
Used(p) == pods[p].phase \in {"starting", "ready", "busy", "finished"}

\* A fresh Pod, with or without compiled kernels; its model and launch settings
\* are those of the one before, or others.
Start(p) ==
    /\ pods[p].phase = "none" /\ plan.pc = "idle"
    /\ \A q \in Pods : q < p => pods[q].phase = "measured"
    /\ \E c \in Caches, l \in Levels, k \in {1, 2} :
        /\ k # 1 => Fault
        /\ k = 1 => UNCHANGED faults
        /\ pods' = [pods EXCEPT ![p] = [@ EXCEPT !.phase = "starting", !.cache = c, !.key = k,
                                                 !.peak = l]]
    /\ UNCHANGED <<file, high, plan>>

\* Memory in use goes up and down; the kernel keeps its high-water mark.
Grows(p) ==
    /\ Used(p)
    /\ \E l \in Levels : l > pods[p].peak /\ pods' = [pods EXCEPT ![p].peak = l]
    /\ UNCHANGED <<file, high, plan, faults>>

\* A stall for memory, an event of the limit, a restart of the container.
Suffers(p) ==
    /\ Used(p)
    /\ Fault
    /\ \/ pods' = [pods EXCEPT ![p].stalls = @ + 1]
       \/ pods' = [pods EXCEPT ![p].pressure = TRUE]
       \/ pods' = [pods EXCEPT ![p].restarted = TRUE]
    /\ UNCHANGED <<file, high, plan>>

-----------------------------------------------------------------------------
(* The observers *)

Taken(p, late) == [peak |-> pods[p].peak, stalls |-> pods[p].stalls,
                   pressure |-> pods[p].pressure, late |-> late,
                   after |-> pods[p].phase = "finished"]

\* A sample more than thirty seconds after the one before is a fault.
Samples(p) ==
    /\ \E late \in BOOLEAN :
        /\ IF late THEN Fault ELSE UNCHANGED faults
        /\ \/ /\ pods[p].phase = "starting" /\ Len(file[p].start) < MaxSamples
              /\ file' = [file EXCEPT ![p].start = Append(@, Taken(p, late))]
           \/ /\ pods[p].phase \in {"busy", "finished"} /\ Len(file[p].run) < MaxSamples
              /\ file' = [file EXCEPT ![p].run = Append(@, Taken(p, late))]
    /\ UNCHANGED <<pods, high, plan>>

\* A start was observed once the Pod was sampled before and after it got ready (an
\* observer that fails leaves no record to plan from); the workload begins,
\* finishes, and the result is written with the Pod's identity as it is then.
Advances(p) ==
    /\ \/ /\ pods[p].phase = "starting" /\ Len(file[p].start) >= 2
          /\ pods' = [pods EXCEPT ![p].phase = "ready"]
          /\ UNCHANGED <<file, high>>
       \/ /\ pods[p].phase = "ready" /\ pods' = [pods EXCEPT ![p].phase = "busy"]
          /\ UNCHANGED <<file, high>>
       \/ /\ pods[p].phase = "busy" /\ pods' = [pods EXCEPT ![p].phase = "finished"]
          /\ high' = [high EXCEPT ![p] = [peak |-> pods[p].peak, pressure |-> pods[p].pressure]]
          /\ UNCHANGED file
       \/ /\ pods[p].phase = "finished"
          /\ pods' = [pods EXCEPT ![p] = [NewPod EXCEPT !.phase = "measured", !.key = pods[p].key,
                                                        !.cache = pods[p].cache]]
          /\ file' = [file EXCEPT ![p].fresh = ~pods[p].restarted]
          /\ UNCHANGED high
    /\ UNCHANGED <<plan, faults>>

\* Somebody writes a file again.
Rewritten(p) ==
    /\ pods[p].phase = "measured"
    /\ Fault
    /\ file' = [file EXCEPT ![p].version = @ + 1]
    /\ UNCHANGED <<pods, high, plan>>

-----------------------------------------------------------------------------
(* The planner *)

\* window(): a sample agrees with the limit and shows no pressure;
InOrder(s) == s.peak <= Old /\ ~s.pressure
\* two samples belong together: no gap, no lower peak, no stall between them.
Follows(s, t) == ~t.late /\ s.peak <= t.peak /\ s.stalls = t.stalls

Window(w, least) ==
    /\ Len(w) >= 2 /\ Len(w) >= least
    /\ \A i \in 1..Len(w) : InOrder(w[i])
    /\ \A i \in 1..Len(w) - 1 : Follows(w[i], w[i + 1])

Anywhere(w) == Len(w) >= 2

\* The steady window reaches to the end of the workload.
Covers(w) == w[Len(w)].after

\* full_shm_envelope_bytes: the greatest lifetime peak, and all shared memory.
PeaksOf(w) == {w[i].peak : i \in 1..Len(w)}

\* pod_identity, check_runs and the rest of the loop: a measured Pod without a
\* restart, not observed before, with the settings of the others.
Distinct(p) == \A i \in 1..Len(plan.read) : plan.read[i].pod # p
SameSettings(p) == \A i \in 1..Len(plan.read) : pods[plan.read[i].pod].key = pods[p].key

Acceptable(p) ==
    /\ pods[p].phase = "measured" /\ file[p].fresh
    /\ Distinct(p) /\ SameSettings(p)
    /\ Window(file[p].start, 2) /\ Window(file[p].run, LongEnough)
    /\ Covers(file[p].run)

\* Inputs.read keeps the hash of what it read. An owner plans when no Pod is being
\* observed any more.
Observe(p) ==
    /\ plan.pc \in {"idle", "reading"}
    /\ \A q \in Pods : ~Used(q)
    /\ IF Acceptable(p)
       THEN plan' = [plan EXCEPT !.pc = "reading",
                        !.read = Append(@, [pod |-> p, version |-> file[p].version])]
       ELSE plan' = [NoPlan EXCEPT !.pc = "refused"]
    /\ UNCHANGED <<pods, file, high, faults>>

Greatest(S) == CHOOSE x \in S : \A y \in S : y <= x
Observed == {plan.read[i].pod : i \in 1..Len(plan.read)}
Counted(c) == Cardinality({p \in Observed : pods[p].cache = c})

Envelope == Greatest(UNION {PeaksOf(file[p].start) \union PeaksOf(file[p].run) : p \in Observed}) + Shm

\* The margin, and a quarter of the envelope, rounded up; the limit too.
Headroom(e) == Greatest({Margin, (e + 3) \div 4})
RoundUp(n) == ((n + Round - 1) \div Round) * Round
Proposed == RoundUp(Envelope + Headroom(Envelope))

\* No limit is proposed above or at the old one, nor beyond what the host has left.
Fits(limit, other) == limit < Old /\ limit + other <= Allocatable

Enough == (\A c \in Caches : Counted(c) >= PerPhase) /\ Len(plan.read) <= MostObserved

\* An owner may ask for more than what is proposed, but not for less.
Propose ==
    /\ plan.pc = "reading" /\ Enough
    /\ \E limit \in Proposed..Old, other \in Others :
        IF Fits(limit, other)
        THEN plan' = [plan EXCEPT !.pc = "proposed", !.limit = limit, !.other = other,
                          !.whole = \A i \in 1..Len(plan.read) :
                                        plan.read[i].version = file[plan.read[i].pod].version]
        ELSE plan' = [NoPlan EXCEPT !.pc = "refused"]
    /\ UNCHANGED <<pods, file, high, faults>>

Trusted == TRUE

\* Inputs.unchanged, then plan.json with its patch and rollback.
Unchanged == \A i \in 1..Len(plan.read) : plan.read[i].version = file[plan.read[i].pod].version

WritesPlan ==
    /\ plan.pc = "proposed"
    /\ plan' = IF Unchanged THEN [plan EXCEPT !.pc = "written"] ELSE [NoPlan EXCEPT !.pc = "refused"]
    /\ UNCHANGED <<pods, file, high, faults>>

Next ==
    \/ \E p \in Pods : Start(p) \/ Grows(p) \/ Suffers(p) \/ Samples(p) \/ Advances(p)
                       \/ Rewritten(p) \/ Observe(p)
    \/ Propose \/ WritesPlan

Spec == Init /\ [][Next]_vars

-----------------------------------------------------------------------------
(* Properties *)

\* A limit that is written (serving_memory.plan) leaves room for all shared memory
\* and the headroom above the most memory that any observed Pod used until its
\* workload had finished, also between two samples.
PeakCovered == plan.pc = "written" =>
    \A p \in Observed : high[p].peak + Shm + Headroom(high[p].peak + Shm) <= plan.limit

\* It rests on distinct Pods of one runtime that started cold and warm, on evidence
\* that was all on disk at one moment, and it fits the host beside the others.
WellFounded == plan.pc = "written" =>
    /\ plan.whole
    /\ Cardinality(Observed) = Len(plan.read) /\ Cardinality(Observed) >= 2 * PerPhase
    /\ \A p, q \in Observed : pods[p].key = pods[q].key /\ ~high[p].pressure
    /\ plan.limit < Old /\ plan.limit + plan.other <= Allocatable

=============================================================================
