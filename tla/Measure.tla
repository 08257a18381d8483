------------------------------ MODULE Measure ------------------------------
(* A measurement of the serving Pod and the claims made from it
   (lib/workstation/performance.sh, kernel_run.py, serving.py, model_kernels.py,
   serving_runtime.py). An owner's command looks at the Pod, hashes its model,
   probes its libraries, sends requests and looks again. Nothing is locked: the
   container may restart, the deployment be replaced, files and libraries change
   and memory run short between any two looks. Only what is compared in the end
   makes the numbers a measurement, and another owner may at any time ask
   whether the server is warm, or compare two results.                       *)
EXTENDS Naturals, FiniteSets

CONSTANTS
    Owners,        \* owners' commands: a measurement or a question each
    Workloads,     \* workload files
    Deployments,   \* what may be deployed, see Accepted
    Baseline,      \* the one that is deployed at first
    MaxProcs,      \* bound on the container processes
    MaxChanges     \* bound on what else changes in the world

\* A deployment is what evidence() looks at: an image, its launch settings, a memory
\* limit and the descriptor of an experimental candidate.
Allowed ==
    /\ MaxProcs \in Nat \ {0} /\ MaxChanges \in Nat
    /\ \A d \in Deployments : d = [image |-> d.image, settings |-> d.settings,
                                   memory |-> d.memory, descriptor |-> d.descriptor]
    /\ Baseline \in Deployments

\* A reboot of the host ends every command on it, which is why the boot identity
\* compared by the commands is not a variable here.

Kinds == {"serving", "kernel-warmup", "kernel-profile"}
Statuses == {"none", "awaiting", "failed", "verified"}
ReportKinds == {"reuse", "kernel", "memory", "kv", "tuning"}
Answers == {"none", "unavailable", "model-loading", "unknown", "healthy", "stale", "ready"}

VARIABLES
    pod,       \* what the API says of the Pod: process, deployment, phase, Ready
    inside,    \* what the container holds: model files, libraries, memory events
    changes,
    run,       \* the command of an owner: where it is and what it has read
    disk,      \* result.json of an owner's run
    served,    \* history: what answered the requests of a run
    watch,     \* the process whose start is being observed, or 0
    started,   \* processes with a record of their start
    reports        \* the comparison written last: kind and the two runs

world == <<pod, inside, changes>>
vars == <<world, run, disk, served, watch, started, reports>>

\* A version only grows: what was changed is not put back as it was.
Inside == [files : 0..MaxChanges, libs : 0..MaxChanges, events : 0..MaxChanges]
Views == [proc : 0..MaxProcs, dep : Deployments, phase : {"loading", "running", "crashed"},
          ready : BOOLEAN]
Nothing == [files |-> 0, libs |-> 0, events |-> 0]

NoPod == [proc |-> 0, dep |-> Baseline, phase |-> "loading",
          ready |-> FALSE]

\* What a command has read: the Pod, and the Pod once more; files and libraries;
\* the memory events before it sent anything.
NoRun == [pc |-> "new", kind |-> "none", pod |-> NoPod, first |-> NoPod,
          seen |-> Nothing, events |-> 0, work |-> "none", answer |-> "none"]
NoResult == [status |-> "none", kind |-> "none", pod |-> NoPod, seen |-> Nothing,
             work |-> "none", checked |-> FALSE]

PCs == {"new", "collect", "hash", "probe", "collected", "warm", "steady", "stop",
        "rehash", "same", "finish", "look", "done", "dead"}

TypeOK ==
    /\ pod \in Views
    /\ inside \in Inside
    /\ changes \in 0..MaxChanges
    /\ \A o \in Owners :
        /\ run[o].pc \in PCs
        /\ run[o].kind \in Kinds \union {"none", "status"}
        /\ run[o].pod \in Views /\ run[o].first \in Views
        /\ run[o].seen \in Inside
        /\ run[o].events \in 0..MaxChanges
        /\ run[o].work \in Workloads \union {"none"}
        /\ run[o].answer \in Answers
        /\ disk[o].status \in Statuses
        /\ disk[o].pod \in Views
        /\ served[o] \subseteq [proc : 1..MaxProcs, in : Inside]
    /\ watch \in 0..MaxProcs
    /\ started \subseteq 1..MaxProcs
    /\ Cardinality(reports) <= 1 /\ reports \subseteq [kind : ReportKinds, a : Owners, b : Owners]

Init ==
    /\ pod = [proc |-> 1, dep |-> Baseline, phase |-> "loading", ready |-> FALSE]
    /\ inside = Nothing
    /\ changes = 0
    /\ run = [o \in Owners |-> NoRun]
    /\ disk = [o \in Owners |-> NoResult]
    /\ served = [o \in Owners |-> {}]
    /\ watch = 0
    /\ started = {}
    /\ reports = {}

-----------------------------------------------------------------------------
(* The world *)

Changed == changes < MaxChanges /\ changes' = changes + 1

\* The container starts again, in this Pod or in one of another deployment. The
\* new process has no memory events.
NewProcess ==
    /\ pod.proc < MaxProcs
    /\ \E d \in Deployments :
        pod' = [proc |-> pod.proc + 1, dep |-> d, phase |-> "loading", ready |-> FALSE]
    /\ inside' = [inside EXCEPT !.events = 0]

Restarts == NewProcess /\ UNCHANGED changes

\* The model is loaded; Ready follows the container, and lags behind it.
Loads ==
    /\ pod.phase = "loading"
    /\ pod' = [pod EXCEPT !.phase = "running"]
    /\ UNCHANGED <<inside, changes>>
KubeletSays ==
    /\ pod.ready # (pod.phase = "running")
    /\ pod' = [pod EXCEPT !.ready = ~pod.ready]
    /\ UNCHANGED <<inside, changes>>
Crashes ==
    /\ pod.phase = "running"
    /\ Changed
    /\ pod' = [pod EXCEPT !.phase = "crashed"]
    /\ UNCHANGED inside

\* Model files, libraries or memory events change under a running process.
Drifts ==
    /\ Changed
    /\ \E f \in {"files", "libs", "events"} : inside' = [inside EXCEPT ![f] = changes + 1]
    /\ UNCHANGED pod

World ==
    /\ Restarts \/ Loads \/ KubeletSays \/ Crashes \/ Drifts
    /\ UNCHANGED <<run, disk, served, watch, started, reports>>

-----------------------------------------------------------------------------
(* Evidence *)

\* image_contract, validate_profile_contract and validate_runtime_contract: the
\* image is a reviewed one, and the single-GPU selection is limited to its
\* profile; experimental_kv_runtime: a candidate has a complete descriptor that
\* agrees with what was observed, and no reviewed image.
Reviewed(d) == d.image = "legacy" \/ (d.image = "single" /\ d.settings = "reviewed")
CompleteCandidate(d) == d.descriptor = "complete"
Accepted(d) == IF d.descriptor = "none" THEN Reviewed(d) ELSE CompleteCandidate(d)

At(o, pc) == run[o].pc = pc
To(o, pc) == run' = [run EXCEPT ![o].pc = pc]
Keep == UNCHANGED <<world, disk, served, watch, started, reports>>

\* The command ends; of what it has read only what is on disk matters.
Ends(o, pc) == run' = [run EXCEPT ![o] = [NoRun EXCEPT !.pc = pc, !.kind = run[o].kind]]

\* ws_serving_evidence: a Ready Pod is identified.
Collect(o) ==
    /\ run[o].pc \in {"new", "collect"}
    /\ pod.ready
    /\ run' = [run EXCEPT ![o].pc = "hash", ![o].pod = pod]
    /\ Keep

\* The model files are hashed in the container and the Pod is looked at again.
Hash(o) ==
    /\ At(o, "hash")
    /\ pod.phase # "crashed"
    /\ IF pod = run[o].pod
       THEN run' = [run EXCEPT ![o].pc = "probe", ![o].seen.files = inside.files]
       ELSE Ends(o, "dead")
    /\ Keep

\* ws_kernel_evidence: libraries and settings are probed, the Pod looked at again.
Probe(o) ==
    /\ At(o, "probe")
    /\ pod.phase # "crashed"
    /\ IF pod = run[o].pod
       THEN run' = [run EXCEPT ![o].pc = "collected", ![o].seen.libs = inside.libs]
       ELSE Ends(o, "dead")
    /\ Keep

-----------------------------------------------------------------------------
(* A measurement: ws_serving_benchmark *)

\* The evidence still describes the live Pod. For a kernel run the libraries and
\* the memory events are probed: evidence() must accept the deployment, and the
\* libraries be those recorded with the evidence (kernel_run.run).
SameBefore(o) == inside.libs = run[o].seen.libs

Begin(o) ==
    /\ At(o, "collected")
    /\ run[o].kind = "none"
    /\ pod = run[o].pod
    /\ \E k \in Kinds, w \in Workloads :
        /\ k # "serving" => Accepted(pod.dep) /\ SameBefore(o)
        /\ run' = [run EXCEPT ![o].pc = IF k = "serving" THEN "steady" ELSE "warm",
                              ![o].kind = k, ![o].work = w,
                              ![o].events = IF k = "serving" THEN 0 ELSE inside.events]
    /\ Keep

\* Requests are answered by whatever process the container has now.
Answered(o) ==
    /\ pod.phase = "running"
    /\ served' = [served EXCEPT ![o] = @ \union
                    {[proc |-> pod.proc, in |-> inside]}]

\* generate(): the warmup requests with log probabilities, all of them complete.
Warmup(o) ==
    /\ At(o, "warm")
    /\ Answered(o)
    /\ To(o, IF run[o].kind = "kernel-profile" THEN "stop" ELSE "steady")
    /\ UNCHANGED <<world, disk, watch, started, reports>>

\* The report is written at the end of the requests, as awaiting what follows.
Writes(o, status) == disk' = [disk EXCEPT ![o] =
    [status |-> status, kind |-> run[o].kind, pod |-> run[o].pod, seen |-> run[o].seen,
     work |-> run[o].work, checked |-> FALSE]]

\* serving.run: the steady requests stream, none fails and the prefix state is
\* what the workload says.
Steady(o) ==
    /\ At(o, "steady")
    /\ Answered(o)
    /\ Writes(o, "awaiting")
    /\ To(o, "rehash")
    /\ UNCHANGED <<world, watch, started, reports>>

\* /stop_profile: explicit, or ended by itself, which the log must confirm.
StopProfile(o) ==
    /\ At(o, "stop")
    /\ Writes(o, "awaiting")
    /\ To(o, "rehash")
    /\ UNCHANGED <<world, served, watch, started, reports>>

\* A request, the telemetry, the profiler or the owner ends the run: the finally
\* block retains it as failed; a kill leaves nothing.
RunFails(o) ==
    /\ run[o].pc \in {"warm", "steady", "stop"}
    /\ Writes(o, "failed") \/ UNCHANGED disk
    /\ Ends(o, "dead")
    /\ served' = [served EXCEPT ![o] = {}]
    /\ UNCHANGED <<world, watch, started, reports>>

\* After the run the Pod is identified again,
Rehash(o) ==
    /\ At(o, "rehash")
    /\ pod.ready
    /\ run' = [run EXCEPT ![o].pc = "same", ![o].first = pod]
    /\ Keep

\* and the model hashed again; the Pod and the hashes are those of the evidence.
SameDeployment(o) == run[o].first.dep = run[o].pod.dep
SamePod(o) == run[o].first = run[o].pod

Same(o) ==
    /\ At(o, "same")
    /\ pod = run[o].first
    /\ IF SamePod(o) /\ inside.files = run[o].seen.files
       THEN /\ To(o, IF run[o].kind = "serving" THEN "look" ELSE "finish")
            /\ UNCHANGED <<disk, served>>
       ELSE /\ Ends(o, "dead")
            /\ disk' = IF SamePod(o) THEN [disk EXCEPT ![o].status = "failed"] ELSE disk
            /\ served' = [served EXCEPT ![o] = {}]
    /\ UNCHANGED <<world, watch, started, reports>>

\* finish(): the libraries and the memory events are probed again; of a profile
\* the traces of every rank and, when it ended by itself, the log are there. The
\* same libraries and limits, no memory event, VRAM observed.
SameAfter(o) == inside.libs = run[o].seen.libs /\ inside.events = run[o].events

Finish(o) ==
    /\ At(o, "finish")
    /\ IF SameAfter(o)
       THEN /\ disk' = [disk EXCEPT ![o].checked = TRUE]
            /\ To(o, "look")
            /\ UNCHANGED served
       ELSE /\ disk' = [disk EXCEPT ![o].status = "failed"]
            /\ Ends(o, "dead")
            /\ served' = [served EXCEPT ![o] = {}]
    /\ UNCHANGED <<world, watch, started, reports>>

\* The last look, for a kernel run; then the result is marked as measured.
LastLook(o) == run[o].kind # "serving" => pod = run[o].pod

Verified(o) ==
    /\ At(o, "look")
    /\ LastLook(o)
    /\ disk' = [disk EXCEPT ![o].status = "verified"]
    /\ Ends(o, "done")
    /\ UNCHANGED <<world, served, watch, started, reports>>

\* A check refuses, a probe fails or the owner interrupts: what is on disk stays.
Gives(o) ==
    /\ run[o].pc \notin {"new", "done", "dead", "warm", "steady", "stop"}
    /\ run[o].kind # "status"
    /\ Ends(o, "dead")
    /\ served' = [served EXCEPT ![o] = {}]
    /\ UNCHANGED <<world, disk, watch, started, reports>>

Measures(o) ==
    \/ Collect(o) \/ Hash(o) \/ Probe(o) \/ Begin(o) \/ Warmup(o) \/ Steady(o)
    \/ StopProfile(o) \/ RunFails(o) \/ Rehash(o) \/ Same(o) \/ Finish(o) \/ Verified(o) \/ Gives(o)

-----------------------------------------------------------------------------
(* A question: ws_serving_warm_status *)

\* What the answer was given for is kept with it.
Answer(o, answer) ==
    /\ run' = [run EXCEPT ![o] = [NoRun EXCEPT
                   !.pc = "done", !.kind = "status", !.answer = answer,
                   !.pod = IF answer = "ready" THEN run[o].pod ELSE NoPod,
                   !.seen = IF answer = "ready" THEN run[o].seen ELSE Nothing]]
    /\ Keep

\* pod_status: what the Pod says of itself, when it does not say Ready.
PodStatus(p) ==
    CASE p.phase = "crashed" /\ ~p.ready -> "unavailable"
      [] p.phase = "crashed" /\ p.ready -> "unknown"
      [] OTHER -> "model-loading"

\* The first look; a Ready Pod is asked for its evidence, like a measurement.
Looks(o) ==
    /\ At(o, "new")
    /\ IF pod.ready /\ pod.phase = "running"
       THEN /\ run' = [run EXCEPT ![o].pc = "collect", ![o].kind = "status", ![o].first = pod]
            /\ Keep
       ELSE Answer(o, PodStatus(pod))

\* No evidence, or evidence that evidence() does not accept.
NoEvidence(o) ==
    /\ run[o].kind = "status"
    /\ \/ run[o].pc \in {"collect", "hash", "probe", "dead"}
       \/ At(o, "collected") /\ run[o].pod = run[o].first /\ ~Accepted(run[o].pod.dep)
    /\ Answer(o, "unknown")

\* warm_status: the process and everything that identifies the runtime are those
\* of the warmup's result.
SameIdentity(a, b) == a.pod.dep = b.pod.dep /\ a.seen.files = b.seen.files
                                            /\ a.seen.libs = b.seen.libs
SameRuntime(o, w) == SameIdentity(run[o], w)
SameWarm(o, w) == SameIdentity(run[o], w) /\ run[o].pod.proc = w.pod.proc

WarmStatus(o, w) ==
    CASE w.status = "none" -> "healthy"
      [] w.status # "none" /\ w.kind # "kernel-warmup" -> "unknown"
      [] w.status # "none" /\ w.kind = "kernel-warmup" /\ ~SameWarm(o, w) -> "stale"
      [] OTHER -> CASE w.status = "verified" /\ w.checked -> "ready"
                    [] w.status = "failed" -> "healthy"
                    [] OTHER -> "unknown"

\* The evidence must be of the Pod of the first look; it is held against the
\* result of any run the owner names.
Replies(o) ==
    /\ At(o, "collected")
    /\ run[o].kind = "status"
    /\ IF run[o].pod # run[o].first THEN Answer(o, "stale")
       ELSE /\ Accepted(run[o].pod.dep)
            /\ \E t \in Owners : Answer(o, WarmStatus(o, disk[t]))

Asks(o) == Looks(o) \/ NoEvidence(o) \/ Replies(o)

-----------------------------------------------------------------------------
(* The observation of a start: ws_serving_startup, with and without --memory *)

Watches ==
    /\ watch = 0
    /\ pod.phase # "crashed"
    /\ ~pod.ready
    /\ watch' = pod.proc
    /\ UNCHANGED <<world, run, disk, served, started, reports>>

\* Polled until Ready; another process, or no process, ends it without a record.
SameStart == pod.proc = watch /\ pod.phase # "crashed"

Observed ==
    /\ watch # 0
    /\ IF SameStart
       THEN pod.ready /\ started' = started \union {pod.proc}
       ELSE UNCHANGED started
    /\ watch' = 0
    /\ UNCHANGED <<world, run, disk, served, reports>>

-----------------------------------------------------------------------------
(* Comparisons of results on disk: model_kernels compare, quality, seal-tuning *)

Warm(r) == r.status = "verified" /\ r.kind = "kernel-warmup"

Reports(kind, a, b) ==
    /\ reports' = {[kind |-> kind, a |-> a, b |-> b]}
    /\ UNCHANGED <<world, run, disk, served, watch, started>>

\* compare_quality: the same model, GPUs and packages; the kernels, a smaller
\* memory, or a complete experimental-KV candidate may be what differs. The
\* candidate may bring its image and its one library, which its descriptor names.
Comparable(kind, a, b) ==
    /\ a.checked /\ b.checked
    /\ a.work = b.work
    /\ a.seen.files = b.seen.files
    /\ CASE kind = "kernel" ->
               a.pod.dep.image = b.pod.dep.image /\ a.pod.dep.memory = b.pod.dep.memory
         [] kind = "memory" ->
               /\ SameIdentity(a, [b EXCEPT !.pod.dep.memory = a.pod.dep.memory])
               /\ b.pod.dep.memory < a.pod.dep.memory
         [] kind = "kv" ->
               /\ a.pod.dep.descriptor = "none" /\ CompleteCandidate(b.pod.dep)
               /\ a.pod.dep.memory = b.pod.dep.memory
               /\ a.seen.libs = b.seen.libs

Quality(a, b) ==
    /\ Warm(disk[a]) /\ Warm(disk[b])
    /\ \E k \in {"kernel", "memory", "kv"} :
        Comparable(k, disk[a], disk[b]) /\ Reports(k, a, b)

\* compare: two processes with one identity, and the start of each was observed.
Restarted(a, b) == a.pod.proc # b.pod.proc
StartsSeen(a, b) == {a.pod.proc, b.pod.proc} \subseteq started

Compare(a, b) ==
    /\ Warm(disk[a]) /\ Warm(disk[b])
    /\ SameIdentity(disk[a], disk[b])
    /\ Restarted(disk[a], disk[b])
    /\ StartsSeen(disk[a], disk[b])
    /\ Comparable("kernel", disk[a], disk[b])
    /\ Reports("reuse", a, b)

\* dispatch and seal_tuning: a tuning result is tied to a verified profile run.
AnyProfile(r) == r.kind = "kernel-profile"
Profiled(r) == r.status = "verified" /\ r.kind = "kernel-profile"

Tunes(o) == Profiled(disk[o]) /\ Reports("tuning", o, o)

-----------------------------------------------------------------------------
Next ==
    \/ World
    \/ \E o \in Owners : Measures(o) \/ Asks(o) \/ Tunes(o)
    \/ Watches \/ Observed
    \/ \E a, b \in Owners : Quality(a, b) \/ Compare(a, b)

Spec == Init /\ [][Next]_vars

-----------------------------------------------------------------------------
(* Properties *)

\* All that answered the requests of o is the process r was recorded for, with
\* its model files and, for a kernel run, its libraries and no memory event.
AnsweredBy(o, r) ==
    \A s \in served[o] :
        /\ s.proc = r.pod.proc
        /\ s.in.files = r.seen.files
        /\ r.kind # "serving" => s.in.libs = r.seen.libs

\* A result is marked as measured (performance.sh) only when every request of the
\* run was answered by the one process, model and libraries it names, although
\* the container may restart and files change at any moment in between.
OneProcess == \A o \in Owners :
    disk[o].status = "verified" =>
        /\ served[o] # {}
        /\ AnsweredBy(o, disk[o])
        /\ disk[o].kind # "serving" => \A s, t \in served[o] : s.in.events = t.in.events

\* "ready" is said (serving_runtime.warm_status) only of a process that itself
\* answered a whole, verified warmup with the model and the libraries it has.
ReadyIsWarm == \A o \in Owners :
    run[o].answer = "ready" =>
        \E t \in Owners \ {o} : Warm(disk[t]) /\ AnsweredBy(t, run[o])

\* A comparison (model_kernels.py) is only ever written of verified runs of one
\* workload and model; reuse is claimed of two processes whose starts were both
\* seen and which differ in nothing else.
ReportsStand == \A r \in reports :
    LET a == disk[r.a]
        b == disk[r.b]
    IN  /\ AnsweredBy(r.a, a) /\ AnsweredBy(r.b, b)
        /\ a.status = "verified" /\ b.status = "verified"
        /\ a.work = b.work /\ a.seen.files = b.seen.files
        /\ r.kind = "reuse" =>
            /\ a.pod.proc # b.pod.proc
            /\ {a.pod.proc, b.pod.proc} \subseteq started
            /\ a.pod.dep = b.pod.dep
        /\ r.kind = "memory" => b.pod.dep = [a.pod.dep EXCEPT !.memory = b.pod.dep.memory]

=============================================================================
