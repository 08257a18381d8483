------------------------------ MODULE Session ------------------------------
(***************************************************************************)
(* `workstationctl session switch` (lib/workstation/session.sh): a root     *)
(* command that hands the GPUs of one node from one Deployment to another.  *)
(* It is not a controller: several invocations may be started, the lock     *)
(* lets one run, and any of them may die between two steps.                 *)
(*                                                                         *)
(* Around it: the Kubernetes controllers and the kubelet, which act on a    *)
(* scale some time after it; the shared gateway, known only by the contract *)
(* of module Admission that boundary.py implements; and outside hands.      *)
(***************************************************************************)
EXTENDS Naturals, FiniteSets

CONSTANTS
    Runners,       \* invocations of the command
    NoRunner,
    Service,       \* SESSION_SERVICE_ENABLED
    Clients,       \* requests the gateway may have under way
    Limit,         \* the gateway's admission limit
    Model, NoModel,
    Asked,         \* the modes it is invoked with
    FaultKinds,    \* which of the faults below may happen
    MaxFaults      \* bound: how many of them happen

ASSUME SessionAssumption ==
    /\ NoRunner \notin Runners
    /\ Service \in BOOLEAN
    /\ NoModel # Model
    /\ Limit \in Nat
    /\ Asked \subseteq {"ai", "split", "gaming", "maintenance", "restore"}
    /\ MaxFaults \in Nat

VARIABLES
    lock,          \* who holds flock on <dir>/lock
    file,          \* state.json
    gate,          \* /run/workstation/build-inhibit exists
    run,           \* the next step of each invocation, and its locals
    replicas,      \* .spec.replicas
    genuine,       \* the Deployment still has the recorded uid
    wanted,        \* replicas of its ReplicaSet: follows .spec.replicas later
    pod,           \* its Pod, starting until it is ready
    lingering,     \* a process of a Pod already removed still has the GPU open
    open, busy,    \* the gateway, as in Admission
    early,         \* a stop returned while a ReplicaSet wanted a Pod (history)
    tampered,      \* an outside hand changed a Deployment (history)
    lifted,        \* since the gate was last written, it was lost with the power,
                   \* or removed by a run that was then cancelled (history)
    faults

owner == <<lock, run, file, gate>>
cluster == <<replicas, genuine, wanted, pod, lingering>>
gateway == <<open, busy>>
history == <<early, tampered, lifted, faults>>
vars == <<owner, cluster, gateway, history>>

Deployments == {"ai", "game", "image"}
Managed == IF Service THEN Deployments ELSE {"ai", "game"}
Modes == {"ai", "split", "gaming", "maintenance", "restore"}
Nobody == "none"
Snapshots == {"ai", "game", Nobody}
NoFile == [mode |-> Nobody, phase |-> "absent", previous |-> Nobody]
Files == [mode: Modes, phase: {"transition", "failed", "ready"}, previous: Snapshots]
            \union {NoFile}
Steps == {"inhibit", "record", "draining", "drained", "read", "scale0", "gone",
          "list", "scan", "starting", "candidate", "list2", "scan2", "scale1",
          "rollout", "admit", "commit", "release", "released", "settle", "trap", "failed"}

\* quick: the session is already in this mode; left: the Deployments still to
\* be stopped, later started; fresh: the one read last has not changed since.
Runs == [pc: Steps \union {"idle"}, mode: Modes, previous: Snapshots,
         quick: BOOLEAN, left: SUBSET Deployments, fresh: BOOLEAN]
NoRun == [pc |-> "idle", mode |-> "maintenance", previous |-> Nobody,
          quick |-> FALSE, left |-> {}, fresh |-> FALSE]

TypeOK ==
    /\ lock \in Runners \union {NoRunner}
    /\ file \in Files
    /\ gate \in BOOLEAN
    /\ run \in [Runners -> Runs]
    /\ replicas \in [Deployments -> {0, 1}]
    /\ genuine \in [Deployments -> BOOLEAN]
    /\ wanted \in [Deployments -> {0, 1}]
    /\ pod \in [Deployments -> {"none", "starting", "ready", "terminating"}]
    /\ lingering \subseteq Deployments
    /\ open \in {Model, NoModel}
    /\ busy \subseteq Clients
    /\ early \in BOOLEAN /\ tampered \in BOOLEAN /\ lifted \in BOOLEAN
    /\ faults \in 0 .. MaxFaults

Listed(d) == pod[d] # "none"
Holds(d) == Listed(d) \/ d \in lingering

\* The Deployment a mode selects, given the recorded snapshot.
Selected(mode, previous) ==
    CASE mode \in {"ai", "split"} -> "ai"
      [] mode = "gaming" -> "game"
      [] mode = "restore" -> previous
      [] OTHER -> Nobody
Targets(mode, previous) ==
    ({Selected(mode, previous)} \ {Nobody}) \union (IF mode = "split" THEN {"image"} ELSE {})
Desired(s) == Selected(run[s].mode, run[s].previous)
KeptNever(s) == FALSE                                  \* also after gaming
KeepsGate(s) == Desired(s) = "game"

\* Deployments are stopped and started in this order.
Unit(s) == IF "ai" \in run[s].left THEN "ai"
           ELSE IF "game" \in run[s].left THEN "game" ELSE "image"

RestNone(s) == {}                                      \* the first is the only one
Rest(s) == run[s].left \ {Unit(s)}

Adm == INSTANCE Admission WITH Requests <- Clients, Models <- {Model}

\* The gateway is told any phase but ready.
CloseNot == UNCHANGED gateway                          \* waits without closing
Close == Adm!SetOpen(NoModel)

Quiet == busy = {}

\* ws_session_gpu_free: no Pod requests GPUs, no process has one open.
NonePending == \A d \in Deployments : ~Listed(d)
FreeOfPods == NonePending                              \* Pods only, no descriptors
Free == \A d \in Deployments : ~Holds(d)

\* --resource-version of the last read still holds.
Fresh(s) == run[s].fresh

Conflict(s) == run[s].pc \in {"scale0", "scale1"} /\ ~Fresh(s)

\* At first at most one Deployment runs, nobody has recorded anything, and a
\* gateway, if there is one, has not been opened.
Init ==
    /\ lock = NoRunner
    /\ file = NoFile
    /\ gate = FALSE
    /\ run = [s \in Runners |-> NoRun]
    /\ \E before \in Snapshots :
          /\ replicas = [d \in Deployments |-> IF d = before THEN 1 ELSE 0]
          /\ pod = [d \in Deployments |-> IF d = before THEN "ready" ELSE "none"]
    /\ genuine = [d \in Deployments |-> TRUE]
    /\ wanted = replicas
    /\ lingering = {}
    /\ Adm!Init
    /\ early = FALSE /\ tampered = FALSE /\ lifted = FALSE
    /\ faults = 0

-----------------------------------------------------------------------------
(* Helpers of the steps                                                     *)

At(s, step) == run[s].pc = step
Go(s, step) == run' = [run EXCEPT ![s].pc = step]
Move(s, step) == Go(s, step) /\ UNCHANGED <<lock, file, gate, cluster, gateway, history>>

\* The process ends and the kernel drops its lock.
End(s) ==
    /\ run' = [run EXCEPT ![s] = NoRun]
    /\ lock' = NoRunner

\* A write to Deployment d, its status included, takes its resourceVersion.
Untouched(d) == [s \in Runners |-> [run[s] EXCEPT !.fresh = @ /\ Unit(s) # d]]

\* At most MaxFaults faults of the kinds allowed.
Fault(kind) ==
    /\ kind \in FaultKinds
    /\ faults < MaxFaults
    /\ faults' = faults + 1

-----------------------------------------------------------------------------
(* ws_session_switch                                                        *)

\* The snapshot a first run takes.
Running == IF replicas["ai"] = 1 THEN "ai" ELSE IF replicas["game"] = 1 THEN "game" ELSE Nobody

Before == IF file = NoFile THEN Running ELSE file.previous

\* With a recorded state its uids must match; without one they are recorded.
Admissible(mode) ==
    IF file = NoFile
    THEN /\ mode # "restore"
         /\ ~(replicas["ai"] = 1 /\ replicas["game"] = 1)
         /\ replicas["image"] = 0
         /\ genuine' = [d \in Deployments |-> TRUE]
    ELSE /\ \A d \in Managed : genuine[d]
         /\ UNCHANGED genuine

AsRecorded(mode, previous) ==
    \A d \in Managed : replicas[d] = IF d \in Targets(mode, previous) THEN 1 ELSE 0

LockFreeNoRetry == lock = NoRunner /\ file.phase # "failed"   \* failed stays failed
LockFree == lock = NoRunner

\* flock -n and the checks of lines 383 to 473, none of which changes anything.
Invoke(s, mode) ==
    /\ LockFree
    /\ At(s, "idle")
    /\ mode = "split" => Service
    /\ Admissible(mode)
    /\ lock' = s
    /\ LET quick == /\ ~Service
                    /\ file.phase = "ready" /\ file.mode = mode
                    /\ AsRecorded(mode, Before)
       IN  run' = [run EXCEPT ![s] =
                     [NoRun EXCEPT !.pc = IF quick THEN "read" ELSE "inhibit",
                                   !.mode = mode, !.previous = Before, !.quick = quick,
                                   !.left = IF quick THEN Managed \ Targets(mode, Before) ELSE {}]]
    /\ UNCHANGED <<file, gate, replicas, wanted, pod, lingering, gateway, history>>

Inhibit(s) ==
    /\ At(s, "inhibit")
    /\ gate' = TRUE
    /\ lifted' = FALSE
    /\ Go(s, "record")
    /\ UNCHANGED <<lock, file, cluster, gateway, early, tampered, faults>>

Recorded(s) ==
    [mode |-> run[s].mode, previous |-> run[s].previous, phase |-> "transition"]

Record(s) ==
    /\ At(s, "record")
    /\ file' = Recorded(s)
    /\ run' = [run EXCEPT ![s].pc = IF Service THEN "draining" ELSE "read",
                          ![s].left = Managed]
    /\ UNCHANGED <<lock, gate, cluster, gateway, history>>

\* service_session.py draining: close the gateway, then wait until it is quiet.
Draining(s) ==
    /\ At(s, "draining")
    /\ Close
    /\ Go(s, "drained")
    /\ UNCHANGED <<lock, file, gate, cluster, history>>

Drained(s) ==
    /\ At(s, "drained")
    /\ Quiet
    /\ Move(s, "read")

\* ws_session_stop, once for each Deployment left: read, scale to 0, wait until
\* no Pod of it is listed.
Read(s) ==
    /\ At(s, "read")
    /\ genuine[Unit(s)]
    /\ run' = [run EXCEPT ![s].pc = IF replicas[Unit(s)] = 0 THEN "gone" ELSE "scale0",
                          ![s].fresh = TRUE]
    /\ UNCHANGED <<lock, file, gate, cluster, gateway, history>>

Scale0(s) ==
    /\ At(s, "scale0")
    /\ Fresh(s)
    /\ replicas' = [replicas EXCEPT ![Unit(s)] = 0]
    /\ run' = [Untouched(Unit(s)) EXCEPT ![s].pc = "gone"]
    /\ UNCHANGED <<lock, file, gate, genuine, wanted, pod, lingering, gateway, history>>

\* The last stop of a quick run is followed by a look at the one that stays.
Gone(s) ==
    /\ At(s, "gone")
    /\ ~Listed(Unit(s))
    /\ early' = (early \/ wanted[Unit(s)] # 0)
    /\ LET stays == Rest(s) = {} /\ run[s].quick /\ Desired(s) # Nobody
       IN  run' = [run EXCEPT
                     ![s].pc = IF Rest(s) # {} THEN "read" ELSE IF stays THEN "rollout" ELSE "list",
                     ![s].left = IF stays THEN {Desired(s)} ELSE Rest(s),
                     ![s].fresh = FALSE]
    /\ UNCHANGED <<lock, file, gate, cluster, gateway, tampered, lifted, faults>>

\* ws_session_gpu_free, after the stops and again after the candidate was read.
List(s) ==
    /\ run[s].pc \in {"list", "list2"}
    /\ NonePending
    /\ Move(s, IF At(s, "list") THEN "scan" ELSE "scan2")

Scan(s) ==
    /\ run[s].pc \in {"scan", "scan2"}
    /\ Free
    /\ Move(s, IF At(s, "scan2") THEN "scale1"
               ELSE IF run[s].quick THEN "settle"
               ELSE IF Desired(s) = Nobody THEN "admit" ELSE "starting")

Starting(s) ==
    /\ At(s, "starting")
    /\ IF Service /\ Desired(s) = "ai" THEN Close ELSE UNCHANGED gateway
    /\ run' = [run EXCEPT ![s].pc = "candidate",
                          ![s].left = Targets(run[s].mode, run[s].previous)]
    /\ UNCHANGED <<lock, file, gate, cluster, history>>

\* The selected Deployment, then the images beside it, which get no second scan.
Candidate(s) ==
    /\ At(s, "candidate")
    /\ genuine[Unit(s)]
    /\ run' = [run EXCEPT ![s].pc = IF Unit(s) = "image" THEN "scale1" ELSE "list2",
                          ![s].fresh = TRUE]
    /\ UNCHANGED <<lock, file, gate, cluster, gateway, history>>

Scale1(s) ==
    /\ At(s, "scale1")
    /\ Fresh(s)
    /\ replicas[Unit(s)] = 0
    /\ replicas' = [replicas EXCEPT ![Unit(s)] = 1]
    /\ run' = [Untouched(Unit(s)) EXCEPT ![s].pc = "rollout"]
    /\ UNCHANGED <<lock, file, gate, genuine, wanted, pod, lingering, gateway, history>>

\* kubectl rollout status: the controller has seen the scale, and the Pod serves.
RolledOut(d) == wanted[d] = replicas[d] /\ (replicas[d] = 1 => pod[d] = "ready")

Rollout(s) ==
    /\ At(s, "rollout")
    /\ RolledOut(Unit(s))
    /\ run' = [run EXCEPT
                  ![s].pc = IF run[s].quick THEN "settle"
                            ELSE IF Rest(s) = {} THEN "admit" ELSE "candidate",
                  ![s].left = Rest(s)]
    /\ UNCHANGED <<lock, file, gate, cluster, gateway, history>>

\* The gateway opens for a served model; any other mode leaves it in maintenance.
Admit(s) ==
    /\ At(s, "admit")
    /\ Adm!SetOpen(IF Service /\ Desired(s) = "ai" THEN Model ELSE NoModel)
    /\ Go(s, "commit")
    /\ UNCHANGED <<lock, file, gate, cluster, history>>

Commit(s) ==
    /\ At(s, "commit")
    /\ file' = [file EXCEPT !.phase = "ready"]
    /\ Go(s, "release")
    /\ UNCHANGED <<lock, gate, cluster, gateway, history>>

Release(s) ==
    /\ At(s, "release")
    /\ gate' = (gate /\ KeepsGate(s))
    /\ Go(s, "released")
    /\ UNCHANGED <<lock, file, cluster, gateway, history>>

\* trap - EXIT INT TERM, and nothing is left to do.
Untrap(s) ==
    /\ At(s, "released")
    /\ End(s)
    /\ UNCHANGED <<file, gate, cluster, gateway, history>>

\* The end of a quick run: nothing is recorded, the gate is set again.
Settle(s) ==
    /\ At(s, "settle")
    /\ gate' = KeepsGate(s)
    /\ lifted' = FALSE
    /\ End(s)
    /\ UNCHANGED <<file, cluster, gateway, early, tampered, faults>>

-----------------------------------------------------------------------------
(* How a run fails                                                          *)

\* ws_die, or a failed command under set -e: the EXIT trap exists from the
\* record of the transition on.
Abort(s) ==
    IF run[s].quick \/ run[s].pc \in {"inhibit", "record"}
    THEN End(s)
    ELSE Go(s, "trap") /\ UNCHANGED lock

Refused(s) ==
    /\ \/ run[s].pc \in {"read", "candidate"} /\ ~genuine[Unit(s)]
       \/ Conflict(s)
       \/ At(s, "scale1") /\ replicas[Unit(s)] # 0
       \/ run[s].pc \in {"list", "list2"} /\ ~NonePending
       \/ run[s].pc \in {"scan", "scan2"} /\ ~Free
    /\ Abort(s)
    /\ UNCHANGED <<file, gate, cluster, gateway, history>>

\* The waits are bounded: 180 s, SESSION_TIMEOUT_SECONDS, the rollout timeout.
TimesOut(s) ==
    /\ \/ At(s, "drained") /\ ~Quiet
       \/ At(s, "gone") /\ Listed(Unit(s))
       \/ At(s, "rollout") /\ ~RolledOut(Unit(s))
    /\ Abort(s)
    /\ UNCHANGED <<file, gate, cluster, gateway, history>>

\* A call to the API, the gateway or the disk fails, or INT or TERM arrives.
Fail(s) ==
    /\ run[s].pc \in Steps \ {"trap", "failed"}
    /\ Fault("fail")
    /\ Abort(s)
    /\ lifted' = (lifted \/ (At(s, "released") /\ ~gate))
    /\ UNCHANGED <<file, gate, cluster, gateway, early, tampered>>

\* The trap asks the gateway to close, and a gateway out of reach is ignored;
\* but an address that cannot be resolved ends the trap, by ws_die's exit.
Trap(s) ==
    /\ At(s, "trap")
    /\ \/ /\ Service
          /\ Close
          /\ Go(s, "failed")
          /\ UNCHANGED <<lock, faults>>
       \/ /\ Go(s, "failed")
          /\ UNCHANGED <<lock, faults, gateway>>
       \/ /\ Service
          /\ Fault("fail")
          /\ End(s)
          /\ UNCHANGED gateway
    /\ UNCHANGED <<file, gate, cluster, early, tampered, lifted>>

MarkFailed(s) ==
    /\ At(s, "failed")
    /\ file' = [file EXCEPT !.phase = "failed"]
    /\ End(s)
    /\ UNCHANGED <<gate, cluster, gateway, history>>

\* SIGKILL of the command and its children, at any step.
Kill(s) ==
    /\ run[s].pc \in Steps
    /\ Fault("kill")
    /\ End(s)
    /\ UNCHANGED <<file, gate, cluster, gateway, early, tampered, lifted>>

-----------------------------------------------------------------------------
(* The cluster                                                              *)

\* The Deployment controller brings the ReplicaSet to .spec.replicas.
Sync(d) ==
    /\ wanted[d] # replicas[d]
    /\ wanted' = [wanted EXCEPT ![d] = replicas[d]]
    /\ run' = Untouched(d)
    /\ UNCHANGED <<lock, file, gate, replicas, genuine, pod, lingering, gateway, history>>

\* The ReplicaSet controller and the kubelet; they report to the Deployment.
PodMoves(d, from, to) ==
    /\ pod[d] = from
    /\ pod' = [pod EXCEPT ![d] = to]
    /\ run' = Untouched(d)
    /\ UNCHANGED <<lock, file, gate, replicas, genuine, wanted, lingering, gateway>>

PodCreate(d) == wanted[d] = 1 /\ PodMoves(d, "none", "starting") /\ UNCHANGED history
PodReady(d) == PodMoves(d, "starting", "ready") /\ UNCHANGED history
PodDelete(d) ==
    /\ wanted[d] = 0
    /\ \E from \in {"starting", "ready"} : PodMoves(d, from, "terminating")
    /\ UNCHANGED history
PodGone(d) == PodMoves(d, "terminating", "none") /\ UNCHANGED history

\* A Pod on its node is evicted or fails.
Evict(d) ==
    /\ Fault("evict")
    /\ \E from \in {"starting", "ready"} : PodMoves(d, from, "terminating")
    /\ UNCHANGED <<early, tampered, lifted>>

\* Its Pod object goes first, the process that holds the GPU some time later.
Lingers(d) ==
    /\ Fault("linger")
    /\ pod[d] = "terminating"
    /\ pod' = [pod EXCEPT ![d] = "none"]
    /\ lingering' = lingering \union {d}
    /\ UNCHANGED <<owner, replicas, genuine, wanted, gateway, early, tampered, lifted>>

LingerExits(d) ==
    /\ d \in lingering
    /\ lingering' = lingering \ {d}
    /\ UNCHANGED <<owner, replicas, genuine, wanted, pod, gateway, history>>

\* Somebody scales a managed Deployment, or replaces it by one of that name.
OutsideScale(d) ==
    /\ Fault("outside")
    /\ replicas' = [replicas EXCEPT ![d] = 1 - @]
    /\ tampered' = TRUE
    /\ run' = Untouched(d)
    /\ UNCHANGED <<lock, file, gate, genuine, wanted, pod, lingering, gateway, early, lifted>>

Replace(d) ==
    /\ Fault("outside")
    /\ genuine' = [genuine EXCEPT ![d] = FALSE]
    /\ tampered' = TRUE
    /\ run' = Untouched(d)
    /\ UNCHANGED <<lock, file, gate, replicas, wanted, pod, lingering, gateway, early, lifted>>

\* The API and state.json survive a power loss; /run and every process do not.
PowerLoss ==
    /\ Fault("reboot")
    /\ lock' = NoRunner
    /\ run' = [s \in Runners |-> NoRun]
    /\ gate' = FALSE
    /\ lifted' = TRUE
    /\ pod' = [d \in Deployments |-> CASE pod[d] = "ready" -> "starting"
                                       [] pod[d] = "terminating" -> "none"
                                       [] OTHER -> pod[d]]
    /\ lingering' = {}
    /\ Adm!Reset
    /\ UNCHANGED <<file, replicas, genuine, wanted, early, tampered>>

\* The gateway's own steps.
Serve ==
    /\ \/ \E c \in Clients : Adm!Begin(c) \/ Adm!Finish(c)
       \/ Adm!Reset
    /\ UNCHANGED <<owner, cluster, history>>

-----------------------------------------------------------------------------
Stop(s) == Draining(s) \/ Drained(s) \/ Read(s) \/ Scale0(s) \/ Gone(s) \/ List(s) \/ Scan(s)
Start(s) == Starting(s) \/ Candidate(s) \/ Scale1(s) \/ Rollout(s) \/ Admit(s)
Finish(s) == Commit(s) \/ Release(s) \/ Untrap(s) \/ Settle(s)
Step(s) ==
    \/ Inhibit(s) \/ Record(s) \/ Stop(s) \/ Start(s) \/ Finish(s)
    \/ Refused(s) \/ TimesOut(s) \/ Trap(s) \/ MarkFailed(s)

Control(d) == Sync(d) \/ PodCreate(d) \/ PodReady(d) \/ PodDelete(d) \/ PodGone(d)

Next ==
    \/ \E s \in Runners, mode \in Asked : Invoke(s, mode)
    \/ \E s \in Runners : Step(s) \/ Fail(s) \/ Kill(s)
    \/ \E d \in Managed : Control(d) \/ Evict(d) \/ Lingers(d) \/ LingerExits(d)
    \/ \E d \in Managed : OutsideScale(d) \/ Replace(d)
    \/ PowerLoss
    \/ Serve

Spec == Init /\ [][Next]_vars

\* A run never stops by itself, the cluster's controllers and the kubelet act on
\* what they see, work under way at the gateway ends (Admission), and the
\* operator, the one assumption that is not the code's, tries again.
Fairness ==
    /\ WF_vars(\E s \in Runners, mode \in Asked : Invoke(s, mode))
    /\ \A s \in Runners : WF_vars(Step(s))
    /\ \A d \in Managed : WF_vars(Control(d)) /\ WF_vars(LingerExits(d))
    /\ \A c \in Clients : WF_vars(Adm!Finish(c) /\ UNCHANGED <<owner, cluster, history>>)

FairSpec == Spec /\ Fairness
-----------------------------------------------------------------------------
(* Properties                                                               *)

Overlap == Holds("game") /\ (Holds("ai") \/ Holds("image"))

\* "Stop managed GPU workloads, verify pod exit and live DRM holders, then start
\* only the selected deployment" (session.sh:81): no Pod or left-over process of
\* the game exists together with one of the AI or image backends, but for a stop
\* that returned before the ReplicaSet controller had seen the last scale
\* (ws_session_stop looks at Pods only).
ExclusiveUnlessLag == early \/ tampered \/ ~Overlap

\* Runs never ask for the game and for the AI or image backends together,
\* whichever of them fails or is killed at which step (ws_session_switch).
NeverBothAsked ==
    tampered \/ replicas["game"] = 0 \/ (replicas["ai"] = 0 /\ replicas["image"] = 0)

\* The recorded session is a gaming session or one that is not finished.
Inhibiting ==
    \/ file.phase \in {"transition", "failed"}
    \/ file.phase = "ready" /\ Selected(file.mode, file.previous) = "game"

\* "managed builds inhibited during gaming or an incomplete transition"
\* (session.sh:337), the text of the marker itself; and the record of a failure
\* comes with the marker (session.sh:477). Two events lift it and leave the record
\* of the session: a loss of power, which empties /run, and a cancellation that
\* arrives between lines 507 and 508.
GateCoversUptime == Inhibiting => gate \/ lifted

\* A gateway is open only over a Deployment the session keeps scaled up: no
\* failed, killed or later run leaves it open over a stopped backend.
OpenIsServed == open = Model => tampered \/ replicas["ai"] = 1

\* A session recorded as ready is what the cluster was asked for.
ReadyIsDeployed ==
    file.phase = "ready" => tampered \/ AsRecorded(file.mode, file.previous)

\* With a gateway, a serving AI Pod begins to terminate with no request under
\* way, unless it was evicted or somebody scaled it (service_session.py).
DrainedFirst ==
    [][pod["ai"] = "ready" /\ pod'["ai"] = "terminating" /\ faults' = faults
          => tampered \/ busy = {}]_vars

\* The session that was active before the first run stays on record: no crash,
\* failure or retry makes `restore` restore something else (session.sh:477).
SnapshotKept == [][file # NoFile => file'.previous = file.previous]_vars

\* A run never scales a Deployment that is not the recorded one, also when it
\* is replaced between the read and the scale (ws_session_checked_deployment).
OnlyRecorded ==
    [][\A d \in Deployments :
          ~genuine[d] /\ replicas'[d] # replicas[d] => faults' # faults]_vars

\* "Failure or cancellation retains a failed state" (docs/AI-PERFORMANCE.md:226):
\* a run in its EXIT trap, if nothing kills it, ends with the failure recorded.
FailureRecorded ==
    [][\A s \in Runners :
          run[s].pc \in {"trap", "failed"} /\ run'[s].pc = "idle" => file'.phase = "failed"]_vars

\* If the cluster keeps to the timeouts from some time on and the operator tries
\* again, the session becomes ready, whatever failed before.
Recovers ==
    <>[][~ \E s \in Runners : TimesOut(s)]_vars => []<>(file.phase = "ready")
=============================================================================
