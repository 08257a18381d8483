------------------------------- MODULE Backup -------------------------------
(* lib/workstation/service_backup.py in its local-first mode: a capture stops
   every writer and then K3s, copies what they wrote and commits the copy to the
   backup SSD; replicate copies a recorded snapshot off-site; both report to one
   metrics file. The cluster goes on by itself, the owner resumes it, and other
   session transitions compete for the session lock, which the capture lends to
   its own switch to maintenance. Sizes, digests and archives are left out.  *)
EXTENDS Naturals, Sequences, FiniteSets, FiniteSetsExt

CONSTANTS
    Captures,    \* runs of capture, each with its own staging directory
    Earlier,     \* those committed before, which replicate may still copy
    Order,       \* the writers in the order they are stopped
    Gaming,      \* those the session owner starts and stops
    None,
    MaxFaults    \* bound on failures, kills and hands from outside

Writers == {Order[n] : n \in DOMAIN Order}

\* What the constants must satisfy; the run assumes it.
Allowed ==
    /\ Order \in Seq(Writers)
    /\ \A m, n \in DOMAIN Order : Order[m] = Order[n] => m = n
    /\ Gaming \in SUBSET Writers
    /\ Captures # {} /\ Earlier \in SUBSET Captures
    /\ Cardinality(Earlier) <= 1
    /\ None \notin [uid : Nat, replicas : {0, 1}]
    /\ MaxFaults \in Nat

VARIABLES
    pc,        \* where a capture or a replicate is
    out,       \* what it is about to report
    turn,      \* the writer a capture is at
    fresh,     \* captures whose Deployment is still as they read it
    journal,   \* the deployments of a capture's journal.json
    torn,      \* captures whose journal.json is open for writing
    lock,      \* holders of the session lock's descriptor
    child,     \* captures whose switch to maintenance runs
    asked,     \* replicas of a Deployment
    uid,       \* its identity
    seen,      \* the replicas its ReplicaSet controller acts on
    box,       \* its containers: none, with their Pod, or left without
    k3s,       \* K3s is active
    created,   \* created_at in the manifest of a capture, 0 for none
    snapshot,  \* captures in the local repository
    recorded,  \* captures with local-backup.json
    remote,    \* captures copied off-site
    offsite,   \* offsite-backup.json of a capture: none, temporary, or there
    metric,    \* the metrics file
    mlock,     \* holders of its lock
    read,      \* the metrics file as a report found it
    zeroed,    \* history: Deployments a capture took from one replica to zero
    late,      \* history: writers started behind the capture's back
    reported,  \* history: captures reported as a success, by stage
    faults

running == <<pc, out, turn, fresh, journal, torn, lock, child>>
cluster == <<asked, uid, seen, box, k3s>>
stored == <<created, snapshot, recorded, remote, offsite>>
telemetry == <<metric, mlock, read, reported>>
history == <<zeroed, late>>
vars == <<running, cluster, stored, telemetry, history, faults>>

Stages == {"local", "offsite"}
Procs == {"capture", "replicate"} \X Captures
Capture(c) == <<"capture", c>>
Replicate(c) == <<"replicate", c>>
Stage(p) == IF p[1] = "capture" THEN "local" ELSE "offsite"

Entries == [uid : Nat, replicas : {0, 1}] \union {None}
Quiescing == {"switching", "get", "opened", "journaled", "scaled", "cri"}
Copying == {"copy", "stop", "offline", "sealing", "sealed"}
Holding == {"locked", "planned"} \union Quiescing \union Copying \union {"snapped"}

NoReport == [s \in Stages |-> [time |-> 0, failed |-> FALSE]]

TypeOK ==
    /\ pc \in [Procs -> {"idle", "report", "reporting", "done"} \union Holding
                        \union {"copied", "temporary"}]
    /\ out \in [Procs -> {"ok", "failed"}]
    /\ turn \in [Captures -> 1..Len(Order) + 1]
    /\ fresh \in SUBSET Captures
    /\ journal \in [Captures -> [Writers -> Entries]]
    /\ torn \in SUBSET Captures
    /\ lock \in SUBSET (Procs \union ({"child"} \X Captures) \union {<<"session", None>>})
    /\ child \in SUBSET Captures
    /\ asked \in [Writers -> {0, 1}]
    /\ uid \in [Writers -> Nat]
    /\ seen \in [Writers -> {0, 1}]
    /\ box \in [Writers -> {"none", "pod", "left"}]
    /\ k3s \in BOOLEAN
    /\ created \in [Captures -> Nat]
    /\ snapshot \in SUBSET Captures
    /\ recorded \in SUBSET snapshot
    /\ remote \in SUBSET recorded
    /\ offsite \in [Captures -> {"none", "temporary", "there"}]
    /\ metric \in [Stages -> [time : Nat, failed : BOOLEAN]]
    /\ mlock \in SUBSET Procs
    /\ read \in [Procs -> [Stages -> [time : Nat, failed : BOOLEAN]]]
    /\ zeroed \in [Captures -> SUBSET (Writers \X Nat)]
    /\ late \in SUBSET Writers
    /\ reported \in [Stages -> SUBSET Captures]
    /\ faults \in 0..MaxFaults

Init ==
    /\ pc = [p \in Procs |-> IF p \in {Capture(c) : c \in Earlier} THEN "done" ELSE "idle"]
    /\ out = [p \in Procs |-> "failed"]
    /\ turn = [c \in Captures |-> 1]
    /\ fresh = {}
    /\ journal = [c \in Captures |-> [w \in Writers |-> None]]
    /\ torn = {} /\ lock = {} /\ child = {}
    /\ asked \in [Writers -> {0, 1}]
    /\ uid = [w \in Writers |-> 0]
    /\ seen = asked
    /\ box = [w \in Writers |-> IF asked[w] = 1 THEN "pod" ELSE "none"]
    /\ k3s = TRUE
    /\ created = [c \in Captures |-> IF c \in Earlier THEN 1 ELSE 0]
    /\ snapshot = Earlier /\ recorded = Earlier /\ remote = {}
    /\ offsite = [c \in Captures |-> "none"]
    /\ metric = [NoReport EXCEPT !["local"].time = Max({created[c] : c \in Captures})]
    /\ mlock = {} /\ read = [p \in Procs |-> NoReport]
    /\ zeroed = [c \in Captures |-> {}]
    /\ late = {}
    /\ reported = [s \in Stages |-> IF s = "local" THEN Earlier ELSE {}]
    /\ faults = 0

Goes(p, to) == pc' = [pc EXCEPT ![p] = to]

-----------------------------------------------------------------------------
(* capture: to the switch to maintenance *)

\* The canonical session lock, without waiting; a transition that has it makes
\* the capture fail.
Lock(c) ==
    /\ pc[Capture(c)] = "idle"
    /\ lock = {}
    /\ lock' = {Capture(c)}
    /\ late' = {}
    /\ Goes(Capture(c), "locked")
    /\ UNCHANGED <<out, turn, fresh, journal, torn, child, cluster, stored, telemetry, zeroed>>

\* gaming_writers_plan, and the first journal in the new directory.
Entry(w) == [uid |-> uid[w], replicas |-> asked[w]]

Plan(c) ==
    /\ pc[Capture(c)] = "locked"
    /\ k3s
    /\ journal' = [journal EXCEPT ![c] = [w \in Writers |-> IF w \in Gaming THEN Entry(w) ELSE None]]
    /\ Goes(Capture(c), "planned")
    /\ UNCHANGED <<out, turn, fresh, torn, lock, child, cluster, stored, telemetry, history>>

\* The switch to maintenance gets descriptor 3.
SwitchStarts(c) ==
    /\ pc[Capture(c)] = "planned"
    /\ child' = child \union {c}
    /\ lock' = lock \union {<<"child", c>>}
    /\ Goes(Capture(c), "switching")
    /\ UNCHANGED <<out, turn, fresh, journal, torn, cluster, stored, telemetry, history>>

\* A scale to zero: what had a replica is now for the journal to remember.
Zero(c, w) ==
    /\ asked' = [asked EXCEPT ![w] = 0]
    /\ zeroed' = [zeroed EXCEPT ![c] =
                    IF asked[w] = 1 THEN @ \union {<<w, uid[w]>>} ELSE @]

\* Its run, which refuses a Deployment that is not the recorded one. It goes on
\* when the capture that started it is killed.
SwitchScales(c) ==
    /\ c \in child
    /\ k3s
    /\ \E w \in Gaming :
        /\ asked[w] = 1
        /\ journal[c][w].uid = uid[w]
        /\ Zero(c, w)
        /\ fresh' = {d \in fresh : turn[d] > Len(Order) \/ Order[turn[d]] # w}
    /\ UNCHANGED <<pc, out, turn, journal, torn, lock, child, uid, seen, box, k3s, stored, telemetry, late>>

\* The lock belongs to the open file: closing one descriptor keeps it.
ChildOnly(c) == {<<"child", c>>}

SwitchEnds(c) ==
    /\ c \in child
    /\ \A w \in Gaming : asked[w] = 0 /\ box[w] = "none"
    /\ child' = child \ {c}
    /\ lock' = lock \ ChildOnly(c)
    /\ pc' = [pc EXCEPT ![Capture(c)] = IF @ = "switching" THEN "get" ELSE @]
    /\ UNCHANGED <<out, turn, fresh, journal, torn, cluster, stored, telemetry, history>>

\* capture()'s except clause: the lock is closed, then the failure is reported.
Fails(c) ==
    /\ pc' = [pc EXCEPT ![Capture(c)] = "report"]
    /\ out' = [out EXCEPT ![Capture(c)] = "failed"]
    /\ lock' = lock \ {Capture(c)}
    /\ fresh' = fresh \ {c}

LockRefused(c) ==
    /\ pc[Capture(c)] = "idle"
    /\ lock # {}
    /\ Fails(c)
    /\ UNCHANGED <<turn, journal, torn, child, cluster, stored, telemetry, history>>

SwitchFails(c) ==
    /\ c \in child
    /\ child' = child \ {c}
    /\ IF pc[Capture(c)] = "switching"
       THEN /\ pc' = [pc EXCEPT ![Capture(c)] = "report"]
            /\ out' = [out EXCEPT ![Capture(c)] = "failed"]
            /\ lock' = lock \ {Capture(c), <<"child", c>>}
       ELSE lock' = lock \ {<<"child", c>>} /\ UNCHANGED <<pc, out>>
    /\ UNCHANGED <<turn, fresh, journal, torn, cluster, stored, telemetry, history>>

-----------------------------------------------------------------------------
(* capture: scale_zero for each writer, stopped *)

At(c) == Order[turn[c]]

\* A Deployment already in the journal must be the planned one and keeps its
\* entry; the journal is opened for rewriting.
EntryAnew(c) == Entry(At(c))
FirstEntry(c) == IF journal[c][At(c)] = None THEN Entry(At(c)) ELSE journal[c][At(c)]

Planned(c) == journal[c][At(c)] # None => journal[c][At(c)].uid = uid[At(c)]

Get(c) ==
    /\ pc[Capture(c)] = "get"
    /\ turn[c] <= Len(Order)
    /\ Planned(c)
    /\ fresh' = fresh \union {c}
    /\ journal' = [journal EXCEPT ![c][At(c)] = FirstEntry(c)]
    /\ torn' = torn \union {c}
    /\ Goes(Capture(c), "opened")
    /\ UNCHANGED <<out, turn, lock, child, cluster, stored, telemetry, history>>

JournalWritten(c) ==
    /\ pc[Capture(c)] = "opened"
    /\ torn' = torn \ {c}
    /\ Goes(Capture(c), "journaled")
    /\ UNCHANGED <<out, turn, fresh, journal, lock, child, cluster, stored, telemetry, history>>

\* Only if the Deployment is still what was read.
AsRead(c) == c \in fresh

Scale(c) ==
    /\ pc[Capture(c)] = "journaled"
    /\ AsRead(c)
    /\ Zero(c, At(c))
    /\ fresh' = fresh \ {c}
    /\ Goes(Capture(c), "scaled")
    /\ UNCHANGED <<out, turn, journal, torn, lock, child, uid, seen, box, k3s, stored, telemetry, late>>

Gone(w) == box[w] # "pod"

Waited(c) ==
    /\ pc[Capture(c)] = "scaled"
    /\ Gone(At(c))
    /\ turn' = [turn EXCEPT ![c] = @ + 1]
    /\ Goes(Capture(c), "get")
    /\ UNCHANGED <<out, fresh, journal, torn, lock, child, cluster, stored, telemetry, history>>

\* stopped(): no Pod in the namespace, then no container in the runtime.
PodsGone(c) ==
    /\ pc[Capture(c)] = "get"
    /\ turn[c] > Len(Order)
    /\ \A w \in Writers : Gone(w)
    /\ Goes(Capture(c), "cri")
    /\ UNCHANGED <<out, turn, fresh, journal, torn, lock, child, cluster, stored, telemetry, history>>

PodsOnly == TRUE
NoContainer == \A w \in Writers : box[w] = "none"

Stopped(c) ==
    /\ pc[Capture(c)] = "cri"
    /\ NoContainer
    /\ Goes(Capture(c), "copy")
    /\ UNCHANGED <<out, turn, fresh, journal, torn, lock, child, cluster, stored, telemetry, history>>

\* scale_zero and stopped() refuse, or wait too long.
Refused(c) ==
    \/ pc[Capture(c)] = "locked" /\ ~k3s
    \/ pc[Capture(c)] = "get" /\ turn[c] <= Len(Order) /\ ~Planned(c)
    \/ pc[Capture(c)] = "journaled" /\ ~AsRead(c)
    \/ pc[Capture(c)] = "scaled" /\ ~Gone(At(c))
    \/ pc[Capture(c)] = "get" /\ turn[c] > Len(Order) /\ ~(\A w \in Writers : Gone(w))
    \/ pc[Capture(c)] = "cri" /\ ~NoContainer

\* Any call may fail at any point.
CaptureFails(c) ==
    /\ pc[Capture(c)] \in Holding \ {"switching"}
    /\ Fails(c)
    /\ UNCHANGED <<turn, journal, torn, child, cluster, stored, telemetry, history>>

-----------------------------------------------------------------------------
(* capture: the copies, and commit_local *)

\* The volumes are archived, then K3s is stopped.
StopK3s(c) ==
    /\ pc[Capture(c)] = "copy"
    /\ k3s' = FALSE
    /\ Goes(Capture(c), "offline")
    /\ UNCHANGED <<out, turn, fresh, journal, torn, lock, child, asked, uid, seen, box, stored, telemetry, history>>

\* Database, token and configuration are copied; the last journal is written.
Seal(c) ==
    /\ pc[Capture(c)] = "offline"
    /\ torn' = torn \union {c}
    /\ Goes(Capture(c), "sealing")
    /\ UNCHANGED <<out, turn, fresh, journal, lock, child, cluster, stored, telemetry, history>>

\* The manifest, whose time is the recovery point, and validate_capture.
Now == 1 + Max({created[c] : c \in Captures})

Manifest(c) ==
    /\ pc[Capture(c)] = "sealing"
    /\ torn' = torn \ {c}
    /\ created' = [created EXCEPT ![c] = Now]
    /\ Goes(Capture(c), "sealed")
    /\ UNCHANGED <<out, turn, fresh, journal, lock, child, cluster, snapshot, recorded, remote, offsite, telemetry, history>>

Snapshot(c) ==
    /\ pc[Capture(c)] = "sealed"
    /\ snapshot' = snapshot \union {c}
    /\ Goes(Capture(c), "snapped")
    /\ UNCHANGED <<out, turn, fresh, journal, torn, lock, child, cluster, created, recorded, remote, offsite, telemetry, history>>

\* local-backup.json; success is reported before the lock is closed.
RecordLocal(c) ==
    /\ pc[Capture(c)] = "snapped"
    /\ recorded' = recorded \union {c}
    /\ out' = [out EXCEPT ![Capture(c)] = "ok"]
    /\ Goes(Capture(c), "report")
    /\ UNCHANGED <<turn, fresh, journal, torn, lock, child, cluster, created, snapshot, remote, offsite, telemetry, history>>

-----------------------------------------------------------------------------
(* replicate: no lock of the session, any number of times *)

\* local-backup.json names a snapshot of this capture's manifest.
Committed(c) == c \in recorded

\* That ID is copied, or its copy is found.
Copy(c) ==
    /\ pc[Replicate(c)] = "idle"
    /\ Committed(c)
    /\ remote' = remote \union {c}
    /\ Goes(Replicate(c), "copied")
    /\ UNCHANGED <<out, turn, fresh, journal, torn, lock, child, cluster, created, snapshot, recorded, offsite, telemetry, history>>

\* write_record opens its temporary exclusively, and renames it.
OpenRecord(c) ==
    /\ pc[Replicate(c)] = "copied"
    /\ offsite[c] # "temporary"
    /\ offsite' = [offsite EXCEPT ![c] = "temporary"]
    /\ Goes(Replicate(c), "temporary")
    /\ UNCHANGED <<out, turn, fresh, journal, torn, lock, child, cluster, created, snapshot, recorded, remote, telemetry, history>>

RecordOffsite(c) ==
    /\ pc[Replicate(c)] = "temporary"
    /\ offsite' = [offsite EXCEPT ![c] = "there"]
    /\ out' = [out EXCEPT ![Replicate(c)] = "ok"]
    /\ Goes(Replicate(c), "report")
    /\ UNCHANGED <<turn, fresh, journal, torn, lock, child, cluster, created, snapshot, recorded, remote, telemetry, history>>

ReplicateEnds(c) ==
    /\ out' = [out EXCEPT ![Replicate(c)] = "failed"]
    /\ Goes(Replicate(c), "report")
    /\ UNCHANGED <<turn, fresh, journal, torn, lock, child, cluster, telemetry, history>>

\* A temporary left behind refuses every later record.
RecordRefused(c) ==
    /\ pc[Replicate(c)] = "copied"
    /\ offsite[c] = "temporary"
    /\ ReplicateEnds(c)
    /\ UNCHANGED stored

\* The copy fails, or its answer is lost; or the record cannot be written.
ReplicateFails(c) ==
    /\ \/ pc[Replicate(c)] = "idle" /\ Committed(c) /\ remote' \in {remote, remote \union {c}}
       \/ pc[Replicate(c)] \in {"copied", "temporary"} /\ UNCHANGED remote
    /\ ReplicateEnds(c)
    /\ UNCHANGED <<created, snapshot, recorded, offsite>>

-----------------------------------------------------------------------------
(* metrics: read, change and replace one file, under its lock *)

Unlocked == TRUE
LockFree == mlock = {}

ReportBegins(p) ==
    /\ pc[p] = "report"
    /\ LockFree
    /\ mlock' = mlock \union {p}
    /\ read' = [read EXCEPT ![p] = metric]
    /\ Goes(p, "reporting")
    /\ UNCHANGED <<out, turn, fresh, journal, torn, lock, child, cluster, stored, metric, reported, history>>

\* Freshness is the newest recovery point; a failure keeps it.
Newest(old, new) == IF new > old THEN new ELSE old

Reading(p) ==
    IF out[p] = "ok" THEN [time |-> Newest(read[p][Stage(p)].time, created[p[2]]), failed |-> FALSE]
    ELSE [time |-> read[p][Stage(p)].time, failed |-> TRUE]

ReportEnds(p) ==
    /\ pc[p] = "reporting"
    /\ metric' = [read[p] EXCEPT ![Stage(p)] = Reading(p)]
    /\ reported' = [reported EXCEPT ![Stage(p)] = IF out[p] = "ok" THEN @ \union {p[2]} ELSE @]
    /\ mlock' = mlock \ {p}
    /\ read' = [read EXCEPT ![p] = NoReport]
    /\ lock' = lock \ {p}
    /\ out' = [out EXCEPT ![p] = "failed"]
    /\ Goes(p, IF p[1] = "capture" THEN "done" ELSE "idle")
    /\ UNCHANGED <<turn, fresh, journal, torn, child, cluster, stored, history>>

-----------------------------------------------------------------------------
(* The environment *)

\* SIGKILL of the process. Its locks are closed; its switch, if any, runs on;
\* the unit's ExecStopPost (record-result) reports the failure.
Kill(p) ==
    /\ pc[p] \notin {"idle", "done"}
    /\ pc' = [pc EXCEPT ![p] = "report"]
    /\ out' = [out EXCEPT ![p] = "failed"]
    /\ lock' = lock \ {p}
    /\ mlock' = mlock \ {p}
    /\ read' = [read EXCEPT ![p] = NoReport]
    /\ fresh' = IF p[1] = "capture" THEN fresh \ {p[2]} ELSE fresh
    /\ UNCHANGED <<turn, journal, torn, child, cluster, stored, metric, reported, history>>

\* Any other write to a Deployment makes what a capture read of it stale.
Touched(w) == fresh' = {c \in fresh : turn[c] > Len(Order) \/ At(c) # w}

Past(c, w) ==
    \/ pc[Capture(c)] \in Copying \union {"cri"}
    \/ pc[Capture(c)] \in {"get", "opened", "journaled", "scaled"} /\ \E n \in 1..turn[c] - 1 : Order[n] = w
    \/ pc[Capture(c)] = "scaled" /\ At(c) = w
Behind(w) == late' = IF \E c \in Captures : Past(c, w) THEN late \union {w} ELSE late

\* The owner resumes an application, also one that a capture has just stopped,
\* and K3s when no capture is under way.
Resume(w) ==
    /\ k3s
    /\ w \notin Gaming
    /\ asked[w] = 0
    /\ asked' = [asked EXCEPT ![w] = 1]
    /\ Touched(w)
    /\ Behind(w)
    /\ UNCHANGED <<pc, out, turn, journal, torn, lock, child, uid, seen, box, k3s, stored, telemetry, zeroed>>

Idle == \A c \in Captures : pc[Capture(c)] \notin Holding

StartK3s ==
    /\ ~k3s
    /\ Idle
    /\ k3s' = TRUE
    /\ UNCHANGED <<running, asked, uid, seen, box, stored, telemetry, history>>

\* Another object under the same name.
Replace(w) ==
    /\ k3s
    /\ uid' = [uid EXCEPT ![w] = @ + 1]
    /\ Touched(w)
    /\ UNCHANGED <<pc, out, turn, journal, torn, lock, child, asked, seen, box, k3s, stored, telemetry, history>>

\* Another session transition: it takes the same lock and starts or stops a game.
SessionLock ==
    /\ lock = {}
    /\ lock' = {<<"session", None>>}
    /\ UNCHANGED <<pc, out, turn, fresh, journal, torn, child, cluster, stored, telemetry, history>>

SessionScales(w) ==
    /\ <<"session", None>> \in lock
    /\ k3s
    /\ w \in Gaming
    /\ asked' = [asked EXCEPT ![w] = 1 - @]
    /\ Touched(w)
    /\ UNCHANGED <<pc, out, turn, journal, torn, lock, child, uid, seen, box, k3s, stored, telemetry, history>>

SessionEnds ==
    /\ <<"session", None>> \in lock
    /\ lock' = lock \ {<<"session", None>>}
    /\ UNCHANGED <<pc, out, turn, fresh, journal, torn, child, cluster, stored, telemetry, history>>

\* The ReplicaSet controller sees a scale some time after it was made, and acts
\* on what it has seen. Without K3s nothing is started or stopped.
Sync(w) ==
    /\ k3s
    /\ seen[w] # asked[w]
    /\ seen' = [seen EXCEPT ![w] = asked[w]]
    /\ UNCHANGED <<running, asked, uid, box, k3s, stored, telemetry, history>>

PodStarts(w) ==
    /\ k3s
    /\ seen[w] = 1 /\ box[w] = "none"
    /\ box' = [box EXCEPT ![w] = "pod"]
    /\ late' = IF asked[w] = 0 THEN late \union {w} ELSE late
    /\ UNCHANGED <<running, asked, uid, seen, k3s, stored, telemetry, zeroed>>

PodEnds(w) ==
    /\ k3s
    /\ seen[w] = 0 /\ box[w] = "pod"
    /\ box' = [box EXCEPT ![w] = "none"]
    /\ UNCHANGED <<running, asked, uid, seen, k3s, stored, telemetry, history>>

\* A Pod is evicted, or is removed while its containers go on.
PodLost(w) ==
    /\ box[w] = "pod"
    /\ box' \in {[box EXCEPT ![w] = b] : b \in {"none", "left"}}
    /\ UNCHANGED <<running, asked, uid, seen, k3s, stored, telemetry, history>>

LeftEnds(w) ==
    /\ box[w] = "left"
    /\ box' = [box EXCEPT ![w] = "none"]
    /\ UNCHANGED <<running, asked, uid, seen, k3s, stored, telemetry, history>>

CaptureStep(c) ==
    \/ Lock(c) \/ LockRefused(c) \/ Plan(c) \/ SwitchStarts(c)
    \/ Get(c) \/ JournalWritten(c) \/ Scale(c) \/ Waited(c)
    \/ PodsGone(c) \/ Stopped(c) \/ (Refused(c) /\ CaptureFails(c))
    \/ StopK3s(c) \/ Seal(c) \/ Manifest(c) \/ Snapshot(c) \/ RecordLocal(c)

SwitchStep(c) == SwitchScales(c) \/ SwitchEnds(c)

ReplicateStep(c) == Copy(c) \/ OpenRecord(c) \/ RecordOffsite(c) \/ RecordRefused(c)

Owner ==
    \/ StartK3s \/ SessionLock \/ SessionEnds
    \/ \E w \in Writers : (Idle /\ Resume(w)) \/ SessionScales(w)

Cluster == \E w \in Writers : Sync(w) \/ PodStarts(w) \/ PodEnds(w) \/ LeftEnds(w)

Faulty ==
    \/ \E c \in Captures : CaptureFails(c) \/ SwitchFails(c) \/ ReplicateFails(c)
    \/ \E p \in Procs : Kill(p)
    \/ \E w \in Writers : Replace(w) \/ PodLost(w) \/ (~Idle /\ Resume(w))

Next ==
    \/ /\ \/ \E c \in Captures : CaptureStep(c) \/ SwitchStep(c) \/ ReplicateStep(c)
          \/ \E p \in Procs : ReportBegins(p) \/ ReportEnds(p)
          \/ Owner
          \/ Cluster
       /\ UNCHANGED faults
    \/ faults < MaxFaults /\ Faulty /\ faults' = faults + 1

Spec == Init /\ [][Next]_vars

-----------------------------------------------------------------------------
(* Properties *)

\* What is copied is not written meanwhile: from the first archive to the
\* manifest no container of a writer runs, unless the owner resumed it after the
\* capture had stopped it or its ReplicaSet controller had not seen the scale to zero
\* (docs/SERVICE-RECOVERY.md, Scope and consistency).
CopiesQuiet ==
    (\E c \in Captures : pc[Capture(c)] \in Copying) =>
        \A w \in Writers : box[w] # "none" => w \in late

\* What a capture took to zero replicas can be resumed as it was: its identity
\* and its one replica are in the journal, however the capture ended, unless it
\* was killed while it rewrote the file (scale_zero, "Persist the original
\* identity BEFORE a mutation").
JournalCovers ==
    \A c \in Captures \ torn : \A z \in zeroed[c] :
        journal[c][z[1]] = [uid |-> z[2], replicas |-> 1]

\* Freshness is the newest recovery point that was reported, for each stage:
\* reports of two runs neither lose one another nor go back in time
\* (docs/SERVICE-RECOVERY.md, "Repeating an old successful copy cannot refresh a
\* stale backup or replace a newer recovery point").
FreshnessExact ==
    \A s \in Stages :
        metric[s].time = Max({0} \union {created[c] : c \in reported[s]})
=============================================================================
