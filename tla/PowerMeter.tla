----------------------------- MODULE PowerMeter -----------------------------
(* The estimated energy counter (lib/workstation/telemetry_power.py) and the
   sampler that keeps it (sample_once of lib/workstation/telemetry_sample.py).
   A oneshot process takes a lock, reads the power supply's sensor and the
   clocks, advances the private state file, and only then publishes. The host
   may suspend, have its clock set, lose its power supply's sensor, lose power
   or kill the sampler at any step. Energy is kept doubled, so that the
   trapezoid of integer readings is an integer. Sensor discovery, the optional
   rails and the checks of file ownership and of the state's syntax (which end
   a sampler without effect) are left out.                                  *)
EXTENDS Integers

CONSTANTS
    Samplers,   \* processes that may run at the same time
    Devices,    \* power supplies that may be attached
    NoDevice,   \* none attached
    Watts,      \* what a sensor may read
    Walls,      \* what the wall clock may be set to
    MaxGap,     \* MAX_GAP_SECONDS
    Tolerance,  \* CLOCK_TOLERANCE_SECONDS
    MaxAwake,   \* bound on the time the host is up
    MaxBoots    \* bound on the boots

ASSUME PowerAssumption ==
    /\ NoDevice \notin Devices
    /\ Watts \subseteq Nat
    /\ Walls \subseteq Nat
    /\ MaxGap \in Nat
    /\ Tolerance \in Nat
    /\ MaxAwake \in Nat
    /\ MaxBoots \in Nat

VARIABLES
    awake,  \* history: how long the host has been up, over all boots
    mono,   \* the monotonic clock
    wall,   \* the wall clock
    boot,   \* which boot this is
    psu,    \* the attached power supply, or NoDevice
    state,  \* the state file
    disk,   \* the state file a power loss would leave
    run,    \* the samplers
    peak    \* history: the greatest counters the textfile ever carried

clocks == <<awake, mono, wall, boot>>
vars == <<awake, mono, wall, boot, psu, state, disk, run, peak>>

-----------------------------------------------------------------------------
(* Data. A sample is an anchor that may be invalid; `at` is the history of
   when it was taken, on the scale of awake. The state's `upto` is the history
   of the sample that was last accounted for. The textfile is what peak records.   *)

Sample == [valid : BOOLEAN, boot : Nat, device : Devices \cup {NoDevice},
           wall : Nat, mono : Nat, watts : Nat, at : Nat]
NoSample == [valid |-> FALSE, boot |-> 0, device |-> NoDevice,
             wall |-> 0, mono |-> 0, watts |-> 0, at |-> 0]

State == [there : BOOLEAN, joules : Nat, covered : Nat, upto : Nat, anchor : Sample]
NoState == [there |-> FALSE, joules |-> 0, covered |-> 0, upto |-> 0, anchor |-> NoSample]

Stages == {"idle", "watts", "stamp", "read", "save", "sync", "publish", "settle"}
Run == [pc : Stages, sample : Sample, new : State, energy : BOOLEAN]
IdleRun == [pc |-> "idle", sample |-> NoSample, new |-> NoState, energy |-> FALSE]

\* About to publish a textfile without the counters.
NoEnergy == [IdleRun EXCEPT !.pc = "publish"]

TypeOK ==
    /\ awake \in Nat /\ mono \in Nat /\ wall \in Nat /\ boot \in Nat
    /\ psu \in Devices \cup {NoDevice}
    /\ state \in State
    /\ disk \in State
    /\ run \in [Samplers -> Run]
    /\ peak \in [joules : Nat, covered : Nat]

-----------------------------------------------------------------------------
(* advance: what a sample makes of the state.                               *)

Abs(n) == IF n < 0 THEN -n ELSE n

SameHost(old, new) == old.boot = new.boot /\ old.device = new.device

\* No gap and no discontinuity: both clocks moved on, by at most MaxGap, and
\* by the same amount within the tolerance.
Continuous(old, new) ==
    LET elapsed == new.mono - old.mono
        walled == new.wall - old.wall
    IN  /\ elapsed \in 1..MaxGap
        /\ walled \in 1..MaxGap
        /\ Abs(elapsed - walled) <= Tolerance

Counts(old, new) == old.valid /\ new.valid /\ SameHost(old, new) /\ Continuous(old, new)

Elapsed(old, new) == IF Counts(old, new) THEN new.mono - old.mono ELSE 0

\* For the mutant that moves the anchor only after a gap.
KeepAnchor(old, new) == IF Counts(old, new) THEN old ELSE new

\* A valid sample always becomes the anchor; an invalid one leaves none.
NextAnchor(old, new) == IF new.valid THEN new ELSE NoSample

Advance(s, new) ==
    [there   |-> TRUE,
     joules  |-> s.joules + (s.anchor.watts + new.watts) * Elapsed(s.anchor, new),
     covered |-> s.covered + Elapsed(s.anchor, new),
     upto    |-> new.at,
     anchor  |-> NextAnchor(s.anchor, new)]

-----------------------------------------------------------------------------
(* The sampler                                                              *)

Init ==
    /\ awake = 0 /\ mono = 1 /\ wall \in Walls /\ boot = 1
    /\ psu \in Devices \cup {NoDevice}
    /\ state = NoState /\ disk = NoState
    /\ run = [s \in Samplers |-> IdleRun]
    /\ peak = [joules |-> 0, covered |-> 0]

\* For the mutant that takes no lock.
Unlocked(s) == TRUE

\* locked: LOCK_NB, so a sampler that finds the lock held exits at once.
LockFree(s) == \A t \in Samplers \ {s} : run[t].pc = "idle"

Begin(s) ==
    /\ run[s].pc = "idle"
    /\ LockFree(s)
    /\ run' = [run EXCEPT ![s].pc = "watts"]
    /\ UNCHANGED <<clocks, psu, state, disk, peak>>

\* collect reads the sensor, which may be absent, ambiguous or unreadable ...
ReadWatts(s) ==
    /\ run[s].pc = "watts"
    /\ \/ /\ psu # NoDevice
          /\ \E w \in Watts :
                run' = [run EXCEPT ![s].pc = "stamp", ![s].sample.device = psu,
                                   ![s].sample.watts = w]
       \/ run' = [run EXCEPT ![s].pc = "read"]
    /\ UNCHANGED <<clocks, psu, state, disk, peak>>

\* ... and then the clocks and the boot ID; without that ID the sample is not valid.
Stamp(s) ==
    /\ run[s].pc = "stamp"
    /\ \E known \in BOOLEAN :
          run' = [run EXCEPT ![s].pc = "read",
                     ![s].sample = IF known THEN [@ EXCEPT !.valid = TRUE, !.boot = boot, !.wall = wall,
                                                           !.mono = mono, !.at = awake]
                                            ELSE NoSample]
    /\ UNCHANGED <<clocks, psu, state, disk, peak>>

\* energy: without a state and without a sample nothing is written.
ReadState(s) ==
    /\ run[s].pc = "read"
    /\ LET sample == IF run[s].sample.valid THEN run[s].sample ELSE [NoSample EXCEPT !.at = awake]
           new == Advance(state, sample)
       IN  run' = [run EXCEPT ![s] =
             [IdleRun EXCEPT !.new = new,
                             !.pc = IF ~state.there /\ ~new.anchor.valid THEN "publish" ELSE "save"]]
    /\ UNCHANGED <<clocks, psu, state, disk, peak>>

\* write puts a complete temporary in place of the state. Whatever fails
\* before that leaves the state as it was and the energy unavailable.
Save(s) ==
    /\ run[s].pc = "save"
    /\ \/ /\ state' = run[s].new
          /\ run' = [run EXCEPT ![s].pc = "sync"]
       \/ /\ run' = [run EXCEPT ![s] = NoEnergy]
          /\ UNCHANGED state
    /\ UNCHANGED <<clocks, psu, disk, peak>>

\* The directory is synchronised; if that fails the energy is unavailable,
\* though the state has been replaced.
Synced(s) == disk' = state /\ run' = [run EXCEPT ![s].pc = "publish", ![s].energy = TRUE]
\* For the mutant that ignores the failure.
SyncIgnored(s) == run' = [run EXCEPT ![s].pc = "publish", ![s].energy = TRUE] /\ UNCHANGED disk
SyncFailed(s) == run' = [run EXCEPT ![s] = NoEnergy] /\ UNCHANGED disk

Sync(s) ==
    /\ run[s].pc = "sync"
    /\ Synced(s) \/ SyncFailed(s)
    /\ UNCHANGED <<clocks, psu, state, peak>>

Larger(m, n) == IF m < n THEN n ELSE m

\* The textfile is replaced and can be read, with the counters or without
\* them; the directory is synchronised again. A write that fails before that
\* keeps the earlier textfile, like a sampler that stops.
Publish(s) ==
    /\ run[s].pc = "publish"
    /\ IF run[s].energy
       THEN peak' = [joules  |-> Larger(peak.joules, run[s].new.joules),
                     covered |-> Larger(peak.covered, run[s].new.covered)]
       ELSE UNCHANGED peak
    /\ run' = [run EXCEPT ![s] = [IdleRun EXCEPT !.pc = "settle"]]
    /\ UNCHANGED <<clocks, psu, state, disk>>

Settle(s) ==
    /\ run[s].pc = "settle"
    /\ disk' = state
    /\ run' = [run EXCEPT ![s] = IdleRun]
    /\ UNCHANGED <<clocks, psu, state, peak>>

\* The sampler is killed, or fails outside the state file; its lock is released.
Stop(s) ==
    /\ run[s].pc # "idle"
    /\ run' = [run EXCEPT ![s] = IdleRun]
    /\ UNCHANGED <<clocks, psu, state, disk, peak>>

-----------------------------------------------------------------------------
(* The host                                                                 *)

Tick ==
    /\ awake < MaxAwake
    /\ awake' = awake + 1 /\ mono' = mono + 1 /\ wall' = wall + 1
    /\ UNCHANGED <<boot, psu, state, disk, run, peak>>

\* The host slept (the wall clock went on, the monotonic one did not) or its
\* clock was set.
WallJumps ==
    /\ \E w \in Walls : wall' = w
    /\ UNCHANGED <<awake, mono, boot, psu, state, disk, run, peak>>

PsuChanges ==
    /\ \E d \in Devices \cup {NoDevice} : psu' = d
    /\ UNCHANGED <<clocks, state, disk, run, peak>>

\* The file system writes the replaced name out on its own.
Flush ==
    /\ disk' = state
    /\ UNCHANGED <<clocks, psu, state, run, peak>>

\* Power is lost, or the host restarts: what is on disk remains.
Restart ==
    /\ boot < MaxBoots
    /\ boot' = boot + 1 /\ mono' = 1
    /\ \E w \in Walls : wall' = w
    /\ state' = disk
    /\ run' = [s \in Samplers |-> IdleRun]
    /\ UNCHANGED <<awake, psu, disk, peak>>

SamplerStep(s) ==
    \/ Begin(s) \/ ReadWatts(s) \/ Stamp(s) \/ ReadState(s)
    \/ Save(s) \/ Sync(s) \/ Publish(s) \/ Settle(s) \/ Stop(s)

HostStep == Tick \/ WallJumps \/ PsuChanges \/ Flush \/ Restart

Next == HostStep \/ \E s \in Samplers : SamplerStep(s)

Spec == Init /\ [][Next]_vars

-----------------------------------------------------------------------------
(* Properties                                                               *)

\* The time a state says it covers is time the host was really awake, each
\* instant at most once: never more than the host had been up when the last
\* sample was taken, whatever clocks jumped, reboots, lost saves and stopped
\* samplers lie behind it ("Reboots, missing readings, suspend/clock
\* discontinuities ... do not contribute").
AwakeOnce ==
    \A s \in {state, disk} : s.covered <= s.upto /\ s.upto <= awake

\* No counter a reader has seen is ever taken back: the state, and what a
\* power loss would leave of it, is at least all that was ever published
\* ("It durably saves the counters before publishing them").
CounterSurvives ==
    \A s \in {state, disk} :
        peak.covered <= s.covered /\ peak.joules <= s.joules
=============================================================================
