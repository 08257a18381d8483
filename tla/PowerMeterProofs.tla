-------------------------- MODULE PowerMeterProofs --------------------------
(* Proofs about PowerMeter for every set of samplers, power supplies and
   readings and every bound: the time covered is time the host was awake, and
   no published counter is taken back.

   Both follow from one inductive invariant. Honest ties every state - the
   file, what is on disk, what a sampler is about to save - to the clocks: in
   the boot of its anchor the monotonic clock and the time awake have advanced
   alike since, so an interval that counts adds exactly the time since the last
   accounted sample. Accounted says how far a sampler has come: what it holds
   is not older than the file, and what it may publish is on disk. The lock is
   what keeps both true of a sampler while another could run.              *)
EXTENDS PowerMeter, TLAPS

Active(s) == run[s].pc # "idle"

Linked(a) ==
    a.valid => /\ a.boot <= boot
               /\ a.boot = boot => mono - a.mono = awake - a.at

Honest(s) ==
    /\ s.covered <= s.upto /\ s.upto <= awake
    /\ s.anchor.valid => s.anchor.at = s.upto
    /\ Linked(s.anchor)

AllHonest ==
    /\ Honest(state) /\ Honest(disk)
    /\ \A s \in Samplers : Honest(run[s].new)

OneActive == \A s, t \in Samplers : Active(s) /\ Active(t) => s = t

Taken(s) ==
    /\ run[s].sample.valid => /\ run[s].pc = "read"
                              /\ Linked(run[s].sample) /\ run[s].sample.boot = boot
                              /\ state.upto <= run[s].sample.at /\ run[s].sample.at <= awake
    /\ ~Active(s) => run[s] = IdleRun

AtLeast(s, t) == t.covered <= s.covered /\ t.joules <= s.joules

Accounted(s) ==
    /\ run[s].pc = "save" => AtLeast(run[s].new, state)
    /\ run[s].pc = "sync" => run[s].new = state
    /\ run[s].energy => run[s].pc = "publish" /\ run[s].new = state /\ disk = state

Kept == AtLeast(state, disk) /\ AtLeast(disk, peak)

IInv ==
    /\ TypeOK
    /\ AllHonest
    /\ OneActive
    /\ \A s \in Samplers : Taken(s)
    /\ \A s \in Samplers : Accounted(s)
    /\ Kept

-----------------------------------------------------------------------------
\* The sum of what one interval adds is a natural number.
LEMMA Trapezoid ==
    ASSUME NEW a \in Nat, NEW b \in Nat, NEW e \in Nat
    PROVE  (a + b) * e \in Nat
<1>1. a + b \in Nat
  OBVIOUS
<1>2. \A m, n \in Nat : m * n \in Nat
  OBVIOUS
<1> QED
  BY <1>1, <1>2

\* advance (telemetry_power.py): the time an interval adds is a natural number.
LEMMA ElapsedNat ==
    ASSUME NEW old \in Sample, NEW new \in Sample
    PROVE  Elapsed(old, new) \in Nat
BY PowerAssumption DEF Elapsed, Counts, Continuous, Sample

\* advance: the next state is a state, and its counters are at least the old ones.
LEMMA AdvanceGrows ==
    ASSUME NEW s \in State, NEW new \in Sample
    PROVE  /\ Advance(s, new) \in State
           /\ AtLeast(Advance(s, new), s)
<1>1. Elapsed(s.anchor, new) \in Nat
  BY ElapsedNat DEF State
<1>2. s.anchor.watts \in Nat /\ new.watts \in Nat /\ s.anchor \in Sample
  BY DEF State, Sample
<1> DEFINE gain == (s.anchor.watts + new.watts) * Elapsed(s.anchor, new)
<1>3. gain \in Nat
  BY <1>1, <1>2, Trapezoid
<1>4. NextAnchor(s.anchor, new) \in Sample
  BY DEF NextAnchor, NoSample, Sample
<1>5. s.joules \in Nat /\ s.covered \in Nat
  BY DEF State
<1> HIDE DEF gain
<1>6. Advance(s, new) = [there |-> TRUE, joules |-> s.joules + gain,
                         covered |-> s.covered + Elapsed(s.anchor, new),
                         upto |-> new.at, anchor |-> NextAnchor(s.anchor, new)]
  BY DEF Advance, gain
<1>7. new.at \in Nat
  BY DEF Sample
<1> QED
  BY <1>1, <1>3, <1>4, <1>5, <1>6, <1>7 DEF State, AtLeast

\* advance: an honest state stays honest, for a sample of this boot that is not
\* older than the last accounted one, or for none.
LEMMA AdvanceHonest ==
    ASSUME TypeOK, NEW s \in State, NEW new \in Sample, Honest(s),
           s.upto <= new.at, new.at <= awake,
           new.valid => Linked(new) /\ new.boot = boot
    PROVE  Honest(Advance(s, new))
<1>1. s.anchor \in Sample /\ s.covered \in Nat /\ s.upto \in Nat /\ new.at \in Nat
  BY DEF State, Sample
<1>2. Elapsed(s.anchor, new) \in Nat
  BY <1>1, ElapsedNat
<1>3. s.covered + Elapsed(s.anchor, new) <= new.at
  <2>1. CASE Counts(s.anchor, new)
    <3>1. /\ s.anchor.valid /\ new.valid /\ s.anchor.boot = boot
      BY <2>1 DEF Counts, SameHost
    <3>2. mono - s.anchor.mono = awake - s.anchor.at /\ s.anchor.at = s.upto
      BY <3>1 DEF Honest, Linked
    <3>3. mono - new.mono = awake - new.at
      BY <3>1 DEF Linked
    <3>4. Elapsed(s.anchor, new) = new.mono - s.anchor.mono
      BY <2>1 DEF Elapsed
    <3>5. new.mono \in Nat /\ s.anchor.mono \in Nat /\ s.anchor.at \in Nat /\ mono \in Nat /\ awake \in Nat
      BY <1>1 DEF Sample, TypeOK
    <3> QED
      BY <1>1, <3>2, <3>3, <3>4, <3>5 DEF Honest
  <2>2. CASE ~Counts(s.anchor, new)
    BY <1>1, <2>2 DEF Elapsed, Honest
  <2> QED
    BY <2>1, <2>2
<1>4. NextAnchor(s.anchor, new) = IF new.valid THEN new ELSE NoSample
  BY DEF NextAnchor
<1> QED
  BY <1>3, <1>4 DEF Advance, Honest, Linked, NoSample

-----------------------------------------------------------------------------
(* What a sampler reads, and what it makes of it.                           *)

Taking(s) == IF run[s].sample.valid THEN run[s].sample ELSE [NoSample EXCEPT !.at = awake]

Reading(s) ==
    [IdleRun EXCEPT !.new = Advance(state, Taking(s)),
                    !.pc = IF ~state.there /\ ~Advance(state, Taking(s)).anchor.valid
                           THEN "publish" ELSE "save"]

\* ReadState in terms of these names.
LEMMA ReadStateRun ==
    ASSUME NEW s \in Samplers, ReadState(s)
    PROVE  run' = [run EXCEPT ![s] = Reading(s)]
BY DEF ReadState, Reading, Taking

\* The sample a sampler advances the state by, be it valid or not.
LEMMA TakingSample ==
    ASSUME TypeOK, NEW s \in Samplers
    PROVE  Taking(s) \in Sample
BY DEF TypeOK, Taking, Run, NoSample, Sample

\* Every step keeps the types.
LEMMA StepTypes ==
    ASSUME TypeOK, [Next]_vars
    PROVE  TypeOK'
<1> USE PowerAssumption
<1>1. CASE UNCHANGED vars
  BY <1>1 DEF TypeOK, vars
<1>2. CASE Tick
  BY <1>2 DEF Tick, TypeOK
<1>3. CASE WallJumps
  BY <1>3 DEF WallJumps, TypeOK
<1>4. CASE PsuChanges
  BY <1>4 DEF PsuChanges, clocks, TypeOK
<1>5. CASE Flush
  BY <1>5 DEF Flush, clocks, TypeOK
<1>6. CASE Restart
  <2>1. IdleRun \in Run
    BY DEF IdleRun, Run, Stages, NoSample, Sample, NoState, State
  <2> QED
    BY <1>6, <2>1 DEF Restart, TypeOK
<1>7. ASSUME NEW s \in Samplers, SamplerStep(s)
      PROVE  TypeOK'
  <2> DEFINE old == run[s]
  <2>1. old \in Run
    BY DEF TypeOK
  <2>2. CASE Begin(s)
    <3>1. [old EXCEPT !.pc = "watts"] \in Run
      BY <2>1 DEF Run, Stages
    <3> QED
      BY <2>2, <3>1 DEF Begin, clocks, TypeOK
  <2>3. CASE ReadWatts(s)
    <3>1. ASSUME NEW w \in Watts, psu # NoDevice,
                 run' = [run EXCEPT ![s].pc = "stamp", ![s].sample.device = psu,
                                    ![s].sample.watts = w]
          PROVE  TypeOK'
      <4>1. w \in Nat /\ psu \in Devices \cup {NoDevice}
        BY DEF TypeOK
      <4>2. old.sample \in Sample
        BY <2>1 DEF Run
      <4>3. [old.sample EXCEPT !.device = psu, !.watts = w] \in Sample
        BY <4>1, <4>2 DEF Sample
      <4>4. run' = [run EXCEPT ![s] = [old EXCEPT !.pc = "stamp",
                       !.sample = [old.sample EXCEPT !.device = psu, !.watts = w]]]
        BY <2>1, <3>1 DEF Run, Sample, TypeOK
      <4>5. [old EXCEPT !.pc = "stamp",
                 !.sample = [old.sample EXCEPT !.device = psu, !.watts = w]] \in Run
        BY <2>1, <4>3 DEF Run, Stages
      <4> QED
        BY <2>3, <4>4, <4>5 DEF ReadWatts, clocks, TypeOK
    <3>2. CASE run' = [run EXCEPT ![s].pc = "read"]
      <4>1. [old EXCEPT !.pc = "read"] \in Run
        BY <2>1 DEF Run, Stages
      <4> QED
        BY <2>3, <3>2, <4>1 DEF ReadWatts, clocks, TypeOK
    <3> QED
      BY <2>3, <3>1, <3>2 DEF ReadWatts
  <2>4. CASE Stamp(s)
    <3>1. NoSample \in Sample
      BY DEF NoSample, Sample
    <3>2. [old.sample EXCEPT !.valid = TRUE, !.boot = boot, !.wall = wall,
                             !.mono = mono, !.at = awake] \in Sample
      BY <2>1 DEF Run, Sample, TypeOK
    <3>3. ASSUME NEW x \in Sample, run' = [run EXCEPT ![s].pc = "read", ![s].sample = x]
          PROVE  TypeOK'
      <4>1. [old EXCEPT !.pc = "read", !.sample = x] \in Run
        BY <2>1, <3>3 DEF Run, Stages
      <4>2. run' = [run EXCEPT ![s] = [old EXCEPT !.pc = "read", !.sample = x]]
        BY <2>1, <3>3 DEF Run, TypeOK
      <4> QED
        BY <2>4, <4>1, <4>2 DEF Stamp, clocks, TypeOK
    <3> QED
      BY <2>4, <3>1, <3>2, <3>3 DEF Stamp
  <2>5. CASE ReadState(s)
    <3>1. Advance(state, Taking(s)) \in State
      BY TakingSample, AdvanceGrows DEF TypeOK
    <3>2. Reading(s) \in Run
      BY <3>1 DEF Reading, IdleRun, Run, Stages, NoSample, Sample, NoState, State
    <3> QED
      BY <2>5, <3>2, ReadStateRun DEF ReadState, clocks, TypeOK
  <2>6. CASE Save(s)
    <3>1. NoEnergy \in Run /\ [old EXCEPT !.pc = "sync"] \in Run /\ old.new \in State
      BY <2>1 DEF NoEnergy, IdleRun, Run, Stages, NoSample, Sample, NoState, State
    <3> QED
      BY <2>6, <3>1 DEF Save, clocks, TypeOK
  <2>7. CASE Sync(s)
    <3>1. NoEnergy \in Run /\ [old EXCEPT !.pc = "publish", !.energy = TRUE] \in Run
      BY <2>1 DEF NoEnergy, IdleRun, Run, Stages, NoSample, Sample, NoState, State
    <3>2. run' \in [Samplers -> Run]
      <4>1. CASE Synced(s)
        <5>1. run' = [run EXCEPT ![s] = [old EXCEPT !.pc = "publish", !.energy = TRUE]]
          BY <4>1 DEF Synced, TypeOK, Run
        <5> QED
          BY <3>1, <5>1 DEF TypeOK
      <4>2. CASE SyncFailed(s)
        BY <3>1, <4>2 DEF SyncFailed, TypeOK
      <4> QED
        BY <2>7, <4>1, <4>2 DEF Sync
    <3> QED
      BY <2>7, <3>2 DEF Sync, Synced, SyncFailed, clocks, TypeOK
  <2>8. CASE Publish(s)
    <3>1. [IdleRun EXCEPT !.pc = "settle"] \in Run
      BY DEF IdleRun, Run, Stages, NoSample, Sample, NoState, State
    <3>2. old.new.joules \in Nat /\ old.new.covered \in Nat
      BY <2>1 DEF Run, State
    <3> QED
      BY <2>8, <3>1, <3>2 DEF Publish, Larger, clocks, TypeOK
  <2>9. CASE Settle(s) \/ Stop(s)
    <3>1. IdleRun \in Run
      BY DEF IdleRun, Run, Stages, NoSample, Sample, NoState, State
    <3> QED
      BY <2>9, <3>1 DEF Settle, Stop, clocks, TypeOK
  <2> QED
    BY <1>7, <2>2, <2>3, <2>4, <2>5, <2>6, <2>7, <2>8, <2>9 DEF SamplerStep
<1> QED
  BY <1>1, <1>2, <1>3, <1>4, <1>5, <1>6, <1>7 DEF Next, HostStep

-----------------------------------------------------------------------------
(* One sampler at a time.                                                   *)

\* A sampler's step changes no other sampler's progress, and needs the lock:
\* either it held it already, or nobody did.
LEMMA StepLocked ==
    ASSUME TypeOK, OneActive, NEW s \in Samplers, SamplerStep(s)
    PROVE  /\ \A t \in Samplers \ {s} : run'[t] = run[t]
           /\ \A t \in Samplers \ {s} : ~Active(t)
<1>1. \A t \in Samplers \ {s} : run'[t] = run[t]
  BY DEF SamplerStep, Begin, ReadWatts, Stamp, ReadState, Save, Sync, Synced, SyncFailed,
         Publish, Settle, Stop, TypeOK
<1>2. Active(s) \/ LockFree(s)
  BY DEF SamplerStep, Begin, ReadWatts, Stamp, ReadState, Save, Sync, Publish, Settle, Stop, Active
<1> QED
  BY <1>1, <1>2 DEF OneActive, LockFree, Active

\* The lock keeps its meaning.
LEMMA StepOneActive ==
    ASSUME TypeOK, OneActive, [Next]_vars
    PROVE  OneActive'
<1>1. CASE UNCHANGED run
  BY <1>1 DEF OneActive, Active
<1>2. CASE Restart
  BY <1>2 DEF Restart, OneActive, Active, IdleRun
<1>3. ASSUME NEW s \in Samplers, SamplerStep(s)
      PROVE  OneActive'
  BY <1>3, StepLocked DEF OneActive, Active
<1> QED
  BY <1>1, <1>2, <1>3 DEF Next, HostStep, vars, Tick, WallJumps, PsuChanges, Flush

-----------------------------------------------------------------------------
(* Samples belong to this boot and are not older than the file.             *)

\* What is tied to the clocks stays tied to them while the host is up, and is
\* of an earlier boot once it restarts.
LEMMA ClocksKeepLinked ==
    ASSUME TypeOK, NEW a \in Sample, Linked(a),
           \/ Tick \/ Restart \/ UNCHANGED <<awake, mono, boot>>
    PROVE  Linked(a)'
<1> SUFFICES ASSUME a.valid
             PROVE  a.boot <= boot' /\ (a.boot = boot' => mono' - a.mono = awake' - a.at)
  BY DEF Linked
<1>1. /\ a.boot \in Nat /\ a.mono \in Nat /\ a.at \in Nat
      /\ awake \in Nat /\ mono \in Nat /\ boot \in Nat
      /\ a.boot <= boot /\ (a.boot = boot => mono - a.mono = awake - a.at)
  BY DEF TypeOK, Sample, Linked
<1>2. CASE Tick
  <2>1. awake' = awake + 1 /\ mono' = mono + 1 /\ boot' = boot
    BY <1>2 DEF Tick
  <2>2. (mono - a.mono = awake - a.at) => (mono + 1) - a.mono = (awake + 1) - a.at
    BY <1>1
  <2> QED
    BY <1>1, <2>1, <2>2
<1>3. CASE Restart
  <2>1. boot' = boot + 1
    BY <1>3 DEF Restart
  <2> QED
    BY <1>1, <2>1
<1>4. CASE UNCHANGED <<awake, mono, boot>>
  BY <1>1, <1>4
<1> QED
  BY <1>2, <1>3, <1>4

\* The same of a whole state.
LEMMA ClocksKeepHonest ==
    ASSUME TypeOK, NEW x \in State, Honest(x),
           \/ Tick \/ Restart \/ UNCHANGED <<awake, mono, boot>>
    PROVE  Honest(x)'
<1>1. x.anchor \in Sample /\ x.upto \in Nat /\ awake \in Nat
  BY DEF State, TypeOK
<1>2. Linked(x.anchor)'
  BY <1>1, ClocksKeepLinked DEF Honest
<1>3. awake <= awake'
  BY <1>1 DEF Tick, Restart
<1>4. awake' \in Nat
  BY <1>1 DEF Tick, Restart
<1> QED
  BY <1>1, <1>2, <1>3, <1>4 DEF Honest

\* A sampler's step leaves the clocks alone.
LEMMA SamplerLeavesClocks ==
    ASSUME NEW s \in Samplers, SamplerStep(s)
    PROVE  UNCHANGED clocks
BY DEF SamplerStep, Begin, ReadWatts, Stamp, ReadState, Save, Sync, Publish, Settle, Stop

\* A sampler at rest holds nothing.
LEMMA AtRest ==
    /\ IdleRun.pc = "idle" /\ ~IdleRun.energy
    /\ IdleRun.sample = NoSample /\ ~NoSample.valid
BY DEF IdleRun, NoSample

\* Every step keeps the samples in hand true to the boot and to the file.
LEMMA StepTaken ==
    ASSUME TypeOK, AllHonest, OneActive, \A s \in Samplers : Taken(s), [Next]_vars
    PROVE  \A s \in Samplers : Taken(s)'
<1>1. CASE UNCHANGED vars \/ WallJumps \/ PsuChanges \/ Flush
  BY <1>1 DEF vars, clocks, WallJumps, PsuChanges, Flush, Taken, Linked, Active
<1>2. CASE Tick
  <2> SUFFICES ASSUME NEW s \in Samplers
               PROVE  Taken(s)'
    OBVIOUS
  <2>1. run[s].sample \in Sample /\ awake \in Nat
    BY DEF TypeOK, Run
  <2>2. run[s].sample.valid => Linked(run[s].sample)'
    <3> DEFINE a == run[s].sample
    <3>1. run' = run
      BY <1>2 DEF Tick
    <3>2. /\ a.boot \in Nat /\ a.mono \in Nat /\ a.at \in Nat
          /\ awake \in Nat /\ mono \in Nat /\ boot \in Nat
      BY <2>1 DEF TypeOK, Sample
    <3> QED
      BY <1>2, <3>1, <3>2 DEF Tick, Taken, Linked
  <2> QED
    BY <1>2, <2>1, <2>2 DEF Tick, Taken, Active, Sample
<1>3. CASE Restart
  BY <1>3 DEF Restart, Taken, Active, IdleRun, NoSample
<1>4. ASSUME NEW s \in Samplers, SamplerStep(s)
      PROVE  \A t \in Samplers : Taken(t)'
  <2>1. UNCHANGED clocks
    BY <1>4, SamplerLeavesClocks
  <2>2. \A t \in Samplers \ {s} : run'[t] = run[t] /\ run[t] = IdleRun
    BY <1>4, StepLocked DEF Taken
  <2>3. ASSUME NEW t \in Samplers \ {s}
        PROVE  Taken(t)'
    <3>1. run'[t] = IdleRun
      BY <2>2
    <3>2. ~run'[t].sample.valid
      BY <3>1, AtRest
    <3> QED
      BY <3>1, <3>2 DEF Taken, Active
  <2>4. CASE Begin(s)
    BY <2>1, <2>3, <2>4 DEF Begin, Taken, Active, Linked, TypeOK, clocks, IdleRun, NoSample
  <2>5. CASE ReadWatts(s)
    <3>1. run[s].pc = "watts" /\ run[s] \in Run /\ run[s].sample \in Sample
      BY <2>5 DEF ReadWatts, TypeOK, Run
    <3>2. ~run[s].sample.valid
      BY <3>1 DEF Taken
    <3>3. ~run'[s].sample.valid /\ run'[s].pc # "idle"
      BY <2>5, <3>1, <3>2 DEF ReadWatts, TypeOK, Run, Sample
    <3> QED
      BY <2>3, <3>3 DEF Taken, Active
  <2>6. CASE Stamp(s)
    <3>1. run[s] \in Run /\ run[s].sample \in Sample /\ state.upto <= awake
      BY DEF TypeOK, Run, AllHonest, Honest
    <3>2. PICK known \in BOOLEAN :
             run' = [run EXCEPT ![s].pc = "read",
                        ![s].sample = IF known THEN [@ EXCEPT !.valid = TRUE, !.boot = boot,
                                          !.wall = wall, !.mono = mono, !.at = awake]
                                      ELSE NoSample]
      BY <2>6 DEF Stamp
    <3>3. run'[s].pc = "read"
      BY <3>1, <3>2 DEF TypeOK, Run
    <3>4. run'[s].sample.valid => /\ run'[s].sample.boot = boot /\ run'[s].sample.mono = mono
                                  /\ run'[s].sample.at = awake
      BY <3>1, <3>2 DEF TypeOK, Run, Sample, NoSample
    <3>5. awake \in Nat /\ mono \in Nat /\ boot \in Nat /\ UNCHANGED state
      BY <2>6 DEF TypeOK, Stamp
    <3> QED
      BY <2>1, <2>3, <3>1, <3>3, <3>4, <3>5 DEF Taken, Active, Linked, clocks
  <2>7. CASE ReadState(s)
    <3>1. run'[s] = Reading(s)
      BY <2>7, ReadStateRun DEF TypeOK
    <3>2. run'[s].sample = NoSample /\ run'[s].pc # "idle"
      BY <3>1 DEF Reading, IdleRun
    <3> QED
      BY <2>3, <3>2, AtRest DEF Taken, Active
  <2>8. CASE Save(s) \/ Sync(s)
    <3>1. run[s].pc # "read" /\ run[s] \in Run
      BY <2>8 DEF Save, Sync, TypeOK
    <3>2. ~run[s].sample.valid
      BY <3>1 DEF Taken
    <3>3. ~run'[s].sample.valid /\ run'[s].pc # "idle"
      BY <2>8, <3>1, <3>2 DEF Save, Sync, Synced, SyncFailed, TypeOK, Run, NoEnergy, IdleRun, NoSample
    <3> QED
      BY <2>3, <3>3 DEF Taken, Active
  <2>9. CASE Publish(s) \/ Settle(s) \/ Stop(s)
    <3>1. run'[s].sample = NoSample
      BY <2>9 DEF Publish, Settle, Stop, IdleRun, TypeOK
    <3>2. run'[s].pc = "idle" => run'[s] = IdleRun
      BY <2>9 DEF Publish, Settle, Stop, IdleRun, TypeOK
    <3> QED
      BY <2>3, <3>1, <3>2, AtRest DEF Taken, Active
  <2> QED
    BY <1>4, <2>4, <2>5, <2>6, <2>7, <2>8, <2>9 DEF SamplerStep
<1> QED
  BY <1>1, <1>2, <1>3, <1>4 DEF Next, HostStep

-----------------------------------------------------------------------------
(* States stay honest.                                                      *)

\* The absent state is honest: it covers nothing.
LEMMA NothingHonest ==
    ASSUME TypeOK
    PROVE  Honest(NoState)
BY DEF Honest, Linked, NoState, NoSample, TypeOK

\* What every step says of the clocks.
LEMMA StepClocks ==
    ASSUME [Next]_vars
    PROVE  Tick \/ Restart \/ UNCHANGED <<awake, mono, boot>>
BY SamplerLeavesClocks DEF Next, HostStep, WallJumps, PsuChanges, Flush, vars, clocks

\* Every state there is after a step was there before it, is the absent one, or
\* is what ReadState has made of the file.
LEMMA StepStates ==
    ASSUME TypeOK, [Next]_vars
    PROVE  /\ state' \in {state, disk} \cup {run[s].new : s \in Samplers}
           /\ disk' \in {state, disk}
           /\ \A t \in Samplers :
                 \/ run'[t].new = run[t].new
                 \/ run'[t].new = NoState
                 \/ ReadState(t) /\ run'[t].new = Advance(state, Taking(t))
<1>1. CASE UNCHANGED vars
  BY <1>1 DEF vars
<1>2. CASE HostStep
  BY <1>2 DEF HostStep, Tick, WallJumps, PsuChanges, Flush, Restart, IdleRun, clocks
<1>3. ASSUME NEW s \in Samplers, SamplerStep(s)
      PROVE  /\ state' \in {state, run[s].new}
             /\ disk' \in {state, disk}
             /\ \A t \in Samplers :
                   \/ run'[t].new = run[t].new
                   \/ run'[t].new = NoState
                   \/ ReadState(t) /\ run'[t].new = Advance(state, Taking(t))
  <2>1. state' \in {state, run[s].new} /\ disk' \in {state, disk}
    BY <1>3 DEF SamplerStep, Begin, ReadWatts, Stamp, ReadState, Save, Sync, Synced, SyncFailed,
                Publish, Settle, Stop
  <2>2. \A t \in Samplers \ {s} : run'[t] = run[t]
    BY <1>3 DEF SamplerStep, Begin, ReadWatts, Stamp, ReadState, Save, Sync, Synced, SyncFailed,
                Publish, Settle, Stop, TypeOK
  <2>3. CASE ReadState(s)
    <3>1. run'[s] = Reading(s)
      BY <2>3, ReadStateRun DEF TypeOK
    <3>2. run'[s].new = Advance(state, Taking(s))
      BY <3>1 DEF Reading, IdleRun
    <3> QED
      BY <2>1, <2>2, <2>3, <3>2
  <2>4. CASE Begin(s) \/ ReadWatts(s) \/ Stamp(s)
    <3>1. run'[s].new = run[s].new
      BY <2>4 DEF Begin, ReadWatts, Stamp, TypeOK, Run
    <3> QED
      BY <2>1, <2>2, <3>1
  <2>5. CASE Save(s) \/ Sync(s) \/ Publish(s) \/ Settle(s) \/ Stop(s)
    <3>1. run'[s].new = run[s].new \/ run'[s].new = NoState
      BY <2>5 DEF Save, Sync, Synced, SyncFailed, Publish, Settle, Stop, TypeOK, Run,
                  NoEnergy, IdleRun
    <3> QED
      BY <2>1, <2>2, <3>1
  <2> QED
    BY <1>3, <2>3, <2>4, <2>5 DEF SamplerStep
<1> QED
  BY <1>1, <1>2, <1>3 DEF Next

\* Every step keeps every state true to the clocks.
LEMMA StepHonest ==
    ASSUME TypeOK, AllHonest, \A s \in Samplers : Taken(s), [Next]_vars
    PROVE  AllHonest'
<1>1. TypeOK'
  BY StepTypes
<1>2. state \in State /\ disk \in State /\ \A t \in Samplers : run[t].new \in State
  BY DEF TypeOK, Run
<1>3. \A x \in State : Honest(x) => Honest(x)'
  BY StepClocks, ClocksKeepHonest
<1>4. Honest(NoState)'
  BY <1>1, <1>3, NothingHonest DEF NoState, State, NoSample, Sample
<1>5. ASSUME NEW t \in Samplers
      PROVE  /\ Advance(state, Taking(t)) \in State
             /\ Honest(Advance(state, Taking(t)))
  <2>1. state.upto <= Taking(t).at /\ Taking(t).at <= awake
    BY DEF Taken, Taking, AllHonest, Honest, NoSample, TypeOK
  <2>2. Taking(t).valid => Linked(Taking(t)) /\ Taking(t).boot = boot
    BY AtRest DEF Taken, Taking, NoSample
  <2> QED
    BY <1>2, <2>1, <2>2, TakingSample, AdvanceHonest, AdvanceGrows DEF AllHonest
<1>6. \E x \in State : state' = x /\ Honest(x)
  BY <1>2, StepStates DEF AllHonest
<1>7. \E x \in State : disk' = x /\ Honest(x)
  BY <1>2, StepStates DEF AllHonest
<1>8. ASSUME NEW t \in Samplers
      PROVE  \E x \in State : run'[t].new = x /\ Honest(x)
  <2>1. NoState \in State /\ Honest(NoState)
    BY NothingHonest DEF NoState, State, NoSample, Sample
  <2> QED
    BY <1>2, <1>5, <2>1, StepStates DEF AllHonest
<1>9. Honest(state)' /\ Honest(disk)'
  BY <1>3, <1>6, <1>7 DEF Honest, Linked
<1>10. ASSUME NEW t \in Samplers
       PROVE  Honest(run[t].new)'
  BY <1>3, <1>8 DEF Honest, Linked
<1> QED
  BY <1>9, <1>10 DEF AllHonest

-----------------------------------------------------------------------------
(* What was published is on disk.                                           *)

\* Every step keeps what a sampler may publish on disk, and what was published.
LEMMA StepKept ==
    ASSUME TypeOK, OneActive, \A s \in Samplers : Taken(s) /\ Accounted(s), Kept, [Next]_vars
    PROVE  Kept' /\ \A s \in Samplers : Accounted(s)'
<1>1. /\ state \in State /\ disk \in State /\ peak \in [joules : Nat, covered : Nat]
      /\ \A s \in Samplers : run[s] \in Run
  BY DEF TypeOK
<1>2. CASE UNCHANGED vars \/ Tick \/ WallJumps \/ PsuChanges
  BY <1>2 DEF vars, clocks, Tick, WallJumps, PsuChanges, Kept, Accounted, AtLeast
<1>3. CASE Flush
  <2>1. UNCHANGED <<state, run, peak>> /\ disk' = state
    BY <1>3 DEF Flush
  <2>2. AtLeast(state, peak) /\ AtLeast(state, state)
    BY <1>1 DEF Kept, AtLeast, State
  <2>3. Kept'
    BY <2>1, <2>2 DEF Kept, AtLeast
  <2>4. \A s \in Samplers : Accounted(s)'
    BY <2>1 DEF Accounted, AtLeast
  <2> QED
    BY <2>3, <2>4
<1>4. CASE Restart
  <2>1. state' = disk /\ disk' = disk /\ peak' = peak /\ \A s \in Samplers : run'[s] = IdleRun
    BY <1>4 DEF Restart
  <2>2. Kept'
    BY <1>1, <2>1 DEF Kept, AtLeast, State
  <2> QED
    BY <2>1, <2>2, AtRest DEF Accounted
<1>5. ASSUME NEW s \in Samplers, SamplerStep(s)
      PROVE  Kept' /\ \A t \in Samplers : Accounted(t)'
  <2>1. \A t \in Samplers \ {s} : run'[t] = run[t] /\ run[t] = IdleRun
    BY <1>5, StepLocked DEF Taken
  <2>2. ASSUME NEW t \in Samplers \ {s}
        PROVE  Accounted(t)'
    <3>1. run'[t] = IdleRun
      BY <2>1
    <3>2. run'[t].pc = "idle" /\ ~run'[t].energy
      BY <3>1, AtRest
    <3> QED
      BY <3>2 DEF Accounted
  <2>3. CASE Begin(s) \/ ReadWatts(s) \/ Stamp(s)
    <3>1. UNCHANGED <<state, disk, peak>>
      BY <2>3 DEF Begin, ReadWatts, Stamp
    <3>2. run[s].pc \in {"idle", "watts", "stamp"}
      BY <2>3 DEF Begin, ReadWatts, Stamp
    <3>3. ~run[s].energy
      BY <3>2 DEF Accounted
    <3>4. ~run'[s].energy /\ run'[s].pc \in {"watts", "stamp", "read"}
      BY <1>1, <2>3, <3>3 DEF Begin, ReadWatts, Stamp, TypeOK, Run
    <3> QED
      BY <2>2, <3>1, <3>4 DEF Kept, Accounted, AtLeast
  <2>4. CASE ReadState(s)
    <3>1. run'[s] = Reading(s)
      BY <2>4, ReadStateRun DEF TypeOK
    <3>2. AtLeast(Advance(state, Taking(s)), state)
      BY <1>1, TakingSample, AdvanceGrows
    <3>3. /\ run'[s].new = Advance(state, Taking(s)) /\ ~run'[s].energy
          /\ run'[s].pc \in {"publish", "save"}
      BY <3>1 DEF Reading, IdleRun
    <3>4. UNCHANGED <<state, disk, peak>>
      BY <2>4 DEF ReadState
    <3> QED
      BY <2>2, <3>2, <3>3, <3>4 DEF Kept, Accounted, AtLeast
  <2>5. CASE Save(s)
    <3>1. UNCHANGED <<disk, peak>> /\ run[s].pc = "save" /\ ~run[s].energy
      BY <2>5 DEF Save, Accounted
    <3>2. CASE state' = run[s].new /\ run' = [run EXCEPT ![s].pc = "sync"]
      <4>1. run'[s].pc = "sync" /\ run'[s].new = run[s].new /\ ~run'[s].energy
        BY <1>1, <3>1, <3>2 DEF TypeOK, Run
      <4>2. AtLeast(run[s].new, disk)
        BY <1>1, <3>1 DEF Accounted, Kept, AtLeast, State, Run
      <4> QED
        BY <2>2, <3>1, <3>2, <4>1, <4>2 DEF Kept, Accounted, AtLeast
    <3>3. CASE UNCHANGED state /\ run' = [run EXCEPT ![s] = NoEnergy]
      <4>1. run'[s].pc = "publish" /\ ~run'[s].energy
        BY <3>3 DEF NoEnergy, IdleRun, TypeOK
      <4> QED
        BY <2>2, <3>1, <3>3, <4>1 DEF Kept, Accounted, AtLeast
    <3> QED
      BY <2>5, <3>2, <3>3 DEF Save
  <2>6. CASE Sync(s)
    <3>1. UNCHANGED <<state, peak>> /\ run[s].pc = "sync" /\ run[s].new = state
      BY <2>6 DEF Sync, Accounted
    <3>2. CASE Synced(s)
      <4>1. /\ run'[s].pc = "publish" /\ run'[s].new = state /\ disk' = state
        BY <1>1, <3>1, <3>2 DEF Synced, TypeOK, Run
      <4>2. AtLeast(state, peak) /\ AtLeast(state, state)
        BY <1>1 DEF Kept, AtLeast, State
      <4> QED
        BY <2>2, <3>1, <4>1, <4>2 DEF Kept, Accounted, AtLeast
    <3>3. CASE SyncFailed(s)
      <4>1. run'[s].pc = "publish" /\ ~run'[s].energy /\ UNCHANGED disk
        BY <3>3 DEF SyncFailed, NoEnergy, IdleRun, TypeOK
      <4> QED
        BY <2>2, <3>1, <4>1 DEF Kept, Accounted, AtLeast
    <3> QED
      BY <2>6, <3>2, <3>3 DEF Sync
  <2>7. CASE Publish(s)
    <3>1. UNCHANGED <<state, disk>> /\ run'[s].pc = "settle" /\ ~run'[s].energy
      BY <2>7 DEF Publish, IdleRun, TypeOK
    <3>2. AtLeast(disk, peak')
      <4>1. CASE run[s].energy
        <5>1. run[s].new = state /\ disk = state
          BY <4>1 DEF Accounted
        <5>2. peak' = [joules |-> Larger(peak.joules, disk.joules),
                       covered |-> Larger(peak.covered, disk.covered)]
          BY <2>7, <4>1, <5>1 DEF Publish
        <5> QED
          BY <1>1, <5>2 DEF Kept, AtLeast, Larger, State
      <4>2. CASE ~run[s].energy
        BY <2>7, <4>2 DEF Publish, Kept
      <4> QED
        BY <4>1, <4>2
    <3> QED
      BY <2>2, <3>1, <3>2 DEF Kept, Accounted, AtLeast
  <2>8. CASE Settle(s)
    <3>1. UNCHANGED <<state, peak>> /\ disk' = state /\ run'[s] = IdleRun
      BY <2>8 DEF Settle, TypeOK
    <3>2. AtLeast(state, peak) /\ AtLeast(state, state)
      BY <1>1 DEF Kept, AtLeast, State
    <3>3. run'[s].pc = "idle" /\ ~run'[s].energy
      BY <3>1, AtRest
    <3> QED
      BY <2>2, <3>1, <3>2, <3>3 DEF Kept, Accounted, AtLeast
  <2>9. CASE Stop(s)
    <3>1. UNCHANGED <<state, disk, peak>> /\ run'[s] = IdleRun
      BY <2>9 DEF Stop, TypeOK
    <3>2. run'[s].pc = "idle" /\ ~run'[s].energy
      BY <3>1, AtRest
    <3> QED
      BY <2>2, <3>1, <3>2 DEF Kept, Accounted, AtLeast
  <2> QED
    BY <1>5, <2>3, <2>4, <2>5, <2>6, <2>7, <2>8, <2>9 DEF SamplerStep
<1> QED
  BY <1>2, <1>3, <1>4, <1>5 DEF Next, HostStep

-----------------------------------------------------------------------------
(* The theorems                                                             *)

\* The invariant holds at the start.
LEMMA Start ==
    ASSUME Init
    PROVE  IInv
<1>1. NoState \in State /\ IdleRun \in Run
  BY DEF NoState, State, NoSample, Sample, IdleRun, Run, Stages
<1>2. TypeOK
  BY <1>1, PowerAssumption DEF Init, TypeOK
<1>3. AllHonest
  BY <1>2, NothingHonest DEF Init, AllHonest, IdleRun
<1>4. OneActive /\ \A s \in Samplers : Taken(s) /\ Accounted(s)
  <2>1. \A s \in Samplers : run[s] = IdleRun
    BY DEF Init
  <2>2. ASSUME NEW s \in Samplers
        PROVE  run[s].pc = "idle" /\ ~run[s].energy /\ ~run[s].sample.valid
    BY <2>1, AtRest
  <2> QED
    BY <2>1, <2>2 DEF OneActive, Taken, Accounted, Active
<1>5. Kept
  BY DEF Init, Kept, AtLeast, NoState
<1> QED
  BY <1>2, <1>3, <1>4, <1>5 DEF IInv

\* Every step keeps it.
LEMMA Step ==
    ASSUME IInv, [Next]_vars
    PROVE  IInv'
<1>1. TypeOK'
  BY StepTypes DEF IInv
<1>2. AllHonest'
  BY StepHonest DEF IInv
<1>3. OneActive'
  BY StepOneActive DEF IInv
<1>4. \A s \in Samplers : Taken(s)'
  BY StepTaken DEF IInv
<1>5. Kept' /\ \A s \in Samplers : Accounted(s)'
  BY StepKept DEF IInv
<1> QED
  BY <1>1, <1>2, <1>3, <1>4, <1>5 DEF IInv

\* Every variable keeps its type (advance, Directory.energy and sample_once).
THEOREM TypeCorrect == Spec => []TypeOK
<1>1. IInv => TypeOK
  BY DEF IInv
<1> QED
  BY <1>1, Start, Step, PTL DEF Spec

\* The time the counter covers is time the host was awake, each instant at most
\* once (advance, with the lock of sample_once).
THEOREM CoversAwake == Spec => []AwakeOnce
<1>1. IInv => AwakeOnce
  BY DEF IInv, AllHonest, Honest, AwakeOnce
<1> QED
  BY <1>1, Start, Step, PTL DEF Spec

\* No published counter is taken back, by whatever is lost (Directory.write and
\* the order of sample_once).
THEOREM SurvivesLoss == Spec => []CounterSurvives
<1>1. ASSUME IInv
      PROVE  CounterSurvives
  <2>1. /\ peak.joules \in Nat /\ peak.covered \in Nat
        /\ state.joules \in Nat /\ state.covered \in Nat
        /\ disk.joules \in Nat /\ disk.covered \in Nat
    BY <1>1 DEF IInv, TypeOK, State
  <2>2. /\ peak.covered <= disk.covered /\ peak.joules <= disk.joules
        /\ disk.covered <= state.covered /\ disk.joules <= state.joules
    BY <1>1 DEF IInv, Kept, AtLeast
  <2>3. peak.covered <= state.covered /\ peak.joules <= state.joules
    BY <2>1, <2>2
  <2> QED
    BY <2>2, <2>3 DEF CounterSurvives
<1> QED
  BY <1>1, Start, Step, PTL DEF Spec
=============================================================================
