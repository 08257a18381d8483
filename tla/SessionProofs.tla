--------------------------- MODULE SessionProofs ---------------------------
(***************************************************************************)
(* Proofs about module Session.  The invariant names, for each step of a    *)
(* run, what its earlier steps have established; the run can rely on it for *)
(* as long as it holds the lock.                                            *)
(***************************************************************************)
EXTENDS Session, TLAPS

Stopping == {"draining", "drained", "read", "scale0", "gone"}
Stopped == {"list", "scan", "starting"}
StartsNext == {"candidate", "list2", "scan2", "scale1"}
Shut == {"drained", "read", "scale0", "gone", "rollout", "admit"} \union Stopped \union StartsNext
QuickSteps == {"read", "scale0", "gone", "list", "scan", "rollout", "settle"}
TargetsOf(s) == Targets(run[s].mode, run[s].previous)

\* The recorded state is the one the run works on, and the gate is set from
\* Inhibit to Release, and in the trap unless the run released it first; a quick
\* run has found the session ready in its mode.
Owns(s) ==
    run[s].pc # "idle" =>
        /\ lock = s
        /\ file # NoFile => run[s].previous = file.previous
        /\ run[s].mode = "split" => Service
        /\ IF run[s].quick
           THEN /\ run[s].pc \in QuickSteps /\ ~Service
                /\ file.phase = "ready" /\ file.mode = run[s].mode
           ELSE /\ run[s].pc \notin {"inhibit", "released"} => gate \/ lifted
                /\ run[s].pc \notin {"inhibit", "record"} =>
                       file # NoFile /\ file.mode = run[s].mode
                /\ run[s].pc \in {"release", "released"} => file.phase = "ready"
                /\ run[s].pc \notin {"inhibit", "record", "release", "released", "trap", "failed"} =>
                       file.phase = "transition"
                /\ run[s].pc # "settle"

\* What the run has read and not seen change is the recorded Deployment.
Knows(s) ==
    /\ run[s].pc \in {"scale0", "list2", "scan2", "scale1"}
    /\ run[s].fresh
    => genuine[Unit(s)]

\* What is left to start is part of what the mode selects; a quick run stops
\* nothing of it.
Starts(s) ==
    /\ run[s].quick /\ run[s].pc \in Stopping => run[s].left \intersect TargetsOf(s) = {}
    /\ run[s].pc = "starting" => TargetsOf(s) # {}
    /\ run[s].pc \in StartsNext \/ (run[s].pc = "rollout" /\ ~run[s].quick) =>
          run[s].left # {} /\ run[s].left \subseteq TargetsOf(s)

\* The Deployments not asked for, step by step, unless somebody interferes.
Progress(s) ==
    /\ run[s].pc \in Stopping => \A d \in Managed \ run[s].left : replicas[d] = 0
    /\ run[s].pc = "gone" => replicas[Unit(s)] = 0
    /\ run[s].pc \in Stopped => \A d \in Managed : replicas[d] = 0
    /\ run[s].pc \in StartsNext =>
          \A d \in Deployments \ (TargetsOf(s) \ run[s].left) : replicas[d] = 0
    /\ run[s].pc = "rollout" =>
          \A d \in Deployments \ (TargetsOf(s) \ Rest(s)) : replicas[d] = 0
Proceeds(s) == tampered \/ run[s].quick \/ Progress(s)

\* A Deployment nobody asks for has no Pod, and no process is left of one.
Idle(d) == replicas[d] = 0 /\ wanted[d] = 0 /\ pod[d] = "none"
Off(d) == Idle(d) /\ d \notin lingering

\* What the stops have emptied, unless one of them looked too early.
Emptied(s) ==
    /\ run[s].pc \in Stopping => \A d \in Managed \ run[s].left : Idle(d)
    /\ run[s].pc \in Stopped => \A d \in Managed : Idle(d)
    /\ run[s].pc = "starting" => lingering = {}
    /\ run[s].pc \in StartsNext => \A d \in Deployments \ (TargetsOf(s) \ run[s].left) : Off(d)
    /\ run[s].pc = "rollout" => \A d \in Deployments \ (TargetsOf(s) \ Rest(s)) : Off(d)
Empties(s) == early \/ tampered \/ run[s].quick \/ Emptied(s)

\* What the starts have asked for.
Deployed(s) ==
    /\ run[s].pc \in StartsNext => \A d \in TargetsOf(s) \ run[s].left : replicas[d] = 1
    /\ run[s].pc = "rollout" => \A d \in TargetsOf(s) \ Rest(s) : replicas[d] = 1
    /\ run[s].pc \in {"admit", "commit"} => AsRecorded(run[s].mode, run[s].previous)
Deploys(s) == tampered \/ run[s].quick \/ Deployed(s)

\* The gateway stays closed from the drain to the last phase.
Shuts(s) == run[s].pc \in Shut => open = NoModel

RunInv(s) ==
    /\ Owns(s) /\ Knows(s) /\ Starts(s) /\ Proceeds(s)
    /\ Empties(s) /\ Deploys(s) /\ Shuts(s)

UnmanagedOff == \A d \in Deployments \ Managed : Off(d)
NoGateway == ~Service => open = NoModel

\* The game, or the two others, are off: no controller brings them back.
Apart == early \/ tampered \/ Off("game") \/ (Off("ai") /\ Off("image"))

Standing ==
    /\ UnmanagedOff /\ NoGateway
    /\ NeverBothAsked /\ Apart
    /\ OpenIsServed /\ ReadyIsDeployed

IInv ==
    /\ TypeOK
    /\ \A s \in Runners : RunInv(s)
    /\ GateCoversUptime
    /\ Standing

-----------------------------------------------------------------------------
(* What a step does to the runs                                             *)

\* The locals a run keeps to its end.
Keeps(s) ==
    run'[s].mode = run[s].mode /\ run'[s].previous = run[s].previous /\ run'[s].quick = run[s].quick

\* What a mode selects: Deployments, never the game with another, and images
\* only with the service.
LEMMA TargetsType ==
    ASSUME NEW mode \in Modes, NEW before \in Snapshots
    PROVE  /\ Targets(mode, before) \subseteq Deployments
           /\ "game" \in Targets(mode, before) => Targets(mode, before) = {"game"}
           /\ "image" \in Targets(mode, before) => mode = "split"
           /\ Selected(mode, before) # Nobody => Targets(mode, before) # {}
  BY DEF Targets, Selected, Modes, Snapshots, Nobody, Deployments

\* Outside the stops, the starts and the commit a run relies on nothing.
LEMMA AsideRun ==
    ASSUME NEW s \in Runners,
           run'[s].pc \in {"idle", "inhibit", "record", "settle", "release", "released", "trap", "failed"}
    PROVE  Knows(s)' /\ Starts(s)' /\ Proceeds(s)' /\ Empties(s)' /\ Deploys(s)' /\ Shuts(s)'
  BY DEF Knows, Starts, Proceeds, Progress, Empties, Emptied, Deploys, Deployed, Shuts, Shut,
         Stopping, Stopped, StartsNext

\* An idle run satisfies its part of the invariant.
LEMMA IdleRun ==
    ASSUME NEW s \in Runners, run'[s].pc = "idle"
    PROVE  RunInv(s)'
  BY AsideRun DEF RunInv, Owns

\* While one run is active, the others are idle: they would hold the lock too.
LEMMA OthersIdle ==
    ASSUME IInv, NEW s \in Runners, run[s].pc # "idle"
    PROVE  \A t \in Runners : t # s => run[t].pc = "idle"
  BY DEF IInv, RunInv, Owns

\* A step of the active run s that leaves the others as they are.
LEMMA OthersKept ==
    ASSUME IInv, NEW s \in Runners, run[s].pc # "idle",
           \A t \in Runners : t # s => run'[t].pc = run[t].pc,
           RunInv(s)'
    PROVE  \A t \in Runners : RunInv(t)'
  BY OthersIdle, IdleRun

\* Go changes the step of one run and nothing else.
LEMMA GoFrame ==
    ASSUME TypeOK, NEW s \in Runners, NEW step \in Steps, Go(s, step)
    PROVE  /\ run' \in [Runners -> Runs]
           /\ \A t \in Runners : t # s => run'[t].pc = run[t].pc
           /\ run'[s].pc = step /\ Keeps(s)
           /\ run'[s].left = run[s].left /\ run'[s].fresh = run[s].fresh
<1>1. run \in [Runners -> Runs]
  BY DEF TypeOK
<1>2. run' = [run EXCEPT ![s] = [run[s] EXCEPT !.pc = step]]
  BY DEF Go
<1>3. [run[s] EXCEPT !.pc = step] \in Runs
  BY <1>1 DEF Runs
<1> QED BY <1>1, <1>2, <1>3 DEF Keeps, Runs

\* End returns one run to where it began.
LEMMA EndFrame ==
    ASSUME TypeOK, NEW s \in Runners, End(s)
    PROVE  /\ run' \in [Runners -> Runs]
           /\ \A t \in Runners : t # s => run'[t].pc = run[t].pc
           /\ run'[s].pc = "idle"
  BY DEF End, TypeOK, NoRun, Runs, Modes, Snapshots, Nobody

\* A write to Deployment d only makes what some run knows of it stale.
LEMMA UntouchedFrame ==
    ASSUME TypeOK, NEW d \in Deployments, run' = Untouched(d)
    PROVE  /\ run' \in [Runners -> Runs]
           /\ \A t \in Runners :
                 /\ run'[t].pc = run[t].pc /\ Keeps(t) /\ run'[t].left = run[t].left
                 /\ run'[t].fresh => run[t].fresh /\ Unit(t) # d
<1>1. run \in [Runners -> Runs]
  BY DEF TypeOK
<1>2. ASSUME NEW t \in Runners
      PROVE  /\ run'[t] = [run[t] EXCEPT !.fresh = run[t].fresh /\ Unit(t) # d]
             /\ run'[t] \in Runs
  BY <1>1 DEF Untouched, Runs
<1>3. run' \in [Runners -> Runs]
  BY <1>2 DEF Untouched
<1> QED BY <1>1, <1>2, <1>3 DEF Keeps, Runs

\* A scale by run s: Deployment d is written, and s moves on.
LEMMA UntouchedGoFrame ==
    ASSUME TypeOK, NEW s \in Runners, NEW d \in Deployments, NEW step \in Steps,
           run' = [Untouched(d) EXCEPT ![s].pc = step]
    PROVE  /\ run' \in [Runners -> Runs]
           /\ \A t \in Runners : t # s => run'[t].pc = run[t].pc
           /\ run'[s].pc = step /\ Keeps(s)
           /\ run'[s].left = run[s].left
           /\ run'[s].fresh => run[s].fresh /\ Unit(s) # d
<1>1. run \in [Runners -> Runs]
  BY DEF TypeOK
<1>2. ASSUME NEW t \in Runners
      PROVE  /\ Untouched(d)[t] = [run[t] EXCEPT !.fresh = run[t].fresh /\ Unit(t) # d]
             /\ Untouched(d)[t] \in Runs
  BY <1>1 DEF Untouched, Runs
<1>3. DOMAIN Untouched(d) = Runners
  BY DEF Untouched
<1>4. [Untouched(d)[s] EXCEPT !.pc = step] \in Runs
  BY <1>2 DEF Runs
<1>5. \A t \in Runners : run'[t] = IF t = s THEN [Untouched(d)[s] EXCEPT !.pc = step]
                                            ELSE Untouched(d)[t]
  BY <1>2, <1>3
<1>6. run' \in [Runners -> Runs]
  <2>1. \A t \in Runners : run'[t] \in Runs
    BY <1>2, <1>4, <1>5
  <2>2. run' = [t \in Runners |-> run'[t]]
    BY <1>3
  <2> QED BY <2>1, <2>2
<1>7. /\ run'[s] = [Untouched(d)[s] EXCEPT !.pc = step]
      /\ \A t \in Runners : t # s => run'[t] = Untouched(d)[t]
  BY <1>5
<1>8. ASSUME NEW t \in Runners
      PROVE  /\ Untouched(d)[t].pc = run[t].pc
             /\ Untouched(d)[t].mode = run[t].mode
             /\ Untouched(d)[t].previous = run[t].previous
             /\ Untouched(d)[t].quick = run[t].quick
             /\ Untouched(d)[t].left = run[t].left
             /\ Untouched(d)[t].fresh = (run[t].fresh /\ Unit(t) # d)
  <2>1. run[t] \in Runs
    BY <1>1
  <2> QED BY <2>1, <1>2 DEF Runs
<1>9. \A t \in Runners : t # s => run'[t].pc = run[t].pc
  BY <1>7, <1>8
<1>10. /\ run'[s].pc = step
       /\ run'[s].mode = run[s].mode /\ run'[s].previous = run[s].previous
       /\ run'[s].quick = run[s].quick /\ run'[s].left = run[s].left
       /\ run'[s].fresh = (run[s].fresh /\ Unit(s) # d)
  <2>1. run'[s] = [Untouched(d)[s] EXCEPT !.pc = step] /\ Untouched(d)[s] \in Runs
    BY <1>2, <1>7
  <2>2. /\ run'[s].pc = step
        /\ run'[s].mode = Untouched(d)[s].mode /\ run'[s].previous = Untouched(d)[s].previous
        /\ run'[s].quick = Untouched(d)[s].quick /\ run'[s].left = Untouched(d)[s].left
        /\ run'[s].fresh = Untouched(d)[s].fresh
    BY <2>1 DEF Runs
  <2> QED BY <2>2, <1>8
<1> QED BY <1>6, <1>9, <1>10 DEF Keeps

\* A step that leaves the Deployments alone and opens no gateway.
LEMMA StandingKept ==
    ASSUME Standing, UNCHANGED <<replicas, wanted, pod, lingering>>,
           open' \in {open, NoModel}, early => early', tampered => tampered',
           file' = file \/ file'.phase # "ready"
    PROVE  Standing'
  BY SessionAssumption DEF Standing, UnmanagedOff, NoGateway, NeverBothAsked, Apart, Off, Idle,
                           OpenIsServed, ReadyIsDeployed, AsRecorded

\* The invariant of the whole, from that of the active run.
LEMMA ActiveRunStep ==
    ASSUME IInv, NEW s \in Runners, run[s].pc # "idle",
           \A t \in Runners : t # s => run'[t].pc = run[t].pc,
           TypeOK', Owns(s)', Knows(s)', Starts(s)', Proceeds(s)',
           Empties(s)', Deploys(s)', Shuts(s)', GateCoversUptime', Standing'
    PROVE  IInv'
<1>1. RunInv(s)'
  BY DEF RunInv
<1>2. \A t \in Runners : RunInv(t)'
  BY <1>1, OthersKept
<1> QED BY <1>2 DEF IInv

\* A step that ends the active run, whatever it leaves behind.
LEMMA EndStep ==
    ASSUME IInv, NEW s \in Runners, run[s].pc # "idle", End(s),
           UNCHANGED <<replicas, wanted, pod, lingering, early, tampered>>, open' \in {open, NoModel},
           file' = file \/ file'.phase # "ready", TypeOK', GateCoversUptime'
    PROVE  IInv'
<1>1. \A t \in Runners : t # s => run'[t].pc = run[t].pc
  BY EndFrame DEF IInv
<1>2. RunInv(s)'
  BY EndFrame, IdleRun DEF IInv
<1>3. \A t \in Runners : RunInv(t)'
  BY <1>1, <1>2, OthersKept
<1>4. Standing'
  BY StandingKept DEF IInv
<1> QED BY <1>3, <1>4 DEF IInv

\* A run that aborts, before its trap is set or into it.
LEMMA AbortStep ==
    ASSUME IInv, NEW s \in Runners, run[s].pc \notin {"idle", "trap", "failed"}, Abort(s),
           UNCHANGED <<file, gate, cluster, gateway, early, tampered>>,
           lifted => lifted', run[s].pc = "released" => gate \/ lifted',
           run' \in [Runners -> Runs] /\ lock' \in Runners \union {NoRunner} => TypeOK'
    PROVE  IInv'
<1> USE DEF IInv
<1>0. UNCHANGED <<replicas, genuine, wanted, pod, lingering>> /\ open' \in {open, NoModel}
  BY DEF cluster, gateway
<1>1. GateCoversUptime'
  BY DEF GateCoversUptime, Inhibiting
<1>2. CASE run[s].quick \/ run[s].pc \in {"inhibit", "record"}
  <2>1. End(s)
    BY <1>2 DEF Abort
  <2>2. TypeOK'
    BY <2>1, EndFrame DEF End
  <2> QED BY <1>0, <1>1, <2>1, <2>2, EndStep
<1>3. CASE ~(run[s].quick \/ run[s].pc \in {"inhibit", "record"})
  <2>1. Go(s, "trap") /\ lock' = lock /\ "trap" \in Steps
    BY <1>3 DEF Abort, Steps
  <2>2. TypeOK'
    BY <2>1, GoFrame DEF TypeOK
  <2>3. Owns(s)'
    BY <1>3, <2>1, GoFrame DEF Owns, RunInv, Keeps
  <2>4. Knows(s)' /\ Starts(s)' /\ Proceeds(s)' /\ Empties(s)' /\ Deploys(s)' /\ Shuts(s)'
    BY <2>1, GoFrame, AsideRun
  <2>5. Standing'
    BY <1>0, StandingKept
  <2>6. \A t \in Runners : t # s => run'[t].pc = run[t].pc
    BY <2>1, GoFrame
  <2> QED BY <1>1, <2>2, <2>3, <2>4, <2>5, <2>6, ActiveRunStep
<1> QED BY <1>2, <1>3

\* A step outside the runs that touches Deployment d.
LEMMA OutsideStep ==
    ASSUME IInv, NEW d \in Deployments, run' = Untouched(d),
           UNCHANGED <<lock, file, gate, lingering, open, early, lifted>>,
           tampered' \/ UNCHANGED <<replicas, tampered>>,
           genuine' = genuine \/ genuine' = [genuine EXCEPT ![d] = FALSE],
           tampered' \/ \A e \in Deployments : Idle(e) => Idle(e)',
           TypeOK', UnmanagedOff'
    PROVE  IInv'
<1> USE DEF IInv
<1>1. ASSUME NEW s \in Runners
      PROVE  RunInv(s)'
  <2>0. /\ RunInv(s)
        /\ run'[s].pc = run[s].pc /\ Keeps(s) /\ run'[s].left = run[s].left
        /\ run'[s].fresh => run[s].fresh /\ Unit(s) # d
    BY UntouchedFrame
  <2>1. Owns(s)'
    BY <2>0 DEF Owns, RunInv, Keeps
  <2>2. Knows(s)'
    <3>1. Unit(s)' = Unit(s) /\ Unit(s) \in Deployments
      BY <2>0 DEF Unit, Deployments
    <3>2. run'[s].fresh => genuine'[Unit(s)] = genuine[Unit(s)]
      BY <2>0, <3>1 DEF TypeOK
    <3> QED BY <2>0, <3>1, <3>2 DEF Knows, RunInv
  <2>3. Starts(s)'
    BY <2>0 DEF Starts, RunInv, Keeps, TargetsOf
  <2>4. Proceeds(s)'
    <3>1. CASE tampered'
      BY <3>1 DEF Proceeds
    <3>2. CASE UNCHANGED <<replicas, tampered>>
      BY <2>0, <3>2 DEF Proceeds, Progress, RunInv, Keeps, TargetsOf, Rest, Unit
    <3> QED BY <3>1, <3>2
  <2>5. TargetsOf(s)' = TargetsOf(s) /\ TargetsOf(s) \subseteq Deployments /\ Rest(s)' = Rest(s)
    <3>1. run[s] \in Runs
      BY DEF TypeOK
    <3> QED BY <2>0, <3>1, TargetsType DEF TargetsOf, Rest, Unit, Keeps, Runs
  <2>6. Empties(s)' /\ Deploys(s)'
    <3>1. CASE tampered'
      BY <3>1 DEF Empties, Deploys
    <3>2. CASE ~tampered'
      <4>1. /\ UNCHANGED <<replicas, tampered>>
            /\ \A e \in Deployments : (Idle(e) => Idle(e)') /\ (Off(e) => Off(e)')
        BY <3>2 DEF Off
      <4>2. Empties(s)'
        BY <2>0, <2>5, <4>1 DEF Empties, Emptied, RunInv, Keeps, Managed, Deployments
      <4>3. Deploys(s)'
        BY <2>0, <2>5, <4>1 DEF Deploys, Deployed, RunInv, Keeps, AsRecorded
      <4> QED BY <4>2, <4>3
    <3> QED BY <3>1, <3>2
  <2>7. Shuts(s)'
    BY <2>0 DEF Shuts, RunInv
  <2> QED BY <2>1, <2>2, <2>3, <2>4, <2>6, <2>7 DEF RunInv
<1>2. GateCoversUptime'
  BY DEF GateCoversUptime, Inhibiting
<1>3. Standing'
  <2>1. Apart'
    BY DEF Standing, Apart, Off, Deployments
  <2> QED BY <2>1 DEF Standing, NoGateway, NeverBothAsked, OpenIsServed, ReadyIsDeployed, AsRecorded
<1> QED BY <1>1, <1>2, <1>3

\* A step that touches no Deployment, no run and no record.
LEMMA AsideStep ==
    ASSUME IInv, UNCHANGED <<owner, replicas, genuine, early, tampered, lifted>>, TypeOK',
           open' \in {open, NoModel},
           \A d \in Deployments : (Idle(d) => Idle(d)') /\ (Off(d) => Off(d)'),
           (\A d \in Managed : Idle(d)) /\ lingering = {} => lingering' = {}
    PROVE  IInv'
<1>1. UNCHANGED <<lock, run, file, gate>>
  BY DEF owner
<1>2. ASSUME NEW s \in Runners
      PROVE  RunInv(s)'
  <2>1. RunInv(s) /\ UNCHANGED <<TargetsOf(s), Rest(s), Unit(s)>> /\ TargetsOf(s) \subseteq Deployments
    <3>1. run[s] \in Runs
      BY DEF IInv, TypeOK
    <3> QED BY <1>1, <3>1, TargetsType DEF IInv, TargetsOf, Rest, Unit, Runs
  <2>2. Owns(s)' /\ Knows(s)' /\ Starts(s)' /\ Proceeds(s)'
    BY <1>1, <2>1 DEF RunInv, Owns, Knows, Starts, Proceeds, Progress
  <2>3. Empties(s)'
    BY <1>1, <2>1 DEF RunInv, Empties, Emptied, Managed, Deployments, Stopped
  <2>4. Deploys(s)' /\ Shuts(s)'
    BY <1>1, <2>1 DEF RunInv, Deploys, Deployed, AsRecorded, Shuts
  <2> QED BY <2>2, <2>3, <2>4 DEF RunInv
<1>3. GateCoversUptime'
  BY <1>1 DEF IInv, GateCoversUptime, Inhibiting
<1>4. Standing'
  <2>1. UnmanagedOff' /\ Apart'
    BY DEF IInv, Standing, UnmanagedOff, Apart, Deployments
  <2> QED BY <1>1, <2>1, SessionAssumption DEF IInv, Standing, NoGateway, NeverBothAsked, OpenIsServed,
                                            ReadyIsDeployed, AsRecorded
<1> QED BY <1>2, <1>3, <1>4 DEF IInv

-----------------------------------------------------------------------------
(* One lemma per step of a run                                              *)

\* A step that moves the active run s on, and at most opens or closes the gateway.
LEMMA MoveStep ==
    ASSUME IInv, NEW s \in Runners, NEW step \in Steps, run[s].pc # "idle", Go(s, step),
           UNCHANGED <<lock, file, gate, replicas, genuine, wanted, pod, lingering, history>>,
           open' \in {Model, NoModel}, busy' = busy,
           open' \in {open, NoModel} \/ (Service /\ (tampered \/ replicas["ai"] = 1)),
           Owns(s)', Knows(s)', Starts(s)', Proceeds(s)', Empties(s)', Deploys(s)', Shuts(s)'
    PROVE  IInv'
<1>1. TypeOK'
  BY GoFrame DEF IInv, TypeOK, history
<1>2. UNCHANGED <<tampered, lifted>>
  BY DEF history
<1>3. \A t \in Runners : t # s => run'[t].pc = run[t].pc
  BY GoFrame DEF IInv
<1>4. GateCoversUptime'
  BY <1>2 DEF IInv, GateCoversUptime, Inhibiting
<1>5. Standing'
  <2>1. CASE open' \in {open, NoModel}
    BY <2>1, StandingKept DEF IInv, history
  <2>2. CASE Service /\ (tampered \/ replicas["ai"] = 1)
    BY <1>2, <2>2 DEF IInv, history, Standing, UnmanagedOff, NoGateway, NeverBothAsked, Apart, Off,
                      Idle, OpenIsServed, ReadyIsDeployed, AsRecorded
  <2> QED BY <2>1, <2>2
<1> QED BY <1>1, <1>3, <1>4, <1>5, ActiveRunStep

\* The gateway is told to close.
LEMMA DrainingStep ==
    ASSUME IInv, NEW s \in Runners, Draining(s)
    PROVE  IInv'
<1>1. PICK step \in {"drained"} :
         /\ run[s].pc = "draining"
         /\ Go(s, step)
         /\ UNCHANGED <<lock, file, gate, replicas, genuine, wanted, pod, lingering, history>>
         /\ open' = NoModel /\ open' \in {Model, NoModel} /\ busy' = busy
  BY DEF Draining, Move, At, cluster, gateway, IInv, TypeOK, Close, Adm!SetOpen
<1>2. step \in Steps /\ RunInv(s) /\ UNCHANGED tampered
  BY <1>1 DEF Steps, IInv, history
<1>3. /\ run'[s].pc = step /\ Keeps(s)
      /\ run'[s].left = run[s].left /\ run'[s].fresh = run[s].fresh
  BY <1>1, <1>2, GoFrame DEF IInv
<1>4. Owns(s)'
  BY <1>1, <1>2, <1>3 DEF Owns, RunInv, Keeps, QuickSteps, history
<1>5. Knows(s)' /\ Starts(s)'
  BY <1>1, <1>2, <1>3 DEF Knows, Starts, RunInv, Keeps, TargetsOf, Stopping, StartsNext, Unit
<1>6. Proceeds(s)'
  BY <1>1, <1>2, <1>3 DEF Proceeds, Progress, RunInv, Keeps, TargetsOf, Rest, Unit, Stopping, Stopped, StartsNext
<1>7. Empties(s)'
  BY <1>1, <1>2, <1>3 DEF Empties, Emptied, RunInv, Keeps, TargetsOf, Rest, Unit, Idle, Off,
                          Stopping, Stopped, StartsNext, history
<1>8. Deploys(s)' /\ Shuts(s)'
  BY <1>1, <1>2, <1>3 DEF Deploys, Deployed, AsRecorded, RunInv, Keeps, TargetsOf, Rest, Unit,
                          Shuts, Shut, Stopped, StartsNext
<1> QED BY <1>1, <1>2, <1>4, <1>5, <1>6, <1>7, <1>8, MoveStep

\* The gateway is quiet.
LEMMA DrainedStep ==
    ASSUME IInv, NEW s \in Runners, Drained(s)
    PROVE  IInv'
<1>1. PICK step \in {"read"} :
         /\ run[s].pc = "drained"
         /\ Go(s, step)
         /\ UNCHANGED <<lock, file, gate, replicas, genuine, wanted, pod, lingering, history>>
         /\ open' = open /\ open' \in {Model, NoModel} /\ busy' = busy
  BY DEF Drained, Move, At, cluster, gateway, IInv, TypeOK
<1>2. step \in Steps /\ RunInv(s) /\ UNCHANGED tampered
  BY <1>1 DEF Steps, IInv, history
<1>3. /\ run'[s].pc = step /\ Keeps(s)
      /\ run'[s].left = run[s].left /\ run'[s].fresh = run[s].fresh
  BY <1>1, <1>2, GoFrame DEF IInv
<1>4. Owns(s)'
  BY <1>1, <1>2, <1>3 DEF Owns, RunInv, Keeps, QuickSteps, history
<1>5. Knows(s)' /\ Starts(s)'
  BY <1>1, <1>2, <1>3 DEF Knows, Starts, RunInv, Keeps, TargetsOf, Stopping, StartsNext, Unit
<1>6. Proceeds(s)'
  BY <1>1, <1>2, <1>3 DEF Proceeds, Progress, RunInv, Keeps, TargetsOf, Rest, Unit, Stopping, Stopped, StartsNext
<1>7. Empties(s)'
  BY <1>1, <1>2, <1>3 DEF Empties, Emptied, RunInv, Keeps, TargetsOf, Rest, Unit, Idle, Off,
                          Stopping, Stopped, StartsNext, history
<1>8. Deploys(s)' /\ Shuts(s)'
  BY <1>1, <1>2, <1>3 DEF Deploys, Deployed, AsRecorded, RunInv, Keeps, TargetsOf, Rest, Unit,
                          Shuts, Shut, Stopped, StartsNext
<1> QED BY <1>1, <1>2, <1>4, <1>5, <1>6, <1>7, <1>8, MoveStep

\* No Pod is listed.
LEMMA ListStep ==
    ASSUME IInv, NEW s \in Runners, List(s)
    PROVE  IInv'
<1>1. PICK step \in {"scan", "scan2"} :
         /\ run[s].pc = (IF step = "scan" THEN "list" ELSE "list2")
         /\ Go(s, step)
         /\ UNCHANGED <<lock, file, gate, replicas, genuine, wanted, pod, lingering, history>>
         /\ open' = open /\ open' \in {Model, NoModel} /\ busy' = busy
  BY DEF List, Move, At, cluster, gateway, IInv, TypeOK
<1>2. step \in Steps /\ RunInv(s) /\ UNCHANGED tampered
  BY <1>1 DEF Steps, IInv, history
<1>3. /\ run'[s].pc = step /\ Keeps(s)
      /\ run'[s].left = run[s].left /\ run'[s].fresh = run[s].fresh
  BY <1>1, <1>2, GoFrame DEF IInv
<1>4. Owns(s)'
  BY <1>1, <1>2, <1>3 DEF Owns, RunInv, Keeps, QuickSteps, history
<1>5. Knows(s)' /\ Starts(s)'
  BY <1>1, <1>2, <1>3 DEF Knows, Starts, RunInv, Keeps, TargetsOf, Stopping, StartsNext, Unit
<1>6. Proceeds(s)'
  BY <1>1, <1>2, <1>3 DEF Proceeds, Progress, RunInv, Keeps, TargetsOf, Rest, Unit, Stopping, Stopped, StartsNext
<1>7. Empties(s)'
  BY <1>1, <1>2, <1>3 DEF Empties, Emptied, RunInv, Keeps, TargetsOf, Rest, Unit, Idle, Off,
                          Stopping, Stopped, StartsNext, history
<1>8. Deploys(s)' /\ Shuts(s)'
  BY <1>1, <1>2, <1>3 DEF Deploys, Deployed, AsRecorded, RunInv, Keeps, TargetsOf, Rest, Unit,
                          Shuts, Shut, Stopped, StartsNext
<1> QED BY <1>1, <1>2, <1>4, <1>5, <1>6, <1>7, <1>8, MoveStep

\* No process has a GPU open.
LEMMA ScanStep ==
    ASSUME IInv, NEW s \in Runners, Scan(s)
    PROVE  IInv'
<1>1. PICK step \in {"scale1", "settle", "admit", "starting"} :
         /\ run[s].pc = (IF step = "scale1" THEN "scan2" ELSE "scan")
         /\ step \notin {"scale1", "settle"} => ~run[s].quick
         /\ step = "settle" => run[s].quick
         /\ step = "starting" => TargetsOf(s) # {}
         /\ Go(s, step)
         /\ UNCHANGED <<lock, file, gate, replicas, genuine, wanted, pod, lingering, history>>
         /\ open' = open /\ open' \in {Model, NoModel} /\ busy' = busy
         /\ step = "starting" => lingering = {}
         /\ step = "admit" => TargetsOf(s) = {}
  <2>1. Desired(s) = Nobody <=> TargetsOf(s) = {}
    BY DEF TargetsOf, Targets, Desired, Selected, Nobody
  <2>2. lingering = {}
    BY DEF Scan, Free, Holds, IInv, TypeOK
  <2> QED BY <2>1, <2>2 DEF Scan, Move, At, cluster, gateway, IInv, TypeOK
<1>2. step \in Steps /\ RunInv(s) /\ UNCHANGED tampered
  BY <1>1 DEF Steps, IInv, history
<1>3. /\ run'[s].pc = step /\ Keeps(s)
      /\ run'[s].left = run[s].left /\ run'[s].fresh = run[s].fresh
  BY <1>1, <1>2, GoFrame DEF IInv
<1>4. Owns(s)'
  BY <1>1, <1>2, <1>3 DEF Owns, RunInv, Keeps, QuickSteps, history
<1>5. Knows(s)' /\ Starts(s)'
  BY <1>1, <1>2, <1>3 DEF Knows, Starts, RunInv, Keeps, TargetsOf, Stopping, StartsNext, Unit
<1>6. Proceeds(s)'
  BY <1>1, <1>2, <1>3 DEF Proceeds, Progress, RunInv, Keeps, TargetsOf, Rest, Unit, Stopping, Stopped, StartsNext
<1>7. Empties(s)'
  BY <1>1, <1>2, <1>3 DEF Empties, Emptied, RunInv, Keeps, TargetsOf, Rest, Unit, Idle, Off,
                          Stopping, Stopped, StartsNext, history
<1>8. Deploys(s)' /\ Shuts(s)'
  BY <1>1, <1>2, <1>3 DEF Deploys, Deployed, AsRecorded, RunInv, Proceeds, Progress, Keeps, TargetsOf,
                          Rest, Unit, Shuts, Shut, Stopped, StartsNext
<1> QED BY <1>1, <1>2, <1>4, <1>5, <1>6, <1>7, <1>8, MoveStep

\* The gateway is told the final phase.
LEMMA AdmitStep ==
    ASSUME IInv, NEW s \in Runners, Admit(s)
    PROVE  IInv'
<1>1. PICK step \in {"commit"} :
         /\ run[s].pc = "admit"
         /\ Go(s, step)
         /\ UNCHANGED <<lock, file, gate, replicas, genuine, wanted, pod, lingering, history>>
         /\ open' \in {Model, NoModel} /\ busy' = busy
         /\ open' = Model => Service /\ "ai" \in TargetsOf(s)
  BY SessionAssumption DEF Admit, TargetsOf, Targets, Desired, Nobody, Move, At, cluster, gateway, IInv, TypeOK, Adm!SetOpen
<1>2. step \in Steps /\ RunInv(s) /\ UNCHANGED tampered
  BY <1>1 DEF Steps, IInv, history
<1>3. /\ run'[s].pc = step /\ Keeps(s)
      /\ run'[s].left = run[s].left /\ run'[s].fresh = run[s].fresh
  BY <1>1, <1>2, GoFrame DEF IInv
<1>4. Owns(s)'
  BY <1>1, <1>2, <1>3 DEF Owns, RunInv, Keeps, QuickSteps, history
<1>5. Knows(s)' /\ Starts(s)'
  BY <1>1, <1>2, <1>3 DEF Knows, Starts, RunInv, Keeps, TargetsOf, Stopping, StartsNext, Unit
<1>6. Proceeds(s)'
  BY <1>1, <1>2, <1>3 DEF Proceeds, Progress, RunInv, Keeps, TargetsOf, Rest, Unit, Stopping, Stopped, StartsNext
<1>7. Empties(s)'
  BY <1>1, <1>2, <1>3 DEF Empties, Emptied, RunInv, Keeps, TargetsOf, Rest, Unit, Idle, Off,
                          Stopping, Stopped, StartsNext, history
<1>8. Deploys(s)' /\ Shuts(s)'
  BY <1>1, <1>2, <1>3 DEF Deploys, Deployed, AsRecorded, RunInv, Keeps, TargetsOf, Rest, Unit,
                          Shuts, Shut, Stopped, StartsNext
<1>9. open' = Model => Service /\ (tampered \/ replicas["ai"] = 1)
  <2>1. ~run[s].quick /\ (tampered \/ AsRecorded(run[s].mode, run[s].previous))
    BY <1>1, <1>2 DEF RunInv, Owns, Deploys, Deployed, QuickSteps
  <2>2. open' = Model => Service /\ "ai" \in Targets(run[s].mode, run[s].previous)
    BY <1>1 DEF TargetsOf
  <2>3. "ai" \in Managed
    BY DEF Managed, Deployments
  <2> QED BY <2>1, <2>2, <2>3 DEF AsRecorded
<1> QED BY <1>9, <1>1, <1>2, <1>4, <1>5, <1>6, <1>7, <1>8, MoveStep

\* The gate is set before anything is recorded.
LEMMA InhibitStep ==
    ASSUME IInv, NEW s \in Runners, Inhibit(s)
    PROVE  IInv'
<1>1. run[s].pc = "inhibit" /\ RunInv(s) /\ TypeOK /\ "record" \in Steps
  BY DEF IInv, Inhibit, At, Steps
<1>2. /\ run' \in [Runners -> Runs]
      /\ \A t \in Runners : t # s => run'[t].pc = run[t].pc
      /\ run'[s].pc = "record" /\ Keeps(s)
  BY <1>1, GoFrame DEF Inhibit
<1>3. TypeOK'
  BY <1>1, <1>2 DEF TypeOK, Inhibit, cluster, gateway
<1>4. Owns(s)'
  BY <1>1, <1>2 DEF Owns, RunInv, Inhibit, Keeps, QuickSteps
<1>5. Knows(s)' /\ Starts(s)' /\ Proceeds(s)' /\ Empties(s)' /\ Deploys(s)' /\ Shuts(s)'
  BY <1>2, AsideRun
<1>6. GateCoversUptime'
  BY DEF Inhibit, GateCoversUptime
<1>7. Standing'
  BY StandingKept DEF IInv, Inhibit, cluster, gateway
<1> QED BY <1>1, <1>7, <1>2, <1>3, <1>4, <1>5, <1>6, ActiveRunStep

\* The transition is on record: from here on the run owns the state.
LEMMA RecordStep ==
    ASSUME IInv, NEW s \in Runners, Record(s)
    PROVE  IInv'
<1> DEFINE step == IF Service THEN "draining" ELSE "read"
<1>1. run[s].pc = "record" /\ RunInv(s) /\ TypeOK
  BY DEF IInv, Record, At
<1>2. /\ run' \in [Runners -> Runs]
      /\ \A t \in Runners : t # s => run'[t].pc = run[t].pc
      /\ run'[s].pc = step /\ Keeps(s) /\ run'[s].left = Managed
  <2>1. run' = [run EXCEPT ![s] = [run[s] EXCEPT !.pc = step, !.left = Managed]]
    BY <1>1 DEF Record, TypeOK
  <2>2. run[s] \in Runs /\ Managed \in SUBSET Deployments /\ step \in Steps
    BY <1>1 DEF TypeOK, Managed, Deployments, Steps
  <2>3. [run[s] EXCEPT !.pc = step, !.left = Managed] \in Runs
    BY <2>2 DEF Runs
  <2>4. run' \in [Runners -> Runs]
    BY <1>1, <2>1, <2>3 DEF TypeOK
  <2> QED BY <1>1, <2>1, <2>2, <2>4 DEF TypeOK, Keeps, Runs
<1>3. file' \in Files /\ file' # NoFile /\ file'.mode = run[s].mode
      /\ file'.previous = run[s].previous /\ file'.phase = "transition"
  BY <1>1 DEF Record, Recorded, TypeOK, Runs, Files, NoFile, Modes
<1>4. TypeOK'
  BY <1>1, <1>2, <1>3 DEF TypeOK, Record, cluster, gateway, history
<1>5. Owns(s)'
  BY <1>1, <1>2, <1>3 DEF Owns, RunInv, Record, Keeps, QuickSteps, history
<1>6. Knows(s)' /\ Starts(s)' /\ Proceeds(s)' /\ Empties(s)' /\ Deploys(s)'
  <2>1. ~run[s].quick
    BY <1>1 DEF RunInv, Owns, QuickSteps
  <2> QED BY <1>2, <2>1 DEF Knows, Starts, Proceeds, Progress, Empties, Emptied, Deploys, Deployed,
                            Keeps, Stopping, Stopped, StartsNext, Managed
<1>8. Shuts(s)'
  BY <1>1, <1>2 DEF Shuts, Shut, Stopped, StartsNext, IInv, Standing, NoGateway, Record, gateway
<1>7. GateCoversUptime'
  BY <1>1 DEF Record, GateCoversUptime, history, RunInv, Owns, QuickSteps
<1>9. Standing'
  BY <1>1, <1>3, StandingKept DEF IInv, Record, Recorded, cluster, gateway, history
<1> QED BY <1>8, <1>9, <1>1, <1>2, <1>4, <1>5, <1>6, <1>7, ActiveRunStep

\* A run reads the next Deployment it stops or starts: its uid is the recorded one.
LEMMA ReadingStep ==
    ASSUME IInv, NEW s \in Runners, Read(s) \/ Candidate(s)
    PROVE  IInv'
<1> DEFINE step == run'[s].pc
<1>1. /\ run[s].pc \in {"read", "candidate"} /\ RunInv(s) /\ TypeOK /\ genuine[Unit(s)]
      /\ UNCHANGED <<lock, file, gate, cluster, gateway, history>>
  BY DEF IInv, Read, Candidate, At
<1>2. PICK to \in {"gone", "scale0", "scale1", "list2"} :
         /\ run' = [run EXCEPT ![s].pc = to, ![s].fresh = TRUE]
         /\ run[s].pc = "read" => to \in {"gone", "scale0"}
         /\ run[s].pc = "candidate" => to \in {"scale1", "list2"}
         /\ to = "gone" => replicas[Unit(s)] = 0
  BY DEF Read, Candidate, At
<1>3. /\ run' \in [Runners -> Runs]
      /\ \A t \in Runners : t # s => run'[t].pc = run[t].pc
      /\ run'[s].pc = to /\ Keeps(s) /\ run'[s].left = run[s].left
  <2>1. run' = [run EXCEPT ![s] = [run[s] EXCEPT !.pc = to, !.fresh = TRUE]]
    BY <1>1, <1>2 DEF TypeOK
  <2>2. run[s] \in Runs /\ to \in Steps
    BY <1>1 DEF TypeOK, Steps
  <2>3. [run[s] EXCEPT !.pc = to, !.fresh = TRUE] \in Runs
    BY <2>2 DEF Runs
  <2>4. run' \in [Runners -> Runs]
    BY <1>1, <2>1, <2>3 DEF TypeOK
  <2> QED BY <1>1, <2>1, <2>2, <2>4 DEF TypeOK, Keeps, Runs
<1>4. TypeOK'
  BY <1>1, <1>3 DEF TypeOK, cluster, gateway, history
<1>5. Owns(s)'
  BY <1>1, <1>2, <1>3 DEF Owns, RunInv, Keeps, QuickSteps, history
<1>6. Knows(s)'
  BY <1>1, <1>3 DEF Knows, Unit, cluster
<1>7. Starts(s)'
  BY <1>1, <1>2, <1>3 DEF Starts, RunInv, Keeps, TargetsOf, Stopping, StartsNext
<1>8. Proceeds(s)'
  BY <1>1, <1>2, <1>3 DEF Proceeds, Progress, RunInv, Keeps, TargetsOf, Rest, Unit, Stopping,
                          Stopped, StartsNext, cluster, history
<1>9. GateCoversUptime'
  BY <1>1 DEF IInv, GateCoversUptime, Inhibiting, history
<1>10. Standing'
  BY <1>1, StandingKept DEF IInv, cluster, gateway, history
<1>11. Empties(s)'
  BY <1>1, <1>2, <1>3 DEF Empties, Emptied, RunInv, Keeps, TargetsOf, Rest, Unit, Idle, Off,
                          Stopping, Stopped, StartsNext, cluster, history
<1>12. Deploys(s)' /\ Shuts(s)'
  BY <1>1, <1>2, <1>3 DEF Deploys, Deployed, RunInv, Keeps, TargetsOf, Stopped, StartsNext,
                          Shuts, Shut, cluster, gateway, history
<1> QED BY <1>10, <1>11, <1>12, <1>1, <1>3, <1>4, <1>5, <1>6, <1>7, <1>8, <1>9, ActiveRunStep

\* A Deployment is scaled down.
LEMMA Scale0Step ==
    ASSUME IInv, NEW s \in Runners, Scale0(s)
    PROVE  IInv'
<1>1. /\ run[s].pc = "scale0" /\ RunInv(s) /\ TypeOK /\ Unit(s) \in Deployments
      /\ replicas' = [replicas EXCEPT ![Unit(s)] = 0]
      /\ run' = [Untouched(Unit(s)) EXCEPT ![s].pc = "gone"] /\ "gone" \in Steps
      /\ UNCHANGED <<lock, file, gate, genuine, wanted, pod, lingering, gateway, history>>
  BY DEF IInv, Scale0, At, Unit, Deployments, Steps
<1>2. /\ run' \in [Runners -> Runs]
      /\ \A t \in Runners : t # s => run'[t].pc = run[t].pc
      /\ run'[s].pc = "gone" /\ Keeps(s) /\ run'[s].left = run[s].left
  BY <1>1, UntouchedGoFrame
<1>3. replicas' \in [Deployments -> {0, 1}] /\ replicas'[Unit(s)] = 0
      /\ \A d \in Deployments : replicas[d] = 0 => replicas'[d] = 0
  BY <1>1 DEF TypeOK
<1>4. TypeOK'
  BY <1>1, <1>2, <1>3 DEF TypeOK, gateway, history
<1>5. Owns(s)'
  BY <1>1, <1>2 DEF Owns, RunInv, Keeps, QuickSteps, history
<1>6. Knows(s)' /\ Starts(s)'
  BY <1>1, <1>2 DEF Knows, Starts, RunInv, Keeps, TargetsOf, Stopping, StartsNext
<1>7. Unit(s)' = Unit(s) /\ Managed \subseteq Deployments
  BY <1>2 DEF Unit, Managed, Deployments
<1>8. Proceeds(s)'
  BY <1>1, <1>2, <1>3, <1>7 DEF Proceeds, Progress, RunInv, Keeps, Stopping, Stopped, StartsNext,
                                history
<1>9. GateCoversUptime'
  BY <1>1 DEF IInv, GateCoversUptime, Inhibiting, history
<1>10. Empties(s)' /\ Deploys(s)' /\ Shuts(s)'
  BY <1>1, <1>2, <1>3, <1>7 DEF Empties, Emptied, Deploys, Deployed, Shuts, Shut, RunInv, Keeps,
                                Idle, Stopping, Stopped, StartsNext, gateway, history
\* A quick run stops no Deployment its mode selects; any other finds the record open.
<1>11. ~tampered /\ file.phase = "ready" => AsRecorded(file.mode, file.previous)'
  <2>1. ASSUME ~tampered, file.phase = "ready"
        PROVE  AsRecorded(file.mode, file.previous)'
    <3>1. /\ run[s].quick /\ ~Service /\ run[s].mode # "split"
          /\ file.mode = run[s].mode /\ file.previous = run[s].previous
      BY <1>1, <2>1 DEF RunInv, Owns, NoFile
    <3>2. run[s].mode \in Modes /\ run[s].previous \in Snapshots /\ run[s].left \subseteq Deployments
      BY <1>1 DEF TypeOK, Runs
    <3>3. Unit(s) \notin TargetsOf(s)
      BY <1>1, <3>1, <3>2, TargetsType DEF RunInv, Starts, Stopping, TargetsOf, Unit, Deployments
    <3>4. AsRecorded(file.mode, file.previous)
      BY <2>1 DEF IInv, Standing, ReadyIsDeployed
    <3> QED BY <1>1, <1>3, <3>1, <3>3, <3>4 DEF AsRecorded, TargetsOf, Managed, Deployments
  <2> QED BY <2>1
<1>12. Standing'
  <2>1. open' # Model
    BY <1>1, SessionAssumption DEF RunInv, Shuts, Shut, gateway
  <2>2. \A d \in Deployments : Off(d) => Off(d)'
    BY <1>1, <1>3 DEF Off, Idle
  <2> QED BY <1>1, <1>3, <1>11, <2>1, <2>2 DEF IInv, Standing, UnmanagedOff, NoGateway, NeverBothAsked,
                                         Apart, OpenIsServed, ReadyIsDeployed, Deployments, gateway, history
<1> QED BY <1>10, <1>12, <1>1, <1>2, <1>4, <1>5, <1>6, <1>8, <1>9, ActiveRunStep

\* A Deployment is down: the next one, the second look, or the one that stays.
LEMMA GoneStep ==
    ASSUME IInv, NEW s \in Runners, Gone(s)
    PROVE  IInv'
<1> DEFINE stays == Rest(s) = {} /\ run[s].quick /\ Desired(s) # Nobody
           step == IF Rest(s) # {} THEN "read" ELSE IF stays THEN "rollout" ELSE "list"
           rest == IF stays THEN {Desired(s)} ELSE Rest(s)
<1>1. /\ run[s].pc = "gone" /\ RunInv(s) /\ TypeOK
      /\ run' = [run EXCEPT ![s].pc = step, ![s].left = rest, ![s].fresh = FALSE]
      /\ UNCHANGED <<lock, file, gate, cluster, gateway, tampered, lifted, faults>>
      /\ early' \in BOOLEAN /\ (early => early')
  BY DEF IInv, Gone, At, TypeOK
<1>2. rest \in SUBSET Deployments /\ step \in Steps
  <2>1. Rest(s) \in SUBSET Deployments
    BY <1>1 DEF Rest, TypeOK, Runs
  <2>2. Desired(s) # Nobody => Desired(s) \in Deployments
    BY <1>1 DEF Desired, Selected, TypeOK, Runs, Snapshots, Nobody, Deployments
  <2> QED BY <2>1, <2>2 DEF Steps
<1>3. /\ run' \in [Runners -> Runs]
      /\ \A t \in Runners : t # s => run'[t].pc = run[t].pc
      /\ run'[s].pc = step /\ Keeps(s) /\ run'[s].left = rest
  <2> HIDE DEF step, rest
  <2>1. run' = [run EXCEPT ![s] = [run[s] EXCEPT !.pc = step, !.left = rest, !.fresh = FALSE]]
    BY <1>1 DEF TypeOK
  <2>2. run[s] \in Runs
    BY <1>1 DEF TypeOK
  <2>3. [run[s] EXCEPT !.pc = step, !.left = rest, !.fresh = FALSE] \in Runs
    BY <1>2, <2>2 DEF Runs
  <2>4. run' \in [Runners -> Runs]
    BY <1>1, <2>1, <2>3 DEF TypeOK
  <2> QED BY <1>1, <2>1, <2>2, <2>4 DEF TypeOK, Keeps, Runs
<1>4. TypeOK'
  BY <1>1, <1>3 DEF TypeOK, cluster, gateway
<1>9. /\ run'[s].pc \in {"read", "rollout", "list"}
      /\ run'[s].pc = "rollout" => run[s].quick
      /\ ~run[s].quick \/ run'[s].pc # "rollout" => run'[s].left = Rest(s)
      /\ run'[s].pc = "list" => Rest(s) = {}
  BY <1>3
<1>10. /\ Owns(s) /\ Proceeds(s)
      /\ run'[s].quick = run[s].quick /\ run'[s].mode = run[s].mode
      /\ run'[s].previous = run[s].previous
  BY <1>1, <1>3 DEF RunInv, Keeps
<1> HIDE DEF step, rest
<1>5. Owns(s)'
  BY <1>1, <1>9, <1>10 DEF Owns, QuickSteps
<1>6. Knows(s)' /\ Starts(s)'
  BY <1>1, <1>9, <1>10 DEF Knows, Starts, RunInv, TargetsOf, Rest, Stopping, StartsNext
<1>7. Proceeds(s)'
  <2>1. ~tampered /\ ~run[s].quick => \A d \in Managed \ Rest(s) : replicas[d] = 0
    BY <1>1, <1>10 DEF Proceeds, Progress, Stopping, Rest
  <2> QED BY <1>1, <1>9, <1>10, <2>1 DEF Proceeds, Progress, Stopping, Stopped, StartsNext, cluster,
                                      Managed
<1>8. GateCoversUptime'
  BY <1>1 DEF IInv, GateCoversUptime, Inhibiting
\* Unless the controller lagged behind, the Deployment just stopped stays empty.
<1>11. Empties(s)'
  <2>1. ASSUME ~early', ~tampered, ~run[s].quick
        PROVE  \A d \in Managed \ Rest(s) : Idle(d)
    <3>1. ~early /\ wanted[Unit(s)] = 0 /\ pod[Unit(s)] = "none"
      BY <2>1 DEF Gone, Listed
    <3>2. replicas[Unit(s)] = 0 /\ \A d \in Managed \ run[s].left : Idle(d)
      BY <1>1, <2>1, <3>1 DEF RunInv, Proceeds, Progress, Empties, Emptied, Stopping
    <3> QED BY <3>1, <3>2 DEF Idle, Rest
  <2> QED BY <1>1, <1>9, <1>10, <2>1 DEF Empties, Emptied, Idle, Stopping, Stopped, StartsNext, Managed,
                                      cluster
<1>12. Deploys(s)' /\ Shuts(s)'
  BY <1>1, <1>9, <1>10 DEF Deploys, Deployed, RunInv, Shuts, Shut, Stopped, StartsNext, gateway
<1>13. Standing'
  BY <1>1, StandingKept DEF IInv, cluster, gateway
<1> QED BY <1>11, <1>12, <1>13, <1>1, <1>3, <1>4, <1>5, <1>6, <1>7, <1>8, ActiveRunStep

\* Everything is down; what the mode selects is left to start.
LEMMA StartingStep ==
    ASSUME IInv, NEW s \in Runners, Starting(s)
    PROVE  IInv'
<1>1. /\ run[s].pc = "starting" /\ RunInv(s) /\ TypeOK
      /\ run' = [run EXCEPT ![s].pc = "candidate", ![s].left = TargetsOf(s)]
      /\ UNCHANGED <<lock, file, gate, cluster, history>>
      /\ open' \in {open, NoModel} /\ open' \in {Model, NoModel} /\ busy' = busy
  BY DEF IInv, Starting, At, TypeOK, TargetsOf, Close, Adm!SetOpen, gateway
<1>2. run[s] \in Runs /\ TargetsOf(s) \in SUBSET Deployments /\ "candidate" \in Steps
  BY <1>1, TargetsType DEF TypeOK, Runs, TargetsOf, Steps
<1>3. /\ run' \in [Runners -> Runs]
      /\ \A t \in Runners : t # s => run'[t].pc = run[t].pc
      /\ run'[s].pc = "candidate" /\ Keeps(s) /\ run'[s].left = TargetsOf(s)
  <2>1. run' = [run EXCEPT ![s] = [run[s] EXCEPT !.pc = "candidate", !.left = TargetsOf(s)]]
    BY <1>1 DEF TypeOK
  <2>2. [run[s] EXCEPT !.pc = "candidate", !.left = TargetsOf(s)] \in Runs
    BY <1>2 DEF Runs
  <2>3. run' \in [Runners -> Runs]
    BY <1>1, <2>1, <2>2 DEF TypeOK
  <2> QED BY <1>1, <1>2, <2>1, <2>3 DEF TypeOK, Keeps, Runs
<1>4. TypeOK'
  BY <1>1, <1>3 DEF TypeOK, cluster, history
<1>5. Owns(s)' /\ Knows(s)'
  BY <1>1, <1>3 DEF Owns, Knows, RunInv, Keeps, QuickSteps, history
<1>6. TargetsOf(s)' = TargetsOf(s)
  BY <1>3 DEF TargetsOf, Keeps
<1>7. TargetsOf(s) # {} /\ ~run[s].quick
  BY <1>1 DEF RunInv, Owns, Starts, QuickSteps
<1>8. Starts(s)'
  BY <1>3, <1>6, <1>7 DEF Starts, Stopping
<1>9. Proceeds(s)'
  BY <1>1, <1>3, <1>6 DEF IInv, Proceeds, Progress, RunInv, Keeps, Stopping, Stopped, StartsNext,
                          Standing, UnmanagedOff, Off, Idle, cluster, history
<1>10. GateCoversUptime'
  BY <1>1 DEF IInv, GateCoversUptime, Inhibiting, history
<1>11. Standing'
  BY <1>1, StandingKept DEF IInv, cluster, history
<1>12. Empties(s)'
  BY <1>1, <1>3, <1>6 DEF IInv, Empties, Emptied, RunInv, Keeps, Stopping, Stopped, StartsNext,
                          Standing, UnmanagedOff, Off, Idle, cluster, history
<1>13. Deploys(s)' /\ Shuts(s)'
  BY <1>1, <1>3, <1>6 DEF Deploys, Deployed, Shuts, Shut, RunInv, Stopped, StartsNext
<1> QED BY <1>11, <1>12, <1>13, <1>1, <1>3, <1>4, <1>5, <1>8, <1>9, <1>10, ActiveRunStep

\* A selected Deployment is scaled up, and only selected ones are.
LEMMA Scale1Step ==
    ASSUME IInv, NEW s \in Runners, Scale1(s)
    PROVE  IInv'
<1>1. /\ run[s].pc = "scale1" /\ RunInv(s) /\ TypeOK /\ Unit(s) \in Deployments
      /\ replicas' = [replicas EXCEPT ![Unit(s)] = 1]
      /\ run' = [Untouched(Unit(s)) EXCEPT ![s].pc = "rollout"] /\ "rollout" \in Steps
      /\ UNCHANGED <<lock, file, gate, genuine, wanted, pod, lingering, gateway, history>>
  BY DEF IInv, Scale1, At, Unit, Deployments, Steps
<1>2. /\ run' \in [Runners -> Runs]
      /\ \A t \in Runners : t # s => run'[t].pc = run[t].pc
      /\ run'[s].pc = "rollout" /\ Keeps(s) /\ run'[s].left = run[s].left
  BY <1>1, UntouchedGoFrame
<1>3. /\ replicas' \in [Deployments -> {0, 1}]
      /\ \A d \in Deployments : d # Unit(s) => replicas'[d] = replicas[d]
  BY <1>1 DEF TypeOK
<1>4. TypeOK'
  BY <1>1, <1>2, <1>3 DEF TypeOK, gateway, history
<1>5. Owns(s)'
  BY <1>1, <1>2 DEF Owns, RunInv, Keeps, QuickSteps, history
<1>6. Knows(s)'
  BY <1>2 DEF Knows
<1>7. /\ run[s].left # {} /\ run[s].left \subseteq TargetsOf(s) /\ ~run[s].quick
      /\ TargetsOf(s)' = TargetsOf(s) /\ Unit(s)' = Unit(s) /\ Rest(s)' = Rest(s)
  BY <1>1, <1>2 DEF RunInv, Owns, Starts, StartsNext, QuickSteps, TargetsOf, Keeps, Unit, Rest
<1>8. Unit(s) \in TargetsOf(s) /\ Unit(s) \notin Rest(s)
  <2>1. run[s].left \subseteq Deployments
    BY <1>1 DEF TypeOK, Runs
  <2>2. Unit(s) \in run[s].left
    BY <1>7, <2>1 DEF Unit, Deployments
  <2> QED BY <1>7, <2>2 DEF Rest
<1>9. Starts(s)'
  BY <1>2, <1>7 DEF Starts, Stopping, StartsNext
<1>10. ~tampered => \A d \in Deployments \ (TargetsOf(s) \ Rest(s)) : d # Unit(s) /\ replicas[d] = 0
  BY <1>1, <1>7, <1>8 DEF RunInv, Proceeds, Progress, StartsNext, Rest
<1>11. Proceeds(s)'
  BY <1>1, <1>2, <1>3, <1>7, <1>10 DEF Proceeds, Progress, Stopping, Stopped, StartsNext, history
<1>12. run[s].mode \in Modes /\ run[s].previous \in Snapshots
  BY <1>1 DEF TypeOK, Runs
<1>13. UnmanagedOff'
  <2>1. Unit(s) \in Managed
    BY <1>1, <1>8, <1>12, TargetsType DEF TargetsOf, Managed, Deployments, RunInv, Owns
  <2> QED BY <1>1, <1>3, <2>1 DEF IInv, Standing, UnmanagedOff, Off, Idle, Managed
<1>14. NeverBothAsked'
  <2>1. ~tampered => \A d \in Deployments \ TargetsOf(s) : replicas'[d] = 0
    BY <1>3, <1>10
  <2>2. "game" \notin TargetsOf(s) \/ TargetsOf(s) = {"game"}
    BY <1>12, TargetsType DEF TargetsOf
  <2> QED BY <1>1, <2>1, <2>2 DEF NeverBothAsked, Deployments, history
<1>15. GateCoversUptime'
  BY <1>1 DEF IInv, GateCoversUptime, Inhibiting, history
<1>16. ~early /\ ~tampered => \A d \in Deployments \ (TargetsOf(s) \ Rest(s)) : Off(d) /\ Off(d)'
  BY <1>1, <1>3, <1>7, <1>8 DEF RunInv, Empties, Emptied, StartsNext, Rest, Off, Idle
<1>17. Empties(s)'
  BY <1>1, <1>2, <1>7, <1>16 DEF Empties, Emptied, Stopping, Stopped, StartsNext, history
<1>18. ~tampered => \A d \in TargetsOf(s) \ Rest(s) : replicas'[d] = 1
  BY <1>1, <1>3, <1>8 DEF RunInv, Deploys, Deployed, StartsNext, Rest, Owns, QuickSteps, TypeOK
<1>19. Deploys(s)' /\ Shuts(s)'
  BY <1>1, <1>2, <1>7, <1>18 DEF Deploys, Deployed, Shuts, Shut, RunInv, Stopped, StartsNext, gateway,
                                 history
<1>20. Apart'
  <2>1. ~early /\ ~tampered => \A d \in Deployments \ TargetsOf(s) : Off(d)'
    BY <1>16
  <2>2. "game" \notin TargetsOf(s) \/ TargetsOf(s) = {"game"}
    BY <1>12, TargetsType DEF TargetsOf
  <2> QED BY <1>1, <2>1, <2>2 DEF Apart, Deployments, history
<1>21. file.phase # "ready" /\ open # Model
  BY <1>1, <1>7, SessionAssumption DEF RunInv, Owns, Shuts, Shut, StartsNext
<1>22. Standing'
  BY <1>1, <1>13, <1>14, <1>20, <1>21 DEF IInv, Standing, NoGateway, OpenIsServed, ReadyIsDeployed, gateway
<1> QED BY <1>1, <1>2, <1>4, <1>5, <1>6, <1>9, <1>11, <1>15, <1>17, <1>19, <1>22, ActiveRunStep

\* A started Deployment is ready.
LEMMA RolloutStep ==
    ASSUME IInv, NEW s \in Runners, Rollout(s)
    PROVE  IInv'
<1> DEFINE step == IF run[s].quick THEN "settle" ELSE IF Rest(s) = {} THEN "admit" ELSE "candidate"
<1>1. /\ run[s].pc = "rollout" /\ RunInv(s) /\ TypeOK
      /\ run' = [run EXCEPT ![s].pc = step, ![s].left = Rest(s)]
      /\ UNCHANGED <<lock, file, gate, cluster, gateway, history>>
  BY DEF IInv, Rollout, At
<1>2. Rest(s) \in SUBSET Deployments /\ step \in Steps
  BY <1>1 DEF Rest, TypeOK, Runs, Steps
<1>3. /\ run' \in [Runners -> Runs]
      /\ \A t \in Runners : t # s => run'[t].pc = run[t].pc
      /\ run'[s].pc = step /\ Keeps(s) /\ run'[s].left = Rest(s)
  <2> HIDE DEF step
  <2>1. run' = [run EXCEPT ![s] = [run[s] EXCEPT !.pc = step, !.left = Rest(s)]]
    BY <1>1 DEF TypeOK
  <2>2. run[s] \in Runs
    BY <1>1 DEF TypeOK
  <2>3. [run[s] EXCEPT !.pc = step, !.left = Rest(s)] \in Runs
    BY <1>2, <2>2 DEF Runs
  <2>4. run' \in [Runners -> Runs]
    BY <1>1, <2>1, <2>3 DEF TypeOK
  <2> QED BY <1>1, <2>1, <2>2, <2>4 DEF TypeOK, Keeps, Runs
<1>4. /\ run[s].quick => run'[s].pc = "settle"
      /\ ~run[s].quick => run'[s].pc \in {"admit", "candidate"}
      /\ run'[s].pc = "candidate" => Rest(s) # {} /\ ~run[s].quick
      /\ run'[s].pc # "rollout"
  BY <1>3
<1>5. TypeOK'
  BY <1>1, <1>3 DEF TypeOK, cluster, gateway, history
<1> HIDE DEF step
<1>6. Owns(s)'
  BY <1>1, <1>3, <1>4 DEF Owns, RunInv, Keeps, QuickSteps, history
<1>7. Knows(s)'
  BY <1>3, <1>4 DEF Knows, Keeps
<1>8. TargetsOf(s)' = TargetsOf(s) /\ run'[s].quick = run[s].quick
  BY <1>3 DEF TargetsOf, Keeps
<1>9. Starts(s)'
  BY <1>1, <1>3, <1>4, <1>8 DEF Starts, Stopping, StartsNext, RunInv, Rest
<1>10. Proceeds(s)'
  BY <1>1, <1>3, <1>4, <1>8 DEF Proceeds, Progress, RunInv, Stopping, Stopped, StartsNext, cluster,
                                history
<1>11. GateCoversUptime'
  BY <1>1 DEF IInv, GateCoversUptime, Inhibiting, history
<1>12. Standing'
  BY <1>1, StandingKept DEF IInv, cluster, gateway, history
<1>13. Empties(s)'
  BY <1>1, <1>3, <1>4, <1>8 DEF Empties, Emptied, RunInv, Off, Idle, Stopping, Stopped, StartsNext,
                                cluster, history
<1>14. Deploys(s)'
  <2>1. ASSUME ~tampered, run'[s].pc = "admit"
        PROVE  AsRecorded(run[s].mode, run[s].previous)
    <3>1. Rest(s) = {} /\ ~run[s].quick
      BY <1>1, <1>3, <1>4, <2>1 DEF step
    <3> QED BY <1>1, <2>1, <3>1 DEF RunInv, Proceeds, Progress, Deploys, Deployed, AsRecorded,
                                    TargetsOf, Managed, Deployments
  <2> QED BY <1>1, <1>3, <1>4, <1>8, <2>1 DEF Deploys, Deployed, RunInv, StartsNext, AsRecorded, Keeps,
                                           cluster, history
<1>15. Shuts(s)'
  BY <1>1, <1>4 DEF Shuts, Shut, RunInv, gateway
<1> QED BY <1>12, <1>13, <1>14, <1>15, <1>1, <1>3, <1>5, <1>6, <1>7, <1>9, <1>10, <1>11, ActiveRunStep

\* The session is recorded as ready, under a gate not yet released.
LEMMA CommitStep ==
    ASSUME IInv, NEW s \in Runners, Commit(s)
    PROVE  IInv'
<1>1. /\ run[s].pc = "commit" /\ RunInv(s) /\ TypeOK /\ Go(s, "release") /\ "release" \in Steps
      /\ file' = [file EXCEPT !.phase = "ready"]
      /\ UNCHANGED <<lock, gate, cluster, gateway, history>>
  BY DEF IInv, Commit, At, Steps
<1>2. /\ run' \in [Runners -> Runs]
      /\ \A t \in Runners : t # s => run'[t].pc = run[t].pc
      /\ run'[s].pc = "release" /\ Keeps(s)
  BY <1>1, GoFrame
<1>3. ~run[s].quick /\ file \in Files /\ file # NoFile /\ (gate \/ lifted)
  BY <1>1 DEF RunInv, Owns, QuickSteps, TypeOK
<1>4. /\ file' \in Files /\ file' # NoFile /\ file'.phase = "ready"
      /\ file'.mode = file.mode /\ file'.previous = file.previous
  BY <1>1, <1>3 DEF Files, NoFile
<1>5. TypeOK'
  BY <1>1, <1>2, <1>4 DEF TypeOK, cluster, gateway, history
<1>6. Owns(s)'
  BY <1>1, <1>2, <1>3, <1>4 DEF Owns, RunInv, Keeps, history
<1>7. Knows(s)' /\ Starts(s)' /\ Proceeds(s)' /\ Empties(s)' /\ Deploys(s)' /\ Shuts(s)'
  BY <1>2, AsideRun
<1>8. GateCoversUptime'
  BY <1>1, <1>3 DEF GateCoversUptime, history
<1>9. Standing'
  <2>1. tampered \/ AsRecorded(file.mode, file.previous)
    BY <1>1, <1>3 DEF RunInv, Owns, Deploys, Deployed
  <2> QED BY <1>1, <1>4, <2>1 DEF IInv, Standing, UnmanagedOff, NoGateway, NeverBothAsked, Apart, Off,
                                 Idle, OpenIsServed, ReadyIsDeployed, AsRecorded, cluster, gateway, history
<1> QED BY <1>9, <1>1, <1>2, <1>5, <1>6, <1>7, <1>8, ActiveRunStep

\* The gate stays for the game only, of which the record says it is ready.
LEMMA ReleaseStep ==
    ASSUME IInv, NEW s \in Runners, Release(s)
    PROVE  IInv'
<1>1. /\ run[s].pc = "release" /\ RunInv(s) /\ TypeOK /\ Go(s, "released") /\ "released" \in Steps
      /\ gate' = (gate /\ KeepsGate(s))
      /\ UNCHANGED <<lock, file, cluster, gateway, history>>
  BY DEF IInv, Release, At, Steps
<1>2. /\ run' \in [Runners -> Runs]
      /\ \A t \in Runners : t # s => run'[t].pc = run[t].pc
      /\ run'[s].pc = "released" /\ Keeps(s)
  BY <1>1, GoFrame
<1>3. TypeOK'
  BY <1>1, <1>2 DEF TypeOK, cluster, gateway, history
<1>4. /\ ~run[s].quick /\ file # NoFile /\ (gate \/ lifted)
      /\ file.phase = "ready" /\ file.mode = run[s].mode /\ file.previous = run[s].previous
  BY <1>1 DEF RunInv, Owns, QuickSteps
<1>5. Owns(s)'
  BY <1>1, <1>2, <1>4 DEF Owns, RunInv, Keeps
<1>6. Knows(s)' /\ Starts(s)' /\ Proceeds(s)' /\ Empties(s)' /\ Deploys(s)' /\ Shuts(s)'
  BY <1>2, AsideRun
<1>7. GateCoversUptime'
  BY <1>1, <1>4 DEF GateCoversUptime, Inhibiting, KeepsGate, Desired, history
<1>8. Standing'
  BY <1>1, StandingKept DEF IInv, cluster, gateway, history
<1> QED BY <1>1, <1>2, <1>3, <1>5, <1>6, <1>7, <1>8, ActiveRunStep

\* The end of a run that failed nowhere.
LEMMA FinishedStep ==
    ASSUME IInv, NEW s \in Runners, Untrap(s) \/ Settle(s)
    PROVE  IInv'
<1>1. /\ run[s].pc \in {"released", "settle"} /\ RunInv(s) /\ TypeOK /\ End(s)
      /\ UNCHANGED <<file, cluster, gateway, early, tampered, faults>>
      /\ lifted' \in BOOLEAN /\ gate' \in BOOLEAN
  BY DEF IInv, Untrap, Settle, At, history, TypeOK, KeepsGate
<1>2. run' \in [Runners -> Runs] /\ lock' = NoRunner
  BY <1>1, EndFrame DEF End
<1>3. TypeOK'
  BY <1>1, <1>2 DEF TypeOK, cluster, gateway
<1>4. GateCoversUptime'
  <2>1. CASE Untrap(s)
    BY <2>1 DEF Untrap, IInv, GateCoversUptime, Inhibiting, history
  <2>2. CASE Settle(s)
    <3>1. run[s].pc = "settle" /\ gate' = KeepsGate(s) /\ file' = file
      BY <2>2 DEF Settle, At
    <3>2. file.phase = "ready" /\ file.mode = run[s].mode /\ file.previous = run[s].previous
      BY <1>1, <3>1 DEF RunInv, Owns, NoFile
    <3> QED BY <3>1, <3>2 DEF GateCoversUptime, Inhibiting, KeepsGate, Desired
  <2> QED BY <2>1, <2>2
<1>5. UNCHANGED <<replicas, wanted, pod, lingering, open>>
  BY <1>1 DEF cluster, gateway
<1> QED BY <1>1, <1>3, <1>4, <1>5, EndStep

\* A refusal, a timeout or a failure, into the trap if there is one.
LEMMA AbortingStep ==
    ASSUME IInv, NEW s \in Runners, Refused(s) \/ TimesOut(s) \/ Fail(s)
    PROVE  IInv'
<1>1. /\ run[s].pc \notin {"idle", "trap", "failed"} /\ TypeOK /\ Abort(s)
      /\ UNCHANGED <<file, gate, cluster, gateway, early, tampered>>
      /\ lifted' \in BOOLEAN /\ (lifted => lifted')
      /\ run[s].pc = "released" => gate \/ lifted'
  <2>1. CASE Refused(s)
    BY <2>1 DEF IInv, Refused, Conflict, At, history, TypeOK
  <2>2. CASE TimesOut(s)
    BY <2>2 DEF IInv, TimesOut, At, history, TypeOK
  <2>3. CASE Fail(s)
    <3>1. lifted' = (lifted \/ (run[s].pc = "released" /\ ~gate))
      BY <2>3 DEF Fail, At
    <3> QED BY <2>3, <3>1 DEF IInv, Fail, Steps, TypeOK
  <2> QED BY <2>1, <2>2, <2>3
<1>2. faults' \in 0 .. MaxFaults
  <2>1. CASE Refused(s) \/ TimesOut(s)
    BY <1>1, <2>1 DEF Refused, TimesOut, history, TypeOK
  <2>2. CASE Fail(s)
    BY <1>1, <2>2, SessionAssumption DEF Fail, Fault, TypeOK
  <2> QED BY <2>1, <2>2
<1>3. run' \in [Runners -> Runs] /\ lock' \in Runners \union {NoRunner} => TypeOK'
  BY <1>1, <1>2 DEF TypeOK, cluster, gateway
<1> QED BY <1>1, <1>3, AbortStep DEF cluster

\* A step that ends a run early, the failure recorded or not.
LEMMA EndingStep ==
    ASSUME IInv, NEW s \in Runners, MarkFailed(s) \/ Kill(s)
    PROVE  IInv'
<1>1. /\ run[s].pc # "idle" /\ RunInv(s) /\ TypeOK /\ End(s)
      /\ UNCHANGED <<gate, cluster, gateway, early, tampered, lifted>>
      /\ faults' \in 0 .. MaxFaults
  BY SessionAssumption DEF IInv, MarkFailed, Kill, At, history, TypeOK, Fault, Steps
<1>2. /\ file' \in Files
      /\ file' = file \/ (file'.phase = "failed" /\ (gate \/ lifted))
  <2>1. CASE MarkFailed(s)
    <3>1. run[s].pc = "failed" /\ file' = [file EXCEPT !.phase = "failed"]
      BY <2>1 DEF MarkFailed, At
    <3>2. file # NoFile /\ (gate \/ lifted)
      BY <1>1, <3>1 DEF RunInv, Owns, QuickSteps
    <3> QED BY <1>1, <3>1, <3>2 DEF TypeOK, Files, NoFile
  <2>2. CASE Kill(s)
    BY <1>1, <2>2 DEF Kill, TypeOK
  <2> QED BY <2>1, <2>2
<1>3. run' \in [Runners -> Runs] /\ lock' = NoRunner
  BY <1>1, EndFrame DEF End
<1>4. TypeOK'
  BY <1>1, <1>2, <1>3 DEF TypeOK, cluster, gateway
<1>5. GateCoversUptime'
  BY <1>1, <1>2 DEF IInv, GateCoversUptime, Inhibiting
<1>6. UNCHANGED <<replicas, wanted, pod, lingering, open>>
  BY <1>1 DEF cluster, gateway
<1> QED BY <1>1, <1>2, <1>4, <1>5, <1>6, EndStep

\* The EXIT trap, up to the write of the failed state.
LEMMA TrapStep ==
    ASSUME IInv, NEW s \in Runners, Trap(s)
    PROVE  IInv'
<1>1. /\ run[s].pc = "trap" /\ RunInv(s) /\ TypeOK
      /\ UNCHANGED <<file, gate, cluster, early, tampered, lifted>>
      /\ open' \in {open, NoModel} /\ open' \in {Model, NoModel} /\ busy' = busy
  BY DEF IInv, Trap, At, TypeOK, Close, Adm!SetOpen, gateway
<1>2. CASE Go(s, "failed") /\ UNCHANGED <<lock, faults>>
  <2>1. "failed" \in Steps
    BY DEF Steps
  <2>2. /\ \A t \in Runners : t # s => run'[t].pc = run[t].pc
        /\ run'[s].pc = "failed" /\ Keeps(s)
    BY <1>1, <1>2, <2>1, GoFrame
  <2>3. Owns(s)'
    BY <1>1, <1>2, <2>2 DEF Owns, RunInv, Keeps, QuickSteps
  <2>4. Knows(s)' /\ Starts(s)' /\ Proceeds(s)' /\ Empties(s)' /\ Deploys(s)' /\ Shuts(s)'
    BY <2>2, AsideRun
  <2> QED BY <2>4, <1>1, <1>2, <2>1, <2>3, MoveStep DEF cluster, history
<1>3. CASE End(s) /\ Fault("fail")
  <2>1. run' \in [Runners -> Runs] /\ lock' = NoRunner
    BY <1>1, <1>3, EndFrame DEF End
  <2>2. TypeOK'
    BY <1>1, <1>3, <2>1, SessionAssumption DEF TypeOK, cluster, Fault
  <2>3. GateCoversUptime' /\ UNCHANGED <<replicas, wanted, pod, lingering>>
    BY <1>1 DEF IInv, GateCoversUptime, Inhibiting, cluster
  <2> QED BY <1>1, <1>3, <2>2, <2>3, EndStep
<1> QED BY <1>2, <1>3 DEF Trap

-----------------------------------------------------------------------------
(* The steps outside the runs                                               *)

\* A run begins: the lock was free, so no run was active.
LEMMA InvokeStep ==
    ASSUME IInv, NEW s \in Runners, NEW mode \in Modes, Invoke(s, mode)
    PROVE  IInv'
<1> DEFINE quick == /\ ~Service
                    /\ file.phase = "ready" /\ file.mode = mode
                    /\ AsRecorded(mode, Before)
           this == [NoRun EXCEPT !.pc = IF quick THEN "read" ELSE "inhibit",
                                 !.mode = mode, !.previous = Before, !.quick = quick,
                                 !.left = IF quick THEN Managed \ Targets(mode, Before) ELSE {}]
<1>1. /\ TypeOK /\ lock = NoRunner /\ lock' = s /\ (mode = "split" => Service)
      /\ run' = [run EXCEPT ![s] = this]
      /\ UNCHANGED <<file, gate, replicas, wanted, pod, lingering, gateway, history>>
  BY DEF IInv, Invoke, LockFree
<1>2. genuine' \in [Deployments -> BOOLEAN]
  BY <1>1 DEF Invoke, Admissible, TypeOK
<1>3. Before \in Snapshots /\ (file # NoFile => Before = file.previous)
  BY <1>1 DEF Before, Running, Snapshots, Nobody, TypeOK, Files
<1>4. this \in Runs
  <2>1. Managed \ Targets(mode, Before) \in SUBSET Deployments /\ quick \in BOOLEAN
    BY DEF Managed, Deployments
  <2>2. (IF quick THEN "read" ELSE "inhibit") \in Steps
    BY DEF Steps
  <2> HIDE DEF quick
  <2> QED BY <1>3, <2>1, <2>2 DEF Runs, NoRun, Modes
<1>5. /\ this.pc = (IF quick THEN "read" ELSE "inhibit") /\ this.mode = mode
      /\ this.previous = Before /\ this.quick = quick
  BY DEF NoRun
<1>6. /\ run' \in [Runners -> Runs]
      /\ \A t \in Runners : t # s => run'[t].pc = run[t].pc
      /\ run'[s] = this
  <2> HIDE DEF this
  <2> QED BY <1>1, <1>4 DEF TypeOK
<1>7. TypeOK'
  BY <1>1, <1>2, <1>6 DEF TypeOK, gateway, history
<1>8. \A t \in Runners : run[t].pc = "idle"
  BY <1>1, SessionAssumption DEF IInv, RunInv, Owns
<1>9. Owns(s)'
  <2> HIDE DEF this
  <2>1. CASE quick
    BY <1>1, <1>3, <1>5, <1>6, <2>1 DEF Owns, QuickSteps
  <2>2. CASE ~quick
    <3> HIDE DEF quick
    <3> QED BY <1>1, <1>3, <1>5, <1>6, <2>2 DEF Owns, QuickSteps
  <2> QED BY <2>1, <2>2
<1>10. Knows(s)' /\ Starts(s)' /\ Proceeds(s)' /\ Empties(s)' /\ Deploys(s)' /\ Shuts(s)'
  <2>1. quick => ~Service /\ this.left = Managed \ Targets(mode, Before)
    BY DEF NoRun
  <2> HIDE DEF this, quick
  <2>2. CASE quick
    <3>1. open' = NoModel
      BY <1>1, <2>1, <2>2 DEF IInv, Standing, NoGateway, gateway
    <3> QED BY <1>5, <1>6, <2>1, <2>2, <3>1 DEF Knows, Starts, Proceeds, Empties, Deploys, Shuts,
                                             TargetsOf, StartsNext
  <2>3. CASE ~quick
    BY <1>5, <1>6, <2>3, AsideRun
  <2> QED BY <2>2, <2>3
<1>11. \A t \in Runners : RunInv(t)'
  BY <1>6, <1>8, <1>9, <1>10, IdleRun DEF RunInv
<1>12. GateCoversUptime'
  BY <1>1 DEF IInv, GateCoversUptime, Inhibiting, history
<1>13. Standing'
  BY <1>1, StandingKept DEF IInv, gateway, history
<1> QED BY <1>13, <1>7, <1>11, <1>12 DEF IInv

\* The controllers, the kubelet and outside hands.
LEMMA ClusterStep ==
    ASSUME IInv, NEW d \in Managed,
           Control(d) \/ Evict(d) \/ Lingers(d) \/ LingerExits(d) \/ OutsideScale(d) \/ Replace(d)
    PROVE  IInv'
<1> USE SessionAssumption DEF IInv
<1>0. d \in Deployments
  BY DEF Managed, Deployments
<1>1. CASE Sync(d)
  <2>1. run' = Untouched(d) /\ wanted' = [wanted EXCEPT ![d] = replicas[d]]
    BY <1>1 DEF Sync
  <2>2. TypeOK'
    BY <1>0, <1>1, <2>1, UntouchedFrame DEF Sync, TypeOK, gateway, history
  <2>3. UnmanagedOff' /\ \A e \in Deployments : Idle(e) => Idle(e)'
    BY <1>0, <1>1, <2>1 DEF TypeOK, Standing, UnmanagedOff, Off, Idle, Sync, Managed
  <2> QED BY <1>0, <1>1, <2>1, <2>2, <2>3, OutsideStep DEF Sync, gateway, history
<1>2. ASSUME NEW from, NEW to \in {"none", "starting", "ready", "terminating"},
             PodMoves(d, from, to), from # "none" \/ wanted[d] = 1, UNCHANGED <<early, tampered, lifted>>,
             faults' \in 0 .. MaxFaults
      PROVE  IInv'
  <2>1. run' = Untouched(d) /\ pod' = [pod EXCEPT ![d] = to]
    BY <1>2 DEF PodMoves
  <2>2. TypeOK'
    BY <1>0, <1>2, <2>1, UntouchedFrame DEF PodMoves, TypeOK, gateway
  <2>3. UnmanagedOff' /\ \A e \in Deployments : Idle(e) => Idle(e)'
    BY <1>0, <1>2, <2>1 DEF TypeOK, Standing, UnmanagedOff, Off, Idle, PodMoves, Managed
  <2> QED BY <1>0, <1>2, <2>1, <2>2, <2>3, OutsideStep DEF PodMoves, gateway
<1>3. CASE PodCreate(d) \/ PodReady(d) \/ PodDelete(d) \/ PodGone(d)
  BY <1>2, <1>3 DEF PodCreate, PodReady, PodDelete, PodGone, history, TypeOK
<1>4. CASE Evict(d)
  BY <1>2, <1>4 DEF Evict, Fault, TypeOK
<1>5. CASE Lingers(d) \/ LingerExits(d)
  <2>1. TypeOK'
    BY <1>0, <1>5 DEF Lingers, LingerExits, Fault, TypeOK, owner, gateway, history
  <2>2. \A e \in Deployments : (Idle(e) => Idle(e)') /\ (Off(e) => Off(e)')
    BY <1>0, <1>5 DEF TypeOK, Lingers, LingerExits, Off, Idle
  <2>3. (\A e \in Managed : Idle(e)) /\ lingering = {} => lingering' = {}
    BY <1>5 DEF Lingers, LingerExits, Idle
  <2> QED BY <1>5, <2>1, <2>2, <2>3, AsideStep DEF Lingers, LingerExits, gateway, history
<1>6. CASE OutsideScale(d)
  <2>1. run' = Untouched(d) /\ replicas' = [replicas EXCEPT ![d] = 1 - @] /\ tampered' = TRUE
    BY <1>6 DEF OutsideScale
  <2>2. TypeOK'
    BY <1>0, <1>6, <2>1, UntouchedFrame DEF OutsideScale, Fault, TypeOK, gateway
  <2>3. UnmanagedOff'
    BY <1>6, <2>1 DEF OutsideScale, Standing, UnmanagedOff, Off, Idle, TypeOK
  <2> QED BY <1>0, <1>6, <2>1, <2>2, <2>3, OutsideStep DEF OutsideScale, gateway
<1>7. CASE Replace(d)
  <2>1. run' = Untouched(d) /\ genuine' = [genuine EXCEPT ![d] = FALSE] /\ tampered' = TRUE
    BY <1>7 DEF Replace
  <2>2. TypeOK'
    BY <1>0, <1>7, <2>1, UntouchedFrame DEF Replace, Fault, TypeOK, gateway
  <2>3. UnmanagedOff'
    BY <1>7 DEF Replace, Standing, UnmanagedOff, Off, Idle
  <2> QED BY <1>0, <1>7, <2>1, <2>2, <2>3, OutsideStep DEF Replace, gateway
<1> QED BY <1>1, <1>3, <1>4, <1>5, <1>6, <1>7 DEF Control

\* After a power loss no run is active, and the gate is gone but so is its term.
LEMMA PowerLossStep ==
    ASSUME IInv, PowerLoss
    PROVE  IInv'
<1>1. TypeOK'
  <2>1. NoRun \in Runs
    BY DEF NoRun, Runs, Modes, Snapshots, Nobody
  <2>2. run' \in [Runners -> Runs]
    BY <2>1 DEF PowerLoss
  <2>3. pod' \in [Deployments -> {"none", "starting", "ready", "terminating"}]
    BY DEF IInv, TypeOK, PowerLoss
  <2>4. faults' \in 0 .. MaxFaults
    BY SessionAssumption DEF IInv, TypeOK, PowerLoss, Fault
  <2> QED BY <2>2, <2>3, <2>4 DEF IInv, TypeOK, PowerLoss, Adm!Reset
<1>2. \A s \in Runners : run'[s].pc = "idle"
  BY DEF PowerLoss, NoRun
<1>3. \A s \in Runners : RunInv(s)'
  BY <1>2, IdleRun
<1>4. GateCoversUptime'
  BY DEF PowerLoss, GateCoversUptime
<1>5. Standing'
  <2>1. \A d \in Deployments : Off(d) => Off(d)'
    BY DEF PowerLoss, Off, Idle
  <2> QED BY <2>1, SessionAssumption DEF IInv, PowerLoss, Adm!Reset, Standing, UnmanagedOff, NoGateway,
                 NeverBothAsked, Apart, OpenIsServed, ReadyIsDeployed, AsRecorded, Deployments
<1> QED BY <1>5, <1>1, <1>3, <1>4 DEF IInv

\* The gateway's steps stay within its contract.
LEMMA ServeStep ==
    ASSUME IInv, Serve
    PROVE  IInv'
<1>1. UNCHANGED <<owner, cluster, history>>
  BY DEF Serve
<1>2. open' \in {Model, NoModel} /\ open' \in {open, NoModel} /\ busy' \subseteq Clients
  BY DEF Serve, Adm!Begin, Adm!Finish, Adm!Reset, IInv, TypeOK
<1>3. TypeOK'
  BY <1>1, <1>2 DEF IInv, TypeOK, owner, cluster, history
<1> QED BY <1>1, <1>2, <1>3, AsideStep DEF cluster, history, Off, Idle

-----------------------------------------------------------------------------
(* The invariant holds of every behaviour                                   *)

\* The states a first run may find.
LEMMA InitInv == Init => IInv
<1> SUFFICES ASSUME Init PROVE IInv
  OBVIOUS
<1> USE SessionAssumption
<1>0. NoRun \in Runs /\ NoRun.pc = "idle"
  BY DEF NoRun, Runs, Modes, Snapshots, Nobody
<1>1. TypeOK
  <2>1. /\ replicas \in [Deployments -> {0, 1}] /\ wanted \in [Deployments -> {0, 1}]
        /\ pod \in [Deployments -> {"none", "starting", "ready", "terminating"}]
    BY DEF Init
  <2>2. run \in [Runners -> Runs] /\ genuine \in [Deployments -> BOOLEAN]
    BY <1>0 DEF Init
  <2>3. open \in {Model, NoModel} /\ busy \subseteq Clients
    BY DEF Init, Adm!Init
  <2>4. file \in Files
    BY DEF Init, Files
  <2>5. lock = NoRunner /\ lingering \subseteq Deployments
    BY DEF Init
  <2>6. faults \in 0 .. MaxFaults
    BY DEF Init
  <2>7. gate \in BOOLEAN /\ early \in BOOLEAN /\ tampered \in BOOLEAN /\ lifted \in BOOLEAN
    BY Zenon DEF Init
  <2> QED BY <2>1, <2>2, <2>3, <2>4, <2>5, <2>6, <2>7 DEF TypeOK
<1>2. \A s \in Runners : run[s].pc = "idle"
  BY <1>0 DEF Init
<1>3. \A s \in Runners : RunInv(s)
  BY <1>2 DEF RunInv, Owns, Knows, Starts, Proceeds, Progress, Empties, Emptied, Deploys, Deployed,
              Shuts, Shut, Stopping, Stopped, StartsNext
<1>4. GateCoversUptime
  BY DEF Init, GateCoversUptime, Inhibiting, NoFile
<1>5. Standing
  <2>1. PICK before \in Snapshots :
          /\ replicas = [d \in Deployments |-> IF d = before THEN 1 ELSE 0]
          /\ pod = [d \in Deployments |-> IF d = before THEN "ready" ELSE "none"]
    BY DEF Init
  <2>2. open = NoModel /\ file.phase # "ready"
    BY DEF Init, Adm!Init, NoFile
  <2>3. \A d \in Deployments : d # before => Off(d)
    BY <2>1 DEF Init, Off, Idle
  <2>4. before \in {"ai", "game", "none"}
    BY DEF Snapshots, Nobody
  <2> QED BY <2>1, <2>2, <2>3, <2>4 DEF Standing, UnmanagedOff, NoGateway, NeverBothAsked, Apart,
                                        OpenIsServed, ReadyIsDeployed, Managed, Deployments
<1> QED BY <1>1, <1>3, <1>4, <1>5 DEF IInv

\* Every step preserves it.
LEMMA NextInv == IInv /\ [Next]_vars => IInv'
<1> SUFFICES ASSUME IInv, [Next]_vars PROVE IInv'
  OBVIOUS
<1>1. ASSUME NEW s \in Runners, NEW mode \in Asked, Invoke(s, mode)
      PROVE  IInv'
  BY <1>1, InvokeStep, SessionAssumption DEF Modes
<1>2. ASSUME NEW s \in Runners, Stop(s) \/ Start(s)
      PROVE  IInv'
  BY <1>2, DrainingStep, DrainedStep, ReadingStep, Scale0Step, GoneStep, ListStep, ScanStep,
     StartingStep, Scale1Step, RolloutStep, AdmitStep DEF Stop, Start
<1>3. ASSUME NEW s \in Runners, Step(s) \/ Fail(s) \/ Kill(s)
      PROVE  IInv'
  BY <1>2, <1>3, InhibitStep, RecordStep, CommitStep, ReleaseStep, FinishedStep, AbortingStep,
     TrapStep,
     EndingStep DEF Step, Finish
<1>4. CASE UNCHANGED vars
  <2>1. TypeOK'
    BY <1>4 DEF IInv, TypeOK, vars, owner, cluster, gateway, history
  <2> QED BY <1>4, <2>1, AsideStep DEF vars, cluster, gateway, history, Off, Idle
<1> QED BY <1>1, <1>3, <1>4, ClusterStep, PowerLossStep, ServeStep DEF Next

\* The invariant is inductive: Init establishes it and every step preserves it.
THEOREM Invariant == Spec => []IInv
  BY InitInv, NextInv, PTL DEF Spec

\* Every variable keeps its type, and every run its place in the program.
THEOREM TypeCorrect == Spec => []TypeOK
  BY Invariant, PTL DEF IInv

\* Whatever fails, dies or interferes at whichever step, runs by themselves never
\* ask for the game and for the AI or image backends together (session.sh).
THEOREM NeverBoth == Spec => []NeverBothAsked
  BY Invariant, PTL DEF IInv, Standing

\* Managed builds are inhibited as long as a game or an unfinished transition is
\* on record, from the last write of the gate to the next power loss or to a
\* cancellation after its removal (session.sh:507).
THEOREM GateHolds == Spec => []GateCoversUptime
  BY Invariant, PTL DEF IInv

\* The game shares the GPUs with no other backend, not even with a process its
\* Pod left behind, unless a stop returned before the ReplicaSet controller had
\* seen the scale (session.sh:81).
THEOREM ExclusiveHolds == Spec => []ExclusiveUnlessLag
<1>1. IInv => ExclusiveUnlessLag
  BY DEF IInv, Standing, Apart, Off, Idle, ExclusiveUnlessLag, Overlap, Holds, Listed
<1> QED BY <1>1, Invariant, PTL

\* An open gateway has its AI Deployment scaled up, whichever run failed before.
THEOREM OpenServed == Spec => []OpenIsServed
  BY Invariant, PTL DEF IInv, Standing

\* What the record calls ready is what the cluster was asked for.
THEOREM ReadyDeployed == Spec => []ReadyIsDeployed
  BY Invariant, PTL DEF IInv, Standing

\* No step of any run changes the snapshot once it is on record.
LEMMA SnapshotStep ==
    ASSUME IInv, [Next]_vars, file # NoFile
    PROVE  file'.previous = file.previous
<1>1. file \in Files \ {NoFile}
  BY DEF IInv, TypeOK
<1>2. CASE UNCHANGED file
  BY <1>2
<1>3. ASSUME NEW s \in Runners, Record(s)
      PROVE  file'.previous = file.previous
  BY <1>3 DEF Record, Recorded, At, IInv, RunInv, Owns
<1>4. ASSUME NEW s \in Runners, Commit(s) \/ MarkFailed(s)
      PROVE  file'.previous = file.previous
  BY <1>1, <1>4 DEF Commit, MarkFailed, Files
<1>5. ASSUME NEW s \in Runners, Step(s) \/ Fail(s) \/ Kill(s)
      PROVE  UNCHANGED file \/ Record(s) \/ Commit(s) \/ MarkFailed(s)
  BY <1>5 DEF Step, Stop, Start, Finish, Inhibit, Draining, Drained, Read, Scale0, Gone, List, Scan,
              Move, Starting, Candidate, Scale1, Rollout, Admit, Release, Untrap, Settle, Refused,
              TimesOut,
              Fail, Trap, Kill
<1>6. (\E s \in Runners, mode \in Asked : Invoke(s, mode)) => UNCHANGED file
  BY DEF Invoke
<1>7. ASSUME NEW d \in Managed,
             Control(d) \/ Evict(d) \/ Lingers(d) \/ LingerExits(d) \/ OutsideScale(d) \/ Replace(d)
      PROVE  UNCHANGED file
  BY <1>7 DEF Control, Sync, PodCreate, PodReady, PodDelete, PodGone, PodMoves, Evict, Lingers,
              LingerExits, OutsideScale, Replace, owner
<1>8. PowerLoss \/ Serve \/ UNCHANGED vars => UNCHANGED file
  BY DEF PowerLoss, Serve, vars, owner
<1> QED BY <1>2, <1>3, <1>4, <1>5, <1>6, <1>7, <1>8 DEF Next

\* `restore` restores what the first run found, after any failures and retries.
THEOREM SnapshotStays == Spec => SnapshotKept
<1>1. IInv /\ [Next]_vars => [file # NoFile => file'.previous = file.previous]_vars
  BY SnapshotStep
<1> QED BY <1>1, Invariant, PTL DEF Spec, SnapshotKept

\* A step of a run changes only Deployments it has checked and nobody touched since.
LEMMA RecordedStep ==
    ASSUME IInv, [Next]_vars, NEW d \in Deployments, ~genuine[d], replicas'[d] # replicas[d]
    PROVE  faults' # faults
<1>1. ASSUME NEW s \in Runners, Scale0(s) \/ Scale1(s)
      PROVE  FALSE
  <2>1. genuine[Unit(s)]
    BY <1>1 DEF Scale0, Scale1, At, Fresh, IInv, RunInv, Knows
  <2>2. \A e \in Deployments : e # Unit(s) => replicas'[e] = replicas[e]
    BY <1>1 DEF Scale0, Scale1, IInv, TypeOK
  <2> QED BY <2>1, <2>2
<1>2. ASSUME NEW s \in Runners, Step(s) \/ Fail(s) \/ Kill(s)
      PROVE  UNCHANGED replicas \/ Scale0(s) \/ Scale1(s)
  BY <1>2 DEF Step, Stop, Start, Finish, Inhibit, Record, Draining, Drained, Read, Gone, List, Scan,
              Move, Starting, Candidate, Rollout, Admit, Commit, Release, Untrap, Settle, Refused,
              TimesOut,
              Fail, Trap, MarkFailed, Kill, cluster
<1>3. (\E s \in Runners, mode \in Asked : Invoke(s, mode)) => UNCHANGED replicas
  BY DEF Invoke
<1>4. ASSUME NEW e \in Managed,
             Control(e) \/ Evict(e) \/ Lingers(e) \/ LingerExits(e) \/ Replace(e)
      PROVE  UNCHANGED replicas
  BY <1>4 DEF Control, Sync, PodCreate, PodReady, PodDelete, PodGone, PodMoves, Evict, Lingers,
              LingerExits, Replace
<1>5. ASSUME NEW e \in Managed, OutsideScale(e)
      PROVE  faults' # faults
  BY <1>5 DEF OutsideScale, Fault, IInv, TypeOK
<1>6. PowerLoss \/ Serve \/ UNCHANGED vars => UNCHANGED replicas
  BY DEF PowerLoss, Serve, vars, cluster
<1> QED BY <1>1, <1>2, <1>3, <1>4, <1>5, <1>6 DEF Next

\* A Deployment replaced by another of its name is never scaled by a run.
THEOREM OnlyRecordedScaled == Spec => OnlyRecorded
<1>1. IInv /\ [Next]_vars =>
        [\A d \in Deployments : ~genuine[d] /\ replicas'[d] # replicas[d] => faults' # faults]_vars
  BY RecordedStep
<1> QED BY <1>1, Invariant, PTL DEF Spec, OnlyRecorded

-----------------------------------------------------------------------------
(* The AI Pod is stopped when the gateway is quiet                           *)

\* From the end of the drain on no request is under way: none may begin.
Dry(s) == run[s].pc \in Shut \ {"drained"} => busy = {}

\* Once its rollout is over, the ReplicaSet of the AI Deployment wants its Pod.
Risen(s) ==
    \/ tampered \/ run[s].quick
    \/ /\ run[s].pc = "admit" \/ (run[s].pc \in StartsNext \union {"rollout"} /\ "ai" \notin run[s].left)
       /\ "ai" \in TargetsOf(s)
       => wanted["ai"] = 1

\* Without the service there is no gateway, and no request.
NoRequests == ~Service => busy = {}

\* A gateway that is open, or not yet quiet, has a backend that both the
\* Deployment and its ReplicaSet want.
Backed == open = Model \/ busy # {} => replicas["ai"] = 1 /\ wanted["ai"] = 1

DInv ==
    /\ \A s \in Runners : Dry(s) /\ Risen(s)
    /\ NoRequests
    /\ tampered \/ Backed

\* At the other steps a run relies on neither.
LEMMA AsideDry ==
    ASSUME NEW s \in Runners, run'[s].pc \notin Shut \/ run'[s].pc = "drained"
    PROVE  Dry(s)' /\ Risen(s)'
  BY DEF Dry, Risen, Shut, Stopped, StartsNext

\* What the steps of a run leave alone.
LEMMA RunLeaves ==
    ASSUME IInv, NEW s \in Runners, Step(s) \/ Fail(s) \/ Kill(s)
    PROVE  /\ UNCHANGED <<wanted, busy, tampered>>
           /\ UNCHANGED replicas \/ Scale0(s) \/ Scale1(s)
           /\ open' \in {open, NoModel} \/ Admit(s)
           /\ run[s].pc # "idle"
<1>1. CASE Stop(s)
  BY <1>1 DEF Stop, Draining, Drained, Read, Scale0, Gone, List, Scan, Move, At, Close, Adm!SetOpen,
              cluster, gateway, history
<1>2. CASE Start(s)
  BY <1>2 DEF Start, Starting, Candidate, Scale1, Rollout, Admit, StartsNext, At, Close, Adm!SetOpen,
              cluster, gateway, history
<1>3. CASE Inhibit(s) \/ Record(s) \/ Finish(s)
  BY <1>3 DEF Inhibit, Record, Finish, Commit, Release, Untrap, Settle, At, cluster, gateway, history
<1>4. CASE Refused(s) \/ TimesOut(s) \/ Trap(s) \/ MarkFailed(s)
  BY <1>4 DEF Refused, TimesOut, Trap, MarkFailed, Conflict, At, Close, Adm!SetOpen, cluster, gateway,
              history
<1>5. CASE Fail(s) \/ Kill(s)
  BY <1>5 DEF Fail, Kill, Steps, cluster, gateway, history
<1> QED BY <1>1, <1>2, <1>3, <1>4, <1>5 DEF Step
\* A run that is moved on, and at most given another rest.
LEMMA DryStep ==
    ASSUME IInv, DInv, NEW s \in Runners, Step(s) \/ Fail(s) \/ Kill(s)
    PROVE  Dry(s)' /\ Risen(s)'
<1> USE RunLeaves
<1>0. run \in [Runners -> Runs] /\ RunInv(s) /\ Dry(s) /\ Risen(s)
  BY DEF IInv, TypeOK, DInv
<1>1. CASE Drained(s)
  BY <1>1, <1>0, GoFrame DEF Drained, Move, Quiet, Dry, Risen, StartsNext, Steps, IInv
<1>2. CASE List(s)
  <2>1. /\ run'[s].pc \in {"scan", "scan2"} /\ run[s].pc \in {"list", "list2"}
        /\ run'[s].pc = "scan2" => run[s].pc = "list2"
        /\ Keeps(s) /\ run'[s].left = run[s].left
    BY <1>2, <1>0, GoFrame DEF List, Move, At, Steps, IInv
  <2> QED BY <1>0, <2>1 DEF Dry, Risen, Keeps, TargetsOf, Shut, Stopped, StartsNext
<1>3. CASE Scan(s)
  <2>1. /\ run'[s].pc \in {"scale1", "settle", "admit", "starting"} /\ run[s].pc \in {"scan", "scan2"}
        /\ run'[s].pc = "scale1" => run[s].pc = "scan2"
        /\ run'[s].pc = "admit" => Desired(s) = Nobody
        /\ Keeps(s) /\ run'[s].left = run[s].left
    BY <1>3, <1>0, GoFrame DEF Scan, Move, At, Steps, IInv
  <2>2. Desired(s) = Nobody => TargetsOf(s) = {}
    BY DEF TargetsOf, Targets, Desired, Selected, Nobody
  <2> QED BY <1>0, <2>1, <2>2 DEF Dry, Risen, Keeps, TargetsOf, Shut, Stopped, StartsNext
<1>4. CASE Read(s) \/ Candidate(s)
  <2>1. /\ run'[s].pc \in {"gone", "scale0", "scale1", "list2"} /\ run[s].pc \in {"read", "candidate"}
        /\ run'[s].pc \in {"scale1", "list2"} => run[s].pc = "candidate"
        /\ Keeps(s) /\ run'[s].left = run[s].left
    BY <1>4, <1>0 DEF Read, Candidate, At, Keeps, Runs
  <2> QED BY <1>0, <2>1 DEF Dry, Risen, Keeps, TargetsOf, Shut, Stopped, StartsNext
<1>5. CASE Scale0(s) \/ Scale1(s)
  <2>1. Unit(s) \in Deployments /\ "gone" \in Steps /\ "rollout" \in Steps
    BY DEF Unit, Deployments, Steps
  <2>2. /\ run'[s].pc \in {"gone", "rollout"} /\ run[s].pc \in {"scale0", "scale1"}
        /\ run'[s].pc = "rollout" => run[s].pc = "scale1"
        /\ Keeps(s) /\ run'[s].left = run[s].left
    BY <1>5, <1>0, <2>1, UntouchedGoFrame DEF Scale0, Scale1, At, IInv
  <2> QED BY <1>0, <2>2 DEF Dry, Risen, Keeps, TargetsOf, Shut, Stopped, StartsNext
<1>6. CASE Gone(s)
  <2>1. /\ run'[s].pc \in {"read", "rollout", "list"} /\ run[s].pc = "gone"
        /\ run'[s].pc = "rollout" => run[s].quick
        /\ Keeps(s)
    BY <1>6, <1>0 DEF Gone, At, Keeps, Runs
  <2> QED BY <1>0, <2>1 DEF Dry, Risen, Keeps, Shut, Stopped, StartsNext
<1>7. CASE Starting(s)
  <2>1. /\ run'[s].pc = "candidate" /\ run[s].pc = "starting"
        /\ Keeps(s) /\ run'[s].left = TargetsOf(s)
    BY <1>7, <1>0 DEF Starting, At, Keeps, Runs, TargetsOf
  <2> QED BY <1>0, <2>1 DEF Dry, Risen, Keeps, TargetsOf, Shut, Stopped, StartsNext
\* The rollout of the AI Deployment is over only when its ReplicaSet wants the Pod.
<1>8. CASE Rollout(s)
  <2>1. /\ run'[s].pc \in {"settle", "admit", "candidate"} /\ run[s].pc = "rollout"
        /\ run'[s].pc = "settle" <=> run[s].quick
        /\ Keeps(s) /\ run'[s].left = Rest(s)
        /\ wanted[Unit(s)] = replicas[Unit(s)]
        /\ run'[s].pc = "admit" => Rest(s) = {}
    BY <1>8, <1>0 DEF Rollout, RolledOut, At, Keeps, Runs
  <2>2. ASSUME ~tampered, ~run[s].quick, "ai" \in TargetsOf(s), "ai" \notin Rest(s)
        PROVE  wanted["ai"] = 1
    <3>1. replicas["ai"] = 1
      BY <1>0, <2>1, <2>2 DEF RunInv, Deploys, Deployed
    <3>2. CASE "ai" \in run[s].left
      BY <2>1, <3>1, <3>2 DEF Unit
    <3>3. CASE "ai" \notin run[s].left
      BY <1>0, <2>1, <2>2, <3>3 DEF Risen
    <3> QED BY <3>2, <3>3
  <2> QED BY <1>0, <2>1, <2>2 DEF Dry, Risen, Keeps, TargetsOf, Shut, Stopped, StartsNext
\* Without the service there is no drain.
<1>9. CASE Record(s)
  <2>1. /\ run'[s].pc = IF Service THEN "draining" ELSE "read"
    BY <1>9, <1>0 DEF Record, Runs
  <2> QED BY <1>0, <2>1 DEF Dry, Risen, DInv, NoRequests, Shut, Stopped, StartsNext
<1>10. CASE Inhibit(s) \/ Draining(s) \/ Admit(s) \/ Finish(s) \/ Refused(s) \/ TimesOut(s)
            \/ Trap(s) \/ MarkFailed(s) \/ Fail(s) \/ Kill(s)
  <2>1. run'[s].pc \in {"record", "drained", "commit", "release", "released", "idle", "trap", "failed"}
    BY <1>10, <1>0 DEF Inhibit, Draining, Admit, Finish, Commit, Release, Untrap, Settle, Refused,
                       TimesOut, Trap, MarkFailed, Fail, Kill, Abort, Go, End, NoRun, Runs
  <2> QED BY <2>1, AsideDry DEF Shut, Stopped, StartsNext
<1> QED BY <1>1, <1>2, <1>3, <1>4, <1>5, <1>6, <1>7, <1>8, <1>9, <1>10 DEF Step, Stop, Start
\* An idle run relies on neither, and others are idle while one is active.
LEMMA OthersDry ==
    ASSUME IInv, NEW s \in Runners, run[s].pc # "idle", \A t \in Runners : t # s => run'[t].pc = run[t].pc,
           Dry(s)', Risen(s)'
    PROVE  \A t \in Runners : Dry(t)' /\ Risen(t)'
<1>1. \A t \in Runners : t # s => run'[t].pc = "idle"
  BY OthersIdle
<1> QED BY <1>1, AsideDry DEF Shut, Stopped, StartsNext

\* A run touches no other.
LEMMA OthersStay ==
    ASSUME IInv, NEW s \in Runners, Step(s) \/ Fail(s) \/ Kill(s)
    PROVE  \A t \in Runners : t # s => run'[t].pc = run[t].pc
<1>0. run \in [Runners -> Runs]
  BY DEF IInv, TypeOK
<1>1. CASE Scale0(s) \/ Scale1(s)
  BY <1>0, <1>1, UntouchedGoFrame DEF Scale0, Scale1, Unit, Deployments, Steps, IInv
<1>2. CASE Stop(s) /\ ~Scale0(s)
  BY <1>0, <1>2 DEF Stop, Draining, Drained, Read, Gone, List, Scan, Move, Go
<1>3. CASE Start(s) /\ ~Scale1(s)
  BY <1>0, <1>3 DEF Start, Starting, Candidate, Rollout, Admit, Go
<1>4. CASE Inhibit(s) \/ Record(s) \/ Finish(s)
  BY <1>0, <1>4 DEF Inhibit, Record, Finish, Commit, Release, Untrap, Settle, Go, End
<1>5. CASE Refused(s) \/ TimesOut(s) \/ Trap(s) \/ MarkFailed(s) \/ Fail(s) \/ Kill(s)
  BY <1>0, <1>5 DEF Refused, TimesOut, Trap, MarkFailed, Fail, Kill, Abort, Go, End
<1> QED BY <1>1, <1>2, <1>3, <1>4, <1>5 DEF Step

\* A step of a run: the AI Deployment is scaled down when the gateway is quiet,
\* and the gateway opens when its ReplicaSet wants it.
LEMMA RunBacked ==
    ASSUME IInv, DInv, NEW s \in Runners, Step(s) \/ Fail(s) \/ Kill(s)
    PROVE  DInv'
<1>0. RunInv(s) /\ Dry(s) /\ Risen(s) /\ replicas \in [Deployments -> {0, 1}]
  BY DEF IInv, TypeOK, DInv
<1>1. \A t \in Runners : Dry(t)' /\ Risen(t)'
  BY RunLeaves, DryStep, OthersStay, OthersDry
<1>2. NoRequests'
  BY RunLeaves DEF DInv, NoRequests
<1>3. ASSUME ~tampered
      PROVE  Backed'
  <2>0. Backed
    BY <1>3 DEF DInv
  <2>1. CASE Scale0(s)
    BY <1>0, <2>1, SessionAssumption DEF Scale0, At, RunInv, Shuts, Dry, Shut, Backed, gateway
  <2>2. CASE Scale1(s)
    BY <1>0, <2>2, SessionAssumption DEF Scale1, At, RunInv, Shuts, Dry, Shut, StartsNext, Backed, gateway
  <2>3. CASE Admit(s)
    <3>1. run[s].pc = "admit" /\ open' = (IF Service /\ Desired(s) = "ai" THEN Model ELSE NoModel)
          /\ UNCHANGED <<busy, replicas, wanted>>
      BY <2>3 DEF Admit, At, Adm!SetOpen, cluster
    <3>2. Desired(s) = "ai" => "ai" \in TargetsOf(s)
      BY DEF TargetsOf, Targets, Desired, Nobody
    <3>3. ~run[s].quick
      BY <1>0, <3>1 DEF RunInv, Owns, QuickSteps
    <3>4. Desired(s) = "ai" => replicas["ai"] = 1 /\ wanted["ai"] = 1
      BY <1>0, <1>3, <3>1, <3>2, <3>3 DEF RunInv, Deploys, Deployed, AsRecorded, Risen, TargetsOf,
                                          Managed, Deployments
    <3> QED BY <2>0, <3>1, <3>4, SessionAssumption DEF Backed
  <2>4. CASE UNCHANGED replicas /\ ~Admit(s)
    BY <2>0, <2>4, RunLeaves, SessionAssumption DEF Backed
  <2> QED BY <2>1, <2>2, <2>3, <2>4, RunLeaves
<1> QED BY <1>1, <1>2, <1>3, RunLeaves DEF DInv
\* A run that begins has been through nothing yet; a quick one needs no service.
LEMMA InvokeBacked ==
    ASSUME IInv, DInv, NEW s \in Runners, NEW mode \in Asked, Invoke(s, mode)
    PROVE  DInv'
<1>0. run \in [Runners -> Runs]
  BY DEF IInv, TypeOK
<1>1. /\ \A t \in Runners : t # s => run'[t] = run[t]
      /\ run'[s].quick => ~Service
      /\ run'[s].pc = IF run'[s].quick THEN "read" ELSE "inhibit"
  BY <1>0, Zenon DEF Invoke, NoRun
<1>2. UNCHANGED <<replicas, wanted, open, busy, tampered>>
  BY DEF Invoke, gateway, history
<1>3. \A t \in Runners : t # s => run[t].pc = "idle"
  BY SessionAssumption DEF Invoke, LockFree, IInv, RunInv, Owns
<1>4. Dry(s)' /\ Risen(s)'
  BY <1>1, <1>2 DEF DInv, NoRequests, Dry, Risen, Shut, Stopped, StartsNext
<1>5. ASSUME NEW t \in Runners, t # s
      PROVE  Dry(t)' /\ Risen(t)'
  BY <1>1, <1>3, <1>5, AsideDry DEF Shut, Stopped, StartsNext
<1> QED BY <1>2, <1>4, <1>5 DEF DInv, NoRequests, Backed

\* The controller follows the Deployment, and what the Deployment asks for stays.
LEMMA ClusterBacked ==
    ASSUME IInv, DInv, NEW d \in Managed,
           Control(d) \/ Evict(d) \/ Lingers(d) \/ LingerExits(d) \/ OutsideScale(d) \/ Replace(d)
    PROVE  DInv'
<1>0. d \in Deployments /\ wanted \in [Deployments -> {0, 1}] /\ run \in [Runners -> Runs]
  BY DEF Managed, Deployments, IInv, TypeOK
<1>1. UNCHANGED <<open, busy>> /\ (run' = Untouched(d) \/ UNCHANGED run)
  BY DEF Control, Sync, PodCreate, PodReady, PodDelete, PodGone, PodMoves, Evict, Lingers, LingerExits,
         OutsideScale, Replace, owner, gateway
<1>2. \A s \in Runners : run'[s].pc = run[s].pc /\ Keeps(s) /\ run'[s].left = run[s].left
  BY <1>0, <1>1, UntouchedFrame DEF IInv, Keeps
<1>3. \/ tampered'
      \/ UNCHANGED <<replicas, tampered>> /\ (wanted' = [wanted EXCEPT ![d] = replicas[d]] \/ UNCHANGED wanted)
  BY DEF Control, Sync, PodCreate, PodReady, PodDelete, PodGone, PodMoves, Evict, Lingers, LingerExits,
         OutsideScale, Replace, history
<1>4. ASSUME NEW s \in Runners
      PROVE  Dry(s)' /\ Risen(s)'
  <2>1. RunInv(s) /\ Dry(s) /\ Risen(s)
    BY DEF IInv, DInv
  <2>2. Dry(s)'
    BY <1>1, <1>2, <2>1 DEF Dry
  <2>3. TargetsOf(s)' = TargetsOf(s)
    BY <1>2 DEF TargetsOf, Keeps
  <2>4. CASE tampered'
    BY <2>4, <2>2 DEF Risen
  <2>5. CASE ~tampered'
    <3>1. ASSUME ~run[s].quick, "ai" \in TargetsOf(s),
                 run[s].pc = "admit" \/ (run[s].pc \in StartsNext \union {"rollout"} /\ "ai" \notin run[s].left)
          PROVE  replicas["ai"] = 1
      BY <1>3, <2>1, <2>5, <3>1 DEF RunInv, Deploys, Deployed, AsRecorded, Rest, TargetsOf, Managed,
                                   Deployments
    <3> QED BY <1>0, <1>2, <1>3, <2>1, <2>2, <2>3, <2>5, <3>1 DEF Risen, Keeps, Deployments
  <2> QED BY <2>4, <2>5
<1>5. tampered' \/ Backed'
  BY <1>0, <1>1, <1>3 DEF DInv, Backed, Deployments
<1> QED BY <1>1, <1>4, <1>5 DEF DInv, NoRequests

\* Initially nothing is open, and the invariant is preserved.
LEMMA BackedInit == Init => DInv
  BY SessionAssumption DEF Init, Adm!Init, DInv, Dry, Risen, NoRequests, Backed, NoRun, Shut, Stopped,
                           StartsNext

\* Every step preserves it.
LEMMA BackedNext == IInv /\ DInv /\ [Next]_vars => DInv'
<1> SUFFICES ASSUME IInv, DInv, [Next]_vars PROVE DInv'
  OBVIOUS
<1>1. CASE PowerLoss
  BY <1>1, AsideDry, SessionAssumption DEF PowerLoss, Adm!Reset, NoRun, DInv, NoRequests, Backed, Shut,
                                           Stopped, StartsNext
\* A request begins only at an open gateway, which a run in Shut has closed.
<1>2. CASE Serve
  <2>1. UNCHANGED <<run, replicas, wanted, tampered>> /\ open' \in {open, NoModel}
    BY <1>2 DEF Serve, Adm!Begin, Adm!Finish, Adm!Reset, owner, cluster, history
  <2>2. busy' \subseteq busy \/ open = Model
    BY <1>2 DEF Serve, Adm!Begin, Adm!Finish, Adm!Reset, IInv, TypeOK
  <2>3. ASSUME NEW s \in Runners
        PROVE  Dry(s)' /\ Risen(s)'
    <3>1. Dry(s) /\ Risen(s) /\ Shuts(s)
      BY DEF IInv, RunInv, DInv
    <3> QED BY <2>1, <2>2, <3>1, SessionAssumption DEF Dry, Risen, Shuts, TargetsOf
  <2>4. NoRequests'
    BY <2>2, SessionAssumption DEF DInv, NoRequests, IInv, Standing, NoGateway
  <2>5. tampered' \/ Backed'
    BY <2>1, <2>2, SessionAssumption DEF DInv, Backed
  <2> QED BY <2>3, <2>4, <2>5 DEF DInv
<1>3. CASE UNCHANGED vars
  BY <1>3 DEF vars, owner, cluster, gateway, history, DInv, Dry, Risen, TargetsOf, NoRequests, Backed
<1> QED BY <1>1, <1>2, <1>3, InvokeBacked, RunBacked, ClusterBacked DEF Next

\* The Pod of a serving backend is only ever deleted when no request is under way:
\* not even a run that follows a dead one, or a controller that acts late on the
\* scale of an earlier session, takes it from under a request (session.sh:482).
THEOREM DrainedBeforeStop == Spec => DrainedFirst
<1>1. ASSUME IInv, DInv, [Next]_vars, pod["ai"] = "ready", pod'["ai"] = "terminating", faults' = faults
      PROVE  tampered \/ busy = {}
  <2>0. pod \in [Deployments -> {"none", "starting", "ready", "terminating"}] /\ faults + 1 # faults
    BY <1>1, SessionAssumption DEF IInv, TypeOK
  <2>1. ASSUME NEW d \in Managed, Control(d) \/ Evict(d) \/ Lingers(d) \/ LingerExits(d)
                                     \/ OutsideScale(d) \/ Replace(d)
        PROVE  wanted["ai"] = 0
    BY <1>1, <2>0, <2>1 DEF Control, Sync, PodCreate, PodReady, PodDelete, PodGone, PodMoves, Evict,
                            Lingers, LingerExits, OutsideScale, Replace, Fault, Deployments
  <2>2. ASSUME NEW s \in Runners, Step(s) \/ Fail(s) \/ Kill(s)
        PROVE  pod' = pod
    BY <2>2 DEF Step, Stop, Start, Finish, Inhibit, Record, Draining, Drained, Read, Scale0, Gone, List,
                Scan, Move, Starting, Candidate, Scale1, Rollout, Admit, Commit, Release, Untrap, Settle,
                Refused, TimesOut, Fail, Trap, MarkFailed, Kill, cluster
  <2>3. (\E s \in Runners, mode \in Asked : Invoke(s, mode)) \/ Serve \/ UNCHANGED vars => pod' = pod
    BY DEF Invoke, Serve, vars, cluster
  <2>4. ~PowerLoss
    BY <1>1, <2>0 DEF PowerLoss, Fault
  <2>5. wanted["ai"] = 0
    BY <1>1, <2>1, <2>2, <2>3, <2>4 DEF Next
  <2> QED BY <1>1, <2>5 DEF DInv, Backed
<1>2. IInv /\ DInv /\ [Next]_vars
        => [pod["ai"] = "ready" /\ pod'["ai"] = "terminating" /\ faults' = faults
              => tampered \/ busy = {}]_vars
  BY <1>1
<1> QED BY <1>2, Invariant, BackedInit, BackedNext, PTL DEF Spec, DrainedFirst
=============================================================================
