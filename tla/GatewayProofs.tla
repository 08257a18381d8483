--------------------------- MODULE GatewayProofs ---------------------------
(***************************************************************************)
(* What GatewayBoundary keeps for every set of requests, every limit and    *)
(* every number of cancellations and restarts.                              *)
(***************************************************************************)
EXTENDS Gateway, FiniteSetTheorems, TLAPS

\* A handler between admission and its last step.
Handling(r) == pc[r] \in {"wait", "reply"} \union Unwinding

\* A backend task exists only while its handler runs, and a running handler
\* holds a slot: WorkHoldsSlot alone says nothing of a handler that has ended.
HandlersHoldSlots ==
    \A r \in Requests :
        /\ back[r] # "none" => Handling(r)
        /\ Handling(r) => r \in active

Bounded == IsFiniteSet(active) /\ Cardinality(active) <= Limit

\* A gateway seen idle is still closed: only an open one admits.
IdleIsClosed == idleSeen => state.phase # "ready" /\ \A r \in Requests : ~Working(r)

ReadyHasModel == state.phase = "ready" => state.model \in Models

IInv == TypeOK /\ HandlersHoldSlots /\ Bounded /\ IdleIsClosed /\ ReadyHasModel

-----------------------------------------------------------------------------
\* Every counter stays a table of naturals when one request is counted.
LEMMA CountType ==
    ASSUME requests \in [Results -> [Requests -> Nat]],
           NEW result \in Results, NEW r \in Requests, Count(result, r)
    PROVE  requests' \in [Results -> [Requests -> Nat]]
<1>1. requests[result] \in [Requests -> Nat]
  OBVIOUS
<1>2. [requests[result] EXCEPT ![r] = @ + 1] \in [Requests -> Nat]
  BY <1>1
<1>3. QED
  BY <1>2 DEF Count

\* The finally block leaves every per-request table well typed.
LEMMA UnwindType ==
    ASSUME TypeOK, NEW r \in Requests, NEW to \in Unwinding, Unwind(r, to)
    PROVE  /\ pc' \in [Requests -> {"idle", "wait", "reply"} \union Unwinding \union Ended]
           /\ pend' \in [Requests -> SUBSET {"deadline", "control"}]
           /\ back' \in [Requests -> {"none", "running", "cancelling"} \union BackDone]
           /\ watch' \in [Requests -> {"none", "running", "cancelling"} \union WatchDone]
BY DEF TypeOK, Unwind, CancelChild, Unwinding, BackDone, WatchDone

\* So does an except clause that first answers the caller.
LEMMA AnswerType ==
    ASSUME TypeOK, NEW r \in Requests, Answer(r)
    PROVE  /\ pc' \in [Requests -> {"idle", "wait", "reply"} \union Unwinding \union Ended]
           /\ pend' \in [Requests -> SUBSET {"deadline", "control"}]
           /\ back' \in [Requests -> {"none", "running", "cancelling"} \union BackDone]
           /\ watch' \in [Requests -> {"none", "running", "cancelling"} \union WatchDone]
BY DEF TypeOK, Answer

\* What every step of an admitted handler before its last one changes: its own
\* place and its children, and never who holds a slot.
Stays(r) ==
    /\ Handling(r)
    /\ \/ /\ pc' = [pc EXCEPT ![r] = "reply"]
          /\ UNCHANGED back
       \/ \E to \in Unwinding :
             /\ pc' = [pc EXCEPT ![r] = to]
             /\ back' = [back EXCEPT ![r] = CancelChild(@)]
    /\ UNCHANGED <<state, active, idleSeen>>

\* Both except clauses and the finally block are such steps.
LEMMA HandlerStays ==
    ASSUME TypeOK, NEW r \in Requests,
           HandlerStruck(r) \/ HandlerWakes(r) \/ ReplyEnds(r)
    PROVE  TypeOK' /\ Stays(r)
<1> USE GatewayAssumption
<1>1. CASE ReplyEnds(r)
  <2>1. Unwind(r, "cleanup") /\ UNCHANGED <<state, active, requests, env, history>>
    BY <1>1 DEF ReplyEnds
  <2>2. "cleanup" \in Unwinding
    BY DEF Unwinding
  <2>3. TypeOK'
    BY <2>1, <2>2, UnwindType DEF TypeOK, env, history
  <2>4. Stays(r)
    BY <1>1, <2>1, <2>2 DEF ReplyEnds, Stays, Handling, Unwind, history
  <2>5. QED
    BY <2>3, <2>4
<1>2. CASE HandlerStruck(r) \/ HandlerWakes(r)
  <2>1. /\ pc[r] = "wait"
        /\ UNCHANGED <<state, active, env, history>>
    BY <1>2 DEF HandlerStruck, HandlerWakes
  <2>2. \/ /\ Answer(r) \/ \E to \in Unwinding : Unwind(r, to)
           /\ UNCHANGED requests \/ \E result \in Results : Count(result, r)
    BY <1>2 DEF HandlerStruck, HandlerWakes, WasCancelled, TimedOut, Unwinding,
                Results, TypeOK
  <2>3. requests' \in [Results -> [Requests -> Nat]]
    BY <2>2, CountType DEF TypeOK
  <2>4. /\ pc' \in [Requests -> {"idle", "wait", "reply"} \union Unwinding \union Ended]
        /\ pend' \in [Requests -> SUBSET {"deadline", "control"}]
        /\ back' \in [Requests -> {"none", "running", "cancelling"} \union BackDone]
        /\ watch' \in [Requests -> {"none", "running", "cancelling"} \union WatchDone]
    BY <2>2, AnswerType, UnwindType
  <2>5. TypeOK'
    BY <2>1, <2>3, <2>4 DEF TypeOK, env, history
  <2>6. Stays(r)
    BY <2>1, <2>2 DEF Stays, Handling, Answer, Unwind, history
  <2>7. QED
    BY <2>5, <2>6
<1>3. QED
  BY <1>1, <1>2

-----------------------------------------------------------------------------
(* The invariant is inductive                                               *)

\* __init__ establishes the invariant: closed, and no task exists.
LEMMA InitIInv == Init => IInv
<1> SUFFICES ASSUME Init PROVE IInv
  OBVIOUS
<1> USE GatewayAssumption DEF Init
<1>1. TypeOK
  <2>1. state \in [phase: Phases, model: Models \union {NoModel}, images: BOOLEAN]
    BY DEF Closed, Phases
  <2>2. requests \in [Results -> [Requests -> Nat]]
    BY DEF NoCounts
  <2>3. status \in [Requests -> Results \ {"cancelled"}]
    BY DEF Results, Default
  <2>4. cancels \in 0 .. MaxCancels /\ restarts \in 0 .. MaxRestarts
    OBVIOUS
  <2>5. QED
    BY <2>1, <2>2, <2>3, <2>4 DEF TypeOK
<1>2. HandlersHoldSlots
  BY DEF HandlersHoldSlots, Handling, Unwinding
<1>3. Bounded
  BY FS_EmptySet DEF Bounded
<1>4. IdleIsClosed /\ ReadyHasModel
  BY DEF IdleIsClosed, ReadyHasModel, Closed
<1>5. QED
  BY <1>1, <1>2, <1>3, <1>4 DEF IInv

\* A control call (the only way to phase ready) keeps the invariant.
LEMMA ControlStep ==
    ASSUME IInv, NEW phase \in Phases, NEW model \in Models \union {NoModel},
           NEW images \in BOOLEAN, NEW cancel \in BOOLEAN,
           Control(phase, model, images, cancel)
    PROVE  IInv'
<1> USE GatewayAssumption DEF IInv, Control
<1>1. TypeOK'
  <2>1. state' \in [phase: Phases, model: Models \union {NoModel}, images: BOOLEAN]
    OBVIOUS
  <2>2. pend' \in [Requests -> SUBSET {"deadline", "control"}]
    BY DEF TypeOK
  <2>3. cancels' \in 0 .. MaxCancels
    BY DEF TypeOK
  <2>4. struck' \in [Requests -> BOOLEAN] /\ idleSeen' \in BOOLEAN
    BY DEF TypeOK
  <2>5. QED
    BY <2>1, <2>2, <2>3, <2>4 DEF TypeOK, env
<1>2. HandlersHoldSlots'
  BY DEF HandlersHoldSlots, Handling
<1>3. Bounded'
  BY DEF Bounded
<1>4. IdleIsClosed'
  \* A reply of active = 0 leaves no slot for a handler, hence no backend.
  BY DEF IdleIsClosed, HandlersHoldSlots, Working
<1>5. ReadyHasModel'
  BY DEF ReadyHasModel
<1>6. QED
  BY <1>1, <1>2, <1>3, <1>4, <1>5

\* A refusal or a 429 takes no slot and starts no task.
LEMMA RefuseStep ==
    ASSUME IInv, NEW r \in Requests, NEW result \in Results, Refuse(r, result)
    PROVE  IInv'
<1> USE DEF IInv, Refuse
<1>1. TypeOK'
  BY CountType DEF TypeOK, env, history, Ended
<1>2. HandlersHoldSlots'
  BY DEF HandlersHoldSlots, Handling, Unwinding, TypeOK
<1>3. QED
  BY <1>1, <1>2 DEF Bounded, IdleIsClosed, ReadyHasModel, Working, history

\* An admission takes its slot in the step that starts its children.
LEMMA AdmitStep ==
    ASSUME IInv, NEW r \in Requests, NEW model \in Models, AdmitChat(r, model)
    PROVE  IInv'
<1> USE GatewayAssumption DEF IInv, AdmitChat
<1>1. TypeOK'
  BY DEF TypeOK, env, history
<1>2. HandlersHoldSlots'
  BY DEF HandlersHoldSlots, Handling, TypeOK
<1>3. Bounded'
  <2>1. IsFiniteSet(active)
    BY DEF Bounded
  <2>2. /\ IsFiniteSet(active \union {r})
        /\ Cardinality(active \union {r}) =
              IF r \in active THEN Cardinality(active) ELSE Cardinality(active) + 1
    BY <2>1, FS_AddElement
  <2>3. Cardinality(active) \in Nat
    BY <2>1, FS_CardinalityType
  <2>4. QED
    BY <2>2, <2>3 DEF Bounded, SlotFree
<1>4. IdleIsClosed'
  BY DEF IdleIsClosed, Available, history
<1>5. QED
  BY <1>1, <1>2, <1>3, <1>4 DEF ReadyHasModel

\* The steps of the children, the callers and the timer move no handler.
LEMMA OutsideStep ==
    ASSUME IInv, NEW r \in Requests,
           \/ \E result \in Statuses : BackendStarts(r, result)
           \/ BackendCompletes(r)
           \/ \E how \in Raised \union {"returned"} : BackendEnds(r, how)
           \/ BackendCancelled(r) \/ CallerLeaves(r)
           \/ WatchSees(r) \/ WatchCancelled(r) \/ Deadline(r)
    PROVE  IInv'
<1> USE GatewayAssumption DEF IInv
<1>1. TypeOK'
  <2> USE DEF TypeOK, loop, env, history, BackDone, WatchDone
  <2>1. CASE \E result \in Statuses : BackendStarts(r, result)
    BY <2>1 DEF BackendStarts
  <2>2. CASE BackendCompletes(r) \/ CallerLeaves(r)
    BY <2>2 DEF BackendCompletes, CallerLeaves
  <2>3. CASE \E how \in Raised \union {"returned"} : BackendEnds(r, how)
    BY <2>3 DEF BackendEnds
  <2>4. CASE BackendCancelled(r) \/ WatchSees(r) \/ WatchCancelled(r)
    BY <2>4 DEF BackendCancelled, WatchSees, WatchCancelled
  <2>5. CASE Deadline(r)
    <3>1. pend[r] \union {"deadline"} \in SUBSET {"deadline", "control"}
      OBVIOUS
    <3>2. QED
      BY <2>5, <3>1 DEF Deadline
  <2>6. QED
    BY <2>1, <2>2, <2>3, <2>4, <2>5
<1>2. /\ UNCHANGED <<state, pc, active, idleSeen>>
      /\ \/ UNCHANGED back
         \/ \E how \in BackDone : Working(r) /\ back' = [back EXCEPT ![r] = how]
  BY DEF loop, env, history, BackendStarts, BackendCompletes, BackendEnds,
         BackendCancelled, CallerLeaves, WatchSees, WatchCancelled, Deadline,
         BackDone, Working
<1>3. HandlersHoldSlots'
  BY <1>2 DEF HandlersHoldSlots, Handling, Working, TypeOK
<1>4. IdleIsClosed'
  BY <1>2 DEF IdleIsClosed, Working, TypeOK
<1>5. QED
  BY <1>1, <1>2, <1>3, <1>4 DEF Bounded, ReadyHasModel

\* A handler that goes on without ending keeps its slot.
LEMMA StayStep ==
    ASSUME IInv, NEW r \in Requests, Stays(r)
    PROVE  HandlersHoldSlots' /\ Bounded' /\ IdleIsClosed' /\ ReadyHasModel'
<1> USE DEF IInv, Stays
<1>1. HandlersHoldSlots'
  BY DEF HandlersHoldSlots, Handling, Unwinding, CancelChild, TypeOK
<1>2. IdleIsClosed'
  BY DEF IdleIsClosed, Working, CancelChild, TypeOK
<1>3. QED
  BY <1>1, <1>2 DEF Bounded, ReadyHasModel

\* The end of the finally block: the slot goes only after both children ended.
LEMMA CleanupStep ==
    ASSUME IInv, NEW r \in Requests, CleanupEnds(r)
    PROVE  IInv'
<1> USE DEF IInv, CleanupEnds, Popped, Unavailable, Forget
<1>1. TypeOK'
  <2>1. requests' \in [Results -> [Requests -> Nat]]
    BY CountType DEF TypeOK, Results
  <2>2. QED
    BY <2>1 DEF TypeOK, history, Default, Ended, Results
<1>2. HandlersHoldSlots'
  BY DEF HandlersHoldSlots, Handling, Unwinding, TypeOK
<1>3. Bounded'
  <2>1. IsFiniteSet(active)
    BY DEF Bounded
  <2>2. IsFiniteSet(active \ {r}) /\ Cardinality(active \ {r}) <= Cardinality(active)
    BY <2>1, FS_Subset
  <2>3. Cardinality(active \ {r}) \in Nat /\ Cardinality(active) \in Nat
    BY <2>1, <2>2, FS_CardinalityType
  <2>4. QED
    BY <2>2, <2>3, GatewayAssumption DEF Bounded
<1>4. IdleIsClosed'
  BY DEF IdleIsClosed, Working, history, TypeOK
<1>5. QED
  BY <1>1, <1>2, <1>3, <1>4 DEF ReadyHasModel

\* A restart of the process forgets every task and closes the gateway.
LEMMA RestartStep == ASSUME IInv, Restart PROVE IInv'
<1> USE GatewayAssumption DEF IInv, Restart
<1>1. TypeOK'
  BY DEF TypeOK, Closed, NoCounts, Phases, Results, Default, Ended
<1>2. HandlersHoldSlots'
  BY DEF HandlersHoldSlots, Handling, Unwinding
<1>3. Bounded'
  BY FS_EmptySet DEF Bounded
<1>4. IdleIsClosed' /\ ReadyHasModel'
  BY DEF IdleIsClosed, ReadyHasModel, Closed, Working
<1>5. QED
  BY <1>1, <1>2, <1>3, <1>4

\* Every step of the specification keeps the invariant.
LEMMA NextIInv == IInv /\ [Next]_vars => IInv'
<1> SUFFICES ASSUME IInv, [Next]_vars PROVE IInv'
  OBVIOUS
<1>1. CASE \E phase \in Phases, model \in Models \union {NoModel}, images, cancel \in BOOLEAN :
              Control(phase, model, images, cancel)
  BY <1>1, ControlStep
<1>2. CASE \E r \in Requests, model \in Models : LimitChat(r, model) \/ AdmitChat(r, model)
  BY <1>2, RefuseStep, AdmitStep DEF LimitChat, Results
<1>3. CASE \E r \in Requests : RefuseChat(r)
  BY <1>3, RefuseStep DEF RefuseChat, Results
<1>4. CASE \/ \E r \in Requests, result \in Statuses : BackendStarts(r, result)
           \/ \E r \in Requests : BackendCompletes(r)
           \/ \E r \in Requests, how \in Raised \union {"returned"} : BackendEnds(r, how)
           \/ \E r \in Requests : BackendCancelled(r) \/ CallerLeaves(r)
           \/ \E r \in Requests : WatchSees(r) \/ WatchCancelled(r) \/ Deadline(r)
  BY <1>4, OutsideStep
<1>5. CASE \E r \in Requests : Handler(r)
  <2>1. PICK r \in Requests : Handler(r)
    BY <1>5
  <2>2. CASE HandlerStruck(r) \/ HandlerWakes(r) \/ ReplyEnds(r)
    BY <2>2, HandlerStays, StayStep DEF IInv
  <2>3. CASE CleanupEnds(r)
    BY <2>3, CleanupStep
  <2>4. QED
    BY <2>1, <2>2, <2>3 DEF Handler
<1>6. CASE Restart
  BY <1>6, RestartStep
<1>7. CASE UNCHANGED vars
  <2>1. TypeOK'
    BY <1>7 DEF IInv, TypeOK, vars, loop, env, history
  <2>2. QED
    BY <1>7, <2>1 DEF IInv, HandlersHoldSlots, Handling, Bounded, IdleIsClosed, Working,
                      ReadyHasModel, vars, loop, env, history
<1>8. QED
  BY <1>1, <1>2, <1>3, <1>4, <1>5, <1>6, <1>7 DEF Next

\* Each step of the gateway may rely on the invariant.
LEMMA Invariance == Spec => []IInv
BY InitIInv, NextIInv, PTL DEF Spec

-----------------------------------------------------------------------------
\* Every variable of GatewayBoundary and of its tasks keeps its type.
THEOREM TypeCorrect == Spec => []TypeOK
BY Invariance, PTL DEF IInv

\* No mixture of deadlines, cancellations and restarts admits past the limit.
THEOREM NeverOverLimit == Spec => []ActiveBounded
<1>1. IInv => ActiveBounded
  BY DEF IInv, Bounded, ActiveBounded
<1>2. QED
  BY <1>1, Invariance, PTL

\* active never understates the backend work under way.
THEOREM WorkIsCounted == Spec => []WorkHoldsSlot
<1>1. IInv => WorkHoldsSlot
  BY DEF IInv, HandlersHoldSlots, WorkHoldsSlot, Working
<1>2. QED
  BY <1>1, Invariance, PTL

\* A drain that reported active = 0 stays quiet until the owner opens the gateway.
THEOREM DrainIsQuiet == Spec => []QuietAfterDrain
<1>1. IInv => QuietAfterDrain
  BY DEF IInv, IdleIsClosed, QuietAfterDrain
<1>2. QED
  BY <1>1, Invariance, PTL

-----------------------------------------------------------------------------
(* The results are counted once                                             *)

\* What has been counted of a request where its handler is: except clauses
\* count before they answer, a return before the finally block, and the errors
\* that __call__ handles after it.  Only a handler that a cancellation took out
\* of the finally block ends uncounted, and it keeps its slot.
Tally(r) ==
    /\ pc[r] \in {"idle", "wait", "failing", "raising", "failed", "lost"} => Counted(r) = 0
    /\ pc[r] \in {"reply", "cleanup"} => Counted(r) = 1
    /\ pc[r] = "done" => Counted(r) <= 1 /\ (r \notin active => Counted(r) = 1)

TallyInv == \A r \in Requests : Tally(r)

\* A count is of one request, and of one of its results.
LEMMA CountOne ==
    ASSUME TypeOK, NEW result \in Results, NEW r \in Requests, Count(result, r)
    PROVE  /\ Counted(r)' = Counted(r) + 1
           /\ \A q \in Requests \ {r} : Counted(q)' = Counted(q)
<1>1. requests \in [Results -> [Requests -> Nat]]
  BY DEF TypeOK
<1>2. \A x \in Results, q \in Requests :
         requests'[x][q] = IF x = result /\ q = r THEN requests[x][q] + 1 ELSE requests[x][q]
  BY <1>1 DEF Count
<1>3. \A x \in Results, q \in Requests : requests[x][q] \in Nat
  BY <1>1
<1> QED BY <1>2, <1>3 DEF Counted, Results

\* A step of one request leaves the tally of the others.
LEMMA OneTally ==
    ASSUME TallyInv, NEW r \in Requests,
           \A q \in Requests \ {r} : /\ pc'[q] = pc[q] /\ Counted(q)' = Counted(q)
                                     /\ q \in active' <=> q \in active,
           Tally(r)'
    PROVE  TallyInv'
<1>1. ASSUME NEW q \in Requests \ {r}
      PROVE  Tally(q)'
  BY <1>1 DEF TallyInv, Tally
<1> QED BY <1>1 DEF TallyInv

\* Every step of the gateway keeps its books: a request is counted once, as it leaves.
LEMMA TallyStep == IInv /\ TallyInv /\ [Next]_vars => TallyInv'
<1> SUFFICES ASSUME IInv, TallyInv, [Next]_vars PROVE TallyInv'
  OBVIOUS
<1>0. TypeOK
  BY DEF IInv
<1>1. ASSUME UNCHANGED <<requests, pc, active>>
      PROVE  TallyInv'
  BY <1>1 DEF TallyInv, Tally, Counted
<1>2. ASSUME NEW r \in Requests, NEW result \in Results, Refuse(r, result)
      PROVE  TallyInv'
  <2>1. /\ Counted(r)' = Counted(r) + 1
        /\ \A q \in Requests \ {r} : Counted(q)' = Counted(q)
    BY <1>0, <1>2, CountOne DEF Refuse
  <2>2. /\ pc[r] = "idle" /\ pc'[r] = "done" /\ active' = active
        /\ \A q \in Requests \ {r} : pc'[q] = pc[q]
    BY <1>0, <1>2 DEF Refuse, TypeOK
  <2>3. Tally(r)'
    BY <2>1, <2>2 DEF TallyInv, Tally
  <2> QED BY <2>1, <2>2, <2>3, OneTally
<1>3. ASSUME NEW r \in Requests, NEW model \in Models, AdmitChat(r, model)
      PROVE  TallyInv'
  <2>1. /\ pc[r] = "idle" /\ pc'[r] = "wait" /\ active' = active \union {r} /\ requests' = requests
        /\ \A q \in Requests \ {r} : pc'[q] = pc[q]
    BY <1>0, <1>3 DEF AdmitChat, TypeOK
  <2>2. \A q \in Requests : Counted(q)' = Counted(q)
    BY <2>1 DEF Counted
  <2>3. Tally(r)'
    BY <2>1, <2>2 DEF TallyInv, Tally
  <2> QED BY <2>1, <2>2, <2>3, OneTally
<1>4. ASSUME NEW r \in Requests, HandlerStruck(r) \/ HandlerWakes(r)
      PROVE  TallyInv'
  <2>1. /\ pc[r] = "wait" /\ active' = active
        /\ \/ \E result \in Results : Count(result, r) /\ pc'[r] \in {"reply", "cleanup"}
           \/ UNCHANGED requests /\ pc'[r] \in {"failing", "raising"}
        /\ \A q \in Requests \ {r} : pc'[q] = pc[q]
    BY <1>0, <1>4 DEF HandlerStruck, HandlerWakes, WasCancelled, TimedOut, Answer, Unwind, TypeOK,
                      Results
  <2>2. CASE UNCHANGED requests /\ pc'[r] \in {"failing", "raising"}
    <3>1. \A q \in Requests : Counted(q)' = Counted(q)
      BY <2>2 DEF Counted
    <3>2. Tally(r)'
      BY <2>1, <2>2, <3>1 DEF TallyInv, Tally
    <3> QED BY <2>1, <3>1, <3>2, OneTally
  <2>3. ASSUME NEW result \in Results, Count(result, r), pc'[r] \in {"reply", "cleanup"}
        PROVE  TallyInv'
    <3>1. /\ Counted(r)' = Counted(r) + 1
          /\ \A q \in Requests \ {r} : Counted(q)' = Counted(q)
      BY <1>0, <2>3, CountOne
    <3>2. Tally(r)'
      BY <2>1, <2>3, <3>1 DEF TallyInv, Tally
    <3> QED BY <2>1, <3>1, <3>2, OneTally
  <2> QED BY <2>1, <2>2, <2>3
<1>5. ASSUME NEW r \in Requests, ReplyEnds(r)
      PROVE  TallyInv'
  <2>1. /\ pc[r] = "reply" /\ pc'[r] = "cleanup" /\ active' = active /\ requests' = requests
        /\ \A q \in Requests \ {r} : pc'[q] = pc[q]
    BY <1>0, <1>5 DEF ReplyEnds, Unwind, TypeOK
  <2>2. \A q \in Requests : Counted(q)' = Counted(q)
    BY <2>1 DEF Counted
  <2>3. Tally(r)'
    BY <2>1, <2>2 DEF TallyInv, Tally
  <2> QED BY <2>1, <2>2, <2>3, OneTally
<1>6. ASSUME NEW r \in Requests, CleanupEnds(r)
      PROVE  TallyInv'
  <2>1. /\ pc[r] \in Unwinding
        /\ pc'[r] = IF pend[r] = {} /\ pc[r] = "raising" THEN "failed" ELSE "done"
        /\ active' = IF pend[r] = {} THEN active \ {r} ELSE active
        /\ IF pend[r] = {} /\ pc[r] = "failing" THEN Count("backend_error", r) ELSE requests' = requests
        /\ \A q \in Requests \ {r} : pc'[q] = pc[q]
    BY <1>0, <1>6 DEF CleanupEnds, Popped, Unavailable, TypeOK
  <2>2. r \in active
    BY <2>1 DEF IInv, HandlersHoldSlots, Handling
  <2>3. CASE pend[r] = {} /\ pc[r] = "failing"
    <3>1. /\ Counted(r)' = Counted(r) + 1
          /\ \A q \in Requests \ {r} : Counted(q)' = Counted(q)
      BY <1>0, <2>1, <2>3, CountOne DEF Results
    <3>2. Tally(r)'
      BY <2>1, <2>3, <3>1 DEF TallyInv, Tally
    <3> QED BY <2>1, <3>1, <3>2, OneTally
  <2>4. CASE ~(pend[r] = {} /\ pc[r] = "failing")
    <3>1. \A q \in Requests : Counted(q)' = Counted(q)
      BY <2>1, <2>4 DEF Counted
    <3>2. Tally(r)'
      BY <2>1, <2>2, <2>4, <3>1 DEF TallyInv, Tally, Unwinding
    <3> QED BY <2>1, <3>1, <3>2, OneTally
  <2> QED BY <2>3, <2>4
<1>7. CASE Restart
  <2>1. \A q \in Requests : Counted(q)' = 0
    BY <1>7 DEF Restart, NoCounts, Counted, Results
  <2> QED BY <1>7, <2>1 DEF Restart, TallyInv, Tally
<1>8. ASSUME NEW r \in Requests, Handler(r)
      PROVE  TallyInv'
  BY <1>4, <1>5, <1>6, <1>8 DEF Handler
<1>9. (\E phase \in Phases, model \in Models \union {NoModel}, images, cancel \in BOOLEAN :
          Control(phase, model, images, cancel)) => TallyInv'
  BY <1>1 DEF Control
<1>10. ASSUME NEW r \in Requests,
              \/ \E result \in Statuses : BackendStarts(r, result)
              \/ BackendCompletes(r)
              \/ \E how \in Raised \union {"returned"} : BackendEnds(r, how)
              \/ BackendCancelled(r) \/ CallerLeaves(r)
              \/ WatchSees(r) \/ WatchCancelled(r) \/ Deadline(r)
       PROVE  TallyInv'
  BY <1>1, <1>10 DEF BackendStarts, BackendCompletes, BackendEnds, BackendCancelled, CallerLeaves,
                     WatchSees, WatchCancelled, Deadline, loop
<1>11. UNCHANGED vars => TallyInv'
  BY <1>1 DEF vars, loop
<1> QED BY <1>2, <1>3, <1>7, <1>8, <1>9, <1>10, <1>11 DEF Next, LimitChat, RefuseChat, Results

\* Every request is counted under one result at most, and under exactly one once
\* it has ended and given its slot back (chat's except clauses, __call__).
THEOREM OneResult == Spec => []CountedOnce
<1>1. Init => TallyInv
  BY DEF Init, NoCounts, TallyInv, Tally, Counted, Results
<1>2. IInv /\ TallyInv => CountedOnce
  BY DEF IInv, TypeOK, TallyInv, Tally, CountedOnce, Unwinding, Ended
<1> QED BY <1>1, <1>2, TallyStep, Invariance, PTL DEF Spec

-----------------------------------------------------------------------------
(* The gateway implements the admission contract                            *)

\* The values that stand for A!open and A!busy.
OpenModel == IF state.phase = "ready" THEN state.model ELSE NoModel
Busy == {r \in Requests : Working(r)}

\* Slots bound the work because every piece of work holds one.
LEMMA BusyIsBounded ==
    ASSUME IInv
    PROVE  IsFiniteSet(Busy) /\ Cardinality(Busy) <= Cardinality(active)
<1>1. Busy \in SUBSET active
  BY DEF IInv, HandlersHoldSlots, Working, Busy
<1>2. IsFiniteSet(active)
  BY DEF IInv, Bounded
<1>3. QED
  BY <1>1, <1>2, FS_Subset

\* A step that leaves the set of working requests alone and the phase too.
LEMMA QuietStep ==
    ASSUME UNCHANGED <<OpenModel, Busy>>
    PROVE  UNCHANGED A!vars
BY DEF OpenModel, Busy, A!vars

\* chat admits: a piece of work begins under the contract.
LEMMA AdmitIsBegin ==
    ASSUME IInv, NEW r \in Requests, NEW model \in Models, AdmitChat(r, model)
    PROVE  A!Begin(r)
<1>1. OpenModel # NoModel /\ OpenModel' = OpenModel
  BY GatewayAssumption DEF AdmitChat, OpenModel, Available, IInv, ReadyHasModel
<1>2. r \notin Busy
  BY DEF AdmitChat, Busy, Working, IInv, HandlersHoldSlots, Handling, Unwinding
<1>3. Cardinality(Busy) < Limit
  <2>1. Cardinality(active) \in Nat /\ Cardinality(Busy) \in Nat
    BY BusyIsBounded, FS_CardinalityType DEF IInv, Bounded
  <2>2. QED
    BY <2>1, BusyIsBounded, GatewayAssumption DEF AdmitChat, SlotFree
<1>4. Busy' = Busy \union {r}
  BY DEF AdmitChat, Busy, Working, IInv, TypeOK
<1>5. QED
  <2>1. A!Cardinality(Busy) = Cardinality(Busy)
    BY DEF A!Cardinality, Cardinality, A!IsFiniteSet, IsFiniteSet
  <2>2. QED
    BY <1>1, <1>2, <1>3, <1>4, <2>1 DEF A!Begin, OpenModel, Busy

\* A LiteLLM task ends, by itself or cancelled: a piece of work finishes.
LEMMA EndIsFinish ==
    ASSUME IInv, NEW r \in Requests, NEW how \in BackDone, Working(r),
           back' = [back EXCEPT ![r] = how], UNCHANGED state
    PROVE  A!Finish(r)
<1>1. how \notin {"running", "cancelling"}
  BY DEF BackDone, Raised
<1>2. Busy' = Busy \ {r}
  BY <1>1 DEF Busy, Working, IInv, TypeOK
<1>3. QED
  BY <1>2 DEF A!Finish, Busy

\* Every step is a step of the contract, or one that the contract cannot see.
LEMMA StepImplements == IInv /\ [Next]_vars => [A!Next]_(A!vars)
<1> SUFFICES ASSUME IInv, [Next]_vars PROVE [A!Next]_(A!vars)
  OBVIOUS
<1>1. ASSUME NEW phase \in Phases, NEW model \in Models \union {NoModel},
             NEW images \in BOOLEAN, NEW cancel \in BOOLEAN,
             Control(phase, model, images, cancel)
      PROVE  A!Next
  <2>1. OpenModel' \in Models \union {NoModel}
    BY <1>1 DEF Control, OpenModel
  <2>2. Busy' = Busy
    BY <1>1 DEF Control, Busy, Working
  <2>3. A!SetOpen(OpenModel')
    BY <2>2 DEF A!SetOpen, OpenModel, Busy
  <2>4. QED
    BY <2>1, <2>3 DEF A!Next
<1>2. ASSUME NEW r \in Requests, NEW model \in Models, AdmitChat(r, model)
      PROVE  A!Next
  BY <1>2, AdmitIsBegin DEF A!Next
<1>3. ASSUME NEW r \in Requests, NEW result \in Results, Refuse(r, result)
      PROVE  UNCHANGED A!vars
  BY <1>3, QuietStep DEF Refuse, OpenModel, Busy, Working
<1>4. ASSUME NEW r \in Requests,
             \/ \E how \in Raised \union {"returned"} : BackendEnds(r, how)
             \/ BackendCancelled(r)
      PROVE  A!Next
  BY <1>4, EndIsFinish DEF BackendEnds, BackendCancelled, BackDone, Working, A!Next
<1>5. ASSUME NEW r \in Requests,
             \/ \E result \in Statuses : BackendStarts(r, result)
             \/ BackendCompletes(r) \/ CallerLeaves(r)
             \/ WatchSees(r) \/ WatchCancelled(r) \/ Deadline(r)
      PROVE  UNCHANGED A!vars
  <2>1. UNCHANGED <<state, back>>
    BY <1>5 DEF BackendStarts, BackendCompletes, CallerLeaves, WatchSees,
                WatchCancelled, Deadline, loop
  <2>2. QED
    BY <2>1, QuietStep DEF OpenModel, Busy, Working
<1>6. ASSUME NEW r \in Requests, Stays(r)
      PROVE  UNCHANGED A!vars
  <2>1. \A q \in Requests : Working(q)' <=> Working(q)
    BY <1>6 DEF Stays, Working, CancelChild, IInv, TypeOK
  <2>2. QED
    BY <1>6, <2>1, QuietStep DEF Stays, OpenModel, Busy
<1>7. ASSUME NEW r \in Requests, CleanupEnds(r)
      PROVE  UNCHANGED A!vars
  <2>1. \A q \in Requests : Working(q)' <=> Working(q)
    BY <1>7 DEF CleanupEnds, Popped, Unavailable, Forget, Working, BackDone, Raised, IInv, TypeOK
  <2>2. QED
    BY <1>7, <2>1, QuietStep DEF CleanupEnds, Popped, Unavailable, OpenModel, Busy
<1>8. ASSUME Restart
      PROVE  A!Next
  <2>1. OpenModel' = NoModel /\ Busy' = {}
    BY <1>8 DEF Restart, OpenModel, Busy, Working, Closed
  <2>2. QED
    BY <2>1 DEF A!Next, A!Reset, OpenModel, Busy
<1>9. ASSUME UNCHANGED vars
      PROVE  UNCHANGED A!vars
  BY <1>9, QuietStep DEF vars, loop, OpenModel, Busy, Working
<1>10. ASSUME NEW r \in Requests, Handler(r)
       PROVE  UNCHANGED A!vars
  BY <1>6, <1>7, <1>10, HandlerStays DEF Handler, IInv
<1>11. QED
  BY <1>1, <1>2, <1>3, <1>4, <1>5, <1>8, <1>9, <1>10
     DEF Next, LimitChat, RefuseChat, Results

\* GatewayBoundary implements the contract the session owner closes it under.
THEOREM GatewayImplementsAdmission == Spec => A!Spec
<1>1. Init => A!Init
  BY DEF Init, Closed, Working, A!Init
<1>2. QED
  BY <1>1, StepImplements, Invariance, PTL DEF Spec, A!Spec
=============================================================================
