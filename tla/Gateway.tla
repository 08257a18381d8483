------------------------------ MODULE Gateway ------------------------------
(***************************************************************************)
(* The ASGI boundary in front of the pinned LiteLLM application             *)
(* (apps/base/shared-api/boundary.py, class GatewayBoundary).               *)
(*                                                                         *)
(* The gateway is one asyncio process: between two awaits a handler runs    *)
(* alone, so an action is what a task does from one await to the next.      *)
(* Every chat request r has three tasks: the handler (pc), the LiteLLM call *)
(* it starts (back) and the task that owns the caller's receive channel     *)
(* (watch).  Cancelling a task only asks for a CancelledError at its next   *)
(* step: pend holds the requests for cancellation not yet delivered.        *)
(***************************************************************************)
EXTENDS Naturals, FiniteSets

CONSTANTS
    Requests,      \* chat requests that may reach the gateway
    Limit,         \* admitted requests at a time; the code's literal 4
    Models,        \* CHAT_MODELS
    SplitModel,    \* the one model that may run beside images
    Statuses,      \* result classes a backend's response status may fall in
    NoModel,       \* "model": None
    MaxCancels,    \* bound: control calls that carry cancel: true
    MaxRestarts    \* bound: restarts of the gateway process

Phases == {"ready", "starting", "draining", "unavailable", "maintenance"}
Results == {"ok", "refused", "backend_error", "cancelled", "limited"}

ASSUME GatewayAssumption ==
    /\ Limit \in Nat \ {0}
    /\ SplitModel \in Models
    /\ NoModel \notin Models
    /\ Statuses \subseteq Results \ {"cancelled"}
    /\ MaxCancels \in Nat
    /\ MaxRestarts \in Nat

VARIABLES
    state,         \* self.state: phase, model, images
    active,        \* self.active: the handlers that hold a slot
    requests,      \* self.requests, each counter split by contributing request
    pc,            \* where each handler awaits
    pend,          \* cancellations asked for and not yet delivered
    back,          \* the LiteLLM task
    watch,         \* the watch_disconnect task
    sent,          \* how much of the response the backend has sent
    status,        \* the result class of response_status
    gone,          \* the caller has closed its connection
    struck,        \* control has asked to cancel this request (history)
    idleSeen,      \* a closed control reply said active = 0 (history)
    cancels, restarts

loop == <<pc, pend, back, watch, active, requests>>
env == <<sent, status, gone>>
history == <<struck, idleSeen, cancels, restarts>>
vars == <<state, loop, env, history>>

Unwinding == {"cleanup", "failing", "raising"}
Ended == {"done", "failed", "lost"}
Raised == {"raised_timeout", "raised_service", "raised_other", "raised_cancelled"}
BackDone == {"returned", "cancelled"} \union Raised
WatchDone == {"saw", "cancelled"}
Default == "backend_error"     \* response_status = 500 until a response starts

TypeOK ==
    /\ state \in [phase: Phases, model: Models \union {NoModel}, images: BOOLEAN]
    /\ active \subseteq Requests
    /\ requests \in [Results -> [Requests -> Nat]]
    /\ pc \in [Requests -> {"idle", "wait", "reply"} \union Unwinding \union Ended]
    /\ pend \in [Requests -> SUBSET {"deadline", "control"}]
    /\ back \in [Requests -> {"none", "running", "cancelling"} \union BackDone]
    /\ watch \in [Requests -> {"none", "running", "cancelling"} \union WatchDone]
    /\ sent \in [Requests -> {"nothing", "started", "complete"}]
    /\ status \in [Requests -> Results \ {"cancelled"}]
    /\ gone \in [Requests -> BOOLEAN]
    /\ struck \in [Requests -> BOOLEAN]
    /\ idleSeen \in BOOLEAN
    /\ cancels \in 0 .. MaxCancels
    /\ restarts \in 0 .. MaxRestarts

Closed == [phase |-> "unavailable", model |-> NoModel, images |-> FALSE]
NoCounts == [result \in Results |-> [r \in Requests |-> 0]]

\* __init__: a process restart never restores a saved ready flag.
Init ==
    /\ state = Closed
    /\ active = {}
    /\ requests = NoCounts
    /\ pc = [r \in Requests |-> "idle"]
    /\ pend = [r \in Requests |-> {}]
    /\ back = [r \in Requests |-> "none"]
    /\ watch = [r \in Requests |-> "none"]
    /\ sent = [r \in Requests |-> "nothing"]
    /\ status = [r \in Requests |-> Default]
    /\ gone = [r \in Requests |-> FALSE]
    /\ struck = [r \in Requests |-> FALSE]
    /\ idleSeen = FALSE
    /\ cancels = 0
    /\ restarts = 0

-----------------------------------------------------------------------------
(* Control: the session owner sets the phase and may cancel active requests *)

CancelAsked(cancel) == {r \in active : cancel /\ pc[r] \notin Ended}

\* self.state is assigned, then every task of tuple(self.active) is cancelled,
\* all without an await.  task.cancel() of a finished task does nothing.  Its one
\* client, service_session.py, names a model only when it starts or opens one.
Control(phase, model, images, cancel) ==
    /\ phase \in {"ready", "starting"} => model \in Models
    /\ phase \notin {"ready", "starting"} => model = NoModel
    /\ images => model = SplitModel
    /\ cancel => phase \in {"draining", "unavailable"} /\ cancels < MaxCancels
    /\ state' = [phase |-> phase, model |-> model, images |-> images /\ phase = "ready"]
    /\ pend' = [r \in Requests |->
                   pend[r] \union IF r \in CancelAsked(cancel) THEN {"control"} ELSE {}]
    /\ struck' = [r \in Requests |-> struck[r] \/ r \in CancelAsked(cancel)]
    /\ cancels' = IF cancel THEN cancels + 1 ELSE cancels
    /\ idleSeen' = (phase # "ready" /\ (idleSeen \/ active = {}))
    /\ UNCHANGED <<active, requests, pc, back, watch, env, restarts>>

-----------------------------------------------------------------------------
(* Admission: no await between the phase check and self.active[task] = ...  *)

Count(result, r) == requests' = [requests EXCEPT ![result][r] = @ + 1]

\* The phase, model and slot checks of chat, before a request is admitted.
AvailableUntilReplaced(model) == state.model = model   \* starting counts as ready
Available(model) == state.phase = "ready" /\ state.model = model
SlotFree == Cardinality(active) < Limit

\* A Refusal: malformed at any time, not available, or (429) no slot left.
Refuse(r, result) ==
    /\ pc[r] = "idle"
    /\ pc' = [pc EXCEPT ![r] = "done"]
    /\ Count(result, r)
    /\ UNCHANGED <<state, active, pend, back, watch, env, history>>

RefuseChat(r) == Refuse(r, "refused")

LimitChat(r, model) ==
    /\ Available(model)
    /\ ~SlotFree
    /\ Refuse(r, "limited")

AdmitChat(r, model) ==
    /\ pc[r] = "idle"
    /\ Available(model)
    /\ SlotFree
    /\ active' = active \union {r}
    /\ pc' = [pc EXCEPT ![r] = "wait"]
    /\ back' = [back EXCEPT ![r] = "running"]
    /\ watch' = [watch EXCEPT ![r] = "running"]
    /\ UNCHANGED <<state, requests, pend, env, history>>

-----------------------------------------------------------------------------
(* The children and the callers                                             *)

\* tracked_send of the response start: response_status is known from here on.
BackendStarts(r, result) ==
    /\ back[r] = "running"
    /\ sent[r] = "nothing"
    /\ sent' = [sent EXCEPT ![r] = "started"]
    /\ status' = [status EXCEPT ![r] = result]
    /\ UNCHANGED <<state, loop, gone, history>>

BackendCompletes(r) ==
    /\ back[r] = "running"
    /\ sent[r] = "started"
    /\ sent' = [sent EXCEPT ![r] = "complete"]
    /\ UNCHANGED <<state, loop, status, gone, history>>

\* The LiteLLM task ends by itself: it returns, or raises a TimeoutError, one
\* of the errors __call__ turns into 503, any other error, or CancelledError.
BackendEnds(r, how) ==
    /\ back[r] = "running"
    /\ back' = [back EXCEPT ![r] = how]
    /\ UNCHANGED <<state, pc, pend, watch, active, requests, env, history>>

BackendCancelled(r) ==
    /\ back[r] = "cancelling"
    /\ back' = [back EXCEPT ![r] = "cancelled"]
    /\ UNCHANGED <<state, pc, pend, watch, active, requests, env, history>>

CallerLeaves(r) ==
    /\ pc[r] \in {"wait", "reply"}
    /\ ~gone[r]
    /\ gone' = [gone EXCEPT ![r] = TRUE]
    /\ UNCHANGED <<state, loop, sent, status, history>>

\* The server answers a pending receive() with http.disconnect once the caller
\* has gone or the response is complete; watch_disconnect then sets the event.
WatchSees(r) ==
    /\ watch[r] = "running"
    /\ gone[r] \/ sent[r] = "complete"
    /\ watch' = [watch EXCEPT ![r] = "saw"]
    /\ UNCHANGED <<state, pc, pend, back, active, requests, env, history>>

WatchCancelled(r) ==
    /\ watch[r] = "cancelling"
    /\ watch' = [watch EXCEPT ![r] = "cancelled"]
    /\ UNCHANGED <<state, pc, pend, back, active, requests, env, history>>

\* asyncio.timeout(request_timeout) asks the handler's task to cancel itself.
Deadline(r) ==
    /\ pc[r] = "wait"
    /\ "deadline" \notin pend[r]
    /\ pend' = [pend EXCEPT ![r] = @ \union {"deadline"}]
    /\ UNCHANGED <<state, pc, back, watch, active, requests, env, history>>

-----------------------------------------------------------------------------
(* The handler                                                              *)

\* The finally block up to its await: cancel the children still running.
CancelChildNever(task) == task                         \* gather without cancel
CancelChild(task) == IF task = "running" THEN "cancelling" ELSE task

Unwind(r, to) ==
    /\ pc' = [pc EXCEPT ![r] = to]
    /\ pend' = [pend EXCEPT ![r] = {}]
    /\ back' = [back EXCEPT ![r] = CancelChild(@)]
    /\ watch' = [watch EXCEPT ![r] = CancelChild(@)]

\* An except clause that first awaits a reply to the caller.
Answer(r) ==
    /\ pc' = [pc EXCEPT ![r] = "reply"]
    /\ pend' = [pend EXCEPT ![r] = {}]
    /\ UNCHANGED <<back, watch>>

\* except TimeoutError
TimedOut(r) ==
    /\ Count("backend_error", r)
    /\ Answer(r)

\* except asyncio.CancelledError: the 503 only to a caller that still listens.
WasCancelled(r) ==
    /\ Count("cancelled", r)
    /\ IF sent[r] = "nothing" /\ watch[r] # "saw" THEN Answer(r) ELSE Unwind(r, "cleanup")

HandlerStruckPops(r) ==                                \* frees the slot at once
    /\ pc[r] = "wait"
    /\ pend[r] # {}
    /\ IF "control" \in pend[r] THEN WasCancelled(r) ELSE TimedOut(r)
    /\ active' = active \ {r}
    /\ UNCHANGED <<state, env, history>>

\* A cancellation reaches the handler inside the timeout block: __aexit__ makes
\* it a TimeoutError only when the deadline alone asked for it.
HandlerStruck(r) ==
    /\ pc[r] = "wait"
    /\ pend[r] # {}
    /\ IF "control" \in pend[r] THEN WasCancelled(r) ELSE TimedOut(r)
    /\ UNCHANGED <<state, active, env, history>>

\* asyncio.wait returns: the disconnect task is looked at first.
HandlerWakes(r) ==
    /\ pc[r] = "wait"
    /\ pend[r] = {}
    /\ \/ /\ watch[r] = "saw" \/ back[r] = "raised_cancelled"
          /\ WasCancelled(r)
       \/ /\ watch[r] # "saw"
          /\ back[r] = "returned"
          /\ Count(status[r], r)
          /\ Unwind(r, "cleanup")
       \/ /\ watch[r] # "saw"
          /\ back[r] = "raised_timeout"
          /\ TimedOut(r)
       \/ /\ watch[r] # "saw"
          /\ back[r] = "raised_service"
          /\ UNCHANGED requests
          /\ Unwind(r, "failing")
       \/ /\ watch[r] # "saw"
          /\ back[r] = "raised_other"
          /\ UNCHANGED requests
          /\ Unwind(r, "raising")
    /\ UNCHANGED <<state, active, env, history>>

\* The reply of an except clause ends, or a second cancellation cuts it short.
ReplyEnds(r) ==
    /\ pc[r] = "reply"
    /\ Unwind(r, "cleanup")
    /\ UNCHANGED <<state, active, requests, env, history>>

\* The tasks and locals of a handler that has ended.
Forget(r) ==
    /\ pend' = [pend EXCEPT ![r] = {}]
    /\ back' = [back EXCEPT ![r] = "none"]
    /\ watch' = [watch EXCEPT ![r] = "none"]
    /\ sent' = [sent EXCEPT ![r] = "nothing"]
    /\ status' = [status EXCEPT ![r] = Default]
    /\ gone' = [gone EXCEPT ![r] = FALSE]

Popped(r) == pend[r] = {}

\* __call__ counts what it turns into 503.
Unavailable(r) == pend[r] = {} /\ pc[r] = "failing"

\* await asyncio.gather(...) returns once both children are done.  A handler
\* cancelled while it waits there gets a CancelledError instead, and neither
\* self.active.pop nor the count of a service error runs.
CleanupEnds(r) ==
    /\ pc[r] \in Unwinding
    /\ back[r] \in BackDone
    /\ watch[r] \in WatchDone
    /\ pc' = [pc EXCEPT ![r] = IF pend[r] = {} /\ @ = "raising" THEN "failed" ELSE "done"]
    /\ active' = IF Popped(r) THEN active \ {r} ELSE active
    /\ IF Unavailable(r) THEN Count("backend_error", r) ELSE UNCHANGED requests
    /\ Forget(r)
    /\ UNCHANGED <<state, history>>

\* The process is replaced: every task dies with it.
Restart ==
    /\ restarts < MaxRestarts
    /\ restarts' = restarts + 1
    /\ state' = Closed
    /\ active' = {}
    /\ requests' = NoCounts
    /\ pc' = [r \in Requests |-> IF pc[r] = "idle" THEN "idle" ELSE "lost"]
    /\ pend' = [r \in Requests |-> {}]
    /\ back' = [r \in Requests |-> "none"]
    /\ watch' = [r \in Requests |-> "none"]
    /\ sent' = [r \in Requests |-> "nothing"]
    /\ status' = [r \in Requests |-> Default]
    /\ gone' = [r \in Requests |-> FALSE]
    /\ UNCHANGED <<struck, idleSeen, cancels>>

-----------------------------------------------------------------------------
Handler(r) == HandlerStruck(r) \/ HandlerWakes(r) \/ ReplyEnds(r) \/ CleanupEnds(r)

Next ==
    \/ \E phase \in Phases, model \in Models \union {NoModel}, images, cancel \in BOOLEAN :
          Control(phase, model, images, cancel)
    \/ \E r \in Requests, model \in Models : LimitChat(r, model) \/ AdmitChat(r, model)
    \/ \E r \in Requests : RefuseChat(r)
    \/ \E r \in Requests, result \in Statuses : BackendStarts(r, result)
    \/ \E r \in Requests : BackendCompletes(r)
    \/ \E r \in Requests, how \in Raised \union {"returned"} : BackendEnds(r, how)
    \/ \E r \in Requests : BackendCancelled(r) \/ CallerLeaves(r)
    \/ \E r \in Requests : WatchSees(r) \/ WatchCancelled(r) \/ Deadline(r)
    \/ \E r \in Requests : Handler(r)
    \/ Restart

Spec == Init /\ [][Next]_vars

\* The event loop runs every ready task, timers fire, and a cancelled child
\* ends.  Nothing is assumed of callers, of control or of a running backend.
Fairness ==
    \A r \in Requests :
        /\ WF_vars(Handler(r))
        /\ WF_vars(Deadline(r))
        /\ WF_vars(BackendCancelled(r))
        /\ WF_vars(WatchCancelled(r))

FairSpec == Spec /\ Fairness
-----------------------------------------------------------------------------
(* Properties                                                               *)

Working(r) == back[r] \in {"running", "cancelling"}

\* The slots bound the requests admitted at a time, whatever mixture of
\* deadlines, cancellations and departures frees them (boundary.py, chat).
ActiveBounded == Cardinality(active) <= Limit

\* A request keeps its slot for as long as its LiteLLM task runs: the reported
\* number of active requests never understates the work (chat, finally).
WorkHoldsSlot == \A r \in Requests : Working(r) => r \in active

\* What ws_session_service draining stands on: after a closed control reply
\* said active = 0, no backend call runs until the owner opens the gateway.
QuietAfterDrain == idleSeen => \A r \in Requests : ~Working(r)

Counted(r) ==
    requests["ok"][r] + requests["refused"][r] + requests["backend_error"][r] +
    requests["cancelled"][r] + requests["limited"][r]

\* No request is counted twice, and one that has ended and given its slot back
\* is counted under exactly one result unless the backend raised an error that
\* neither chat nor __call__ handles.
CountedOnce ==
    \A r \in Requests :
        /\ Counted(r) <= 1
        /\ pc[r] = "done" /\ r \notin active => Counted(r) = 1

\* The test of active cancellation asserts that an ended request holds no slot
\* (tests/workstation/test_shared_service.py:119).
SlotReleased == \A r \in active : pc[r] \notin Ended

\* Every admitted request ends, whatever its backend and its caller do, and
\* unless control cancels it, its slot is free again.
RequestEnds ==
    \A r \in Requests :
        /\ pc[r] = "wait" ~> pc[r] \in Ended
        /\ r \in active ~> r \notin active \/ struck[r]

\* The gateway implements the admission contract, its liveness included.
A == INSTANCE Admission WITH
        open <- IF state.phase = "ready" THEN state.model ELSE NoModel,
        busy <- {r \in Requests : Working(r)}
ImplementsAdmission == A!FairSpec
=============================================================================
