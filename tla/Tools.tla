------------------------------- MODULE Tools -------------------------------
(* The tools service (apps/base/shared-api/service_tools.py, web_search.py):
   one asyncio process with two kinds of state. In memory are the busy flag of
   the image adapter and the two counters that limit retrieval and web search;
   on the retained volume are the in-flight marker of an image job and the
   ledger of web requests. The image backend, the search provider, WebUI and
   the operator are the environment. A handler runs from one await to the next
   without interruption, so an action is what it does between two of them.   *)
EXTENDS Naturals, FiniteSets

CONSTANTS
    Images,       \* image requests, each made once
    Calls,        \* tool callers; a caller may call again
    ToolLimit,    \* calls under way of each kind (2 in the code)
    Instants,     \* what a clock may show: records of a month, a day, a minute
    Limits,       \* the policy: requests for each kind of window
    MaxRestarts   \* bound on restarts of the process

Kinds == {"month", "day", "minute"}

ASSUME ToolsAssumption ==
    /\ ToolLimit \in Nat \ {0}
    /\ Instants # {}
    /\ \A t \in Instants : DOMAIN t = Kinds
    /\ Limits \in [Kinds -> Nat \ {0}]
    /\ MaxRestarts \in Nat

\* The windows an instant falls in, and the limit of a window.
WindowsOf(t) == {<<k, t[k]>> : k \in Kinds}
Windows == UNION {WindowsOf(t) : t \in Instants}
Limit(w) == Limits[w[1]]

VARIABLES
    busy,        \* ServiceTools.busy
    marker,      \* state/image-inflight.json exists
    pc,          \* the await at which the handler of an image request is
    late,        \* requests whose deadline of 165 s has struck
    intr,        \* the shielded interrupt of a request
    job,         \* the job of a request in the image backend
    struck,      \* history: requests whose job an interrupt ended
    call,        \* the await at which a tool call is
    retrievals,  \* ServiceTools.retrieval_active
    active,      \* WebSearch.active
    ledger,      \* the database: absent, without its table, or usable
    used,        \* its counters
    sent,        \* history: provider requests made in each window
    clock,       \* the instant the clock shows
    restarts

image == <<busy, marker, pc, late, intr, job, struck>>
quota == <<ledger, used, sent>>
tool == <<call, retrievals, active>>
vars == <<image, quota, tool, clock, restarts>>

Polling == {"poll", "fetch"}
Working == {"status", "session", "poll", "cancel", "fetch", "stop"}

TypeOK ==
    /\ busy \in BOOLEAN
    /\ marker \in BOOLEAN
    /\ pc \in [Images -> {"new", "ended"} \union Working]
    /\ late \in SUBSET Images
    /\ intr \in [Images -> {"none", "running", "over"}]
    /\ job \in [Images -> {"none", "live", "ended"}]
    /\ struck \in SUBSET Images
    /\ call \in [Calls -> {"idle", "retrieving", "fetching"}]
    /\ retrievals \in 0..ToolLimit
    /\ active \in 0..ToolLimit
    /\ ledger \in {"absent", "empty", "table"}
    /\ used \in [Windows -> Nat]
    /\ sent \in [Windows -> Nat]
    /\ clock \in Instants
    /\ restarts \in 0..MaxRestarts

Init ==
    /\ busy = FALSE
    /\ marker = FALSE
    /\ pc = [i \in Images |-> "new"]
    /\ late = {}
    /\ intr = [i \in Images |-> "none"]
    /\ job = [i \in Images |-> "none"]
    /\ struck = {}
    /\ call = [c \in Calls |-> "idle"]
    /\ retrievals = 0
    /\ active = 0
    /\ ledger = "absent"
    /\ used = [w \in Windows |-> 0]
    /\ sent = [w \in Windows |-> 0]
    /\ clock \in Instants
    /\ restarts = 0

-----------------------------------------------------------------------------
(* Image requests *)

\* The finally block of image().
Leaves == busy' = FALSE

\* image(): the checks and the busy flag; generate() asks for the gateway's
\* status. A request refused here or at its validation never began.
Begin(i) ==
    /\ pc[i] = "new"
    /\ ~busy
    /\ ~marker
    /\ busy' = TRUE
    /\ pc' = [pc EXCEPT ![i] = "status"]
    /\ UNCHANGED <<marker, late, intr, job, struck>>

Refuse(i) ==
    /\ pc[i] = "new"
    /\ pc' = [pc EXCEPT ![i] = "ended"]
    /\ UNCHANGED <<busy, marker, late, intr, job, struck>>

\* The gateway is ready with images; the handler asks for a session.
StatusReady(i) ==
    /\ pc[i] = "status"
    /\ pc' = [pc EXCEPT ![i] = "session"]
    /\ UNCHANGED <<busy, marker, late, intr, job, struck>>

\* No session yet: a refusal, an upstream error or the deadline only clears busy.
EndsEarly(i) ==
    /\ pc[i] \in {"status", "session"}
    /\ pc' = [pc EXCEPT ![i] = "ended"]
    /\ Leaves
    /\ UNCHANGED <<marker, late, intr, job, struck>>

\* The session is there: the marker is created, which fails when it exists, and
\* the job is submitted before the next await.
Submit(i) ==
    /\ pc[i] = "session"
    /\ ~marker
    /\ marker' = TRUE
    /\ job' = [job EXCEPT ![i] = "live"]
    /\ pc' = [pc EXCEPT ![i] = "poll"]
    /\ UNCHANGED <<busy, late, intr, struck>>

\* The body of generate() fails after the session was given: its finally block
\* interrupts that session, shielded, and waits.
StopsAndWaits(i) ==
    /\ pc' = [pc EXCEPT ![i] = "stop"]
    /\ intr' = [intr EXCEPT ![i] = "running"]

\* The marker cannot be created, or is created and cannot be written.
MarkerFails(i) ==
    /\ pc[i] = "session"
    /\ marker' \in {marker, TRUE}
    /\ StopsAndWaits(i)
    /\ UNCHANGED <<busy, late, job, struck>>

\* The backend answers with one image; the artifact is fetched.
JobReturns(i) ==
    /\ pc[i] = "poll"
    /\ job[i] = "ended"
    /\ pc' = [pc EXCEPT ![i] = "fetch"]
    /\ UNCHANGED <<busy, marker, late, intr, job, struck>>

\* The call to the backend fails, or its answer or artifact is not accepted.
JobFails(i) ==
    /\ pc[i] \in Polling
    /\ StopsAndWaits(i)
    /\ UNCHANGED <<busy, marker, late, job, struck>>

\* The caller has left or image_timeout is over: the call is cancelled first.
GivesUp(i) ==
    /\ pc[i] = "poll"
    /\ pc' = [pc EXCEPT ![i] = "cancel"]
    /\ UNCHANGED <<busy, marker, late, intr, job, struck>>

CallCancelled(i) ==
    /\ pc[i] = "cancel"
    /\ StopsAndWaits(i)
    /\ UNCHANGED <<busy, marker, late, job, struck>>

\* The artifact is complete: finally removes the marker, and image() is done.
Completes(i) ==
    /\ pc[i] = "fetch"
    /\ pc' = [pc EXCEPT ![i] = "ended"]
    /\ marker' = FALSE
    /\ Leaves
    /\ UNCHANGED <<late, intr, job, struck>>

\* The interrupt has ended, whatever it learnt: the marker stays.
Stopped(i) ==
    /\ pc[i] = "stop"
    /\ intr[i] = "over"
    /\ pc' = [pc EXCEPT ![i] = "ended"]
    /\ Leaves
    /\ UNCHANGED <<marker, late, intr, job, struck>>

\* The deadline of image() strikes, once: at the poll the call is cancelled
\* first, at the shield the handler leaves and the interrupt goes on.
Deadline(i) ==
    /\ pc[i] \in Working
    /\ i \notin late
    /\ late' = late \union {i}
    /\ \/ /\ pc[i] \in {"status", "session"}
          /\ pc' = [pc EXCEPT ![i] = "ended"]
          /\ Leaves
          /\ UNCHANGED intr
       \/ /\ pc[i] = "poll"
          /\ pc' = [pc EXCEPT ![i] = "cancel"]
          /\ UNCHANGED <<busy, intr>>
       \/ /\ pc[i] \in {"cancel", "fetch"}
          /\ StopsAndWaits(i)
          /\ UNCHANGED busy
       \/ /\ pc[i] = "stop"
          /\ pc' = [pc EXCEPT ![i] = "ended"]
          /\ Leaves
          /\ UNCHANGED intr
    /\ UNCHANGED <<marker, job, struck>>

\* interrupt(): InterruptAll for this session and no other; the backend may
\* acknowledge before the job has ended, or not end it at all.
EverySession(i) == Images          \* other_sessions
SessionOf(i) == {i}

Interrupt(i) ==
    /\ intr[i] = "running"
    /\ \E stopped \in SUBSET {j \in SessionOf(i) : job[j] = "live"} :
        /\ job' = [j \in Images |-> IF j \in stopped THEN "ended" ELSE job[j]]
        /\ struck' = struck \union stopped
    /\ UNCHANGED <<busy, marker, pc, late, intr>>

\* bounded_interrupt: the counters are zero, ten looks or ten seconds are over,
\* or a reply could not be read.
OnlyWhenStill(i) == job[i] # "live"
InTenSeconds(i) == TRUE

InterruptEnds(i) ==
    /\ intr[i] = "running"
    /\ InTenSeconds(i)
    /\ intr' = [intr EXCEPT ![i] = "over"]
    /\ UNCHANGED <<busy, marker, pc, late, job, struck>>

\* The backend finishes, or loses, a job.
JobEnds(i) ==
    /\ job[i] = "live"
    /\ job' = [job EXCEPT ![i] = "ended"]
    /\ UNCHANGED <<busy, marker, pc, late, intr, struck>>

\* The operator restarts the backend, then clears the marker.
Clear ==
    /\ marker
    /\ marker' = FALSE
    /\ job' = [i \in Images |-> IF job[i] = "live" THEN "ended" ELSE job[i]]
    /\ UNCHANGED <<busy, pc, late, intr, struck>>

Handles(i) ==
    \/ StatusReady(i) \/ EndsEarly(i) \/ Submit(i) \/ MarkerFails(i)
    \/ JobReturns(i) \/ JobFails(i) \/ GivesUp(i) \/ CallCancelled(i)
    \/ Completes(i) \/ Stopped(i) \/ Deadline(i)

ImageStep ==
    \/ \E i \in Images :
        Begin(i) \/ Refuse(i) \/ Handles(i) \/ Interrupt(i) \/ InterruptEnds(i)
        \/ JobEnds(i)
    \/ Clear

-----------------------------------------------------------------------------
(* Tool calls *)

NotBusy(n) == n < ToolLimit

\* mcp(): retrieval of project passages, limited and under a deadline of 30 s.
Retrieve(c) ==
    /\ call[c] = "idle"
    /\ NotBusy(retrievals)
    /\ retrievals' = retrievals + 1
    /\ call' = [call EXCEPT ![c] = "retrieving"]
    /\ UNCHANGED <<active, quota>>

\* It returns, fails, or its deadline strikes; the finally block counts down.
RetrieveEnds(c) ==
    /\ call[c] = "retrieving"
    /\ retrievals' = retrievals - 1
    /\ call' = [call EXCEPT ![c] = "idle"]
    /\ UNCHANGED <<active, quota>>

\* reserve(): the three windows of one instant are below their limits.
Free == \A w \in WindowsOf(clock) : used[w] < Limit(w)
Spend == used' = [w \in Windows |-> IF w \in WindowsOf(clock) THEN used[w] + 1 ELSE used[w]]

\* request(): the reservation is committed in one transaction, which makes the
\* table when the file was absent, and then the provider is called.
WebCall(c) ==
    /\ call[c] = "idle"
    /\ NotBusy(active)
    /\ ledger # "empty"
    /\ Free
    /\ Spend
    /\ ledger' = "table"
    /\ active' = active + 1
    /\ call' = [call EXCEPT ![c] = "fetching"]
    /\ sent' = [w \in Windows |-> IF w \in WindowsOf(clock) THEN sent[w] + 1 ELSE sent[w]]
    /\ UNCHANGED retrievals

\* The transaction fails after SQLite made the file: it has no table, and every
\* later reservation, finding a file, makes none. The call is refused.
ReserveFails(c) ==
    /\ call[c] = "idle"
    /\ NotBusy(active)
    /\ ledger = "absent"
    /\ ledger' = "empty"
    /\ UNCHANGED <<used, sent, tool>>

\* finally only counts down: an uncertain request is not given back.
Refunded == used' = [w \in Windows |->
    IF w \in WindowsOf(clock) /\ used[w] > 0 THEN used[w] - 1 ELSE used[w]]
NotRefunded == UNCHANGED used

\* The provider answers, fails, or the deadline of 25 s strikes.
WebEnds(c) ==
    /\ call[c] = "fetching"
    /\ active' = active - 1
    /\ call' = [call EXCEPT ![c] = "idle"]
    /\ NotRefunded
    /\ UNCHANGED <<retrievals, ledger, sent>>

ToolStep ==
    \E c \in Calls :
        \/ Retrieve(c) \/ RetrieveEnds(c)
        \/ WebCall(c) \/ ReserveFails(c) \/ WebEnds(c)

-----------------------------------------------------------------------------
(* The process and the clock *)

\* __init__ looks at no file: a marker found at the start stays.
ClearedAtStart == FALSE
FoundMarker == marker

\* The process dies at any await, or inside the transaction of a reservation,
\* and is started again: memory is lost, the volume and the backend are not.
Restart ==
    /\ restarts < MaxRestarts
    /\ restarts' = restarts + 1
    /\ busy' = FALSE
    /\ pc' = [i \in Images |-> IF pc[i] \in Working THEN "ended" ELSE pc[i]]
    /\ intr' = [i \in Images |-> IF intr[i] = "running" THEN "over" ELSE intr[i]]
    /\ call' = [c \in Calls |-> "idle"]
    /\ retrievals' = 0
    /\ active' = 0
    /\ ledger' \in IF ledger = "absent" THEN {"absent", "empty"} ELSE {ledger}
    /\ marker' = FoundMarker
    /\ UNCHANGED <<late, job, struck, used, sent, clock>>

\* Time goes on; the clock may also be set back.
Tick ==
    /\ \E t \in Instants \ {clock} : clock' = t
    /\ UNCHANGED <<image, quota, tool, restarts>>

Next ==
    \/ ImageStep /\ UNCHANGED <<quota, tool, clock, restarts>>
    \/ ToolStep /\ UNCHANGED <<image, clock, restarts>>
    \/ Restart
    \/ Tick

Spec == Init /\ [][Next]_vars

\* The event loop runs what is ready and its timers fire; an interrupt is
\* bounded by its own deadline. Nothing is asked of the backend or the operator.
Fairness ==
    /\ \A i \in Images :
        /\ WF_vars(Deadline(i) /\ UNCHANGED <<quota, tool, clock, restarts>>)
        /\ WF_vars((CallCancelled(i) \/ Stopped(i)) /\ UNCHANGED <<quota, tool, clock, restarts>>)
        /\ WF_vars(InterruptEnds(i) /\ UNCHANGED <<quota, tool, clock, restarts>>)
    /\ \A c \in Calls :
        WF_vars((RetrieveEnds(c) \/ WebEnds(c)) /\ UNCHANGED <<image, clock, restarts>>)

FairSpec == Spec /\ Fairness
-----------------------------------------------------------------------------
(* Properties *)

\* While a job may be running in the backend the marker is there and it is the
\* only job, across deadlines that leave an interrupt behind, failures, restarts
\* and the operator's recovery (service_tools.py, "Keep the durable marker" in
\* generate's finally block; docs/ASSISTANT.md:154 "blocks another job").
OneJob ==
    /\ \A i \in Images : job[i] = "live" => marker
    /\ \A i, j \in Images : job[i] = "live" /\ job[j] = "live" => i = j

\* An interrupt, which may outlive its request, its adapter's busy flag and the
\* marker, never ends a job whose handler still waits for it.
OthersUntouched == \A i \in struck : pc[i] \notin Polling

\* No window sees more provider requests than its limit, whatever the requests'
\* outcomes, restarts and a clock set back (web_search.py: "Reservations survive
\* failures/restarts: an uncertain request is never refunded").
WithinLimits == \A w \in Windows : sent[w] <= Limit(w)

\* The adapter becomes free again and a tool call ends, though the backend, the
\* provider or the marker's operator may never answer.
Frees ==
    /\ busy ~> ~busy
    /\ \A c \in Calls : call[c] # "idle" ~> call[c] = "idle"
=============================================================================
