---------------------------- MODULE ToolsProofs ----------------------------
(***************************************************************************)
(* Proofs about module Tools.  The two invariants meet nowhere: one follows *)
(* the single image job through handlers, left-over interrupts, restarts    *)
(* and the operator's recovery, the other the counters of the tool calls    *)
(* and the ledger.                                                          *)
(***************************************************************************)
EXTENDS Tools, FiniteSetTheorems, TLAPS

\* A handler that submitted a job and still waits for it, or has its result.
Waiting == {"poll", "cancel", "fetch"}

\* The busy flag admits one handler at a time.
OneHandler ==
    /\ \A i \in Images : pc[i] \in Working => busy
    /\ \A i, j \in Images : pc[i] \in Working /\ pc[j] \in Working => i = j

\* What the place of a handler says of its job and its interrupt.
Handling(i) ==
    /\ pc[i] \in {"new", "status", "session"} => job[i] = "none"
    /\ pc[i] \in Waiting => \A j \in Images \ {i} : job[j] # "live"
    /\ pc[i] = "fetch" => job[i] = "ended"
    /\ intr[i] = "running" \/ i \in struck => pc[i] \in {"stop", "ended"}

ImageType ==
    /\ busy \in BOOLEAN
    /\ marker \in BOOLEAN
    /\ pc \in [Images -> {"new", "ended"} \union Working]
    /\ late \in SUBSET Images
    /\ intr \in [Images -> {"none", "running", "over"}]
    /\ job \in [Images -> {"none", "live", "ended"}]
    /\ struck \in SUBSET Images

ImageInv ==
    /\ ImageType
    /\ OneHandler
    /\ \A i \in Images : Handling(i)
    /\ OneJob

Under(step) == {c \in Calls : call[c] = step}
Counts(n, step) == IsFiniteSet(Under(step)) /\ n = Cardinality(Under(step))

\* The counters count the calls under way; what was sent was reserved before,
\* and what is reserved keeps to the limit.
ToolInv ==
    /\ call \in [Calls -> {"idle", "retrieving", "fetching"}]
    /\ retrievals \in 0..ToolLimit /\ Counts(retrievals, "retrieving")
    /\ active \in 0..ToolLimit /\ Counts(active, "fetching")
    /\ ledger \in {"absent", "empty", "table"}
    /\ used \in [Windows -> Nat] /\ sent \in [Windows -> Nat]
    /\ \A w \in Windows : sent[w] <= used[w] /\ used[w] <= Limit(w)
    /\ clock \in Instants
    /\ restarts \in 0..MaxRestarts

IInv == ImageInv /\ ToolInv

-----------------------------------------------------------------------------
(* The image requests                                                       *)

\* A step of one handler: what it may do to the rest, if it ends or moves on.
LEMMA HandlerStep ==
    ASSUME ImageInv, NEW i \in Images, NEW to \in {"ended"} \union Working,
           pc[i] \in Working, pc' = [pc EXCEPT ![i] = to],
           busy' = (to # "ended"), UNCHANGED <<struck, job, marker>>,
           late' \in SUBSET Images,
           intr' = intr \/ (to = "stop" /\ intr' = [intr EXCEPT ![i] = "running"]),
           to \in {"status", "session"} => pc[i] \in {"status", "session"},
           to \in Waiting => pc[i] \in Waiting,
           to = "fetch" => job[i] = "ended",
           pc[i] = "stop" => to = "ended"
    PROVE  ImageInv'
<1>1. ImageType'
  BY DEF ImageInv, ImageType, Working
<1>2. OneHandler'
  BY DEF ImageInv, ImageType, OneHandler, Working
<1>3. ASSUME NEW j \in Images
      PROVE  Handling(j)'
  BY DEF ImageInv, ImageType, Handling, Working, Waiting
<1>4. OneJob'
  BY DEF ImageInv, OneJob
<1> QED BY <1>1, <1>2, <1>3, <1>4 DEF ImageInv

\* A request begins: no other handler is at work.
LEMMA BeginStep ==
    ASSUME ImageInv, NEW i \in Images, Begin(i) \/ Refuse(i)
    PROVE  ImageInv'
<1>1. /\ pc[i] = "new"
      /\ \/ ~busy /\ busy' = TRUE /\ pc' = [pc EXCEPT ![i] = "status"]
         \/ busy' = busy /\ pc' = [pc EXCEPT ![i] = "ended"]
      /\ UNCHANGED <<marker, late, intr, job, struck>>
  BY DEF Begin, Refuse
<1>2. ImageType'
  BY <1>1 DEF ImageInv, ImageType, Working
<1>3. OneHandler'
  BY <1>1 DEF ImageInv, ImageType, OneHandler, Working
<1>4. ASSUME NEW j \in Images
      PROVE  Handling(j)'
  BY <1>1 DEF ImageInv, ImageType, Handling, Working, Waiting
<1>5. OneJob'
  BY <1>1 DEF ImageInv, OneJob
<1> QED BY <1>2, <1>3, <1>4, <1>5 DEF ImageInv

\* The job is submitted under a marker that did not exist: no job is live.
LEMMA SubmitStep ==
    ASSUME ImageInv, NEW i \in Images, Submit(i)
    PROVE  ImageInv'
<1>1. \A j \in Images : job[j] # "live"
  BY DEF ImageInv, OneJob, Submit
<1>2. ImageType'
  BY DEF ImageInv, ImageType, Submit, Working
<1>3. OneHandler'
  BY DEF ImageInv, ImageType, OneHandler, Submit, Working
<1>4. ASSUME NEW j \in Images
      PROVE  Handling(j)'
  <2>1. pc[j] \in Working => i = j
    BY DEF ImageInv, OneHandler, Submit, Working
  <2> QED BY <1>1, <2>1 DEF ImageInv, ImageType, Handling, Submit, Working, Waiting
<1>5. OneJob'
  BY <1>1 DEF ImageInv, ImageType, OneJob, Submit
<1> QED BY <1>2, <1>3, <1>4, <1>5 DEF ImageInv

\* The marker is created without a job, and its handler stops.
LEMMA MarkerFailsStep ==
    ASSUME ImageInv, NEW i \in Images, MarkerFails(i)
    PROVE  ImageInv'
<1>1. /\ pc[i] = "session" /\ busy' = busy /\ busy
      /\ pc' = [pc EXCEPT ![i] = "stop"] /\ intr' = [intr EXCEPT ![i] = "running"]
      /\ marker' \in BOOLEAN /\ (marker => marker') /\ UNCHANGED <<late, job, struck>>
  BY DEF ImageInv, ImageType, OneHandler, MarkerFails, StopsAndWaits, Working
<1>2. ImageType'
  BY <1>1 DEF ImageInv, ImageType, Working
<1>3. OneHandler'
  BY <1>1 DEF ImageInv, ImageType, OneHandler, Working
<1>4. ASSUME NEW j \in Images
      PROVE  Handling(j)'
  BY <1>1 DEF ImageInv, ImageType, Handling, Working, Waiting
<1>5. OneJob'
  BY <1>1 DEF ImageInv, OneJob
<1> QED BY <1>2, <1>3, <1>4, <1>5 DEF ImageInv

\* The artifact is complete: the only job there was has ended.
LEMMA CompletesStep ==
    ASSUME ImageInv, NEW i \in Images, Completes(i)
    PROVE  ImageInv'
<1>1. \A j \in Images : job[j] # "live"
  BY DEF ImageInv, Handling, Completes, Waiting
<1>2. ImageType'
  BY DEF ImageInv, ImageType, Completes, Leaves, Working
<1>3. OneHandler'
  BY DEF ImageInv, ImageType, OneHandler, Completes, Leaves, Working
<1>4. ASSUME NEW j \in Images
      PROVE  Handling(j)'
  BY DEF ImageInv, ImageType, Handling, Completes, Working, Waiting
<1>5. OneJob'
  BY <1>1 DEF ImageInv, OneJob, Completes
<1> QED BY <1>2, <1>3, <1>4, <1>5 DEF ImageInv

\* Jobs end, by an interrupt of their own session, by themselves or with the
\* backend: no handler moves.
LEMMA JobsStep ==
    ASSUME ImageInv, UNCHANGED <<busy, pc, late>>, marker' \in BOOLEAN,
           intr' \in [Images -> {"none", "running", "over"}],
           \A i \in Images : intr'[i] = "running" => intr[i] = "running",
           job' \in [Images -> {"none", "live", "ended"}],
           \A i \in Images : job'[i] = job[i] \/ (job[i] = "live" /\ job'[i] = "ended"),
           marker' = marker \/ \A i \in Images : job'[i] # "live",
           struck' \in SUBSET Images,
           \A i \in struck' \ struck : intr[i] = "running"
    PROVE  ImageInv'
<1>1. ImageType'
  BY DEF ImageInv, ImageType
<1>2. OneHandler'
  BY DEF ImageInv, OneHandler
<1>3. ASSUME NEW i \in Images
      PROVE  Handling(i)'
  BY DEF ImageInv, Handling, Waiting
<1>4. OneJob'
  BY DEF ImageInv, OneJob
<1> QED BY <1>1, <1>2, <1>3, <1>4 DEF ImageInv

\* Every step of the image adapter, the backend and the operator.
LEMMA ImageStepInv ==
    ASSUME ImageInv, ImageStep
    PROVE  ImageInv'
<1>1. ASSUME NEW i \in Images, Handles(i)
      PROVE  ImageInv'
  <2>0. /\ pc[i] \in Working => busy
        /\ ImageType
    BY DEF ImageInv, OneHandler
  <2>1. CASE StatusReady(i) \/ EndsEarly(i)
    BY <2>0, <2>1, HandlerStep DEF StatusReady, EndsEarly, Leaves, Working, Waiting, ImageType
  <2>2. CASE JobReturns(i) \/ GivesUp(i)
    BY <2>0, <2>2, HandlerStep DEF JobReturns, GivesUp, Working, Waiting, ImageType
  <2>3. CASE JobFails(i) \/ CallCancelled(i)
    BY <2>0, <2>3, HandlerStep DEF JobFails, CallCancelled, StopsAndWaits, Polling, Working, Waiting, ImageType
  <2>4. CASE Stopped(i)
    BY <2>0, <2>4, HandlerStep DEF Stopped, Leaves, Working, Waiting, ImageType
  <2>5. CASE Deadline(i)
    BY <2>0, <2>5, HandlerStep DEF Deadline, StopsAndWaits, Leaves, Working, Waiting, ImageType
  <2> QED BY <1>1, <2>1, <2>2, <2>3, <2>4, <2>5, SubmitStep, MarkerFailsStep, CompletesStep DEF Handles
<1>2. ASSUME NEW i \in Images, Interrupt(i) \/ InterruptEnds(i) \/ JobEnds(i)
      PROVE  ImageInv'
  <2>1. CASE Interrupt(i)
    BY <2>1, JobsStep DEF Interrupt, SessionOf, ImageInv, ImageType
  <2>2. CASE InterruptEnds(i) \/ JobEnds(i)
    BY <2>2, JobsStep DEF InterruptEnds, JobEnds, ImageInv, ImageType
  <2> QED BY <1>2, <2>1, <2>2
<1>3. CASE Clear
  BY <1>3, JobsStep DEF Clear, ImageInv, ImageType
<1> QED BY <1>1, <1>2, <1>3, BeginStep DEF ImageStep

\* A restart ends every handler and every interrupt, and leaves jobs and marker.
LEMMA RestartImage ==
    ASSUME ImageInv, Restart
    PROVE  ImageInv'
<1>1. ImageType'
  BY DEF ImageInv, ImageType, Restart, FoundMarker, Working
<1>2. \A i \in Images : pc'[i] \in {"new", "ended"} /\ (pc'[i] = "new" => pc[i] = "new")
  BY DEF ImageInv, ImageType, Restart, Working
<1>3. OneHandler'
  BY <1>2 DEF OneHandler, Working
<1>4. ASSUME NEW i \in Images
      PROVE  Handling(i)'
  <2>1. intr'[i] # "running" /\ struck' = struck /\ job' = job
    BY DEF ImageInv, ImageType, Restart
  <2> QED BY <1>2, <2>1 DEF ImageInv, Handling, Waiting
<1>5. OneJob'
  BY DEF ImageInv, OneJob, Restart, FoundMarker
<1> QED BY <1>1, <1>3, <1>4, <1>5 DEF ImageInv

-----------------------------------------------------------------------------
(* The tool calls                                                           *)

\* A call enters a step: one more is under way there, and nothing else changes.
LEMMA Enters ==
    ASSUME NEW c \in Calls, NEW step \in {"retrieving", "fetching"},
           call \in [Calls -> {"idle", "retrieving", "fetching"}], call[c] = "idle",
           call' = [call EXCEPT ![c] = step], IsFiniteSet(Under(step))
    PROVE  /\ IsFiniteSet(Under(step)') /\ Cardinality(Under(step)') = Cardinality(Under(step)) + 1
           /\ \A other \in {"retrieving", "fetching"} \ {step} : Under(other)' = Under(other)
<1>1. Under(step)' = Under(step) \union {c} /\ c \notin Under(step)
  BY DEF Under
<1>2. Cardinality(Under(step) \union {c}) = Cardinality(Under(step)) + 1 /\ IsFiniteSet(Under(step) \union {c})
  BY <1>1, FS_AddElement
<1>3. \A other \in {"retrieving", "fetching"} \ {step} : Under(other)' = Under(other)
  BY DEF Under
<1> QED BY <1>1, <1>2, <1>3

\* It leaves: one less, and there was one.
LEMMA Exits ==
    ASSUME NEW c \in Calls, NEW step \in {"retrieving", "fetching"},
           call \in [Calls -> {"idle", "retrieving", "fetching"}], call[c] = step,
           call' = [call EXCEPT ![c] = "idle"], IsFiniteSet(Under(step))
    PROVE  /\ IsFiniteSet(Under(step)') /\ Cardinality(Under(step)') = Cardinality(Under(step)) - 1
           /\ Cardinality(Under(step)) \in Nat /\ Cardinality(Under(step)) > 0
           /\ \A other \in {"retrieving", "fetching"} \ {step} : Under(other)' = Under(other)
<1>1. Under(step)' = Under(step) \ {c} /\ c \in Under(step)
  BY DEF Under
<1>2. Cardinality(Under(step) \ {c}) = Cardinality(Under(step)) - 1 /\ IsFiniteSet(Under(step) \ {c})
  BY <1>1, FS_RemoveElement
<1>3. \A other \in {"retrieving", "fetching"} \ {step} : Under(other)' = Under(other)
  BY DEF Under
<1>4. Cardinality(Under(step)) \in Nat /\ Cardinality(Under(step)) # 0
  BY <1>1, FS_CardinalityType, FS_EmptySet
<1> QED BY <1>1, <1>2, <1>3, <1>4

\* The windows of the clock are windows, and each has a limit.
LEMMA LimitType == \A w \in Windows : Limit(w) \in Nat \ {0}
<1>1. ASSUME NEW w \in Windows
      PROVE  w[1] \in Kinds
  <2>1. PICK t \in Instants : w \in WindowsOf(t)
    BY DEF Windows
  <2> QED BY <2>1 DEF WindowsOf
<1> QED BY <1>1, ToolsAssumption DEF Limit

\* A provider request: reserved in every window of the clock, and then sent.
LEMMA WebCallStep ==
    ASSUME ToolInv, NEW c \in Calls, WebCall(c), UNCHANGED <<clock, restarts>>
    PROVE  ToolInv'
<1>1. /\ call[c] = "idle" /\ call' = [call EXCEPT ![c] = "fetching"]
      /\ active' = active + 1 /\ active < ToolLimit /\ retrievals' = retrievals
      /\ \A w \in WindowsOf(clock) : used[w] < Limit(w)
      /\ used' = [w \in Windows |-> IF w \in WindowsOf(clock) THEN used[w] + 1 ELSE used[w]]
      /\ sent' = [w \in Windows |-> IF w \in WindowsOf(clock) THEN sent[w] + 1 ELSE sent[w]]
      /\ ledger' = "table"
  BY DEF WebCall, NotBusy, Free, Spend
<1>2. Counts(active, "fetching")' /\ Counts(retrievals, "retrieving")'
  BY <1>1, Enters DEF ToolInv, Counts
<1>3. active' \in 0..ToolLimit
  BY <1>1, ToolsAssumption DEF ToolInv
<1>4. used' \in [Windows -> Nat] /\ sent' \in [Windows -> Nat]
  BY <1>1 DEF ToolInv
<1>5. \A w \in Windows : sent'[w] <= used'[w] /\ used'[w] <= Limit(w)
  BY <1>1, LimitType DEF ToolInv
<1> QED BY <1>1, <1>2, <1>3, <1>4, <1>5 DEF ToolInv

\* A call of either kind starts or ends, or its reservation fails.
LEMMA ToolStepInv ==
    ASSUME ToolInv, ToolStep, UNCHANGED <<clock, restarts>>
    PROVE  ToolInv'
<1>1. ASSUME NEW c \in Calls, Retrieve(c)
      PROVE  ToolInv'
  <2>1. /\ call[c] = "idle" /\ call' = [call EXCEPT ![c] = "retrieving"]
        /\ retrievals' = retrievals + 1 /\ retrievals < ToolLimit
        /\ UNCHANGED <<active, ledger, used, sent>>
    BY <1>1 DEF Retrieve, NotBusy, quota
  <2>2. Counts(retrievals, "retrieving")' /\ Counts(active, "fetching")'
    BY <2>1, Enters DEF ToolInv, Counts
  <2>3. retrievals' \in 0..ToolLimit
    BY <2>1, ToolsAssumption DEF ToolInv
  <2> QED BY <2>1, <2>2, <2>3 DEF ToolInv
<1>2. ASSUME NEW c \in Calls, RetrieveEnds(c)
      PROVE  ToolInv'
  <2>1. /\ call[c] = "retrieving" /\ call' = [call EXCEPT ![c] = "idle"]
        /\ retrievals' = retrievals - 1
        /\ UNCHANGED <<active, ledger, used, sent>>
    BY <1>2 DEF RetrieveEnds, quota
  <2>2. Counts(retrievals, "retrieving")' /\ Counts(active, "fetching")' /\ retrievals > 0
    BY <2>1, Exits DEF ToolInv, Counts
  <2>3. retrievals' \in 0..ToolLimit
    BY <2>1, <2>2, ToolsAssumption DEF ToolInv
  <2> QED BY <2>1, <2>2, <2>3 DEF ToolInv
<1>3. ASSUME NEW c \in Calls, WebEnds(c)
      PROVE  ToolInv'
  <2>1. /\ call[c] = "fetching" /\ call' = [call EXCEPT ![c] = "idle"]
        /\ active' = active - 1
        /\ UNCHANGED <<retrievals, ledger, used, sent>>
    BY <1>3 DEF WebEnds, NotRefunded
  <2>2. Counts(active, "fetching")' /\ Counts(retrievals, "retrieving")' /\ active > 0
    BY <2>1, Exits DEF ToolInv, Counts
  <2>3. active' \in 0..ToolLimit
    BY <2>1, <2>2, ToolsAssumption DEF ToolInv
  <2> QED BY <2>1, <2>2, <2>3 DEF ToolInv
<1>4. ASSUME NEW c \in Calls, ReserveFails(c)
      PROVE  ToolInv'
  BY <1>4 DEF ToolInv, ReserveFails, tool, Counts, Under
<1> QED BY <1>1, <1>2, <1>3, <1>4, WebCallStep DEF ToolStep

\* After a restart no call is under way; the ledger is what it was, or an empty
\* file.
LEMMA RestartTool ==
    ASSUME ToolInv, Restart
    PROVE  ToolInv'
<1>1. \A step \in {"retrieving", "fetching"} : Under(step)' = {}
  BY DEF Under, Restart
<1>2. Counts(retrievals, "retrieving")' /\ Counts(active, "fetching")'
  BY <1>1, FS_EmptySet DEF Counts, Restart
<1>3. restarts' \in 0..MaxRestarts
  BY ToolsAssumption DEF ToolInv, Restart
<1>4. ledger' \in {"absent", "empty", "table"} /\ 0 \in 0..ToolLimit
  BY ToolsAssumption DEF ToolInv, Restart
<1> QED BY <1>2, <1>3, <1>4 DEF ToolInv, Restart

-----------------------------------------------------------------------------
(* The invariant holds of every behaviour                                   *)

\* Nothing is under way, nothing was reserved.
LEMMA InitInv == Init => IInv
<1> SUFFICES ASSUME Init PROVE IInv
  OBVIOUS
<1>1. ImageType
  BY DEF Init, ImageType
<1>2. ImageInv
  BY <1>1 DEF Init, ImageInv, OneHandler, Handling, OneJob, Working, Waiting
<1>3. \A step \in {"retrieving", "fetching"} : Under(step) = {}
  BY DEF Init, Under
<1>4. Counts(retrievals, "retrieving") /\ Counts(active, "fetching")
  BY <1>3, FS_EmptySet DEF Init, Counts
<1>5. 0 \in 0..ToolLimit /\ 0 \in 0..MaxRestarts
  BY ToolsAssumption
<1>6. \A w \in Windows : sent[w] <= used[w] /\ used[w] <= Limit(w)
  BY LimitType DEF Init
<1>7. used \in [Windows -> Nat] /\ sent \in [Windows -> Nat]
  BY DEF Init
<1>8. ToolInv
  BY <1>4, <1>5, <1>6, <1>7 DEF Init, ToolInv
<1> QED BY <1>2, <1>8 DEF IInv

\* Every step preserves it.
LEMMA NextInv == IInv /\ [Next]_vars => IInv'
<1> SUFFICES ASSUME IInv, [Next]_vars PROVE IInv'
  OBVIOUS
<1> USE DEF IInv
<1>1. UNCHANGED image => ImageInv'
  BY DEF image, ImageInv, ImageType, OneHandler, Handling, OneJob
<1>2. UNCHANGED <<quota, tool, restarts>> /\ clock' \in Instants => ToolInv'
  BY DEF quota, tool, ToolInv, Counts, Under
<1>3. CASE ImageStep /\ UNCHANGED <<quota, tool, clock, restarts>>
  <2>1. clock' \in Instants
    BY <1>3 DEF ToolInv
  <2> QED BY <1>2, <1>3, <2>1, ImageStepInv
<1>4. CASE ToolStep /\ UNCHANGED <<image, clock, restarts>>
  BY <1>1, <1>4, ToolStepInv
<1>5. CASE Restart
  BY <1>5, RestartImage, RestartTool
<1>6. CASE Tick
  BY <1>1, <1>2, <1>6 DEF Tick
<1>7. CASE UNCHANGED vars
  <2>1. clock' \in Instants /\ UNCHANGED <<image, quota, tool, restarts>>
    BY <1>7 DEF vars, ToolInv
  <2> QED BY <1>1, <1>2, <2>1
<1> QED BY <1>3, <1>4, <1>5, <1>6, <1>7 DEF Next

\* The invariant is inductive: Init establishes it and every step preserves it.
THEOREM Invariant == Spec => []IInv
  BY InitInv, NextInv, PTL DEF Spec

\* Every variable keeps its type; the counters stay within the limit and never
\* go below zero (web_search.py, service_tools.py).
THEOREM TypeCorrect == Spec => []TypeOK
<1>1. IInv => TypeOK
  BY DEF IInv, ImageInv, ImageType, ToolInv, TypeOK
<1> QED BY <1>1, Invariant, PTL

\* However many requests, deadlines and restarts there are, one job at most runs
\* in the backend, and the marker is there while it does (service_tools.py).
THEOREM SingleJob == Spec => []OneJob
<1>1. IInv => OneJob
  BY DEF IInv, ImageInv
<1> QED BY <1>1, Invariant, PTL

\* An interrupt left behind by one request never ends the job of another, whose
\* handler still waits for it (service_tools.py).
THEOREM InterruptsOwn == Spec => []OthersUntouched
<1>1. IInv => OthersUntouched
  BY DEF IInv, ImageInv, ImageType, Handling, OthersUntouched, Polling
<1> QED BY <1>1, Invariant, PTL

\* For every policy, and clocks that show any instants in any order, no window
\* sees more provider requests than its limit (web_search.py).
THEOREM QuotaKept == Spec => []WithinLimits
<1>1. IInv => WithinLimits
  <2> SUFFICES ASSUME ToolInv, NEW w \in Windows PROVE sent[w] <= Limit(w)
    BY DEF IInv, WithinLimits
  <2>1. sent[w] \in Nat /\ used[w] \in Nat /\ Limit(w) \in Nat
    BY LimitType DEF ToolInv
  <2> QED BY <2>1 DEF ToolInv
<1> QED BY <1>1, Invariant, PTL
=============================================================================
