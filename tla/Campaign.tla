------------------------------ MODULE Campaign ------------------------------
(* The owner campaigns of infrastructure/hyperloom/sglang-owner-adapter and
   lib/workstation/hyperloom_exchange*.py. A client submits a request in its
   campaign's exchange and waits; the campaign's controller, one process that is
   never restarted, takes one request at a time through calls to the exchange
   host, registers it in a checkpoint directory all campaigns share, has the
   owner use the cards once, and publishes the outcome. An action is what a
   process does between two points where another can be seen: a call to the
   exchange, a checkpoint, the owner's caller.

   The clock is abstract. Any check of a remaining budget may fail at any step,
   as may any call to the exchange; only the end of a request is a state.    *)
EXTENDS Integers, FiniteSets

CONSTANTS
    Controllers,  \* one for each campaign
    Jobs,         \* requests, each submitted once
    CampaignOf,   \* the controller of a request's campaign
    KindOf,       \* "component" or "serving" (profile requests are alike)
    SourceOf,     \* the source set of a request
    Selected,     \* the selected source set, served without a screen
    None,
    MaxFaults     \* bound on what fails, is interrupted or expires

ASSUME CampaignAssumption ==
    /\ None \notin Jobs
    /\ CampaignOf \in [Jobs -> Controllers]
    /\ KindOf \in [Jobs -> {"component", "serving"}]
    /\ MaxFaults \in Nat

VARIABLES
    client,     \* backend.run and wait_result of a request
    cancelled,  \* requests with a CANCELLED.json
    expired,    \* requests past their expires_unix_ms
    claimed,    \* requests with a reply directory
    result,     \* requests with a RESULT.json
    terminal,   \* campaigns with a CAMPAIGN-PARKED.json
    pc,         \* where a controller is
    op,         \* the operation it handles
    passed,     \* component requests with a report eligible for serving
    number,     \* number of the newest checkpoint
    holder,     \* the request it is open for
    completed,  \* last_completed_global_attempt_index in it
    torn,       \* it was created and not written
    owner,      \* a request's owner on the cards
    counted,    \* history: requests closed as completed attempts
    early,      \* history: requests cancelled when they were registered
    faults

exchange == <<client, cancelled, expired, claimed, result, terminal>>
handling == <<pc, op, passed>>
checkpoint == <<number, holder, completed, torn, counted>>
cards == <<owner, early>>
vars == <<exchange, handling, checkpoint, cards, faults>>

Statuses == {"SUCCEEDED", "FAILED", "UNSUPPORTED", "CANCELLED"}

\* The request taken; its outcome's status, park_campaign and
\* independent_release; the attempts completed when it was proposed; the number
\* of the checkpoint it read or wrote last.
Operations == [job : Jobs \union {None}, status : Statuses, park : BOOLEAN,
               released : BOOLEAN, index : Nat, seen : Nat]
NoOperation == [job |-> None, status |-> "FAILED", park |-> TRUE,
                released |-> FALSE, index |-> 0, seen |-> 0]

\* Before the checkpoint is opened, and from then to its closeout.
Before == {"poll", "listed", "claimed", "taken", "prepare", "prepared",
           "proposed", "checked", "admitted"}
Executing == {"opened", "cleared", "calling", "closing"}
Waiting == {"posted", "looked"}

TypeOK ==
    /\ client \in [Jobs -> {"new", "got", "ended"} \union Waiting]
    /\ cancelled \in SUBSET Jobs
    /\ expired \in SUBSET Jobs
    /\ claimed \in SUBSET Jobs
    /\ result \in SUBSET Jobs
    /\ terminal \in SUBSET Controllers
    /\ pc \in [Controllers -> Before \union Executing \union {"publish", "park", "gone"}]
    /\ op \in [Controllers -> Operations]
    /\ passed \in SUBSET Jobs
    /\ number \in Nat
    /\ holder \in Jobs \union {None}
    /\ completed \in Nat
    /\ torn \in BOOLEAN
    /\ owner \in [Jobs -> {"none", "running", "released"}]
    /\ counted \in SUBSET Jobs
    /\ early \in SUBSET Jobs
    /\ faults \in 0..MaxFaults

Init ==
    /\ client = [j \in Jobs |-> "new"]
    /\ cancelled = {} /\ expired = {} /\ claimed = {} /\ result = {} /\ terminal = {}
    /\ pc = [k \in Controllers |-> "poll"]
    /\ op = [k \in Controllers |-> NoOperation]
    /\ passed = {}
    /\ number = 0 /\ holder = None /\ completed = 0 /\ torn = FALSE
    /\ owner = [j \in Jobs |-> "none"]
    /\ counted = {} /\ early = {} /\ faults = 0

-----------------------------------------------------------------------------
(* Clients *)

\* require_campaign_open: the campaign has no terminal record.
CampaignOpen(j) == CampaignOf[j] \notin terminal

Begins(j) == client[j] = "new" /\ CampaignOpen(j)

\* The request is complete with the last of submit's publications.
Submit(j) ==
    /\ Begins(j)
    /\ client' = [client EXCEPT ![j] = "posted"]
    /\ UNCHANGED <<cancelled, expired, claimed, result, terminal, handling, checkpoint, cards>>

\* One turn of wait_result's loop, in its two looks.
LookForResult(j) ==
    /\ client[j] = "posted"
    /\ client' = [client EXCEPT ![j] = IF j \in result THEN "got" ELSE "looked"]
    /\ UNCHANGED <<cancelled, expired, claimed, result, terminal, handling, checkpoint, cards>>

\* _cancel_wait: every other end of the wait leaves CANCELLED.json.
CancelWait(j) ==
    /\ client' = [client EXCEPT ![j] = "ended"]
    /\ cancelled' = cancelled \union {j}
    /\ UNCHANGED <<expired, claimed, result, terminal, handling, checkpoint, cards>>

SeesTerminal(j) ==
    /\ client[j] = "looked"
    /\ ~CampaignOpen(j)
    /\ CancelWait(j)

SeesNothing(j) ==
    /\ client[j] = "looked"
    /\ CampaignOpen(j)
    /\ client' = [client EXCEPT ![j] = "posted"]
    /\ UNCHANGED <<cancelled, expired, claimed, result, terminal, handling, checkpoint, cards>>

Look(j) == LookForResult(j) \/ SeesTerminal(j) \/ SeesNothing(j)

\* The deadline of the wait, a cancelled task, or an interrupt from run_client.
Interrupted(j) == client[j] = "posted" /\ CancelWait(j)

-----------------------------------------------------------------------------
(* The controller: one request from the queue to its preparation *)

Goes(k, to) == pc' = [pc EXCEPT ![k] = to]

\* The controller leaves a request with an outcome, to publish it.
Concludes(k, status, park) ==
    /\ Goes(k, "publish")
    /\ op' = [op EXCEPT ![k].status = status, ![k].park = park]
    /\ UNCHANGED passed

\* serve: the loop ends on STOP.json or with the campaign's budget; its finally
\* block parks. So does a step that fails before it has a request.
Ends(k) ==
    /\ pc[k] = "poll"
    /\ Goes(k, "park")
    /\ UNCHANGED <<exchange, op, passed, checkpoint, cards>>

\* list: complete requests without a reply directory.
Queue(k) == {j \in Jobs : CampaignOf[j] = k /\ client[j] # "new" /\ j \notin claimed}

List(k) ==
    /\ pc[k] = "poll"
    /\ \E j \in Queue(k) : op' = [op EXCEPT ![k] = [NoOperation EXCEPT !.job = j]]
    /\ Goes(k, "listed")
    /\ UNCHANGED <<exchange, passed, checkpoint, cards>>

IsCancelled(j) == j \in cancelled \/ j \in expired

\* take, on the exchange host. inspect and claim refuse a request that no longer
\* fits or is cancelled; the reply directory is made and the cancellation is
\* looked for again. A refusal, or a lost call, is a DISPATCH-FAILURE, which
\* parks the campaign: no outcome is bound to a request that was not taken.
Claim(k) ==
    /\ pc[k] = "listed"
    /\ ~IsCancelled(op[k].job)
    /\ claimed' = claimed \union {op[k].job}
    /\ Goes(k, "claimed")
    /\ UNCHANGED <<client, cancelled, expired, result, terminal, op, passed, checkpoint, cards>>

Take(k) ==
    /\ pc[k] = "claimed"
    /\ op[k].job \notin cancelled
    /\ Goes(k, "taken")
    /\ UNCHANGED <<exchange, op, passed, checkpoint, cards>>

TakeRefused(k) ==
    \/ pc[k] = "listed" /\ IsCancelled(op[k].job)
    \/ pc[k] = "claimed" /\ op[k].job \in cancelled

TriesTheNext(k) == Goes(k, "poll")
ParksAtOnce(k) == Goes(k, "park")

DispatchFails(k) ==
    /\ pc[k] \in {"listed", "claimed"}
    /\ ParksAtOnce(k)
    /\ UNCHANGED <<exchange, op, passed, checkpoint, cards>>

CancelledBeforePreparation(k) ==
    /\ pc[k] = "taken"
    /\ IsCancelled(op[k].job)
    /\ Concludes(k, "CANCELLED", FALSE)
    /\ UNCHANGED <<exchange, checkpoint, cards>>

\* A grant may leave components out.
Uncovered(k) ==
    /\ pc[k] = "taken"
    /\ KindOf[op[k].job] = "component"
    /\ ~IsCancelled(op[k].job)
    /\ Concludes(k, "UNSUPPORTED", TRUE)
    /\ UNCHANGED <<exchange, checkpoint, cards>>

\* Changed source needs an eligible component report of this campaign.
Unscreened(j) == TRUE
Screened(j) ==
    \/ KindOf[j] = "component"
    \/ SourceOf[j] = Selected
    \/ \E i \in passed : CampaignOf[i] = CampaignOf[j] /\ SourceOf[i] = SourceOf[j]

Covered(k) ==
    /\ pc[k] = "taken"
    /\ ~IsCancelled(op[k].job)
    /\ Screened(op[k].job)
    /\ Goes(k, "prepare")
    /\ UNCHANGED <<exchange, op, passed, checkpoint, cards>>

\* prepare: the compiler's refusal of a component is the one failure that does
\* not park the campaign.
CandidateRejected(k) ==
    /\ pc[k] = "prepare"
    /\ KindOf[op[k].job] = "component"
    /\ Concludes(k, "FAILED", FALSE)
    /\ UNCHANGED <<exchange, checkpoint, cards>>

\* _checkpoint and _idle: the newest checkpoint can be read and is not open.
Idle == ~torn /\ holder = None

\* A sealed packet; nothing shared is touched.
Prepare(k) ==
    /\ pc[k] = "prepare"
    /\ Goes(k, "prepared")
    /\ UNCHANGED <<exchange, op, passed, checkpoint, cards>>

Propose(k) ==
    /\ pc[k] = "prepared"
    /\ Idle
    /\ op' = [op EXCEPT ![k].index = completed]
    /\ Goes(k, "proposed")
    /\ UNCHANGED <<exchange, passed, checkpoint, cards>>

\* Whatever is refused or fails before the checkpoint is opened has an outcome
\* that parks.
NotAdmitted(k) ==
    /\ pc[k] \in {"taken", "prepare", "prepared", "proposed", "checked", "admitted"}
    /\ Concludes(k, "FAILED", TRUE)
    /\ UNCHANGED <<exchange, checkpoint, cards>>

-----------------------------------------------------------------------------
(* execute *)

\* The attempt proposed is still the next one.
AnyIndex(k) == TRUE
SameIndex(k) == op[k].index = completed

CheckIdle(k) ==
    /\ pc[k] = "proposed"
    /\ Idle
    /\ SameIndex(k)
    /\ op' = [op EXCEPT ![k].seen = number]
    /\ Goes(k, "checked")
    /\ UNCHANGED <<exchange, passed, checkpoint, cards>>

\* admissible("before registration")
Admit(k) ==
    /\ pc[k] = "checked"
    /\ ~IsCancelled(op[k].job)
    /\ Goes(k, "admitted")
    /\ UNCHANGED <<exchange, op, passed, checkpoint, cards>>

AdmitCancelled(k) ==
    /\ pc[k] = "checked"
    /\ IsCancelled(op[k].job)
    /\ Concludes(k, "CANCELLED", FALSE)
    /\ UNCHANGED <<exchange, checkpoint, cards>>

\* _write_checkpoint(seen + 1) creates the file: only if no other has the number.
Unique(k) == op[k].seen = number

Open(k) ==
    /\ pc[k] = "admitted"
    /\ Unique(k)
    /\ number' = number + 1
    /\ holder' = op[k].job
    /\ op' = [op EXCEPT ![k].seen = op[k].seen + 1]
    /\ early' = early \union ({op[k].job} \intersect cancelled)
    /\ Goes(k, "opened")
    /\ UNCHANGED <<exchange, passed, completed, torn, counted, owner>>

Refused(k) ==
    \/ pc[k] = "taken" /\ ~Screened(op[k].job)
    \/ pc[k] = "prepared" /\ ~Idle
    \/ pc[k] = "proposed" /\ ~(Idle /\ SameIndex(k))
    \/ pc[k] = "admitted" /\ ~Unique(k)

\* The file is created and its text is not written: nobody can read the newest
\* checkpoint any more. The operation is refused.
OpenTorn(k) ==
    /\ pc[k] = "admitted"
    /\ Unique(k)
    /\ number' = number + 1
    /\ torn' = TRUE
    /\ Concludes(k, "FAILED", TRUE)
    /\ UNCHANGED <<exchange, holder, completed, counted, cards>>

\* REGISTRATION.json and admissible("immediately before invocation")
AnyRequest(j) == TRUE
StillWanted(j) == ~IsCancelled(j)

Clear(k) ==
    /\ pc[k] = "opened"
    /\ StillWanted(op[k].job)
    /\ Goes(k, "cleared")
    /\ UNCHANGED <<exchange, op, passed, checkpoint, cards>>

\* The body of execute ends with a status; _close follows.
Result(k, status, park, released) ==
    /\ Goes(k, "closing")
    /\ op' = [op EXCEPT ![k].status = status, ![k].park = park, ![k].released = released]
    /\ UNCHANGED <<exchange, passed, checkpoint, cards>>

ClearCancelled(k) ==
    /\ pc[k] = "opened"
    /\ IsCancelled(op[k].job)
    /\ Result(k, "CANCELLED", FALSE, FALSE)

NotInvoked(k) ==
    /\ pc[k] \in {"opened", "cleared"}
    /\ Result(k, "FAILED", TRUE, FALSE)

\* runner.run("caller-once")
Invoke(k) ==
    /\ pc[k] = "cleared"
    /\ owner' = [owner EXCEPT ![op[k].job] = "running"]
    /\ Goes(k, "calling")
    /\ UNCHANGED <<exchange, op, passed, checkpoint, early>>

\* The caller returned and the replay of what it retained joins the release.
ReleaseReplayed(k) == owner[op[k].job] = "released"

Succeeds(k) ==
    /\ pc[k] = "calling"
    /\ ReleaseReplayed(k)
    /\ Result(k, "SUCCEEDED", FALSE, TRUE)

\* The workload or the work after the release failed, and the release has been
\* authenticated (_failed_release, or the replay before the grading).
FailureReplayed(k) == owner[op[k].job] = "released"

ReleasedFailed(k) ==
    /\ pc[k] = "calling"
    /\ FailureReplayed(k)
    /\ Result(k, "FAILED", TRUE, TRUE)

\* The caller or its evidence failed; the owner may still be on the cards, as
\* when the caller's finite time is over.
CallerFails(k) ==
    /\ pc[k] = "calling"
    /\ Result(k, "FAILED", TRUE, FALSE)

CallerTimesOut(k) ==
    /\ pc[k] = "calling"
    /\ owner[op[k].job] = "running"
    /\ CallerFails(k)

\* _close. An operation that was not started gives its attempt back; one that
\* was not seen to release stays open.
Assumed(k) == TRUE
Authenticated(k) == op[k].released

\* index - 1, where index is the attempt after those completed.
Previous(k) == op[k].index

Closes(k) ==
    \/ /\ owner[op[k].job] = "none"
       /\ holder' = None
       /\ completed' = Previous(k)
       /\ UNCHANGED counted
    \/ /\ owner[op[k].job] # "none"
       /\ Authenticated(k)
       /\ holder' = None
       /\ completed' = op[k].index + 1
       /\ counted' = counted \union {op[k].job}
    \/ /\ owner[op[k].job] # "none"
       /\ ~Authenticated(k)
       /\ completed' = Previous(k)
       /\ UNCHANGED <<holder, counted>>

\* The cards' timings make a component eligible for serving or not.
Reported(k) == {passed, passed \union {op[k].job}}

\* The controller keeps the report of a component that succeeded.
KeepsReport(k) ==
    IF op[k].status = "SUCCEEDED" /\ KindOf[op[k].job] = "component"
    THEN passed' \in Reported(k)
    ELSE UNCHANGED passed

\* The newest checkpoint is the one this operation opened.
StillNewest(k) == ~torn /\ number = op[k].seen

Close(k) ==
    /\ pc[k] = "closing"
    /\ StillNewest(k)
    /\ number' = number + 1
    /\ Closes(k)
    /\ KeepsReport(k)
    /\ Goes(k, "publish")
    /\ UNCHANGED <<exchange, op, torn, cards>>

\* The closeout is refused: another checkpoint is the newest, or this one could
\* not be written.
CloseFails(k) ==
    /\ pc[k] = "closing"
    /\ Concludes(k, "FAILED", TRUE)
    /\ UNCHANGED <<exchange, checkpoint, cards>>

CloseTorn(k) ==
    /\ pc[k] = "closing"
    /\ StillNewest(k)
    /\ number' = number + 1
    /\ torn' = TRUE
    /\ Concludes(k, "FAILED", TRUE)
    /\ UNCHANGED <<exchange, holder, completed, counted, cards>>

-----------------------------------------------------------------------------
(* Publication and the end of a controller *)

Afterwards(k) == IF op[k].park THEN "park" ELSE "poll"

Leaves(k, to) ==
    /\ Goes(k, to)
    /\ op' = [op EXCEPT ![k] = NoOperation]
    /\ UNCHANGED <<passed, checkpoint, cards>>

PublishTo(k, to) ==
    /\ pc[k] = "publish"
    /\ op[k].job \notin expired
    /\ result' = result \union {op[k].job}
    /\ Leaves(k, to)
    /\ UNCHANGED <<client, cancelled, expired, claimed, terminal>>

Publish(k) == PublishTo(k, Afterwards(k))

\* The answer of the exchange is lost, and the controller takes it for a failure.
PublishLost(k) == PublishTo(k, "park")

PublishFails(k) ==
    /\ pc[k] = "publish"
    /\ Leaves(k, "park")
    /\ UNCHANGED exchange

\* _park: one attempt, then the controller stops.
Park(k) ==
    /\ pc[k] = "park"
    /\ terminal' = terminal \union {k}
    /\ Leaves(k, "gone")
    /\ UNCHANGED <<client, cancelled, expired, claimed, result>>

\* The call that parks is lost, or the process is killed; its owner goes on.
Crash(k) ==
    /\ pc[k] # "gone"
    /\ Leaves(k, "gone")
    /\ UNCHANGED exchange

Handles(k) ==
    \/ List(k) \/ Claim(k) \/ Take(k) \/ (TakeRefused(k) /\ DispatchFails(k))
    \/ CancelledBeforePreparation(k) \/ Uncovered(k) \/ Covered(k)
    \/ CandidateRejected(k) \/ Prepare(k) \/ Propose(k) \/ (Refused(k) /\ NotAdmitted(k))

Executes(k) ==
    \/ CheckIdle(k) \/ Admit(k) \/ AdmitCancelled(k) \/ Open(k)
    \/ Clear(k) \/ ClearCancelled(k) \/ Invoke(k)
    \/ Succeeds(k) \/ ReleasedFailed(k) \/ Close(k)
    \/ CallerTimesOut(k)
    \/ (~StillNewest(k) /\ CloseFails(k))

Publishes(k) ==
    Publish(k) \/ (op[k].job \in expired /\ PublishFails(k)) \/ Park(k)

ControllerStep(k) == Handles(k) \/ Executes(k) \/ Publishes(k)

\* What fails without a refusal: a lost call, an error, a process killed.
ControllerFails(k) ==
    \/ DispatchFails(k) \/ NotAdmitted(k) \/ OpenTorn(k) \/ NotInvoked(k)
    \/ CallerFails(k) \/ CloseFails(k) \/ CloseTorn(k) \/ PublishFails(k)
    \/ PublishLost(k) \/ Crash(k)

-----------------------------------------------------------------------------
(* The environment *)

Releases(j) ==
    /\ owner[j] = "running"
    /\ owner' = [owner EXCEPT ![j] = "released"]
    /\ UNCHANGED <<exchange, handling, checkpoint, early>>

Expires(j) ==
    /\ client[j] # "new"
    /\ expired' = expired \union {j}
    /\ UNCHANGED <<client, cancelled, claimed, result, terminal, handling, checkpoint, cards>>

\* "The retained journal stays open until an independent observation resolves
\* it": an operator has seen the cards released, or the controller dead before
\* the owner was invoked.
Resolve ==
    /\ ~torn
    /\ holder # None
    /\ number' = number + 1
    /\ holder' = None
    /\ \/ /\ owner[holder] = "released"
          /\ completed' = completed + 1
          /\ counted' = counted \union {holder}
       \/ /\ owner[holder] = "none"
          /\ pc[CampaignOf[holder]] = "gone"
          /\ UNCHANGED <<completed, counted>>
    /\ UNCHANGED <<exchange, handling, torn, cards>>

Faulty ==
    \/ \E j \in Jobs : Interrupted(j) \/ Expires(j)
    \/ \E k \in Controllers : ControllerFails(k)

Next ==
    \/ /\ \/ \E j \in Jobs : Submit(j) \/ Look(j) \/ Releases(j)
          \/ \E k \in Controllers : ControllerStep(k) \/ Ends(k)
          \/ Resolve
       /\ UNCHANGED faults
    \/ faults < MaxFaults /\ Faulty /\ faults' = faults + 1

Spec == Init /\ [][Next]_vars

\* A controller and a client that waits are scheduled; nothing is assumed of the
\* clock, the owner, the supervisor or the operator.
Fairness ==
    /\ \A k \in Controllers : WF_vars(ControllerStep(k) /\ UNCHANGED faults)
    /\ \A j \in Jobs : WF_vars(Look(j) /\ UNCHANGED faults)

FairSpec == Spec /\ Fairness

-----------------------------------------------------------------------------
(* Properties *)

Running == {j \in Jobs : owner[j] = "running"}

\* An attempt is counted once: two operations that proposed the same index do
\* not both complete it (execute's comparison with the proposal, _close).
AttemptsCounted == completed = Cardinality(counted)

\* A request that was cancelled when its operation was registered is never
\* invoked (execute's second look, "immediately before invocation").
NoEarlyCancelled == \A j \in early : owner[j] = "none"

\* A changed source is served only after a component of that source succeeded,
\* released the cards and was closed in the same campaign (Controller._step).
ServedScreened ==
    \A j \in Jobs : owner[j] # "none" /\ KindOf[j] = "serving" /\ SourceOf[j] # Selected =>
        \E i \in counted : /\ KindOf[i] = "component"
                           /\ SourceOf[i] = SourceOf[j]
                           /\ CampaignOf[i] = CampaignOf[j]

\* A campaign that leaves a checkpoint open takes no further request: its
\* controller is on its way to publish that outcome, to park or gone.
OpenParks ==
    \A k \in Controllers :
        pc[k] \in Before /\ holder # None => CampaignOf[holder] # k

\* A client that waits is answered without waiting for its deadline: it gets
\* its result or the terminal record, or its controller died or lost the call
\* that parks the campaign (the supervisor stops the client then). A request is
\* submitted once, so it is enough that time and again nobody waits in vain.
Answered ==
    []<>(\A j \in Jobs :
            \/ client[j] \notin Waiting
            \/ pc[CampaignOf[j]] = "gone" /\ CampaignOf[j] \notin terminal)

\* The controllers implement the contract of the cards: however many campaigns,
\* lost callers, dead controllers or resolutions by an operator, one owner at
\* most is on the cards, the newest checkpoint is open for it as long as it is,
\* and no request is invoked twice (execute, _close).
Contract == INSTANCE Ownership WITH
    running <- Running, served <- {j \in Jobs : owner[j] # "none"}
ContractKept == Contract!Spec

\* "A completed per-job disposition remains readable after campaign closeout":
\* a client is not told that the campaign is parked when its result is there.
PublishedIsRead ==
    [][\A j \in Jobs : client[j] = "looked" /\ client'[j] = "ended" => j \notin result]_vars
=============================================================================
