--------------------------- MODULE CampaignProofs ---------------------------
(***************************************************************************)
(* Proofs about module Campaign.  The controllers meet in the checkpoints   *)
(* only, and nothing locks them: the invariant says what a controller may   *)
(* conclude from the number of the checkpoint it read or wrote last, which  *)
(* every change of the checkpoint's other contents raises.                  *)
(***************************************************************************)
EXTENDS Campaign, FiniteSetTheorems, TLAPS

JobOf(k) == op[k].job

\* A controller has a request, has taken it, and has seen it screened.
HasJob == {"listed", "claimed", "taken", "prepare", "prepared", "proposed", "checked", "admitted",
           "publish"} \union Executing
ToInvoke == {"claimed", "taken", "prepare", "prepared", "proposed", "checked", "admitted", "opened",
             "cleared"}
SeenScreened == ToInvoke \ {"claimed", "taken"}

\* The request a controller handles is of its campaign, claimed by it and not
\* yet invoked.
Taken(k) ==
    /\ pc[k] \in HasJob => JobOf(k) \in Jobs /\ CampaignOf[JobOf(k)] = k
    /\ pc[k] = "listed" => JobOf(k) \notin claimed
    /\ pc[k] \in ToInvoke => JobOf(k) \in claimed /\ owner[JobOf(k)] = "none"
    /\ pc[k] \in SeenScreened => Screened(JobOf(k))
    /\ pc[k] = "cleared" => JobOf(k) \notin early

\* What it concludes from a checkpoint that is still the newest.
Reads(k) ==
    /\ pc[k] \in {"checked", "admitted"} =>
          /\ op[k].seen <= number
          /\ op[k].seen = number => Idle /\ op[k].index = completed
    /\ pc[k] \in Executing =>
          /\ op[k].seen <= number
          /\ op[k].seen = number => ~torn /\ holder = JobOf(k) /\ op[k].index = completed
          /\ owner[JobOf(k)] # "released" => holder = JobOf(k)

\* What the outcome it closes with says of the owner, and when it parks.
Outcome(k) ==
    /\ pc[k] = "calling" => owner[JobOf(k)] # "none"
    /\ pc[k] = "closing" =>
          /\ op[k].released => owner[JobOf(k)] = "released"
          /\ op[k].status = "SUCCEEDED" => op[k].released
          /\ owner[JobOf(k)] = "none" \/ op[k].released \/ op[k].park
    /\ pc[k] = "publish" /\ holder # None => CampaignOf[holder] # k \/ op[k].park

Controls(k) == Taken(k) /\ Reads(k) /\ Outcome(k)

\* The cards, the attempts counted and the reports kept.
Ledger ==
    /\ \A j \in Jobs : owner[j] # "none" => j \in claimed
    /\ \A j \in Jobs : owner[j] = "running" => holder = j
    /\ \A j \in counted : owner[j] # "none" /\ j # holder
    /\ IsFiniteSet(counted) /\ AttemptsCounted
    /\ \A j \in passed : j \in counted /\ KindOf[j] = "component"
    /\ early \subseteq cancelled /\ NoEarlyCancelled
    /\ ServedScreened

IInv ==
    /\ TypeOK
    /\ \A k \in Controllers : Controls(k)
    /\ Ledger
    /\ OpenParks

-----------------------------------------------------------------------------
(* What the parts of a step change                                          *)

PCs == Before \union Executing \union {"publish", "park", "gone"}

\* Goes moves one controller.
LEMMA GoesFrame ==
    ASSUME TypeOK, NEW k \in Controllers, NEW to \in PCs, Goes(k, to)
    PROVE  /\ pc' \in [Controllers -> PCs] /\ pc'[k] = to
           /\ \A m \in Controllers \ {k} : pc'[m] = pc[m]
  BY DEF TypeOK, Goes, PCs

\* The operation of one controller is replaced.
LEMMA OpFrame ==
    ASSUME TypeOK, NEW k \in Controllers, NEW o \in Operations, op' = [op EXCEPT ![k] = o]
    PROVE  /\ op' \in [Controllers -> Operations] /\ op'[k] = o
           /\ \A m \in Controllers \ {k} : op'[m] = op[m]
  BY DEF TypeOK

\* An outcome keeps the request and what was read for it.
LEMMA ConcludesFrame ==
    ASSUME TypeOK, NEW k \in Controllers, NEW status \in Statuses, NEW park \in BOOLEAN,
           Concludes(k, status, park)
    PROVE  /\ pc' \in [Controllers -> PCs] /\ pc'[k] = "publish"
           /\ op' \in [Controllers -> Operations]
           /\ \A m \in Controllers \ {k} : pc'[m] = pc[m] /\ op'[m] = op[m]
           /\ op'[k].job = op[k].job /\ op'[k].park = park
           /\ passed' = passed
<1> DEFINE o == [op[k] EXCEPT !.status = status, !.park = park]
<1>1. op' = [op EXCEPT ![k] = o] /\ op[k] \in Operations
  BY DEF Concludes, TypeOK
<1>2. o \in Operations /\ o.job = op[k].job /\ o.park = park
  BY <1>1 DEF Operations
<1>3. /\ op' \in [Controllers -> Operations] /\ op'[k] = o
      /\ \A m \in Controllers \ {k} : op'[m] = op[m]
  BY <1>1, <1>2, OpFrame
<1>4. "publish" \in PCs /\ Goes(k, "publish") /\ passed' = passed
  BY DEF PCs, Concludes
<1> QED BY <1>2, <1>3, <1>4, GoesFrame

\* So does the result of the execution.
LEMMA ResultFrame ==
    ASSUME TypeOK, NEW k \in Controllers, NEW status \in Statuses, NEW park \in BOOLEAN,
           NEW released \in BOOLEAN, Result(k, status, park, released)
    PROVE  /\ pc' \in [Controllers -> PCs] /\ pc'[k] = "closing"
           /\ op' \in [Controllers -> Operations]
           /\ \A m \in Controllers \ {k} : pc'[m] = pc[m] /\ op'[m] = op[m]
           /\ op'[k].job = op[k].job /\ op'[k].index = op[k].index /\ op'[k].seen = op[k].seen
           /\ op'[k].status = status /\ op'[k].park = park /\ op'[k].released = released
<1> DEFINE o == [op[k] EXCEPT !.status = status, !.park = park, !.released = released]
<1>1. op' = [op EXCEPT ![k] = o] /\ op[k] \in Operations
  BY DEF Result, TypeOK
<1>2. /\ o \in Operations /\ o.job = op[k].job /\ o.index = op[k].index /\ o.seen = op[k].seen
      /\ o.status = status /\ o.park = park /\ o.released = released
  BY <1>1 DEF Operations
<1>3. /\ op' \in [Controllers -> Operations] /\ op'[k] = o
      /\ \A m \in Controllers \ {k} : op'[m] = op[m]
  BY <1>1, <1>2, OpFrame
<1>4. "closing" \in PCs /\ Goes(k, "closing")
  BY DEF PCs, Executing, Result
<1> QED BY <1>2, <1>3, <1>4, GoesFrame

\* Between two requests a controller holds none.
LEMMA NoOperationType == NoOperation \in Operations /\ ~NoOperation.released
  BY DEF NoOperation, Operations, Statuses

-----------------------------------------------------------------------------
(* What a step of one controller leaves of the others                       *)

\* A step of controller k touches only what is of its campaign, and changes the
\* contents of the checkpoint only together with its number.
Within(k) ==
    /\ \A j \in Jobs : CampaignOf[j] # k =>
          (j \in claimed' <=> j \in claimed) /\ (j \in early' <=> j \in early) /\ owner'[j] = owner[j]
    /\ passed \subseteq passed'
    /\ \/ UNCHANGED <<number, holder, completed, torn>>
       \/ /\ number' = number + 1
          /\ holder' = holder \/ holder = None \/ CampaignOf[holder] = k
          /\ holder' \in {holder, None} \/ CampaignOf[holder'] = k

\* What a step of one controller leaves true of another.
LEMMA OthersKept ==
    ASSUME IInv, NEW k \in Controllers, Within(k), NEW m \in Controllers \ {k},
           pc'[m] = pc[m], op'[m] = op[m], TypeOK'
    PROVE  /\ Controls(m)'
           /\ pc'[m] \in Before /\ holder' # None => CampaignOf[holder'] # m
<1>1. Controls(m) /\ TypeOK /\ JobOf(m)' = JobOf(m)
  BY DEF IInv, JobOf
<1>2. pc[m] \in HasJob => JobOf(m) \in Jobs /\ CampaignOf[JobOf(m)] # k /\ JobOf(m) # None
  BY <1>1, CampaignAssumption DEF Controls, Taken
<1>3. Taken(m)'
  BY <1>1, <1>2 DEF Controls, Taken, Within, Screened, HasJob, ToInvoke, SeenScreened, Executing
<1>4. holder' # None /\ CampaignOf[holder'] = m => holder' = holder
  BY DEF Within
<1>5. Reads(m)'
  <2>1. number \in Nat /\ op[m].seen \in Nat
    BY <1>1 DEF TypeOK, Operations
  <2>2. CASE UNCHANGED <<number, holder, completed, torn>>
    BY <1>1, <1>2, <2>2 DEF Controls, Reads, Within, Idle, HasJob, Executing
  <2>3. CASE number' = number + 1 /\ ~UNCHANGED <<number, holder, completed, torn>>
    <3>1. op[m].seen <= number => op'[m].seen <= number' /\ op'[m].seen # number'
      BY <2>1, <2>3
    <3>2. pc[m] \in Executing /\ owner'[JobOf(m)] # "released" => holder' = JobOf(m)
      BY <1>1, <1>2, <2>3 DEF Controls, Reads, Within, HasJob
    <3> QED BY <1>1, <3>1, <3>2 DEF Controls, Reads
  <2> QED BY <2>2, <2>3 DEF Within
<1>6. Outcome(m)'
  BY <1>1, <1>2, <1>4 DEF Controls, Outcome, Within, HasJob, Executing
<1>7. pc'[m] \in Before /\ holder' # None => CampaignOf[holder'] # m
  BY <1>4 DEF IInv, OpenParks
<1> QED BY <1>3, <1>5, <1>6, <1>7 DEF Controls

\* The invariant of the whole, from the part of the controller that steps.
LEMMA ControllerStepInv ==
    ASSUME IInv, NEW k \in Controllers, Within(k), TypeOK',
           \A m \in Controllers \ {k} : pc'[m] = pc[m] /\ op'[m] = op[m],
           Taken(k)', Reads(k)', Outcome(k)', Ledger',
           pc'[k] \in Before /\ holder' # None => CampaignOf[holder'] # k
    PROVE  IInv'
<1>1. \A m \in Controllers : Controls(m)'
  BY OthersKept DEF Controls
<1>2. OpenParks'
  BY OthersKept DEF OpenParks
<1> QED BY <1>1, <1>2 DEF IInv

\* Most steps change neither the checkpoint nor the cards.
LEMMA LedgerKept ==
    ASSUME Ledger, UNCHANGED <<passed, checkpoint, cards>>, claimed \subseteq claimed',
           cancelled \subseteq cancelled'
    PROVE  Ledger'
  BY DEF Ledger, checkpoint, cards, AttemptsCounted, NoEarlyCancelled, ServedScreened

\* A controller moves on, and leaves the checkpoint and the cards alone.
LEMMA MoveStep ==
    ASSUME IInv, NEW k \in Controllers, NEW to \in PCs,
           pc' \in [Controllers -> PCs], pc'[k] = to, op' \in [Controllers -> Operations],
           \A m \in Controllers \ {k} : pc'[m] = pc[m] /\ op'[m] = op[m],
           UNCHANGED <<client, cancelled, expired, passed, checkpoint, cards>>,
           claimed' = claimed \/ (pc[k] = "listed" /\ claimed' = claimed \union {JobOf(k)}),
           result' \in SUBSET Jobs, terminal' \in SUBSET Controllers, faults' \in 0..MaxFaults,
           Taken(k)', Reads(k)', Outcome(k)',
           to \in Before => pc[k] \in Before \/ (holder # None => CampaignOf[holder] # k)
    PROVE  IInv'
<1>1. UNCHANGED <<number, holder, completed, torn, counted, owner, early>> /\ TypeOK /\ Controls(k)
  BY DEF IInv, checkpoint, cards
<1>2. pc[k] = "listed" => JobOf(k) \in Jobs /\ CampaignOf[JobOf(k)] = k
  BY <1>1 DEF Controls, Taken, HasJob
<1>3. TypeOK'
  BY <1>1, <1>2 DEF TypeOK, PCs
<1>4. Within(k)
  BY <1>1, <1>2 DEF Within
<1>5. Ledger'
  BY LedgerKept DEF IInv
<1>6. pc'[k] \in Before /\ holder' # None => CampaignOf[holder'] # k
  BY <1>1 DEF IInv, OpenParks
<1> QED BY <1>3, <1>4, <1>5, <1>6, ControllerStepInv

-----------------------------------------------------------------------------
(* The steps that change neither the checkpoint nor the cards               *)

\* Clients only cancel, and the clock only expires requests.
LEMMA ClientStep ==
    ASSUME IInv, NEW j \in Jobs, Submit(j) \/ Look(j) \/ Interrupted(j) \/ Expires(j),
           faults' \in 0..MaxFaults
    PROVE  IInv'
<1>1. /\ client' \in [Jobs -> {"new", "got", "ended"} \union Waiting]
      /\ cancelled' \in SUBSET Jobs /\ cancelled \subseteq cancelled' /\ expired' \in SUBSET Jobs
      /\ UNCHANGED <<claimed, result, terminal, handling, checkpoint, cards>>
  BY DEF IInv, TypeOK, Submit, Look, LookForResult, SeesTerminal, SeesNothing, CancelWait,
         Interrupted, Expires, Waiting
<1>2. TypeOK'
  BY <1>1 DEF IInv, TypeOK, handling, checkpoint, cards
<1>3. Ledger'
  BY <1>1, LedgerKept DEF IInv, handling
<1>4. ASSUME NEW k \in Controllers
      PROVE  Controls(k)'
  BY <1>1 DEF IInv, Controls, Taken, Reads, Outcome, JobOf, Screened, Idle, handling, checkpoint, cards
<1>5. OpenParks'
  BY <1>1 DEF IInv, OpenParks, handling, checkpoint
<1> QED BY <1>2, <1>3, <1>4, <1>5 DEF IInv

\* A request is taken from the queue, or the loop ends.
LEMMA QueueStep ==
    ASSUME IInv, NEW k \in Controllers, List(k) \/ Ends(k), faults' \in 0..MaxFaults
    PROVE  IInv'
<1>0. TypeOK /\ Controls(k) /\ {"listed", "park"} \subseteq PCs
  BY DEF IInv, PCs, Before
<1>1. CASE List(k)
  <2>1. PICK j \in Queue(k) : op' = [op EXCEPT ![k] = [NoOperation EXCEPT !.job = j]]
    BY <1>1 DEF List
  <2>2. j \in Jobs /\ CampaignOf[j] = k /\ j \notin claimed
    BY <2>1 DEF Queue
  <2>3. [NoOperation EXCEPT !.job = j] \in Operations /\ [NoOperation EXCEPT !.job = j].job = j
    BY <2>2 DEF NoOperation, Operations, Statuses
  <2>4. /\ op' \in [Controllers -> Operations] /\ JobOf(k)' = j
        /\ \A m \in Controllers \ {k} : op'[m] = op[m]
    BY <1>0, <2>1, <2>3, OpFrame DEF JobOf
  <2>5. /\ pc' \in [Controllers -> PCs] /\ pc'[k] = "listed" /\ pc[k] = "poll"
        /\ \A m \in Controllers \ {k} : pc'[m] = pc[m]
    BY <1>0, <1>1, GoesFrame DEF List
  <2>6. Taken(k)' /\ Reads(k)' /\ Outcome(k)'
    BY <1>1, <2>2, <2>4, <2>5 DEF Taken, Reads, Outcome, ToInvoke, SeenScreened, Executing, List, exchange
  <2> QED BY <1>0, <1>1, <2>4, <2>5, <2>6, MoveStep DEF List, exchange, TypeOK, Before
<1>2. CASE Ends(k)
  <2>1. /\ pc' \in [Controllers -> PCs] /\ pc'[k] = "park"
        /\ \A m \in Controllers \ {k} : pc'[m] = pc[m]
    BY <1>0, <1>2, GoesFrame DEF Ends
  <2>2. Taken(k)' /\ Reads(k)' /\ Outcome(k)'
    BY <2>1 DEF Taken, Reads, Outcome, HasJob, ToInvoke, SeenScreened, Executing
  <2> QED BY <1>0, <1>2, <2>1, <2>2, MoveStep DEF Ends, exchange, TypeOK, Before
<1> QED BY <1>1, <1>2

\* The request is claimed, taken, found to be covered, prepared and admitted.
LEMMA ForwardStep ==
    ASSUME IInv, NEW k \in Controllers, faults' \in 0..MaxFaults,
           Claim(k) \/ Take(k) \/ DispatchFails(k) \/ Covered(k) \/ Prepare(k) \/ Admit(k) \/ Clear(k)
    PROVE  IInv'
<1>0. TypeOK /\ Controls(k) /\ op' = op
  BY DEF IInv, Claim, Take, DispatchFails, Covered, Prepare, Admit, Clear
<1>1. PICK to \in {"claimed", "taken", "park", "prepare", "prepared", "admitted", "cleared"} :
         /\ Goes(k, to)
         /\ to = "claimed" => pc[k] = "listed" /\ claimed' = claimed \union {JobOf(k)}
         /\ to # "claimed" => claimed' = claimed
         /\ to = "taken" => pc[k] = "claimed"
         /\ to = "park" => pc[k] \in {"listed", "claimed"}
         /\ to = "prepare" => pc[k] = "taken" /\ Screened(JobOf(k))
         /\ to = "prepared" => pc[k] = "prepare"
         /\ to = "admitted" => pc[k] = "checked"
         /\ to = "cleared" => pc[k] = "opened" /\ JobOf(k) \notin cancelled
         /\ UNCHANGED <<client, cancelled, expired, result, terminal, passed, checkpoint, cards>>
  BY DEF Claim, Take, DispatchFails, ParksAtOnce, Covered, Prepare, Admit, Clear, StillWanted,
         IsCancelled, exchange, JobOf
<1>2. to \in PCs
  BY DEF PCs, Before, Executing
<1>3. /\ pc' \in [Controllers -> PCs] /\ pc'[k] = to
      /\ \A m \in Controllers \ {k} : pc'[m] = pc[m]
  BY <1>0, <1>1, <1>2, GoesFrame
<1>4. JobOf(k)' = JobOf(k) /\ UNCHANGED <<number, holder, completed, torn, owner, early, passed>>
  BY <1>0, <1>1 DEF JobOf, checkpoint, cards
<1>5. pc[k] = "listed" => owner[JobOf(k)] = "none"
  BY <1>0 DEF Controls, Taken, HasJob, IInv, Ledger
<1>6. Taken(k)'
  BY <1>0, <1>1, <1>3, <1>4, <1>5 DEF Controls, Taken, HasJob, ToInvoke, SeenScreened, Executing,
                                      Screened, IInv, Ledger
<1>7. Reads(k)'
  BY <1>0, <1>1, <1>3, <1>4 DEF Controls, Reads, Executing, Idle
<1>8. Outcome(k)'
  BY <1>1, <1>3 DEF Outcome
<1>9. to \in Before => pc[k] \in Before
  BY <1>1 DEF Before
<1> QED BY <1>0, <1>1, <1>2, <1>3, <1>6, <1>7, <1>8, <1>9, MoveStep DEF IInv, TypeOK

\* The request is refused or fails before the cards are used, or its closeout
\* does: there is an outcome, which parks if a checkpoint may be open.
LEMMA ConcludeStep ==
    ASSUME IInv, NEW k \in Controllers, faults' \in 0..MaxFaults,
           \/ CancelledBeforePreparation(k) \/ Uncovered(k) \/ CandidateRejected(k)
           \/ NotAdmitted(k) \/ AdmitCancelled(k) \/ CloseFails(k)
    PROVE  IInv'
<1>0. TypeOK /\ Controls(k)
  BY DEF IInv
<1>1. PICK status \in Statuses, park \in BOOLEAN :
         /\ Concludes(k, status, park)
         /\ pc[k] \in Before \union {"closing"} /\ pc[k] \in HasJob
         /\ park \/ pc[k] \in Before
         /\ UNCHANGED <<exchange, checkpoint, cards>>
  BY DEF CancelledBeforePreparation, Uncovered, CandidateRejected, NotAdmitted, AdmitCancelled,
         CloseFails, Statuses, Before, HasJob, Executing
<1>2. /\ pc' \in [Controllers -> PCs] /\ pc'[k] = "publish"
      /\ op' \in [Controllers -> Operations]
      /\ \A m \in Controllers \ {k} : pc'[m] = pc[m] /\ op'[m] = op[m]
      /\ op'[k].job = op[k].job /\ op'[k].park = park
      /\ passed' = passed
  BY <1>0, <1>1, ConcludesFrame
<1>3. UNCHANGED <<client, cancelled, expired, claimed, result, terminal, holder>> /\ "publish" \in PCs
  BY <1>1 DEF exchange, checkpoint, PCs
<1>4. Taken(k)' /\ Reads(k)'
  BY <1>0, <1>1, <1>2 DEF Controls, Taken, Reads, JobOf, HasJob, ToInvoke, SeenScreened, Executing
<1>5. Outcome(k)'
  BY <1>1, <1>2, <1>3 DEF Outcome, IInv, OpenParks
<1> QED BY <1>0, <1>1, <1>2, <1>3, <1>4, <1>5, MoveStep DEF TypeOK, Before

\* The attempt proposed, and the checkpoint it is compared with.
LEMMA ReadStep ==
    ASSUME IInv, NEW k \in Controllers, Propose(k) \/ CheckIdle(k), faults' \in 0..MaxFaults
    PROVE  IInv'
<1>0. TypeOK /\ Controls(k) /\ op[k] \in Operations /\ number \in Nat /\ completed \in Nat
  BY DEF IInv, TypeOK
<1>1. PICK o \in Operations, to \in {"proposed", "checked"} :
         /\ op' = [op EXCEPT ![k] = o] /\ o.job = op[k].job
         /\ Goes(k, to) /\ pc[k] = (IF to = "proposed" THEN "prepared" ELSE "proposed")
         /\ to = "checked" => Idle /\ o.index = completed /\ o.seen = number
         /\ UNCHANGED <<exchange, passed, checkpoint, cards>>
  <2>1. CASE Propose(k)
    <3>1. /\ [op[k] EXCEPT !.index = completed] \in Operations
          /\ [op[k] EXCEPT !.index = completed].job = op[k].job
      BY <1>0 DEF Operations
    <3> QED BY <2>1, <3>1 DEF Propose
  <2>2. CASE CheckIdle(k)
    <3>1. /\ [op[k] EXCEPT !.seen = number] \in Operations
          /\ [op[k] EXCEPT !.seen = number].job = op[k].job
          /\ [op[k] EXCEPT !.seen = number].index = op[k].index
          /\ [op[k] EXCEPT !.seen = number].seen = number
      BY <1>0 DEF Operations
    <3> QED BY <2>2, <3>1 DEF CheckIdle, SameIndex
  <2> QED BY <2>1, <2>2
<1>2. to \in PCs
  BY DEF PCs, Before
<1>3. /\ pc' \in [Controllers -> PCs] /\ pc'[k] = to
      /\ op' \in [Controllers -> Operations] /\ op'[k] = o
      /\ \A m \in Controllers \ {k} : pc'[m] = pc[m] /\ op'[m] = op[m]
  BY <1>0, <1>1, <1>2, GoesFrame, OpFrame
<1>4. /\ UNCHANGED <<client, cancelled, expired, claimed, result, terminal, passed>>
      /\ UNCHANGED <<number, holder, completed, torn, owner, early>> /\ JobOf(k)' = JobOf(k)
  BY <1>1, <1>3 DEF exchange, checkpoint, cards, JobOf
<1>5. Taken(k)'
  BY <1>0, <1>1, <1>3, <1>4 DEF Controls, Taken, HasJob, ToInvoke, SeenScreened, Executing, Screened
<1>6. Reads(k)' /\ Outcome(k)'
  BY <1>0, <1>1, <1>3, <1>4 DEF Reads, Outcome, Executing, Idle
<1> QED BY <1>0, <1>1, <1>2, <1>3, <1>4, <1>5, <1>6, MoveStep DEF TypeOK, Before

\* The execution ends with a status, which says whether the owner released.
LEMMA ResultStep ==
    ASSUME IInv, NEW k \in Controllers, faults' \in 0..MaxFaults,
           ClearCancelled(k) \/ NotInvoked(k) \/ Succeeds(k) \/ ReleasedFailed(k) \/ CallerFails(k)
    PROVE  IInv'
<1>0. TypeOK /\ Controls(k)
  BY DEF IInv
<1>1. PICK status \in Statuses, park \in BOOLEAN, released \in BOOLEAN :
         /\ Result(k, status, park, released)
         /\ pc[k] \in {"opened", "cleared", "calling"}
         /\ released => owner[JobOf(k)] = "released"
         /\ status = "SUCCEEDED" => released
         /\ pc[k] \in {"opened", "cleared"} \/ released \/ park
  BY DEF ClearCancelled, NotInvoked, Succeeds, ReleasedFailed, CallerFails, ReleaseReplayed,
         FailureReplayed, Statuses, JobOf
<1>2. /\ pc' \in [Controllers -> PCs] /\ pc'[k] = "closing"
      /\ op' \in [Controllers -> Operations]
      /\ \A m \in Controllers \ {k} : pc'[m] = pc[m] /\ op'[m] = op[m]
      /\ op'[k].job = op[k].job /\ op'[k].index = op[k].index /\ op'[k].seen = op[k].seen
      /\ op'[k].status = status /\ op'[k].park = park /\ op'[k].released = released
  BY <1>0, <1>1, ResultFrame
<1>3. /\ UNCHANGED <<client, cancelled, expired, claimed, result, terminal, passed, checkpoint, cards>>
      /\ UNCHANGED <<number, holder, completed, torn, owner>> /\ JobOf(k)' = JobOf(k)
      /\ "closing" \in PCs
  BY <1>1, <1>2 DEF Result, exchange, checkpoint, cards, JobOf, PCs, Executing
<1>4. Taken(k)'
  BY <1>0, <1>1, <1>2, <1>3 DEF Controls, Taken, HasJob, ToInvoke, SeenScreened, Executing
<1>5. Reads(k)'
  BY <1>0, <1>1, <1>2, <1>3 DEF Controls, Reads, Executing
<1>6. Outcome(k)'
  BY <1>0, <1>1, <1>2, <1>3 DEF Controls, Taken, Outcome, ToInvoke
<1> QED BY <1>0, <1>2, <1>3, <1>4, <1>5, <1>6, MoveStep DEF TypeOK, Before

\* The outcome is published or not, the campaign parked or not: an open
\* checkpoint of the campaign lets its controller not return to the queue.
LEMMA PublishStep ==
    ASSUME IInv, NEW k \in Controllers, faults' \in 0..MaxFaults,
           Publish(k) \/ PublishLost(k) \/ PublishFails(k) \/ Park(k) \/ Crash(k)
    PROVE  IInv'
<1>0. TypeOK /\ Controls(k)
  BY DEF IInv
<1>1. PICK to \in {"park", "poll", "gone"} :
         /\ Leaves(k, to)
         /\ to = "poll" => pc[k] = "publish" /\ ~op[k].park
         /\ UNCHANGED <<client, cancelled, expired, claimed>>
         /\ result' \in SUBSET Jobs /\ terminal' \in SUBSET Controllers
  <2>1. CASE Publish(k) \/ PublishLost(k)
    <3>1. op[k].job \in Jobs /\ pc[k] = "publish"
      BY <1>0, <2>1 DEF Controls, Taken, HasJob, JobOf, Publish, PublishLost, PublishTo
    <3> QED BY <1>0, <2>1, <3>1 DEF Publish, PublishLost, PublishTo, Afterwards, TypeOK
  <2>2. CASE PublishFails(k) \/ Park(k) \/ Crash(k)
    BY <1>0, <2>2 DEF PublishFails, Park, Crash, exchange, TypeOK
  <2> QED BY <2>1, <2>2
<1>2. to \in PCs /\ Goes(k, to) /\ op' = [op EXCEPT ![k] = NoOperation] /\ UNCHANGED <<passed, checkpoint, cards>>
  BY <1>1 DEF PCs, Before, Leaves
<1>3. /\ pc' \in [Controllers -> PCs] /\ pc'[k] = to
      /\ op' \in [Controllers -> Operations]
      /\ \A m \in Controllers \ {k} : pc'[m] = pc[m] /\ op'[m] = op[m]
  BY <1>0, <1>2, NoOperationType, GoesFrame, OpFrame
<1>4. Taken(k)' /\ Reads(k)' /\ Outcome(k)'
  BY <1>1, <1>3 DEF Taken, Reads, Outcome, HasJob, ToInvoke, SeenScreened, Executing
<1>5. to \in Before => (holder # None => CampaignOf[holder] # k)
  BY <1>0, <1>1 DEF Controls, Outcome, Before
<1> QED BY <1>1, <1>2, <1>3, <1>4, <1>5, MoveStep

-----------------------------------------------------------------------------
(* The checkpoint and the cards                                             *)

\* What the newest checkpoint tells its reader: while its number stands, it is
\* idle before the registration, and the reader's own after it.
LEMMA Newest ==
    ASSUME IInv, NEW k \in Controllers
    PROVE  /\ pc[k] = "admitted" /\ Unique(k) =>
                 holder = None /\ ~torn /\ op[k].index = completed
           /\ pc[k] = "closing" /\ StillNewest(k) =>
                 holder = JobOf(k) /\ ~torn /\ op[k].index = completed
  BY DEF IInv, Controls, Reads, Executing, Unique, StillNewest, Idle

\* The checkpoint is opened: it was idle, and the request was not counted yet.
LEMMA OpenStep ==
    ASSUME IInv, NEW k \in Controllers, Open(k), faults' \in 0..MaxFaults
    PROVE  IInv'
<1> DEFINE o == [op[k] EXCEPT !.seen = op[k].seen + 1]
<1>0. TypeOK /\ Controls(k) /\ op[k] \in Operations /\ number \in Nat
  BY DEF IInv, TypeOK
<1>1. /\ pc[k] = "admitted" /\ number' = number + 1 /\ holder' = JobOf(k) /\ op[k].seen = number
      /\ holder = None /\ ~torn /\ op[k].index = completed
      /\ op' = [op EXCEPT ![k] = o] /\ Goes(k, "opened")
      /\ early' = early \union ({JobOf(k)} \intersect cancelled)
      /\ UNCHANGED <<exchange, passed, completed, torn, counted, owner>>
  BY <1>0, Newest DEF Open, Unique, JobOf
<1>2. JobOf(k) \in Jobs /\ CampaignOf[JobOf(k)] = k /\ JobOf(k) \in claimed /\ owner[JobOf(k)] = "none"
  BY <1>0, <1>1 DEF Controls, Taken, HasJob, ToInvoke
<1>3. o \in Operations /\ o.job = op[k].job /\ o.index = op[k].index /\ o.seen = number + 1
  BY <1>0, <1>1 DEF Operations
<1>4. /\ pc' \in [Controllers -> PCs] /\ pc'[k] = "opened"
      /\ op' \in [Controllers -> Operations] /\ op'[k] = o /\ JobOf(k)' = JobOf(k)
      /\ \A m \in Controllers \ {k} : pc'[m] = pc[m] /\ op'[m] = op[m]
  BY <1>0, <1>1, <1>3, GoesFrame, OpFrame DEF PCs, Executing, JobOf
<1>5. UNCHANGED <<client, cancelled, expired, claimed, result, terminal>>
  BY <1>1 DEF exchange
<1>6. TypeOK'
  BY <1>0, <1>1, <1>2, <1>4, <1>5 DEF TypeOK, PCs
<1>7. Within(k)
  BY <1>1, <1>2, <1>5 DEF Within
<1>8. Taken(k)'
  BY <1>0, <1>1, <1>2, <1>4, <1>5 DEF Controls, Taken, HasJob, ToInvoke, SeenScreened, Executing, Screened
<1>9. Reads(k)' /\ Outcome(k)'
  BY <1>0, <1>1, <1>3, <1>4 DEF Reads, Outcome, Executing
<1>10. Ledger'
  <2>1. /\ \A j \in Jobs : owner[j] # "running"
        /\ \A j \in counted : owner[j] # "none" /\ j # JobOf(k)
    BY <1>1, <1>2, CampaignAssumption DEF IInv, Ledger
  <2>2. early' \subseteq cancelled' /\ NoEarlyCancelled'
    BY <1>1, <1>2, <1>5 DEF IInv, Ledger, NoEarlyCancelled
  <2>3. AttemptsCounted' /\ ServedScreened'
    BY <1>1 DEF IInv, Ledger, AttemptsCounted, ServedScreened
  <2> QED BY <1>1, <1>5, <2>1, <2>2, <2>3 DEF IInv, Ledger
<1>11. pc'[k] \notin Before
  BY <1>4 DEF Before
<1> QED BY <1>4, <1>6, <1>7, <1>8, <1>9, <1>10, <1>11, ControllerStepInv

\* A checkpoint that nobody can read is the newest from now on.
LEMMA TornStep ==
    ASSUME IInv, NEW k \in Controllers, OpenTorn(k) \/ CloseTorn(k), faults' \in 0..MaxFaults
    PROVE  IInv'
<1>0. TypeOK /\ Controls(k) /\ number \in Nat
  BY DEF IInv, TypeOK
<1>1. /\ pc[k] \in {"admitted", "closing"} /\ number' = number + 1 /\ torn' = TRUE
      /\ Concludes(k, "FAILED", TRUE)
      /\ UNCHANGED <<exchange, holder, completed, counted, cards>>
      /\ "FAILED" \in Statuses
  BY DEF OpenTorn, CloseTorn, Statuses
<1>2. /\ pc' \in [Controllers -> PCs] /\ pc'[k] = "publish"
      /\ op' \in [Controllers -> Operations]
      /\ \A m \in Controllers \ {k} : pc'[m] = pc[m] /\ op'[m] = op[m]
      /\ op'[k].job = op[k].job /\ op'[k].park = TRUE
      /\ passed' = passed
  BY <1>0, <1>1, ConcludesFrame
<1>3. UNCHANGED <<client, cancelled, expired, claimed, result, terminal, owner, early>>
  BY <1>1 DEF exchange, cards
<1>4. TypeOK'
  BY <1>0, <1>1, <1>2, <1>3 DEF TypeOK, PCs
<1>5. Within(k)
  BY <1>1, <1>2, <1>3 DEF Within
<1>6. Taken(k)' /\ Reads(k)' /\ Outcome(k)'
  BY <1>0, <1>1, <1>2 DEF Controls, Taken, Reads, Outcome, JobOf, HasJob, ToInvoke, SeenScreened, Executing
<1>7. Ledger'
  BY <1>1, <1>2, <1>3 DEF IInv, Ledger, AttemptsCounted, NoEarlyCancelled, ServedScreened
<1>8. pc'[k] \notin Before
  BY <1>2 DEF Before
<1> QED BY <1>2, <1>4, <1>5, <1>6, <1>7, <1>8, ControllerStepInv

\* The owner is started: nothing else runs on the cards, and a served request
\* has its screen among the reports kept, each of an attempt counted.
LEMMA InvokeStep ==
    ASSUME IInv, NEW k \in Controllers, Invoke(k), faults' \in 0..MaxFaults
    PROVE  IInv'
<1>0. TypeOK /\ Controls(k) /\ "calling" \in PCs
  BY DEF IInv, PCs, Executing
<1>1. /\ pc[k] = "cleared" /\ Goes(k, "calling") /\ owner' = [owner EXCEPT ![JobOf(k)] = "running"]
      /\ UNCHANGED <<exchange, op, passed, checkpoint, early>>
  BY DEF Invoke, JobOf
<1>2. /\ JobOf(k) \in Jobs /\ CampaignOf[JobOf(k)] = k /\ JobOf(k) \in claimed
      /\ owner[JobOf(k)] = "none" /\ JobOf(k) \notin early /\ Screened(JobOf(k))
      /\ holder = JobOf(k)
  BY <1>0, <1>1 DEF Controls, Taken, Reads, HasJob, ToInvoke, SeenScreened, Executing
<1>3. /\ pc' \in [Controllers -> PCs] /\ pc'[k] = "calling" /\ op' \in [Controllers -> Operations]
      /\ \A m \in Controllers \ {k} : pc'[m] = pc[m] /\ op'[m] = op[m]
      /\ JobOf(k)' = JobOf(k)
  BY <1>0, <1>1, GoesFrame DEF TypeOK, JobOf
<1>4. /\ UNCHANGED <<client, cancelled, expired, claimed, result, terminal>>
      /\ UNCHANGED <<number, holder, completed, torn, counted>>
  BY <1>1 DEF exchange, checkpoint
<1>5. /\ owner'[JobOf(k)] = "running" /\ \A j \in Jobs \ {JobOf(k)} : owner'[j] = owner[j]
      /\ owner' \in [Jobs -> {"none", "running", "released"}]
  BY <1>0, <1>1, <1>2 DEF TypeOK
<1>6. TypeOK'
  BY <1>0, <1>1, <1>3, <1>4, <1>5 DEF TypeOK, PCs
<1>7. Within(k)
  BY <1>1, <1>2, <1>4, <1>5 DEF Within
<1>8. Taken(k)' /\ Reads(k)' /\ Outcome(k)'
  BY <1>0, <1>1, <1>2, <1>3, <1>4, <1>5 DEF Controls, Taken, Reads, Outcome, HasJob, ToInvoke,
                                            SeenScreened, Executing
<1>9. Ledger'
  <2>1. ServedScreened'
    <3>1. KindOf[JobOf(k)] = "serving" /\ SourceOf[JobOf(k)] # Selected =>
            \E i \in counted : /\ KindOf[i] = "component"
                               /\ SourceOf[i] = SourceOf[JobOf(k)]
                               /\ CampaignOf[i] = CampaignOf[JobOf(k)]
      BY <1>2 DEF Screened, IInv, Ledger
    <3> QED BY <1>4, <1>5, <3>1 DEF ServedScreened, IInv, Ledger
  <2>2. \A j \in counted : j \in Jobs
    BY <1>0 DEF TypeOK
  <2>3. /\ \A j \in Jobs : owner'[j] # "none" => j \in claimed'
        /\ \A j \in Jobs : owner'[j] = "running" => holder' = j
        /\ \A j \in counted' : owner'[j] # "none" /\ j # holder'
    BY <1>2, <1>4, <1>5, <2>2 DEF IInv, Ledger
  <2>4. NoEarlyCancelled'
    BY <1>0, <1>1, <1>2, <1>5 DEF IInv, Ledger, NoEarlyCancelled, TypeOK
  <2> QED BY <1>1, <1>4, <2>1, <2>3, <2>4 DEF IInv, Ledger, AttemptsCounted
<1>10. pc'[k] \notin Before
  BY <1>3 DEF Before
<1> QED BY <1>3, <1>6, <1>7, <1>8, <1>9, <1>10, ControllerStepInv

\* One more attempt is counted.
LEMMA OneMoreCounted ==
    ASSUME IInv, NEW j, j \notin counted
    PROVE  /\ IsFiniteSet(counted \union {j})
           /\ Cardinality(counted \union {j}) = completed + 1
  BY FS_AddElement DEF IInv, Ledger, AttemptsCounted

\* The checkpoint is closed, or stays open for an owner nobody saw release.
LEMMA CloseStep ==
    ASSUME IInv, NEW k \in Controllers, Close(k), faults' \in 0..MaxFaults
    PROVE  IInv'
<1>0. TypeOK /\ Controls(k) /\ number \in Nat /\ completed \in Nat /\ "publish" \in PCs
  BY DEF IInv, TypeOK, PCs
<1>1. /\ pc[k] = "closing" /\ number' = number + 1 /\ Closes(k) /\ KeepsReport(k)
      /\ Goes(k, "publish") /\ UNCHANGED <<exchange, op, torn, cards>>
      /\ holder = JobOf(k) /\ op[k].index = completed
  BY Newest DEF Close
<1>2. JobOf(k) \in Jobs /\ CampaignOf[JobOf(k)] = k
  BY <1>0, <1>1 DEF Controls, Taken, HasJob, Executing
<1>3. /\ pc' \in [Controllers -> PCs] /\ pc'[k] = "publish" /\ op' \in [Controllers -> Operations]
      /\ \A m \in Controllers \ {k} : pc'[m] = pc[m] /\ op'[m] = op[m]
      /\ JobOf(k)' = JobOf(k) /\ op'[k] = op[k]
  BY <1>0, <1>1, GoesFrame DEF TypeOK, JobOf
<1>4. UNCHANGED <<client, cancelled, expired, claimed, result, terminal, owner, early>>
  BY <1>1 DEF exchange, cards
<1>5. \/ /\ owner[JobOf(k)] = "none" /\ holder' = None /\ completed' = completed /\ counted' = counted
      \/ /\ owner[JobOf(k)] = "released" /\ holder' = None /\ op[k].released
         /\ completed' = completed + 1 /\ counted' = counted \union {JobOf(k)}
      \/ /\ owner[JobOf(k)] # "none" /\ ~op[k].released
         /\ holder' = holder /\ completed' = completed /\ counted' = counted
  BY <1>0, <1>1 DEF Closes, Previous, Authenticated, JobOf, Controls, Outcome
<1>6. /\ passed \subseteq passed' /\ passed' \subseteq passed \union {JobOf(k)}
      /\ passed' = passed \/ (KindOf[JobOf(k)] = "component" /\ op[k].released)
  BY <1>0, <1>1 DEF KeepsReport, Reported, JobOf, Controls, Outcome
<1>7. JobOf(k) \notin counted /\ counted \subseteq Jobs
  BY <1>0, <1>1 DEF IInv, Ledger, TypeOK
<1>8. counted \subseteq counted' /\ IsFiniteSet(counted') /\ completed' = Cardinality(counted')
  BY <1>5, <1>7, OneMoreCounted DEF IInv, Ledger, AttemptsCounted
<1>9. TypeOK'
  BY <1>0, <1>1, <1>2, <1>3, <1>4, <1>5, <1>6 DEF TypeOK, PCs
<1>10. Within(k)
  BY <1>1, <1>2, <1>4, <1>5, <1>6 DEF Within
<1>11. Taken(k)' /\ Reads(k)'
  BY <1>1, <1>2, <1>3 DEF Taken, Reads, HasJob, ToInvoke, SeenScreened, Executing
<1>12. Outcome(k)'
  BY <1>0, <1>1, <1>3, <1>5 DEF Controls, Outcome
<1>13. Ledger'
  <2>1. \A j \in passed' : j \in counted' /\ KindOf[j] = "component"
    BY <1>0, <1>1, <1>5, <1>6, <1>8 DEF IInv, Ledger, Controls, Outcome
  <2>2. \A j \in Jobs : owner'[j] = "running" => holder' = j
    BY <1>1, <1>4, <1>5, CampaignAssumption DEF IInv, Ledger
  <2>3. \A j \in counted' : owner'[j] # "none" /\ j # holder'
    BY <1>1, <1>2, <1>4, <1>5, <1>7, CampaignAssumption DEF IInv, Ledger
  <2>4. ServedScreened'
    BY <1>4, <1>8 DEF IInv, Ledger, ServedScreened
  <2> QED BY <1>4, <1>8, <2>1, <2>2, <2>3, <2>4 DEF IInv, Ledger, AttemptsCounted, NoEarlyCancelled
<1>14. pc'[k] \notin Before
  BY <1>3 DEF Before
<1> QED BY <1>3, <1>9, <1>10, <1>11, <1>12, <1>13, <1>14, ControllerStepInv

\* An owner leaves the cards; its controller may learn it or not.
LEMMA ReleasesStep ==
    ASSUME IInv, NEW j \in Jobs, Releases(j), faults' \in 0..MaxFaults
    PROVE  IInv'
<1>1. /\ owner[j] = "running" /\ owner'[j] = "released" /\ \A i \in Jobs \ {j} : owner'[i] = owner[i]
      /\ owner' \in [Jobs -> {"none", "running", "released"}]
      /\ UNCHANGED <<client, cancelled, expired, claimed, result, terminal, pc, op, passed>>
      /\ UNCHANGED <<number, holder, completed, torn, counted, early>>
  BY DEF IInv, TypeOK, Releases, exchange, handling, checkpoint
<1>2. TypeOK'
  BY <1>1 DEF IInv, TypeOK
<1>3. ASSUME NEW k \in Controllers
      PROVE  Controls(k)'
  <2>1. /\ Controls(k) /\ JobOf(k)' = JobOf(k)
        /\ pc[k] \in HasJob => JobOf(k) \in Jobs
    BY <1>1 DEF IInv, JobOf, Controls, Taken
  <2> QED BY <1>1, <2>1 DEF Controls, Taken, Reads, Outcome, Screened, Idle, HasJob, ToInvoke,
                            SeenScreened, Executing
<1>4. Ledger'
  <2>1. counted \subseteq Jobs /\ early \subseteq Jobs
    BY DEF IInv, TypeOK
  <2> QED BY <1>1, <2>1 DEF IInv, Ledger, AttemptsCounted, NoEarlyCancelled, ServedScreened
<1>5. OpenParks'
  BY <1>1 DEF IInv, OpenParks
<1> QED BY <1>2, <1>3, <1>4, <1>5 DEF IInv

\* The operator resolves an open checkpoint: no controller is still to close it
\* as it was.
LEMMA ResolveStep ==
    ASSUME IInv, Resolve, faults' \in 0..MaxFaults
    PROVE  IInv'
<1>0. TypeOK /\ number \in Nat /\ completed \in Nat /\ holder \in Jobs
  BY DEF IInv, TypeOK, Resolve
<1>1. /\ number' = number + 1 /\ holder' = None
      /\ UNCHANGED <<client, cancelled, expired, claimed, result, terminal, pc, op, passed>>
      /\ UNCHANGED <<torn, owner, early>>
  BY DEF Resolve, exchange, handling, cards
<1>2. \/ /\ owner[holder] = "released" /\ completed' = completed + 1 /\ counted' = counted \union {holder}
      \/ /\ owner[holder] = "none" /\ pc[CampaignOf[holder]] = "gone"
         /\ completed' = completed /\ counted' = counted
  BY DEF Resolve
<1>3. holder \notin counted /\ counted \subseteq Jobs
  BY <1>0 DEF IInv, Ledger, TypeOK
<1>4. counted \subseteq counted' /\ IsFiniteSet(counted') /\ completed' = Cardinality(counted')
  BY <1>2, <1>3, OneMoreCounted DEF IInv, Ledger, AttemptsCounted
<1>5. TypeOK'
  BY <1>0, <1>1, <1>2 DEF TypeOK
<1>6. ASSUME NEW k \in Controllers
      PROVE  Controls(k)'
  <2>1. /\ Controls(k) /\ JobOf(k)' = JobOf(k) /\ op[k].seen \in Nat
        /\ pc[k] \in HasJob => JobOf(k) \in Jobs /\ CampaignOf[JobOf(k)] = k
    BY <1>0, <1>1 DEF IInv, JobOf, Controls, Taken, TypeOK, Operations
  <2>2. Taken(k)' /\ Outcome(k)'
    BY <1>1, <2>1 DEF Controls, Taken, Outcome, Screened
  <2>3. pc[k] \in Executing => owner[JobOf(k)] = "released"
    BY <1>2, <2>1 DEF Controls, Reads, HasJob, Executing
  <2>4. Reads(k)'
    BY <1>0, <1>1, <2>1, <2>3 DEF Controls, Reads
  <2> QED BY <2>2, <2>4 DEF Controls
<1>7. Ledger'
  <2>1. \A j \in Jobs : owner[j] # "running"
    BY <1>2 DEF IInv, Ledger
  <2>2. \A j \in counted' : owner'[j] # "none" /\ j # holder'
    BY <1>0, <1>1, <1>2, <1>3, CampaignAssumption DEF IInv, Ledger
  <2>3. ServedScreened'
    BY <1>1, <1>4 DEF IInv, Ledger, ServedScreened
  <2> QED BY <1>1, <1>4, <2>1, <2>2, <2>3 DEF IInv, Ledger, AttemptsCounted, NoEarlyCancelled
<1>8. OpenParks'
  BY <1>1 DEF OpenParks
<1> QED BY <1>5, <1>6, <1>7, <1>8 DEF IInv

-----------------------------------------------------------------------------
(* The invariant, and what it implies                                       *)

LEMMA InitInv == Init => IInv
<1> SUFFICES ASSUME Init PROVE IInv
  OBVIOUS
<1>1. NoOperation \in Operations
  BY NoOperationType
<1>2. TypeOK
  <2>1. pc \in [Controllers -> Before] /\ op \in [Controllers -> Operations] /\ faults \in 0..MaxFaults
    BY <1>1, CampaignAssumption DEF Init, Before
  <2> QED BY <2>1 DEF Init, TypeOK
<1>3. ASSUME NEW k \in Controllers
      PROVE  Controls(k)
  BY <1>3 DEF Init, Controls, Taken, Reads, Outcome, HasJob, ToInvoke, SeenScreened, Executing
<1>4. Ledger
  BY FS_EmptySet, CampaignAssumption
     DEF Init, Ledger, AttemptsCounted, NoEarlyCancelled, ServedScreened
<1>5. OpenParks
  BY DEF Init, OpenParks
<1> QED BY <1>2, <1>3, <1>4, <1>5 DEF IInv

\* A step of a controller, with or without a failure.
LEMMA AnyControllerStep ==
    ASSUME IInv, NEW k \in Controllers, ControllerStep(k) \/ Ends(k) \/ ControllerFails(k),
           faults' \in 0..MaxFaults
    PROVE  IInv'
<1>1. \/ List(k) \/ Ends(k) \/ Claim(k) \/ Take(k) \/ DispatchFails(k) \/ Covered(k) \/ Prepare(k)
      \/ Admit(k) \/ Clear(k) \/ CancelledBeforePreparation(k) \/ Uncovered(k)
      \/ CandidateRejected(k) \/ NotAdmitted(k) \/ AdmitCancelled(k) \/ CloseFails(k)
      \/ Propose(k) \/ CheckIdle(k) \/ ClearCancelled(k) \/ NotInvoked(k) \/ Succeeds(k)
      \/ ReleasedFailed(k) \/ CallerFails(k) \/ Publish(k) \/ PublishLost(k) \/ PublishFails(k)
      \/ Park(k) \/ Crash(k) \/ Open(k) \/ OpenTorn(k) \/ CloseTorn(k) \/ Invoke(k) \/ Close(k)
  BY DEF ControllerStep, Handles, Executes, Publishes, ControllerFails, CallerTimesOut
<1> QED BY <1>1, QueueStep, ForwardStep, ConcludeStep, ReadStep, ResultStep, PublishStep, OpenStep,
           TornStep, InvokeStep, CloseStep

\* Every step stays within the bound on faults.
LEMMA FaultsBounded == ASSUME IInv, Next PROVE faults' \in 0..MaxFaults
  BY CampaignAssumption DEF IInv, TypeOK, Next

\* Every step of the client, the controllers, the owners and the faults keeps the
\* invariant.
LEMMA NextInv == IInv /\ [Next]_vars => IInv'
<1> SUFFICES ASSUME IInv, [Next]_vars PROVE IInv'
  OBVIOUS
<1>1. CASE Next
  <2>1. faults' \in 0..MaxFaults
    BY <1>1, FaultsBounded
  <2>2. ASSUME NEW j \in Jobs,
               Submit(j) \/ Look(j) \/ Interrupted(j) \/ Expires(j) \/ Releases(j)
        PROVE  IInv'
    BY <2>1, <2>2, ClientStep, ReleasesStep
  <2>3. ASSUME NEW k \in Controllers, ControllerStep(k) \/ Ends(k) \/ ControllerFails(k)
        PROVE  IInv'
    BY <2>1, <2>3, AnyControllerStep
  <2>4. Resolve => IInv'
    BY <2>1, ResolveStep
  <2> QED BY <1>1, <2>2, <2>3, <2>4 DEF Next, Faulty
<1>2. CASE UNCHANGED vars
  BY <1>2 DEF vars, exchange, handling, checkpoint, cards, IInv, TypeOK, Controls, Taken, Reads,
              Outcome, JobOf, Screened, Idle, Ledger, AttemptsCounted, NoEarlyCancelled,
              ServedScreened, OpenParks
<1> QED BY <1>1, <1>2

\* Every reachable state satisfies the invariant, for any campaigns, requests
\* and number of failures.
THEOREM Invariant == Spec => []IInv
  BY InitInv, NextInv, PTL DEF Spec

\* The state keeps its types: an operation that is closed or proposed is one of
\* the controller's records, the checkpoint is open for a request or none.
THEOREM TypeCorrect == Spec => []TypeOK
<1>1. IInv => TypeOK
  BY DEF IInv
<1> QED BY <1>1, Invariant, PTL

\* No attempt is counted twice or lost: the index of the newest checkpoint is
\* the number of operations closed as completed (execute, _close).
THEOREM CountsAttempts == Spec => []AttemptsCounted
<1>1. IInv => AttemptsCounted
  BY DEF IInv, Ledger
<1> QED BY <1>1, Invariant, PTL

\* What was cancelled before it was registered is never invoked (execute).
THEOREM CancelledStays == Spec => []NoEarlyCancelled
<1>1. IInv => NoEarlyCancelled
  BY DEF IInv, Ledger
<1> QED BY <1>1, Invariant, PTL

\* No changed source is served without a component of that source having
\* succeeded and released in the same campaign (Controller._step).
THEOREM ScreenFirst == Spec => []ServedScreened
<1>1. IInv => ServedScreened
  BY DEF IInv, Ledger
<1> QED BY <1>1, Invariant, PTL

\* A campaign whose checkpoint is open takes no further request (serve, _close).
THEOREM OpenStops == Spec => []OpenParks
<1>1. IInv => OpenParks
  BY DEF IInv
<1> QED BY <1>1, Invariant, PTL

-----------------------------------------------------------------------------
(* The refinement: the contract of the cards                                *)

Serving == {j \in Jobs : owner[j] # "none"}

\* The state of the contract.
mapped == <<holder, Running, Serving>>

\* No job holds the cards at the start, as the contract asks.
LEMMA RefinesInit == Init => Contract!Init
  BY DEF Init, Contract!Init, Running, Serving

\* A step that leaves the owners alone holds the checkpoint, gives it back or
\* does not show.
LEMMA OpenHolds ==
    ASSUME IInv, NEW k \in Controllers, Open(k)
    PROVE  Contract!Next
<1>1. pc[k] = "admitted" /\ Unique(k) /\ holder' = JobOf(k) /\ owner' = owner
  BY DEF Open, JobOf
<1>2. JobOf(k) \in Jobs
  BY <1>1 DEF IInv, Controls, Taken, HasJob
<1>3. holder = None
  BY <1>1, Newest
<1>4. Contract!Hold(JobOf(k))
  BY <1>1, <1>3 DEF Contract!Hold, Running
<1> QED BY <1>2, <1>4 DEF Contract!Next

\* The caller starts the owner of the request the checkpoint is open for, which
\* never ran.
LEMMA InvokeStarts ==
    ASSUME IInv, NEW k \in Controllers, Invoke(k)
    PROVE  Contract!Next
<1>1. /\ pc[k] = "cleared" /\ owner' = [owner EXCEPT ![JobOf(k)] = "running"]
      /\ holder' = holder /\ owner \in [Jobs -> {"none", "running", "released"}]
  BY DEF Invoke, JobOf, checkpoint, IInv, TypeOK
<1>2. PICK j \in Jobs : j = JobOf(k) /\ owner[j] = "none" /\ holder = j
  BY <1>1 DEF IInv, Controls, Taken, Reads, HasJob, ToInvoke, Executing
<1>3. Running' = Running \union {j} /\ Serving' = Serving \union {j}
  BY <1>1, <1>2 DEF Running, Serving
<1>4. Contract!Start(j)
  BY <1>1, <1>2, <1>3 DEF Contract!Start, Serving
<1> QED BY <1>4 DEF Contract!Next

\* An owner stops once.
LEMMA ReleasesStops ==
    ASSUME IInv, NEW j \in Jobs, Releases(j)
    PROVE  Contract!Next
<1>1. /\ owner[j] = "running" /\ owner' = [owner EXCEPT ![j] = "released"] /\ holder' = holder
      /\ owner \in [Jobs -> {"none", "running", "released"}]
  BY DEF Releases, checkpoint, IInv, TypeOK
<1>2. Running' = Running \ {j} /\ Serving' = Serving /\ j \in Running
  BY <1>1 DEF Running, Serving
<1>3. Contract!Stop(j)
  BY <1>1, <1>2 DEF Contract!Stop, Serving
<1> QED BY <1>3 DEF Contract!Next

\* The cards are given back when nothing runs on them: to the closeout of an
\* owner that was not started or was seen to release, or to the operator.
LEMMA CloseGivesBack ==
    ASSUME IInv, NEW k \in Controllers, Close(k)
    PROVE  Contract!Next \/ UNCHANGED mapped
<1>1. pc[k] = "closing" /\ StillNewest(k) /\ Closes(k) /\ owner' = owner
  BY DEF Close, cards
<1>2. /\ holder = JobOf(k)
      /\ op[k].released => owner[JobOf(k)] = "released"
      /\ Running' = Running /\ Serving' = Serving
  BY <1>1, Newest DEF IInv, Controls, Outcome, Running, Serving
<1>3. holder' = holder \/ (holder' = None /\ owner[holder] # "running")
  BY <1>1, <1>2 DEF Closes, Authenticated, JobOf
<1> QED BY <1>2, <1>3 DEF Contract!Next, Contract!GiveBack, Running, Serving, mapped

\* An operator who resolves an open checkpoint gives the cards back, in the contract's
\* words.
LEMMA ResolveGivesBack == ASSUME IInv, Resolve PROVE Contract!Next
<1>1. /\ holder' = None /\ owner' = owner /\ owner[holder] # "running"
      /\ Running' = Running /\ Serving' = Serving
  BY DEF Resolve, cards, Running, Serving
<1> QED BY <1>1 DEF Contract!Next, Contract!GiveBack, Running, Serving

\* Nothing else touches the newest checkpoint's holder or an owner.
LEMMA RestStutters ==
    ASSUME IInv, Next, holder' # holder \/ owner' # owner
    PROVE  \/ \E k \in Controllers : Open(k) \/ Invoke(k) \/ Close(k)
           \/ \E j \in Jobs : Releases(j)
           \/ Resolve
<1>1. ASSUME NEW j \in Jobs, Submit(j) \/ Look(j) \/ Interrupted(j) \/ Expires(j)
      PROVE  UNCHANGED <<holder, owner>>
  BY <1>1 DEF Submit, Look, LookForResult, SeesTerminal, SeesNothing, CancelWait, Interrupted,
              Expires, checkpoint, cards
<1>2. ASSUME NEW k \in Controllers, Handles(k) \/ Ends(k)
      PROVE  UNCHANGED <<holder, owner>>
  BY <1>2 DEF Handles, List, Claim, Take, DispatchFails, CancelledBeforePreparation, Uncovered,
              Covered, CandidateRejected, Prepare, Propose, NotAdmitted, Ends, checkpoint, cards
<1>3. ASSUME NEW k \in Controllers, Executes(k)
      PROVE  UNCHANGED <<holder, owner>> \/ Open(k) \/ Invoke(k) \/ Close(k)
  BY <1>3 DEF Executes, CheckIdle, Admit, AdmitCancelled, Clear, ClearCancelled, Succeeds,
              ReleasedFailed, CallerTimesOut, CallerFails, CloseFails, Result, checkpoint, cards
<1>4. ASSUME NEW k \in Controllers, Publishes(k)
      PROVE  UNCHANGED <<holder, owner>>
  BY <1>4 DEF Publishes, Publish, PublishTo, PublishFails, Park, Leaves, checkpoint, cards
<1>5. ASSUME NEW k \in Controllers, ControllerFails(k)
      PROVE  UNCHANGED <<holder, owner>>
  BY <1>5 DEF ControllerFails, DispatchFails, NotAdmitted, OpenTorn, NotInvoked, CallerFails,
              CloseFails, CloseTorn, PublishFails, PublishLost, PublishTo, Crash, Leaves, Result,
              checkpoint, cards
<1> QED BY <1>1, <1>2, <1>3, <1>4, <1>5 DEF Next, Faulty, ControllerStep

\* Every step is one of the contract's, or changes nothing that the contract sees.
LEMMA RefinesNext ==
    ASSUME IInv, [Next]_vars
    PROVE  Contract!Next \/ UNCHANGED mapped
<1>1. UNCHANGED <<holder, owner>> => UNCHANGED mapped
  BY DEF mapped, Running, Serving
<1>2. UNCHANGED vars => UNCHANGED <<holder, owner>>
  BY DEF vars, checkpoint, cards
<1> QED BY <1>1, <1>2, RestStutters, OpenHolds, InvokeStarts, CloseGivesBack, ReleasesStops,
           ResolveGivesBack

\* However many campaigns share the checkpoints, whatever fails: one owner at
\* most is on the cards, for the request the newest checkpoint is open for, and
\* none is started twice (execute, _close, and the operator's resolution).
THEOREM Refines == Spec => ContractKept
<1>1. IInv /\ [Next]_vars => [Contract!Next]_mapped
  BY RefinesNext
<1>2. mapped = <<holder, Running, {j \in Jobs : owner[j] # "none"}>>
  BY DEF mapped, Serving
<1> QED BY <1>1, RefinesInit, Invariant, PTL DEF Spec, ContractKept, Contract!Spec, mapped, Serving

=============================================================================
