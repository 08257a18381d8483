---------------------------- MODULE JournalProofs ----------------------------
(* The two journals. The pilot's: one model request at a time, none that the
   budget does not count, and no index that is complete in spite of a recorded
   failure, for any number of calls, any budget and any number of kills and
   failing writes. And, below, that of a capture (Backup).                  *)
EXTENDS Journals, TLAPS

\* A journal under which nothing is sent: a request may be under way.
Owes(j) == j.uncertain \/ j.inflight

\* The threads live and die with their controller, the worker before them.
Lifetimes ==
    /\ main = "idle" => \A c \in Calls : thread[c] = "none"
    /\ worker = "busy" => main \in {"running", "kill"}

\* While the journal in memory is certain, a request under way is the one whose
\* thread waits for it, and that thread has marked it.
Accounted ==
    /\ \A c, d \in Calls : thread[c] = "sent" /\ thread[d] = "sent" => c = d
    /\ \A c \in Calls : thread[c] = "sent" => mem.inflight
    /\ main # "idle" /\ ~mem.uncertain => \A c \in running : thread[c] = "sent"

\* The journal on disk hides no request from the next controller, nor does it
\* run ahead of the memory it is written from.
Durable ==
    /\ running # {} => Owes(journal)
    /\ main # "idle" => journal.requests <= mem.requests
    /\ main # "idle" => mem.requests <= MaxRequests

IInv == TypeOK /\ Lifetimes /\ Accounted /\ Durable /\ OneAtATime /\ CallsCounted

-----------------------------------------------------------------------------
(* Lemmas about the two ways a write ends                                   *)

LEMMA SaveTypes ==
    ASSUME TypeOK, NEW m \in Journals, Saved(m) \/ SaveFails(m)
    PROVE  /\ journal' \in {journal, m}
           /\ pending' \in BOOLEAN
           /\ faults' \in 0..MaxFaults
<1>1. CASE Saved(m)
  BY <1>1 DEF Saved, TypeOK
<1>2. CASE SaveFails(m)
  <2>1. CASE UNCHANGED <<journal, pending, faults>>
    BY <2>1 DEF TypeOK
  <2>2. CASE ~UNCHANGED <<journal, pending, faults>>
    <3>1. faults < MaxFaults /\ faults' = faults + 1
      BY <1>2, <2>2 DEF SaveFails, disk
    <3>2. faults' \in 0..MaxFaults
      BY <3>1, PilotAssumption DEF TypeOK
    <3>3. journal' \in {journal, m} /\ pending' \in BOOLEAN
      BY <1>2, <2>2 DEF SaveFails, TypeOK, disk
    <3>4. QED
      BY <3>2, <3>3
  <2>3. QED
    BY <2>1, <2>2
<1>3. QED
  BY <1>1, <1>2

\* The first journal owes nothing.
LEMMA InitIInv == Init => IInv
<1> SUFFICES ASSUME Init PROVE IInv
  OBVIOUS
<1> USE DEF Init
<1>1. TypeOK
  <2>1. journal \in Journals /\ mem \in Journals
    BY DEF Journals, Fresh
  <2>2. faults \in 0..MaxFaults
    BY PilotAssumption
  <2>3. QED
    BY <2>1, <2>2 DEF TypeOK
<1>2. Lifetimes /\ Accounted /\ OneAtATime
  BY DEF Lifetimes, Accounted, OneAtATime
<1>3. Durable /\ CallsCounted
  BY PilotAssumption DEF Durable, CallsCounted, Fresh
<1>4. QED
  BY <1>1, <1>2, <1>3 DEF IInv

-----------------------------------------------------------------------------
(* The steps that neither send nor settle a request                         *)

\* A step that writes nothing, starts no controller and moves no thread between
\* sent and its neighbours keeps the invariant.
LEMMA QuietStep ==
    ASSUME IInv, TypeOK',
           UNCHANGED <<journal, mem, running, sent>>,
           main # "idle",
           \A c \in Calls : thread'[c] = "sent" <=> thread[c] = "sent",
           Lifetimes'
    PROVE  IInv'
<1>1. Accounted'
  <2>1. running \subseteq Calls
    BY DEF IInv, TypeOK
  <2>2. QED
    BY <2>1 DEF IInv, Accounted
<1>2. Durable' /\ OneAtATime' /\ CallsCounted'
  BY DEF IInv, Durable, Owes, OneAtATime, CallsCounted
<1>3. QED
  BY <1>1, <1>2 DEF IInv

\* A run that starts takes the journal from the disk.
LEMMA BeginStep ==
    ASSUME IInv, NEW a \in {"index", "query"}, Begin(a)
    PROVE  IInv'
<1> USE DEF Begin
<1>1. journal \in Journals /\ ~Owes(journal)
  BY DEF IInv, TypeOK, Usable, Owes
<1>2. running = {}
  BY <1>1 DEF IInv, Durable
<1>3. TypeOK'
  BY DEF IInv, TypeOK, Journals, disk, child, history
<1>4. Lifetimes'
  BY DEF IInv, Lifetimes, TypeOK, child
<1>5. Accounted'
  BY <1>2 DEF IInv, Accounted, Lifetimes
<1>6. Durable' /\ OneAtATime' /\ CallsCounted'
  <2>1. journal.requests <= MaxRequests /\ journal.requests \in Nat
    BY <1>1 DEF IInv, CallsCounted, Journals
  <2>2. QED
    BY <1>2, <2>1 DEF IInv, Durable, OneAtATime, CallsCounted, disk, history
<1>7. QED
  BY <1>3, <1>4, <1>5, <1>6 DEF IInv

\* The steps of run between its saves.
LEMMA MainStep ==
    ASSUME IInv, Spawn \/ Stops \/ SeesExit \/ Accept \/ Reject \/ KillWorker
    PROVE  IInv'
<1>1. /\ UNCHANGED <<journal, pending, mem, thread, running, faults, sent, told, task, before>>
      /\ main # "idle"
  BY DEF Spawn, Stops, SeesExit, Accept, Reject, KillWorker, disk, child, history
<1>2. TypeOK'
  BY <1>1 DEF IInv, TypeOK, Spawn, Stops, SeesExit, Accept, Reject, KillWorker, child
<1>3. Lifetimes'
  BY <1>1 DEF IInv, Lifetimes, Spawn, Stops, SeesExit, Accept, Reject, KillWorker, child
<1>4. QED
  BY <1>1, <1>2, <1>3, QuietStep

\* A worker that asks, or is refused, changes no journal.
LEMMA AskStep ==
    ASSUME IInv, NEW c \in Calls, Ask(c) \/ Refuse(c)
    PROVE  IInv'
<1>1. UNCHANGED <<journal, pending, mem, running, faults, sent, told, main, task, before, status>>
  BY DEF Ask, Refuse, disk, run, child, history
<1>2. main # "idle"
  BY DEF IInv, Lifetimes, Ask, Refuse
<1>3. \A d \in Calls : thread'[d] = "sent" <=> thread[d] = "sent"
  BY DEF IInv, TypeOK, Ask, Refuse
<1>4. TypeOK'
  BY <1>1 DEF IInv, TypeOK, Ask, Refuse, child
<1>5. Lifetimes'
  BY <1>1, <1>2 DEF IInv, Lifetimes, Ask, Refuse, child
<1>6. QED
  BY <1>1, <1>2, <1>3, <1>4, <1>5, QuietStep

\* An answer that reaches the worker changes no journal.
LEMMA FinishStep ==
    ASSUME IInv, NEW c \in Calls, Finish(c)
    PROVE  IInv'
<1> USE DEF Finish, disk, run, child, history
<1>1. TypeOK' /\ Lifetimes'
  BY DEF IInv, TypeOK, Lifetimes
<1>2. Accounted' /\ Durable' /\ OneAtATime' /\ CallsCounted'
  BY DEF IInv, Accounted, Durable, Owes, OneAtATime, CallsCounted
<1>3. QED
  BY <1>1, <1>2 DEF IInv

\* A killed controller leaves its journal, and what it owes, behind.
LEMMA GoneStep ==
    ASSUME IInv, Leave \/ Kill
    PROVE  IInv'
<1>1. Gone /\ faults' \in 0..MaxFaults
  BY PilotAssumption DEF IInv, TypeOK, Leave, Kill
<1>2. TypeOK'
  BY <1>1 DEF IInv, TypeOK, Gone, history
<1>3. Lifetimes' /\ Accounted'
  BY <1>1 DEF Gone, Lifetimes, Accounted
<1>4. Durable' /\ OneAtATime' /\ CallsCounted'
  BY <1>1 DEF IInv, Gone, Durable, Owes, OneAtATime, CallsCounted, history
<1>5. QED
  BY <1>2, <1>3, <1>4 DEF IInv

-----------------------------------------------------------------------------
(* The steps that write the journal                                         *)

\* A write of a journal that counts as many requests, and owes what memory and
\* disk owed, keeps what the disk promises, whether or not it succeeds.
LEMMA WriteStep ==
    ASSUME IInv, NEW m \in Journals, main # "idle", mem' = m,
           journal' \in {journal, m},
           m.requests = mem.requests,
           UNCHANGED <<running, sent>>,
           running # {} => Owes(m)
    PROVE  Durable' /\ OneAtATime' /\ CallsCounted'
<1>1. journal.requests \in Nat /\ mem.requests \in Nat
  BY DEF IInv, TypeOK, Journals
<1>2. journal.requests <= mem.requests /\ mem.requests <= MaxRequests /\ sent <= journal.requests
  BY DEF IInv, Durable, CallsCounted
<1>3. sent \in Nat /\ MaxRequests \in Nat
  BY PilotAssumption DEF IInv, TypeOK
<1>4. Durable'
  BY <1>1, <1>2, <1>3 DEF IInv, Durable, Owes
<1>5. CallsCounted'
  BY <1>1, <1>2, <1>3 DEF CallsCounted
<1>6. OneAtATime'
  BY DEF IInv, OneAtATime
<1>7. QED
  BY <1>4, <1>5, <1>6

\* While a controller runs, memory owes whatever is under way.
LEMMA MemoryOwes == IInv /\ main # "idle" /\ running # {} => Owes(mem)
BY DEF IInv, TypeOK, Accounted, Owes

\* The announcement of an index writes nothing a request is accounted by.
LEMMA AnnounceStep == ASSUME IInv, Announce PROVE IInv'
<1> DEFINE m == [mem EXCEPT !.index = "running"]
<1>1. m \in Journals /\ m.requests = mem.requests /\ (Owes(mem) => Owes(m))
  BY DEF IInv, TypeOK, Journals, Owes
<1>2. Saved(m) \/ SaveFails(m)
  BY DEF Announce
<1>3. journal' \in {journal, m} /\ pending' \in BOOLEAN /\ faults' \in 0..MaxFaults
  BY <1>1, <1>2, SaveTypes DEF IInv
<1>4. TypeOK'
  BY <1>1, <1>3 DEF IInv, TypeOK, Announce, child, history
<1>5. Lifetimes' /\ Accounted'
  BY <1>1 DEF IInv, TypeOK, Journals, Lifetimes, Accounted, Announce, child
<1>6. Durable' /\ OneAtATime' /\ CallsCounted'
  BY <1>1, <1>3, MemoryOwes, WriteStep DEF Announce, history
<1>7. QED
  BY <1>4, <1>5, <1>6 DEF IInv

\* The last save turns a request still in flight into an uncertain one.
LEMMA CloseStep == ASSUME IInv, Close PROVE IInv'
<1> DEFINE m == [mem EXCEPT !.uncertain = @ \/ mem.inflight, !.index = Verdict]
<1>0. Verdict \in {"not-run", "running", "complete", "failed"}
  BY DEF IInv, TypeOK, Journals, Verdict
<1>1. /\ m \in Journals
      /\ m.requests = mem.requests
      /\ m.inflight = mem.inflight
      /\ m.uncertain = (mem.uncertain \/ mem.inflight)
  BY <1>0 DEF IInv, TypeOK, Journals
<1>2. Saved(m) \/ SaveFails(m)
  BY DEF Close
<1>3. journal' \in {journal, m} /\ pending' \in BOOLEAN /\ faults' \in 0..MaxFaults
  BY <1>1, <1>2, SaveTypes DEF IInv
<1>4. TypeOK'
  BY <1>1, <1>3 DEF IInv, TypeOK, Close, history
<1>5. Lifetimes' /\ Accounted'
  BY <1>1 DEF IInv, Lifetimes, Accounted, Close
<1>6. Durable' /\ OneAtATime' /\ CallsCounted'
  BY <1>1, <1>3, MemoryOwes, WriteStep DEF Close, Owes, history
<1>7. QED
  BY <1>4, <1>5, <1>6 DEF IInv

\* A request leaves after the journal that counts it and marks it in flight was saved.
LEMMA SendStep == ASSUME IInv, NEW c \in Calls, Send(c) PROVE IInv'
<1> DEFINE m == [mem EXCEPT !.requests = @ + 1, !.inflight = TRUE]
<1>1. /\ m \in Journals
      /\ m.requests = mem.requests + 1
      /\ m.uncertain = mem.uncertain
      /\ m.inflight
  <2>1. mem \in Journals
    BY DEF IInv, TypeOK
  <2>2. m.requests = mem.requests + 1 /\ m.uncertain = mem.uncertain /\ m.inflight
    BY <2>1 DEF Journals
  <2>3. mem.requests + 1 \in Nat
    BY <2>1 DEF Journals
  <2>4. m \in Journals
    BY <2>1, <2>3 DEF Journals
  <2>5. QED
    BY <2>2, <2>4
<1>2. mem' = m /\ UNCHANGED <<run, child, told>> /\ ~Owes(mem) /\ mem.requests < MaxRequests
  BY DEF Send, Owes
<1>3. Saved(m) \/ SaveFails(m)
  BY DEF Send
<1>4. journal' \in {journal, m} /\ pending' \in BOOLEAN /\ faults' \in 0..MaxFaults
  BY <1>1, <1>3, SaveTypes DEF IInv
<1>5. main # "idle" /\ running = {} /\ \A d \in Calls : thread[d] # "sent"
  BY <1>2, MemoryOwes DEF IInv, Lifetimes, Accounted, Owes, Send
<1>6. journal.requests \in Nat /\ mem.requests \in Nat /\ sent \in Nat /\ MaxRequests \in Nat
  BY PilotAssumption DEF IInv, TypeOK, Journals
<1>7. /\ journal.requests <= mem.requests
      /\ sent <= journal.requests
  BY <1>5 DEF IInv, Durable, CallsCounted
<1>8. CASE /\ Saved(m)
           /\ thread' = [thread EXCEPT ![c] = "sent"]
           /\ running' = running \union {c}
           /\ sent' = sent + 1
  <2>1. journal' = m
    BY <1>8 DEF Saved
  <2>2. TypeOK'
    BY <1>1, <1>2, <1>4, <1>8 DEF IInv, TypeOK, run, child
  <2>3. Lifetimes'
    BY <1>2, <1>5, <1>8 DEF IInv, Lifetimes, run, child
  <2>4. Accounted'
    BY <1>1, <1>2, <1>5, <1>8 DEF IInv, TypeOK, Accounted
  <2>5. Durable' /\ CallsCounted'
    BY <1>1, <1>2, <1>6, <1>7, <1>8, <2>1 DEF Durable, CallsCounted, Owes
  <2>6. OneAtATime'
    BY <1>5, <1>8 DEF OneAtATime
  <2>7. QED
    BY <2>2, <2>3, <2>4, <2>5, <2>6 DEF IInv
<1>9. CASE thread' = [thread EXCEPT ![c] = "failing"] /\ UNCHANGED <<running, sent>>
  <2>1. TypeOK'
    BY <1>1, <1>2, <1>4, <1>9 DEF IInv, TypeOK, run, child
  <2>2. Lifetimes'
    BY <1>2, <1>5, <1>9 DEF IInv, Lifetimes, run, child
  <2>3. Accounted'
    BY <1>1, <1>2, <1>5, <1>9 DEF IInv, TypeOK, Accounted
  <2>4. Durable' /\ CallsCounted'
    <3>1. journal'.requests \in {journal.requests, mem.requests + 1}
      BY <1>1, <1>4
    <3>2. mem'.requests = mem.requests + 1 /\ UNCHANGED <<running, sent>> /\ running = {}
      BY <1>1, <1>2, <1>5, <1>9
    <3>3. Durable'
      BY <1>2, <1>6, <1>7, <3>1, <3>2 DEF Durable
    <3>4. CallsCounted'
      BY <1>2, <1>6, <1>7, <3>1, <3>2 DEF CallsCounted
    <3>5. QED
      BY <3>3, <3>4
  <2>5. OneAtATime'
    BY <1>5, <1>9 DEF OneAtATime
  <2>6. QED
    BY <2>1, <2>2, <2>3, <2>4, <2>5 DEF IInv
<1>10. QED
  BY <1>8, <1>9 DEF Send

\* The end of a call that was sent. Unless its answer was lost, its request is
\* over, and while memory is certain there was no other.
LEMMA SettleStep ==
    ASSUME IInv, NEW c \in Calls, NEW lost \in BOOLEAN,
           Succeed(c) \/ Escape(c) \/ Fails(c, lost)
    PROVE  IInv'
<1>0. PICK l \in BOOLEAN :
         /\ mem' = Settled(l)
         /\ Saved(Settled(l)) \/ SaveFails(Settled(l))
         /\ l \/ c \notin running
  BY DEF Succeed, Escape, Fails
<1>1. /\ Settled(l) \in Journals
      /\ Settled(l).requests = mem.requests
      /\ Settled(l).uncertain = (mem.uncertain \/ l)
  BY DEF IInv, TypeOK, Journals, Settled
<1>2. /\ thread[c] = "sent"
      /\ \E s \in {"none", "failing"} : thread' = [thread EXCEPT ![c] = s]
      /\ UNCHANGED <<main, task, before, status, running, sent>>
  BY DEF Succeed, Escape, Fails, run, history
<1>3. journal' \in {journal, Settled(l)} /\ pending' \in BOOLEAN /\ faults' \in 0..MaxFaults
  BY <1>0, <1>1, SaveTypes DEF IInv
<1>4. main # "idle"
  BY <1>2 DEF IInv, Lifetimes
<1>5. /\ worker' \in {worker, "exit1"}
      /\ waits' \in {waits, NoCall}
      /\ told' \in {told, "uncounted"}
  BY DEF Succeed, Escape, Fails, Answered, Told, child, history
<1>6. thread' \in [Calls -> {"none", "asked", "sent", "failing"}]
  BY <1>2 DEF IInv, TypeOK
<1>7. TypeOK'
  BY <1>0, <1>1, <1>2, <1>3, <1>5, <1>6 DEF IInv, TypeOK
<1>8. Lifetimes'
  BY <1>2, <1>4, <1>5 DEF IInv, Lifetimes
<1>9. /\ \A d \in Calls : thread'[d] # "sent"
      /\ ~mem'.uncertain => running = {}
  <2>1. \A d \in Calls : thread'[d] # "sent"
    BY <1>2 DEF IInv, TypeOK, Accounted
  <2>2. ~mem'.uncertain => c \notin running /\ \A d \in running : thread[d] = "sent"
    BY <1>0, <1>1, <1>4 DEF IInv, TypeOK, Journals, Accounted
  <2>3. running \subseteq Calls
    BY DEF IInv, TypeOK
  <2>4. QED
    BY <1>2, <2>1, <2>2, <2>3 DEF IInv, Accounted
<1>10. Accounted'
  BY <1>2, <1>9 DEF Accounted
<1>11. running # {} => Owes(Settled(l))
  BY <1>0, <1>9 DEF Owes
<1>12. Durable' /\ OneAtATime' /\ CallsCounted'
  BY <1>0, <1>1, <1>2, <1>3, <1>4, <1>11, WriteStep
<1>13. QED
  BY <1>7, <1>8, <1>10, <1>12 DEF IInv

\* A failure is counted and saved; no mark is touched.
LEMMA CountFailureStep == ASSUME IInv, NEW c \in Calls, CountFailure(c) PROVE IInv'
<1> DEFINE m == [mem EXCEPT !.failed = @ + 1]
<1>1. /\ m \in Journals
      /\ m.requests = mem.requests
      /\ m.inflight = mem.inflight
      /\ m.uncertain = mem.uncertain
  BY DEF IInv, TypeOK, Journals
<1>2. /\ mem' = m
      /\ Saved(m) \/ SaveFails(m)
      /\ thread[c] = "failing"
      /\ thread' = [thread EXCEPT ![c] = "none"]
      /\ UNCHANGED <<main, task, before, status, running, sent>>
  BY DEF CountFailure, run
<1>3. journal' \in {journal, m} /\ pending' \in BOOLEAN /\ faults' \in 0..MaxFaults
  BY <1>1, <1>2, SaveTypes DEF IInv
<1>4. main # "idle"
  BY <1>2 DEF IInv, Lifetimes
<1>5. /\ worker' \in {worker, "exit1"}
      /\ waits' \in {waits, NoCall}
      /\ told' \in {told, "counted"}
  BY DEF CountFailure, Told, child
<1>6. TypeOK'
  BY <1>1, <1>2, <1>3, <1>5 DEF IInv, TypeOK
<1>7. Lifetimes'
  BY <1>2, <1>4, <1>5 DEF IInv, Lifetimes
<1>8. Accounted'
  BY <1>1, <1>2 DEF IInv, TypeOK, Accounted
<1>9. Durable' /\ OneAtATime' /\ CallsCounted'
  BY <1>1, <1>2, <1>3, <1>4, MemoryOwes, WriteStep DEF Owes
<1>10. QED
  BY <1>6, <1>7, <1>8, <1>9 DEF IInv

-----------------------------------------------------------------------------
\* Every step of a run, its threads, its worker and the faults keeps the invariant.
LEMMA NextIInv == IInv /\ [Next]_vars => IInv'
<1> SUFFICES ASSUME IInv, [Next]_vars PROVE IInv'
  OBVIOUS
<1>1. ASSUME NEW a \in {"index", "query"}, Begin(a) PROVE IInv'
  BY <1>1, BeginStep
<1>2. CASE Main
  <2>1. CASE Announce
    BY <2>1, AnnounceStep
  <2>2. CASE Close
    BY <2>2, CloseStep
  <2>3. CASE Leave
    BY <2>3, GoneStep
  <2>4. QED
    BY <1>2, <2>1, <2>2, <2>3, MainStep DEF Main
<1>3. CASE Kill
  BY <1>3, GoneStep
<1>4. ASSUME NEW c \in Calls, Serve(c) PROVE IInv'
  <2>1. CASE Send(c)
    BY <2>1, SendStep
  <2>2. CASE Refuse(c)
    BY <2>2, AskStep
  <2>3. CASE Succeed(c) \/ Escape(c)
    BY <2>3, SettleStep
  <2>4. ASSUME NEW lost \in BOOLEAN, Fails(c, lost) PROVE IInv'
    BY <2>4, SettleStep
  <2>5. CASE CountFailure(c)
    BY <2>5, CountFailureStep
  <2>6. QED
    BY <1>4, <2>1, <2>2, <2>3, <2>4, <2>5 DEF Serve
<1>5. ASSUME NEW c \in Calls, Ask(c) \/ Finish(c) PROVE IInv'
  BY <1>5, AskStep, FinishStep
<1>6. CASE GiveUp \/ WorkerExits
  <2>1. UNCHANGED <<journal, mem, running, sent, thread>> /\ main # "idle"
    BY <1>6 DEF IInv, Lifetimes, GiveUp, WorkerExits, disk, history
  <2>2. TypeOK' /\ Lifetimes'
    BY <1>6 DEF IInv, TypeOK, Lifetimes, GiveUp, WorkerExits, disk, run, history
  <2>3. QED
    BY <2>1, <2>2, QuietStep
<1>7. CASE UNCHANGED vars
  BY <1>7 DEF IInv, TypeOK, Lifetimes, Accounted, Durable, Owes, OneAtATime, CallsCounted,
     vars, disk, run, child, history
<1>8. QED
  BY <1>1, <1>2, <1>3, <1>4, <1>5, <1>6, <1>7 DEF Next

\* So it holds throughout.
LEMMA Invariance == Spec => []IInv
BY InitIInv, NextIInv, PTL DEF Spec

\* The journals keep their form, on disk and in memory, through every write cut
\* off and every kill.
THEOREM TypeCorrect == Spec => []TypeOK
BY Invariance, PTL DEF IInv

\* "Model calls: one at a time", whatever is lost and however often the command
\* is killed and started again.
THEOREM NeverTwo == Spec => []OneAtATime
BY Invariance, PTL DEF IInv

\* "128 cumulative calls per prepared pilot": a request is on disk before it is
\* sent, so no crash gives one back.
THEOREM BudgetKept == Spec => []CallsCounted
BY Invariance, PTL DEF IInv

-----------------------------------------------------------------------------
(* A failure the worker was told of rejects the index                       *)

Refused == {"running", "failed"}

\* Between its announcement and its verdict an index is running, on disk and in
\* memory; no failure is forgotten, and the one the worker of the index was told
\* of came while that worker ran, so that it outlives the run in the journal.
Reported ==
    /\ waits # NoCall => worker = "busy"
    /\ main # "idle" => mem.failed >= before
    /\ main \in {"announce", "spawn", "running", "check", "kill"} => status = "failed"
    /\ main \in {"spawn", "running", "check", "kill"} /\ task = "index" =>
          journal.index = "running" /\ mem.index = "running"
    /\ told = "counted" =>
          /\ journal.index \in Refused
          /\ main # "idle" => mem.index \in Refused
          /\ main \notin {"announce", "spawn"}
          /\ main \in {"running", "check"} => mem.failed > before
          /\ main = "close" => status = "failed"

\* At the start nothing was reported.
LEMMA InitReported == Init => Reported
BY DEF Init, Reported, Fresh

\* A run that starts remembers the failures counted before it.
LEMMA BeginReported ==
    ASSUME IInv, Reported, NEW a \in {"index", "query"}, Begin(a)
    PROVE  Reported'
<1>1. told # "counted" /\ journal \in Journals
  BY DEF IInv, TypeOK, Reported, Refused, Begin
<1>2. journal.failed >= journal.failed
  BY <1>1 DEF Journals
<1>3. a = "query" => journal.index = "complete"
  BY DEF Begin
<1>4. QED
  BY <1>1, <1>2 DEF IInv, Lifetimes, Reported, Begin, child, disk, history

\* The steps of run itself, the verdict at its end among them.
LEMMA MainReported == ASSUME IInv, Reported, Main PROVE Reported'
<1>1. mem.failed \in Nat /\ before \in Nat
  BY DEF IInv, TypeOK, Journals
<1>2. CASE Announce
  <2> DEFINE m == [mem EXCEPT !.index = "running"]
  <2>1. m \in Journals /\ m.index = "running" /\ m.failed = mem.failed
    BY DEF IInv, TypeOK, Journals
  <2>2. told # "counted" /\ main = "announce" /\ mem' = m
    BY <1>2 DEF Reported, Announce
  <2>3. main' = "spawn" => journal' = m
    BY <1>2 DEF Announce, Saved
  <2>4. QED
    BY <1>2, <2>1, <2>2, <2>3 DEF Reported, Announce, child, history
<1>3. CASE Close
  <2> DEFINE m == [mem EXCEPT !.uncertain = @ \/ mem.inflight, !.index = Verdict]
  <2>1. Verdict \in {"not-run", "running", "complete", "failed"}
    BY DEF IInv, TypeOK, Journals, Verdict
  <2>2. m \in Journals /\ m.index = Verdict /\ m.failed = mem.failed
    BY <2>1 DEF IInv, TypeOK, Journals
  <2>3. told = "counted" => Verdict \in Refused
    BY <1>3 DEF IInv, TypeOK, Reported, Refused, Verdict, Close
  <2>4. journal' \in {journal, m} /\ mem' = m
    BY <1>3, <2>2, SaveTypes DEF IInv, Close
  <2>5. QED
    BY <1>3, <2>2, <2>3, <2>4 DEF Reported, Close, history
<1>4. CASE Leave
  BY <1>4 DEF Reported, Leave, Gone, history
<1>5. CASE Accept
  BY <1>1, <1>5 DEF Reported, Accept, Clean, disk, child, history
<1>6. CASE Spawn \/ Stops \/ SeesExit \/ Reject \/ KillWorker
  BY <1>6 DEF IInv, Lifetimes, Reported, Spawn, Stops, SeesExit, Reject, KillWorker,
     disk, child, history
<1>7. QED
  BY <1>2, <1>3, <1>4, <1>5, <1>6 DEF Main

\* What a call writes leaves the index alone and never lowers the failures.
LEMMA KeepReported ==
    ASSUME IInv, Reported, main # "idle",
           UNCHANGED <<main, task, before, status>>,
           told' = "counted" => told = "counted",
           waits' # NoCall => waits' = waits /\ worker' = worker,
           journal'.index \in {journal.index, mem.index},
           mem'.index = mem.index,
           mem'.failed \in Nat,
           mem'.failed >= mem.failed
    PROVE  Reported'
<1>1. mem.failed \in Nat /\ before \in Nat
  BY DEF IInv, TypeOK, Journals
<1>2. waits' # NoCall => worker' = "busy"
  BY DEF Reported
<1>3. main' # "idle" => mem'.failed >= before'
  BY <1>1 DEF Reported
<1>4. /\ main' \in {"announce", "spawn", "running", "check", "kill"} => status' = "failed"
      /\ main' \in {"spawn", "running", "check", "kill"} /\ task' = "index" =>
            journal'.index = "running" /\ mem'.index = "running"
  BY DEF Reported
<1>5. CASE told' = "counted"
  <2>1. told = "counted"
    BY <1>5
  <2>2. main' \in {"running", "check"} => mem'.failed > before'
    BY <1>1, <2>1 DEF Reported
  <2>3. journal'.index \in Refused /\ mem'.index \in Refused
    BY <2>1 DEF Reported
  <2>4. QED
    BY <1>2, <1>3, <1>4, <2>1, <2>2, <2>3 DEF Reported
<1>6. CASE told' # "counted"
  BY <1>2, <1>3, <1>4, <1>6 DEF Reported
<1>7. QED
  BY <1>5, <1>6

\* The steps of a proxy thread: a failure is saved before the worker hears of it.
LEMMA ServeReported ==
    ASSUME IInv, Reported, NEW c \in Calls, Serve(c)
    PROVE  Reported'
<1>1. /\ mem.failed \in Nat
      /\ before \in Nat
      /\ mem \in Journals
      /\ UNCHANGED run
  BY DEF IInv, TypeOK, Journals, Serve, Send, Refuse, Succeed, Escape, CountFailure, Fails
<1>0. main # "idle"
  BY DEF IInv, Lifetimes, Serve, Send, Refuse, Succeed, Escape, CountFailure, Fails
<1>2. CASE Refuse(c)
  BY <1>2 DEF Reported, Refuse, disk, run, child, history
<1>3. CASE Send(c)
  <2> DEFINE m == [mem EXCEPT !.requests = @ + 1, !.inflight = TRUE]
  <2>1. m.index = mem.index /\ m.failed = mem.failed
    BY <1>1 DEF Journals
  <2>2. mem' = m /\ journal' \in {journal, m} /\ UNCHANGED <<child, told>>
    BY <1>3 DEF Send, Saved, SaveFails, disk
  <2>3. journal'.index \in {journal.index, mem.index} /\ mem'.index = mem.index
    BY <2>1, <2>2
  <2>4. mem'.failed \in Nat /\ mem'.failed >= mem.failed
    BY <1>1, <2>1, <2>2 DEF Journals
  <2>5. QED
    BY <1>0, <1>1, <2>2, <2>3, <2>4, KeepReported DEF run, child
<1>4. ASSUME NEW lost \in BOOLEAN, Succeed(c) \/ Escape(c) \/ Fails(c, lost)
      PROVE  Reported'
  <2>1. PICK l \in BOOLEAN :
          mem' = Settled(l) /\ journal' \in {journal, Settled(l)}
    BY <1>4 DEF Succeed, Escape, Fails, Saved, SaveFails, disk
  <2>2. Settled(l).index = mem.index /\ Settled(l).failed = mem.failed
    BY <1>1 DEF Journals, Settled
  <2>3. /\ told' = "counted" => told = "counted"
        /\ waits' # NoCall => waits' = waits /\ worker' = worker
    BY <1>4 DEF Succeed, Escape, Fails, Answered, Told, child, history
  <2>4. journal'.index \in {journal.index, mem.index} /\ mem'.index = mem.index
    BY <2>1, <2>2
  <2>5. mem'.failed \in Nat /\ mem'.failed >= mem.failed
    BY <1>1, <2>1, <2>2 DEF Journals
  <2>6. QED
    BY <1>0, <1>1, <2>3, <2>4, <2>5, KeepReported DEF run
<1>5. CASE CountFailure(c)
  <2> DEFINE m == [mem EXCEPT !.failed = @ + 1]
  <2>1. m.index = mem.index /\ m.failed = mem.failed + 1
    BY <1>1 DEF Journals
  <2>2. mem' = m /\ journal' \in {journal, m}
    BY <1>5 DEF CountFailure, Saved, SaveFails, disk
  <2>3. waits' # NoCall => waits' = waits /\ worker' = worker
    BY <1>5 DEF CountFailure, Told, child
  <2>4. \/ told' = told
        \/ worker = "busy" /\ task = "index" /\ main \in {"running", "kill"}
    BY <1>5, PilotAssumption DEF IInv, Lifetimes, Reported, CountFailure, Told, child
  <2>5. journal'.index \in {journal.index, mem.index} /\ mem'.index = mem.index
    BY <2>1, <2>2
  <2>6. mem'.failed = mem.failed + 1 /\ (main # "idle" => mem'.failed > before)
    BY <1>1, <2>1, <2>2 DEF Reported
  <2>7. CASE told' = told
    <3>1. mem'.failed \in Nat /\ mem'.failed >= mem.failed
      BY <1>1, <2>6
    <3>2. QED
      BY <1>0, <1>1, <2>3, <2>5, <2>7, <3>1, KeepReported DEF run
  <2>8. CASE worker = "busy" /\ task = "index" /\ main \in {"running", "kill"}
    BY <1>1, <2>3, <2>5, <2>6, <2>8 DEF Reported, Refused, run
  <2>9. QED
    BY <2>4, <2>7, <2>8
<1>6. QED
  BY <1>2, <1>3, <1>4, <1>5 DEF Serve

\* Every step keeps the account of the failures.
LEMMA NextReported == IInv /\ Reported /\ [Next]_vars => Reported'
<1> SUFFICES ASSUME IInv, Reported, [Next]_vars PROVE Reported'
  OBVIOUS
<1>1. CASE Kill
  BY <1>1 DEF Reported, Kill, Gone, history
<1>2. ASSUME NEW c \in Calls, Ask(c) \/ Finish(c) PROVE Reported'
  BY <1>2 DEF Reported, Ask, Finish, disk, run, child, history
<1>3. CASE GiveUp \/ WorkerExits
  BY <1>3 DEF Reported, GiveUp, WorkerExits, disk, run, history
<1>4. CASE UNCHANGED vars
  BY <1>4 DEF Reported, vars, disk, run, child, history
<1>5. QED
  BY <1>1, <1>2, <1>3, <1>4, BeginReported, MainReported, ServeReported DEF Next

\* "the controller also rejects a run if its proxy recorded failed calls": what
\* the worker goes on to write after a recorded failure never becomes the index,
\* in this run or in a later one.
THEOREM FailureIsFinal == Spec => []FailureRejects
<1>1. Spec => []Reported
  BY InitReported, NextReported, Invariance, PTL DEF Spec
<1>2. Reported => FailureRejects
  BY DEF Reported, Refused, FailureRejects
<1>3. QED
  BY <1>1, <1>2, PTL

-----------------------------------------------------------------------------
(* A capture's way back: Backup, for any constants that it allows.          *)

SessionToken == <<"session", None>>
Child(c) == <<"child", c>>

\* Whoever works holds the lock, a capture itself or the switch it lent it to, and
\* nobody has it together with a session.
Locks ==
    /\ \A c \in Captures : pc[B!Capture(c)] \in B!Holding => B!Capture(c) \in lock
    /\ \A c \in switch : Child(c) \in lock
    /\ SessionToken \in lock => lock = {SessionToken}

\* The journal of a capture, step by step: it has what was scaled to zero, ...
Covered(c) == \A z \in zeroed[c] : deployments[c][z[1]] = [uid |-> z[2], replicas |-> 1]
\* ... nothing was scaled before it was there, ...
Before(c) ==
    /\ pc[B!Capture(c)] \in {"idle", "locked"} => zeroed[c] = {} /\ c \notin switch
    /\ pc[B!Capture(c)] \in {"idle", "locked", "planned", "switching"} => turn[c] = 1
\* ... it has every game the switch may stop, as long as capture or switch run, ...
PlannedGames(c) ==
    pc[B!Capture(c)] \in B!Holding \ {"locked"} \/ c \in switch =>
        \A w \in Gaming : /\ deployments[c][w] # None
                          /\ asked[w] = 1 => deployments[c][w].replicas = 1
\* ... and no application whose turn has not come, ...
Ahead(c) ==
    pc[B!Capture(c)] \in {"planned"} \union (B!Quiescing \ {"cri"}) =>
        \A n \in DOMAIN Order :
            \/ n > turn[c]
            \/ n = turn[c] /\ pc[B!Capture(c)] \in {"planned", "switching", "get"}
            => Order[n] \in Gaming \/ deployments[c][Order[n]] = None
\* ... and a Deployment that nobody touched since it was read is as the journal says.
Fits(c, w) ==
    /\ deployments[c][w].uid = uid[w]
    /\ asked[w] = 1 => deployments[c][w].replicas = 1
AsJournaled(c) ==
    /\ pc[B!Capture(c)] \in {"opened", "journaled", "scaled"} => turn[c] <= Len(Order)
    /\ c \in fresh => /\ pc[B!Capture(c)] \in {"opened", "journaled"}
                      /\ deployments[c][B!At(c)] # None
                      /\ Fits(c, B!At(c))
Journaled(c) == Covered(c) /\ Before(c) /\ PlannedGames(c) /\ Ahead(c) /\ AsJournaled(c)
WaysBack == \A c \in Captures : Journaled(c)

\* What a capture has stopped is asked for by nobody, or is on record as started
\* behind its back; and then nothing runs while it copies.
Quiet ==
    /\ \A c \in Captures, w \in B!Writers : B!Past(c, w) => asked[w] = 0 \/ w \in late
    /\ B!CopiesQuiet

\* What is reported was recorded, and what is recorded was captured once.
Once ==
    /\ \A c \in Captures : pc[B!Capture(c)] \in {"idle"} \union B!Holding => c \notin recorded
    /\ \A c \in Captures : pc[B!Capture(c)] = "snapped" => c \in snapshot
    /\ \A c \in Captures : pc[B!Replicate(c)] \in {"copied", "temporary"} => c \in recorded
    /\ \A p \in B!Procs : out[p] = "ok" => p[2] \in recorded
    /\ \A s \in B!Stages : reported[s] \subseteq recorded
\* Some capture is the newest (there may be any number of them).
Latest == \E m \in Captures : \A c \in Captures : created[c] <= created[m]
\* The metrics file has the newest time that was reported.
Exact ==
    \A s \in B!Stages :
        /\ metric[s].time = 0 \/ \E c \in reported[s] : metric[s].time = created[c]
        /\ \A c \in reported[s] : created[c] <= metric[s].time
\* A report under way is alone, and what it read is what is there.
OneReport == \A p \in B!Procs : pc[p] = "reporting" => mlock = {p} /\ read[p] = metric
Reports == Once /\ Latest /\ Exact /\ OneReport

BInv == B!TypeOK /\ Locks /\ WaysBack /\ Quiet /\ Reports

-----------------------------------------------------------------------------
\* The processes and the holders of the lock are told apart.
LEMMA Tags ==
    /\ \A c \in Captures : B!Capture(c) \in B!Procs /\ B!Replicate(c) \in B!Procs
    /\ \A c, d \in Captures :
          /\ B!Capture(c) = B!Capture(d) => c = d
          /\ B!Replicate(c) = B!Replicate(d) => c = d
          /\ Child(c) = Child(d) => c = d
          /\ B!Capture(c) # B!Replicate(d) /\ Child(c) # B!Capture(d) /\ Child(c) # B!Replicate(d)
          /\ SessionToken # B!Capture(c) /\ SessionToken # B!Replicate(c) /\ SessionToken # Child(c)
    /\ \A c \in Captures : B!Capture(c)[1] = "capture" /\ B!Capture(c)[2] = c
                          /\ B!Replicate(c)[1] = "replicate" /\ B!Replicate(c)[2] = c
    /\ \A p \in B!Procs : \E c \in Captures : p = B!Capture(c) \/ p = B!Replicate(c)
  BY DEF B!Capture, B!Replicate, Child, SessionToken, B!Procs

\* An upper bound in a set of numbers is its maximum.
LEMMA MaxIs ==
    ASSUME NEW S \in SUBSET Int, NEW m \in S, \A x \in S : x <= m
    PROVE  B!Max(S) = m
<1> DEFINE Top(x) == x \in S /\ \A y \in S : x >= y
<1>1. Top(m)
  OBVIOUS
<1>2. \A x : Top(x) => x = m
  OBVIOUS
<1>3. B!Max(S) = CHOOSE x : Top(x)
  BY DEF B!Max
<1>4. Top(CHOOSE x : Top(x))
  <2> HIDE DEF Top
  <2> QED BY <1>1, Zenon
<1> HIDE DEF Top
<1> QED BY <1>2, <1>3, <1>4

-----------------------------------------------------------------------------
(* The steps by what they touch.                                            *)

\* A capture goes on with the lock it holds.
Inner(c) ==
    \/ B!Plan(c) \/ B!Get(c) \/ B!JournalWritten(c) \/ B!Scale(c) \/ B!Waited(c) \/ B!PodsGone(c)
    \/ B!Stopped(c) \/ B!StopK3s(c) \/ B!Seal(c) \/ B!Manifest(c) \/ B!Snapshot(c)
Copies(c) == B!Copy(c) \/ B!OpenRecord(c) \/ B!RecordOffsite(c) \/ B!RecordRefused(c) \/ B!ReplicateFails(c)
Leaves(c) == B!LockRefused(c) \/ B!CaptureFails(c)
World(w) == B!Resume(w) \/ B!Replace(w) \/ B!SessionScales(w)
Kubelet(w) == B!Sync(w) \/ B!PodStarts(w) \/ B!PodEnds(w) \/ B!PodLost(w) \/ B!LeftEnds(w)

Part ==
    \/ \E c \in Captures :
          \/ Inner(c) \/ B!RecordLocal(c) \/ Leaves(c) \/ Copies(c)
          \/ B!Lock(c) \/ B!SwitchStarts(c) \/ B!SwitchScales(c) \/ B!SwitchEnds(c) \/ B!SwitchFails(c)
    \/ \E p \in B!Procs : B!ReportBegins(p) \/ B!ReportEnds(p) \/ B!Kill(p)
    \/ \E w \in B!Writers : World(w) \/ Kubelet(w)
    \/ B!StartK3s \/ B!SessionLock \/ B!SessionEnds

\* Every step is one of them, and at most takes a fault.
LEMMA Steps ==
    ASSUME [B!Next]_B!vars
    PROVE  (Part /\ (UNCHANGED hands \/ (hands < MaxHands /\ hands' = hands + 1))) \/ UNCHANGED B!vars
<1>1. ASSUME NEW c \in Captures, B!CaptureStep(c) \/ B!SwitchStep(c) \/ B!ReplicateStep(c) PROVE Part
  BY <1>1 DEF B!CaptureStep, B!SwitchStep, B!ReplicateStep, Part, Inner, Leaves, Copies
<1>2. ASSUME B!Owner \/ B!Cluster  PROVE Part
  BY <1>2 DEF B!Owner, B!Cluster, Part, World, Kubelet
<1>3. ASSUME B!Faulty  PROVE Part
  BY <1>3 DEF B!Faulty, Part, Leaves, Copies, World, Kubelet
<1> QED BY <1>1, <1>2, <1>3 DEF B!Next, Part

-----------------------------------------------------------------------------
(* Locks *)

\* What an inner step of a capture does to the processes.
LEMMA Inside ==
    ASSUME NEW c \in Captures, Inner(c)
    PROVE  /\ pc[B!Capture(c)] \in B!Holding
           /\ \E to \in B!Holding : B!Goes(B!Capture(c), to)
           /\ UNCHANGED <<out, lock, switch, mlock, read, metric, reported, recorded>>
  BY DEF Inner, B!Plan, B!Get, B!JournalWritten, B!Scale, B!Waited, B!PodsGone, B!Stopped,
     B!StopK3s, B!Seal,
         B!Manifest, B!Snapshot, B!Holding, B!Quiescing, B!Copying, B!telemetry, B!stored

\* Every step keeps the lock with those who work under it, its lender and its switch.
LEMMA LocksNext == ASSUME BInv, Part  PROVE Locks'
<1> USE DEF B!Goes, B!Fails
<1>0. /\ B!TypeOK /\ Locks
      /\ \A c \in Captures : pc[B!Capture(c)] \in {"idle", "locked"} => c \notin switch
  BY DEF BInv, WaysBack, Journaled, Before
<1>1. ASSUME NEW c \in Captures, Inner(c)  PROVE Locks'
  BY <1>0, <1>1, Inside, Tags DEF B!TypeOK, Locks
<1>2. ASSUME NEW c \in Captures, B!RecordLocal(c) \/ Leaves(c)  PROVE Locks'
  <2>1. B!Goes(B!Capture(c), "report") /\ switch' = switch /\ lock' \in {lock, lock \ {B!Capture(c)}}
    BY <1>2 DEF B!RecordLocal, Leaves, B!LockRefused, B!CaptureFails
  <2> QED BY <1>0, <2>1, Tags DEF B!TypeOK, Locks, B!Holding, B!Quiescing, B!Copying
<1>3. ASSUME NEW c \in Captures, Copies(c)  PROVE Locks'
  BY <1>0, <1>3, Tags DEF B!TypeOK, Locks, Copies, B!Copy, B!OpenRecord, B!RecordOffsite,
     B!RecordRefused, B!ReplicateFails, B!ReplicateEnds
<1>4. ASSUME NEW c \in Captures, B!Lock(c) \/ B!SwitchStarts(c)  PROVE Locks'
  BY <1>0, <1>4, Tags DEF B!TypeOK, Locks, B!Lock, B!SwitchStarts, Child, SessionToken,
     B!Holding, B!Quiescing, B!Copying
<1>5. ASSUME NEW c \in Captures, B!SwitchScales(c) \/ B!SwitchEnds(c) \/ B!SwitchFails(c)  PROVE Locks'
  BY <1>0, <1>5, Tags DEF B!TypeOK, Locks, B!SwitchScales, B!SwitchEnds, B!SwitchFails,
     B!ChildOnly, Child, SessionToken, B!Holding, B!Quiescing, B!Copying
<1>6. ASSUME NEW p \in B!Procs, B!ReportBegins(p) \/ B!ReportEnds(p) \/ B!Kill(p)  PROVE Locks'
  <2>1. /\ \E to \in {"report", "reporting", "idle", "done"} :
              B!Goes(p, to) /\ (p[1] = "capture" => to # "idle")
        /\ switch' = switch /\ lock' \in {lock, lock \ {p}}
    BY <1>6 DEF B!ReportBegins, B!ReportEnds, B!Kill
  <2>2. ASSUME NEW c \in Captures  PROVE pc'[B!Capture(c)] \in B!Holding => B!Capture(c) \in lock'
    BY <1>0, <2>1, Tags DEF B!TypeOK, Locks, B!Holding, B!Quiescing, B!Copying
  <2>3. SessionToken # p /\ \A c \in Captures : Child(c) # p
    BY Tags
  <2>4. SessionToken \in lock' => lock' = {SessionToken}
    BY <1>0, <2>1, <2>3 DEF Locks
  <2>5. \A c \in switch' : Child(c) \in lock'
    BY <1>0, <2>1, <2>3 DEF Locks, B!TypeOK
  <2> QED BY <2>2, <2>4, <2>5 DEF Locks
<1>7. ASSUME NEW w \in B!Writers, World(w) \/ Kubelet(w)  PROVE Locks'
  BY <1>0, <1>7 DEF Locks, World, Kubelet, B!Resume, B!Replace, B!SessionScales, B!Sync,
     B!PodStarts, B!PodEnds, B!PodLost, B!LeftEnds, B!running
<1>8. ASSUME B!StartK3s \/ B!SessionLock \/ B!SessionEnds  PROVE Locks'
  BY <1>0, <1>8, Tags DEF Locks, B!StartK3s, B!SessionLock, B!SessionEnds, SessionToken, Child,
     B!running
<1> QED BY <1>1, <1>2, <1>3, <1>4, <1>5, <1>6, <1>7, <1>8 DEF Part

-----------------------------------------------------------------------------
(* Types *)

\* A writer is in the order it is stopped in.
LEMMA Ordered ==
    ASSUME B!Allowed
    PROVE  /\ Len(Order) \in Nat /\ DOMAIN Order = 1..Len(Order)
           /\ \A n \in DOMAIN Order : Order[n] \in B!Writers
           /\ \A w \in B!Writers : \E n \in DOMAIN Order : w = Order[n]
           /\ Gaming \in SUBSET B!Writers
  BY DEF B!Allowed, B!Writers

\* The writer a capture is at.
LEMMA AtWriter ==
    ASSUME B!Allowed, B!TypeOK, NEW c \in Captures, turn[c] <= Len(Order)
    PROVE  turn[c] \in DOMAIN Order /\ B!At(c) \in B!Writers
  BY Ordered DEF B!TypeOK, B!At

\* The newest of the recovery points is one more than the last.
LEMMA NowIsNat == ASSUME B!TypeOK, Latest  PROVE B!Now \in Nat /\ \A c \in Captures : created[c] < B!Now
<1>1. PICK m \in Captures : \A c \in Captures : created[c] <= created[m]
  BY DEF Latest
<1> DEFINE S == {created[c] : c \in Captures}
<1>2. S \in SUBSET Int /\ created[m] \in S /\ \A x \in S : x <= created[m]
  BY <1>1 DEF B!TypeOK
<1>3. B!Max(S) = created[m]
  <2> HIDE DEF S
  <2> QED BY <1>2, MaxIs
<1>4. created[m] \in Nat /\ \A c \in Captures : created[c] \in Nat
  BY DEF B!TypeOK
<1> QED BY <1>1, <1>3, <1>4 DEF B!Now

\* The parts of the type invariant.
Processes ==
    /\ pc \in [B!Procs -> {"idle", "report", "reporting", "done"} \union B!Holding
                        \union {"copied", "temporary"}]
    /\ out \in [B!Procs -> {"ok", "failed"}]
    /\ lock \in SUBSET (B!Procs \union ({"child"} \X Captures) \union {<<"session", None>>})
    /\ switch \in SUBSET Captures
Progress ==
    /\ turn \in [Captures -> 1..Len(Order) + 1]
    /\ fresh \in SUBSET Captures
    /\ deployments \in [Captures -> [B!Writers -> B!Entries]]
    /\ torn \in SUBSET Captures
    /\ zeroed \in [Captures -> SUBSET (B!Writers \X Nat)]
Deployments ==
    /\ asked \in [B!Writers -> {0, 1}]
    /\ uid \in [B!Writers -> Nat]
    /\ seen \in [B!Writers -> {0, 1}]
    /\ box \in [B!Writers -> {"none", "pod", "left"}]
    /\ k3s \in BOOLEAN
    /\ late \in SUBSET B!Writers
Copied ==
    /\ created \in [Captures -> Nat]
    /\ snapshot \in SUBSET Captures
    /\ recorded \in SUBSET snapshot
    /\ remote \in SUBSET recorded
    /\ offsite \in [Captures -> {"none", "temporary", "there"}]
Metrics ==
    /\ metric \in [B!Stages -> [time : Nat, failed : BOOLEAN]]
    /\ mlock \in SUBSET B!Procs
    /\ read \in [B!Procs -> [B!Stages -> [time : Nat, failed : BOOLEAN]]]
    /\ reported \in [B!Stages -> SUBSET Captures]

\* They make the type invariant.
LEMMA TypeParts ==
    B!TypeOK <=> Processes /\ Progress /\ Deployments /\ Copied /\ Metrics /\ hands \in 0..MaxHands
  BY DEF B!TypeOK, Processes, Progress, Deployments, Copied, Metrics

\* Every step keeps the types of the processes and their locks.
LEMMA ProcessesNext == ASSUME B!TypeOK, Part  PROVE Processes'
<1> USE TypeParts, Tags DEF B!Goes, Processes, B!Holding, B!Quiescing, B!Copying
<1>1. ASSUME NEW c \in Captures, Inner(c)  PROVE Processes'
  BY <1>1, Inside
<1>2. ASSUME NEW c \in Captures, B!RecordLocal(c) \/ Leaves(c)  PROVE Processes'
  BY <1>2 DEF B!RecordLocal, Leaves, B!LockRefused, B!CaptureFails, B!Fails
<1>3. ASSUME NEW c \in Captures, Copies(c)  PROVE Processes'
  BY <1>3 DEF Copies, B!Copy, B!OpenRecord, B!RecordOffsite, B!RecordRefused, B!ReplicateFails,
     B!ReplicateEnds
<1>4. ASSUME NEW c \in Captures, B!Lock(c) \/ B!SwitchStarts(c)  PROVE Processes'
  BY <1>4 DEF B!Lock, B!SwitchStarts
<1>5. ASSUME NEW c \in Captures, B!SwitchScales(c) \/ B!SwitchEnds(c) \/ B!SwitchFails(c)  PROVE Processes'
  BY <1>5 DEF B!SwitchScales, B!SwitchEnds, B!SwitchFails
<1>6. ASSUME NEW p \in B!Procs, B!ReportBegins(p) \/ B!ReportEnds(p) \/ B!Kill(p)  PROVE Processes'
  BY <1>6 DEF B!ReportBegins, B!ReportEnds, B!Kill
<1>7. ASSUME NEW w \in B!Writers, World(w) \/ Kubelet(w)  PROVE Processes'
  BY <1>7 DEF World, Kubelet, B!Resume, B!Replace, B!SessionScales, B!Sync, B!PodStarts,
     B!PodEnds, B!PodLost, B!LeftEnds, B!running
<1>8. ASSUME B!StartK3s \/ B!SessionLock \/ B!SessionEnds  PROVE Processes'
  BY <1>8 DEF B!StartK3s, B!SessionLock, B!SessionEnds, B!running
<1> QED BY <1>1, <1>2, <1>3, <1>4, <1>5, <1>6, <1>7, <1>8 DEF Part

\* Every step keeps the types of what a capture remembers.
LEMMA ProgressNext ==
    ASSUME B!Allowed, B!TypeOK, Part,
           \A c \in Captures : pc[B!Capture(c)] \in {"opened", "journaled", "scaled"} => turn[c] <= Len(Order)
    PROVE  Progress'
<1> USE TypeParts, Tags DEF Progress, Deployments, B!history
<1>1. ASSUME NEW c \in Captures, Inner(c)  PROVE Progress'
  <2>1. CASE B!Plan(c)
    BY <2>1 DEF B!Plan, B!Entry, B!Entries, B!cluster
  <2>2. CASE B!Get(c)
    <3>1. B!At(c) \in B!Writers /\ B!FirstEntry(c) \in B!Entries
      BY <2>2, AtWriter DEF B!Get, B!Entry, B!FirstEntry, B!Entries
    <3> QED BY <2>2, <3>1 DEF B!Get
  <2>3. CASE \/ B!JournalWritten(c) \/ B!PodsGone(c) \/ B!Stopped(c) \/ B!StopK3s(c)
             \/ B!Seal(c) \/ B!Manifest(c) \/ B!Snapshot(c)
    BY <2>3 DEF B!JournalWritten, B!PodsGone, B!Stopped, B!StopK3s, B!Seal, B!Manifest, B!Snapshot
  <2>4. CASE B!Scale(c)
    BY <2>4, AtWriter DEF B!Scale, B!Zero
  <2>5. CASE B!Waited(c)
    BY <2>5, Ordered DEF B!Waited
  <2> QED BY <1>1, <2>1, <2>2, <2>3, <2>4, <2>5 DEF Inner
<1>2. ASSUME NEW c \in Captures, B!RecordLocal(c) \/ Leaves(c)  PROVE Progress'
  BY <1>2 DEF B!RecordLocal, Leaves, B!LockRefused, B!CaptureFails, B!Fails
<1>3. ASSUME NEW c \in Captures, Copies(c)  PROVE Progress'
  BY <1>3 DEF Copies, B!Copy, B!OpenRecord, B!RecordOffsite, B!RecordRefused, B!ReplicateFails,
     B!ReplicateEnds
<1>4. ASSUME NEW c \in Captures, B!Lock(c) \/ B!SwitchStarts(c)  PROVE Progress'
  BY <1>4 DEF B!Lock, B!SwitchStarts
<1>5. ASSUME NEW c \in Captures, B!SwitchScales(c) \/ B!SwitchEnds(c) \/ B!SwitchFails(c)  PROVE Progress'
  <2>1. CASE B!SwitchScales(c)
    <3>1. PICK w \in Gaming : B!Zero(c, w)
      BY <2>1 DEF B!SwitchScales
    <3>2. w \in B!Writers
      BY Ordered
    <3> QED BY <2>1, <3>1, <3>2 DEF B!SwitchScales, B!Zero
  <2>2. CASE B!SwitchEnds(c) \/ B!SwitchFails(c)
    BY <2>2 DEF B!SwitchEnds, B!SwitchFails
  <2> QED BY <1>5, <2>1, <2>2
<1>6. ASSUME NEW p \in B!Procs, B!ReportBegins(p) \/ B!ReportEnds(p) \/ B!Kill(p)  PROVE Progress'
  BY <1>6 DEF B!ReportBegins, B!ReportEnds, B!Kill
<1>7. ASSUME NEW w \in B!Writers, World(w) \/ Kubelet(w)  PROVE Progress'
  BY <1>7 DEF World, Kubelet, B!Resume, B!Replace, B!SessionScales, B!Touched, B!Sync,
     B!PodStarts, B!PodEnds, B!PodLost, B!LeftEnds, B!running
<1>8. ASSUME B!StartK3s \/ B!SessionLock \/ B!SessionEnds  PROVE Progress'
  BY <1>8 DEF B!StartK3s, B!SessionLock, B!SessionEnds, B!running
<1> QED BY <1>1, <1>2, <1>3, <1>4, <1>5, <1>6, <1>7, <1>8 DEF Part

\* Every step keeps the types of the cluster.
LEMMA DeploymentsNext == ASSUME B!TypeOK, Part  PROVE Deployments'
<1> USE TypeParts DEF Deployments, B!cluster, B!history
<1>1. ASSUME NEW c \in Captures, Inner(c)  PROVE Deployments'
  BY <1>1 DEF Inner, B!Plan, B!Get, B!JournalWritten, B!Scale, B!Zero, B!Waited, B!PodsGone,
     B!Stopped, B!StopK3s, B!Seal, B!Manifest, B!Snapshot
<1>2. ASSUME NEW c \in Captures, B!RecordLocal(c) \/ Leaves(c) \/ Copies(c)  PROVE Deployments'
  BY <1>2 DEF B!RecordLocal, Leaves, B!LockRefused, B!CaptureFails, Copies, B!Copy, B!OpenRecord,
              B!RecordOffsite, B!RecordRefused, B!ReplicateFails, B!ReplicateEnds
<1>3. ASSUME NEW c \in Captures,
             B!Lock(c) \/ B!SwitchStarts(c) \/ B!SwitchScales(c) \/ B!SwitchEnds(c) \/ B!SwitchFails(c)
      PROVE  Deployments'
  BY <1>3 DEF B!Lock, B!SwitchStarts, B!SwitchScales, B!Zero, B!SwitchEnds, B!SwitchFails
<1>4. ASSUME NEW p \in B!Procs, B!ReportBegins(p) \/ B!ReportEnds(p) \/ B!Kill(p)  PROVE Deployments'
  BY <1>4 DEF B!ReportBegins, B!ReportEnds, B!Kill
<1>5. ASSUME NEW w \in B!Writers, World(w) \/ Kubelet(w)  PROVE Deployments'
  <2>1. CASE World(w)
    BY <2>1 DEF World, B!Resume, B!Replace, B!SessionScales, B!Behind
  <2>2. CASE Kubelet(w)
    BY <2>2 DEF Kubelet, B!Sync, B!PodStarts, B!PodEnds, B!PodLost, B!LeftEnds
  <2> QED BY <1>5, <2>1, <2>2
<1>6. ASSUME B!StartK3s \/ B!SessionLock \/ B!SessionEnds  PROVE Deployments'
  BY <1>6 DEF B!StartK3s, B!SessionLock, B!SessionEnds
<1> QED BY <1>1, <1>2, <1>3, <1>4, <1>5, <1>6 DEF Part

\* Every step keeps the types of the copies; nothing is recorded that has no snapshot.
LEMMA CopiedNext ==
    ASSUME B!TypeOK, Part, Latest,
           \A c \in Captures : pc[B!Capture(c)] = "snapped" => c \in snapshot
    PROVE  Copied'
<1> USE TypeParts DEF Copied, B!stored
<1>1. ASSUME NEW c \in Captures, Inner(c)  PROVE Copied'
  BY <1>1, NowIsNat DEF Inner, B!Plan, B!Get, B!JournalWritten, B!Scale, B!Waited, B!PodsGone,
     B!Stopped,
                        B!StopK3s, B!Seal, B!Manifest, B!Snapshot
<1>2. ASSUME NEW c \in Captures, B!RecordLocal(c) \/ Leaves(c)  PROVE Copied'
  BY <1>2 DEF B!RecordLocal, Leaves, B!LockRefused, B!CaptureFails
<1>3. ASSUME NEW c \in Captures, Copies(c)  PROVE Copied'
  BY <1>3 DEF Copies, B!Copy, B!OpenRecord, B!RecordOffsite, B!RecordRefused, B!ReplicateFails,
     B!ReplicateEnds, B!Committed
<1>4. ASSUME NEW c \in Captures,
             B!Lock(c) \/ B!SwitchStarts(c) \/ B!SwitchScales(c) \/ B!SwitchEnds(c) \/ B!SwitchFails(c)
      PROVE  Copied'
  BY <1>4 DEF B!Lock, B!SwitchStarts, B!SwitchScales, B!SwitchEnds, B!SwitchFails
<1>5. ASSUME NEW p \in B!Procs, B!ReportBegins(p) \/ B!ReportEnds(p) \/ B!Kill(p)  PROVE Copied'
  BY <1>5 DEF B!ReportBegins, B!ReportEnds, B!Kill
<1>6. ASSUME NEW w \in B!Writers, World(w) \/ Kubelet(w)  PROVE Copied'
  BY <1>6 DEF World, Kubelet, B!Resume, B!Replace, B!SessionScales, B!Sync, B!PodStarts,
     B!PodEnds, B!PodLost, B!LeftEnds
<1>7. ASSUME B!StartK3s \/ B!SessionLock \/ B!SessionEnds  PROVE Copied'
  BY <1>7 DEF B!StartK3s, B!SessionLock, B!SessionEnds
<1> QED BY <1>1, <1>2, <1>3, <1>4, <1>5, <1>6, <1>7 DEF Part

\* Every step keeps the types of the metrics file and of those who read it.
LEMMA MetricsNext == ASSUME B!TypeOK, Part  PROVE Metrics'
<1> USE TypeParts DEF Metrics, B!telemetry
<1>1. ASSUME NEW c \in Captures, Inner(c)  PROVE Metrics'
  BY <1>1, Inside
<1>2. ASSUME NEW c \in Captures, B!RecordLocal(c) \/ Leaves(c) \/ Copies(c)  PROVE Metrics'
  BY <1>2 DEF B!RecordLocal, Leaves, B!LockRefused, B!CaptureFails, Copies, B!Copy, B!OpenRecord,
              B!RecordOffsite, B!RecordRefused, B!ReplicateFails, B!ReplicateEnds
<1>3. ASSUME NEW c \in Captures,
             B!Lock(c) \/ B!SwitchStarts(c) \/ B!SwitchScales(c) \/ B!SwitchEnds(c) \/ B!SwitchFails(c)
      PROVE  Metrics'
  BY <1>3 DEF B!Lock, B!SwitchStarts, B!SwitchScales, B!SwitchEnds, B!SwitchFails
<1>0. B!NoReport \in [B!Stages -> [time : Nat, failed : BOOLEAN]]
  BY DEF B!NoReport
<1>4. ASSUME NEW p \in B!Procs, B!ReportBegins(p) \/ B!Kill(p)  PROVE Metrics'
  BY <1>0, <1>4 DEF B!ReportBegins, B!Kill
<1>5. ASSUME NEW p \in B!Procs, B!ReportEnds(p)  PROVE Metrics'
  <2>1. p[2] \in Captures /\ B!Stage(p) \in B!Stages
    BY DEF B!Procs, B!Stage, B!Stages
  <2>2. B!Reading(p) \in [time : Nat, failed : BOOLEAN]
    BY <2>1 DEF B!Reading, B!Newest, Copied
  <2> QED BY <1>0, <1>5, <2>1, <2>2 DEF B!ReportEnds
<1>6. ASSUME NEW w \in B!Writers, World(w) \/ Kubelet(w)  PROVE Metrics'
  BY <1>6 DEF World, Kubelet, B!Resume, B!Replace, B!SessionScales, B!Sync, B!PodStarts,
     B!PodEnds, B!PodLost, B!LeftEnds
<1>7. ASSUME B!StartK3s \/ B!SessionLock \/ B!SessionEnds  PROVE Metrics'
  BY <1>7 DEF B!StartK3s, B!SessionLock, B!SessionEnds
<1> QED BY <1>1, <1>2, <1>3, <1>4, <1>5, <1>6, <1>7 DEF Part

\* Together, every step keeps the types.
LEMMA TypeNext ==
    ASSUME B!Allowed, BInv, Part, UNCHANGED hands \/ (hands < MaxHands /\ hands' = hands + 1)
    PROVE  B!TypeOK'
<1>1. /\ B!TypeOK /\ Latest
      /\ \A c \in Captures : pc[B!Capture(c)] = "snapped" => c \in snapshot
  BY DEF BInv, Reports, Once
<1>2. \A c \in Captures : pc[B!Capture(c)] \in {"opened", "journaled", "scaled"} => turn[c] <= Len(Order)
  BY DEF BInv, WaysBack, Journaled, AsJournaled
<1>3. MaxHands \in Nat /\ hands \in 0..MaxHands /\ hands' \in 0..MaxHands
  BY <1>1 DEF B!Allowed, B!TypeOK
<1>4. Processes' /\ Progress' /\ Deployments' /\ Copied' /\ Metrics'
  BY <1>1, <1>2, ProcessesNext, ProgressNext, DeploymentsNext, CopiedNext, MetricsNext
<1> QED BY <1>3, <1>4 DEF B!TypeOK, Processes, Progress, Deployments, Copied, Metrics

-----------------------------------------------------------------------------
(* Journals *)

\* A capture that moves on without a word in its journal, or ends, stays
\* accounted for as long as nobody starts a game it planned for, or changes the
\* Deployment that it takes for fresh.
LEMMA JournaledStays ==
    ASSUME B!TypeOK, NEW c \in Captures, Journaled(c),
           pc'[B!Capture(c)] \in {pc[B!Capture(c)], "report", "reporting", "done"},
           turn'[c] = turn[c], deployments'[c] = deployments[c], zeroed'[c] = zeroed[c],
           c \in switch' => c \in switch,
           c \in fresh' => /\ c \in fresh /\ pc'[B!Capture(c)] = pc[B!Capture(c)]
                           /\ uid'[B!At(c)] = uid[B!At(c)]
                           /\ asked'[B!At(c)] = 1 => asked[B!At(c)] = 1,
           pc[B!Capture(c)] \in B!Holding \/ c \in switch =>
               \A w \in Gaming : asked'[w] = 1 => asked[w] = 1
    PROVE  Journaled(c)'
<1> USE DEF Journaled, B!Holding, B!Quiescing, B!Copying
<1>1. Covered(c)' /\ Before(c)'
  BY DEF Covered, Before
<1>2. PlannedGames(c)'
  BY DEF PlannedGames
<1>3. Ahead(c)'
  BY DEF Ahead
<1>4. AsJournaled(c)'
  BY DEF AsJournaled, Fits, B!At
<1> QED BY <1>1, <1>2, <1>3, <1>4

\* A step of capture c that leaves the cluster alone leaves the others alone.
LEMMA OthersStay ==
    ASSUME B!Allowed, B!TypeOK, NEW c \in Captures, \A d \in Captures : Journaled(d), Journaled(c)',
           \A d \in Captures \ {c} :
               /\ pc'[B!Capture(d)] = pc[B!Capture(d)] /\ turn'[d] = turn[d]
               /\ deployments'[d] = deployments[d] /\ zeroed'[d] = zeroed[d]
               /\ (d \in switch' => d \in switch) /\ (d \in fresh' => d \in fresh),
           uid' = uid, \A w \in B!Writers : asked'[w] = 1 => asked[w] = 1
    PROVE  WaysBack'
<1>1. ASSUME NEW d \in Captures \ {c}  PROVE Journaled(d)'
  <2>1. d \in fresh => B!At(d) \in B!Writers
    BY <1>1, AtWriter DEF Journaled, AsJournaled
  <2>2. \A w \in Gaming : asked'[w] = 1 => asked[w] = 1
    BY Ordered
  <2> QED BY <1>1, <2>1, <2>2, JournaledStays
<1> QED BY <1>1 DEF WaysBack, Journaled

\* gaming_writers_plan: every game gets its entry, no application has one yet.
LEMMA PlanJournals == ASSUME B!Allowed, BInv, NEW c \in Captures, B!Plan(c)  PROVE Journaled(c)'
<1>1. /\ pc[B!Capture(c)] = "locked" /\ pc'[B!Capture(c)] = "planned"
      /\ deployments'[c] = [w \in B!Writers |-> IF w \in Gaming THEN B!Entry(w) ELSE None]
      /\ turn' = turn /\ zeroed' = zeroed /\ switch' = switch /\ fresh' = fresh /\ asked' = asked
  BY Tags DEF BInv, B!TypeOK, B!Plan, B!Goes, B!cluster, B!history
<1>2. B!TypeOK /\ Journaled(c)
  BY DEF BInv, WaysBack, Journaled
<1>3. turn[c] = 1 /\ zeroed[c] = {} /\ c \notin switch /\ c \notin fresh
  BY <1>1, <1>2 DEF Journaled, Before, AsJournaled
<1>4. \A w \in B!Writers : /\ B!Entry(w) \in [uid : Nat, replicas : {0, 1}]
                           /\ B!Entry(w).replicas = asked[w]
  BY <1>2 DEF B!TypeOK, B!Entry
<1>5. Covered(c)' /\ Before(c)' /\ AsJournaled(c)'
  BY <1>1, <1>3 DEF Covered, Before, AsJournaled
<1>6. PlannedGames(c)'
  BY <1>1, <1>4, Ordered DEF PlannedGames, B!Allowed
<1>7. Ahead(c)'
  BY <1>1, Ordered DEF Ahead
<1> QED BY <1>5, <1>6, <1>7 DEF Journaled

\* scale_zero writes the entry of a Deployment it finds for the first time, and
\* compares one that was planned.
LEMMA GetJournals == ASSUME B!Allowed, BInv, NEW c \in Captures, B!Get(c)  PROVE Journaled(c)'
<1> USE DEF B!Holding, B!Quiescing, B!Copying
<1>1. B!TypeOK /\ Journaled(c) /\ pc[B!Capture(c)] = "get" /\ turn[c] <= Len(Order)
  BY DEF BInv, WaysBack, Journaled, B!Get
<1>2. turn[c] \in DOMAIN Order /\ B!At(c) \in B!Writers /\ turn[c] \in Nat
  BY <1>1, AtWriter DEF B!TypeOK
<1>3. /\ pc'[B!Capture(c)] = "opened"
      /\ deployments'[c] = [deployments[c] EXCEPT ![B!At(c)] = B!FirstEntry(c)]
      /\ turn' = turn /\ zeroed' = zeroed /\ switch' = switch /\ asked' = asked /\ uid' = uid
      /\ B!At(c)' = B!At(c)
  BY <1>1, Tags DEF B!TypeOK, B!Get, B!Goes, B!cluster, B!history, B!At
<1>4. /\ \A w \in B!Writers : deployments'[c][w] = IF w = B!At(c) THEN B!FirstEntry(c) ELSE deployments[c][w]
      /\ deployments[c][B!At(c)] # None => deployments'[c] = deployments[c]
  BY <1>1, <1>2, <1>3 DEF B!TypeOK, B!FirstEntry
<1>5. B!FirstEntry(c) # None /\ B!FirstEntry(c).uid = uid[B!At(c)]
  BY <1>1, <1>2 DEF B!TypeOK, B!FirstEntry, B!Entry, B!Get, B!Planned, B!Allowed
<1>6. asked[B!At(c)] = 1 => B!FirstEntry(c).replicas = 1
  <2>1. CASE B!At(c) \in Gaming
    BY <1>1, <2>1 DEF Journaled, PlannedGames, B!FirstEntry, B!Entry
  <2>2. CASE B!At(c) \notin Gaming
    BY <1>1, <1>2, <2>2 DEF Journaled, Ahead, B!At, B!FirstEntry, B!Entry
  <2> QED BY <2>1, <2>2
<1>7. Covered(c)'
  <2>1. ASSUME NEW z \in zeroed[c]  PROVE z[1] \in B!Writers /\ deployments'[c][z[1]] = deployments[c][z[1]]
    <3>1. z[1] \in B!Writers /\ z[2] \in Nat
      BY <1>1, <2>1 DEF B!TypeOK
    <3>2. [uid |-> z[2], replicas |-> 1] \in [uid : Nat, replicas : {0, 1}]
      BY <3>1
    <3>3. deployments[c][z[1]] # None
      BY <1>1, <2>1, <3>2 DEF Journaled, Covered, B!Allowed
    <3> QED BY <1>4, <3>1, <3>3
  <2> QED BY <1>1, <1>3, <2>1 DEF Journaled, Covered
<1>8. Before(c)' /\ AsJournaled(c)'
  BY <1>1, <1>2, <1>3, <1>4, <1>5, <1>6 DEF Journaled, Before, AsJournaled, Fits
<1>9. PlannedGames(c)'
  BY <1>1, <1>3, <1>4, <1>5, <1>6, Ordered DEF Journaled, PlannedGames
<1>10. Ahead(c)'
  <2>1. ASSUME NEW n \in DOMAIN Order, n > turn[c]
        PROVE  Order[n] \in Gaming \/ deployments'[c][Order[n]] = None
    BY <1>1, <1>2, <1>4, <2>1, Ordered DEF Journaled, Ahead, B!At, B!Allowed
  <2> QED BY <1>3, <2>1 DEF Ahead
<1> QED BY <1>7, <1>8, <1>9, <1>10 DEF Journaled

\* scale_zero takes to zero what is still as it was read, so as the journal has it.
LEMMA ScaleJournals == ASSUME B!Allowed, BInv, NEW c \in Captures, B!Scale(c)  PROVE Journaled(c)'
<1> USE DEF B!Holding, B!Quiescing, B!Copying
<1>1. /\ B!TypeOK /\ Journaled(c) /\ pc[B!Capture(c)] = "journaled" /\ c \in fresh
      /\ pc'[B!Capture(c)] = "scaled" /\ turn' = turn /\ deployments' = deployments /\ switch' = switch
      /\ uid' = uid /\ fresh' = fresh \ {c}
  BY Tags DEF BInv, B!TypeOK, WaysBack, Journaled, B!Scale, B!AsRead, B!Goes
<1>2. /\ B!At(c) \in B!Writers
      /\ zeroed'[c] = IF asked[B!At(c)] = 1 THEN zeroed[c] \union {<<B!At(c), uid[B!At(c)]>>} ELSE zeroed[c]
      /\ \A w \in B!Writers : asked'[w] = 1 => asked[w] = 1
  BY <1>1, AtWriter DEF Journaled, AsJournaled, B!TypeOK, B!Scale, B!Zero
<1>3. asked[B!At(c)] = 1 => deployments[c][B!At(c)] = [uid |-> uid[B!At(c)], replicas |-> 1]
  BY <1>1, <1>2 DEF Journaled, AsJournaled, Fits, B!TypeOK, B!Entries
<1>4. Covered(c)'
  <2>1. ASSUME NEW z \in zeroed'[c]
        PROVE  deployments'[c][z[1]] = [uid |-> z[2], replicas |-> 1]
    <3>1. z \in zeroed[c] \/ (asked[B!At(c)] = 1 /\ z = <<B!At(c), uid[B!At(c)]>>)
      BY <1>2, <2>1
    <3>2. deployments'[c] = deployments[c]
      BY <1>1
    <3>3. CASE z \in zeroed[c]
      BY <1>1, <3>2, <3>3 DEF Journaled, Covered
    <3>4. CASE asked[B!At(c)] = 1 /\ z = <<B!At(c), uid[B!At(c)]>>
      BY <1>3, <3>2, <3>4
    <3> QED BY <3>1, <3>3, <3>4
  <2> QED BY <2>1 DEF Covered
<1>5. Before(c)' /\ AsJournaled(c)' /\ Ahead(c)'
  BY <1>1 DEF Journaled, Before, AsJournaled, Ahead
<1>6. PlannedGames(c)'
  BY <1>1, <1>2, Ordered DEF Journaled, PlannedGames
<1> QED BY <1>4, <1>5, <1>6 DEF Journaled

\* The other steps of a capture change no entry.
LEMMA StepJournals ==
    ASSUME B!Allowed, BInv, NEW c \in Captures,
           \/ B!JournalWritten(c) \/ B!Waited(c) \/ B!PodsGone(c) \/ B!Stopped(c) \/ B!StopK3s(c)
           \/ B!Seal(c) \/ B!Manifest(c) \/ B!Snapshot(c)
    PROVE  Journaled(c)'
<1> USE DEF B!Holding, B!Quiescing, B!Copying
<1>1. /\ B!TypeOK /\ Journaled(c) /\ B!Capture(c) \in B!Procs
      /\ deployments' = deployments /\ zeroed' = zeroed /\ switch' = switch /\ fresh' = fresh
      /\ asked' = asked /\ uid' = uid
  BY Tags DEF BInv, WaysBack, Journaled, B!JournalWritten, B!Waited, B!PodsGone, B!Stopped,
     B!StopK3s,
              B!Seal, B!Manifest, B!Snapshot, B!cluster, B!history
<1>2. CASE B!JournalWritten(c)
  <2>1. pc[B!Capture(c)] = "opened" /\ pc'[B!Capture(c)] = "journaled" /\ turn' = turn
    BY <1>1, <1>2 DEF B!TypeOK, B!JournalWritten, B!Goes
  <2> QED BY <1>1, <2>1 DEF Journaled, Covered, Before, PlannedGames, Ahead, AsJournaled, Fits,
             B!At
<1>3. CASE B!Waited(c)
  <2>1. /\ pc[B!Capture(c)] = "scaled" /\ pc'[B!Capture(c)] = "get"
        /\ turn[c] \in Nat /\ turn'[c] = turn[c] + 1 /\ c \notin fresh
    BY <1>1, <1>3 DEF B!TypeOK, B!Waited, B!Goes, Journaled, AsJournaled
  <2>2. Ahead(c)'
    BY <1>1, <2>1, Ordered DEF Journaled, Ahead
  <2> QED BY <1>1, <2>1, <2>2 DEF Journaled, Covered, Before, PlannedGames, AsJournaled
<1>4. CASE B!PodsGone(c) \/ B!Stopped(c) \/ B!StopK3s(c) \/ B!Seal(c) \/ B!Manifest(c) \/ B!Snapshot(c)
  <2>1. /\ pc[B!Capture(c)] \in {"get", "cri"} \union B!Copying
        /\ pc'[B!Capture(c)] \in {"cri", "snapped"} \union B!Copying
        /\ turn' = turn
    BY <1>1, <1>4 DEF B!TypeOK, B!PodsGone, B!Stopped, B!StopK3s, B!Seal, B!Manifest,
       B!Snapshot, B!Goes
  <2> QED BY <1>1, <2>1 DEF Journaled, Covered, Before, PlannedGames, Ahead, AsJournaled
<1> QED BY <1>2, <1>3, <1>4

\* The session's run scales a game down as long as it is the planned one.
LEMMA SwitchJournals == ASSUME B!Allowed, BInv, NEW c \in Captures, B!SwitchScales(c)  PROVE WaysBack'
<1>1. /\ B!TypeOK /\ c \in switch
      /\ \A d \in Captures : Journaled(d)
      /\ pc' = pc /\ turn' = turn /\ deployments' = deployments /\ switch' = switch /\ uid' = uid
      /\ fresh' \subseteq fresh
  BY DEF BInv, WaysBack, Journaled, B!SwitchScales
<1>2. PICK w \in Gaming : asked[w] = 1 /\ deployments[c][w].uid = uid[w] /\ B!Zero(c, w)
  BY DEF B!SwitchScales
<1>3. /\ w \in B!Writers
      /\ zeroed'[c] = zeroed[c] \union {<<w, uid[w]>>}
      /\ \A d \in Captures \ {c} : zeroed'[d] = zeroed[d]
      /\ \A v \in B!Writers : asked'[v] = 1 => asked[v] = 1
  BY <1>1, <1>2, Ordered DEF B!TypeOK, B!Zero
<1>4. deployments[c][w] = [uid |-> uid[w], replicas |-> 1]
  BY <1>1, <1>2, <1>3 DEF Journaled, PlannedGames, B!TypeOK, B!Entries
<1>5. ASSUME NEW d \in Captures  PROVE Covered(d)'
  <2>1. ASSUME NEW z \in zeroed'[d]
        PROVE  z \in zeroed[d] \/ (d = c /\ z = <<w, uid[w]>>)
    BY <1>3, <2>1
  <2>2. \A z \in zeroed[d] : deployments[d][z[1]] = [uid |-> z[2], replicas |-> 1]
    BY <1>1 DEF Journaled, Covered
  <2>3. ASSUME NEW z \in zeroed'[d]
        PROVE  deployments[d][z[1]] = [uid |-> z[2], replicas |-> 1]
    <3>1. CASE z \in zeroed[d]
      BY <2>2, <3>1
    <3>2. CASE d = c /\ z = <<w, uid[w]>>
      BY <1>4, <3>2
    <3> QED BY <2>1, <2>3, <3>1, <3>2
  <2> QED BY <1>1, <2>3 DEF Covered
<1>6. ASSUME NEW d \in Captures  PROVE Before(d)'
  BY <1>1, <1>3, <1>6 DEF Journaled, Before
<1>7. ASSUME NEW d \in Captures  PROVE PlannedGames(d)' /\ Ahead(d)'
  BY <1>1, <1>3, <1>7, Ordered DEF Journaled, PlannedGames, Ahead
<1>8. ASSUME NEW d \in Captures  PROVE AsJournaled(d)'
  <2>1. pc[B!Capture(d)] \in {"opened", "journaled"} => B!At(d) \in B!Writers
    BY <1>1, AtWriter DEF Journaled, AsJournaled
  <2> QED BY <1>1, <1>3, <2>1 DEF Journaled, AsJournaled, Fits, B!At
<1> QED BY <1>5, <1>6, <1>7, <1>8 DEF WaysBack, Journaled

\* Every step keeps every journal ahead of what was scaled.
LEMMA WaysBackNext == ASSUME B!Allowed, BInv, Part  PROVE WaysBack'
<1> USE DEF B!Holding, B!Quiescing, B!Copying
<1>0. /\ B!TypeOK /\ Locks
      /\ \A c \in Captures : Journaled(c)
  BY DEF BInv, WaysBack, Journaled
<1>1. ASSUME NEW c \in Captures, Inner(c)  PROVE WaysBack'
  <2>1. Journaled(c)'
    BY <1>1, PlanJournals, GetJournals, ScaleJournals, StepJournals DEF Inner
  <2>2. \A d \in Captures \ {c} :
               /\ pc'[B!Capture(d)] = pc[B!Capture(d)] /\ turn'[d] = turn[d]
               /\ deployments'[d] = deployments[d] /\ zeroed'[d] = zeroed[d]
               /\ (d \in switch' => d \in switch) /\ (d \in fresh' => d \in fresh)
    <3> SUFFICES ASSUME NEW d \in Captures \ {c}
                 PROVE  /\ pc'[B!Capture(d)] = pc[B!Capture(d)] /\ turn'[d] = turn[d]
                        /\ deployments'[d] = deployments[d] /\ zeroed'[d] = zeroed[d]
                        /\ (d \in switch' => d \in switch) /\ (d \in fresh' => d \in fresh)
      OBVIOUS
    <3>1. B!Capture(c) # B!Capture(d) /\ B!Capture(d) \in B!Procs
      BY Tags
    <3> QED BY <1>0, <1>1, <3>1 DEF B!TypeOK, Inner, B!Plan, B!Get, B!JournalWritten, B!Scale,
               B!Zero, B!Waited, B!PodsGone,
                      B!Stopped, B!StopK3s, B!Seal, B!Manifest, B!Snapshot, B!Goes, B!history
  <2>3. uid' = uid /\ \A w \in B!Writers : asked'[w] = 1 => asked[w] = 1
    BY <1>0, <1>1 DEF B!TypeOK, Inner, B!Plan, B!Get, B!JournalWritten, B!Scale, B!Zero,
       B!Waited, B!PodsGone,
                      B!Stopped, B!StopK3s, B!Seal, B!Manifest, B!Snapshot, B!cluster
  <2> QED BY <1>0, <2>1, <2>2, <2>3, OthersStay
<1>2. ASSUME NEW c \in Captures, B!RecordLocal(c) \/ Leaves(c)  PROVE WaysBack'
  <2>1. /\ pc[B!Capture(c)] \in {"idle"} \union B!Holding /\ pc' = [pc EXCEPT ![B!Capture(c)] = "report"]
        /\ fresh' \subseteq fresh
        /\ c \notin fresh'
        /\ UNCHANGED <<turn, deployments, zeroed, switch, uid, asked>>
    BY <1>0, <1>2 DEF B!RecordLocal, Leaves, B!LockRefused, B!CaptureFails, B!Fails, B!Goes,
       B!cluster, B!history,
                      Journaled, AsJournaled
  <2>2. ASSUME NEW d \in Captures  PROVE Journaled(d)'
    BY <1>0, <2>1, JournaledStays, Tags DEF B!TypeOK
  <2> QED BY <2>2 DEF WaysBack, Journaled
<1>3. ASSUME NEW c \in Captures, Copies(c)  PROVE WaysBack'
  <2>1. /\ \E to : pc' = [pc EXCEPT ![B!Replicate(c)] = to]
        /\ UNCHANGED <<fresh, turn, deployments, zeroed, switch, uid, asked>>
    BY <1>3 DEF Copies, B!Copy, B!OpenRecord, B!RecordOffsite, B!RecordRefused,
       B!ReplicateFails, B!ReplicateEnds,
                B!Goes, B!cluster, B!history
  <2>2. ASSUME NEW d \in Captures  PROVE Journaled(d)'
    BY <1>0, <2>1, JournaledStays, Tags DEF B!TypeOK
  <2> QED BY <2>2 DEF WaysBack, Journaled
<1>4. ASSUME NEW c \in Captures, B!Lock(c)  PROVE WaysBack'
  <2>1. Journaled(c)'
    BY <1>0, <1>4, Tags DEF B!TypeOK, B!Lock, B!Goes, B!cluster, Journaled, Covered, Before,
       PlannedGames,
                            Ahead, AsJournaled
  <2>2. \A d \in Captures \ {c} : pc'[B!Capture(d)] = pc[B!Capture(d)]
    BY <1>0, <1>4, Tags DEF B!TypeOK, B!Lock, B!Goes
  <2> QED BY <1>0, <1>4, <2>1, <2>2, OthersStay DEF B!Lock, B!cluster
<1>5. ASSUME NEW c \in Captures, B!SwitchStarts(c)  PROVE WaysBack'
  <2>1. Journaled(c)'
    <3>1. /\ pc[B!Capture(c)] = "planned" /\ pc'[B!Capture(c)] = "switching"
          /\ UNCHANGED <<turn, deployments, zeroed, fresh, uid, asked>>
      BY <1>0, <1>5, Tags DEF B!TypeOK, B!SwitchStarts, B!Goes, B!cluster, B!history
    <3>2. Journaled(c)
      BY <1>0
    <3> QED BY <3>1, <3>2 DEF Journaled, Covered, Before, PlannedGames, Ahead, AsJournaled
  <2>2. \A d \in Captures \ {c} : pc'[B!Capture(d)] = pc[B!Capture(d)]
    BY <1>0, <1>5, Tags DEF B!TypeOK, B!SwitchStarts, B!Goes
  <2> QED BY <1>0, <1>5, <2>1, <2>2, OthersStay DEF B!SwitchStarts, B!cluster, B!history
<1>6. ASSUME NEW c \in Captures, B!SwitchEnds(c) \/ B!SwitchFails(c)  PROVE WaysBack'
  <2>1. Journaled(c)'
    <3>1. /\ \/ pc'[B!Capture(c)] = pc[B!Capture(c)]
             \/ pc[B!Capture(c)] = "switching" /\ pc'[B!Capture(c)] \in {"get", "report"}
          /\ switch' = switch \ {c}
          /\ UNCHANGED <<turn, deployments, zeroed, fresh, uid, asked>>
      BY <1>0, <1>6, Tags DEF B!TypeOK, B!SwitchEnds, B!SwitchFails, B!cluster, B!history
    <3>2. Journaled(c)
      BY <1>0
    <3>3. Covered(c)' /\ Before(c)' /\ PlannedGames(c)'
      BY <3>1, <3>2 DEF Journaled, Covered, Before, PlannedGames
    <3>4. Ahead(c)' /\ AsJournaled(c)'
      BY <3>1, <3>2 DEF Journaled, Ahead, AsJournaled, Fits, B!At
    <3> QED BY <3>3, <3>4 DEF Journaled
  <2>2. \A d \in Captures \ {c} : pc'[B!Capture(d)] = pc[B!Capture(d)]
    BY <1>0, <1>6, Tags DEF B!TypeOK, B!SwitchEnds, B!SwitchFails
  <2> QED BY <1>0, <1>6, <2>1, <2>2, OthersStay DEF B!SwitchEnds, B!SwitchFails, B!cluster,
             B!history
<1>7. ASSUME NEW p \in B!Procs, B!ReportBegins(p) \/ B!ReportEnds(p) \/ B!Kill(p)  PROVE WaysBack'
  <2>1. /\ \E to \in {"report", "reporting", "idle", "done"} :
              B!Goes(p, to) /\ (p[1] = "capture" => to # "idle")
        /\ fresh' \subseteq fresh
        /\ UNCHANGED <<turn, deployments, zeroed, switch, uid, asked>>
    BY <1>7 DEF B!ReportBegins, B!ReportEnds, B!Kill, B!Goes, B!cluster, B!history
  <2>2. ASSUME NEW d \in Captures, d \in fresh'  PROVE pc'[B!Capture(d)] = pc[B!Capture(d)]
    <3>1. pc[B!Capture(d)] \in {"opened", "journaled"}
      BY <1>0, <2>1, <2>2 DEF Journaled, AsJournaled
    <3>2. p # B!Capture(d)
      BY <1>0, <1>7, <2>2, <3>1, Tags DEF B!ReportBegins, B!ReportEnds, B!Kill
    <3> QED BY <1>0, <2>1, <3>2, Tags DEF B!TypeOK, B!Goes
  <2>3. ASSUME NEW d \in Captures  PROVE Journaled(d)'
    BY <1>0, <2>1, <2>2, JournaledStays, Tags DEF B!TypeOK, B!Goes
  <2> QED BY <2>3 DEF WaysBack, Journaled
<1>8. ASSUME NEW w \in B!Writers, World(w)  PROVE WaysBack'
  <2>1. UNCHANGED <<pc, turn, deployments, zeroed, switch>> /\ fresh' \subseteq fresh
    BY <1>8 DEF World, B!Resume, B!Replace, B!SessionScales, B!Touched, B!history
  <2>2. ASSUME NEW d \in Captures, d \in fresh'  PROVE B!At(d) # w /\ B!At(d) \in B!Writers
    BY <1>0, <1>8, <2>2, AtWriter DEF World, B!Resume, B!Replace, B!SessionScales, B!Touched,
       Journaled, AsJournaled
  <2>3. \A v \in B!Writers \ {w} : asked'[v] = asked[v] /\ uid'[v] = uid[v]
    BY <1>0, <1>8 DEF B!TypeOK, World, B!Resume, B!Replace, B!SessionScales
  <2>4. ASSUME NEW d \in Captures, pc[B!Capture(d)] \in B!Holding \/ d \in switch
        PROVE  \A v \in Gaming : asked'[v] = 1 => asked[v] = 1
    <3>1. ~B!SessionScales(w)
      BY <1>0, <2>4, Tags DEF Locks, B!SessionScales, SessionToken
    <3>2. asked' = asked \/ (w \notin Gaming /\ asked' = [asked EXCEPT ![w] = 1])
      BY <1>8, <3>1 DEF World, B!Resume, B!Replace
    <3> QED BY <1>0, <3>2, Ordered DEF B!TypeOK
  <2>5. ASSUME NEW d \in Captures  PROVE Journaled(d)'
    BY <1>0, <2>1, <2>2, <2>3, <2>4, JournaledStays
  <2> QED BY <2>5 DEF WaysBack, Journaled
<1>9. ASSUME NEW w \in B!Writers, Kubelet(w)  PROVE WaysBack'
  BY <1>0, <1>9 DEF Kubelet, B!Sync, B!PodStarts, B!PodEnds, B!PodLost, B!LeftEnds, B!running,
     B!history,
     WaysBack, Journaled, Covered, Before, PlannedGames, Ahead, AsJournaled, Fits, B!At
<1>10. ASSUME B!StartK3s \/ B!SessionLock \/ B!SessionEnds  PROVE WaysBack'
  BY <1>0, <1>10 DEF B!StartK3s, B!SessionLock, B!SessionEnds, B!running, B!cluster, B!history,
     WaysBack, Journaled, Covered, Before, PlannedGames, Ahead, AsJournaled, Fits, B!At
<1> QED BY <1>1, <1>2, <1>3, <1>4, <1>5, <1>6, <1>7, <1>8, <1>9, <1>10, SwitchJournals DEF Part

-----------------------------------------------------------------------------
(* Quiet *)

\* What a capture has stopped it stopped while it held the lock.
LEMMA PastHolds ==
    ASSUME NEW c \in Captures, NEW w, B!Past(c, w)
    PROVE  pc[B!Capture(c)] \in B!Holding
  BY DEF B!Past, B!Holding, B!Quiescing, B!Copying

\* A step that starts nothing keeps what is stopped quiet.
LEMMA QuietStays ==
    ASSUME Quiet,
           \A c \in Captures, w \in B!Writers : B!Past(c, w)' => B!Past(c, w) \/ asked'[w] = 0,
           \A w \in B!Writers : (asked[w] = 0 => asked'[w] = 0) /\ (box'[w] # "none" => box[w] # "none"),
           late \subseteq late',
           \A c \in Captures : pc'[B!Capture(c)] \in B!Copying => pc[B!Capture(c)] \in B!Copying
    PROVE  Quiet'
<1>1. ASSUME NEW c \in Captures, NEW w \in B!Writers, B!Past(c, w)'
      PROVE  asked'[w] = 0 \/ w \in late'
  BY <1>1 DEF Quiet
<1>2. B!CopiesQuiet'
  BY DEF Quiet, B!CopiesQuiet
<1> QED BY <1>1, <1>2 DEF Quiet

\* A capture that ends, or whose way the step does not touch, stopped what it had.
LEMMA PastStays ==
    ASSUME NEW c \in Captures, turn'[c] = turn[c],
           pc'[B!Capture(c)] \in {pc[B!Capture(c)], "report", "reporting", "done", "planned", "switching"}
    PROVE  /\ \A w : B!Past(c, w)' => B!Past(c, w)
           /\ pc'[B!Capture(c)] \in B!Copying => pc[B!Capture(c)] \in B!Copying
  BY DEF B!Past, B!At, B!Copying

\* A capture on its way: what it scaled is at zero before it goes on, and it copies only
\* after no container was left.
LEMMA InnerQuiet == ASSUME B!Allowed, BInv, NEW c \in Captures, Inner(c)  PROVE Quiet'
<1>0. B!TypeOK /\ Quiet /\ B!Capture(c) \in B!Procs /\ turn[c] \in Nat
  BY Tags DEF BInv, B!TypeOK
<1>1. /\ \A d \in Captures \ {c} : pc'[B!Capture(d)] = pc[B!Capture(d)] /\ turn'[d] = turn[d]
      /\ UNCHANGED <<late, box>>
      /\ \A w \in B!Writers : asked[w] = 0 => asked'[w] = 0
  BY <1>0, Tags DEF B!TypeOK, Inner, B!Plan, B!Get, B!JournalWritten, B!Scale, B!Zero, B!Waited,
     B!PodsGone,
         B!Stopped, B!StopK3s, B!Seal, B!Manifest, B!Snapshot, B!Goes, B!cluster, B!history
<1>2. ASSUME NEW d \in Captures \ {c}
      PROVE  /\ \A w : B!Past(d, w)' => B!Past(d, w)
             /\ pc'[B!Capture(d)] \in B!Copying => pc[B!Capture(d)] \in B!Copying
  BY <1>1, PastStays
<1>3. CASE B!Stopped(c)
  <2>1. /\ pc[B!Capture(c)] = "cri" /\ pc'[B!Capture(c)] = "copy" /\ asked' = asked
        /\ \A w \in B!Writers : box[w] = "none"
    BY <1>0, <1>3 DEF B!TypeOK, B!Stopped, B!NoContainer, B!Goes, B!cluster
  <2>2. \A w \in B!Writers : B!Past(c, w)
    BY <2>1 DEF B!Past
  <2>3. ASSUME NEW d \in Captures, NEW w \in B!Writers, B!Past(d, w)'
        PROVE  asked'[w] = 0 \/ w \in late'
    BY <1>0, <1>1, <1>2, <2>1, <2>2, <2>3 DEF Quiet
  <2>4. B!CopiesQuiet'
    BY <1>1, <2>1 DEF B!CopiesQuiet
  <2> QED BY <2>3, <2>4 DEF Quiet
<1>4. CASE ~B!Stopped(c)
  <2>1. /\ \A w \in B!Writers : B!Past(c, w)' => B!Past(c, w) \/ asked'[w] = 0
        /\ pc'[B!Capture(c)] \in B!Copying => pc[B!Capture(c)] \in B!Copying
    <3>1. CASE B!Plan(c) \/ B!Snapshot(c)
      BY <1>0, <3>1 DEF B!TypeOK, B!Plan, B!Snapshot, B!Goes, B!Past, B!Copying
    <3>2. CASE B!Get(c) \/ B!JournalWritten(c)
      BY <1>0, <3>2 DEF B!TypeOK, B!Get, B!JournalWritten, B!Goes, B!Past, B!Copying
    <3>3. CASE B!Scale(c)
      BY <1>0, <3>3 DEF B!TypeOK, B!Scale, B!Zero, B!Goes, B!Past, B!Copying, B!At
    <3>4. CASE B!Waited(c)
      <4>1. pc[B!Capture(c)] = "scaled" /\ pc'[B!Capture(c)] = "get" /\ turn'[c] = turn[c] + 1
        BY <1>0, <3>4 DEF B!TypeOK, B!Waited, B!Goes
      <4> QED BY <1>0, <4>1 DEF B!Past, B!Copying, B!At
    <3>5. CASE B!PodsGone(c)
      <4>1. pc[B!Capture(c)] = "get" /\ pc'[B!Capture(c)] = "cri" /\ turn[c] > Len(Order)
        BY <1>0, <3>5 DEF B!TypeOK, B!PodsGone, B!Goes
      <4>2. ASSUME NEW w \in B!Writers  PROVE B!Past(c, w)
        BY <1>0, <4>1, Ordered DEF B!Past
      <4> QED BY <4>1, <4>2 DEF B!Copying
    <3>6. CASE B!StopK3s(c) \/ B!Seal(c) \/ B!Manifest(c)
      BY <1>0, <3>6 DEF B!TypeOK, B!StopK3s, B!Seal, B!Manifest, B!Goes, B!Past, B!Copying
    <3> QED BY <1>4, <3>1, <3>2, <3>3, <3>4, <3>5, <3>6 DEF Inner
  <2> QED BY <1>0, <1>1, <1>2, <2>1, QuietStays
<1> QED BY <1>3, <1>4

\* Every step keeps what was stopped quiet, or on record as started behind the capture.
LEMMA QuietNext == ASSUME B!Allowed, BInv, Part  PROVE Quiet'
<1> USE DEF B!Goes
<1>0. /\ B!TypeOK /\ Quiet /\ Locks
      /\ \A c \in Captures : pc[B!Capture(c)] = "switching" => turn[c] = 1
  BY DEF BInv, WaysBack, Journaled, Before
<1>1. ASSUME NEW c \in Captures,
             \/ B!RecordLocal(c) \/ Leaves(c) \/ Copies(c)
             \/ B!SwitchStarts(c) \/ B!SwitchFails(c)
      PROVE  Quiet'
  <2>1. UNCHANGED <<turn, asked, box, late>>
    BY <1>1 DEF B!RecordLocal, Leaves, B!LockRefused, B!CaptureFails, B!Fails, Copies, B!Copy,
       B!OpenRecord, B!RecordOffsite,
                B!RecordRefused, B!ReplicateFails, B!ReplicateEnds, B!SwitchStarts, B!SwitchFails,
                B!cluster, B!history
  <2>2. \A d \in Captures : pc'[B!Capture(d)] \in {pc[B!Capture(d)], "report", "switching"}
    BY <1>0, <1>1, Tags DEF B!TypeOK, B!RecordLocal, Leaves, B!LockRefused, B!CaptureFails,
       B!Fails, Copies, B!Copy,
          B!OpenRecord, B!RecordOffsite, B!RecordRefused, B!ReplicateFails, B!ReplicateEnds,
          B!SwitchStarts, B!SwitchFails
  <2> QED BY <1>0, <2>1, <2>2, PastStays, QuietStays
<1>2. ASSUME NEW c \in Captures, B!Lock(c)  PROVE Quiet'
  <2>1. \A d \in Captures : pc[B!Capture(d)] \notin B!Holding
    BY <1>0, <1>2 DEF Locks, B!Lock
  <2>2. \A d \in Captures : pc'[B!Capture(d)] \in {pc[B!Capture(d)], "locked"}
    BY <1>0, <1>2, Tags DEF B!TypeOK, B!Lock
  <2> QED BY <2>1, <2>2 DEF Quiet, B!CopiesQuiet, B!Past, B!Holding, B!Quiescing, B!Copying
<1>3. ASSUME NEW c \in Captures, B!SwitchScales(c) \/ B!SwitchEnds(c)  PROVE Quiet'
  <2>1. /\ UNCHANGED <<turn, box, late>>
        /\ \A w \in B!Writers : asked[w] = 0 => asked'[w] = 0
        /\ \A d \in Captures : \/ pc'[B!Capture(d)] = pc[B!Capture(d)]
                               \/ pc[B!Capture(d)] = "switching" /\ pc'[B!Capture(d)] = "get"
    BY <1>0, <1>3, Tags DEF B!TypeOK, B!SwitchScales, B!Zero, B!SwitchEnds, B!cluster, B!history
  <2>2. ASSUME NEW d \in Captures
        PROVE  /\ \A w : B!Past(d, w)' => B!Past(d, w)
               /\ pc'[B!Capture(d)] \in B!Copying => pc[B!Capture(d)] \in B!Copying
    BY <1>0, <2>1, PastStays DEF B!Past, B!Copying
  <2> QED BY <1>0, <2>1, <2>2, QuietStays
<1>4. ASSUME NEW p \in B!Procs, B!ReportBegins(p) \/ B!ReportEnds(p) \/ B!Kill(p)  PROVE Quiet'
  <2>1. UNCHANGED <<turn, asked, box, late>>
    BY <1>4 DEF B!ReportBegins, B!ReportEnds, B!Kill, B!cluster, B!history
  <2>2. \A d \in Captures : pc'[B!Capture(d)] \in {pc[B!Capture(d)], "report", "reporting", "done"}
    BY <1>0, <1>4, Tags DEF B!TypeOK, B!ReportBegins, B!ReportEnds, B!Kill
  <2> QED BY <1>0, <2>1, <2>2, PastStays, QuietStays
<1>5. ASSUME NEW w \in B!Writers, World(w)  PROVE Quiet'
  <2>1. UNCHANGED <<pc, turn, box>> /\ late \subseteq late'
    BY <1>5 DEF World, B!Resume, B!Replace, B!SessionScales, B!Behind, B!history
  <2>2. ASSUME NEW c \in Captures, NEW v \in B!Writers, B!Past(c, v)
        PROVE  asked'[v] = 0 \/ v \in late'
    <3>1. ~B!SessionScales(w)
      BY <1>0, <2>2, PastHolds, Tags DEF Locks, B!SessionScales, SessionToken
    <3>2. CASE B!Resume(w)
      BY <1>0, <2>2, <3>2 DEF B!TypeOK, Quiet, B!Resume, B!Behind
    <3>3. CASE B!Replace(w)
      BY <1>0, <2>2, <3>3 DEF Quiet, B!Replace, B!history
    <3> QED BY <1>5, <3>1, <3>2, <3>3 DEF World
  <2> QED BY <1>0, <2>1, <2>2 DEF Quiet, B!CopiesQuiet, B!Past, B!At
<1>6. ASSUME NEW w \in B!Writers, B!PodStarts(w)  PROVE Quiet'
  <2>1. /\ UNCHANGED <<pc, turn, asked>>
        /\ box' = [box EXCEPT ![w] = "pod"]
        /\ late' = IF asked[w] = 0 THEN late \union {w} ELSE late
    BY <1>6 DEF B!PodStarts, B!running
  <2>2. ASSUME NEW c \in Captures, pc[B!Capture(c)] \in B!Copying  PROVE w \in late'
    BY <1>0, <2>1, <2>2 DEF Quiet, B!Past
  <2> QED BY <1>0, <2>1, <2>2 DEF B!TypeOK, Quiet, B!CopiesQuiet, B!Past, B!At
<1>7. ASSUME NEW w \in B!Writers, Kubelet(w), ~B!PodStarts(w)  PROVE Quiet'
  <2>1. /\ UNCHANGED <<pc, turn, asked, late>>
        /\ \A v \in B!Writers : box'[v] # "none" => box[v] # "none"
    BY <1>0, <1>7 DEF B!TypeOK, Kubelet, B!Sync, B!PodEnds, B!PodLost, B!LeftEnds, B!running,
       B!history
  <2> QED BY <1>0, <2>1, PastStays, QuietStays
<1>8. ASSUME B!StartK3s \/ B!SessionLock \/ B!SessionEnds  PROVE Quiet'
  BY <1>0, <1>8, PastStays, QuietStays DEF B!StartK3s, B!SessionLock, B!SessionEnds, B!running,
     B!cluster, B!history
<1> QED BY <1>1, <1>2, <1>3, <1>4, <1>5, <1>6, <1>7, <1>8, InnerQuiet DEF Part

-----------------------------------------------------------------------------
(* Reports *)

\* A step that moves processes about and reports nothing.
LEMMA ReportsStay ==
    ASSUME B!TypeOK, Reports,
           UNCHANGED <<created, recorded, metric, mlock, reported>>,
           \A c \in Captures :
               pc'[B!Capture(c)] \in {"idle"} \union B!Holding =>
                   pc[B!Capture(c)] \in {"idle"} \union B!Holding,
           \A c \in Captures : pc'[B!Capture(c)] = "snapped" => c \in snapshot',
           \A c \in Captures : pc'[B!Replicate(c)] \in {"copied", "temporary"} => c \in recorded,
           \A p \in B!Procs : out'[p] = "ok" => out[p] = "ok" \/ p[2] \in recorded,
           \A p \in B!Procs : pc'[p] = "reporting" => pc[p] = "reporting" /\ read'[p] = read[p]
    PROVE  Reports'
<1>1. Once'
  BY DEF Reports, Once
<1>2. Latest' /\ Exact'
  BY DEF Reports, Latest, Exact
<1>3. OneReport'
  BY DEF Reports, OneReport
<1> QED BY <1>1, <1>2, <1>3 DEF Reports

\* The manifest of a capture dates it later than every one before it, and it was
\* reported by nobody.
LEMMA ManifestReports == ASSUME BInv, NEW c \in Captures, B!Manifest(c)  PROVE Reports'
<1>1. /\ B!TypeOK /\ Once /\ Latest /\ Exact /\ OneReport /\ B!Capture(c) \in B!Procs
      /\ pc[B!Capture(c)] = "sealing" /\ pc' = [pc EXCEPT ![B!Capture(c)] = "sealed"]
      /\ created' = [created EXCEPT ![c] = B!Now]
      /\ UNCHANGED <<out, snapshot, recorded, metric, mlock, read, reported>>
  BY Tags DEF BInv, Reports, B!Manifest, B!Goes, B!telemetry
<1>2. /\ created'[c] = B!Now
      /\ \A d \in Captures \ {c} : created'[d] = created[d]
  BY <1>1 DEF B!TypeOK
<1>3. \A d \in Captures : created[d] \in Nat /\ created[d] < B!Now /\ B!Now \in Nat
  BY <1>1, NowIsNat DEF B!TypeOK
<1>4. Once'
  BY <1>1, Tags DEF B!TypeOK, Once, B!Holding, B!Copying
<1>5. Latest'
  <2>1. \A d \in Captures : created'[d] <= created'[c]
    BY <1>2, <1>3
  <2> QED BY <2>1 DEF Latest
<1>6. Exact'
  <2>1. \A s \in B!Stages : c \notin reported[s] /\ reported[s] \subseteq Captures
    BY <1>1 DEF B!TypeOK, Once, B!Holding, B!Copying
  <2> QED BY <1>1, <1>2, <2>1 DEF Exact
<1>7. OneReport'
  BY <1>1 DEF B!TypeOK, OneReport
<1> QED BY <1>4, <1>5, <1>6, <1>7 DEF Reports

\* A report replaces what it read under the lock, which is what is there.
LEMMA EndReports == ASSUME BInv, NEW p \in B!Procs, B!ReportEnds(p)  PROVE Reports'
<1>1. /\ B!TypeOK /\ Once /\ Latest /\ Exact /\ OneReport
      /\ pc[p] = "reporting" /\ mlock = {p} /\ read[p] = metric
      /\ p[2] \in Captures /\ B!Stage(p) \in B!Stages
  BY DEF BInv, Reports, OneReport, B!ReportEnds, B!Procs, B!Stage, B!Stages
<1>2. /\ metric' = [metric EXCEPT ![B!Stage(p)] = B!Reading(p)]
      /\ reported' = [reported EXCEPT ![B!Stage(p)] = IF out[p] = "ok" THEN @ \union {p[2]} ELSE @]
      /\ mlock' = mlock \ {p}
      /\ out' = [out EXCEPT ![p] = "failed"]
      /\ \E to \in {"done", "idle"} : B!Goes(p, to) /\ (p[1] = "capture" => to = "done")
      /\ UNCHANGED <<created, recorded, snapshot>>
  BY <1>1 DEF B!ReportEnds, B!stored
<1>3. Once'
  <2>1. \A c \in Captures : /\ pc'[B!Capture(c)] \in {pc[B!Capture(c)], "done"}
                              /\ pc'[B!Replicate(c)] \in {pc[B!Replicate(c)], "done", "idle"}
    BY <1>1, <1>2, Tags DEF B!TypeOK, B!Goes
  <2>2. \A q \in B!Procs : out'[q] = "ok" => out[q] = "ok"
    BY <1>1, <1>2 DEF B!TypeOK
  <2>3. \A s \in B!Stages : reported'[s] \subseteq recorded
    BY <1>1, <1>2 DEF B!TypeOK, Once
  <2> QED BY <1>1, <1>2, <2>1, <2>2, <2>3 DEF Once, B!Holding, B!Quiescing, B!Copying
<1>4. Latest'
  BY <1>1, <1>2 DEF Latest
<1>5. Exact'
  <2>1. ASSUME NEW s \in B!Stages, s # B!Stage(p)
        PROVE  metric'[s] = metric[s] /\ reported'[s] = reported[s]
    BY <1>1, <1>2, <2>1 DEF B!TypeOK
  <2>2. /\ metric'[B!Stage(p)] = B!Reading(p)
        /\ reported'[B!Stage(p)] =
              IF out[p] = "ok" THEN reported[B!Stage(p)] \union {p[2]} ELSE reported[B!Stage(p)]
    BY <1>1, <1>2 DEF B!TypeOK
  <2>3. /\ metric[B!Stage(p)].time \in Nat
        /\ \A c \in Captures : created[c] \in Nat
        /\ reported[B!Stage(p)] \subseteq Captures
    BY <1>1 DEF B!TypeOK
  <2>4. CASE out[p] = "ok"
    <3>1. metric'[B!Stage(p)].time = B!Newest(metric[B!Stage(p)].time, created[p[2]])
      BY <1>1, <2>2, <2>4 DEF B!Reading
    <3>2. /\ \/ metric'[B!Stage(p)].time = 0
             \/ \E c \in reported'[B!Stage(p)] : metric'[B!Stage(p)].time = created[c]
          /\ \A c \in reported'[B!Stage(p)] : created[c] <= metric'[B!Stage(p)].time
      BY <1>1, <2>2, <2>3, <2>4, <3>1 DEF Exact, B!Newest
    <3> QED BY <1>1, <1>2, <2>1, <3>2 DEF Exact
  <2>5. CASE out[p] # "ok"
    <3>1. metric'[B!Stage(p)].time = metric[B!Stage(p)].time /\ reported'[B!Stage(p)] = reported[B!Stage(p)]
      BY <1>1, <2>2, <2>5 DEF B!Reading
    <3> QED BY <1>1, <1>2, <2>1, <3>1 DEF Exact
  <2> QED BY <2>4, <2>5
<1>6. OneReport'
  <2>1. pc'[p] \in {"done", "idle"} /\ \A q \in B!Procs \ {p} : pc'[q] = pc[q]
    BY <1>1, <1>2 DEF B!TypeOK, B!Goes
  <2>2. \A q \in B!Procs \ {p} : pc[q] # "reporting"
    BY <1>1 DEF OneReport
  <2> QED BY <2>1, <2>2 DEF OneReport
<1> QED BY <1>3, <1>4, <1>5, <1>6 DEF Reports

\* Every step keeps the metrics file in line with what was recorded.
LEMMA ReportsNext == ASSUME BInv, Part  PROVE Reports'
<1> USE DEF B!Goes, B!Holding, B!Quiescing, B!Copying
<1>0. /\ B!TypeOK /\ Reports /\ Once /\ OneReport
      /\ recorded \subseteq snapshot
  BY DEF BInv, Reports, B!TypeOK
<1>1. ASSUME NEW c \in Captures, Inner(c)  PROVE Reports'
  <2>1. CASE B!Manifest(c)
    BY <2>1, ManifestReports
  <2>2. CASE ~B!Manifest(c)
    <3>1. /\ UNCHANGED <<created, recorded, metric, mlock, reported, out, read>>
          /\ snapshot \subseteq snapshot'
      BY <1>1, <2>2 DEF Inner, B!Plan, B!Get, B!JournalWritten, B!Scale, B!Waited, B!PodsGone,
         B!Stopped,
                        B!StopK3s, B!Seal, B!Snapshot, B!telemetry, B!stored
    <3>2. pc'[B!Capture(c)] = "snapped" => c \in snapshot'
      BY <1>0, <1>1, <2>2, Tags DEF B!TypeOK, Inner, B!Plan, B!Get, B!JournalWritten, B!Scale,
         B!Waited, B!PodsGone, B!Stopped,
                        B!StopK3s, B!Seal, B!Snapshot
    <3>3. PICK to \in B!Holding : pc' = [pc EXCEPT ![B!Capture(c)] = to]
      BY <1>1, Inside
    <3>4. /\ pc[B!Capture(c)] \in B!Holding /\ pc'[B!Capture(c)] \in B!Holding
          /\ \A p \in B!Procs \ {B!Capture(c)} : pc'[p] = pc[p]
      <4>1. pc[B!Capture(c)] \in B!Holding /\ B!Capture(c) \in B!Procs
        BY <1>1, Inside, Tags
      <4> QED BY <1>0, <3>3, <4>1 DEF B!TypeOK
    <3>5. \A d \in Captures : pc'[B!Capture(d)] = "snapped" => d \in snapshot'
      BY <1>0, <3>1, <3>2, <3>4, Tags DEF Once
    <3>6. \A d \in Captures : pc'[B!Replicate(d)] \in {"copied", "temporary"} => d \in recorded
      BY <1>0, <3>4, Tags DEF Once
    <3> QED BY <1>0, <3>1, <3>4, <3>5, <3>6, Tags, ReportsStay
  <2> QED BY <2>1, <2>2
<1>2. ASSUME NEW c \in Captures, B!RecordLocal(c)  PROVE Reports'
  <2>1. /\ recorded' = recorded \union {c}
        /\ out' = [out EXCEPT ![B!Capture(c)] = "ok"]
        /\ pc' = [pc EXCEPT ![B!Capture(c)] = "report"]
        /\ UNCHANGED <<created, snapshot, metric, mlock, read, reported>>
    BY <1>2 DEF B!RecordLocal, B!telemetry
  <2>2. Once'
    BY <1>0, <2>1, Tags DEF B!TypeOK, Once
  <2>3. Latest' /\ Exact'
    BY <1>0, <2>1 DEF Reports, Latest, Exact
  <2>4. OneReport'
    BY <1>0, <2>1, Tags DEF B!TypeOK, OneReport
  <2> QED BY <2>2, <2>3, <2>4 DEF Reports
<1>3. ASSUME NEW c \in Captures,
             \/ Leaves(c) \/ B!Lock(c) \/ B!SwitchStarts(c)
             \/ B!SwitchScales(c) \/ B!SwitchEnds(c) \/ B!SwitchFails(c)
      PROVE  Reports'
  <2>1. UNCHANGED <<created, recorded, snapshot, metric, mlock, reported, read>>
    BY <1>3 DEF Leaves, B!LockRefused, B!CaptureFails, B!Lock, B!SwitchStarts, B!SwitchScales,
       B!SwitchEnds, B!SwitchFails, B!telemetry, B!stored
  <2>2. /\ \A d \in Captures : \/ pc'[B!Capture(d)] = pc[B!Capture(d)]
                               \/ pc[B!Capture(d)] \in {"idle"} \union B!Holding
        /\ \A d \in Captures : pc'[B!Capture(d)] = "snapped" => pc[B!Capture(d)] = "snapped"
        /\ \A p \in B!Procs : pc'[p] = "reporting" => pc[p] = "reporting"
        /\ \A d \in Captures : pc'[B!Replicate(d)] = pc[B!Replicate(d)]
        /\ \A p \in B!Procs : out'[p] = "ok" => out[p] = "ok"
    BY <1>0, <1>3, Tags DEF B!TypeOK, Leaves, B!LockRefused, B!CaptureFails, B!Fails, B!Lock,
       B!SwitchStarts, B!SwitchScales, B!SwitchEnds, B!SwitchFails
  <2> QED BY <1>0, <2>1, <2>2, ReportsStay DEF Once
<1>4. ASSUME NEW c \in Captures, Copies(c)  PROVE Reports'
  <2>1. UNCHANGED <<created, recorded, snapshot, metric, mlock, reported, read>>
    BY <1>4 DEF Copies, B!Copy, B!OpenRecord, B!RecordOffsite, B!RecordRefused,
       B!ReplicateFails, B!ReplicateEnds, B!telemetry, B!stored
  <2>2. /\ \A d \in Captures : pc'[B!Capture(d)] = pc[B!Capture(d)]
        /\ \A p \in B!Procs : pc'[p] = "reporting" => pc[p] = "reporting"
    BY <1>0, <1>4, Tags DEF B!TypeOK, Copies, B!Copy, B!OpenRecord, B!RecordOffsite,
       B!RecordRefused, B!ReplicateFails, B!ReplicateEnds
  <2>3. /\ \A p \in B!Procs : out'[p] = "ok" => out[p] = "ok" \/ p[2] \in recorded
        /\ \A d \in Captures : pc'[B!Replicate(d)] \in {"copied", "temporary"} => d \in recorded
    <3>0. B!Replicate(c) \in B!Procs /\ B!Replicate(c)[2] = c
      BY Tags
    <3>1. \A p \in B!Procs \ {B!Replicate(c)} : pc'[p] = pc[p] /\ out'[p] = out[p]
      BY <1>0, <1>4, <3>0 DEF B!TypeOK, Copies, B!Copy, B!OpenRecord, B!RecordOffsite,
         B!RecordRefused,
                              B!ReplicateFails, B!ReplicateEnds
    <3>2. /\ out'[B!Replicate(c)] = "ok" => out[B!Replicate(c)] = "ok" \/ c \in recorded
          /\ pc'[B!Replicate(c)] \in {"copied", "temporary"} => c \in recorded
      BY <1>0, <1>4, <3>0 DEF Once, B!Committed, B!TypeOK, Copies, B!Copy, B!OpenRecord,
         B!RecordOffsite,
                              B!RecordRefused, B!ReplicateFails, B!ReplicateEnds
    <3> QED BY <1>0, <3>0, <3>1, <3>2, Tags DEF Once
  <2> QED BY <1>0, <2>1, <2>2, <2>3, ReportsStay DEF Once
<1>5. ASSUME NEW p \in B!Procs, B!ReportBegins(p)  PROVE Reports'
  <2>1. /\ mlock = {} /\ mlock' = {p} /\ read' = [read EXCEPT ![p] = metric]
        /\ pc[p] = "report" /\ pc' = [pc EXCEPT ![p] = "reporting"]
        /\ UNCHANGED <<out, created, recorded, snapshot, metric, reported>>
    BY <1>5 DEF B!ReportBegins, B!LockFree, B!stored
  <2>2. Once'
    BY <1>0, <2>1, Tags DEF B!TypeOK, Once
  <2>3. Latest' /\ Exact'
    BY <1>0, <2>1 DEF Reports, Latest, Exact
  <2>4. OneReport'
    BY <1>0, <2>1 DEF B!TypeOK, OneReport
  <2> QED BY <2>2, <2>3, <2>4 DEF Reports
<1>6. ASSUME NEW p \in B!Procs, B!Kill(p)  PROVE Reports'
  <2>1. /\ mlock' = mlock \ {p} /\ read' = [read EXCEPT ![p] = B!NoReport]
        /\ pc' = [pc EXCEPT ![p] = "report"] /\ out' = [out EXCEPT ![p] = "failed"]
        /\ UNCHANGED <<created, recorded, snapshot, metric, reported>>
    BY <1>6 DEF B!Kill, B!stored
  <2>2. Once'
    BY <1>0, <2>1, Tags DEF B!TypeOK, Once
  <2>3. Latest' /\ Exact'
    BY <1>0, <2>1 DEF Reports, Latest, Exact
  <2>4. OneReport'
    BY <1>0, <2>1 DEF B!TypeOK, OneReport
  <2> QED BY <2>2, <2>3, <2>4 DEF Reports
<1>7. ASSUME NEW w \in B!Writers, World(w) \/ Kubelet(w)  PROVE Reports'
  BY <1>0, <1>7, ReportsStay DEF World, Kubelet, B!Resume, B!Replace, B!SessionScales, B!Sync,
     B!PodStarts,
     B!PodEnds, B!PodLost, B!LeftEnds, B!running, B!stored, B!telemetry, Once
<1>8. ASSUME B!StartK3s \/ B!SessionLock \/ B!SessionEnds  PROVE Reports'
  BY <1>0, <1>8, ReportsStay DEF B!StartK3s, B!SessionLock, B!SessionEnds, B!running, B!stored,
     B!telemetry, Once
<1> QED BY <1>1, <1>2, <1>3, <1>4, <1>5, <1>6, <1>7, <1>8, EndReports DEF Part

-----------------------------------------------------------------------------
(* The theorems *)

\* At the start there may be one earlier capture, which was recorded and reported.
LEMMA BInvInit == ASSUME B!Allowed  PROVE B!Init => BInv
<1> SUFFICES ASSUME B!Init  PROVE BInv
  OBVIOUS
<1>1. /\ \A p \in B!Procs : pc[p] \in {"idle", "done"} /\ out[p] = "failed" /\ read[p] = B!NoReport
      /\ pc \in [B!Procs -> {"idle", "done"}]
      /\ \A c \in Captures : /\ c \in Earlier <=> pc[B!Capture(c)] = "done"
                            /\ created[c] = IF c \in Earlier THEN 1 ELSE 0
      /\ created \in [Captures -> Nat]
      /\ Earlier \in SUBSET Captures /\ Captures # {} /\ MaxHands \in Nat
  <2>1. \A c \in Captures : B!Capture(c) \in {B!Capture(d) : d \in Earlier} <=> c \in Earlier
    BY Tags DEF B!Allowed
  <2> QED BY <2>1, Tags DEF B!Init, B!Allowed
<1>2. Latest
  BY <1>1 DEF Latest
<1>3. PICK m \in Captures : /\ \A c \in Captures : created[c] <= created[m]
                            /\ created[m] = 0 \/ m \in Earlier
  BY <1>1
<1>4. B!Max({created[c] : c \in Captures}) = created[m]
  <2> DEFINE S == {created[c] : c \in Captures}
  <2>1. S \in SUBSET Int /\ created[m] \in S /\ \A x \in S : x <= created[m]
    BY <1>1, <1>3
  <2>2. B!Max(S) = created[m]
    <3> HIDE DEF S
    <3> QED BY <2>1, MaxIs
  <2> QED BY <2>2
<1>5. /\ metric = [B!NoReport EXCEPT !["local"].time = created[m]]
      /\ reported = [s \in B!Stages |-> IF s = "local" THEN Earlier ELSE {}]
      /\ metric["local"].time = created[m] /\ metric["offsite"].time = 0
      /\ metric \in [B!Stages -> [time : Nat, failed : BOOLEAN]]
      /\ read \in [B!Procs -> [B!Stages -> [time : Nat, failed : BOOLEAN]]]
  BY <1>1, <1>4 DEF B!Init, B!NoReport, B!Stages
<1>6. B!TypeOK
  <2>1. Processes /\ Deployments
    BY <1>1 DEF B!Init, Processes, Deployments
  <2>2. Progress
    BY <1>1, Ordered DEF B!Init, Progress, B!Entries
  <2>3. Copied
    BY <1>1 DEF B!Init, Copied
  <2>4. Metrics
    BY <1>1, <1>5 DEF B!Init, Metrics
  <2> QED BY <1>1, <2>1, <2>2, <2>3, <2>4, TypeParts DEF B!Init
<1>7. Locks
  BY <1>1, Tags DEF B!Init, Locks, B!Holding, B!Quiescing, B!Copying
<1>8. WaysBack
  BY <1>1, Tags DEF B!Init, WaysBack, Journaled, Covered, Before, PlannedGames, Ahead, AsJournaled,
     B!Holding, B!Quiescing, B!Copying
<1>9. Quiet
  BY <1>1, Tags DEF Quiet, B!CopiesQuiet, B!Past, B!Copying
<1>10. Reports
  <2>1. Once
    BY <1>1, <1>5, Tags DEF B!Init, Once, B!Stages, B!Procs, B!Holding, B!Quiescing, B!Copying
  <2>2. Exact
    BY <1>1, <1>3, <1>5 DEF Exact, B!Stages
  <2>3. OneReport
    BY <1>1 DEF OneReport
  <2> QED BY <1>2, <2>1, <2>2, <2>3 DEF Reports
<1> QED BY <1>6, <1>7, <1>8, <1>9, <1>10 DEF BInv

\* Every step of captures, switches, replications, reports, owners, cluster and faults
\* keeps the invariant.
LEMMA BInvNext == ASSUME B!Allowed  PROVE BInv /\ [B!Next]_B!vars => BInv'
<1> SUFFICES ASSUME BInv, [B!Next]_B!vars  PROVE BInv'
  OBVIOUS
<1>1. CASE UNCHANGED B!vars
  <2> USE <1>1 DEF B!vars, B!running, B!cluster, B!stored, B!telemetry, B!history
  <2>1. B!TypeOK'
    BY DEF BInv, B!TypeOK
  <2>2. Locks' /\ Quiet'
    BY DEF BInv, Locks, Quiet, B!CopiesQuiet, B!Past, B!At
  <2>3. WaysBack'
    BY DEF BInv, WaysBack, Journaled, Covered, Before, PlannedGames, Ahead, AsJournaled, Fits, B!At
  <2>4. Reports'
    BY DEF BInv, Reports, Once, Latest, Exact, OneReport
  <2> QED BY <2>1, <2>2, <2>3, <2>4 DEF BInv
<1>2. CASE Part /\ (UNCHANGED hands \/ (hands < MaxHands /\ hands' = hands + 1))
  BY <1>2, TypeNext, LocksNext, WaysBackNext, QuietNext, ReportsNext DEF BInv
<1> QED BY <1>1, <1>2, Steps

\* What every step of a capture may rely on, for any number of captures, writers and
\* faults (service_backup.py): the lock is with those who work under it, a journal is
\* ahead of every scale it has to undo, what was stopped stays stopped, and a report is
\* of what was recorded.
THEOREM CaptureInvariant == B!Spec => []BInv
<1>1. B!Init => BInv
  BY BInvInit, CapturesAssumption
<1>2. BInv /\ [B!Next]_B!vars => BInv'
  BY BInvNext, CapturesAssumption
<1> QED BY <1>1, <1>2, PTL DEF B!Spec

\* From the first archive to the manifest no container of a writer runs that the
\* capture could have stopped, whatever fails, dies or is lost, for any number of
\* captures, writers and faults (capture, scale_zero, stopped).
THEOREM Undisturbed == B!Spec => []CopiesQuiet
<1>1. BInv => CopiesQuiet
  BY DEF BInv, Quiet, CopiesQuiet
<1> QED BY <1>1, CaptureInvariant, PTL

\* What a capture or its switch took to zero replicas is in its journal, with the
\* identity and the replica it had (scale_zero, gaming_writers_plan).
THEOREM WayBack == B!Spec => []JournalCovers
<1>1. BInv => JournalCovers
  BY DEF BInv, WaysBack, Journaled, Covered, JournalCovers, B!JournalCovers
<1> QED BY <1>1, CaptureInvariant, PTL

\* Reports that overlap, fail or are killed neither lose one another nor take the
\* freshness of a stage back (record_result and its lock).
THEOREM FreshnessKept == B!Spec => []FreshnessExact
<1>1. ASSUME BInv  PROVE FreshnessExact
  <2> SUFFICES ASSUME NEW s \in B!Stages
               PROVE  metric[s].time = B!Max({0} \union {created[c] : c \in reported[s]})
    BY DEF FreshnessExact, B!FreshnessExact
  <2>1. B!TypeOK /\ Exact
    BY <1>1 DEF BInv, Reports
  <2> DEFINE S == {0} \union {created[c] : c \in reported[s]}
  <2>2. /\ metric[s].time \in Nat
        /\ reported[s] \subseteq Captures
        /\ \A c \in Captures : created[c] \in Nat
    BY <2>1 DEF B!TypeOK
  <2>3. S \in SUBSET Int /\ metric[s].time \in S /\ \A x \in S : x <= metric[s].time
    BY <2>1, <2>2 DEF Exact
  <2>4. B!Max(S) = metric[s].time
    <3> HIDE DEF S
    <3> QED BY <2>3, MaxIs
  <2> QED BY <2>4
<1> QED BY <1>1, CaptureInvariant, PTL
=============================================================================
