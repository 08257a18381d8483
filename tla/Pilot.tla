------------------------------- MODULE Pilot -------------------------------
(* The GraphRAG pilot (lib/workstation/graphrag_pilot.py): a command that lets
   a worker process make a limited number of model requests, one at a time. The
   controller holds the pilot's lock, serves the worker through a proxy with a
   thread for each call, and keeps a journal, state.json, which is all that is
   left when the controller is killed. A model request may go on at the model
   server when its caller no longer waits. Threads exclude each other by a guard, so
   an action is what one of them does while it holds the guard. The worker
   (graphrag_worker.py and the GraphRAG library) and the model server are the
   environment.                                                             *)
EXTENDS Naturals, FiniteSets

CONSTANTS
    Calls,        \* calls of the proxy; a name is used again when it is over
    NoCall,
    MaxRequests,  \* profile["max_requests"]
    Escapes,      \* an answer may raise what the proxy's handler does not catch
    MaxFailed,    \* bound on calls made after failures
    MaxFaults     \* bound on kills and failing writes

ASSUME PilotAssumption ==
    /\ NoCall \notin Calls
    /\ MaxRequests \in Nat
    /\ MaxFailed \in Nat
    /\ MaxFaults \in Nat
    /\ Escapes \in BOOLEAN

VARIABLES
    journal,   \* state.json
    pending,   \* state.json.pending exists: a write was cut off
    main,      \* the main thread of the controller; idle: there is no controller
    task,      \* args.action
    mem,       \* LocalModel.state, which the threads share
    before,    \* failures_before
    status,    \* of the run: what its receipt will say
    thread,    \* the thread of each call
    worker,    \* the worker process
    waits,     \* the call the worker waits for
    running,   \* the model requests under way at the server
    faults,
    sent,      \* history: model requests ever sent
    told       \* history: how the worker of the index was told of a failed call

disk == <<journal, pending>>
run == <<main, task, before, status>>
child == <<worker, waits>>
history == <<sent, told>>
vars == <<disk, run, mem, thread, child, running, faults, history>>

Journals == [requests : Nat, failed : Nat, uncertain : BOOLEAN, inflight : BOOLEAN,
             index : {"not-run", "running", "complete", "failed"}]

TypeOK ==
    /\ journal \in Journals
    /\ mem \in Journals
    /\ pending \in BOOLEAN
    /\ main \in {"idle", "announce", "spawn", "running", "check", "kill", "close", "leave"}
    /\ task \in {"index", "query"}
    /\ before \in Nat
    /\ status \in {"failed", "complete"}
    /\ thread \in [Calls -> {"none", "asked", "sent", "failing"}]
    /\ worker \in {"none", "busy", "exit0", "exit1"}
    /\ waits \in Calls \union {NoCall}
    /\ running \in SUBSET Calls
    /\ faults \in 0..MaxFaults
    /\ sent \in Nat
    /\ told \in {"nothing", "counted", "uncounted"}

Fresh == [requests |-> 0, failed |-> 0, uncertain |-> FALSE, inflight |-> FALSE,
          index |-> "not-run"]

\* A prepared pilot.
Init ==
    /\ journal = Fresh
    /\ mem = Fresh
    /\ pending = FALSE
    /\ main = "idle"
    /\ task = "index"
    /\ before = 0
    /\ status = "failed"
    /\ thread = [c \in Calls |-> "none"]
    /\ worker = "none"
    /\ waits = NoCall
    /\ running = {}
    /\ faults = 0
    /\ sent = 0
    /\ told = "nothing"

-----------------------------------------------------------------------------
(* write_json: a new file beside the journal, then a rename                 *)

Saved(m) ==
    /\ ~pending
    /\ journal' = m
    /\ UNCHANGED <<pending, faults>>

\* A leftover of an earlier write is never overwritten. Otherwise the file may
\* not open, not fill (and stay), or be in place when the directory cannot be synced.
SaveFails(m) ==
    \/ /\ pending
       /\ UNCHANGED <<disk, faults>>
    \/ /\ ~pending
       /\ faults < MaxFaults
       /\ faults' = faults + 1
       /\ \/ UNCHANGED journal /\ pending' \in BOOLEAN
          \/ journal' = m /\ UNCHANGED pending

\* The steps in which a controller that dies may leave its write cut off.
Saving ==
    \/ main \in {"announce", "close"}
    \/ \E c \in Calls : thread[c] # "none"

-----------------------------------------------------------------------------
(* run: the main thread                                                     *)

\* verify, under the lock.
Usable(j) ==
    /\ ~j.uncertain
    /\ ~j.inflight
    /\ j.index # "running"
    /\ j.requests <= MaxRequests

Begin(a) ==
    /\ main = "idle"
    /\ Usable(journal)
    /\ journal.index = IF a = "index" THEN "not-run" ELSE "complete"
    /\ mem' = journal
    /\ task' = a
    /\ before' = journal.failed
    /\ status' = "failed"
    /\ main' = IF a = "index" THEN "announce" ELSE "spawn"
    /\ UNCHANGED <<disk, thread, child, running, faults, history>>

\* An index is recorded before it is started.
Announce ==
    /\ main = "announce"
    /\ mem' = [mem EXCEPT !.index = "running"]
    /\ \/ Saved(mem') /\ main' = "spawn"
       \/ SaveFails(mem') /\ main' = "close"
    /\ UNCHANGED <<task, before, status, thread, child, running, history>>

Spawn ==
    /\ main = "spawn"
    /\ \/ main' = "running" /\ worker' = "busy"
       \/ main' = "close" /\ UNCHANGED worker
    /\ UNCHANGED <<disk, task, before, status, mem, thread, waits, running, faults, history>>

\* The time or artifact bound, or an interrupt from the terminal.
Stops ==
    /\ main = "running"
    /\ worker = "busy"
    /\ main' = "kill"
    /\ UNCHANGED <<disk, task, before, status, mem, thread, child, running, faults, history>>

SeesExit ==
    /\ main = "running"
    /\ worker \in {"exit0", "exit1"}
    /\ main' = IF worker = "exit0" THEN "check" ELSE "close"
    /\ UNCHANGED <<disk, task, before, status, mem, thread, child, running, faults, history>>

\* The proxy's own record decides, not the worker's word.
OnlyCertain == ~mem.uncertain
Clean == mem.failed = before /\ ~mem.uncertain

Accept ==
    /\ main = "check"
    /\ Clean
    /\ status' = "complete"
    /\ main' = "close"
    /\ UNCHANGED <<disk, task, before, mem, thread, child, running, faults, history>>

\* Failed or uncertain calls; also a result that is missing or too large.
Reject ==
    /\ main = "check"
    /\ main' = "close"
    /\ UNCHANGED <<disk, task, before, status, mem, thread, child, running, faults, history>>

KillWorker ==
    /\ main = "kill"
    /\ main' = "close"
    /\ worker' = "none"
    /\ waits' = NoCall
    /\ UNCHANGED <<disk, task, before, status, mem, thread, running, faults, history>>

\* index_status after a run.
Verdict ==
    CASE task = "query" -> mem.index
      [] task = "index" /\ status = "complete" -> "complete"
      [] OTHER -> "failed"

\* The finally block; an index whose verdict cannot be written stays running.
Close ==
    /\ main = "close"
    /\ mem' = [mem EXCEPT !.uncertain = @ \/ mem.inflight, !.index = Verdict]
    /\ Saved(mem') \/ SaveFails(mem')
    /\ main' = "leave"
    /\ worker' = "none"
    /\ waits' = NoCall
    /\ UNCHANGED <<task, before, status, thread, running, history>>

\* The process is gone, with its lock and its threads, one perhaps in a write.
Gone ==
    /\ main' = "idle"
    /\ thread' = [c \in Calls |-> "none"]
    /\ worker' = "none"
    /\ waits' = NoCall
    /\ pending' \in IF Saving THEN {pending, TRUE} ELSE {pending}
    /\ UNCHANGED <<journal, task, before, status, mem, running, history>>

Leave ==
    /\ main = "leave"
    /\ Gone
    /\ UNCHANGED faults

Kill ==
    /\ main # "idle"
    /\ faults < MaxFaults
    /\ faults' = faults + 1
    /\ Gone

-----------------------------------------------------------------------------
(* completion and do_POST: the thread of a call                             *)

\* The reply to a worker that still waits for it.
Answered(c) ==
    /\ waits' = IF waits = c THEN NoCall ELSE waits
    /\ UNCHANGED <<worker, told>>

\* After an error it goes on, as GraphRAG may, or ends with an error of its own.
Told(c, how) ==
    IF waits = c
      THEN /\ waits' = NoCall
           /\ worker' \in {worker, "exit1"}
           /\ told' = IF task = "index" /\ told # "counted" THEN how ELSE told
      ELSE UNCHANGED <<child, told>>

\* Counted in memory only.
SendUnsaved(c) ==
    /\ thread[c] = "asked"
    /\ ~mem.uncertain /\ ~mem.inflight /\ mem.requests < MaxRequests
    /\ mem' = [mem EXCEPT !.requests = @ + 1, !.inflight = TRUE]
    /\ thread' = [thread EXCEPT ![c] = "sent"]
    /\ running' = running \union {c}
    /\ sent' = sent + 1
    /\ UNCHANGED <<disk, run, child, faults, told>>

\* A request is counted, and known to be under way, before it is sent.
Send(c) ==
    /\ thread[c] = "asked"
    /\ ~mem.uncertain
    /\ ~mem.inflight
    /\ mem.requests < MaxRequests
    /\ mem' = [mem EXCEPT !.requests = @ + 1, !.inflight = TRUE]
    /\ \/ /\ Saved(mem')
          /\ thread' = [thread EXCEPT ![c] = "sent"]
          /\ running' = running \union {c}
          /\ sent' = sent + 1
       \/ /\ SaveFails(mem')
          /\ thread' = [thread EXCEPT ![c] = "failing"]
          /\ UNCHANGED <<running, sent>>
    /\ UNCHANGED <<run, child, told>>

\* The journal forbids it, or the payload is not what the pilot may send.
Refuse(c) ==
    /\ thread[c] = "asked"
    /\ thread' = [thread EXCEPT ![c] = "failing"]
    /\ UNCHANGED <<disk, run, mem, child, running, faults, history>>

\* A lost answer taken for the end of its request.
SettledAnyway(lost) == [mem EXCEPT !.inflight = FALSE]

\* What the finally block of completion leaves in memory.
Settled(lost) == [mem EXCEPT !.inflight = FALSE, !.uncertain = @ \/ lost]

Succeed(c) ==
    /\ thread[c] = "sent"
    /\ c \notin running
    /\ mem' = Settled(FALSE)
    /\ Saved(mem')
    /\ thread' = [thread EXCEPT ![c] = "none"]
    /\ Answered(c)
    /\ UNCHANGED <<run, running, sent>>

\* An error status or an unusable answer tells that the request is over; a lost
\* connection, a time limit or a failing server (lost) tell nothing.
Fails(c, lost) ==
    /\ thread[c] = "sent"
    /\ lost \/ c \notin running
    /\ mem' = Settled(lost)
    /\ Saved(mem') \/ SaveFails(mem')
    /\ thread' = [thread EXCEPT ![c] = "failing"]
    /\ UNCHANGED <<run, child, running, history>>

\* An answer that is valid JSON but no object raises AttributeError, which
\* do_POST does not catch: the thread ends and no failure is counted.
Escape(c) ==
    /\ Escapes
    /\ thread[c] = "sent"
    /\ c \notin running
    /\ mem' = Settled(FALSE)
    /\ Saved(mem')
    /\ thread' = [thread EXCEPT ![c] = "none"]
    /\ Told(c, "uncounted")
    /\ UNCHANGED <<run, running, sent>>

CountFailure(c) ==
    /\ thread[c] = "failing"
    /\ mem' = [mem EXCEPT !.failed = @ + 1]
    /\ Saved(mem') \/ SaveFails(mem')
    /\ thread' = [thread EXCEPT ![c] = "none"]
    /\ Told(c, "counted")
    /\ UNCHANGED <<run, running, sent>>

Serve(c) ==
    \/ Send(c) \/ Refuse(c) \/ Succeed(c) \/ Escape(c) \/ CountFailure(c)
    \/ \E lost \in BOOLEAN : Fails(c, lost)

-----------------------------------------------------------------------------
(* The worker and the model server                                          *)

\* One call after the other: concurrent_requests is 1.
Ask(c) ==
    /\ worker = "busy"
    /\ waits = NoCall
    /\ thread[c] = "none"
    /\ c \notin running
    /\ mem.failed < MaxFailed
    /\ thread' = [thread EXCEPT ![c] = "asked"]
    /\ waits' = c
    /\ UNCHANGED <<disk, run, mem, worker, running, faults, history>>

\* The worker's own time limit; its call goes on in the proxy.
GiveUp ==
    /\ worker = "busy"
    /\ waits # NoCall
    /\ waits' = NoCall
    /\ worker' \in {"busy", "exit1"}
    /\ UNCHANGED <<disk, run, mem, thread, running, faults, history>>

WorkerExits ==
    /\ worker = "busy"
    /\ waits = NoCall
    /\ worker' \in {"exit0", "exit1"}
    /\ UNCHANGED <<disk, run, mem, thread, waits, running, faults, history>>

Finish(c) ==
    /\ c \in running
    /\ running' = running \ {c}
    /\ UNCHANGED <<disk, run, mem, thread, child, faults, history>>

-----------------------------------------------------------------------------
Main ==
    \/ Announce \/ Spawn \/ Stops \/ SeesExit \/ Accept \/ Reject
    \/ KillWorker \/ Close \/ Leave

Next ==
    \/ \E a \in {"index", "query"} : Begin(a)
    \/ Main
    \/ Kill
    \/ \E c \in Calls : Serve(c) \/ Ask(c) \/ Finish(c)
    \/ GiveUp
    \/ WorkerExits

Spec == Init /\ [][Next]_vars

-----------------------------------------------------------------------------
(* Properties                                                               *)

\* docs/GRAPHRAG.md: "Model calls: one at a time". This holds through lost
\* answers, kills and failing writes, because a journal that may hide a request
\* still under way refuses every later command.
OneAtATime == \A c, d \in running : c = d

\* docs/GRAPHRAG.md: "128 cumulative calls per prepared pilot": no crash and no
\* failing write gives budget back.
CallsCounted ==
    /\ sent <= journal.requests
    /\ journal.requests <= MaxRequests

\* docs/GRAPHRAG.md: "GraphRAG can catch model failures internally; the
\* controller also rejects a run if its proxy recorded failed calls." A worker
\* that was told of a recorded failure and went on has not built an index.
FailureRejects == journal.index = "complete" => told # "counted"

\* "model calls failed or remain uncertain; worker output is not accepted"
\* (graphrag_pilot.py), of every failure the worker was told of.
AcceptedWhole == journal.index = "complete" => told = "nothing"
=============================================================================
