------------------------------- MODULE Bundle -------------------------------
(* lib/workstation/performance_bundle.py: an owner's evidence is sealed with a
   manifest, and an analysis of a sealed bundle runs into a new directory, from
   where it is exported. The evidence may be edited between any two reads, runs
   may be killed, and two runs may be given one output. What is analysed is left
   out: an analysis reads the evidence and leaves its result, or is refused after
   it has written some of it.                                                 *)
EXTENDS Integers, FiniteSets

CONSTANTS
    Runs,          \* run commands
    Outputs,       \* directories they may be given
    NoRun,
    MaxEdits       \* bound on edits of the evidence

\* What the constants must satisfy: no run is "no run".
Allowed == NoRun \notin Runs /\ MaxEdits \in Nat

Versions == 0..MaxEdits
Names == {"result", "failure", "summary"}
Statuses == {"failed", "analysed"}

VARIABLES
    spec, data,    \* versions of spec.json and of the files it names
    extra,         \* something else is in the tree
    manifest,      \* manifest.json, or {}
    sealing,       \* what seal has hashed and not yet written, or {}
    run,           \* the runs: where, what digest they are for, what they read
    output,        \* a directory: the run that made it, its files
    summary,       \* summary.json of a directory, or {}
    edits,
    still          \* history: runs since whose first read nothing was edited

evidence == <<spec, data, extra>>
sealed == <<manifest, sealing>>
exported == <<output, summary>>
vars == <<evidence, sealed, run, exported, edits, still>>

Digests == [spec : Versions, data : Versions]
Idle == [pc |-> "idle", digest |-> [spec |-> 0, data |-> 0], out |-> NoRun, spec |-> 0,
         read |-> 0, status |-> "analysed"]

TypeOK ==
    /\ {spec, data} \subseteq Versions /\ extra \in BOOLEAN
    /\ manifest \subseteq Digests /\ sealing \subseteq Digests
    /\ Cardinality(manifest) <= 1 /\ Cardinality(sealing) <= 1
    /\ \A r \in Runs : run[r].digest \in Digests /\ run[r].out \in Outputs \union {NoRun}
    /\ output \in [Outputs -> [by : Runs \union {NoRun}, files : SUBSET Names]]
    /\ \A o \in Outputs : Cardinality(summary[o]) <= 1
    /\ edits \in 0..MaxEdits /\ still \subseteq Runs

Init ==
    /\ spec = 0 /\ data = 0 /\ extra = FALSE
    /\ manifest = {} /\ sealing = {}
    /\ run = [r \in Runs |-> Idle]
    /\ output = [o \in Outputs |-> [by |-> NoRun, files |-> {}]]
    /\ summary = [o \in Outputs |-> {}]
    /\ edits = 0 /\ still = {}

-----------------------------------------------------------------------------
(* The owner edits the evidence and seals it *)

Edits ==
    /\ edits < MaxEdits
    /\ edits' = edits + 1
    /\ \/ spec' = edits + 1 /\ UNCHANGED <<data, extra>>
       \/ data' = edits + 1 /\ UNCHANGED <<spec, extra>>
       \/ extra' = ~extra /\ UNCHANGED <<spec, data>>
    /\ still' = {}
    /\ UNCHANGED <<sealed, run, exported>>

\* The specification is valid and the tree is private and within its bounds.
Hashes ==
    /\ manifest = {} /\ sealing = {}
    /\ ~extra
    /\ sealing' = {[spec |-> spec, data |-> data]}
    /\ UNCHANGED <<evidence, manifest, run, exported, edits, still>>

Seals ==
    /\ sealing # {}
    /\ manifest' = sealing /\ sealing' = {}
    /\ UNCHANGED <<evidence, run, exported, edits, still>>

-----------------------------------------------------------------------------
(* inspect: the manifest, the exact tree, then the specification again *)

At(r, pc) == run[r].pc = pc
Put(r, s) == run' = [run EXCEPT ![r] = s]
Goes(r, pc) == run' = [run EXCEPT ![r].pc = pc]
Stops(r) == Put(r, [Idle EXCEPT !.pc = "done"])

\* The caller names the digest it was given, and a directory.
Named(r) ==
    /\ At(r, "idle")
    /\ \E m \in manifest, o \in Outputs : Put(r, [Idle EXCEPT !.pc = "tree", !.digest = m, !.out = o])
    /\ still' = still \union {r}
    /\ UNCHANGED <<evidence, sealed, exported, edits>>

SameTree(r) == ~extra /\ run[r].digest = [spec |-> spec, data |-> data]

Inspected(r) ==
    /\ At(r, "tree")
    /\ IF SameTree(r) THEN Goes(r, "spec") ELSE Stops(r)
    /\ UNCHANGED <<evidence, sealed, exported, edits, still>>

\* spec_schema and the comparison of target and revision: the specification is
\* read again, and may be refused.
SpecRead(r) ==
    /\ At(r, "spec")
    /\ \/ run' = [run EXCEPT ![r].pc = "mkdir", ![r].spec = spec]
       \/ Stops(r)
    /\ UNCHANGED <<evidence, sealed, exported, edits, still>>

-----------------------------------------------------------------------------
(* run *)

\* The output must not exist.
NoSummary(o) == summary[o] = {}
New(o) == output[o].by = NoRun

MakesOutput(r) ==
    /\ At(r, "mkdir")
    /\ LET o == run[r].out IN
        IF New(o)
        THEN Goes(r, "analyse") /\ output' = [output EXCEPT ![o] = [by |-> r, files |-> {}]]
        ELSE Stops(r) /\ UNCHANGED output
    /\ UNCHANGED <<evidence, sealed, summary, edits, still>>

Adds(r, f) == output' = [output EXCEPT ![run[r].out].files = @ \union f]

\* run_kind reads what the specification names and leaves its result.
Analyses(r) ==
    /\ At(r, "analyse")
    /\ Adds(r, {"result"})
    /\ run' = [run EXCEPT ![r].pc = "finish", ![r].read = data]
    /\ UNCHANGED <<evidence, sealed, summary, edits, still>>

\* It is refused, or its own status is failed, with some of its files written;
AnalysisFails(r) ==
    /\ At(r, "analyse")
    /\ \E f \in SUBSET {"result"} : Adds(r, f)
    /\ run' = [run EXCEPT ![r].pc = "clean", ![r].status = "failed", ![r].read = data]
    /\ UNCHANGED <<evidence, sealed, summary, edits, still>>

\* failure_only_output takes them away and leaves a report.
Kept(files) == files
Cleared(files) == {}

FailureOnly(r) ==
    /\ At(r, "clean")
    /\ \/ /\ output[run[r].out].files # Cleared(output[run[r].out].files)
          /\ output' = [output EXCEPT ![run[r].out].files = Cleared(@)]
          /\ UNCHANGED run
       \/ /\ output[run[r].out].files = Cleared(output[run[r].out].files)
          /\ Adds(r, {"failure"}) /\ Goes(r, "finish")
    /\ UNCHANGED <<evidence, sealed, summary, edits, still>>

\* make_private_output, output_artifacts and the summary, which nothing replaces.
Summarises(r) ==
    /\ At(r, "finish")
    /\ LET o == run[r].out IN
        IF "summary" \in output[o].files THEN UNCHANGED exported
        ELSE /\ summary' = [summary EXCEPT ![o] = {[status |-> run[r].status, by |-> r,
                               digest |-> run[r].digest, spec |-> run[r].spec, read |-> run[r].read,
                               artifacts |-> output[o].files]}]
             /\ Adds(r, {"summary"})
    /\ Goes(r, "done")
    /\ UNCHANGED <<evidence, sealed, edits, still>>

\* A run is killed, or one of the checks of its own output ends it.
Killed(r) ==
    /\ run[r].pc \notin {"idle", "done"}
    /\ Goes(r, "done")
    /\ UNCHANGED <<evidence, sealed, exported, edits, still>>

Next ==
    \/ Edits \/ Hashes \/ Seals
    \/ \E r \in Runs : Named(r) \/ Inspected(r) \/ SpecRead(r) \/ MakesOutput(r) \/ Analyses(r)
                       \/ AnalysisFails(r) \/ FailureOnly(r) \/ Summarises(r) \/ Killed(r)

Spec == Init /\ [][Next]_vars

-----------------------------------------------------------------------------
(* Properties *)

\* What is exported is one run's: a directory with a summary (performance_bundle.run)
\* holds what that run listed and nothing else; a failed one its report alone, none
\* of a partial candidate (the comment in failure_only_output); any other one the
\* result of the evidence that was sealed, if nobody edited it during the run.
ExportWhole == \A o \in Outputs : \A s \in summary[o] :
    /\ output[o].by = s.by
    /\ output[o].files = s.artifacts \union {"summary"}
    /\ s.artifacts = IF s.status = "failed" THEN {"failure"} ELSE {"result"}
    /\ s.by \in still => s.digest = [spec |-> s.spec, data |-> s.read]

=============================================================================
