----------------------------- MODULE Decisions -----------------------------
(* The tools with which an owner turns measurements into changes of the deployment:
   selection of a profile (Profiles), plans for a deployment (Plans), the inference
   caches (Cache) and sealed bundles (Bundle). They work on files of their own: a
   behaviour is one of a single tool.                                         *)
EXTENDS Profiles

CONSTANTS
    First, Memories, Threads, Uses, Cpus, TP, Spare, Each, MaxPlans, MaxEdits,  \* Plans'
    Order, Elsewhere, Files, Capacity, Reserve, MaxTouches,                     \* Cache's
    Runs, Outputs, NoRun, MaxWritten                                            \* Bundle's

VARIABLES
    part,      \* whose behaviour this is
    live, planned, used, pinned, rendered, seen, plans, patched, edits,
    links, registry, entries, rows, inodes, inventory, prune, still, touched,
    spec, data, extra, manifest, sealing, seals, output, summary, written, whole

P == INSTANCE Plans WITH Reserve <- Spare, pod <- planned, last <- patched
C == INSTANCE Cache WITH MaxChanges <- MaxTouches, plan <- prune, changes <- touched
S == INSTANCE Bundle WITH
        MaxEdits <- MaxWritten, run <- seals, edits <- written, still <- whole

ASSUME DecisionsAssumption == P!Allowed /\ C!Allowed /\ S!Allowed

pvars == <<live, planned, used, pinned, rendered, seen, plans, patched, edits>>
cvars == <<links, registry, entries, rows, inodes, inventory, prune, still, touched>>
svars == <<spec, data, extra, manifest, sealing, seals, output, summary, written, whole>>

Parts == {"profiles", "plans", "cache", "bundle"}

\* What the others would keep is left out of the state.
NoPlans ==
    /\ live = {} /\ planned = {} /\ used = {} /\ pinned = {} /\ rendered = {}
    /\ seen = {} /\ plans = {} /\ patched = {} /\ edits = {}
NoCache ==
    /\ links = {} /\ registry = {} /\ entries = {} /\ rows = {} /\ inodes = {}
    /\ inventory = {} /\ prune = {} /\ still = {} /\ touched = {}
NoBundle ==
    /\ spec = {} /\ data = {} /\ extra = {} /\ manifest = {} /\ sealing = {}
    /\ seals = {} /\ output = {} /\ summary = {} /\ written = {} /\ whole = {}

InitOne ==
    /\ part \in Parts
    /\ Init
    /\ IF part = "plans" THEN P!Init ELSE NoPlans
    /\ IF part = "cache" THEN C!Init ELSE NoCache
    /\ IF part = "bundle" THEN S!Init ELSE NoBundle

NextProfiles == part = "profiles" /\ Next /\ UNCHANGED <<part, pvars, cvars, svars>>
NextPlans == part = "plans" /\ P!Next /\ UNCHANGED <<part, vars, cvars, svars>>
NextCache == part = "cache" /\ C!Next /\ UNCHANGED <<part, vars, pvars, svars>>
NextBundle == part = "bundle" /\ S!Next /\ UNCHANGED <<part, vars, pvars, cvars>>

NextOne ==
    NextProfiles \/ NextPlans \/ NextCache \/ NextBundle

SpecOne == InitOne /\ [][NextOne]_<<part, vars, pvars, cvars, svars>>

\* The properties of the other tools, stated in their modules.
AppliedFits == part = "plans" => P!AppliedFits
NothingErased == [][part = "plans" => ~P!Erases]_pvars
PlanHolds == part = "cache" => C!PlanHolds
ExportWhole == part = "bundle" => S!ExportWhole
=============================================================================
