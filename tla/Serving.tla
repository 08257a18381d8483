------------------------------ MODULE Serving ------------------------------
(* The measurement of a deployment (Measure), and the lower memory limit that is
   planned from such measurements (Resize). They share nothing but what an owner
   copies from one to the other: a behaviour is one of either, and the other part
   keeps its initial state.                                                   *)
EXTENDS Naturals

CONSTANTS
    Owners, Workloads, Deployments, Reference, MaxProcs, MaxChanges,    \* Measure's
    Pods, Levels, Old, Shm, Margin, Round, Allocatable, Others,         \* Resize's
    PerPhase, MostObserved, LongEnough, MaxSamples, MaxFaults

VARIABLES
    subject,   \* whose behaviour this is
    pod, inside, changes, run, disk, served, watch, started, reports,
    pods, file, high, plan, faults

M == INSTANCE Measure WITH Baseline <- Reference
R == INSTANCE Resize

ASSUME ServingAssumption == M!Allowed /\ R!Allowed

measurement == <<pod, inside, changes, run, disk, served, watch, started, reports>>
resize == <<pods, file, high, plan, faults>>

InitServing == subject \in {"measure", "resize"} /\ M!Init /\ R!Init

NextMeasure == subject = "measure" /\ M!Next /\ UNCHANGED <<subject, resize>>
NextResize == subject = "resize" /\ R!Next /\ UNCHANGED <<subject, measurement>>

SpecServing ==
    InitServing /\ [][NextMeasure \/ NextResize]_<<subject, measurement, resize>>

\* The properties of a measurement, stated in Measure, and of a plan, in Resize.
OneProcess == M!OneProcess
ReadyIsWarm == M!ReadyIsWarm
ReportsStand == M!ReportsStand
PeakCovered == R!PeakCovered
WellFounded == R!WellFounded
=============================================================================
