------------------------------ MODULE Journals ------------------------------
(* The two journals on which an owner relies after a kill: the pilot's budget
   (Pilot) and a capture's way back (Backup). They share nothing: a behaviour is one
   of either, and the other part keeps its initial state.                     *)
EXTENDS Pilot, Integers, Sequences

CONSTANTS
    Captures, Earlier, Order, Gaming, None, MaxHands    \* Backup's

VARIABLES
    part,      \* whose journal this is
    pc, out, turn, fresh, deployments, torn, lock, switch, asked, uid, seen, box, k3s,
    created, snapshot, recorded, remote, offsite, metric, mlock, read, zeroed, late,
    reported, hands

B == INSTANCE Backup WITH
        journal <- deployments, child <- switch, faults <- hands, MaxFaults <- MaxHands

ASSUME CapturesAssumption == B!Allowed

\* The properties of a capture, stated in Backup: the copies are of writers that are
\* down, what was scaled to zero can be resumed, ...
CopiesQuiet == B!CopiesQuiet
JournalCovers == B!JournalCovers
\* ... and the published times are those of snapshots that are there.
FreshnessExact == B!FreshnessExact

capture == <<pc, out, turn, fresh, deployments, torn, lock, switch, asked, uid, seen, box,
             k3s, created, snapshot, recorded, remote, offsite, metric, mlock, read,
             zeroed, late, reported, hands>>

InitOne ==
    /\ part \in {"pilot", "backup"}
    /\ Init /\ B!Init
    /\ part = "pilot" => \A w \in B!Writers : asked[w] = 0

NextPilot == part = "pilot" /\ Next /\ UNCHANGED <<part, capture>>
NextBackup == part = "backup" /\ B!Next /\ UNCHANGED <<part, vars>>

SpecOne == InitOne /\ [][NextPilot \/ NextBackup]_<<part, vars, capture>>
=============================================================================
