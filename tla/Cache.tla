------------------------------- MODULE Cache -------------------------------
(* lib/workstation/inference_cache.py: an inventory of the compiler caches below
   one root, against the owner's registry, and a plan of what might be removed.
   Nothing is removed. Servers go on compiling, files are linked and unlinked and
   the registry is rewritten while the inventory walks from one namespace to the
   next. A file is an inode of one block; it may have several links.          *)
EXTENDS Integers, Sequences, FiniteSets

CONSTANTS
    Order,         \* the namespaces, as the registry lists them
    Elsewhere,     \* all other directories: unregistered ones, models, evidence
    Files,         \* inodes
    Capacity,      \* blocks of the file system
    Reserve,       \* what an owner wants to be free
    MaxChanges     \* bound on what changes during an inventory

Namespaces == {Order[n] : n \in DOMAIN Order}

\* The registry names no namespace twice (line 122).
Allowed ==
    /\ Order \in Seq(Namespaces)
    /\ \A m, n \in DOMAIN Order : Order[m] = Order[n] => m = n
    /\ IsFiniteSet(Files)
    /\ Capacity \in Nat /\ Reserve \in Nat

Places == Namespaces \union {Elsewhere}
Liveness == {"active", "last-known-good", "inactive"}

VARIABLES
    links,         \* how often a file is linked in a place
    registry,      \* what the owner has recorded of a namespace
    entries,       \* the registry as the inventory has read it
    rows,          \* the namespaces it has been through
    inodes,        \* seen_inodes
    inventory,     \* inventory.json, or {}
    plan,          \* prune-plan.json, or {}
    still,         \* history: no file was touched since the inventory began
    changes

files == <<links, registry>>
walk == <<entries, rows, inodes>>
vars == <<files, walk, inventory, plan, still, changes>>

States == {"missing-preserve", "protected-active", "protected-last-known-good",
           "managed-disposable"}
Rows == [state : States, physical : Nat, shared : Nat, reclaimable : Nat]

TypeOK ==
    /\ links \in [Files -> [Places -> 0..2]]
    /\ registry \in [Namespaces -> Liveness]
    /\ entries \in Seq(Liveness) /\ rows \in Seq(Rows) /\ inodes \subseteq Files
    /\ Cardinality(inventory) <= 1 /\ Cardinality(plan) <= 1
    /\ still \in BOOLEAN /\ changes \in 0..MaxChanges

Init ==
    /\ links \in [Files -> [Places -> 0..2]]
    /\ registry \in [Namespaces -> Liveness]
    /\ entries = <<>> /\ rows = <<>> /\ inodes = {}
    /\ inventory = {} /\ plan = {}
    /\ still = TRUE
    /\ changes = 0

\* The sum of a count over S: so many units are counted.
Units(count, S) == UNION {{x} \X (1..count[x]) : x \in S}
Sum(count, S) == Cardinality(Units(count, S))

Nlink(f) == Sum(links[f], Places)
InPlace(p) == {f \in Files : links[f][p] > 0}
Used == {f \in Files : Nlink(f) > 0}
Free == Capacity - Cardinality(Used)

-----------------------------------------------------------------------------
(* Compilers and the owner. Before the inventory begins anything may be there. *)

Walking == entries # <<>> /\ inventory = {}

Touched ==
    /\ Walking /\ changes < MaxChanges
    /\ changes' = changes + 1
    /\ \E f \in Files, p \in Places, n \in 0..2 :
        n # links[f][p] /\ links' = [links EXCEPT ![f][p] = n]
    /\ still' = FALSE
    /\ UNCHANGED <<registry, walk, inventory, plan>>

Records ==
    /\ Walking /\ changes < MaxChanges
    /\ changes' = changes + 1
    /\ \E p \in Namespaces : \E l \in Liveness \ {registry[p]} :
        registry' = [registry EXCEPT ![p] = l]
    /\ UNCHANGED <<links, walk, inventory, plan, still>>

-----------------------------------------------------------------------------
(* inventory *)

\* The registry is read, and every other name below the parents is listed.
Begins ==
    /\ entries = <<>>
    /\ entries' = [n \in DOMAIN Order |-> registry[Order[n]]]
    /\ UNCHANGED <<files, rows, inodes, inventory, plan, still, changes>>

\* safe_tree: an inode counts once across all namespaces; what has other links is
\* shared. A link, a special file, another owner or file system refuses, see Refuses.
Exclusive(p) == {f \in InPlace(p) : Nlink(f) = 1}
Unseen(p) == InPlace(p) \ inodes
Shared(p) == {f \in Unseen(p) : Nlink(f) # 1}

StateOf(p, entry) ==
    CASE InPlace(p) = {} -> "missing-preserve"
      [] InPlace(p) # {} /\ entry = "active" -> "protected-active"
      [] InPlace(p) # {} /\ entry = "last-known-good" -> "protected-last-known-good"
      [] OTHER -> "managed-disposable"

\* Nothing of a protected namespace or of one with shared content.
EverySeen(p, entry) == IF entry = "inactive" THEN Cardinality(Unseen(p)) ELSE 0
Reclaimable(p, entry) ==
    IF entry = "inactive" /\ Shared(p) = {} THEN Cardinality(Exclusive(p)) ELSE 0

Row(p, entry) == [state |-> StateOf(p, entry), physical |-> Cardinality(Unseen(p)),
                  shared |-> Cardinality(Shared(p)), reclaimable |-> Reclaimable(p, entry)]

Walks ==
    /\ Walking /\ Len(rows) < Len(entries)
    /\ LET n == Len(rows) + 1 IN
        /\ rows' = Append(rows, Row(Order[n], entries[n]))
        /\ inodes' = inodes \union InPlace(Order[n])
    /\ UNCHANGED <<files, entries, inventory, plan, still, changes>>

\* The free space, and the hash of the registry as it is now.
Writes ==
    /\ Walking /\ Len(rows) = Len(entries)
    /\ inventory' = {[rows |-> rows, free |-> Free, registry |-> registry]}
    /\ UNCHANGED <<files, walk, plan, still, changes>>

\* The walk refuses what it finds, or exceeds a bound: nothing is written.
Refuses ==
    /\ Walking
    /\ entries' = <<>> /\ rows' = <<>> /\ inodes' = {}
    /\ still' = TRUE
    /\ UNCHANGED <<files, inventory, plan, changes>>

-----------------------------------------------------------------------------
(* prune_plan, from the inventory alone *)

Candidates(i) == {n \in DOMAIN i.rows :
    i.rows[n].state = "managed-disposable" /\ i.rows[n].reclaimable > 0}

Disposable(i) ==
    Sum([n \in DOMAIN i.rows |-> i.rows[n].reclaimable], Candidates(i))

Status(i) ==
    CASE i.free >= Reserve -> "no-prune-required"
      [] i.free < Reserve /\ i.free + Disposable(i) >= Reserve -> "review-required"
      [] OTHER -> "blocked-insufficient-disposable-space"

Plans ==
    /\ plan = {}
    /\ \E i \in inventory :
        plan' = {[status |-> Status(i), disposable |-> Disposable(i),
                  remove |-> {Order[n] : n \in Candidates(i)}]}
    /\ UNCHANGED <<files, walk, inventory, still, changes>>

Next == Touched \/ Records \/ Begins \/ Walks \/ Writes \/ Refuses \/ Plans

Spec == Init /\ [][Next]_vars

-----------------------------------------------------------------------------
(* Properties *)

\* What becomes free when the namespaces of S are removed with all that is in them.
FreedBy(S) == {f \in Used : \A p \in Places \ S : links[f][p] = 0}

\* A plan keeps its word (inference_cache.prune_plan): when no file was touched
\* since its inventory began, removing its candidates frees what it estimates and
\* meets the reserve if it says so, wherever inodes have further links. However the
\* files move, an inode counts once, and what was protected when the inventory
\* began is no candidate.
PlanHolds ==
    /\ Sum([n \in DOMAIN rows |-> rows[n].physical], DOMAIN rows) = Cardinality(inodes)
    /\ \A q \in plan :
        /\ \A n \in DOMAIN entries : entries[n] # "inactive" => Order[n] \notin q.remove
        /\ still =>
            /\ Cardinality(FreedBy(q.remove)) >= q.disposable
            /\ q.status = "review-required" => Free + Cardinality(FreedBy(q.remove)) >= Reserve

\* docs/TELEMETRY-REFERENCE.md, "Active, last-known-good, missing, unregistered and
\* shared-content namespaces are excluded": no candidate of a plan contains a file
\* that is linked elsewhere. The walk looks for shared content only among the
\* inodes that no earlier namespace had.
SharedExcluded ==
    still => \A q \in plan : \A p \in q.remove : \A f \in InPlace(p) : Nlink(f) = links[f][p]

=============================================================================
