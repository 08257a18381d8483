-------------------------------- MODULE Boot --------------------------------
(* Boot images and firmware entries: the installation's entries
   (lib/bootstrap/install.sh), uki-sync (templates/arch/uki-sync), which a
   pacman hook or an owner runs, and kernel promotion and rollback
   (lib/workstation/runtime.sh). They share the two EFI system partitions and
   the firmware's variables, take no lock, and may be killed between any two
   steps. An image keeps its version and whether it is whole and signed;
   mkinitcpio, which writes images in place, is the environment.            *)
EXTENDS Naturals, Sequences, FiniteSets

CONSTANTS
    Syncs,       \* runs of uki-sync
    Operators,   \* runs of workstationctl kernel promote or rollback
    Kernels,     \* the kernels they name
    Rebuilt,     \* the images mkinitcpio rebuilds
    MaxBuilds,   \* bound on the images mkinitcpio builds after the installation, of each class
    MaxEntries   \* boot numbers of the firmware

ASSUME BootAssumption ==
    /\ Kernels \subseteq {"stable", "lts", "git"}
    /\ Rebuilt \subseteq {"stable", "lts", "recovery", "git"}
    /\ MaxBuilds \in Nat
    /\ Syncs \intersect Operators = {}
    /\ MaxEntries \in Nat
    /\ MaxEntries > 7

VARIABLES
    uki,      \* the image in each file
    entry,    \* the label (ESP and loader) of each boot number
    order,    \* BootOrder
    setup,    \* the installation's firmware stage
    sync,     \* each run of uki-sync
    op,       \* each promotion or rollback
    builds    \* images built so far

vars == <<uki, entry, order, setup, sync, op, builds>>

Numbers == 1..MaxEntries

Regular == <<"stable", "lts", "recovery">>
RegularImages == {Regular[i] : i \in 1..3}

Files == ({"A", "B"} \X (RegularImages \union {"git", "fallback"}))
             \union {<<"root", "git">>}
Images == [version : 0..MaxBuilds, is : {"absent", "torn", "unsigned", "signed"}]
Nothing == [version |-> 0, is |-> "absent"]

RegularLabels == {"A", "B"} \X RegularImages
GitLabel == <<"A", "git">>
NoLabel == <<"-", "none">>
Other == <<"-", "other">>
Labels == RegularLabels \union {GitLabel, Other, NoLabel}

\* The files uki-sync replaces, in its order, and the file each is a copy of.
Copies == <<<<"B", "stable">>, <<"B", "lts">>, <<"B", "recovery">>,
            <<"A", "fallback">>, <<"B", "fallback">>>>
Source(f) == <<"A", IF f[2] = "fallback" THEN "recovery" ELSE f[2]>>

IdleSync == [at |-> "idle", k |-> 1, staged |-> [i \in 1..5 |-> Nothing], calm |-> TRUE]
IdleOp == [at |-> "idle", kernel |-> "stable", fresh |-> FALSE,
           a |-> Nothing, b |-> Nothing, number |-> 1, got |-> <<>>, calm |-> TRUE]

TypeOK ==
    /\ uki \in [Files -> Images]
    /\ entry \in [Numbers -> Labels]
    /\ order \in Seq(Numbers)
    /\ setup \in [at : {"none", "create", "enter", "read", "write", "verify", "done"},
                  k : 1..7, got : Seq(Numbers)]
    /\ sync \in [Syncs -> [at : {"idle", "sign", "stage", "commit", "end"},
                           k : 1..5, staged : [1..5 -> Images], calm : BOOLEAN]]
    /\ op \in [Operators ->
                 [at : {"idle", "stage_a", "stage_b", "move_a", "move_b",
                        "create", "enter", "compare", "select", "write", "end"},
                  kernel : Kernels \union {"stable"}, fresh : BOOLEAN,
                  a : Images, b : Images, number : Numbers, got : Seq(Numbers),
                  calm : BOOLEAN]]
    /\ builds \in [{"regular", "git"} -> 0..MaxBuilds]

\* The live medium: another system's entry, no image.
Init ==
    /\ uki = [f \in Files |-> Nothing]
    /\ entry = [n \in Numbers |-> IF n = 1 THEN Other ELSE NoLabel]
    /\ order = <<1>>
    /\ setup = [at |-> "none", k |-> 1, got |-> <<>>]
    /\ sync = [s \in Syncs |-> IdleSync]
    /\ op = [o \in Operators |-> IdleOp]
    /\ builds = [c \in {"regular", "git"} |-> 0]

-----------------------------------------------------------------------------
(* Firmware                                                                 *)

Members(s) == {s[i] : i \in DOMAIN s}
WithLabel(label) == {n \in Numbers : entry[n] = label}
Unique(label) == Cardinality(WithLabel(label)) = 1
Number(label) == CHOOSE n \in Numbers : entry[n] = label
Free == {n \in Numbers : entry[n] = NoLabel}
LowestFree == CHOOSE n \in Free : \A m \in Free : n <= m

\* s without the numbers of S, the others in their order.
Without(s, S) ==
    LET kept == {i \in DOMAIN s : s[i] \notin S}
        Rank(i) == Cardinality({j \in kept : j <= i})
    IN  [k \in 1..Cardinality(kept) |-> s[CHOOSE i \in kept : Rank(i) = k]]

First(n, s) == <<n>> \o Without(s, {n})

\* Whoever is under way is disturbed by another's write of an image or BootOrder.
Disturb ==
    /\ sync' = [s \in Syncs |-> [sync[s] EXCEPT !.calm = FALSE]]
    /\ op' = [o \in Operators |-> [op[o] EXCEPT !.calm = FALSE]]

SyncWrites(s, new) ==
    /\ sync' = [i \in Syncs |-> IF i = s THEN new ELSE [sync[i] EXCEPT !.calm = FALSE]]
    /\ op' = [o \in Operators |-> [op[o] EXCEPT !.calm = FALSE]]

OpWrites(o, new) ==
    /\ sync' = [s \in Syncs |-> [sync[s] EXCEPT !.calm = FALSE]]
    /\ op' = [i \in Operators |-> IF i = o THEN new ELSE [op[i] EXCEPT !.calm = FALSE]]

-----------------------------------------------------------------------------
(* The installation                                                         *)

CreateOrder == <<<<"B", "lts">>, <<"B", "stable">>, <<"B", "recovery">>,
                 <<"A", "recovery">>, <<"A", "lts">>, <<"A", "stable">>>>
FinalOrder == <<<<"A", "stable">>, <<"A", "lts">>, <<"A", "recovery">>,
                <<"B", "stable">>, <<"B", "lts">>, <<"B", "recovery">>>>
Wanted == [i \in 1..6 |-> Number(FinalOrder[i])]

\* bootstrap_assert_boot_labels_absent, then the images are built, signed and
\* copied: nobody else is there to see it.
Populate ==
    /\ setup.at = "none"
    /\ \A label \in RegularLabels : WithLabel(label) = {}
    /\ uki' = [f \in Files |-> IF f[2] = "git" THEN Nothing
                                              ELSE [version |-> 0, is |-> "signed"]]
    /\ setup' = [at |-> "create", k |-> 1, got |-> <<>>]
    /\ UNCHANGED <<entry, order, sync, op, builds>>

\* efibootmgr --create writes the entry, then BootOrder.
CreateEntry ==
    /\ setup.at = "create"
    /\ Free # {}
    /\ entry' = [entry EXCEPT ![LowestFree] = CreateOrder[setup.k]]
    /\ setup' = [setup EXCEPT !.at = "enter", !.got = order]
    /\ UNCHANGED <<uki, order, sync, op, builds>>

EnterEntry ==
    /\ setup.at = "enter"
    /\ order' = First(Number(CreateOrder[setup.k]), setup.got)
    /\ setup' = [at |-> IF setup.k < 6 THEN "create" ELSE "read",
                 k |-> setup.k + 1, got |-> <<>>]
    /\ UNCHANGED <<uki, entry, sync, op, builds>>

ReadOrder ==
    /\ setup.at = "read"
    /\ \A label \in RegularLabels : Unique(label)
    /\ setup' = [setup EXCEPT !.at = "write", !.got = order]
    /\ UNCHANGED <<uki, entry, order, sync, op, builds>>

WriteOrder ==
    /\ setup.at = "write"
    /\ order' = Wanted \o Without(setup.got, Members(Wanted))
    /\ setup' = [setup EXCEPT !.at = "verify", !.got = <<>>]
    /\ UNCHANGED <<uki, entry, sync, op, builds>>

\* bootstrap_verify_boot_order initial
VerifyInitial ==
    /\ setup.at = "verify"
    /\ \A label \in RegularLabels : Unique(label)
    /\ SubSeq(order, 1, 6) = Wanted
    /\ setup' = [at |-> "done", k |-> 1, got |-> <<>>]
    /\ UNCHANGED <<uki, entry, order, sync, op, builds>>

\* A stage fails, or the live medium is switched off.
SetupStops ==
    /\ setup.at \notin {"none", "done"}
    /\ setup' = [at |-> "none", k |-> 1, got |-> <<>>]
    /\ UNCHANGED <<uki, entry, order, sync, op, builds>>

\* The owner removes an entry of an installation that failed.
RemoveEntry(n) ==
    /\ setup.at = "none"
    /\ entry[n] \in RegularLabels
    /\ entry' = [entry EXCEPT ![n] = NoLabel]
    /\ order' = Without(order, {n})
    /\ UNCHANGED <<uki, setup, sync, op, builds>>

-----------------------------------------------------------------------------
(* mkinitcpio, in a package transaction or by hand                          *)

Built == {<<IF u = "git" THEN "root" ELSE "A", u>> : u \in Rebuilt}

Class(f) == IF f[2] = "git" THEN "git" ELSE "regular"

Truncate(f) ==
    LET c == Class(f)
    IN  /\ setup.at = "done"
        /\ f \in Built
        /\ builds[c] < MaxBuilds
        /\ builds' = [builds EXCEPT ![c] = @ + 1]
        /\ uki' = [uki EXCEPT ![f] = [version |-> builds[c] + 1, is |-> "torn"]]
        /\ Disturb
        /\ UNCHANGED <<entry, order, setup>>

Fill(f) ==
    /\ f \in Built
    /\ uki[f].is = "torn"
    /\ uki' = [uki EXCEPT ![f].is = "unsigned"]
    /\ Disturb
    /\ UNCHANGED <<entry, order, setup, builds>>

\* The end of ws_kernel_build_uki.
SignCandidate ==
    /\ uki[<<"root", "git">>].is = "unsigned"
    /\ uki' = [uki EXCEPT ![<<"root", "git">>].is = "signed"]
    /\ Disturb
    /\ UNCHANGED <<entry, order, setup, builds>>

-----------------------------------------------------------------------------
(* uki-sync                                                                 *)

SyncBegin(s, sign) ==
    /\ setup.at = "done"
    /\ sync[s].at = "idle"
    /\ sign => \A u \in RegularImages : uki[<<"A", u>>].is # "absent"
    /\ sync' = [sync EXCEPT ![s].at = IF sign THEN "sign" ELSE "stage", ![s].calm = TRUE]
    /\ UNCHANGED <<uki, entry, order, setup, op, builds>>

SyncSign(s) ==
    LET f == <<"A", Regular[sync[s].k]>>
        next == IF sync[s].k < 3 THEN [sync[s] EXCEPT !.k = @ + 1]
                                 ELSE [sync[s] EXCEPT !.at = "stage", !.k = 1]
    IN  /\ sync[s].at = "sign"
        /\ uki[f].is \in {"unsigned", "signed"}
        /\ uki' = [uki EXCEPT ![f].is = "signed"]
        /\ SyncWrites(s, next)
        /\ UNCHANGED <<entry, order, setup, builds>>

\* uki_sync_verify and sbverify --cert
NotEmpty(image) == image.is # "absent"
Verified(image) == image.is = "signed"

\* The primary image is verified, copied, and the copy verified where it lies: a
\* copy that is not signed is removed and the run ends, whatever the first check saw.
SyncStage(s) ==
    LET k == sync[s].k
        image == uki[Source(Copies[k])]
        new == [at |-> IF k < 5 THEN "stage" ELSE "commit",
                k |-> IF k < 5 THEN k + 1 ELSE 1,
                staged |-> [sync[s].staged EXCEPT ![k] = image], calm |-> sync[s].calm]
    IN  /\ sync[s].at = "stage"
        /\ Verified(image)
        /\ sync' = [sync EXCEPT ![s] = new]
        /\ UNCHANGED <<uki, entry, order, setup, op, builds>>

SyncCommit(s) ==
    LET k == sync[s].k
        new == [at |-> IF k < 5 THEN "commit" ELSE "end",
                k |-> IF k < 5 THEN k + 1 ELSE 1,
                staged |-> [sync[s].staged EXCEPT ![k] = Nothing], calm |-> sync[s].calm]
    IN  /\ sync[s].at = "commit"
        /\ uki' = [uki EXCEPT ![Copies[k]] = sync[s].staged[k]]
        /\ SyncWrites(s, new)
        /\ UNCHANGED <<entry, order, setup, builds>>

\* It succeeds, a check or a command fails, or it is killed.
SyncLeaves(s) ==
    /\ sync[s].at # "idle"
    /\ sync' = [sync EXCEPT ![s] = IdleSync]
    /\ UNCHANGED <<uki, entry, order, setup, op, builds>>

-----------------------------------------------------------------------------
(* workstationctl kernel promote                                            *)

\* The image to promote: the candidate on the root file system, or the primary
\* image of a regular kernel.
From(kernel) == IF kernel = "git" THEN <<"root", "git">> ELSE <<"A", kernel>>

\* The source is signed and the entry is found; only the git entry may be absent.
PromoteBegin(o, kernel) ==
    LET found == WithLabel(<<"A", kernel>>)
    IN  /\ setup.at = "done"
        /\ op[o].at = "idle"
        /\ Verified(uki[From(kernel)])
        /\ Cardinality(found) = 1 \/ (kernel = "git" /\ found = {})
        /\ op' = [op EXCEPT ![o].at = "stage_a", ![o].kernel = kernel,
                            ![o].fresh = found = {}, ![o].calm = TRUE]
        /\ UNCHANGED <<uki, entry, order, setup, sync, builds>>

PromoteStageA(o) ==
    /\ op[o].at = "stage_a"
    /\ op' = [op EXCEPT ![o].at = "stage_b", ![o].a = uki[From(op[o].kernel)]]
    /\ UNCHANGED <<uki, entry, order, setup, sync, builds>>

\* Both copies are verified where they lie.
PromoteStageB(o) ==
    LET image == uki[From(op[o].kernel)]
    IN  /\ op[o].at = "stage_b"
        /\ Verified(op[o].a)
        /\ Verified(image)
        /\ op' = [op EXCEPT ![o].at = "move_a", ![o].b = image]
        /\ UNCHANGED <<uki, entry, order, setup, sync, builds>>

Created(o) == IF op[o].fresh THEN "create" ELSE "move_b"
Copied(o) == "move_b"

PromoteMoveA(o) ==
    /\ op[o].at = "move_a"
    /\ uki' = [uki EXCEPT ![<<"A", op[o].kernel>>] = op[o].a]
    /\ OpWrites(o, [op[o] EXCEPT !.at = Copied(o), !.a = Nothing])
    /\ UNCHANGED <<entry, order, setup, builds>>

PromoteMoveB(o) ==
    /\ op[o].at = "move_b"
    /\ uki' = [uki EXCEPT ![<<"B", op[o].kernel>>] = op[o].b]
    /\ OpWrites(o, [op[o] EXCEPT !.at = IF op[o].fresh THEN "create" ELSE "select",
                                 !.fresh = FALSE, !.b = Nothing])
    /\ UNCHANGED <<entry, order, setup, builds>>

\* ws_create_git_boot_entry: the entry, then BootOrder.
PromoteCreate(o) ==
    /\ op[o].at = "create"
    /\ Free # {}
    /\ entry' = [entry EXCEPT ![LowestFree] = GitLabel]
    /\ OpWrites(o, [op[o] EXCEPT !.at = "enter", !.number = LowestFree, !.got = order])
    /\ UNCHANGED <<uki, order, setup, builds>>

PromoteEnter(o) ==
    /\ op[o].at = "enter"
    /\ order' = First(op[o].number, op[o].got)
    /\ OpWrites(o, [op[o] EXCEPT !.at = "select", !.got = <<>>])
    /\ UNCHANGED <<uki, entry, setup, builds>>

-----------------------------------------------------------------------------
(* workstationctl kernel rollback, and the selection both end with          *)

RollbackBegin(o, kernel) ==
    /\ setup.at = "done"
    /\ op[o].at = "idle"
    /\ kernel # "git"
    /\ Verified(uki[<<"A", kernel>>])
    /\ op' = [op EXCEPT ![o].at = "compare", ![o].kernel = kernel,
                            ![o].calm = TRUE]
    /\ UNCHANGED <<uki, entry, order, setup, sync, builds>>

BothThere(kernel) == \A e \in {"A", "B"} : NotEmpty(uki[<<e, kernel>>])
SameCopies(kernel) == uki[<<"A", kernel>>] = uki[<<"B", kernel>>]

RollbackCompare(o) ==
    /\ op[o].at = "compare"
    /\ SameCopies(op[o].kernel)
    /\ op' = [op EXCEPT ![o].at = "select"]
    /\ UNCHANGED <<uki, entry, order, setup, sync, builds>>

\* ws_select_boot_label reads the entries and BootOrder, then writes BootOrder.
SelectRead(o) ==
    LET label == <<"A", op[o].kernel>>
    IN  /\ op[o].at = "select"
        /\ Unique(label)
        /\ op' = [op EXCEPT ![o].at = "write", ![o].number = Number(label), ![o].got = order]
        /\ UNCHANGED <<uki, entry, order, setup, sync, builds>>

SelectWrite(o) ==
    /\ op[o].at = "write"
    /\ order' = First(op[o].number, op[o].got)
    /\ OpWrites(o, [op[o] EXCEPT !.at = "end", !.got = <<>>])
    /\ UNCHANGED <<uki, entry, setup, builds>>

\* It succeeds, a check or a command fails, or it is killed.
OpLeaves(o) ==
    /\ op[o].at # "idle"
    /\ op' = [op EXCEPT ![o] = IdleOp]
    /\ UNCHANGED <<uki, entry, order, setup, sync, builds>>

-----------------------------------------------------------------------------
Next ==
    \/ Populate \/ CreateEntry \/ EnterEntry \/ ReadOrder \/ WriteOrder
    \/ VerifyInitial \/ SetupStops \/ SignCandidate
    \/ \E n \in Numbers : RemoveEntry(n)
    \/ \E f \in Files : Truncate(f) \/ Fill(f)
    \/ \E s \in Syncs :
         \/ \E sign \in BOOLEAN : SyncBegin(s, sign)
         \/ SyncSign(s) \/ SyncStage(s) \/ SyncCommit(s) \/ SyncLeaves(s)
    \/ \E o \in Operators :
         \/ \E kernel \in Kernels : PromoteBegin(o, kernel) \/ RollbackBegin(o, kernel)
         \/ PromoteStageA(o) \/ PromoteStageB(o)
         \/ PromoteMoveA(o) \/ PromoteMoveB(o) \/ PromoteCreate(o) \/ PromoteEnter(o)
         \/ RollbackCompare(o) \/ SelectRead(o) \/ SelectWrite(o) \/ OpLeaves(o)

Spec == Init /\ [][Next]_vars

-----------------------------------------------------------------------------
(* bootstrap_verify                                                         *)

VerifiesImages ==
    /\ \A u \in RegularImages :
         /\ uki[<<"A", u>>].is = "signed"
         /\ uki[<<"A", u>>] = uki[<<"B", u>>]
    /\ uki[<<"A", "fallback">>] = uki[<<"A", "recovery">>]
    /\ uki[<<"B", "fallback">>] = uki[<<"A", "fallback">>]

\* bootstrap_verify_boot_order installed
VerifiesOrder ==
    /\ \A label \in RegularLabels : Unique(label) /\ Number(label) \in Members(order)
    /\ \/ entry[order[1]] \in {<<"A", "stable">>, <<"A", "lts">>}
       \/ /\ Unique(GitLabel)
          /\ order[1] = Number(GitLabel)
          /\ uki[<<"A", "git">>].is = "signed"
          /\ uki[<<"A", "git">>] = uki[<<"B", "git">>]

-----------------------------------------------------------------------------
(* Safety                                                                   *)

Installed == setup.at = "done"

\* uki-sync "leaves only signed old/new images, never a partially written one",
\* and promotion stages before it moves: whatever mkinitcpio, uki-sync and the
\* operator do at once, and wherever they are killed, every image of the backup
\* ESP and both fallback loaders stay signed, so Secure Boot always finds one.
BackupSigned ==
    Installed => /\ \A u \in RegularImages : uki[<<"B", u>>].is = "signed"
                 /\ \A e \in {"A", "B"} : uki[<<e, "fallback">>].is = "signed"

\* ARCHITECTURE.md: promotion "changes BootOrder but never deletes a fallback".
\* Two operators who read BootOrder before either writes it may lose each other's
\* choice, and the entry of the git kernel, but none of the six installed entries,
\* whose labels stay unique, nor another system's.
FallbacksOrdered ==
    Installed =>
        /\ \A label \in RegularLabels : Unique(label) /\ Number(label) \in Members(order)
        /\ 1 \in Members(order)
        /\ Cardinality(Members(order)) = Len(order)

\* The firmware is never told to boot the git kernel before both its images are
\* whole and signed, and never to boot first what bootstrap_verify rejects.
PreferredWhole ==
    Installed =>
        /\ entry[order[1]] \in {<<"A", "stable">>, <<"A", "lts">>, GitLabel}
        /\ (\E n \in Members(order) : entry[n] = GitLabel)
             => \A e \in {"A", "B"} : uki[<<e, "git">>].is = "signed"

\* What the firmware is told: which entry it tries first, and which after it,
\* however the promotions and rollbacks of several operators interleave.
OrderSound == PreferredWhole /\ FallbacksOrdered

\* A run that reports success, and that nothing disturbed, leaves a machine that
\* the installed verification accepts, in what the run is answerable for.
Settled ==
    /\ \A s \in Syncs : sync[s].at = "end" /\ sync[s].calm => VerifiesImages
    /\ \A o \in Operators :
         op[o].at = "end" /\ op[o].calm =>
             /\ VerifiesOrder
             /\ order[1] = op[o].number
             /\ uki[<<"A", op[o].kernel>>] = uki[<<"B", op[o].kernel>>]
=============================================================================
