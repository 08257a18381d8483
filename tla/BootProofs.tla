----------------------------- MODULE BootProofs -----------------------------
(* Boot images and firmware entries, for any number of runs of uki-sync and of
   promotions at once, any number of builds, and a kill at any step. The backup
   ESP and the fallback loaders stay bootable: nothing is moved there that was
   not verified where it lay. The order of booting loses no installed entry and
   prefers no image that is not whole: what a run puts first has a label that
   may be first, and it writes back all it has read. What a run has done that
   nobody disturbed is what the installed verification accepts.              *)
EXTENDS Boot, FiniteSetTheorems, SequenceTheorems, WellFoundedInduction, TLAPS

\* The records have their fields; what the firmware's sequences hold matters to
\* no image.
SetupShape == setup = [at |-> setup.at, k |-> setup.k, got |-> setup.got]
Runs == [at : {"idle", "sign", "stage", "commit", "end"},
         k : 1..5, staged : [1..5 -> Images], calm : BOOLEAN]
SyncShape == sync \in [Syncs -> Runs]
Promotions(number, got) ==
    [at : {"idle", "stage_a", "stage_b", "move_a", "move_b",
           "create", "enter", "compare", "select", "write", "end"},
     kernel : {"stable", "lts", "git"}, fresh : BOOLEAN, a : Images, b : Images,
     number : {number}, got : {got}, calm : BOOLEAN]
OpShape ==
    /\ op = [o \in Operators |-> op[o]]
    /\ \A o \in Operators : op[o] \in Promotions(op[o].number, op[o].got)

Counts == [{"regular", "git"} -> 0..MaxBuilds]

Shape == /\ uki \in [Files -> Images]
         /\ builds \in Counts
         /\ SetupShape /\ SyncShape /\ OpShape

\* The images that only a commit or a move replaces.
Guarded == {<<"B", u>> : u \in RegularImages} \union {<<"A", "fallback">>, <<"B", "fallback">>}

\* They are there from the start of the firmware stage on.
Populated == setup.at # "none" => \A f \in Guarded : uki[f].is = "signed"

\* Nobody replaces anything before the installation is over.
Quiet == setup.at # "done" => /\ \A s \in Syncs : sync[s].at = "idle"
                              /\ \A o \in Operators : op[o].at = "idle"

\* uki-sync signs three images, and holds verified copies: of the files before the one it stages, and of
\* the one it moves and those after.
Staged ==
    \A s \in Syncs :
        /\ sync[s].at = "idle" => sync[s].k = 1
        /\ sync[s].at = "sign" => sync[s].k \in 1..3
        /\ sync[s].at = "stage" => \A j \in 1..5 : j < sync[s].k => Verified(sync[s].staged[j])
        /\ sync[s].at = "commit" => \A j \in 1..5 : j >= sync[s].k => Verified(sync[s].staged[j])

\* A promotion that moves has verified the copy for the backup ESP.
Promoted == \A o \in Operators : op[o].at \in {"move_a", "move_b"} => Verified(op[o].b)

IInv == Shape /\ Populated /\ Quiet /\ Staged /\ Promoted

-----------------------------------------------------------------------------
\* An absent file is one of the contents an image file may have.
LEMMA NothingIsImage == Nothing \in Images
BY BootAssumption DEF Nothing, Images

\* What uki-sync replaces are files of the two partitions.
LEMMA GuardedFiles == Guarded \subseteq Files /\ \A k \in 1..5 : Copies[k] \in Guarded
BY DEF Guarded, Files, RegularImages, Regular, Copies

\* mkinitcpio rewrites regular images in place and never a guarded file.
LEMMA RebuiltFiles == Built \subseteq Files /\ Built \intersect Guarded = {}
BY BootAssumption DEF Built, Files, Guarded, RegularImages, Regular

\* What uki-sync copies from is a file of the partitions.
LEMMA SourceFiles == \A k \in 1..5 : Source(Copies[k]) \in Files
BY DEF Source, Copies, Files, RegularImages, Regular

\* A promotion moves files of the partitions; on the first one it writes none that is
\* guarded.
LEMMA PromotedFiles ==
    \A kernel \in {"stable", "lts", "git"} :
        /\ From(kernel) \in Files
        /\ <<"A", kernel>> \in Files \ Guarded
        /\ <<"B", kernel>> \in Files
BY DEF From, Files, Guarded, RegularImages, Regular

\* Before the installation there is nothing to sign.
LEMMA IInvInit == Init => IInv
<1> SUFFICES ASSUME Init  PROVE IInv
  OBVIOUS
<1>1. Shape
  <2>1. uki \in [Files -> Images] /\ SetupShape /\ builds \in Counts
    BY NothingIsImage, BootAssumption DEF Init, SetupShape, Counts
  <2>2. SyncShape
    BY NothingIsImage DEF Init, SyncShape, Runs, IdleSync
  <2>3. OpShape
    BY NothingIsImage DEF Init, OpShape, Promotions, IdleOp
  <2>4. QED
    BY <2>1, <2>2, <2>3 DEF Shape
<1>2. Populated /\ Quiet /\ Staged /\ Promoted
  BY DEF Init, Populated, Quiet, Staged, Promoted, IdleSync, IdleOp
<1>3. QED
  BY <1>1, <1>2 DEF IInv

\* A step that leaves the runs and the images alone keeps the invariant, if it
\* does not declare an unpopulated installation populated.
LEMMA SetupStep ==
    ASSUME IInv, UNCHANGED <<uki, sync, op, builds>>,
           setup' = [at |-> setup'.at, k |-> setup'.k, got |-> setup'.got],
           setup'.at # "none" => setup.at # "none",
           setup'.at # "done" => setup.at # "done"
    PROVE  IInv'
BY DEF IInv, Shape, SetupShape, SyncShape, Runs, OpShape, Promotions, Populated, Quiet, Staged, Promoted

\* A run that another disturbs is otherwise as it was.
LEMMA Disturbed ==
    ASSUME Shape, NEW o \in Operators, op'[o] = [op[o] EXCEPT !.calm = FALSE]
    PROVE  /\ op'[o] \in Promotions(op'[o].number, op'[o].got)
           /\ op'[o].at = op[o].at
           /\ op'[o].b = op[o].b
<1>1. op[o] \in Promotions(op[o].number, op[o].got)
  BY DEF Shape, OpShape
<1>2. /\ op'[o].at = op[o].at
      /\ op'[o].b = op[o].b
      /\ op'[o].number = op[o].number
      /\ op'[o].got = op[o].got
  BY <1>1 DEF Promotions
<1>3. op'[o] \in Promotions(op[o].number, op[o].got)
  BY <1>1 DEF Promotions
<1>4. QED
  BY <1>2, <1>3

\* A write by mkinitcpio or to a candidate is to no guarded image.
LEMMA BuildStep ==
    ASSUME IInv, NEW f \in Files \ Guarded, NEW image \in Images,
           uki' = [uki EXCEPT ![f] = image], Disturb, UNCHANGED setup, builds' \in Counts
    PROVE  IInv'
<1>1. Shape'
  <2>1. uki' \in [Files -> Images] /\ SetupShape'
    BY DEF IInv, Shape, SetupShape
  <2>2. SyncShape'
    BY DEF IInv, Shape, SyncShape, Runs, Disturb
  <2>3. OpShape'
    BY Disturbed DEF IInv, OpShape, Disturb
  <2>4. QED
    BY <2>1, <2>2, <2>3 DEF Shape
<1>2. Populated'
  BY GuardedFiles DEF IInv, Shape, Populated
<1>3. Staged'
  BY DEF IInv, Shape, SyncShape, Runs, Staged, Disturb
<1>4. Quiet' /\ Promoted'
  <2>1. \A o \in Operators : op'[o].at = op[o].at /\ op'[o].b = op[o].b
    BY Disturbed DEF IInv, Disturb
  <2>2. \A s \in Syncs : sync'[s].at = sync[s].at
    BY DEF IInv, Shape, SyncShape, Runs, Disturb
  <2>3. QED
    BY <2>1, <2>2 DEF IInv, Quiet, Promoted
<1>5. QED
  BY <1>1, <1>2, <1>3, <1>4 DEF IInv

\* What a promotion or a rollback may become by a step.
Operation(new) ==
    /\ new \in Promotions(new.number, new.got)
    /\ new.at \in {"move_a", "move_b"} => Verified(new.b)

\* The images a step leaves are as well guarded as before.
Guards == /\ uki' \in [Files -> Images]
          /\ \A f \in Guarded : uki'[f] = uki[f] \/ Verified(uki'[f])

\* A step of a promotion or rollback that writes no image keeps the invariant.
LEMMA OpStep ==
    ASSUME IInv, NEW o \in Operators, NEW new, Operation(new),
           setup.at = "done" \/ new.at = "idle",
           op' = [op EXCEPT ![o] = new], UNCHANGED <<uki, setup, sync, builds>>
    PROVE  IInv'
<1>1. /\ op' = [i \in Operators |-> op'[i]]
      /\ \A i \in Operators : op'[i] = IF i = o THEN new ELSE op[i]
  BY DEF IInv, Shape, OpShape
<1>2. OpShape' /\ Promoted'
  BY <1>1 DEF IInv, Shape, OpShape, Promoted, Operation
<1>3. Quiet'
  BY <1>1 DEF IInv, Quiet
<1>4. QED
  BY <1>2, <1>3 DEF IInv, Shape, SetupShape, SyncShape, Runs, Populated, Staged

\* One that moves an image does so too, as long as the guarded files stay signed.
LEMMA OpWriteStep ==
    ASSUME IInv, NEW o \in Operators, NEW new, Operation(new),
           setup.at = "done" \/ new.at = "idle",
           OpWrites(o, new), Guards, UNCHANGED <<setup, builds>>
    PROVE  IInv'
<1>1. /\ op' = [i \in Operators |-> op'[i]]
      /\ \A i \in Operators : op'[i] = IF i = o THEN new ELSE [op[i] EXCEPT !.calm = FALSE]
  BY DEF OpWrites
<1>2. \A i \in Operators \ {o} : /\ op'[i] \in Promotions(op'[i].number, op'[i].got)
                                 /\ op'[i].at = op[i].at
                                 /\ op'[i].b = op[i].b
  BY <1>1, Disturbed DEF IInv
<1>3. OpShape'
  BY <1>1, <1>2 DEF OpShape, Operation
<1>4. Promoted'
  BY <1>1, <1>2 DEF IInv, Promoted, Operation
<1>5. SyncShape' /\ Staged'
  BY DEF IInv, Shape, SyncShape, Runs, Staged, OpWrites
<1>6. Quiet'
  BY <1>1, <1>2 DEF IInv, Shape, SyncShape, Runs, Quiet, OpWrites
<1>7. Populated'
  BY DEF IInv, Populated, Guards, Verified
<1>8. QED
  BY <1>3, <1>4, <1>5, <1>6, <1>7 DEF IInv, Shape, SetupShape, Guards

\* What a run of uki-sync may become by a step.
Syncing(new) ==
    /\ new \in Runs
    /\ new.at = "idle" => new.k = 1
    /\ new.at = "sign" => new.k \in 1..3
    /\ new.at = "stage" => \A j \in 1..5 : j < new.k => Verified(new.staged[j])
    /\ new.at = "commit" => \A j \in 1..5 : j >= new.k => Verified(new.staged[j])

\* A step of uki-sync that writes no image keeps the invariant.
LEMMA SyncStep ==
    ASSUME IInv, NEW s \in Syncs, NEW new, Syncing(new),
           setup.at = "done" \/ new.at = "idle",
           sync' = [sync EXCEPT ![s] = new], UNCHANGED <<uki, setup, op, builds>>
    PROVE  IInv'
<1>1. SyncShape' /\ Staged'
  BY DEF IInv, Shape, SyncShape, Runs, Staged, Syncing
<1>2. Quiet'
  BY DEF IInv, Shape, SyncShape, Runs, Quiet
<1>3. QED
  BY <1>1, <1>2 DEF IInv, Shape, SetupShape, OpShape, Promotions, Populated, Promoted

\* One that replaces a copy does so too: what it moves into place was verified.
LEMMA SyncWriteStep ==
    ASSUME IInv, NEW s \in Syncs, NEW new, Syncing(new),
           setup.at = "done" \/ new.at = "idle",
           SyncWrites(s, new), Guards, UNCHANGED <<setup, builds>>
    PROVE  IInv'
<1>1. \A i \in Operators : /\ op'[i] \in Promotions(op'[i].number, op'[i].got)
                           /\ op'[i].at = op[i].at
                           /\ op'[i].b = op[i].b
  BY Disturbed DEF IInv, SyncWrites
<1>2. OpShape'
  BY <1>1 DEF OpShape, SyncWrites
<1>3. Promoted'
  BY <1>1 DEF IInv, Promoted
<1>4. SyncShape' /\ Staged'
  BY DEF IInv, Shape, SyncShape, Runs, Staged, SyncWrites, Syncing
<1>5. Quiet'
  BY <1>1 DEF IInv, Shape, SyncShape, Runs, Quiet, SyncWrites
<1>6. Populated'
  BY DEF IInv, Populated, Guards, Verified
<1>7. QED
  BY <1>2, <1>3, <1>4, <1>5, <1>6 DEF IInv, Shape, SetupShape, Guards

-----------------------------------------------------------------------------
\* Every step of the installation, the commands, the builds and the kills keeps the
\* invariant.
LEMMA IInvNext == IInv /\ [Next]_vars => IInv'
<1> SUFFICES ASSUME IInv, [Next]_vars  PROVE IInv'
  OBVIOUS
<1> USE DEF IInv
<1>1. CASE Populate
  <2>1. /\ uki' \in [Files -> Images]
        /\ \A f \in Guarded : uki'[f].is = "signed"
    BY <1>1, BootAssumption, NothingIsImage, GuardedFiles
       DEF Populate, Images, Guarded, RegularImages, Regular
  <2>2. QED
    BY <1>1, <2>1 DEF Populate, Shape, SetupShape, SyncShape, Runs, OpShape, Promotions,
                      Populated, Quiet, Staged, Promoted
<1>2. CASE CreateEntry
  BY <1>2, SetupStep DEF CreateEntry, Shape, SetupShape
<1>3. CASE EnterEntry
  BY <1>3, SetupStep DEF EnterEntry
<1>4. CASE ReadOrder
  BY <1>4, SetupStep DEF ReadOrder, Shape, SetupShape
<1>5. CASE WriteOrder
  BY <1>5, SetupStep DEF WriteOrder, Shape, SetupShape
<1>6. CASE VerifyInitial
  BY <1>6 DEF VerifyInitial, Shape, SetupShape, SyncShape, Runs, OpShape, Promotions,
              Populated, Quiet, Staged, Promoted
<1>7. CASE SetupStops
  BY <1>7, SetupStep DEF SetupStops
<1>8. ASSUME NEW n \in Numbers, RemoveEntry(n)  PROVE IInv'
  BY <1>8, SetupStep DEF RemoveEntry, Shape, SetupShape
<1>9. CASE SignCandidate
  <2>1. <<"root", "git">> \in Files \ Guarded
    BY DEF Files, Guarded, RegularImages, Regular
  <2>2. [uki[<<"root", "git">>] EXCEPT !.is = "signed"] \in Images
    BY <2>1 DEF Shape, Images
  <2>3. QED
    BY <1>9, <2>1, <2>2, BuildStep DEF SignCandidate, Shape
<1>10. ASSUME NEW f \in Files, Truncate(f)  PROVE IInv'
  <2>1. f \in Files \ Guarded
    BY <1>10, RebuiltFiles DEF Truncate
  <2> DEFINE c == Class(f)
             image == [version |-> builds[c] + 1, is |-> "torn"]
  <2>2. c \in {"regular", "git"}
    BY DEF Class
  <2>3. builds[c] \in 0..MaxBuilds /\ builds[c] < MaxBuilds
    BY <1>10, <2>2 DEF Truncate, Shape, Counts
  <2>4. builds[c] + 1 \in 0..MaxBuilds
    BY <2>3, BootAssumption
  <2>5. image \in Images
    BY <2>4 DEF Images
  <2>6. builds' \in Counts
    BY <1>10, <2>2, <2>4 DEF Truncate, Shape, Counts
  <2>7. uki' = [uki EXCEPT ![f] = image] /\ Disturb /\ UNCHANGED setup
    BY <1>10 DEF Truncate
  <2>8. QED
    BY <2>1, <2>5, <2>6, <2>7, BuildStep
<1>11. ASSUME NEW f \in Files, Fill(f)  PROVE IInv'
  <2>1. f \in Files \ Guarded
    BY <1>11, RebuiltFiles DEF Fill
  <2>2. [uki[f] EXCEPT !.is = "unsigned"] \in Images
    BY DEF Shape, Images
  <2>3. QED
    BY <1>11, <2>1, <2>2, BuildStep DEF Fill, Shape
<1>12. ASSUME NEW s \in Syncs, NEW sign \in BOOLEAN, SyncBegin(s, sign)  PROVE IInv'
  <2> DEFINE phase == IF sign THEN "sign" ELSE "stage"
             new == [sync[s] EXCEPT !.at = phase, !.calm = TRUE]
  <2>1. Syncing(new)
    <3>1. sync[s] \in Runs /\ sync[s].k = 1
      BY <1>12 DEF SyncBegin, Shape, SyncShape, Staged
    <3>2. phase \in {"sign", "stage"}
      OBVIOUS
    <3> HIDE DEF phase
    <3>3. new \in Runs
      BY <3>1, <3>2 DEF Runs
    <3>4. new.at = phase /\ new.k = 1
      BY <3>1 DEF Runs
    <3> HIDE DEF new
    <3>5. QED
      BY <3>2, <3>3, <3>4 DEF Syncing
  <2>2. sync' = [sync EXCEPT ![s] = new]
    BY <1>12 DEF SyncBegin
  <2>3. QED
    BY <1>12, <2>1, <2>2, SyncStep DEF SyncBegin
<1>13. ASSUME NEW s \in Syncs, SyncSign(s)  PROVE IInv'
  <2> DEFINE f == <<"A", Regular[sync[s].k]>>
             new == IF sync[s].k < 3 THEN [sync[s] EXCEPT !.k = @ + 1]
                                     ELSE [sync[s] EXCEPT !.at = "stage", !.k = 1]
  <2>1. Syncing(new)
    <3>1. sync[s] \in Runs
      BY DEF Shape, SyncShape, Runs
    <3>2. CASE sync[s].k < 3
      BY <1>13, <3>1, <3>2 DEF SyncSign, Syncing, Runs
    <3>3. CASE ~(sync[s].k < 3)
      <4>1. new = [at |-> "stage", k |-> 1, staged |-> sync[s].staged, calm |-> sync[s].calm]
        BY <3>1, <3>3 DEF Runs
      <4>2. QED
        BY <3>1, <4>1 DEF Syncing, Runs
    <3>4. QED
      BY <3>2, <3>3
  <2>2. Guards
    <3>1. [uki[f] EXCEPT !.is = "signed"] \in Images \/ f \notin Files
      BY DEF Shape, Images
    <3>2. uki' = [uki EXCEPT ![f] = [uki[f] EXCEPT !.is = "signed"]]
      BY <1>13 DEF SyncSign
    <3>3. \A g \in Guarded : g = f => uki'[g] = uki[g] \/ Verified(uki'[g])
      BY <3>1, <3>2, GuardedFiles DEF Verified, Shape, Images
    <3>4. QED
      BY <3>1, <3>2, <3>3, GuardedFiles DEF Guards, Shape
  <2>3. setup.at = "done"
    BY <1>13 DEF SyncSign, Quiet
  <2>4. QED
    BY <1>13, <2>1, <2>2, <2>3, SyncWriteStep DEF SyncSign
<1>14. ASSUME NEW s \in Syncs, SyncStage(s)  PROVE IInv'
  <2> DEFINE k == sync[s].k
             image == uki[Source(Copies[k])]
             staged == [sync[s].staged EXCEPT ![k] = image]
             new == [at |-> IF k < 5 THEN "stage" ELSE "commit",
                     k |-> IF k < 5 THEN k + 1 ELSE 1,
                     staged |-> staged, calm |-> sync[s].calm]
  <2>1. k \in 1..5 /\ image \in Images /\ Verified(image)
    BY <1>14, SourceFiles DEF SyncStage, Shape, SyncShape, Runs
  <2>2. \A j \in 1..5 : j < k => Verified(sync[s].staged[j])
    BY <1>14 DEF SyncStage, Staged
  <2>3. Syncing(new)
    <3>1. staged \in [1..5 -> Images] /\ sync[s].calm \in BOOLEAN
      BY <2>1 DEF Shape, SyncShape, Runs
    <3>2. \A j \in 1..5 : j <= k => Verified(staged[j])
      BY <2>1, <2>2 DEF Shape, SyncShape, Runs
    <3> HIDE DEF k, staged
    <3>3. QED
      BY <2>1, <3>1, <3>2 DEF Syncing, Runs
  <2>4. sync' = [sync EXCEPT ![s] = new]
    BY <1>14 DEF SyncStage
  <2>5. setup.at = "done"
    BY <1>14 DEF SyncStage, Quiet
  <2>6. QED
    BY <1>14, <2>3, <2>4, <2>5, SyncStep DEF SyncStage
<1>15. ASSUME NEW s \in Syncs, SyncCommit(s)  PROVE IInv'
  <2> DEFINE k == sync[s].k
             staged == [sync[s].staged EXCEPT ![k] = Nothing]
             new == [at |-> IF k < 5 THEN "commit" ELSE "end",
                     k |-> IF k < 5 THEN k + 1 ELSE 1,
                     staged |-> staged, calm |-> sync[s].calm]
  <2>1. k \in 1..5 /\ sync[s].at = "commit"
    BY <1>15 DEF SyncCommit, Shape, SyncShape, Runs
  <2>2. \A j \in 1..5 : j >= k => Verified(sync[s].staged[j])
    BY <2>1 DEF Staged
  <2>3. Syncing(new)
    <3>1. staged \in [1..5 -> Images] /\ sync[s].calm \in BOOLEAN
      BY <2>1, NothingIsImage DEF Shape, SyncShape, Runs
    <3>2. \A j \in 1..5 : j > k => Verified(staged[j])
      BY <2>1, <2>2 DEF Shape, SyncShape, Runs
    <3> HIDE DEF k, staged
    <3>3. QED
      BY <2>1, <3>1, <3>2 DEF Syncing, Runs
  <2>4. Guards
    BY <1>15, <2>1, <2>2, GuardedFiles DEF SyncCommit, Guards, Shape, SyncShape, Runs
  <2>5. setup.at = "done"
    BY <2>1 DEF Quiet
  <2>6. QED
    BY <1>15, <2>3, <2>4, <2>5, SyncWriteStep DEF SyncCommit
<1>16. ASSUME NEW s \in Syncs, SyncLeaves(s)  PROVE IInv'
  <2>1. Syncing(IdleSync)
    BY NothingIsImage DEF Syncing, IdleSync, Runs
  <2>2. QED
    BY <1>16, <2>1, SyncStep DEF SyncLeaves, IdleSync
<1>17. ASSUME NEW o \in Operators, NEW kernel \in Kernels,
              PromoteBegin(o, kernel) \/ RollbackBegin(o, kernel)
       PROVE  IInv'
  <2> DEFINE new(at, fresh) ==
               [op[o] EXCEPT !.at = at, !.kernel = kernel, !.fresh = fresh, !.calm = TRUE]
  <2>1. /\ setup.at = "done"
        /\ UNCHANGED <<uki, setup, sync, builds>>
        /\ \E at \in {"stage_a", "compare"}, fresh \in BOOLEAN :
             op' = [op EXCEPT ![o] = new(at, fresh)]
    <3>1. CASE PromoteBegin(o, kernel)
      BY <3>1 DEF PromoteBegin
    <3>2. CASE RollbackBegin(o, kernel)
      <4>1. op[o].fresh \in BOOLEAN /\ op[o] \in Promotions(op[o].number, op[o].got)
        BY DEF Shape, OpShape, Promotions
      <4>2. op' = [op EXCEPT ![o] = new("compare", op[o].fresh)]
        BY <3>2, <4>1 DEF RollbackBegin, Promotions
      <4>3. QED
        BY <3>2, <4>1, <4>2 DEF RollbackBegin
    <3>3. QED
      BY <1>17, <3>1, <3>2
  <2>2. PICK at \in {"stage_a", "compare"}, fresh \in BOOLEAN :
           op' = [op EXCEPT ![o] = new(at, fresh)]
    BY <2>1
  <2>3. Operation(new(at, fresh))
    BY BootAssumption DEF Operation, Shape, OpShape, Promotions
  <2>4. QED
    BY <2>1, <2>2, <2>3, OpStep
<1>18. ASSUME NEW o \in Operators, PromoteStageA(o)  PROVE IInv'
  <2> DEFINE new == [op[o] EXCEPT !.at = "stage_b", !.a = uki[From(op[o].kernel)]]
  <2>1. Operation(new)
    BY PromotedFiles DEF Operation, Shape, OpShape, Promotions
  <2>2. op' = [op EXCEPT ![o] = new] /\ setup.at = "done"
    BY <1>18 DEF PromoteStageA, Quiet
  <2>3. QED
    BY <1>18, <2>1, <2>2, OpStep DEF PromoteStageA
<1>19. ASSUME NEW o \in Operators, PromoteStageB(o)  PROVE IInv'
  <2> DEFINE new == [op[o] EXCEPT !.at = "move_a", !.b = uki[From(op[o].kernel)]]
  <2>1. Operation(new)
    BY <1>19, PromotedFiles DEF PromoteStageB, Operation, Shape, OpShape, Promotions
  <2>2. op' = [op EXCEPT ![o] = new] /\ setup.at = "done"
    BY <1>19 DEF PromoteStageB, Quiet
  <2>3. QED
    BY <1>19, <2>1, <2>2, OpStep DEF PromoteStageB
<1>20. ASSUME NEW o \in Operators, PromoteMoveA(o)  PROVE IInv'
  <2> DEFINE new == [op[o] EXCEPT !.at = "move_b", !.a = Nothing]
  <2>1. op[o].at = "move_a" /\ setup.at = "done"
    BY <1>20 DEF PromoteMoveA, Quiet
  <2>2. Operation(new)
    BY <2>1, NothingIsImage DEF Operation, Shape, OpShape, Promotions, Promoted
  <2>3. Guards
    BY <1>20, PromotedFiles DEF PromoteMoveA, Guards, Shape, OpShape, Promotions
  <2>4. QED
    BY <1>20, <2>1, <2>2, <2>3, OpWriteStep DEF PromoteMoveA, Copied
<1>21. ASSUME NEW o \in Operators, PromoteMoveB(o)  PROVE IInv'
  <2> DEFINE new == [op[o] EXCEPT !.at = IF op[o].fresh THEN "create" ELSE "select",
                                  !.fresh = FALSE, !.b = Nothing]
  <2>1. op[o].at = "move_b" /\ setup.at = "done" /\ Verified(op[o].b)
    BY <1>21 DEF PromoteMoveB, Quiet, Promoted
  <2>2. Operation(new)
    BY NothingIsImage DEF Operation, Shape, OpShape, Promotions
  <2>3. Guards
    BY <1>21, <2>1, PromotedFiles DEF PromoteMoveB, Guards, Shape, OpShape, Promotions
  <2>4. QED
    BY <1>21, <2>1, <2>2, <2>3, OpWriteStep DEF PromoteMoveB
<1>22. ASSUME NEW o \in Operators, PromoteCreate(o)  PROVE IInv'
  <2> DEFINE new == [op[o] EXCEPT !.at = "enter", !.number = LowestFree, !.got = order]
  <2>1. Operation(new)
    BY DEF Operation, Shape, OpShape, Promotions
  <2>2. setup.at = "done" /\ Guards
    BY <1>22 DEF PromoteCreate, Quiet, Guards, Shape
  <2>3. QED
    BY <1>22, <2>1, <2>2, OpWriteStep DEF PromoteCreate
<1>23. ASSUME NEW o \in Operators, PromoteEnter(o)  PROVE IInv'
  <2> DEFINE new == [op[o] EXCEPT !.at = "select", !.got = <<>>]
  <2>1. Operation(new)
    BY DEF Operation, Shape, OpShape, Promotions
  <2>2. setup.at = "done" /\ Guards
    BY <1>23 DEF PromoteEnter, Quiet, Guards, Shape
  <2>3. QED
    BY <1>23, <2>1, <2>2, OpWriteStep DEF PromoteEnter
<1>24. ASSUME NEW o \in Operators, RollbackCompare(o)  PROVE IInv'
  <2> DEFINE new == [op[o] EXCEPT !.at = "select"]
  <2>1. Operation(new)
    BY DEF Operation, Shape, OpShape, Promotions
  <2>2. op' = [op EXCEPT ![o] = new] /\ setup.at = "done"
    BY <1>24 DEF RollbackCompare, Quiet
  <2>3. QED
    BY <1>24, <2>1, <2>2, OpStep DEF RollbackCompare
<1>25. ASSUME NEW o \in Operators, SelectRead(o)  PROVE IInv'
  <2> DEFINE new == [op[o] EXCEPT !.at = "write", !.got = order,
                                  !.number = Number(<<"A", op[o].kernel>>)]
  <2>1. Operation(new)
    BY DEF Operation, Shape, OpShape, Promotions
  <2>2. op' = [op EXCEPT ![o] = new] /\ setup.at = "done"
    BY <1>25 DEF SelectRead, Quiet, Shape, OpShape
  <2>3. QED
    BY <1>25, <2>1, <2>2, OpStep DEF SelectRead
<1>26. ASSUME NEW o \in Operators, SelectWrite(o)  PROVE IInv'
  <2> DEFINE new == [op[o] EXCEPT !.at = "end", !.got = <<>>]
  <2>1. Operation(new)
    BY DEF Operation, Shape, OpShape, Promotions
  <2>2. setup.at = "done" /\ Guards
    BY <1>26 DEF SelectWrite, Quiet, Guards, Shape
  <2>3. QED
    BY <1>26, <2>1, <2>2, OpWriteStep DEF SelectWrite
<1>27. ASSUME NEW o \in Operators, OpLeaves(o)  PROVE IInv'
  <2>1. Operation(IdleOp)
    BY NothingIsImage DEF Operation, IdleOp, Promotions
  <2>2. QED
    BY <1>27, <2>1, OpStep DEF OpLeaves, IdleOp
<1>28. CASE UNCHANGED vars
  BY <1>28 DEF vars, Shape, SetupShape, SyncShape, Runs, OpShape, Promotions,
               Populated, Quiet, Staged, Promoted
<1>29. QED
  BY <1>1, <1>2, <1>3, <1>4, <1>5, <1>6, <1>7, <1>8, <1>9, <1>10, <1>11, <1>12,
     <1>13, <1>14, <1>15, <1>16, <1>17, <1>18, <1>19, <1>20, <1>21, <1>22, <1>23,
     <1>24, <1>25, <1>26, <1>27, <1>28 DEF Next

\* Once installed, the guarded files are signed.
LEMMA IInvBackupSigned == IInv => BackupSigned
BY DEF IInv, Populated, BackupSigned, Installed, Guarded

\* Once the installation is over, the backup images and both fallback loaders are
\* signed at every instant, whatever is built, replaced, promoted or killed, in
\* any number and any order (uki-sync: "only signed old/new images").
THEOREM AlwaysBootable == Spec => []BackupSigned
<1>1. Init => IInv
  BY IInvInit
<1>2. IInv /\ [Next]_vars => IInv'
  BY IInvNext
<1>3. IInv => BackupSigned
  BY IInvBackupSigned
<1>4. QED
  BY <1>1, <1>2, <1>3, PTL DEF Spec

-----------------------------------------------------------------------------
(* What the firmware's order holds                                          *)

\* No number stands twice.
Distinct(s) == \A i, j \in DOMAIN s : s[i] = s[j] => i = j

\* Another system's entry is in it too.
Whole(s) == s \in Seq(Numbers) /\ 1 \in Members(s) /\ Distinct(s)

\* A sequence without some numbers has all the others, each as often as before.
LEMMA WithoutKeeps ==
    ASSUME NEW s \in Seq(Numbers), NEW S
    PROVE  /\ Without(s, S) \in Seq(Numbers)
           /\ Members(Without(s, S)) = Members(s) \ S
           /\ Distinct(s) => Distinct(Without(s, S))
<1> DEFINE kept == {i \in DOMAIN s : s[i] \notin S}
           upto(i) == {j \in kept : j <= i}
           Rank(i) == Cardinality(upto(i))
           n == Cardinality(kept)
           rank == [i \in kept |-> Rank(i)]
           pos(k) == CHOOSE i \in kept : Rank(i) = k
           t == [k \in 1..n |-> s[pos(k)]]
<1>1. DOMAIN s = 1..Len(s) /\ Len(s) \in Nat /\ kept \in SUBSET (1..Len(s))
  BY LenProperties
<1>2. IsFiniteSet(kept) /\ n \in Nat
  <2>1. IsFiniteSet(1..Len(s))
    BY <1>1, FS_Interval
  <2>2. IsFiniteSet(kept)
    BY <1>1, <2>1, FS_Subset
  <2> HIDE DEF kept
  <2>3. QED
    BY <2>2, FS_CardinalityType
<1>3. \A i \in kept : IsFiniteSet(upto(i)) /\ Rank(i) \in 1..n
  <2> SUFFICES ASSUME NEW i \in kept  PROVE IsFiniteSet(upto(i)) /\ Rank(i) \in 1..n
    OBVIOUS
  <2>1. upto(i) \in SUBSET kept /\ upto(i) # {}
    BY <1>1
  <2>2. IsFiniteSet(upto(i)) /\ Rank(i) <= n
    BY <2>1, <1>2, FS_Subset
  <2>3. Rank(i) \in Nat /\ Rank(i) # 0
    BY <2>1, <2>2, FS_CardinalityType, FS_EmptySet
  <2> HIDE DEF Rank, n
  <2>4. QED
    BY <1>2, <2>2, <2>3
<1>4. \A i, j \in kept : i < j => Rank(i) < Rank(j)
  <2> SUFFICES ASSUME NEW i \in kept, NEW j \in kept, i < j  PROVE Rank(i) < Rank(j)
    OBVIOUS
  <2>1. upto(i) \union {j} \in SUBSET upto(j) /\ j \notin upto(i)
    BY <1>1
  <2>2. Cardinality(upto(i) \union {j}) = Rank(i) + 1
    BY <1>3, <2>1, FS_AddElement
  <2>3. Cardinality(upto(i) \union {j}) <= Rank(j)
    BY <1>3, <2>1, FS_Subset
  <2>4. Rank(i) \in 1..n /\ Rank(j) \in 1..n
    BY <1>3
  <2> HIDE DEF Rank, n
  <2>5. QED
    BY <1>2, <2>2, <2>3, <2>4
<1>5. \A i, j \in kept : Rank(i) = Rank(j) => i = j
  <2> SUFFICES ASSUME NEW i \in kept, NEW j \in kept, i # j  PROVE Rank(i) # Rank(j)
    OBVIOUS
  <2>1. i < j \/ j < i
    BY <1>1
  <2>2. Rank(i) \in 1..n /\ Rank(j) \in 1..n
    BY <1>3
  <2> HIDE DEF Rank
  <2>3. QED
    BY <1>4, <2>1, <2>2, <1>2
<1>6. rank \in Injection(kept, 1..n)
  BY <1>3, <1>5 DEF Injection, IsInjective
<1>7. Cardinality(1..n) = n /\ IsFiniteSet(1..n)
  BY <1>2, FS_Interval
<1>8. rank \in Surjection(kept, 1..n)
  BY <1>6, <1>7, FS_Injection
<1>9. \A k \in 1..n : pos(k) \in kept /\ Rank(pos(k)) = k
  <2> SUFFICES ASSUME NEW k \in 1..n  PROVE pos(k) \in kept /\ Rank(pos(k)) = k
    OBVIOUS
  <2>1. PICK i \in kept : rank[i] = k
    BY <1>8 DEF Surjection
  <2>2. Rank(i) = k
    BY <2>1
  <2> HIDE DEF Rank, kept
  <2>3. QED
    BY <2>2
<1>10. \A i \in kept : i = pos(Rank(i))
  BY <1>3, <1>5, <1>9
<1>11. Without(s, S) = t
  BY DEF Without
<1>12. \A i \in kept : s[i] \in Numbers /\ s[i] \in Members(s) \ S
  <2> SUFFICES ASSUME NEW i \in kept  PROVE s[i] \in Numbers /\ s[i] \in Members(s) \ S
    OBVIOUS
  <2>1. i \in 1..Len(s)
    BY <1>1
  <2>2. QED
    BY <2>1, ElementOfSeq DEF Members
<1>13. t \in Seq(Numbers) /\ DOMAIN t = 1..n
  <2>1. \A k \in 1..n : s[pos(k)] \in Numbers
    BY <1>9, <1>12
  <2> HIDE DEF pos, n
  <2>2. QED
    BY <1>2, <2>1, IsASeq
<1>14. Members(t) = Members(s) \ S
  <2>1. ASSUME NEW x \in Members(t)  PROVE x \in Members(s) \ S
    <3>1. PICK k \in 1..n : x = s[pos(k)]
      BY <1>13 DEF Members
    <3>2. QED
      BY <3>1, <1>9, <1>12
  <2>2. ASSUME NEW x \in Members(s) \ S  PROVE x \in Members(t)
    <3>1. PICK i \in kept : x = s[i]
      BY DEF Members
    <3>2. Rank(i) \in 1..n /\ pos(Rank(i)) = i
      BY <1>3, <1>10
    <3> HIDE DEF pos, Rank, kept, n
    <3>3. t[Rank(i)] = x
      BY <3>1, <3>2
    <3>4. QED
      BY <3>2, <3>3, <1>13 DEF Members
  <2>3. QED
    BY <2>1, <2>2
<1>15. Distinct(s) => Distinct(t)
  <2> SUFFICES ASSUME Distinct(s), NEW k \in 1..n, NEW m \in 1..n, t[k] = t[m]
               PROVE  k = m
    BY <1>13 DEF Distinct
  <2>1. s[pos(k)] = s[pos(m)]
    OBVIOUS
  <2>2. pos(k) \in DOMAIN s /\ pos(m) \in DOMAIN s
    BY <1>9
  <2>3. Rank(pos(k)) = k /\ Rank(pos(m)) = m
    BY <1>9
  <2> HIDE DEF pos, Rank, kept, n
  <2>4. pos(k) = pos(m)
    BY <2>1, <2>2 DEF Distinct
  <2>5. QED
    BY <2>3, <2>4
<1>16. QED
  BY <1>11, <1>13, <1>14, <1>15

\* Sequences of numbers with nothing in common, one after the other.
LEMMA ConcatKeeps ==
    ASSUME NEW s \in Seq(Numbers), NEW t \in Seq(Numbers),
           Distinct(s), Distinct(t), Members(s) \intersect Members(t) = {}
    PROVE  /\ s \o t \in Seq(Numbers)
           /\ Members(s \o t) = Members(s) \union Members(t)
           /\ Distinct(s \o t)
<1>1. /\ Len(s) \in Nat /\ DOMAIN s = 1..Len(s)
      /\ Len(t) \in Nat /\ DOMAIN t = 1..Len(t)
  BY LenProperties
<1>2. /\ s \o t \in Seq(Numbers)
      /\ Len(s \o t) = Len(s) + Len(t)
      /\ \A i \in 1..Len(s) + Len(t) :
           (s \o t)[i] = IF i <= Len(s) THEN s[i] ELSE t[i - Len(s)]
  BY ConcatProperties
<1> DEFINE u == s \o t
<1>3. DOMAIN u = 1..Len(s) + Len(t)
  BY <1>2, LenProperties
<1>4. \A i \in 1..Len(s) : i \in DOMAIN u /\ u[i] = s[i]
  BY <1>1, <1>2, <1>3
<1>5. \A i \in 1..Len(t) : Len(s) + i \in DOMAIN u /\ u[Len(s) + i] = t[i]
  BY <1>1, <1>2, <1>3
<1>6. \A i \in DOMAIN u : \/ i \in 1..Len(s)
                          \/ i - Len(s) \in 1..Len(t) /\ i = Len(s) + (i - Len(s))
  BY <1>1, <1>3
<1> HIDE DEF u
<1>7. Members(u) = Members(s) \union Members(t)
  BY <1>1, <1>4, <1>5, <1>6 DEF Members
<1>8. Distinct(u)
  <2> SUFFICES ASSUME NEW i \in DOMAIN u, NEW j \in DOMAIN u, u[i] = u[j]  PROVE i = j
    BY DEF Distinct
  <2>1. CASE i \in 1..Len(s) /\ j \in 1..Len(s)
    BY <2>1, <1>1, <1>4 DEF Distinct
  <2>2. CASE i - Len(s) \in 1..Len(t) /\ j - Len(s) \in 1..Len(t)
    <3>1. t[i - Len(s)] = t[j - Len(s)]
      BY <2>2, <1>5, <1>6
    <3>2. i - Len(s) = j - Len(s)
      BY <2>2, <3>1, <1>1 DEF Distinct
    <3>3. QED
      BY <3>2, <1>1, <1>3
  <2>3. \A k \in 1..Len(s), m \in 1..Len(t) : s[k] # t[m]
    BY <1>1 DEF Members
  <2>4. CASE i \in 1..Len(s) /\ j - Len(s) \in 1..Len(t)
    BY <2>4, <2>3, <1>4, <1>5, <1>6
  <2>5. CASE i - Len(s) \in 1..Len(t) /\ j \in 1..Len(s)
    BY <2>5, <2>3, <1>4, <1>5, <1>6
  <2>6. QED
    BY <1>6, <2>1, <2>2, <2>4, <2>5
<1>9. QED
  BY <1>2, <1>7, <1>8 DEF u

\* What is put first comes first, and nothing is lost.
LEMMA FirstKeeps ==
    ASSUME NEW n \in Numbers, NEW s, Whole(s)
    PROVE  /\ Whole(First(n, s))
           /\ First(n, s)[1] = n
           /\ Members(First(n, s)) = Members(s) \union {n}
<1> DEFINE t == Without(s, {n})
<1>1. t \in Seq(Numbers) /\ Members(t) = Members(s) \ {n} /\ Distinct(t)
  BY WithoutKeeps DEF Whole
<1>2. <<n>> \in Seq(Numbers) /\ Members(<<n>>) = {n} /\ Distinct(<<n>>)
  BY DEF Members, Distinct
<1> HIDE DEF t
<1> DEFINE one == <<n>>
<1>3. Members(one) \intersect Members(t) = {}
  BY <1>1, <1>2
<1>4. one[1] = n /\ Len(one) = 1
  OBVIOUS
<1>5. one \in Seq(Numbers) /\ Members(one) = {n} /\ Distinct(one)
  BY <1>2
<1> HIDE DEF one
<1>6. /\ one \o t \in Seq(Numbers)
      /\ Members(one \o t) = {n} \union Members(t)
      /\ Distinct(one \o t)
  BY <1>1, <1>3, <1>5, ConcatKeeps
<1>7. (one \o t)[1] = n
  <2>1. Len(t) \in Nat
    BY <1>1, LenProperties
  <2>2. QED
    BY <1>1, <1>4, <1>5, <2>1, ConcatProperties
<1>8. First(n, s) = one \o t
  BY DEF First, one, t
<1>9. QED
  BY <1>1, <1>6, <1>7, <1>8 DEF Whole

\* A sequence in which no number stands twice is as long as it has numbers.
LEMMA DistinctLength ==
    ASSUME NEW s \in Seq(Numbers), Distinct(s)
    PROVE  Cardinality(Members(s)) = Len(s)
<1>1. Len(s) \in Nat /\ DOMAIN s = 1..Len(s) /\ s \in [1..Len(s) -> Numbers]
  BY LenProperties
<1>2. s \in Bijection(1..Len(s), Members(s))
  BY <1>1 DEF Distinct, Members, Bijection, Injection, Surjection, IsInjective
<1>3. IsFiniteSet(1..Len(s)) /\ Cardinality(1..Len(s)) = Len(s)
  BY <1>1, FS_Interval
<1>4. QED
  BY <1>2, <1>3, FS_Bijection DEF ExistsBijection

\* A label that is unique is that of its number, and of no other.
LEMMA UniqueNumber ==
    ASSUME NEW label, Unique(label)
    PROVE  Number(label) \in Numbers /\ WithLabel(label) = {Number(label)}
<1>1. IsFiniteSet(Numbers)
  BY BootAssumption, FS_Interval DEF Numbers
<1>2. IsFiniteSet(WithLabel(label))
  BY <1>1, FS_Subset DEF WithLabel
<1>3. PICK n : WithLabel(label) = {n}
  BY <1>2, FS_Singleton DEF Unique
<1>4. QED
  BY <1>3 DEF WithLabel, Number

\* Where a number is free, the lowest is.
LEMMA LowestIsFree == ASSUME Free # {}  PROVE LowestFree \in Free
<1>1. Free \subseteq Nat
  BY DEF Free, Numbers
<1>2. PICK n \in Free : \A m \in Free : ~(<<m, n>> \in OpToRel(<, Nat))
  BY <1>1, NatLessThanWellFounded, WFMin
<1>3. \A m \in Free : n <= m
  <2> SUFFICES ASSUME NEW m \in Free, m < n  PROVE FALSE
    BY <1>1
  <2>1. <<m, n>> \in OpToRel(<, Nat)
    BY <1>1 DEF OpToRel
  <2> QED BY <1>2, <2>1
<1>4. QED
  BY <1>3 DEF LowestFree

-----------------------------------------------------------------------------
(* The order of booting                                                     *)

Labelled == \A label \in RegularLabels : Unique(label)
Covers(s) == \A label \in RegularLabels : Number(label) \in Members(s)
Preferred == {<<"A", "stable">>, <<"A", "lts">>, GitLabel}
HasGit == \E n \in Numbers : entry[n] = GitLabel
GitSigned(e) == Verified(uki[<<e, "git">>])

\* Another system's entry is in the order, and nobody removes it.
Firmware ==
    /\ entry \in [Numbers -> Labels]
    /\ entry[1] = Other
    /\ Whole(order)

\* What the installation has read is whole, and from its second look at the labels on
\* they are unique; what it wrote has them all, a primary kernel first.
Installing ==
    /\ setup.at \in {"create", "enter"} => setup.k \in 1..6
    /\ setup.at = "enter" => \E n \in Numbers : entry[n] = CreateOrder[setup.k]
    /\ setup.at \in {"enter", "write"} => Whole(setup.got)
    /\ setup.at \in {"write", "verify", "done"} => Labelled
    /\ setup.at \in {"verify", "done"} => Covers(order) /\ entry[order[1]] \in Preferred
    /\ setup.at # "done" => ~HasGit

\* A promotion or a rollback. Only one of the git kernel creates an entry, after both
\* images are in place; what is to be put first has the label of the kernel, and what
\* was read of the order has everything that must stay in it.
Sound(r) ==
    /\ r.at = "idle" => ~r.fresh
    /\ r.fresh => r.kernel = "git"
    /\ r.at = "move_a" => Verified(r.a)
    /\ r.at \in {"create", "enter"} => r.kernel = "git"
    /\ r.kernel = "git" => /\ r.at \in {"move_b", "create", "enter"} => GitSigned("A")
                           /\ r.at \in {"create", "enter"} => GitSigned("B")
    /\ r.at \in {"enter", "write"} =>
         /\ r.number \in Numbers
         /\ entry[r.number] = <<"A", r.kernel>>
         /\ Whole(r.got)
         /\ Covers(r.got)

\* There is no entry of the git kernel before its images are signed.
Bootable == HasGit => GitSigned("A") /\ GitSigned("B")

OInv == Firmware /\ Installing /\ Bootable /\ \A o \in Operators : Sound(op[o])

\* At first there is another system's entry alone.
LEMMA OInvInit == Init => OInv
<1> SUFFICES ASSUME Init  PROVE OInv
  OBVIOUS
<1>1. 1 \in Numbers
  BY BootAssumption DEF Numbers
<1>2. order = <<1>> /\ order \in Seq(Numbers) /\ Distinct(order) /\ 1 \in Members(order)
  BY <1>1 DEF Init, Distinct, Members
<1>3. /\ entry = [n \in Numbers |-> IF n = 1 THEN Other ELSE NoLabel]
      /\ Other \in Labels /\ NoLabel \in Labels
  BY DEF Init, Labels
<1>4. Firmware
  BY <1>1, <1>2, <1>3 DEF Firmware, Whole
<1>5. ~HasGit
  BY <1>3 DEF HasGit, GitLabel, Other, NoLabel
<1>6. setup.at = "none"
  BY DEF Init
<1>7. \A o \in Operators : op[o].at = "idle" /\ op[o].fresh = FALSE
  BY DEF Init, IdleOp
<1>8. \A o \in Operators : Sound(op[o])
  BY <1>7 DEF Sound
<1>9. QED
  BY <1>4, <1>5, <1>6, <1>8 DEF OInv, Installing, Bootable

\* What has an entry, or a signed git image, keeps it.
Keeps ==
    /\ \A n \in Numbers : entry[n] # NoLabel => entry'[n] = entry[n]
    /\ \A label \in RegularLabels : Number(label)' = Number(label)
    /\ GitSigned("A") => GitSigned("A")'
    /\ GitSigned("B") => GitSigned("B")'

\* A run that is as it was stays sound.
LEMMA StaysSound ==
    ASSUME IInv, Keeps, NEW o \in Operators, Sound(op[o]),
           op'[o] = op[o] \/ op'[o] = [op[o] EXCEPT !.calm = FALSE]
    PROVE  Sound(op[o])'
<1> DEFINE r == op[o]
           q == op'[o]
<1>1. r \in Promotions(r.number, r.got)
  BY DEF IInv, Shape, OpShape
<1>2. /\ q.at = r.at /\ q.fresh = r.fresh /\ q.kernel = r.kernel /\ q.a = r.a
      /\ q.number = r.number /\ q.got = r.got
  BY <1>1 DEF Promotions
<1>3. r.kernel \in {"stable", "lts", "git"}
  BY <1>1 DEF Promotions
<1>4. Sound(r)
  OBVIOUS
<1> HIDE DEF r, q
<1>5. r.at \in {"enter", "write"} =>
        entry'[q.number] = <<"A", q.kernel>> /\ \A label \in RegularLabels : Number(label)' \in Members(q.got)
  <2> SUFFICES ASSUME r.at \in {"enter", "write"}
               PROVE  /\ entry'[q.number] = <<"A", q.kernel>>
                      /\ \A label \in RegularLabels : Number(label)' \in Members(q.got)
    OBVIOUS
  <2>1. r.number \in Numbers /\ entry[r.number] = <<"A", r.kernel>> /\ Covers(r.got)
    BY <1>4 DEF Sound
  <2>2. entry[r.number] # NoLabel
    BY <2>1 DEF NoLabel
  <2>3. entry'[q.number] = <<"A", q.kernel>>
    BY <1>2, <2>1, <2>2 DEF Keeps
  <2>4. \A label \in RegularLabels : Number(label)' \in Members(q.got)
    BY <1>2, <2>1 DEF Keeps, Covers
  <2>5. QED
    BY <2>3, <2>4
<1>6. r.at \in {"enter", "write"} => Covers(op[o].got)'
  BY <1>5 DEF Covers, Members, q
<1>7. q.at \in {"enter", "write"} => Whole(op[o].got)'
  BY <1>2, <1>4 DEF Sound, Whole, Distinct, Members, q
<1>8. q.at = "move_a" => Verified(op[o].a)'
  BY <1>2, <1>4 DEF Sound, Verified, q
<1>9. q.kernel = "git" => /\ q.at \in {"move_b", "create", "enter"} => GitSigned("A")'
                          /\ q.at \in {"create", "enter"} => GitSigned("B")'
  BY <1>2, <1>4 DEF Sound, Keeps
<1>10. QED
  BY <1>2, <1>4, <1>5, <1>6, <1>7, <1>8, <1>9 DEF Sound, q

\* Where the entries and the git images are as they were, all is kept.
LEMMA KeepsAll ==
    ASSUME UNCHANGED entry,
           uki'[<<"A", "git">>] = uki[<<"A", "git">>], uki'[<<"B", "git">>] = uki[<<"B", "git">>]
    PROVE  Keeps
<1>1. \A label \in RegularLabels : Number(label)' = Number(label)
  BY DEF Number
<1>2. QED
  BY <1>1 DEF Keeps, GitSigned, Verified

\* A step that no promotion takes, once installed or not, and that leaves the firmware
\* and the git images alone.
LEMMA AsideStep ==
    ASSUME IInv, OInv, UNCHANGED <<entry, order, setup>>,
           uki'[<<"A", "git">>] = uki[<<"A", "git">>], uki'[<<"B", "git">>] = uki[<<"B", "git">>],
           \A o \in Operators : op'[o] = op[o] \/ op'[o] = [op[o] EXCEPT !.calm = FALSE]
    PROVE  OInv'
<1>1. Keeps
  BY KeepsAll
<1>2. \A o \in Operators : Sound(op[o])'
  BY <1>1, StaysSound DEF OInv
<1>3. Firmware'
  BY DEF OInv, Firmware, Whole, Distinct, Members
<1>4. HasGit' = HasGit /\ Labelled' = Labelled /\ Covers(order)' = Covers(order)
  BY DEF HasGit, Labelled, Unique, WithLabel, Covers, Number, Members
<1>5. Installing'
  BY <1>4 DEF OInv, Installing, Whole, Distinct, Members
<1>6. Bootable'
  BY <1>4 DEF OInv, Bootable, GitSigned, Verified
<1>7. QED
  BY <1>2, <1>3, <1>5, <1>6 DEF OInv

\* A step of the installation: nothing else is under way, and there is no git entry.
LEMMA InstallStep ==
    ASSUME IInv, OInv, setup.at # "done", UNCHANGED op,
           Firmware', Installing',
           \A n \in Numbers : entry'[n] = GitLabel => entry[n] = GitLabel
    PROVE  OInv'
<1>1. ~HasGit
  BY DEF OInv, Installing
<1>2. ~HasGit'
  BY <1>1 DEF HasGit
<1>3. Bootable'
  BY <1>2 DEF Bootable
<1>4. \A o \in Operators : op[o].at = "idle"
  BY DEF IInv, Quiet
<1>5. \A o \in Operators : Sound(op[o])'
  <2> SUFFICES ASSUME NEW o \in Operators  PROVE Sound(op[o])'
    OBVIOUS
  <2>1. op[o].at = "idle" /\ Sound(op[o])
    BY <1>4 DEF OInv
  <2>2. QED
    BY <2>1 DEF Sound
<1>6. QED
  BY <1>3, <1>5 DEF OInv

\* A step of a promotion or rollback that leaves the firmware alone.
LEMMA RunStep ==
    ASSUME IInv, OInv, NEW o \in Operators, UNCHANGED <<entry, order, setup>>,
           GitSigned("A") => GitSigned("A")', GitSigned("B") => GitSigned("B")',
           \A i \in Operators \ {o} : op'[i] = op[i] \/ op'[i] = [op[i] EXCEPT !.calm = FALSE],
           Sound(op[o])'
    PROVE  OInv'
<1>1. Keeps
  BY DEF Keeps, Number
<1>2. \A i \in Operators : Sound(op[i])'
  <2> SUFFICES ASSUME NEW i \in Operators  PROVE Sound(op[i])'
    OBVIOUS
  <2>1. CASE i = o
    BY <2>1
  <2>2. CASE i # o
    BY <2>2, <1>1, StaysSound DEF OInv
  <2>3. QED
    BY <2>1, <2>2
<1>3. Firmware'
  BY DEF OInv, Firmware, Whole, Distinct, Members
<1>4. HasGit' = HasGit /\ Labelled' = Labelled /\ Covers(order)' = Covers(order)
  BY DEF HasGit, Labelled, Unique, WithLabel, Covers, Number, Members
<1>5. Installing'
  BY <1>4 DEF OInv, Installing, Whole, Distinct, Members
<1>6. Bootable'
  BY <1>4 DEF OInv, Bootable
<1>7. QED
  BY <1>2, <1>3, <1>5, <1>6 DEF OInv

\* One that writes BootOrder: what it puts first has a label that may be first.
LEMMA OrderStep ==
    ASSUME IInv, OInv, NEW o \in Operators, setup.at = "done",
           UNCHANGED <<uki, entry, setup>>, Sound(op[o])',
           op[o].at \in {"enter", "write"}, order' = First(op[o].number, op[o].got),
           \A i \in Operators \ {o} : op'[i] = [op[i] EXCEPT !.calm = FALSE]
    PROVE  OInv'
<1> DEFINE n == op[o].number
           got == op[o].got
<1>1. n \in Numbers /\ entry[n] = <<"A", op[o].kernel>> /\ Whole(got) /\ Covers(got)
  BY DEF OInv, Sound
<1>2. op[o].kernel \in {"stable", "lts", "git"}
  BY DEF IInv, Shape, OpShape, Promotions
<1>3. Whole(order') /\ order'[1] = n /\ Members(order') = Members(got) \union {n}
  BY <1>1, FirstKeeps
<1>4. Firmware'
  BY <1>3 DEF OInv, Firmware, Whole, Distinct, Members
<1>5. Keeps
  BY KeepsAll
<1>6. \A i \in Operators : Sound(op[i])'
  <2> SUFFICES ASSUME NEW i \in Operators  PROVE Sound(op[i])'
    OBVIOUS
  <2>1. CASE i = o
    BY <2>1
  <2>2. CASE i # o
    BY <2>2, <1>5, StaysSound DEF OInv
  <2>3. QED
    BY <2>1, <2>2
<1>7. HasGit' = HasGit /\ Labelled' = Labelled
  BY DEF HasGit, Labelled, Unique, WithLabel
<1>8. Covers(order)'
  <2>1. \A label \in RegularLabels : Number(label)' \in Members(order')
    BY <1>1, <1>3, <1>5 DEF Covers, Keeps
  <2>2. QED
    BY <2>1 DEF Covers, Members
<1>9. entry'[order'[1]] \in Preferred
  BY <1>1, <1>2, <1>3 DEF Preferred, GitLabel
<1>10. Installing'
  BY <1>7, <1>8, <1>9 DEF OInv, Installing
<1>11. Bootable'
  BY <1>7 DEF OInv, Bootable, GitSigned, Verified
<1>12. QED
  BY <1>4, <1>6, <1>10, <1>11 DEF OInv

\* An entry that is created gets a number of its own.
LEMMA EntryAdded ==
    ASSUME Firmware, Free # {}, NEW new \in Labels \ {NoLabel},
           entry' = [entry EXCEPT ![LowestFree] = new]
    PROVE  /\ LowestFree \in Numbers /\ entry'[LowestFree] = new
           /\ \A n \in Numbers : entry[n] # NoLabel => entry'[n] = entry[n]
           /\ \A n \in Numbers : entry'[n] = entry[n] \/ entry'[n] = new
           /\ entry' \in [Numbers -> Labels] /\ entry'[1] = Other
<1>1. LowestFree \in Numbers /\ entry[LowestFree] = NoLabel
  BY LowestIsFree DEF Free
<1>2. 1 \in Numbers
  BY BootAssumption DEF Numbers
<1>3. QED
  BY <1>1, <1>2 DEF Firmware, Other, NoLabel

\* Where a label is the same numbers' as before, it is unique as before.
LEMMA SameNumber ==
    ASSUME NEW label, Unique(label),
           \A n \in Numbers : (entry'[n] = label) <=> (entry[n] = label)
    PROVE  Unique(label)' /\ Number(label)' = Number(label)
<1>1. WithLabel(label)' = WithLabel(label)
  BY DEF WithLabel
<1>2. Unique(label)'
  BY <1>1 DEF Unique
<1> DEFINE m == Number(label)
<1>3. m \in Numbers /\ \A n \in Numbers : entry[n] = label <=> n = m
  BY UniqueNumber DEF WithLabel
<1> HIDE DEF m
<1>4. \A n \in Numbers : entry'[n] = label <=> n = m
  BY <1>3
<1>5. Number(label)' = m
  BY <1>3, <1>4 DEF Number
<1>6. QED
  BY <1>2, <1>5 DEF m

\* The order the installation wants has each regular label's number once.
LEMMA WantedNumbers ==
    ASSUME Firmware, Labelled
    PROVE  /\ Wanted \in Seq(Numbers) /\ Distinct(Wanted) /\ 1 \notin Members(Wanted)
           /\ Len(Wanted) = 6 /\ entry[Wanted[1]] = <<"A", "stable">>
           /\ \A label \in RegularLabels : Number(label) \in Members(Wanted)
<1>1. \A i \in 1..6 : FinalOrder[i] \in RegularLabels
  BY DEF FinalOrder, RegularLabels, RegularImages, Regular
<1>2. \A label \in RegularLabels : \E i \in 1..6 : FinalOrder[i] = label
  BY DEF FinalOrder, RegularLabels, RegularImages, Regular
<1>3. \A i, j \in 1..6 : FinalOrder[i] = FinalOrder[j] => i = j
  BY DEF FinalOrder
<1>4. \A i \in 1..6 : Number(FinalOrder[i]) \in Numbers /\ entry[Number(FinalOrder[i])] = FinalOrder[i]
  <2> SUFFICES ASSUME NEW i \in 1..6
               PROVE  Number(FinalOrder[i]) \in Numbers /\ entry[Number(FinalOrder[i])] = FinalOrder[i]
    OBVIOUS
  <2>1. Unique(FinalOrder[i])
    BY <1>1 DEF Labelled
  <2>2. QED
    BY <2>1, UniqueNumber DEF WithLabel
<1> DEFINE w == [i \in 1..6 |-> Number(FinalOrder[i])]
<1>5. w \in Seq(Numbers) /\ DOMAIN w = 1..6 /\ Len(w) = 6
  <2>1. w \in Seq(Numbers)
    BY <1>4, IsASeq
  <2>2. DOMAIN w = 1..6
    OBVIOUS
  <2> HIDE DEF w
  <2>3. QED
    BY <2>1, <2>2, LenProperties
<1>6. \A i \in 1..6 : w[i] = Number(FinalOrder[i]) /\ entry[w[i]] = FinalOrder[i]
  BY <1>4
<1>7. w = Wanted
  BY DEF Wanted
<1> HIDE DEF w
<1>8. Distinct(w)
  BY <1>3, <1>5, <1>6 DEF Distinct
<1>9. 1 \notin Members(w)
  <2>1. \A i \in 1..6 : w[i] # 1
    <3>1. \A i \in 1..6 : FinalOrder[i] # Other
      BY DEF FinalOrder, Other
    <3>2. QED
      BY <3>1, <1>6 DEF Firmware
  <2>2. QED
    BY <2>1, <1>5 DEF Members
<1>10. \A label \in RegularLabels : Number(label) \in Members(w)
  BY <1>2, <1>5, <1>6 DEF Members
<1>11. entry[w[1]] = <<"A", "stable">>
  BY <1>6 DEF FinalOrder
<1>12. QED
  BY <1>5, <1>7, <1>8, <1>9, <1>10, <1>11

\* Every step keeps the order sound.
LEMMA OInvNext == IInv /\ OInv /\ [Next]_vars => OInv'
<1> SUFFICES ASSUME IInv, OInv, [Next]_vars  PROVE OInv'
  OBVIOUS
<1> USE DEF OInv
<1>0. 1 \in Numbers
  BY BootAssumption DEF Numbers
<1>1. CASE Populate
  <2>1. Firmware'
    BY <1>1 DEF Populate, Firmware, Whole, Distinct, Members
  <2>2. ~HasGit'
    BY <1>1 DEF Populate, Installing, HasGit
  <2>3. Installing'
    BY <1>1, <2>2 DEF Populate, Installing
  <2>4. QED
    BY <1>1, <2>1, <2>3, InstallStep DEF Populate
<1>2. CASE CreateEntry
  <2> DEFINE new == CreateOrder[setup.k]
  <2>1. /\ setup.at = "create" /\ setup.k \in 1..6 /\ ~HasGit
        /\ Free # {} /\ entry' = [entry EXCEPT ![LowestFree] = new]
        /\ setup' = [setup EXCEPT !.at = "enter", !.got = order]
        /\ UNCHANGED <<uki, order, sync, op, builds>>
    BY <1>2 DEF CreateEntry, Installing
  <2>2. new \in RegularLabels
    BY <2>1 DEF CreateOrder, RegularLabels, RegularImages, Regular
  <2>3. new \in Labels \ {NoLabel} /\ new # GitLabel
    BY <2>2 DEF Labels, RegularLabels, RegularImages, Regular, NoLabel, GitLabel
  <2> HIDE DEF new
  <2>4. /\ LowestFree \in Numbers /\ entry'[LowestFree] = new
        /\ \A n \in Numbers : entry'[n] = entry[n] \/ entry'[n] = new
        /\ entry' \in [Numbers -> Labels] /\ entry'[1] = Other
    BY <2>1, <2>3, EntryAdded
  <2>5. Firmware'
    BY <2>1, <2>4 DEF Firmware, Whole, Distinct, Members
  <2>6. ~HasGit'
    BY <2>1, <2>3, <2>4 DEF HasGit
  <2>7. setup'.at = "enter" /\ setup'.k = setup.k /\ setup'.got = order
    BY <2>1 DEF IInv, Shape, SetupShape
  <2>8. Whole(setup.got)'
    BY <2>1, <2>7 DEF Firmware, Whole, Distinct, Members
  <2>9. \E n \in Numbers : entry'[n] = CreateOrder[setup'.k]
    BY <2>4, <2>7 DEF new
  <2>10. Installing'
    BY <2>1, <2>6, <2>7, <2>8, <2>9 DEF Installing
  <2>11. QED
    BY <2>1, <2>3, <2>4, <2>5, <2>10, InstallStep
<1>3. CASE EnterEntry
  <2> DEFINE n == Number(CreateOrder[setup.k])
  <2>1. /\ setup.at = "enter" /\ setup.k \in 1..6 /\ Whole(setup.got) /\ ~HasGit
        /\ order' = First(n, setup.got)
        /\ setup' = [at |-> IF setup.k < 6 THEN "create" ELSE "read",
                     k |-> setup.k + 1, got |-> <<>>]
        /\ UNCHANGED <<uki, entry, sync, op, builds>>
    BY <1>3 DEF EnterEntry, Installing
  <2>2. n \in Numbers
    BY <2>1 DEF Installing, Number
  <2> HIDE DEF n
  <2>3. Whole(order')
    BY <2>1, <2>2, FirstKeeps
  <2>4. Firmware'
    BY <2>1, <2>3 DEF Firmware, Whole, Distinct, Members
  <2>5. ~HasGit'
    BY <2>1 DEF HasGit
  <2>6. Installing'
    BY <2>1, <2>5 DEF Installing
  <2>7. QED
    BY <2>1, <2>4, <2>6, InstallStep
<1>4. CASE ReadOrder
  <2>1. /\ setup.at = "read" /\ Labelled /\ ~HasGit
        /\ setup' = [setup EXCEPT !.at = "write", !.got = order]
        /\ UNCHANGED <<uki, entry, order, sync, op, builds>>
    BY <1>4 DEF ReadOrder, Labelled, Installing
  <2>2. setup'.at = "write" /\ setup'.got = order
    BY <2>1 DEF IInv, Shape, SetupShape
  <2>3. Firmware' /\ Whole(setup.got)'
    BY <2>1, <2>2 DEF Firmware, Whole, Distinct, Members
  <2>4. Labelled' /\ ~HasGit'
    BY <2>1 DEF Labelled, Unique, WithLabel, HasGit
  <2>5. Installing'
    BY <2>2, <2>3, <2>4 DEF Installing
  <2>6. QED
    BY <2>1, <2>3, <2>5, InstallStep
<1>5. CASE WriteOrder
  <2> DEFINE rest == Without(setup.got, Members(Wanted))
  <2>1. /\ setup.at = "write" /\ Labelled /\ Whole(setup.got) /\ ~HasGit
        /\ order' = Wanted \o rest
        /\ setup' = [setup EXCEPT !.at = "verify", !.got = <<>>]
        /\ UNCHANGED <<uki, entry, sync, op, builds>>
    BY <1>5 DEF WriteOrder, Installing
  <2>2. /\ Wanted \in Seq(Numbers) /\ Distinct(Wanted) /\ 1 \notin Members(Wanted)
        /\ Len(Wanted) = 6 /\ entry[Wanted[1]] = <<"A", "stable">>
        /\ \A label \in RegularLabels : Number(label) \in Members(Wanted)
    BY <2>1, WantedNumbers
  <2>3. /\ rest \in Seq(Numbers) /\ Distinct(rest)
        /\ Members(rest) = Members(setup.got) \ Members(Wanted)
    BY <2>1, WithoutKeeps DEF Whole
  <2> HIDE DEF rest
  <2>4. /\ order' \in Seq(Numbers) /\ Distinct(order')
        /\ Members(order') = Members(Wanted) \union Members(rest)
    BY <2>1, <2>2, <2>3, ConcatKeeps
  <2>5. Whole(order')
    BY <2>1, <2>2, <2>3, <2>4 DEF Whole
  <2>6. order'[1] = Wanted[1]
    <3>1. Len(rest) \in Nat
      BY <2>3, LenProperties
    <3>2. 1 \in 1..Len(Wanted) + Len(rest) /\ 1 <= Len(Wanted)
      BY <2>2, <3>1
    <3>3. (Wanted \o rest)[1] = Wanted[1]
      BY <2>2, <2>3, <3>2, ConcatProperties
    <3>4. QED
      BY <2>1, <3>3
  <2>7. Firmware'
    BY <2>1, <2>5 DEF Firmware, Whole, Distinct, Members
  <2>8. Labelled' /\ ~HasGit'
    BY <2>1 DEF Labelled, Unique, WithLabel, HasGit
  <2>9. Covers(order)'
    <3>1. \A label \in RegularLabels : Number(label)' = Number(label)
      BY <2>1 DEF Number
    <3>2. QED
      BY <3>1, <2>2, <2>4 DEF Covers, Members
  <2>10. setup'.at = "verify"
    BY <2>1 DEF IInv, Shape, SetupShape
  <2>11. Installing'
    BY <2>1, <2>2, <2>6, <2>8, <2>9, <2>10 DEF Installing, Preferred
  <2>12. QED
    BY <2>1, <2>7, <2>11, InstallStep
<1>6. CASE VerifyInitial
  <2>1. /\ setup.at = "verify" /\ Labelled /\ ~HasGit
        /\ Covers(order) /\ entry[order[1]] \in Preferred
        /\ setup'.at = "done"
        /\ UNCHANGED <<uki, entry, order, sync, op, builds>>
    BY <1>6 DEF VerifyInitial, Installing
  <2>2. Firmware'
    BY <2>1 DEF Firmware, Whole, Distinct, Members
  <2>3. Labelled' /\ ~HasGit' /\ Covers(order)'
    BY <2>1 DEF Labelled, Unique, WithLabel, HasGit, Covers, Number, Members
  <2>4. Installing'
    BY <2>1, <2>3 DEF Installing
  <2>5. QED
    BY <2>1, <2>2, <2>4, InstallStep
<1>7. CASE SetupStops
  <2>1. /\ setup.at # "done" /\ ~HasGit /\ setup'.at = "none"
        /\ UNCHANGED <<uki, entry, order, sync, op, builds>>
    BY <1>7 DEF SetupStops, Installing
  <2>2. Firmware' /\ ~HasGit'
    BY <2>1 DEF Firmware, Whole, Distinct, Members, HasGit
  <2>3. Installing'
    BY <2>1, <2>2 DEF Installing
  <2>4. QED
    BY <2>1, <2>2, <2>3, InstallStep
<1>8. ASSUME NEW n \in Numbers, RemoveEntry(n)  PROVE OInv'
  <2>1. /\ setup.at = "none" /\ ~HasGit /\ entry[n] \in RegularLabels
        /\ entry' = [entry EXCEPT ![n] = NoLabel]
        /\ order' = Without(order, {n})
        /\ UNCHANGED <<uki, setup, sync, op, builds>>
    BY <1>8 DEF RemoveEntry, Installing
  <2>2. n # 1
    BY <2>1 DEF Firmware, RegularLabels, RegularImages, Regular, Other
  <2>3. order' \in Seq(Numbers) /\ Members(order') = Members(order) \ {n} /\ Distinct(order')
    BY <2>1, WithoutKeeps DEF Firmware, Whole
  <2>4. entry' \in [Numbers -> Labels] /\ entry'[1] = Other
    BY <2>1, <2>2, <1>0 DEF Firmware, Labels
  <2>5. Firmware'
    BY <2>2, <2>3, <2>4 DEF Firmware, Whole, Distinct, Members
  <2>6. \A m \in Numbers : entry'[m] = GitLabel => entry[m] = GitLabel
    BY <2>1 DEF Firmware, GitLabel, NoLabel
  <2>7. ~HasGit'
    BY <2>1, <2>6 DEF HasGit
  <2>8. Installing'
    BY <2>1, <2>7 DEF Installing
  <2>9. QED
    BY <2>1, <2>5, <2>6, <2>8, InstallStep
<1>9. CASE SignCandidate
  BY <1>9, AsideStep DEF SignCandidate, Disturb
<1>10. ASSUME NEW f \in Files, Truncate(f) \/ Fill(f)  PROVE OInv'
  <2>1. f # <<"A", "git">> /\ f # <<"B", "git">>
    BY <1>10, BootAssumption DEF Truncate, Fill, Built
  <2>2. \E image : uki' = [uki EXCEPT ![f] = image]
    BY <1>10 DEF Truncate, Fill
  <2>3. uki'[<<"A", "git">>] = uki[<<"A", "git">>] /\ uki'[<<"B", "git">>] = uki[<<"B", "git">>]
    BY <2>1, <2>2
  <2>4. Disturb /\ UNCHANGED <<entry, order, setup>>
    BY <1>10 DEF Truncate, Fill
  <2>5. QED
    BY <2>3, <2>4, AsideStep DEF Disturb
<1>11. ASSUME NEW s \in Syncs, NEW sign \in BOOLEAN, SyncBegin(s, sign)  PROVE OInv'
  BY <1>11, AsideStep DEF SyncBegin
<1>12. ASSUME NEW s \in Syncs, SyncSign(s)  PROVE OInv'
  <2>1. sync[s].k \in 1..3
    BY <1>12 DEF SyncSign, IInv, Staged
  <2>2. <<"A", Regular[sync[s].k]>> # <<"A", "git">>
    BY <2>1 DEF Regular
  <2>3. QED
    BY <1>12, <2>2, AsideStep DEF SyncSign, SyncWrites
<1>13. ASSUME NEW s \in Syncs, SyncStage(s)  PROVE OInv'
  BY <1>13, AsideStep DEF SyncStage
<1>14. ASSUME NEW s \in Syncs, SyncCommit(s)  PROVE OInv'
  <2>1. sync[s].k \in 1..5
    BY DEF IInv, Shape, SyncShape, Runs
  <2>2. \A k \in 1..5 : Copies[k] # <<"A", "git">> /\ Copies[k] # <<"B", "git">>
    BY DEF Copies
  <2>3. QED
    BY <1>14, <2>1, <2>2, AsideStep DEF SyncCommit, SyncWrites
<1>15. ASSUME NEW s \in Syncs, SyncLeaves(s)  PROVE OInv'
  BY <1>15, AsideStep DEF SyncLeaves
<1>16. ASSUME NEW o \in Operators, NEW kernel \in Kernels, PromoteBegin(o, kernel)
       PROVE  OInv'
  <2> DEFINE found == WithLabel(<<"A", kernel>>)
  <2>1. /\ Cardinality(found) = 1 \/ (kernel = "git" /\ found = {})
        /\ op' = [op EXCEPT ![o].at = "stage_a", ![o].kernel = kernel,
                            ![o].fresh = found = {}, ![o].calm = TRUE]
        /\ UNCHANGED <<uki, entry, order, setup>>
    BY <1>16 DEF PromoteBegin
  <2>2. found = {} => kernel = "git"
    <3> HIDE DEF found
    <3>1. QED
      BY <2>1, FS_EmptySet
  <2> HIDE DEF found
  <2>3. /\ op'[o].at = "stage_a"
        /\ op'[o].kernel = kernel
        /\ op'[o].fresh => kernel = "git"
    BY <2>1, <2>2 DEF IInv, Shape, OpShape, Promotions
  <2>4. Sound(op[o])'
    BY <2>3 DEF Sound
  <2>5. GitSigned("A")' = GitSigned("A") /\ GitSigned("B")' = GitSigned("B")
    BY <2>1 DEF GitSigned, Verified
  <2>6. \A i \in Operators \ {o} : op'[i] = op[i]
    BY <2>1 DEF IInv, Shape, OpShape
  <2>7. QED
    BY <2>1, <2>4, <2>5, <2>6, RunStep
<1>17. ASSUME NEW o \in Operators, NEW kernel \in Kernels, RollbackBegin(o, kernel)
       PROVE  OInv'
  <2>1. ~op[o].fresh /\ op[o].fresh \in BOOLEAN
    BY <1>17 DEF RollbackBegin, Sound, IInv, Shape, OpShape, Promotions
  <2>2. op'[o].at = "compare" /\ ~op'[o].fresh
    BY <1>17, <2>1 DEF RollbackBegin, IInv, Shape, OpShape, Promotions
  <2>3. Sound(op[o])'
    BY <2>2 DEF Sound
  <2>4. GitSigned("A")' = GitSigned("A") /\ GitSigned("B")' = GitSigned("B")
    BY <1>17 DEF RollbackBegin, GitSigned, Verified
  <2>5. QED
    BY <1>17, <2>3, <2>4, RunStep DEF RollbackBegin, IInv, Shape, OpShape
<1> DEFINE Fields(o) == /\ op[o] \in Promotions(op[o].number, op[o].got)
                        /\ op = [i \in Operators |-> op[i]]
<1>18. \A o \in Operators : Fields(o)
  BY DEF IInv, Shape, OpShape
<1>19. UNCHANGED uki => /\ GitSigned("A")' = GitSigned("A")
                        /\ GitSigned("B")' = GitSigned("B")
  BY DEF GitSigned, Verified
<1>20. ASSUME NEW o \in Operators, PromoteStageA(o)  PROVE OInv'
  <2>1. /\ op'[o].at = "stage_b" /\ op'[o].kernel = op[o].kernel /\ op'[o].fresh = op[o].fresh
        /\ \A i \in Operators \ {o} : op'[i] = op[i]
    BY <1>20, <1>18 DEF PromoteStageA, Promotions
  <2>2. Sound(op[o])'
    BY <2>1 DEF Sound
  <2>3. QED
    BY <1>20, <2>1, <2>2, <1>19, RunStep DEF PromoteStageA
<1>21. ASSUME NEW o \in Operators, PromoteStageB(o)  PROVE OInv'
  <2>1. /\ op'[o].at = "move_a" /\ op'[o].kernel = op[o].kernel /\ op'[o].fresh = op[o].fresh
        /\ op'[o].a = op[o].a /\ Verified(op[o].a)
        /\ \A i \in Operators \ {o} : op'[i] = op[i]
    BY <1>21, <1>18 DEF PromoteStageB, Promotions
  <2>2. Sound(op[o])'
    BY <2>1 DEF Sound, Verified
  <2>3. QED
    BY <1>21, <2>1, <2>2, <1>19, RunStep DEF PromoteStageB
<1>22. ASSUME NEW o \in Operators, PromoteMoveA(o)  PROVE OInv'
  <2>1. /\ op'[o].at = "move_b" /\ op'[o].kernel = op[o].kernel /\ op'[o].fresh = op[o].fresh
        /\ \A i \in Operators \ {o} : op'[i] = [op[i] EXCEPT !.calm = FALSE]
    BY <1>22, <1>18 DEF PromoteMoveA, Copied, OpWrites, Promotions
  <2>2. /\ Verified(op[o].a)
        /\ uki' = [uki EXCEPT ![<<"A", op[o].kernel>>] = op[o].a]
    BY <1>22 DEF PromoteMoveA, Sound
  <2>3. op[o].kernel \in {"stable", "lts", "git"} /\ <<"A", "git">> \in Files
    BY <1>18, PromotedFiles DEF Promotions
  <2>4. /\ GitSigned("A") \/ op[o].kernel = "git" => GitSigned("A")'
        /\ GitSigned("B") => GitSigned("B")'
    BY <2>2, <2>3 DEF GitSigned, Verified, IInv, Shape
  <2>5. Sound(op[o])'
    BY <2>1, <2>4 DEF Sound
  <2>6. QED
    BY <1>22, <2>1, <2>4, <2>5, RunStep DEF PromoteMoveA
<1>23. ASSUME NEW o \in Operators, PromoteMoveB(o)  PROVE OInv'
  <2>1. /\ op'[o].at = IF op[o].fresh THEN "create" ELSE "select"
        /\ op'[o].kernel = op[o].kernel /\ ~op'[o].fresh
        /\ \A i \in Operators \ {o} : op'[i] = [op[i] EXCEPT !.calm = FALSE]
    BY <1>23, <1>18 DEF PromoteMoveB, OpWrites, Promotions
  <2>2. /\ Verified(op[o].b) /\ op[o].at = "move_b"
        /\ uki' = [uki EXCEPT ![<<"B", op[o].kernel>>] = op[o].b]
    BY <1>23 DEF PromoteMoveB, IInv, Promoted
  <2>3. op[o].kernel \in {"stable", "lts", "git"} /\ <<"B", "git">> \in Files
    BY <1>18, PromotedFiles DEF Promotions
  <2>4. /\ GitSigned("B") \/ op[o].kernel = "git" => GitSigned("B")'
        /\ GitSigned("A") => GitSigned("A")'
    BY <2>2, <2>3 DEF GitSigned, Verified, IInv, Shape
  <2>5. op[o].kernel = "git" => GitSigned("A")
    BY <2>2 DEF Sound
  <2>6. op[o].fresh => op[o].kernel = "git"
    BY DEF Sound
  <2>7. Sound(op[o])'
    BY <2>1, <2>4, <2>5, <2>6 DEF Sound
  <2>8. QED
    BY <1>23, <2>1, <2>4, <2>7, RunStep DEF PromoteMoveB
<1>24. ASSUME NEW o \in Operators, PromoteCreate(o)  PROVE OInv'
  <2>1. /\ op[o].at = "create" /\ Free # {} /\ setup.at = "done"
        /\ entry' = [entry EXCEPT ![LowestFree] = GitLabel]
        /\ UNCHANGED <<uki, order, setup, builds>>
    BY <1>24 DEF PromoteCreate, IInv, Quiet
  <2>2. GitLabel \in Labels \ {NoLabel}
    BY DEF GitLabel, Labels, NoLabel
  <2>3. /\ LowestFree \in Numbers /\ entry'[LowestFree] = GitLabel
        /\ \A n \in Numbers : entry[n] # NoLabel => entry'[n] = entry[n]
        /\ \A n \in Numbers : entry'[n] = entry[n] \/ entry'[n] = GitLabel
        /\ entry' \in [Numbers -> Labels] /\ entry'[1] = Other
    BY <2>1, <2>2, EntryAdded
  <2>4. /\ op'[o].at = "enter" /\ op'[o].kernel = op[o].kernel /\ op'[o].fresh = op[o].fresh
        /\ op'[o].number = LowestFree /\ op'[o].got = order
        /\ \A i \in Operators \ {o} : op'[i] = [op[i] EXCEPT !.calm = FALSE]
    BY <1>24, <1>18 DEF PromoteCreate, OpWrites, Promotions
  <2>5. Firmware'
    BY <2>1, <2>3 DEF Firmware, Whole, Distinct, Members
  <2>6. \A label \in RegularLabels : Unique(label)' /\ Number(label)' = Number(label)
    <3> SUFFICES ASSUME NEW label \in RegularLabels
                 PROVE  Unique(label)' /\ Number(label)' = Number(label)
      OBVIOUS
    <3>1. label # GitLabel /\ label # NoLabel
      BY DEF RegularLabels, RegularImages, Regular, GitLabel, NoLabel
    <3>2. Unique(label)
      BY <2>1 DEF Installing, Labelled
    <3>3. \A n \in Numbers : (entry'[n] = label) <=> (entry[n] = label)
      BY <2>3, <3>1
    <3>4. QED
      BY <3>2, <3>3, SameNumber
  <2>7. Keeps
    BY <2>1, <2>3, <2>6 DEF Keeps, GitSigned, Verified
  <2>8. op[o].kernel = "git" /\ GitSigned("A") /\ GitSigned("B")
    BY <2>1 DEF Sound
  <2>9. Covers(order)'
    BY <2>1, <2>6 DEF Installing, Covers, Members
  <2>10. Sound(op[o])'
    <3>1. Whole(op[o].got)' /\ Covers(op[o].got)'
      BY <2>4, <2>5, <2>9, <2>1 DEF Firmware, Whole, Distinct, Members, Covers
    <3>2. op[o].fresh => op[o].kernel = "git"
      BY DEF Sound
    <3>3. GitSigned("A")' /\ GitSigned("B")'
      BY <2>7, <2>8 DEF Keeps
    <3>4. QED
      BY <2>3, <2>4, <2>8, <3>1, <3>3 DEF Sound, GitLabel
  <2>11. \A i \in Operators : Sound(op[i])'
    <3> SUFFICES ASSUME NEW i \in Operators  PROVE Sound(op[i])'
      OBVIOUS
    <3>1. CASE i = o
      BY <3>1, <2>10
    <3>2. CASE i # o
      BY <3>2, <2>4, <2>7, StaysSound
    <3>3. QED
      BY <3>1, <3>2
  <2>12. entry'[order'[1]] \in Preferred
    <3>1. order[1] \in Numbers
      <4>1. order \in Seq(Numbers) /\ 1 \in Members(order)
        BY DEF Firmware, Whole
      <4>2. 1 \in 1..Len(order)
        BY <4>1, LenProperties DEF Members
      <4>3. QED
        BY <4>1, <4>2, ElementOfSeq
    <3>2. entry[order[1]] \in Preferred
      BY <2>1 DEF Installing
    <3>3. entry[order[1]] # NoLabel
      BY <3>2 DEF Preferred, NoLabel, GitLabel
    <3>4. QED
      BY <3>1, <3>2, <3>3, <2>1, <2>3
  <2>13. Installing'
    BY <2>1, <2>6, <2>9, <2>12 DEF Installing, Labelled
  <2>14. Bootable'
    BY <2>7, <2>8 DEF Bootable, Keeps
  <2>15. QED
    BY <2>5, <2>11, <2>13, <2>14
<1>25. ASSUME NEW o \in Operators, PromoteEnter(o)  PROVE OInv'
  <2>1. /\ op'[o].at = "select" /\ op'[o].kernel = op[o].kernel /\ op'[o].fresh = op[o].fresh
        /\ \A i \in Operators \ {o} : op'[i] = [op[i] EXCEPT !.calm = FALSE]
    BY <1>25, <1>18 DEF PromoteEnter, OpWrites, Promotions
  <2>2. op[o].at = "enter" /\ setup.at = "done"
    BY <1>25 DEF PromoteEnter, IInv, Quiet
  <2>3. Sound(op[o])'
    BY <2>1 DEF Sound
  <2>4. QED
    BY <1>25, <2>1, <2>2, <2>3, OrderStep DEF PromoteEnter
<1>26. ASSUME NEW o \in Operators, RollbackCompare(o)  PROVE OInv'
  <2>1. /\ op'[o].at = "select" /\ op'[o].kernel = op[o].kernel /\ op'[o].fresh = op[o].fresh
        /\ \A i \in Operators \ {o} : op'[i] = op[i]
    BY <1>26, <1>18 DEF RollbackCompare, Promotions
  <2>2. Sound(op[o])'
    BY <2>1 DEF Sound
  <2>3. QED
    BY <1>26, <2>1, <2>2, <1>19, RunStep DEF RollbackCompare
<1>27. ASSUME NEW o \in Operators, SelectRead(o)  PROVE OInv'
  <2> DEFINE label == <<"A", op[o].kernel>>
  <2>1. /\ op'[o].at = "write" /\ op'[o].kernel = op[o].kernel /\ op'[o].fresh = op[o].fresh
        /\ op'[o].number = Number(label) /\ op'[o].got = order
        /\ \A i \in Operators \ {o} : op'[i] = op[i]
    BY <1>27, <1>18 DEF SelectRead, Promotions
  <2>2. setup.at = "done" /\ Unique(label) /\ UNCHANGED <<uki, entry, order, setup>>
    BY <1>27 DEF SelectRead, IInv, Quiet
  <2>3. Number(label) \in Numbers /\ entry[Number(label)] = label
    BY <2>2, UniqueNumber DEF WithLabel
  <2>4. Whole(op[o].got)' /\ Covers(op[o].got)'
    BY <2>1, <2>2 DEF Firmware, Whole, Distinct, Members, Installing, Covers, Number
  <2>5. op[o].fresh => op[o].kernel = "git"
    BY DEF Sound
  <2>6. Sound(op[o])'
    BY <2>1, <2>2, <2>3, <2>4, <2>5 DEF Sound
  <2>7. QED
    BY <2>1, <2>2, <2>6, <1>19, RunStep
<1>28. ASSUME NEW o \in Operators, SelectWrite(o)  PROVE OInv'
  <2>1. /\ op'[o].at = "end" /\ op'[o].kernel = op[o].kernel /\ op'[o].fresh = op[o].fresh
        /\ \A i \in Operators \ {o} : op'[i] = [op[i] EXCEPT !.calm = FALSE]
    BY <1>28, <1>18 DEF SelectWrite, OpWrites, Promotions
  <2>2. op[o].at = "write" /\ setup.at = "done"
    BY <1>28 DEF SelectWrite, IInv, Quiet
  <2>3. Sound(op[o])'
    BY <2>1 DEF Sound
  <2>4. QED
    BY <1>28, <2>1, <2>2, <2>3, OrderStep DEF SelectWrite
<1>29. ASSUME NEW o \in Operators, OpLeaves(o)  PROVE OInv'
  <2>1. op'[o] = IdleOp /\ \A i \in Operators \ {o} : op'[i] = op[i]
    BY <1>29, <1>18 DEF OpLeaves
  <2>2. op'[o].at = "idle" /\ ~op'[o].fresh
    BY <2>1 DEF IdleOp
  <2>3. Sound(op[o])'
    BY <2>2 DEF Sound
  <2>4. QED
    BY <1>29, <2>1, <2>3, <1>19, RunStep DEF OpLeaves
<1>30. CASE UNCHANGED vars
  BY <1>30, AsideStep DEF vars
<1>31. QED
  BY <1>1, <1>2, <1>3, <1>4, <1>5, <1>6, <1>7, <1>8, <1>9, <1>10, <1>11, <1>12, <1>13,
     <1>14, <1>15, <1>16, <1>17, <1>20, <1>21, <1>22, <1>23, <1>24, <1>25, <1>26, <1>27,
     <1>28, <1>29, <1>30 DEF Next

\* Once installed, the firmware boots a whole image first, and has all it needs.
LEMMA SoundOrder == IInv /\ OInv => OrderSound
<1> SUFFICES ASSUME IInv, OInv, Installed  PROVE PreferredWhole /\ FallbacksOrdered
  BY DEF OrderSound, PreferredWhole, FallbacksOrdered
<1>1. Labelled /\ Covers(order) /\ entry[order[1]] \in Preferred
  BY DEF OInv, Installing, Installed
<1>2. Whole(order)
  BY DEF OInv, Firmware
<1>3. Cardinality(Members(order)) = Len(order)
  BY <1>2, DistinctLength DEF Whole
<1>4. Members(order) \subseteq Numbers
  <2> SUFFICES ASSUME NEW i \in DOMAIN order  PROVE order[i] \in Numbers
    BY DEF Members
  <2>1. QED
    BY <1>2, LenProperties, ElementOfSeq DEF Whole
<1>5. PreferredWhole
  BY <1>1, <1>4 DEF PreferredWhole, Preferred, OInv, Bootable, HasGit, GitSigned, Verified
<1>6. FallbacksOrdered
  BY <1>1, <1>2, <1>3 DEF FallbacksOrdered, Labelled, Covers, Whole
<1>7. QED
  BY <1>5, <1>6

\* Once installed, and whatever several operators do at once, are killed at, or lose of
\* each other's writes: the firmware first boots a primary kernel, or the git kernel
\* when both its images are signed; every installed entry stays in BootOrder under its
\* one label (ARCHITECTURE.md: promotion "never deletes a fallback").
THEOREM AlwaysOrdered == Spec => []OrderSound
<1>1. Init => IInv /\ OInv
  BY IInvInit, OInvInit
<1>2. (IInv /\ OInv) /\ [Next]_vars => (IInv /\ OInv)'
  BY IInvNext, OInvNext
<1>3. IInv /\ OInv => OrderSound
  BY SoundOrder
<1>4. QED
  BY <1>1, <1>2, <1>3, PTL DEF Spec

-----------------------------------------------------------------------------
(* What a run that nobody disturbed has done                                *)

Original(k) == uki[Source(Copies[k])]

\* uki-sync holds, or has moved, copies of the images as they are.
Mirrors(r) ==
    /\ r.at = "stage" => \A j \in 1..5 : j < r.k => r.staged[j] = Original(j)
    /\ r.at \in {"commit", "end"} => \A j \in 1..5 : Verified(Original(j))
    /\ r.at = "commit" =>
         \A j \in 1..5 : /\ j < r.k => uki[Copies[j]] = Original(j)
                         /\ j >= r.k => r.staged[j] = Original(j)
    /\ r.at = "end" => \A j \in 1..5 : uki[Copies[j]] = Original(j)

\* A promotion holds copies of one image, then both files are that image; what is put
\* first is the one number with the kernel's label.
Selects(r) ==
    /\ r.at \in {"stage_b", "move_a"} => r.a = uki[From(r.kernel)]
    /\ r.at = "move_a" => r.b = r.a
    /\ r.at = "move_b" => uki[<<"A", r.kernel>>] = r.b
    /\ r.at \in {"create", "enter", "select", "write", "end"} => SameCopies(r.kernel)
    /\ r.at \in {"write", "end"} =>
         Unique(<<"A", r.kernel>>) /\ r.number = Number(<<"A", r.kernel>>)
    /\ r.at = "end" => order[1] = r.number

CInv == /\ \A s \in Syncs : sync[s].calm => Mirrors(sync[s])
        /\ \A o \in Operators : op[o].calm => Selects(op[o])

\* At first no run is under way.
LEMMA CInvInit == Init => CInv
BY DEF Init, CInv, IdleSync, IdleOp, Mirrors, Selects

\* Before the installation is over no run is under way, so there is nothing to say.
LEMMA BeforeCalm ==
    ASSUME IInv, setup.at # "done", UNCHANGED <<sync, op>>  PROVE CInv'
<1>1. /\ \A s \in Syncs : sync[s].at = "idle"
      /\ \A o \in Operators : op[o].at = "idle"
  BY DEF IInv, Quiet
<1>2. \A s \in Syncs : Mirrors(sync[s])'
  BY <1>1 DEF Mirrors
<1>3. \A o \in Operators : Selects(op[o])'
  BY <1>1 DEF Selects
<1>4. QED
  BY <1>2, <1>3 DEF CInv

\* Where the firmware and the images are as they were, a run that is as it was says
\* what it said.
LEMMA StaysCalm ==
    ASSUME CInv, UNCHANGED <<uki, entry, order>>
    PROVE  /\ \A s \in Syncs : sync'[s] = sync[s] => (sync[s].calm => Mirrors(sync[s]))'
           /\ \A o \in Operators : op'[o] = op[o] => (op[o].calm => Selects(op[o]))'
<1>1. ASSUME NEW s \in Syncs, sync'[s] = sync[s], sync'[s].calm  PROVE Mirrors(sync[s])'
  <2>1. Mirrors(sync[s])
    BY <1>1 DEF CInv
  <2>2. \A j \in 1..5 : Original(j)' = Original(j)
    BY DEF Original
  <2>3. QED
    BY <1>1, <2>1, <2>2 DEF Mirrors, Verified
<1>2. ASSUME NEW o \in Operators, op'[o] = op[o], op'[o].calm  PROVE Selects(op[o])'
  <2>1. Selects(op[o])
    BY <1>2 DEF CInv
  <2> DEFINE label == <<"A", op[o].kernel>>
  <2>2. Unique(label)' = Unique(label) /\ Number(label)' = Number(label)
    BY <1>2 DEF Unique, WithLabel, Number
  <2>3. SameCopies(op[o].kernel)' = SameCopies(op[o].kernel)
    BY <1>2 DEF SameCopies
  <2>4. QED
    BY <1>2, <2>1, <2>2, <2>3 DEF Selects
<1>3. QED
  BY <1>1, <1>2

\* A step of one run of uki-sync: the others are as they were and nothing was written,
\* or they are disturbed.
LEMMA SyncCalm ==
    ASSUME IInv, CInv, NEW s \in Syncs, (sync[s].calm => Mirrors(sync[s]))',
           \/ /\ UNCHANGED <<uki, entry, order, op>>
              /\ \A i \in Syncs \ {s} : sync'[i] = sync[i]
           \/ /\ \A i \in Syncs \ {s} : sync'[i].calm = FALSE
              /\ \A o \in Operators : op'[o].calm = FALSE
    PROVE  CInv'
<1>1. \A i \in Syncs : (sync[i].calm => Mirrors(sync[i]))'
  BY StaysCalm
<1>2. \A o \in Operators : (op[o].calm => Selects(op[o]))'
  BY StaysCalm
<1>3. QED
  BY <1>1, <1>2 DEF CInv

\* A step of one promotion or rollback, likewise.
LEMMA OpCalm ==
    ASSUME IInv, CInv, NEW o \in Operators, (op[o].calm => Selects(op[o]))',
           \/ /\ UNCHANGED <<uki, entry, order, sync>>
              /\ \A i \in Operators \ {o} : op'[i] = op[i]
           \/ /\ \A i \in Operators \ {o} : op'[i].calm = FALSE
              /\ \A s \in Syncs : sync'[s].calm = FALSE
    PROVE  CInv'
<1>1. \A i \in Operators : (op[i].calm => Selects(op[i]))'
  BY StaysCalm
<1>2. \A s \in Syncs : (sync[s].calm => Mirrors(sync[s]))'
  BY StaysCalm
<1>3. QED
  BY <1>1, <1>2 DEF CInv

\* What uki-sync copies from is none of its copies, of which there are five.
LEMMA CopiesApart ==
    /\ \A j, k \in 1..5 : Source(Copies[j]) # Copies[k]
    /\ \A j, k \in 1..5 : Copies[j] = Copies[k] => j = k
BY DEF Source, Copies

\* Every step keeps what the runs that nobody disturbed have done.
LEMMA CInvNext == IInv /\ OInv /\ CInv /\ [Next]_vars => CInv'
<1> SUFFICES ASSUME IInv, OInv, CInv, [Next]_vars  PROVE CInv'
  OBVIOUS
<1>1. /\ \A s \in Syncs : sync[s] \in Runs
      /\ sync = [s \in Syncs |-> sync[s]]
      /\ \A o \in Operators : op[o] \in Promotions(op[o].number, op[o].got)
      /\ op = [o \in Operators |-> op[o]]
  BY DEF IInv, Shape, SyncShape, OpShape
<1>2. CASE \/ Populate \/ CreateEntry \/ EnterEntry \/ ReadOrder \/ WriteOrder
           \/ VerifyInitial \/ SetupStops \/ \E n \in Numbers : RemoveEntry(n)
  <2>1. setup.at # "done" /\ UNCHANGED <<sync, op>>
    BY <1>2 DEF Populate, CreateEntry, EnterEntry, ReadOrder, WriteOrder, VerifyInitial,
                SetupStops, RemoveEntry
  <2>2. QED
    BY <2>1, BeforeCalm
<1>3. CASE SignCandidate \/ \E f \in Files : Truncate(f) \/ Fill(f)
  <2>1. Disturb
    BY <1>3 DEF SignCandidate, Truncate, Fill
  <2>2. /\ \A s \in Syncs : sync'[s].calm = FALSE
        /\ \A o \in Operators : op'[o].calm = FALSE
    BY <2>1, <1>1 DEF Disturb, Runs, Promotions
  <2>3. QED
    BY <2>2 DEF CInv
<1>4. ASSUME NEW s \in Syncs, NEW sign \in BOOLEAN, SyncBegin(s, sign)  PROVE CInv'
  <2>1. sync[s].k = 1
    BY <1>4 DEF SyncBegin, IInv, Staged
  <2>2. /\ sync'[s].at \in {"sign", "stage"} /\ sync'[s].k = 1
        /\ \A i \in Syncs \ {s} : sync'[i] = sync[i]
    BY <1>4, <2>1, <1>1 DEF SyncBegin, Runs
  <2>3. Mirrors(sync[s])'
    BY <2>2 DEF Mirrors
  <2>4. QED
    BY <1>4, <2>2, <2>3, SyncCalm DEF SyncBegin
<1>5. ASSUME NEW s \in Syncs, NEW new, SyncWrites(s, new)
      PROVE  /\ sync'[s] = new
             /\ \A i \in Syncs \ {s} : sync'[i].calm = FALSE
             /\ \A o \in Operators : op'[o].calm = FALSE
  BY <1>5, <1>1 DEF SyncWrites, Runs, Promotions
<1>6. ASSUME NEW s \in Syncs, SyncSign(s)  PROVE CInv'
  <2> DEFINE new == IF sync[s].k < 3 THEN [sync[s] EXCEPT !.k = @ + 1]
                                     ELSE [sync[s] EXCEPT !.at = "stage", !.k = 1]
  <2>1. SyncWrites(s, new)
    BY <1>6 DEF SyncSign
  <2>2. new.at = "sign" \/ (new.at = "stage" /\ new.k = 1)
    BY <1>6, <1>1 DEF SyncSign, Runs
  <2> HIDE DEF new
  <2>3. /\ sync'[s] = new
        /\ \A i \in Syncs \ {s} : sync'[i].calm = FALSE
        /\ \A o \in Operators : op'[o].calm = FALSE
    BY <2>1, <1>5
  <2>4. Mirrors(sync[s])'
    BY <2>2, <2>3 DEF Mirrors
  <2>5. QED
    BY <2>3, <2>4, SyncCalm
<1>7. ASSUME NEW s \in Syncs, SyncStage(s)  PROVE CInv'
  <2> DEFINE k == sync[s].k
             image == Original(k)
             staged == [sync[s].staged EXCEPT ![k] = image]
             new == [at |-> IF k < 5 THEN "stage" ELSE "commit",
                     k |-> IF k < 5 THEN k + 1 ELSE 1,
                     staged |-> staged, calm |-> sync[s].calm]
  <2>1. /\ sync[s].at = "stage" /\ Verified(image)
        /\ sync' = [sync EXCEPT ![s] = new]
        /\ UNCHANGED <<uki, entry, order, setup, op, builds>>
    BY <1>7 DEF SyncStage, Original
  <2>2. k \in 1..5 /\ sync[s].staged \in [1..5 -> Images]
    BY <1>1 DEF Runs
  <2>3. /\ sync'[s].at = IF k < 5 THEN "stage" ELSE "commit"
        /\ sync'[s].k = IF k < 5 THEN k + 1 ELSE 1
        /\ sync'[s].staged = staged
        /\ sync'[s].calm = sync[s].calm
        /\ \A i \in Syncs \ {s} : sync'[i] = sync[i]
    BY <2>1, <1>1
  <2>4. \A j \in 1..5 : Original(j)' = Original(j)
    BY <2>1 DEF Original
  <2>5. staged[k] = image /\ \A j \in 1..5 : j # k => staged[j] = sync[s].staged[j]
    BY <2>2
  <2>6. \A j \in 1..5 : j < k => Verified(sync[s].staged[j])
    BY <2>1 DEF IInv, Staged
  <2> HIDE DEF staged, new
  <2>7. ASSUME sync[s].calm  PROVE Mirrors(sync[s])'
    <3>1. \A j \in 1..5 : j < k => sync[s].staged[j] = Original(j)
      BY <2>7, <2>1 DEF CInv, Mirrors
    <3>2. \A j \in 1..5 : j <= k => staged[j] = Original(j) /\ Verified(Original(j))
      BY <3>1, <2>1, <2>2, <2>5, <2>6
    <3> HIDE DEF k, image
    <3>3. CASE k < 5
      <4>1. sync'[s].at = "stage" /\ sync'[s].k = k + 1
        BY <2>3, <3>3
      <4>2. \A j \in 1..5 : j < k + 1 => sync'[s].staged[j] = Original(j)'
        BY <2>2, <2>3, <2>4, <3>2
      <4>3. QED
        BY <4>1, <4>2 DEF Mirrors
    <3>4. CASE ~(k < 5)
      <4>1. sync'[s].at = "commit" /\ sync'[s].k = 1
        BY <2>3, <3>4
      <4>2. \A j \in 1..5 : sync'[s].staged[j] = Original(j)' /\ Verified(Original(j))'
        BY <2>2, <2>3, <2>4, <3>2, <3>4 DEF Verified
      <4>3. QED
        BY <4>1, <4>2 DEF Mirrors
    <3>5. QED
      BY <3>3, <3>4
  <2>8. QED
    BY <2>1, <2>3, <2>7, SyncCalm
<1>8. ASSUME NEW s \in Syncs, SyncCommit(s)  PROVE CInv'
  <2> DEFINE k == sync[s].k
             staged == [sync[s].staged EXCEPT ![k] = Nothing]
             new == [at |-> IF k < 5 THEN "commit" ELSE "end",
                     k |-> IF k < 5 THEN k + 1 ELSE 1,
                     staged |-> staged, calm |-> sync[s].calm]
  <2>1. /\ sync[s].at = "commit"
        /\ uki' = [uki EXCEPT ![Copies[k]] = sync[s].staged[k]]
        /\ SyncWrites(s, new)
    BY <1>8 DEF SyncCommit
  <2>2. k \in 1..5 /\ sync[s].staged \in [1..5 -> Images]
    BY <1>1 DEF Runs
  <2>3. /\ sync'[s] = new
        /\ \A i \in Syncs \ {s} : sync'[i].calm = FALSE
        /\ \A o \in Operators : op'[o].calm = FALSE
    BY <2>1, <1>5
  <2>4. /\ sync'[s].at = IF k < 5 THEN "commit" ELSE "end"
        /\ sync'[s].k = IF k < 5 THEN k + 1 ELSE 1
        /\ sync'[s].staged = staged
        /\ sync'[s].calm = sync[s].calm
    BY <2>3
  <2>5. \A j \in 1..5 : j # k => staged[j] = sync[s].staged[j]
    BY <2>2
  <2>6. /\ uki'[Copies[k]] = sync[s].staged[k]
        /\ \A j \in 1..5 : j # k => uki'[Copies[j]] = uki[Copies[j]]
        /\ \A j \in 1..5 : Original(j)' = Original(j)
    BY <2>1, <2>2, CopiesApart, GuardedFiles DEF Original, IInv, Shape
  <2> HIDE DEF staged, new
  <2>7. ASSUME sync[s].calm  PROVE Mirrors(sync[s])'
    <3>1. \A j \in 1..5 : /\ j < k => uki[Copies[j]] = Original(j)
                          /\ j >= k => sync[s].staged[j] = Original(j)
                          /\ Verified(Original(j))
      BY <2>7, <2>1 DEF CInv, Mirrors
    <3> HIDE DEF k
    <3>2. \A j \in 1..5 : j <= k => uki'[Copies[j]] = Original(j)'
      BY <3>1, <2>2, <2>6
    <3>3. \A j \in 1..5 : j > k => staged[j] = Original(j)'
      BY <3>1, <2>2, <2>5, <2>6
    <3>4. \A j \in 1..5 : Verified(Original(j))'
      BY <3>1, <2>6 DEF Verified
    <3>5. CASE k < 5
      <4>1. sync'[s].at = "commit" /\ sync'[s].k = k + 1 /\ sync'[s].staged = staged
        BY <2>4, <3>5
      <4>2. \A j \in 1..5 : (j < k + 1 => j <= k) /\ (j >= k + 1 => j > k)
        BY <2>2
      <4>3. QED
        BY <4>1, <4>2, <3>2, <3>3, <3>4 DEF Mirrors
    <3>6. CASE ~(k < 5)
      <4>1. sync'[s].at = "end"
        BY <2>4, <3>6
      <4>2. \A j \in 1..5 : j <= k
        BY <2>2, <3>6
      <4>3. QED
        BY <4>1, <4>2, <3>2, <3>4 DEF Mirrors
    <3>7. QED
      BY <3>5, <3>6
  <2>8. QED
    BY <2>3, <2>4, <2>7, SyncCalm
<1>9. ASSUME NEW s \in Syncs, SyncLeaves(s)  PROVE CInv'
  <2>1. /\ sync'[s].at = "idle" /\ \A i \in Syncs \ {s} : sync'[i] = sync[i]
    BY <1>9, <1>1 DEF SyncLeaves, IdleSync
  <2>2. Mirrors(sync[s])'
    BY <2>1 DEF Mirrors
  <2>3. QED
    BY <1>9, <2>1, <2>2, SyncCalm DEF SyncLeaves
<1>10. ASSUME NEW o \in Operators, NEW new, OpWrites(o, new)
       PROVE  /\ op'[o] = new
              /\ \A i \in Operators \ {o} : op'[i].calm = FALSE
              /\ \A s \in Syncs : sync'[s].calm = FALSE
  BY <1>10, <1>1 DEF OpWrites, Runs, Promotions
<1>11. ASSUME NEW o \in Operators, NEW kernel \in Kernels,
              PromoteBegin(o, kernel) \/ RollbackBegin(o, kernel)
       PROVE  CInv'
  <2>1. op'[o].at \in {"stage_a", "compare"} /\ \A i \in Operators \ {o} : op'[i] = op[i]
    BY <1>11, <1>1 DEF PromoteBegin, RollbackBegin, Promotions
  <2>2. Selects(op[o])'
    BY <2>1 DEF Selects
  <2>3. QED
    BY <1>11, <2>1, <2>2, OpCalm DEF PromoteBegin, RollbackBegin
<1>12. \A o \in Operators : op[o].calm => Selects(op[o])
  BY DEF CInv
<1>13. ASSUME NEW o \in Operators, PromoteStageA(o)  PROVE CInv'
  <2>1. /\ op'[o].at = "stage_b" /\ op'[o].a = uki[From(op[o].kernel)]
        /\ op'[o].kernel = op[o].kernel
        /\ \A i \in Operators \ {o} : op'[i] = op[i]
    BY <1>13, <1>1 DEF PromoteStageA, Promotions
  <2>2. UNCHANGED <<uki, entry, order, sync>>
    BY <1>13 DEF PromoteStageA
  <2>3. Selects(op[o])'
    BY <2>1, <2>2 DEF Selects
  <2>4. QED
    BY <2>1, <2>2, <2>3, OpCalm
<1>14. ASSUME NEW o \in Operators, PromoteStageB(o)  PROVE CInv'
  <2>1. /\ op[o].at = "stage_b" /\ op'[o].at = "move_a"
        /\ op'[o].a = op[o].a /\ op'[o].b = uki[From(op[o].kernel)]
        /\ op'[o].kernel = op[o].kernel /\ op'[o].calm = op[o].calm
        /\ \A i \in Operators \ {o} : op'[i] = op[i]
    BY <1>14, <1>1 DEF PromoteStageB, Promotions
  <2>2. UNCHANGED <<uki, entry, order, sync>>
    BY <1>14 DEF PromoteStageB
  <2>3. (op[o].calm => Selects(op[o]))'
    BY <2>1, <2>2, <1>12 DEF Selects
  <2>4. QED
    BY <2>1, <2>2, <2>3, OpCalm
<1>15. ASSUME NEW o \in Operators, PromoteMoveA(o)  PROVE CInv'
  <2> DEFINE new == [op[o] EXCEPT !.at = "move_b", !.a = Nothing]
             f == <<"A", op[o].kernel>>
  <2>1. op[o].at = "move_a" /\ uki' = [uki EXCEPT ![f] = op[o].a] /\ OpWrites(o, new)
    BY <1>15 DEF PromoteMoveA, Copied
  <2>2. /\ op'[o].at = "move_b" /\ op'[o].b = op[o].b
        /\ op'[o].kernel = op[o].kernel /\ op'[o].calm = op[o].calm
    <3>1. op'[o] = new
      BY <2>1, <1>10
    <3>2. QED
      BY <3>1, <1>1 DEF Promotions
  <2>3. op[o].kernel \in {"stable", "lts", "git"}
    BY <1>1 DEF Promotions
  <2>4. uki'[f] = op[o].a
    BY <2>1, <2>3, PromotedFiles DEF IInv, Shape
  <2>5. (op[o].calm => Selects(op[o]))'
    BY <2>1, <2>2, <2>4, <1>12 DEF Selects
  <2>6. QED
    BY <2>1, <2>5, <1>10, OpCalm
<1>16. ASSUME NEW o \in Operators, PromoteMoveB(o)  PROVE CInv'
  <2> DEFINE new == [op[o] EXCEPT !.at = IF op[o].fresh THEN "create" ELSE "select",
                                  !.fresh = FALSE, !.b = Nothing]
             f == <<"B", op[o].kernel>>
  <2>1. op[o].at = "move_b" /\ uki' = [uki EXCEPT ![f] = op[o].b] /\ OpWrites(o, new)
    BY <1>16 DEF PromoteMoveB
  <2>2. /\ op'[o].at \in {"create", "select"}
        /\ op'[o].kernel = op[o].kernel /\ op'[o].calm = op[o].calm
    <3>1. op'[o] = new
      BY <2>1, <1>10
    <3>2. QED
      BY <3>1, <1>1 DEF Promotions
  <2>3. op[o].kernel \in {"stable", "lts", "git"}
    BY <1>1 DEF Promotions
  <2>4. uki'[f] = op[o].b /\ uki'[<<"A", op[o].kernel>>] = uki[<<"A", op[o].kernel>>]
    BY <2>1, <2>3, PromotedFiles DEF IInv, Shape
  <2>5. (op[o].calm => Selects(op[o]))'
    BY <2>1, <2>2, <2>4, <1>12 DEF Selects, SameCopies
  <2>6. QED
    BY <2>1, <2>5, <1>10, OpCalm
<1>17. ASSUME NEW o \in Operators, PromoteCreate(o) \/ PromoteEnter(o)  PROVE CInv'
  <2>1. /\ op[o].at \in {"create", "enter"} /\ op'[o].at \in {"enter", "select"}
        /\ op'[o].kernel = op[o].kernel /\ op'[o].calm = op[o].calm
        /\ \A i \in Operators \ {o} : op'[i].calm = FALSE
        /\ \A s \in Syncs : sync'[s].calm = FALSE
        /\ UNCHANGED uki
    <3>1. \E new : /\ OpWrites(o, new)
                   /\ op[o].at \in {"create", "enter"} /\ new.at \in {"enter", "select"}
                   /\ new.kernel = op[o].kernel /\ new.calm = op[o].calm
      <4>1. CASE PromoteCreate(o)
        <5> DEFINE new == [op[o] EXCEPT !.at = "enter", !.number = LowestFree, !.got = order]
        <5>1. OpWrites(o, new) /\ op[o].at = "create"
          BY <4>1 DEF PromoteCreate
        <5>2. new.at = "enter" /\ new.kernel = op[o].kernel /\ new.calm = op[o].calm
          BY <1>1 DEF Promotions
        <5> HIDE DEF new
        <5>3. QED
          BY <5>1, <5>2
      <4>2. CASE PromoteEnter(o)
        <5> DEFINE new == [op[o] EXCEPT !.at = "select", !.got = <<>>]
        <5>1. OpWrites(o, new) /\ op[o].at = "enter"
          BY <4>2 DEF PromoteEnter
        <5>2. new.at = "select" /\ new.kernel = op[o].kernel /\ new.calm = op[o].calm
          BY <1>1 DEF Promotions
        <5> HIDE DEF new
        <5>3. QED
          BY <5>1, <5>2
      <4>3. QED
        BY <1>17, <4>1, <4>2
    <3>2. PICK new : /\ OpWrites(o, new)
                     /\ op[o].at \in {"create", "enter"} /\ new.at \in {"enter", "select"}
                     /\ new.kernel = op[o].kernel /\ new.calm = op[o].calm
      BY <3>1
    <3>3. /\ op'[o] = new
          /\ \A i \in Operators \ {o} : op'[i].calm = FALSE
          /\ \A s \in Syncs : sync'[s].calm = FALSE
      BY <3>2, <1>10
    <3>4. QED
      BY <1>17, <3>2, <3>3 DEF PromoteCreate, PromoteEnter
  <2>2. (op[o].calm => Selects(op[o]))'
    BY <2>1, <1>12 DEF Selects, SameCopies
  <2>3. QED
    BY <2>1, <2>2, OpCalm
<1>18. ASSUME NEW o \in Operators, RollbackCompare(o)  PROVE CInv'
  <2>1. /\ op'[o].at = "select" /\ op'[o].kernel = op[o].kernel
        /\ SameCopies(op[o].kernel)
        /\ \A i \in Operators \ {o} : op'[i] = op[i]
    BY <1>18, <1>1 DEF RollbackCompare, Promotions
  <2>2. UNCHANGED <<uki, entry, order, sync>>
    BY <1>18 DEF RollbackCompare
  <2>3. Selects(op[o])'
    BY <2>1, <2>2 DEF Selects, SameCopies
  <2>4. QED
    BY <2>1, <2>2, <2>3, OpCalm
<1>19. ASSUME NEW o \in Operators, SelectRead(o)  PROVE CInv'
  <2> DEFINE label == <<"A", op[o].kernel>>
  <2>1. /\ op[o].at = "select" /\ op'[o].at = "write"
        /\ op'[o].kernel = op[o].kernel /\ op'[o].calm = op[o].calm
        /\ op'[o].number = Number(label) /\ Unique(label)
        /\ \A i \in Operators \ {o} : op'[i] = op[i]
    BY <1>19, <1>1 DEF SelectRead, Promotions
  <2>2. UNCHANGED <<uki, entry, order, sync>>
    BY <1>19 DEF SelectRead
  <2>3. Unique(label)' /\ Number(label)' = Number(label)
    BY <2>1, <2>2 DEF Unique, WithLabel, Number
  <2>4. (op[o].calm => Selects(op[o]))'
    BY <2>1, <2>2, <2>3, <1>12 DEF Selects, SameCopies, Unique, WithLabel, Number
  <2>5. QED
    BY <2>1, <2>2, <2>4, OpCalm
<1>20. ASSUME NEW o \in Operators, SelectWrite(o)  PROVE CInv'
  <2> DEFINE label == <<"A", op[o].kernel>>
  <2>1. /\ op[o].at = "write" /\ op'[o].at = "end"
        /\ op'[o].kernel = op[o].kernel /\ op'[o].calm = op[o].calm
        /\ op'[o].number = op[o].number
        /\ \A i \in Operators \ {o} : op'[i].calm = FALSE
        /\ \A s \in Syncs : sync'[s].calm = FALSE
        /\ UNCHANGED <<uki, entry>>
        /\ order' = First(op[o].number, op[o].got)
    <3> DEFINE new == [op[o] EXCEPT !.at = "end", !.got = <<>>]
    <3>1. /\ OpWrites(o, new) /\ op[o].at = "write" /\ UNCHANGED <<uki, entry>>
          /\ order' = First(op[o].number, op[o].got)
      BY <1>20 DEF SelectWrite
    <3>2. /\ op'[o] = new
          /\ \A i \in Operators \ {o} : op'[i].calm = FALSE
          /\ \A s \in Syncs : sync'[s].calm = FALSE
      BY <3>1, <1>10
    <3>3. QED
      BY <3>1, <3>2, <1>1 DEF Promotions
  <2>2. op[o].number \in Numbers /\ Whole(op[o].got)
    BY <2>1 DEF OInv, Sound
  <2>3. order'[1] = op'[o].number
    BY <2>1, <2>2, FirstKeeps
  <2>4. op[o].calm => /\ SameCopies(op[o].kernel)
                      /\ Unique(label) /\ op[o].number = Number(label)
    BY <2>1, <1>12 DEF Selects
  <2>5. (op[o].calm => Selects(op[o]))'
    BY <2>1, <2>3, <2>4 DEF Selects, SameCopies, Unique, WithLabel, Number
  <2>6. QED
    BY <2>1, <2>5, OpCalm
<1>21. ASSUME NEW o \in Operators, OpLeaves(o)  PROVE CInv'
  <2>1. op'[o].at = "idle" /\ \A i \in Operators \ {o} : op'[i] = op[i]
    BY <1>21, <1>1 DEF OpLeaves, IdleOp
  <2>2. Selects(op[o])'
    BY <2>1 DEF Selects
  <2>3. QED
    BY <1>21, <2>1, <2>2, OpCalm DEF OpLeaves
<1>22. CASE UNCHANGED vars
  BY <1>22, StaysCalm DEF vars, CInv
<1>23. QED
  BY <1>2, <1>3, <1>4, <1>6, <1>7, <1>8, <1>9, <1>11, <1>13, <1>14, <1>15, <1>16, <1>17,
     <1>18, <1>19, <1>20, <1>21, <1>22 DEF Next

\* What such a run has done is what the installed verification accepts.
LEMMA CalmSettled == IInv /\ OInv /\ CInv => Settled
<1> SUFFICES ASSUME IInv, OInv, CInv  PROVE Settled
  OBVIOUS
<1>1. ASSUME NEW s \in Syncs, sync[s].at = "end", sync[s].calm  PROVE VerifiesImages
  <2>1. \A j \in 1..5 : uki[Copies[j]] = Original(j) /\ Verified(Original(j))
    BY <1>1 DEF CInv, Mirrors
  <2>2. \A u \in RegularImages :
          uki[<<"B", u>>] = uki[<<"A", u>>] /\ Verified(uki[<<"A", u>>])
    <3>1. \A u \in RegularImages : \E j \in 1..3 :
            Copies[j] = <<"B", u>> /\ Source(Copies[j]) = <<"A", u>>
      BY DEF RegularImages, Regular, Copies, Source
    <3>2. QED
      BY <2>1, <3>1 DEF Original
  <2>3. \A e \in {"A", "B"} : uki[<<e, "fallback">>] = uki[<<"A", "recovery">>]
    <3>1. \A e \in {"A", "B"} : \E j \in 4..5 :
            Copies[j] = <<e, "fallback">> /\ Source(Copies[j]) = <<"A", "recovery">>
      BY DEF Copies, Source
    <3>2. QED
      BY <2>1, <3>1 DEF Original
  <2>4. QED
    BY <2>2, <2>3 DEF VerifiesImages, Verified
<1>2. ASSUME NEW o \in Operators, op[o].at = "end", op[o].calm
      PROVE  /\ VerifiesOrder
             /\ order[1] = op[o].number
             /\ uki[<<"A", op[o].kernel>>] = uki[<<"B", op[o].kernel>>]
  <2> DEFINE label == <<"A", op[o].kernel>>
  <2>1. /\ SameCopies(op[o].kernel) /\ Unique(label)
        /\ op[o].number = Number(label) /\ order[1] = op[o].number
    BY <1>2 DEF CInv, Selects
  <2>2. Labelled /\ Covers(order)
    BY <1>2 DEF IInv, Quiet, OInv, Installing
  <2>3. Number(label) \in Numbers /\ entry[Number(label)] = label
    BY <2>1, UniqueNumber DEF WithLabel
  <2>4. op[o].kernel \in {"stable", "lts", "git"}
    BY DEF IInv, Shape, OpShape, Promotions
  <2>5. CASE op[o].kernel # "git"
    BY <2>1, <2>2, <2>3, <2>4, <2>5 DEF VerifiesOrder, Labelled, Covers, SameCopies
  <2>6. CASE op[o].kernel = "git"
    <3>1. label = GitLabel
      BY <2>6 DEF GitLabel
    <3>2. GitSigned("A")
      BY <2>3, <3>1 DEF OInv, Bootable, HasGit
    <3>3. QED
      BY <2>1, <2>2, <2>6, <3>1, <3>2
         DEF VerifiesOrder, Labelled, Covers, SameCopies, GitSigned, Verified
  <2>7. QED
    BY <2>1, <2>5, <2>6 DEF SameCopies
<1>3. QED
  BY <1>1, <1>2 DEF Settled

\* A run of uki-sync, a promotion or a rollback that succeeds, and that nothing else
\* disturbed, leaves what bootstrap_verify accepts: both partitions alike and signed
\* for uki-sync; for the others, the kernel chosen first in BootOrder, under the one
\* entry with its label, with the same image on both partitions.
THEOREM SuccessVerified == Spec => []Settled
<1>1. Init => IInv /\ OInv /\ CInv
  BY IInvInit, OInvInit, CInvInit
<1>2. (IInv /\ OInv /\ CInv) /\ [Next]_vars => (IInv /\ OInv /\ CInv)'
  BY IInvNext, OInvNext, CInvNext
<1>3. IInv /\ OInv /\ CInv => Settled
  BY CalmSettled
<1>4. QED
  BY <1>1, <1>2, <1>3, PTL DEF Spec
=============================================================================
