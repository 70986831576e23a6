--------------------------- MODULE ComponentProofs ---------------------------
(***************************************************************************)
(* Theorems of the components above the kernel.  The firmware update, for  *)
(* any images, any number of blocks and any number of losses of power and  *)
(* failed writes: its types, that its two copies make a flag that is       *)
(* written atomically, and that it resumes where it is sound.  The AT      *)
(* framework, for any callers, frames and indexes, and whatever the ring   *)
(* under it does: one command at a time, no answer that is not one, and no *)
(* write to the buffer of a call that has returned.  The frame channel     *)
(* under it, for a ring of any length and frames of any: the semaphore     *)
(* counts the frames of the ring, and they come out whole and in order.    *)
(***************************************************************************)
EXTENDS OtaDefault, AtCommand, KernelListsProofs, FiniteSetTheorems

(***************************************************************************)
(* The firmware update.                                                    *)
(***************************************************************************)
(* What the write procedure keeps at every step: the first copy is not     *)
(* given up before the second is equal to it.                              *)
CopiesKept ==
  /\ pc = "backup" => addr1 # NoFlag
  /\ pc = "between" /\ addr1 # NoFlag => addr2 = addr1
  /\ pc = "main" => addr1 = NoFlag

(* A write never returns into the copying of a block.                      *)
Landing == Program \ {"copying"}

OtaInv ==
  /\ OtaTypeOK
  /\ then \in [ok : Landing, fail : Landing]
  /\ pc = "copying" => flag.offset < Blocks
  /\ CopiesKept

ActiveType == [0 .. Blocks - 1 -> Image \cup {Old, Broken}]

LEMMA DefaultType == Default \in Flag
BY OtaAssumption DEF Default, Flag, State

(* A call of the write procedure keeps the invariant.                      *)
LEMMA StoreKeeps ==
  ASSUME OtaInv, NEW f \in Flag, NEW ok \in Landing, NEW fail \in Landing,
         Store(f, ok, fail), download' \in Image, active' \in ActiveType
  PROVE  OtaInv'
BY DEF OtaInv, OtaTypeOK, Store, CopiesKept, flash, faults, Writing, Landing,
       ActiveType

(* So does a step from one part of the program to another.                 *)
LEMMA GoesKeeps ==
  ASSUME OtaInv, NEW from, NEW to \in Program, Goes(from, to), flag' \in Flag,
         to = "copying" => flag'.offset < Blocks,
         download' \in Image, active' \in ActiveType
  PROVE  OtaInv'
BY DEF OtaInv, OtaTypeOK, Goes, CopiesKept, flash, faults, Program, ActiveType

LEMMA WriteStepKeeps == ASSUME OtaInv, WriteStep PROVE OtaInv'
<1> USE DEF OtaInv, OtaTypeOK, CopiesKept, images, faults
<1>1. CASE WriteBegins
  BY <1>1 DEF WriteBegins, Writing
<1>2. CASE BackupEnds
  BY <1>2 DEF BackupEnds, Writing
<1>3. CASE MainBegins
  BY <1>3 DEF MainBegins, Writing
<1>4. CASE MainEnds
  BY <1>4 DEF MainEnds, Program, Landing
<1> QED BY <1>1, <1>2, <1>3, <1>4 DEF WriteStep

LEMMA WriteFailsKeeps == ASSUME OtaInv, WriteFails PROVE OtaInv'
<1> USE DEF OtaInv, OtaTypeOK, WriteFails
<1>1. pc' \in Landing
  OBVIOUS
<1>2. CopiesKept' /\ pc' # "copying" /\ pc' \in Program
  BY <1>1 DEF CopiesKept, Landing, Program
<1>3. addr1' \in Flag \cup {NoFlag} /\ addr2' \in Flag \cup {NoFlag}
  OBVIOUS
<1>4. fails' \in 0 .. MaxFails
  BY OtaAssumption
<1> QED BY <1>2, <1>3, <1>4 DEF images

LEMMA InitFlagKeeps ==
  ASSUME OtaInv, NEW from, NEW to \in Landing, InitFlag(from, to)
  PROVE  OtaInv'
<1>1. download' \in Image /\ active' \in ActiveType
  BY DEF InitFlag, images, OtaInv, OtaTypeOK, ActiveType
<1>2. CASE Stored # NoFlag
  <2>1. Stored \in Flag
    BY <1>2 DEF Stored, OtaInv, OtaTypeOK
  <2> QED BY <1>1, <1>2, <2>1, GoesKeeps DEF InitFlag, Landing
<1>3. CASE Stored = NoFlag
  <2>1. Store(Default, to, to)
    BY <1>3 DEF InitFlag
  <2> QED BY <1>1, <2>1, DefaultType, StoreKeeps
<1> QED BY <1>2, <1>3

LEMMA BootStepKeeps == ASSUME OtaInv, BootStep PROVE OtaInv'
<1>1. flag \in Flag /\ download \in Image /\ active \in ActiveType
  BY DEF OtaInv, OtaTypeOK, ActiveType
<1>a. \A s \in State : [flag EXCEPT !.state = s] \in Flag
  BY <1>1 DEF Flag
<1>p. {"boot", "process", "copy", "failed", "rollback", "jump", "init", "app"}
        \subseteq Landing
  BY DEF Landing, Program
<1>q. Landing \subseteq Program /\ "copying" \in Program /\ "rolling" \in Program
  BY DEF Landing, Program
<1>s. {"NEEDUPDATE", "UPDATING", "SUCCEED", "FAILED"} \subseteq State
  BY DEF State
<1>2. CASE InitFlag("boot", "process")
  BY <1>2, <1>p, InitFlagKeeps
<1>3. CASE NeedUpdate
  BY <1>3, <1>1, <1>a, <1>p, <1>s, StoreKeeps DEF NeedUpdate, images
<1>4. CASE GoOn
  BY <1>4, <1>1, <1>p, StoreKeeps DEF GoOn, images
<1>5. CASE CountRestart
  <2>1. [flag EXCEPT !.restarts = @ + 1] \in Flag
    BY <1>5, <1>1, OtaAssumption DEF CountRestart, Flag
  <2> QED BY <1>5, <1>1, <2>1, <1>p, StoreKeeps DEF CountRestart, images
<1>6. CASE GiveUp
  BY <1>6, <1>1, <1>p, <1>q, GoesKeeps DEF GiveUp, images
<1>7. CASE NothingToDo
  BY <1>7, <1>1, <1>p, <1>q, GoesKeeps DEF NothingToDo, images
<1>8. CASE CopyBegins
  <2>1. active' \in ActiveType
    BY <1>8, <1>1 DEF CopyBegins, ActiveType
  <2> QED BY <1>8, <1>1, <2>1, <1>q, GoesKeeps DEF CopyBegins
<1>9. CASE CopyEnds
  <2>1. active' \in ActiveType
    BY <1>9, <1>1 DEF CopyEnds, ActiveType
  <2>2. [flag EXCEPT !.offset = @ + 1] \in Flag
    BY <1>9, <1>1, OtaAssumption DEF CopyEnds, Flag, OtaInv
  <2> QED BY <1>9, <1>1, <2>1, <2>2, <1>p, StoreKeeps DEF CopyEnds
<1>10. CASE UpdateSucceeds
  BY <1>10, <1>1, <1>a, <1>p, <1>s, StoreKeeps DEF UpdateSucceeds, images
<1>11. CASE UpdateFails
  BY <1>11, <1>1, <1>a, <1>p, <1>s, StoreKeeps DEF UpdateFails, images
<1>12. CASE RollBegins
  <2>1. active' \in ActiveType
    BY <1>12 DEF RollBegins, ActiveType
  <2> QED BY <1>12, <1>1, <2>1, <1>q, GoesKeeps DEF RollBegins
<1>13. CASE RollEnds
  <2>1. active' \in ActiveType
    BY <1>13 DEF RollEnds, ActiveType
  <2> QED BY <1>13, <1>1, <2>1, <1>a, <1>p, <1>s, StoreKeeps DEF RollEnds
<1>14. CASE Jump
  <2>1. (IF Runs THEN "init" ELSE "boot") \in Landing
    BY <1>p
  <2> QED BY <1>14, <1>1, <2>1, <1>q, GoesKeeps DEF Jump, images, Landing
<1> QED BY <1>2, <1>3, <1>4, <1>5, <1>6, <1>7, <1>8, <1>9, <1>10, <1>11,
           <1>12, <1>13, <1>14 DEF BootStep

LEMMA AppStepKeeps == ASSUME OtaInv, AppStep PROVE OtaInv'
<1>1. flag \in Flag /\ download \in Image /\ active \in ActiveType
  BY DEF OtaInv, OtaTypeOK, ActiveType
<1>p. {"boot", "app"} \subseteq Landing /\ Landing \subseteq Program
  BY DEF Landing, Program
<1>2. CASE InitFlag("init", "app")
  BY <1>2, <1>p, InitFlagKeeps
<1>3. CASE CheckUpdateState
  <2>1. [flag EXCEPT !.state = "IDLE", !.restarts = 0] \in Flag
    <3>1. 0 \in 0 .. MaxRestarts + 1 /\ "IDLE" \in State
      BY OtaAssumption DEF State
    <3> QED BY <1>1, <3>1 DEF Flag
  <2> QED BY <1>3, <1>1, <2>1, <1>p, StoreKeeps DEF CheckUpdateState, images
<1>4. CASE SetReboot
  <2>1. [flag EXCEPT !.state = "NEEDUPDATE", !.offset = 0, !.image = download]
           \in Flag
    <3>1. 0 \in 0 .. Blocks /\ "NEEDUPDATE" \in State
      BY OtaAssumption DEF State
    <3> QED BY <1>1, <3>1 DEF Flag
  <2> QED BY <1>4, <1>1, <2>1, <1>p, StoreKeeps DEF SetReboot, images
<1>5. CASE Restart
  BY <1>5, <1>1, <1>p, GoesKeeps DEF Restart, images
<1>6. ASSUME NEW v \in Image, Download(v) PROVE OtaInv'
  BY <1>6, <1>1, <1>p, GoesKeeps DEF Download
<1> QED BY <1>2, <1>3, <1>4, <1>5, <1>6 DEF AppStep

LEMMA CrashKeeps == ASSUME OtaInv, Crash PROVE OtaInv'
<1> USE DEF OtaInv, OtaTypeOK, Crash
<1>1. crashes' \in 0 .. MaxCrash
  BY OtaAssumption
<1>2. pc' = "boot" /\ flag' \in Flag /\ "boot" \in Program
  BY DefaultType DEF Program
<1> QED BY <1>1, <1>2 DEF CopiesKept, flash, images

LEMMA OtaInitHolds == ASSUME OtaInit PROVE OtaInv
BY DefaultType, OtaAssumption
   DEF OtaInit, OtaInv, OtaTypeOK, CopiesKept, Program, Landing

LEMMA OtaNextKeeps == ASSUME OtaInv, [OtaNext]_otavars PROVE OtaInv'
<1>1. CASE UNCHANGED otavars
  BY <1>1 DEF otavars, flash, images, faults, OtaInv, OtaTypeOK, CopiesKept
<1> QED BY <1>1, WriteStepKeeps, WriteFailsKeeps, BootStepKeeps, AppStepKeeps,
           CrashKeeps DEF OtaNext

LEMMA OtaInvAlways == OtaSpec => []OtaInv
BY OtaInitHolds, OtaNextKeeps, PTL DEF OtaSpec

(* The flag, the copies and the images have their types at every step of   *)
(* ota_default.c: the offset stays within the image, the restarts within   *)
(* their limit.                                                            *)
THEOREM OtaTypes == OtaSpec => []OtaTypeOK
<1>1. OtaInv => OtaTypeOK
  BY DEF OtaInv
<1> QED BY <1>1, OtaInvAlways, PTL
-----------------------------------------------------------------------------
Writes == IF pc \in Writing THEN flag ELSE NoFlag

LEMMA InitRefines == ASSUME OtaInit PROVE Contract!Init
BY DEF OtaInit, Contract!Init, Stored, Writing

(* A step that calls the write procedure, or goes on in the program, as    *)
(* the contract sees it.                                                   *)
LEMMA StoreRefines ==
  ASSUME OtaInv, NEW f \in Flag, NEW ok, NEW fail, pc \notin Writing,
         Store(f, ok, fail)
  PROVE  Contract!Next
<1>1. Contract!Write(f)
  BY DEF Contract!Write, Store, flash, Stored, Writing
<1> QED BY <1>1 DEF Contract!Next

LEMMA GoesRefines ==
  ASSUME NEW from, NEW to, from \notin Writing, to \notin Writing,
         Goes(from, to)
  PROVE  UNCHANGED <<Stored, Writes>>
BY DEF Goes, flash, Stored, Writes

LEMMA WriteStepRefines ==
  ASSUME OtaInv, WriteStep
  PROVE  Contract!Finish \/ UNCHANGED <<Stored, Writes>>
<1> USE DEF Stored, Writes, Writing
<1>1. CASE WriteBegins
  BY <1>1 DEF WriteBegins
<1>2. CASE BackupEnds
  BY <1>2 DEF BackupEnds, OtaInv, CopiesKept
<1>3. CASE MainBegins
  BY <1>3 DEF MainBegins, OtaInv, CopiesKept
<1>4. CASE MainEnds
  <2>1. flag # NoFlag /\ then.ok \notin Writing
    BY NoFlagAssumption DEF OtaInv, OtaTypeOK, Landing, Program
  <2> QED BY <1>4, <2>1 DEF MainEnds, Contract!Finish
<1> QED BY <1>1, <1>2, <1>3, <1>4 DEF WriteStep

LEMMA WriteFailsRefines ==
  ASSUME OtaInv, WriteFails
  PROVE  Contract!Finish \/ Contract!Fail
<1>1. flag # NoFlag /\ then.fail \notin Writing
  BY NoFlagAssumption DEF OtaInv, OtaTypeOK, Landing, Program, Writing
<1>2. CASE addr1' = addr1
  <2>1. Stored' = Stored
    BY <1>2 DEF WriteFails, Stored, OtaInv, CopiesKept
  <2> QED BY <1>1, <2>1 DEF WriteFails, Contract!Fail
<1>3. CASE addr1' # addr1
  <2>1. addr1' = flag /\ pc \in Writing
    BY <1>3 DEF WriteFails, OtaInv, CopiesKept
  <2> QED BY <1>1, <2>1 DEF WriteFails, Contract!Finish, Stored
<1> QED BY <1>2, <1>3

LEMMA InitFlagRefines ==
  ASSUME OtaInv, NEW from, NEW to, from \notin Writing, to \notin Writing,
         InitFlag(from, to)
  PROVE  Contract!Next \/ UNCHANGED <<Stored, Writes>>
<1>1. CASE Stored # NoFlag
  BY <1>1, GoesRefines DEF InitFlag
<1>2. CASE Stored = NoFlag
  BY <1>2, DefaultType, StoreRefines DEF InitFlag
<1> QED BY <1>1, <1>2

LEMMA BootStepRefines ==
  ASSUME OtaInv, OtaInv', BootStep
  PROVE  Contract!Next \/ UNCHANGED <<Stored, Writes>>
<1>1. \A p \in Program : p \notin Writing
  BY DEF Program, Writing
<1>2. CASE InitFlag("boot", "process")
  BY <1>2, <1>1, InitFlagRefines DEF Program
<1>3. flag' \in Flag
  BY DEF OtaInv, OtaTypeOK
<1>4. CASE NeedUpdate \/ GoOn \/ CountRestart \/ CopyEnds \/ UpdateSucceeds
             \/ UpdateFails \/ RollEnds
  <2>1. PICK f, ok, fail : Store(f, ok, fail)
    BY <1>4 DEF NeedUpdate, GoOn, CountRestart, CopyEnds, UpdateSucceeds,
                UpdateFails, RollEnds
  <2>2. f \in Flag
    BY <1>3, <2>1 DEF Store
  <2>3. pc \notin Writing
    BY <1>4 DEF NeedUpdate, GoOn, CountRestart, CopyEnds, UpdateSucceeds,
                UpdateFails, RollEnds, Writing
  <2> QED BY <2>1, <2>2, <2>3, StoreRefines
<1>5. CASE GiveUp \/ NothingToDo \/ CopyBegins \/ RollBegins \/ Jump
  <2>1. PICK from \in Program, to \in Program : Goes(from, to)
    BY <1>5 DEF GiveUp, NothingToDo, CopyBegins, RollBegins, Jump, Program
  <2> QED BY <1>1, <2>1, GoesRefines
<1> QED BY <1>2, <1>4, <1>5 DEF BootStep

LEMMA AppStepRefines ==
  ASSUME OtaInv, OtaInv', AppStep
  PROVE  Contract!Next \/ UNCHANGED <<Stored, Writes>>
<1>1. \A p \in Program : p \notin Writing
  BY DEF Program, Writing
<1>2. CASE InitFlag("init", "app")
  BY <1>2, <1>1, InitFlagRefines DEF Program
<1>3. CASE CheckUpdateState \/ SetReboot
  <2>1. PICK f, ok, fail : Store(f, ok, fail)
    BY <1>3 DEF CheckUpdateState, SetReboot
  <2>2. f \in Flag
    BY <2>1 DEF Store, OtaInv, OtaTypeOK
  <2>3. pc \notin Writing
    BY <1>3 DEF CheckUpdateState, SetReboot, Writing
  <2> QED BY <2>1, <2>2, <2>3, StoreRefines
<1>4. CASE Restart \/ \E v \in Image : Download(v)
  <2>1. PICK from \in Program, to \in Program : Goes(from, to)
    BY <1>4 DEF Restart, Download, Program
  <2> QED BY <1>1, <2>1, GoesRefines
<1> QED BY <1>2, <1>3, <1>4 DEF AppStep

(* A loss of power is a failed write, or nothing.                          *)
LEMMA CrashRefines ==
  ASSUME OtaInv, Crash
  PROVE  Contract!Fail \/ UNCHANGED <<Stored, Writes>>
<1>1. flag # NoFlag
  BY NoFlagAssumption DEF OtaInv, OtaTypeOK
<1> QED BY <1>1 DEF Crash, flash, Stored, Writes, Writing, Contract!Fail

LEMMA NextRefines ==
  ASSUME OtaInv, OtaInv', [OtaNext]_otavars
  PROVE  [Contract!Next]_<<Stored, Writes>>
<1>1. CASE UNCHANGED otavars
  BY <1>1 DEF otavars, flash, images, faults, Stored, Writes
<1>2. CASE WriteStep
  BY <1>2, WriteStepRefines DEF Contract!Next
<1>3. CASE WriteFails
  BY <1>3, WriteFailsRefines DEF Contract!Next
<1>4. CASE BootStep
  BY <1>4, BootStepRefines
<1>5. CASE AppStep
  BY <1>5, AppStepRefines
<1>6. CASE Crash
  BY <1>6, CrashRefines DEF Contract!Next
<1> QED BY <1>1, <1>2, <1>3, <1>4, <1>5, <1>6 DEF OtaNext

(* The two copies and the procedure that writes them implement a flag that *)
(* is written atomically: whatever is lost and whenever, the next boot     *)
(* reads the last flag or the one that was being written.                  *)
THEOREM FlagIsAtomic == OtaSpec => KeepsFlag
<1>1. OtaInit => Contract!Init
  BY InitRefines
<1>2. OtaInv /\ OtaInv' /\ [OtaNext]_otavars => [Contract!Next]_<<Stored, Writes>>
  BY NextRefines
<1> QED BY <1>1, <1>2, OtaInvAlways, PTL
        DEF OtaSpec, KeepsFlag, Contract!Spec, Writes
-----------------------------------------------------------------------------
(***************************************************************************)
(* What the stored flag says of the images.                                *)
(***************************************************************************)
(* Flag f tells the truth: what it counts as copied is there, and what is  *)
(* missing can still be copied.                                            *)
Truthful(f) ==
  /\ f.state = "NEEDUPDATE" => f.offset = 0
  /\ f.state = "UPDATING" =>
       /\ f.offset = Blocks \/ download = f.image
       /\ \A b \in 0 .. Blocks - 1 : b < f.offset => active[b] = f.image
  /\ f.state = "SUCCEED" /\ f.restarts <= MaxRestarts =>
       \A b \in 0 .. Blocks - 1 : active[b] = f.image

(* While blocks are copied the stored flag may lag behind the one in the   *)
(* memory, which says that the update is under way.                        *)
Copying ==
  /\ flag.state = "UPDATING" /\ Truthful(flag)
  /\ Stored # NoFlag /\ Stored.state \in {"NEEDUPDATE", "UPDATING"}
  /\ Stored.state = "UPDATING" =>
       Stored.offset <= flag.offset /\ Stored.image = flag.image

(* Where a record that failed would have stopped the copying, it does not. *)
UpToDate == Stored.state = "UPDATING" => Stored.offset = flag.offset

(* No image runs beside an update that is stored as under way, unless all  *)
(* of it is copied.                                                        *)
Settled == Stored # NoFlag /\ Stored.state = "UPDATING" => Stored.offset = Blocks

AsStored == flag = IF Stored # NoFlag THEN Stored ELSE Default

WriteInv ==
  pc \in Writing =>
    /\ Truthful(flag)
    /\ then.ok = "copy" =>
         Copying /\ ((then.fail = "copy" /\ UpToDate) \/ then.fail = "failed")
    /\ then.ok = "process" =>
         flag = Default /\ then.fail = "process" /\ Stored \in {NoFlag, Default}
    /\ then.ok \notin {"copy", "process"} =>
         /\ then.fail = then.ok /\ then.ok \in {"jump", "app"}
         /\ flag.state # "UPDATING"
         /\ flag.state # "FAILED" => Settled

OtaPlaceInv ==
  /\ pc = "process" => AsStored
  /\ pc \in {"rollback", "rolling"} =>
       Stored = flag /\ flag.state = "SUCCEED" /\ flag.restarts > MaxRestarts
  /\ pc \in {"copy", "copying"} => Copying /\ UpToDate
  /\ pc \in {"jump", "init", "app"} => Settled

UpdateInv ==
  /\ Stored # NoFlag => Truthful(Stored)
  /\ WriteInv
  /\ OtaPlaceInv

(* An update that failed is recorded as failed: its record is not lost, as *)
(* long as the flag says that the update is under way.                     *)
RecordKept ==
  fails' # fails =>
    ~(flag.state = "FAILED" /\ Stored # NoFlag /\ Stored.state = "UPDATING")

FailureRecorded == [][RecordKept]_otavars

(* With one failed write at most there is none left for that record.       *)
OneFailure ==
  /\ pc = "failed" => fails >= 1
  /\ pc \in Writing /\ flag.state = "FAILED" /\ Stored # NoFlag /\ Stored.state = "UPDATING"
       => fails >= 1

AllInv == OtaInv /\ UpdateInv

LEMMA StoredType == ASSUME OtaInv PROVE Stored \in Flag \cup {NoFlag}
BY DEF OtaInv, OtaTypeOK, Stored

(* A step of the write procedure before its end leaves the stored flag as  *)
(* it is.                                                                  *)
LEMMA WriteStepTrue == ASSUME AllInv, WriteStep PROVE UpdateInv'
<1> USE DEF UpdateInv, WriteInv, OtaPlaceInv, Truthful, Copying, UpToDate, Settled, AsStored, images
<1>1. CASE WriteBegins \/ BackupEnds \/ MainBegins
  <2>1. Stored' = Stored
    BY <1>1 DEF WriteBegins, BackupEnds, MainBegins, Stored, AllInv, OtaInv, CopiesKept
  <2>2. pc \in Writing /\ pc' \in Writing
    BY <1>1 DEF WriteBegins, BackupEnds, MainBegins, Writing
  <2>3. UNCHANGED <<flag, then, images>>
    BY <1>1 DEF WriteBegins, BackupEnds, MainBegins
  <2>4. pc' \notin {"process", "rollback", "rolling", "copy", "copying", "jump", "init", "app"}
    BY <2>2 DEF Writing
  <2> QED
    BY <2>1, <2>2, <2>3, <2>4 DEF AllInv
<1>2. CASE MainEnds
  <2>1. Stored' = flag /\ flag \in Flag /\ flag # NoFlag
    BY <1>2, NoFlagAssumption DEF MainEnds, Stored, AllInv, OtaInv, OtaTypeOK
  <2>2. pc \in Writing /\ pc' = then.ok /\ UNCHANGED <<flag, images>>
    BY <1>2 DEF MainEnds, Writing
  <2>3. then.ok \in {"copy", "process", "jump", "app"}
    BY <2>2 DEF AllInv
  <2>4. pc' \notin Writing
    BY <2>2, <2>3 DEF Writing
  <2>5. Truthful(flag) /\ Truthful(Stored)'
    BY <2>1, <2>2 DEF AllInv
  <2>6. OtaPlaceInv'
    BY <2>1, <2>2, <2>3, <2>5 DEF AllInv, Flag
  <2> QED
    BY <2>4, <2>5, <2>6
<1> QED BY <1>1, <1>2 DEF WriteStep

LEMMA WriteFailsTrue == ASSUME AllInv, WriteFails, RecordKept PROVE UpdateInv'
<1> USE DEF UpdateInv, WriteInv, OtaPlaceInv, Truthful, Copying, UpToDate, Settled, AsStored, images
<1>1. Stored' \in {Stored, flag} /\ flag # NoFlag /\ flag \in Flag
  BY NoFlagAssumption DEF WriteFails, Stored, AllInv, OtaInv, OtaTypeOK, CopiesKept
<1>2. pc \in Writing /\ pc' = then.fail /\ UNCHANGED <<flag, images>> /\ fails' # fails
  BY DEF WriteFails, AllInv, OtaInv, OtaTypeOK
<1>3. then.ok \in {"copy", "process", "jump", "app"}
  BY <1>2 DEF AllInv
<1>4. pc' \in {"copy", "failed", "process", "jump", "app"}
  BY <1>2, <1>3 DEF AllInv
<1>5. pc' \notin Writing
  BY <1>4 DEF Writing
<1>6. Stored' # NoFlag => Truthful(Stored)'
  BY <1>1, <1>2 DEF AllInv
<1>7. ~(flag.state = "FAILED" /\ Stored # NoFlag /\ Stored.state = "UPDATING")
  BY <1>2 DEF RecordKept
<1>8. OtaPlaceInv'
  <2>1. CASE then.ok = "copy"
    <3>1. Copying /\ Copying' /\ (pc' = "copy" => UpToDate')
      BY <2>1, <1>1, <1>2 DEF AllInv, Flag
    <3> QED BY <3>1, <2>1, <1>2, <1>4 DEF AllInv
  <2>2. CASE then.ok = "process"
    BY <2>2, <1>1, <1>2, <1>4 DEF AllInv
  <2>3. CASE then.ok \in {"jump", "app"}
    BY <2>3, <1>1, <1>2, <1>4, <1>7 DEF AllInv
  <2> QED BY <2>1, <2>2, <2>3, <1>3
<1> QED BY <1>5, <1>6, <1>8

(* The flag in the memory is the stored one after a start.                 *)
LEMMA InitFlagTrue ==
  ASSUME AllInv, NEW from, NEW to, InitFlag(from, to),
         <<from, to>> \in {<<"boot", "process">>, <<"init", "app">>}
  PROVE  UpdateInv'
<1> USE DEF UpdateInv, WriteInv, OtaPlaceInv, Truthful, Copying, UpToDate, Settled, AsStored, images
<1>1. Stored' = Stored /\ UNCHANGED images
  BY DEF InitFlag, Goes, Store, flash, Stored
<1>2. CASE Stored # NoFlag
  <2>1. pc = from /\ pc' = to /\ flag' = Stored
    BY <1>2 DEF InitFlag, Goes
  <2>2. pc' \notin Writing
    BY <2>1 DEF Writing
  <2> QED BY <1>1, <1>2, <2>1, <2>2 DEF AllInv
<1>3. CASE Stored = NoFlag
  <2>1. pc = from /\ pc' = "write" /\ flag' = Default /\ then' = [ok |-> to, fail |-> to]
    BY <1>3 DEF InitFlag, Store
  <2>2. Default.state = "IDLE"
    BY DEF Default
  <2> QED BY <1>1, <1>3, <2>1, <2>2 DEF AllInv
<1> QED BY <1>2, <1>3

LEMMA CrashTrue == ASSUME AllInv, Crash PROVE UpdateInv'
<1>1. Stored' = Stored /\ pc' = "boot" /\ pc' \notin Writing
  BY DEF Crash, flash, Stored, Writing
<1> QED
  BY <1>1 DEF Crash, AllInv, UpdateInv, WriteInv, OtaPlaceInv, Truthful, images

LEMMA AppStepTrue == ASSUME AllInv, AppStep PROVE UpdateInv'
<1> USE DEF UpdateInv, WriteInv, OtaPlaceInv, Truthful, Copying, UpToDate, Settled, AsStored, images
<1>0. flag \in Flag
  BY DEF AllInv, OtaInv, OtaTypeOK
<1>1. CASE InitFlag("init", "app")
  BY <1>1, InitFlagTrue
<1>2. CASE CheckUpdateState
  <2>1. Stored' = Stored /\ pc = "app" /\ pc' = "write" /\ then' = [ok |-> "app", fail |-> "app"]
        /\ UNCHANGED images
    BY <1>2 DEF CheckUpdateState, Store, flash, Stored
  <2>2. flag'.state = "IDLE"
    BY <1>2, <1>0 DEF CheckUpdateState, Store, Flag
  <2> QED BY <2>1, <2>2 DEF AllInv
<1>3. CASE SetReboot
  <2>1. Stored' = Stored /\ pc = "app" /\ pc' = "write" /\ then' = [ok |-> "app", fail |-> "app"]
        /\ UNCHANGED images
    BY <1>3 DEF SetReboot, Store, flash, Stored
  <2>2. flag'.state = "NEEDUPDATE" /\ flag'.offset = 0
    BY <1>3, <1>0 DEF SetReboot, Store, Flag
  <2> QED BY <2>1, <2>2 DEF AllInv
<1>4. CASE Restart
  <2>1. Stored' = Stored /\ pc' = "boot" /\ pc' \notin Writing
    BY <1>4 DEF Restart, Goes, flash, Stored, Writing
  <2> QED BY <1>4, <2>1 DEF Restart, AllInv
<1>5. ASSUME NEW v \in Image, Download(v) PROVE UpdateInv'
  <2>1. Stored' = Stored /\ pc = "app" /\ pc' = "app" /\ pc' \notin Writing
        /\ UNCHANGED active
    BY <1>5 DEF Download, Goes, flash, Stored, Writing
  <2> QED BY <2>1 DEF AllInv
<1> QED BY <1>1, <1>2, <1>3, <1>4, <1>5 DEF AppStep

LEMMA BootStepTrue == ASSUME AllInv, BootStep PROVE UpdateInv'
<1> USE DEF UpdateInv, WriteInv, OtaPlaceInv, Truthful, Copying, UpToDate, Settled, AsStored, images
<1>0. flag \in Flag /\ Default.state = "IDLE" /\ Stored \in Flag \cup {NoFlag}
      /\ active \in ActiveType
  BY StoredType DEF AllInv, OtaInv, OtaTypeOK, Default, ActiveType
<1>s. UNCHANGED flash => Stored' = Stored
  BY DEF flash, Stored
<1>w. "write" \in Writing /\ Program \cap Writing = {}
  BY DEF Writing, Program
<1>1. CASE InitFlag("boot", "process")
  BY <1>1, InitFlagTrue
<1>2. CASE NeedUpdate
  <2>1. Stored' = Stored /\ pc = "process" /\ pc' = "write" /\ UNCHANGED images
    BY <1>2, <1>s DEF NeedUpdate, Store
  <2>2. flag = Stored /\ Stored # NoFlag /\ flag.state = "NEEDUPDATE" /\ flag.offset = 0
    BY <1>2, <1>0, <2>1 DEF AllInv, NeedUpdate
  <2>3. CASE download # flag.image
    <3>1. flag'.state = "FAILED" /\ then' = [ok |-> "jump", fail |-> "jump"]
      BY <2>3, <1>2, <1>0 DEF NeedUpdate, Store, Flag
    <3> QED BY <2>1, <2>2, <3>1 DEF AllInv
  <2>4. CASE download = flag.image
    <3>1. flag'.state = "UPDATING" /\ flag'.offset = 0 /\ flag'.image = download
          /\ then' = [ok |-> "copy", fail |-> "copy"]
      BY <2>4, <2>2, <1>2, <1>0 DEF NeedUpdate, Store, Flag
    <3> QED BY <2>1, <2>2, <3>1 DEF AllInv
  <2> QED BY <2>3, <2>4
<1>3. CASE GoOn
  <2>1. Stored' = Stored /\ pc = "process" /\ pc' = "write" /\ UNCHANGED <<flag, images>>
        /\ flag.state = "UPDATING" /\ then' = [ok |-> "copy", fail |-> "copy"]
    BY <1>3, <1>s DEF GoOn, Store
  <2>2. flag = Stored /\ Stored # NoFlag
    BY <1>0, <2>1 DEF AllInv
  <2>3. flag.offset <= flag.offset
    BY <1>0, OtaAssumption DEF Flag
  <2> QED BY <2>1, <2>2, <2>3 DEF AllInv
<1>4. CASE CountRestart
  <2>1. Stored' = Stored /\ pc = "process" /\ pc' = "write" /\ UNCHANGED images
        /\ flag.state = "SUCCEED" /\ then' = [ok |-> "jump", fail |-> "jump"]
        /\ flag.restarts <= MaxRestarts
    BY <1>4, <1>s DEF CountRestart, Store
  <2>2. flag = Stored /\ Stored # NoFlag
    BY <1>0, <2>1 DEF AllInv
  <2>3. flag'.state = "SUCCEED" /\ flag'.image = flag.image
    BY <1>4, <2>1, <1>0 DEF CountRestart, Store, Flag
  <2> QED BY <2>1, <2>2, <2>3 DEF AllInv
<1>5. CASE GiveUp
  <2>1. Stored' = Stored /\ pc = "process" /\ pc' = "rollback" /\ UNCHANGED <<flag, images>>
        /\ flag.state = "SUCCEED" /\ flag.restarts > MaxRestarts /\ pc' \notin Writing
    BY <1>5, <1>s DEF GiveUp, Goes, Writing
  <2>2. flag = Stored /\ Stored # NoFlag
    BY <1>0, <2>1 DEF AllInv
  <2> QED BY <2>1, <2>2 DEF AllInv
<1>6. CASE NothingToDo
  <2>1. Stored' = Stored /\ pc = "process" /\ pc' = "jump" /\ UNCHANGED <<flag, images>>
        /\ flag.state \in {"IDLE", "FAILED"} /\ pc' \notin Writing
    BY <1>6, <1>s DEF NothingToDo, Goes, Writing
  <2> QED BY <2>1 DEF AllInv
<1>7. CASE CopyBegins
  <2>1. Stored' = Stored /\ pc = "copy" /\ pc' = "copying" /\ UNCHANGED <<flag, download>>
        /\ active' = [active EXCEPT ![flag.offset] = Broken] /\ pc' \notin Writing
    BY <1>7, <1>s DEF CopyBegins, Goes, Writing
  <2>2. \A b \in 0 .. Blocks - 1 : b < flag.offset => active'[b] = active[b]
    BY <2>1, <1>0, OtaAssumption DEF ActiveType, Flag
  <2>3. Copying
    BY <2>1 DEF AllInv
  <2>4. \A b \in 0 .. Blocks - 1 : Stored.state = "UPDATING" /\ b < Stored.offset => b < flag.offset
    BY <2>3, <1>0, OtaAssumption DEF Flag
  <2>5. Truthful(flag)'
    BY <2>1, <2>2, <2>3
  <2>6. Truthful(Stored)'
    BY <2>1, <2>2, <2>3, <2>4 DEF AllInv
  <2> QED BY <2>1, <2>3, <2>5, <2>6 DEF AllInv
<1>8. CASE CopyEnds
  <2>1. Stored' = Stored /\ pc = "copying" /\ pc' = "write" /\ UNCHANGED download
        /\ active' = [active EXCEPT ![flag.offset] = download]
        /\ then' = [ok |-> "copy", fail |-> "failed"]
        /\ flag' = [flag EXCEPT !.offset = @ + 1]
    BY <1>8, <1>s DEF CopyEnds, Store
  <2>2. flag.offset < Blocks /\ flag.offset \in Nat /\ Copying
    BY <2>1, <1>0, OtaAssumption DEF AllInv, OtaInv, Flag
  <2>3. download = flag.image
    BY <2>2, OtaAssumption
  <2>4. flag'.state = "UPDATING" /\ flag'.offset = flag.offset + 1 /\ flag'.image = flag.image
    BY <2>1, <2>2, <1>0 DEF Flag
  <2>5. \A b \in 0 .. Blocks - 1 : b < flag.offset => active'[b] = active[b]
    BY <2>1, <1>0, <2>2, OtaAssumption DEF ActiveType, Flag
  <2>6. active'[flag.offset] = download
    BY <2>1, <1>0, <2>2, OtaAssumption DEF ActiveType
  <2>7. \A b \in 0 .. Blocks - 1 : b < flag.offset + 1 => b < flag.offset \/ b = flag.offset
    BY <2>2, OtaAssumption
  <2>8. Truthful(flag)'
    <3>1. \A b \in 0 .. Blocks - 1 : b < flag.offset + 1 => active'[b] = flag.image
      BY <2>2, <2>3, <2>5, <2>6, <2>7
    <3> QED BY <3>1, <2>1, <2>3, <2>4
  <2>9. \A b \in 0 .. Blocks - 1 : Stored.state = "UPDATING" /\ b < Stored.offset => b < flag.offset
    BY <2>2, <1>0, OtaAssumption DEF Flag
  <2>10. Truthful(Stored)'
    BY <2>1, <2>2, <2>5, <2>9 DEF AllInv
  <2>11. Stored.state = "UPDATING" => Stored.offset <= flag.offset + 1
    BY <2>2, <1>0, OtaAssumption DEF Flag
  <2> QED BY <2>1, <2>2, <2>4, <2>8, <2>10, <2>11 DEF AllInv
<1>9. CASE UpdateSucceeds
  <2>1. Stored' = Stored /\ pc = "copy" /\ pc' = "write" /\ UNCHANGED images
        /\ flag.offset = Blocks /\ then' = [ok |-> "jump", fail |-> "jump"]
        /\ flag' = [flag EXCEPT !.state = "SUCCEED"]
    BY <1>9, <1>s DEF UpdateSucceeds, Store
  <2>2. Copying /\ flag.offset \in Nat /\ Blocks \in Nat
    BY <2>1, <1>0, OtaAssumption DEF AllInv, Flag
  <2>3. \A b \in 0 .. Blocks - 1 : active[b] = flag.image
    BY <2>1, <2>2
  <2>4. flag'.state = "SUCCEED" /\ flag'.image = flag.image
    BY <2>1, <1>0 DEF Flag
  <2>5. Settled
    BY <2>1 DEF AllInv
  <2> QED BY <2>1, <2>2, <2>3, <2>4, <2>5 DEF AllInv
<1>10. CASE UpdateFails
  <2>1. Stored' = Stored /\ pc' = "write" /\ UNCHANGED images
        /\ then' = [ok |-> "jump", fail |-> "jump"]
        /\ flag' = [flag EXCEPT !.state = "FAILED"]
    BY <1>10, <1>s DEF UpdateFails, Store
  <2>2. flag'.state = "FAILED"
    BY <2>1, <1>0 DEF Flag
  <2> QED BY <2>1, <2>2 DEF AllInv
<1>11. CASE RollBegins
  <2>1. Stored' = Stored /\ pc = "rollback" /\ pc' = "rolling" /\ UNCHANGED <<flag, download>>
        /\ pc' \notin Writing
    BY <1>11, <1>s DEF RollBegins, Goes, Writing
  <2>2. Stored = flag /\ flag.state = "SUCCEED" /\ flag.restarts > MaxRestarts
    BY <2>1 DEF AllInv
  <2>3. ~(flag.restarts <= MaxRestarts)
    BY <2>2, <1>0, OtaAssumption DEF Flag
  <2> QED BY <2>1, <2>2, <2>3 DEF AllInv
<1>12. CASE RollEnds
  <2>1. Stored' = Stored /\ pc = "rolling" /\ pc' = "write" /\ UNCHANGED download
        /\ then' = [ok |-> "jump", fail |-> "jump"]
        /\ flag' = [flag EXCEPT !.state = "FAILED"]
    BY <1>12, <1>s DEF RollEnds, Store
  <2>2. Stored = flag /\ flag.state = "SUCCEED" /\ flag.restarts > MaxRestarts
    BY <2>1 DEF AllInv
  <2>3. ~(flag.restarts <= MaxRestarts) /\ flag'.state = "FAILED"
    BY <2>1, <2>2, <1>0, OtaAssumption DEF Flag
  <2> QED BY <2>1, <2>2, <2>3 DEF AllInv
<1>13. CASE Jump
  <2>1. Stored' = Stored /\ pc = "jump" /\ pc' \in {"init", "boot"} /\ pc' \notin Writing
        /\ UNCHANGED <<flag, images>>
    BY <1>13, <1>s DEF Jump, Goes, Writing
  <2> QED BY <2>1 DEF AllInv
<1> QED BY <1>1, <1>2, <1>3, <1>4, <1>5, <1>6, <1>7, <1>8, <1>9, <1>10, <1>11, <1>12,
           <1>13 DEF BootStep

LEMMA UpdateInvStep ==
  ASSUME AllInv, [OtaNext]_otavars, [RecordKept]_otavars
  PROVE  UpdateInv'
<1>1. CASE UNCHANGED otavars
  <2>1. Stored' = Stored
    BY <1>1 DEF otavars, flash, Stored
  <2> QED
    BY <1>1, <2>1 DEF otavars, images, AllInv, UpdateInv, WriteInv, OtaPlaceInv, Truthful,
                      Copying, UpToDate, Settled, AsStored
<1>2. CASE WriteFails
  <2>1. RecordKept
    BY <1>2 DEF WriteFails, AllInv, OtaInv, OtaTypeOK, otavars, faults
  <2> QED BY <1>2, <2>1, WriteFailsTrue
<1> QED
  BY <1>1, <1>2, WriteStepTrue, BootStepTrue, AppStepTrue, CrashTrue DEF OtaNext

(* The hypothesis leaves out the loss of that record, of which section 8   *)
(* of the README says what follows.                                        *)
LEMMA UpdateInvAlways == OtaSpec /\ FailureRecorded => [](OtaInv /\ UpdateInv)
<1>1. OtaInit => UpdateInv
  BY DEF OtaInit, UpdateInv, WriteInv, OtaPlaceInv, Stored, Writing
<1>2. OtaInv /\ UpdateInv /\ [OtaNext]_otavars /\ [RecordKept]_otavars => UpdateInv'
  BY UpdateInvStep DEF AllInv
<1> QED
  BY <1>1, <1>2, OtaInvAlways, PTL DEF OtaSpec, FailureRecorded

(* Wherever the power is lost and whichever writes fail, copying resumes   *)
(* only where the blocks that are counted as copied are those of the image *)
(* that was asked for, as long as an update that failed is recorded.       *)
THEOREM ResumeSoundHolds == OtaSpec /\ FailureRecorded => []ResumeSound
<1>1. UpdateInv => ResumeSound
  BY DEF UpdateInv, Truthful, ResumeSound
<1> QED BY <1>1, UpdateInvAlways, PTL

(* A success that is stored is one: the whole image is in its place while  *)
(* its restarts are counted.                                               *)
THEOREM SuccessIsWholeHolds == OtaSpec /\ FailureRecorded => []SuccessIsWhole
<1>1. UpdateInv => SuccessIsWhole
  BY DEF UpdateInv, Truthful, SuccessIsWhole
<1> QED BY <1>1, UpdateInvAlways, PTL
-----------------------------------------------------------------------------
(* One failed write at most, and the hypothesis holds.                     *)
LEMMA OneFailureStep ==
  ASSUME AllInv, OneFailure, [OtaNext]_otavars, MaxFails <= 1
  PROVE  OneFailure' /\ [RecordKept]_otavars
<1> USE DEF OneFailure
<1>0. fails \in Nat /\ flag \in Flag /\ fails <= MaxFails
  BY OtaAssumption DEF AllInv, OtaInv, OtaTypeOK
<1>s. UNCHANGED flash => Stored' = Stored
  BY DEF flash, Stored
<1>1. CASE UNCHANGED otavars
  BY <1>1, <1>s DEF otavars, faults, RecordKept
<1>2. CASE WriteStep
  <2>1. CASE WriteBegins \/ BackupEnds \/ MainBegins
    <3>1. Stored' = Stored
      BY <2>1 DEF WriteBegins, BackupEnds, MainBegins, Stored, AllInv, OtaInv, CopiesKept
    <3> QED
      BY <2>1, <3>1 DEF WriteBegins, BackupEnds, MainBegins, Writing, faults, RecordKept
  <2>2. CASE MainEnds
    <3>1. then.ok \in {"copy", "process", "jump", "app"}
      BY <2>2 DEF MainEnds, Writing, AllInv, UpdateInv, WriteInv
    <3> QED
      BY <2>2, <3>1 DEF MainEnds, Writing, faults, RecordKept
  <2> QED BY <1>2, <2>1, <2>2 DEF WriteStep
<1>3. CASE WriteFails
  <2>1. fails = 0 /\ fails' = 1 /\ pc \in Writing /\ pc' = then.fail
    BY <1>3, <1>0, OtaAssumption DEF WriteFails
  <2>2. then.fail \in Landing
    BY DEF AllInv, OtaInv
  <2>3. pc' \notin Writing
    BY <2>1, <2>2 DEF Landing, Program, Writing
  <2> QED BY <2>1, <2>3 DEF RecordKept
<1>4. CASE Crash
  BY <1>4 DEF Crash, Writing, RecordKept
<1>5. CASE BootStep \/ AppStep
  <2>1. Stored' = Stored /\ UNCHANGED faults
    BY <1>5, <1>s DEF BootStep, AppStep, InitFlag, NeedUpdate, GoOn, CountRestart, GiveUp,
         NothingToDo, CopyBegins, CopyEnds, UpdateSucceeds, UpdateFails, RollBegins, RollEnds,
         Jump, CheckUpdateState, SetReboot, Restart, Download, Store, Goes
  <2>2. pc' # "failed"
    BY <1>5 DEF BootStep, AppStep, InitFlag, NeedUpdate, GoOn, CountRestart, GiveUp,
         NothingToDo, CopyBegins, CopyEnds, UpdateSucceeds, UpdateFails, RollBegins, RollEnds,
         Jump, CheckUpdateState, SetReboot, Restart, Download, Store, Goes
  <2>3. ASSUME pc' \in Writing, flag'.state = "FAILED", Stored # NoFlag, Stored.state = "UPDATING"
        PROVE  fails >= 1
    <3>1. CASE UpdateFails
      BY <3>1 DEF UpdateFails
    <3>2. CASE NeedUpdate
      <4>1. pc = "process" /\ flag.state = "NEEDUPDATE"
        BY <3>2 DEF NeedUpdate
      <4>2. flag = Stored
        BY <4>1, <2>3 DEF AllInv, UpdateInv, OtaPlaceInv, AsStored
      <4> QED BY <4>1, <4>2, <2>3
    <3>3. CASE RollEnds
      <4>1. pc = "rolling"
        BY <3>3 DEF RollEnds
      <4> QED BY <4>1, <2>3 DEF AllInv, UpdateInv, OtaPlaceInv
    <3>4. CASE NothingToDo \/ GiveUp \/ CopyBegins \/ RollBegins \/ Jump \/ Restart
               \/ \E v \in Image : Download(v)
      <4>1. pc' \notin Writing
        BY <3>4 DEF NothingToDo, GiveUp, CopyBegins, RollBegins, Jump, Restart, Download,
                    Goes, Writing
      <4> QED BY <4>1, <2>3
    <3>5. CASE InitFlag("boot", "process") \/ InitFlag("init", "app")
      <4>1. Stored # NoFlag
        BY <2>3
      <4>2. pc' \notin Writing
        BY <3>5, <4>1 DEF InitFlag, Goes, Writing
      <4> QED BY <4>2, <2>3
    <3>6. CASE GoOn
      BY <3>6, <2>3 DEF GoOn, Store
    <3>7. CASE CountRestart
      BY <3>7, <2>3, <1>0 DEF CountRestart, Store, Flag
    <3>8. CASE CopyEnds
      <4>1. Copying /\ flag' = [flag EXCEPT !.offset = @ + 1]
        BY <3>8 DEF CopyEnds, Store, AllInv, UpdateInv, OtaPlaceInv
      <4> QED BY <4>1, <2>3, <1>0 DEF Copying, Flag
    <3>9. CASE UpdateSucceeds
      BY <3>9, <2>3, <1>0 DEF UpdateSucceeds, Store, Flag
    <3>10. CASE CheckUpdateState
      BY <3>10, <2>3, <1>0 DEF CheckUpdateState, Store, Flag
    <3>11. CASE SetReboot
      BY <3>11, <2>3, <1>0 DEF SetReboot, Store, Flag
    <3> QED BY <1>5, <3>1, <3>2, <3>3, <3>4, <3>5, <3>6, <3>7, <3>8, <3>9, <3>10, <3>11
            DEF BootStep, AppStep
  <2> QED BY <2>1, <2>2, <2>3 DEF faults, RecordKept
<1> QED BY <1>1, <1>2, <1>3, <1>4, <1>5 DEF OtaNext

(* So the two theorems hold of every board on which at most one write of   *)
(* the flag fails, without a hypothesis on which.                          *)
LEMMA OneFailureRecorded == ASSUME MaxFails <= 1 PROVE OtaSpec => FailureRecorded
<1>1. OtaInit => UpdateInv /\ OneFailure
  BY DEF OtaInit, UpdateInv, WriteInv, OtaPlaceInv, OneFailure, Stored, Writing
<1>2. OtaInv /\ UpdateInv /\ OneFailure /\ [OtaNext]_otavars
        => UpdateInv' /\ OneFailure' /\ [RecordKept]_otavars
  <2> SUFFICES ASSUME AllInv, OneFailure, [OtaNext]_otavars
               PROVE  UpdateInv' /\ OneFailure' /\ [RecordKept]_otavars
    BY DEF AllInv
  <2>1. OneFailure' /\ [RecordKept]_otavars
    BY OneFailureStep
  <2> QED BY <2>1, UpdateInvStep
<1> QED
  BY <1>1, <1>2, OtaInvAlways, PTL DEF OtaSpec, FailureRecorded
-----------------------------------------------------------------------------
(***************************************************************************)
(* The AT framework.                                                       *)
(***************************************************************************)
Types ==
  /\ at \in [Caller -> {"user", "cmdsync"} \cup InCommand]
  /\ cmdsync \in 0 .. 1 /\ respsync \in 0 .. 1
  /\ cmdlock \in {NoTask, Receiver}
  /\ owner \in Caller \cup {NoTask}
  /\ respdatalen \in Nat
  /\ resp \in [Caller -> Frame \cup {NoFrame}]
  /\ result \in [Caller -> Nat]

(* The right to execute a command: in cmdsync or with one caller.          *)
Token ==
  /\ \A c \in Caller : at[c] \in InCommand =>
       cmdsync = 0 /\ \A d \in Caller : at[d] \in InCommand => d = c
  /\ cmdsync = 0 => \E c \in Caller : at[c] \in InCommand

(* The command block belongs to the caller between create and clear.       *)
HasBlock == {"wait", "read", "clear"}
Block ==
  /\ owner # NoTask => at[owner] \in HasBlock
  /\ \A c \in Caller : at[c] \in HasBlock => owner = c

(* The receiver holds the mutex over the two halves of a match.            *)
Matching ==
  /\ cmdlock = Receiver <=> rcv = "copied"
  /\ rcv = "copied" =>
       owner # NoTask /\ hand \in Frame /\ resp[owner] \in Answers[owner]

Matched(c) == resp[c] \in Answers[c] /\ respdatalen > 0

Answered ==
  \A c \in Caller :
    /\ at[c] = "wait" /\ respsync > 0 => Matched(c)
    /\ at[c] = "read" => Matched(c)
    /\ at[c] # "user" /\ result[c] > 0 => resp[c] \in Answers[c]

AtInv == Types /\ Token /\ Block /\ Matching /\ Answered

LEMMA AtInitHolds == ASSUME AtInit PROVE AtInv
BY AtAssumption DEF AtInit, UartInit, AtInv, Types, Token, Block, Matching,
   Answered, Matched, InCommand, HasBlock

(* The steps of the interrupt and of the receiver before the match do not  *)
(* touch the command.                                                      *)
LEMMA UartKeeps == ASSUME AtInv, UartStep, UNCHANGED command PROVE AtInv'
<1>1. Types' /\ Token' /\ Block' /\ Answered'
  BY DEF AtInv, command, Types, Token, Block, Answered, Matched
<1>2. CASE \E f \in Frame : AtioIrq(f)
  BY <1>1, <1>2 DEF AtioIrq, AtInv, Matching, command
<1>3. CASE ReceivePend
  BY <1>1, <1>3 DEF ReceivePend, AtInv, Matching, command
<1>4. CASE ReceiveFrame
  <2>1. rcv = "woken" /\ rcv' \in {"pend", "deal"}
    BY <1>4 DEF ReceiveFrame
  <2> QED BY <1>1, <2>1 DEF AtInv, Matching, command
<1> QED BY <1>2, <1>3, <1>4 DEF UartStep

LEMMA MatchCopyKeeps == ASSUME AtInv, MatchCopy PROVE AtInv'
<1> USE DEF AtInv, MatchCopy
<1>1. owner \in Caller /\ hand \in Frame /\ hand \in Answers[owner]
  BY AtAssumption DEF Types
<1>2. Types'
  BY <1>1 DEF Types
<1>3. Token' /\ Block'
  BY DEF Token, Block
<1>4. resp'[owner] \in Answers[owner] /\
      \A c \in Caller : c # owner => resp'[c] = resp[c]
  BY <1>1 DEF Types
<1>5. Matching'
  BY <1>1, <1>4, AtAssumption DEF Matching
<1>6. Answered'
  BY <1>4 DEF Answered, Matched
<1> QED BY <1>2, <1>3, <1>5, <1>6

LEMMA MatchPostKeeps == ASSUME AtInv, MatchPost PROVE AtInv'
<1> USE DEF AtInv, MatchPost
<1>1. owner \in Caller /\ hand \in Frame /\ resp[owner] \in Answers[owner]
  BY DEF Types, Matching
<1>2. respdatalen' \in Nat /\ respdatalen' > 0
  BY <1>1, UartAssumption, AtAssumption DEF Lesser
<1>3. Types' /\ Token' /\ Block'
  BY <1>2 DEF Types, Token, Block
<1>4. Matching'
  BY AtAssumption DEF Matching
<1>5. Answered'
  BY <1>1, <1>2 DEF Answered, Matched, Block, HasBlock
<1> QED BY <1>3, <1>4, <1>5

LEMMA MatchNoneKeeps == ASSUME AtInv, MatchNone PROVE AtInv'
BY DEF AtInv, MatchNone, command, Types, Token, Block, Matching, Answered,
       Matched

(* A step of one caller is a step of none of the others.                   *)
LEMMA GoesOnly ==
  ASSUME Types, NEW c \in Caller, NEW from, NEW to, AtGoes(c, from, to)
  PROVE  /\ at[c] = from /\ at'[c] = to
         /\ \A d \in Caller : d # c => at'[d] = at[d]
BY DEF Types, AtGoes

LEMMA GoesTypes ==
  ASSUME Types, NEW c \in Caller, NEW from,
         NEW to \in {"user", "cmdsync"} \cup InCommand, AtGoes(c, from, to)
  PROVE  at' \in [Caller -> {"user", "cmdsync"} \cup InCommand]
BY DEF Types, AtGoes

LEMMA AtCommandKeeps ==
  ASSUME AtInv, NEW c \in Caller, AtCommand(c) PROVE AtInv'
<1> USE DEF AtInv, AtCommand
<1>1. /\ at[c] = "user" /\ at'[c] = "cmdsync"
      /\ \A d \in Caller : d # c => at'[d] = at[d]
  BY GoesOnly
<1>2. Types'
  BY GoesTypes DEF Types
<1>3. /\ resp'[c] = NoFrame /\ result'[c] = 0
      /\ \A d \in Caller : d # c => resp'[d] = resp[d] /\ result'[d] = result[d]
  BY DEF Types
<1>s. \A d \in Caller : at'[d] \in InCommand <=> at[d] \in InCommand
  BY <1>1 DEF InCommand
<1>h. \A d \in Caller : at'[d] \in HasBlock <=> at[d] \in HasBlock
  BY <1>1 DEF HasBlock
<1>o. owner \in Caller \cup {NoTask}
  BY DEF Types
<1>t. Token'
  <2>1. cmdsync' = cmdsync
    OBVIOUS
  <2> QED BY <1>s, <2>1 DEF Token
<1>b. Block'
  <2>1. owner' = owner
    OBVIOUS
  <2> QED BY <1>h, <1>o, <2>1 DEF Block
<1>4. Token' /\ Block'
  BY <1>t, <1>b
<1>5. Matching'
  BY <1>1, <1>3 DEF Matching, Block, HasBlock, uart, Types
<1>6. Answered'
  BY <1>1, <1>3 DEF Answered, Matched
<1> QED BY <1>2, <1>4, <1>5, <1>6

LEMMA CmdSyncPendKeeps ==
  ASSUME AtInv, NEW c \in Caller, CmdSyncPend(c) PROVE AtInv'
<1> USE DEF AtInv, CmdSyncPend
<1>1. /\ at[c] = "cmdsync" /\ at'[c] = "create"
      /\ \A d \in Caller : d # c => at'[d] = at[d]
  BY GoesOnly
<1>2. cmdsync = 1 /\ cmdsync' = 0
  BY DEF Types
<1>3. Types'
  BY <1>2, GoesTypes DEF Types, InCommand
<1>a. \A d \in Caller : at[d] \notin InCommand
  BY <1>2 DEF Token
<1>t. Token'
  BY <1>1, <1>2, <1>a DEF Token, InCommand
<1>s. \A d \in Caller : at'[d] \in HasBlock <=> at[d] \in HasBlock
  BY <1>1 DEF HasBlock
<1>o. owner \in Caller \cup {NoTask}
  BY DEF Types
<1>b. Block'
  BY <1>s, <1>o DEF Block
<1>4. Token' /\ Block'
  BY <1>t, <1>b
<1>5. Matching' /\ Answered'
  BY <1>1 DEF Matching, Answered, Matched, uart
<1> QED BY <1>3, <1>4, <1>5

LEMMA CmdSyncTimeoutKeeps ==
  ASSUME AtInv, NEW c \in Caller, CmdSyncTimeout(c) PROVE AtInv'
<1> USE DEF AtInv, CmdSyncTimeout
<1>1. /\ at[c] = "cmdsync" /\ at'[c] = "user"
      /\ \A d \in Caller : d # c => at'[d] = at[d]
  BY GoesOnly
<1>3. Types'
  BY GoesTypes DEF Types
<1>s. \A d \in Caller : at'[d] \in InCommand <=> at[d] \in InCommand
  BY <1>1 DEF InCommand
<1>h. \A d \in Caller : at'[d] \in HasBlock <=> at[d] \in HasBlock
  BY <1>1 DEF HasBlock
<1>o. owner \in Caller \cup {NoTask}
  BY DEF Types
<1>t. Token'
  <2>1. cmdsync' = cmdsync
    OBVIOUS
  <2> QED BY <1>s, <2>1 DEF Token
<1>b. Block'
  <2>1. owner' = owner
    OBVIOUS
  <2> QED BY <1>h, <1>o, <2>1 DEF Block
<1>4. Token' /\ Block'
  BY <1>t, <1>b
<1>5. Matching' /\ Answered'
  BY <1>1 DEF Matching, Answered, Matched, uart
<1> QED BY <1>3, <1>4, <1>5

LEMMA CreateKeeps == ASSUME AtInv, NEW c \in Caller, Create(c) PROVE AtInv'
<1> USE DEF AtInv, Create
<1>1. /\ at[c] = "create" /\ at'[c] = "wait"
      /\ \A d \in Caller : d # c => at'[d] = at[d]
  BY GoesOnly
<1>2. \A d \in Caller : d # c => at[d] \notin InCommand
  BY <1>1 DEF Token, InCommand
<1>3. Types'
  BY GoesTypes DEF Types, InCommand
<1>4. Token'
  BY <1>1 DEF Token, InCommand
<1>5. Block'
  BY <1>1, <1>2, AtAssumption DEF Block, HasBlock, InCommand
<1>6. Matching'
  BY AtAssumption DEF Matching, uart
<1>7. Answered'
  BY <1>1, <1>2 DEF Answered, Matched, InCommand
<1> QED BY <1>3, <1>4, <1>5, <1>6, <1>7

LEMMA RespSyncPendKeeps ==
  ASSUME AtInv, NEW c \in Caller, RespSyncPend(c) PROVE AtInv'
<1> USE DEF AtInv, RespSyncPend
<1>1. /\ at[c] = "wait" /\ at'[c] = "read"
      /\ \A d \in Caller : d # c => at'[d] = at[d]
  BY GoesOnly
<1>2. respsync = 1 /\ respsync' = 0
  BY DEF Types
<1>3. Types'
  BY <1>2, GoesTypes DEF Types, InCommand
<1>4. Token' /\ Block'
  BY <1>1 DEF Token, Block, InCommand, HasBlock
<1>5. Matching'
  BY DEF Matching, uart
<1>6. Answered'
  BY <1>1, <1>2 DEF Answered, Matched
<1> QED BY <1>3, <1>4, <1>5, <1>6

LEMMA ReadLengthKeeps ==
  ASSUME AtInv, NEW c \in Caller, ReadLength(c) PROVE AtInv'
<1> USE DEF AtInv, ReadLength
<1>1. /\ at[c] = "read" /\ at'[c] = "clear"
      /\ \A d \in Caller : d # c => at'[d] = at[d]
  BY GoesOnly
<1>3. Types'
  BY GoesTypes DEF Types, InCommand
<1>4. Token' /\ Block'
  BY <1>1 DEF Token, Block, InCommand, HasBlock
<1>5. Matching'
  BY DEF Matching, uart
<1>6. \A d \in Caller : d # c => result'[d] = result[d]
  BY DEF Types
<1>7. Answered'
  BY <1>1, <1>6 DEF Answered, Matched
<1> QED BY <1>3, <1>4, <1>5, <1>7

LEMMA RespSyncTimeoutKeeps ==
  ASSUME AtInv, NEW c \in Caller, RespSyncTimeout(c) PROVE AtInv'
<1> USE DEF AtInv, RespSyncTimeout
<1>1. /\ at[c] = "wait" /\ at'[c] = "clear"
      /\ \A d \in Caller : d # c => at'[d] = at[d]
  BY GoesOnly
<1>3. Types'
  BY GoesTypes DEF Types, InCommand
<1>4. Token' /\ Block'
  BY <1>1 DEF Token, Block, InCommand, HasBlock
<1>5. Matching' /\ Answered'
  BY <1>1 DEF Matching, Answered, Matched, uart
<1> QED BY <1>3, <1>4, <1>5

LEMMA ClearKeepsInv == ASSUME AtInv, NEW c \in Caller, Clear(c) PROVE AtInv'
<1> USE DEF AtInv, Clear
<1>1. /\ at[c] = "clear" /\ at'[c] = "post"
      /\ \A d \in Caller : d # c => at'[d] = at[d]
  BY GoesOnly
<1>2. \A d \in Caller : d # c => at[d] \notin InCommand
  BY <1>1 DEF Token, InCommand
<1>3. Types'
  BY GoesTypes DEF Types, InCommand
<1>4. Token'
  BY <1>1 DEF Token, InCommand
<1>5. Block'
  BY <1>1, <1>2 DEF Block, HasBlock, InCommand
<1>6. Matching'
  BY AtAssumption DEF Matching, uart
<1>7. Answered'
  BY <1>1, <1>2 DEF Answered, Matched, InCommand
<1> QED BY <1>3, <1>4, <1>5, <1>6, <1>7

LEMMA CmdSyncPostKeeps ==
  ASSUME AtInv, NEW c \in Caller, CmdSyncPost(c) PROVE AtInv'
<1> USE DEF AtInv, CmdSyncPost
<1>1. /\ at[c] = "post" /\ at'[c] = "user"
      /\ \A d \in Caller : d # c => at'[d] = at[d]
  BY GoesOnly
<1>2. \A d \in Caller : at'[d] \notin InCommand
  BY <1>1 DEF Token, InCommand
<1>3. Types'
  BY GoesTypes DEF Types
<1>t. Token'
  BY <1>2 DEF Token
<1>s. \A d \in Caller : at'[d] \in HasBlock <=> at[d] \in HasBlock
  BY <1>1 DEF HasBlock
<1>o. owner \in Caller \cup {NoTask}
  BY DEF Types
<1>b. Block'
  BY <1>s, <1>o DEF Block
<1>4. Token' /\ Block'
  BY <1>t, <1>b
<1>5. Matching' /\ Answered'
  BY <1>1 DEF Matching, Answered, Matched, uart
<1> QED BY <1>3, <1>4, <1>5

LEMMA AtNextKeeps == ASSUME AtInv, [AtNext]_atvars PROVE AtInv'
<1>1. CASE UNCHANGED atvars
  BY <1>1 DEF atvars, uart, command, AtInv, Types, Token, Block, Matching,
              Answered, Matched
<1>2. CASE UartStep /\ UNCHANGED command
  BY <1>2, UartKeeps
<1>3. CASE ReceiverStep
  BY <1>3, MatchCopyKeeps, MatchPostKeeps, MatchNoneKeeps DEF ReceiverStep
<1>4. ASSUME NEW c \in Caller, CallStep(c) PROVE AtInv'
  BY <1>4, AtCommandKeeps, CmdSyncPendKeeps, CmdSyncTimeoutKeeps, CreateKeeps,
     RespSyncPendKeeps, RespSyncTimeoutKeeps, ReadLengthKeeps, ClearKeepsInv,
     CmdSyncPostKeeps
     DEF CallStep, CmdSyncEnds, RespSyncEnds
<1> QED BY <1>1, <1>2, <1>3, <1>4 DEF AtNext

LEMMA AtInvAlways == AtSpec => []AtInv
BY AtInitHolds, AtNextKeeps, PTL DEF AtSpec
-----------------------------------------------------------------------------
LEMMA TokenIsOne == ASSUME AtInv PROVE OneCommand
<1> DEFINE commanding == {c \in Caller : at[c] \in InCommand}
<1>1. CASE cmdsync = 0
  <2>1. PICK c \in Caller : at[c] \in InCommand
    BY <1>1 DEF AtInv, Token
  <2>2. commanding = {c}
    BY <2>1 DEF AtInv, Token
  <2>3. Cardinality(commanding) = 1
    BY <2>2, FS_Singleton
  <2> QED BY <1>1, <2>3 DEF OneCommand
<1>2. CASE cmdsync = 1
  <2>1. commanding = {}
    BY <1>2 DEF AtInv, Token
  <2>2. Cardinality(commanding) = 0
    BY <2>1, FS_EmptySet
  <2> QED BY <1>2, <2>2 DEF OneCommand
<1> QED BY <1>1, <1>2 DEF AtInv, Types

(* However the waits of at_command end, the right to execute a command is  *)
(* in cmdsync or with exactly one caller.                                  *)
THEOREM CommandsExclude == AtSpec => []OneCommand
BY TokenIsOne, AtInvAlways, PTL

(* An at_command that is answered has an answer to its own index in its    *)
(* buffer, and finds a recorded length above zero.                         *)
THEOREM AnswersMatch == AtSpec => []AnswerIsMatched
<1>1. AtInv => AnswerIsMatched
  BY DEF AtInv, Answered, Matched, AnswerIsMatched
<1> QED BY <1>1, AtInvAlways, PTL

(* __cmd_match never writes the buffer of an at_command that has returned. *)
THEOREM BuffersLetGo == AtSpec => NoLateWrite
<1> DEFINE A == \A c \in Caller :
                  at[c] = "user" /\ at'[c] = "user" => resp'[c] = resp[c]
<1>1. AtInv /\ [AtNext]_atvars => [A]_atvars
  <2> SUFFICES ASSUME AtInv, AtNext, NEW c \in Caller,
                      at[c] = "user", at'[c] = "user"
               PROVE  resp'[c] = resp[c]
    BY DEF AtNext
  <2>1. CASE UartStep /\ UNCHANGED command
    BY <2>1 DEF command
  <2>2. CASE MatchCopy
    BY <2>2 DEF MatchCopy, AtInv, Block, HasBlock, Types
  <2>3. CASE MatchPost \/ MatchNone
    BY <2>3 DEF MatchPost, MatchNone, command
  <2>4. ASSUME NEW d \in Caller, CallStep(d) PROVE resp'[c] = resp[c]
    <3>1. CASE AtCommand(d)
      <4>1. at'[d] = "cmdsync"
        BY <3>1, GoesOnly DEF AtCommand, AtInv
      <4> QED BY <3>1, <4>1 DEF AtCommand, AtInv, Types
    <3>2. CASE ~AtCommand(d)
      BY <2>4, <3>2 DEF CallStep, CmdSyncEnds, RespSyncEnds, CmdSyncPend,
         CmdSyncTimeout, Create, RespSyncPend, RespSyncTimeout, ReadLength,
         Clear, CmdSyncPost
    <3> QED BY <3>1, <3>2
  <2> QED BY <2>1, <2>2, <2>3, <2>4 DEF AtNext, ReceiverStep
<1> QED BY <1>1, AtInvAlways, PTL DEF AtSpec, NoLateWrite
-----------------------------------------------------------------------------
(***************************************************************************)
(* The byte ring: what is written comes behind what is in it, and what is  *)
(* read comes from the front, wherever the memory ends.                    *)
(***************************************************************************)
Byte == Cell \cup {Stale}

RingOK(r) == r \in [mem : [Index -> Byte], off : Index, len : 0 .. RingLen]

(* The byte i of what is in it.                                            *)
At(r, i) == r.mem[(r.off + i - 1) % RingLen]

LEMMA RollOver ==
  /\ RingLen \in Nat \ {0}
  /\ \A x \in 0 .. 2 * RingLen - 1 :
       x % RingLen = IF x < RingLen THEN x ELSE x - RingLen
<1>1. \A x \in 0 .. RingLen - 1 : x % RingLen = x
  BY UartAssumption
<1>2. \A x \in RingLen .. 2 * RingLen - 1 : x % RingLen = x - RingLen
  BY UartAssumption
<1> QED
  BY <1>1, <1>2, UartAssumption

LEMMA CopiedBytes ==
  ASSUME NEW mem \in [Index -> Byte], NEW to \in Nat, NEW bytes \in Seq(Byte)
  PROVE  /\ Copied(mem, to, bytes) \in [Index -> Byte]
         /\ \A x \in Index : Copied(mem, to, bytes)[x] =
              IF x - to + 1 \in 1 .. Len(bytes) THEN bytes[x - to + 1] ELSE mem[x]
<1>1. DOMAIN bytes = 1 .. Len(bytes) /\ \A k \in 1 .. Len(bytes) : bytes[k] \in Byte
  BY LenProperties, ElementOfSeq
<1> QED
  BY <1>1 DEF Copied

LEMMA FunIsSeq ==
  ASSUME NEW S, NEW n \in Nat, NEW f \in [1 .. n -> S]
  PROVE  f \in Seq(S) /\ Len(f) = n
OBVIOUS

LEMMA TakenBytes ==
  ASSUME NEW mem \in [Index -> Byte], NEW from \in Nat, NEW n \in Nat, from + n <= RingLen
  PROVE  /\ Taken(mem, from, n) \in Seq(Byte) /\ Len(Taken(mem, from, n)) = n
         /\ \A k \in 1 .. n : Taken(mem, from, n)[k] = mem[from + k - 1]
<1>1. \A k \in 1 .. n : from + k - 1 \in Index
  BY UartAssumption DEF Index
<1>2. Taken(mem, from, n) \in [1 .. n -> Byte]
  BY <1>1 DEF Taken
<1>3. \A k \in 1 .. n : Taken(mem, from, n)[k] = mem[from + k - 1]
  BY DEF Taken
<1> QED
  BY <1>2, <1>3, FunIsSeq

LEMMA RingWriteBytes ==
  ASSUME NEW r, RingOK(r), NEW bytes \in Seq(Byte), r.len + Len(bytes) <= RingLen,
         NEW w, w = RingWrite(r, bytes)
  PROVE  /\ RingOK(w) /\ w.len = r.len + Len(bytes) /\ w.off = r.off
         /\ \A i \in 1 .. r.len : At(w, i) = At(r, i)
         /\ \A k \in 1 .. Len(bytes) : At(w, r.len + k) = bytes[k]
<1> DEFINE n == Len(bytes)
           N == RingLen
           o == r.off
           l == r.len
           end == o + l
           first == IF end <= N /\ end + n > N THEN N - end ELSE 0
           start == (end + first) % N
           a == SubSeq(bytes, 1, first)
           b == SubSeq(bytes, first + 1, n)
           once == Copied(r.mem, end, a)
           twice == Copied(once, start, b)
<1>1. /\ n \in Nat /\ N \in Nat \ {0} /\ o \in 0 .. N - 1 /\ l \in 0 .. N
      /\ l + n <= N /\ r.mem \in [Index -> Byte] /\ end \in Nat
      /\ end = o + l
  BY LenProperties, UartAssumption DEF RingOK, Index
<1>2. Lesser(n, N - l) = n
  BY <1>1 DEF Lesser
<1>3. w = [mem |-> twice, off |-> o, len |-> l + n]
  BY <1>2 DEF RingWrite, RingOK
<1>4. first \in 0 .. n
  BY <1>1
<1>5. /\ a \in Seq(Byte) /\ Len(a) = first /\ \A k \in 1 .. first : a[k] = bytes[k]
      /\ b \in Seq(Byte) /\ Len(b) = n - first
      /\ \A k \in 1 .. n - first : b[k] = bytes[first + k]
  <2>1. \A k \in 1 .. n : bytes[k] \in Byte
    BY ElementOfSeq
  <2> HIDE DEF n, first
  <2>2. /\ a \in Seq(Byte) /\ Len(a) = (IF 1 <= first THEN first - 1 + 1 ELSE 0)
        /\ \A k \in 1 .. first - 1 + 1 : a[k] = bytes[1 + k - 1]
    <3>1. \A k \in 1 .. first : bytes[k] \in Byte
      BY <1>1, <1>4, <2>1
    <3> QED
      BY <1>4, <3>1, SubSeqProperties
  <2>3. /\ b \in Seq(Byte)
        /\ Len(b) = (IF first + 1 <= n THEN n - (first + 1) + 1 ELSE 0)
        /\ \A k \in 1 .. n - (first + 1) + 1 : b[k] = bytes[first + 1 + k - 1]
    <3>1. \A k \in first + 1 .. n : bytes[k] \in Byte
      BY <1>1, <1>4, <2>1
    <3>2. first + 1 \in Int /\ n \in Int
      BY <1>1, <1>4
    <3> QED
      BY <3>1, <3>2, SubSeqProperties
  <2> HIDE DEF a, b
  <2> QED
    BY <1>1, <1>4, <2>2, <2>3
<1>6. start = IF end + first < N THEN end + first ELSE end + first - N
  <2> DEFINE x == end + first
  <2>1. x \in 0 .. 2 * N - 1
    <3> HIDE DEF first
    <3> QED BY <1>1, <1>4
  <2> HIDE DEF x
  <2>2. x % N = IF x < N THEN x ELSE x - N
    BY <2>1, RollOver
  <2> QED
    BY <1>1, <1>4, <2>2 DEF x
<1>7. start \in Nat
  <2> HIDE DEF first, start
  <2> QED BY <1>1, <1>4, <1>6
<1> HIDE DEF a, b, start, first, end
<1>8. /\ once \in [Index -> Byte]
      /\ \A x \in Index : once[x] = IF x - end + 1 \in 1 .. first THEN a[x - end + 1]
                                    ELSE r.mem[x]
  <2>1. /\ once \in [Index -> Byte]
        /\ \A x \in Index : once[x] = IF x - end + 1 \in 1 .. Len(a)
                                      THEN a[x - end + 1] ELSE (r.mem)[x]
    <3>1. r.mem \in [Index -> Byte] /\ end \in Nat /\ a \in Seq(Byte)
      BY <1>1, <1>5
    <3> QED
      BY ONLY <3>1, CopiedBytes DEF once
  <2> QED
    BY <1>5, <2>1
<1> HIDE DEF once
<1>9. /\ twice \in [Index -> Byte]
      /\ \A x \in Index : twice[x] = IF x - start + 1 \in 1 .. n - first
                                     THEN b[x - start + 1] ELSE once[x]
  <2>1. once \in [Index -> Byte] /\ start \in Nat /\ b \in Seq(Byte)
    BY <1>5, <1>7, <1>8
  <2>2. /\ twice \in [Index -> Byte]
        /\ \A x \in Index : twice[x] = IF x - start + 1 \in 1 .. Len(b)
                                       THEN b[x - start + 1] ELSE once[x]
    BY ONLY <2>1, CopiedBytes DEF twice
  <2>3. Len(b) = n - first
    BY <1>5
  <2> QED
    BY <2>2, <2>3
<1> HIDE DEF twice
<1>10. \A x \in Index :
         twice[x] = IF x - start + 1 \in 1 .. n - first THEN bytes[first + (x - start + 1)]
                    ELSE IF x - end + 1 \in 1 .. first THEN bytes[x - end + 1]
                    ELSE r.mem[x]
  BY <1>5, <1>8, <1>9
<1>11. RingOK(w) /\ w.len = l + n /\ w.off = o /\ w.mem = twice
  <2>1. l + n \in 0 .. N
    BY <1>1
  <2> QED
    BY <1>1, <1>3, <1>9, <2>1 DEF RingOK, Index
<1>12. /\ first = IF end <= N /\ end + n > N THEN N - end ELSE 0
       /\ \A i \in 1 .. N : (o + i - 1) % N = IF o + i - 1 < N THEN o + i - 1
                                             ELSE o + i - 1 - N
  <2>1. ASSUME NEW i \in 1 .. N
        PROVE  (o + i - 1) % N = IF o + i - 1 < N THEN o + i - 1 ELSE o + i - 1 - N
    <3> DEFINE x == o + i - 1
    <3>1. x \in 0 .. 2 * N - 1
      BY <1>1
    <3> HIDE DEF x
    <3>2. x % N = IF x < N THEN x ELSE x - N
      BY <3>1, RollOver
    <3> QED
      BY <1>1, <3>2 DEF x
  <2> QED
    BY <2>1 DEF first, end
<1>13. Index = 0 .. N - 1
  BY DEF Index
<1> HIDE DEF first, n, N, o, l, end
<1>14. ASSUME NEW i \in 1 .. l PROVE At(w, i) = At(r, i)
  <2> DEFINE x == (o + i - 1) % N
  <2>1. i \in 1 .. N /\ x = IF o + i - 1 < N THEN o + i - 1 ELSE o + i - 1 - N
    BY <1>1, <1>12
  <2> HIDE DEF x
  <2>2. x \in 0 .. N - 1
    BY <1>1, <2>1
  <2>3. x - start + 1 \notin 1 .. n - first /\ x - end + 1 \notin 1 .. first
    BY <1>1, <1>4, <1>6, <1>12, <2>1
  <2>4. twice[x] = r.mem[x]
    BY <1>10, <1>13, <2>2, <2>3
  <2> QED
    BY <1>11, <2>4 DEF At, x, o, N
<1>15. ASSUME NEW k \in 1 .. n PROVE At(w, l + k) = bytes[k]
  <2> DEFINE x == (o + (l + k) - 1) % N
  <2>1. l + k \in 1 .. N
    BY <1>1
  <2>2. x = IF o + (l + k) - 1 < N THEN o + (l + k) - 1 ELSE o + (l + k) - 1 - N
    BY <1>12, <2>1
  <2> HIDE DEF x
  <2>3. x \in 0 .. N - 1
    BY <1>1, <2>1, <2>2
  <2>4. \/ x - start + 1 \in 1 .. n - first /\ first + (x - start + 1) = k
        \/ x - start + 1 \notin 1 .. n - first /\ x - end + 1 \in 1 .. first /\ x - end + 1 = k
    BY <1>1, <1>4, <1>6, <1>12, <2>1, <2>2
  <2>5. twice[x] = bytes[k]
    BY <1>10, <1>13, <2>3, <2>4
  <2> QED
    BY <1>11, <2>5 DEF At, x, o, N
<1> QED
  BY <1>11, <1>14, <1>15 DEF l, n, o

LEMMA RingReadBytes ==
  ASSUME NEW r, RingOK(r), NEW n \in 0 .. r.len,
         NEW data, data = RingData(r, n), NEW rest, rest = RingLeft(r, n)
  PROVE  /\ data \in Seq(Byte) /\ Len(data) = n
         /\ \A k \in 1 .. n : data[k] = At(r, k)
         /\ RingOK(rest) /\ rest.len = r.len - n
         /\ \A i \in 1 .. r.len - n : At(rest, i) = At(r, n + i)
<1> DEFINE N == RingLen
           o == r.off
           l == r.len
           mem == r.mem
           first == IF o + n >= N THEN N - o ELSE 0
           start == (o + first) % N
           a == Taken(mem, o, first)
           b == Taken(mem, start, n - first)
           left == Wiped(Wiped(mem, o, first), start, n - first)
<1>1. /\ n \in Nat /\ N \in Nat \ {0} /\ o \in 0 .. N - 1 /\ l \in 0 .. N
      /\ n <= l /\ mem \in [Index -> Byte] /\ Index = 0 .. N - 1
  BY UartAssumption DEF RingOK, Index
<1>2. Lesser(n, l) = n /\ FirstPiece(r, n) = first
  BY <1>1 DEF Lesser, FirstPiece
<1>3. data = a \o b /\ rest = [mem |-> left, off |-> start + n - first, len |-> l - n]
  BY <1>2 DEF RingData, RingLeft
<1>4. first \in 0 .. n /\ o + first <= N
  BY <1>1
<1>5. first = IF o + n >= N THEN N - o ELSE 0
  OBVIOUS
<1>6. ASSUME NEW i \in 1 .. N
      PROVE  (o + i - 1) % N = IF o + i - 1 < N THEN o + i - 1 ELSE o + i - 1 - N
  <2>1. o + i - 1 \in 0 .. 2 * N - 1
    BY <1>1
  <2> QED
    <3> DEFINE x == o + i - 1
    <3> HIDE DEF x
    <3>1. x % N = IF x < N THEN x ELSE x - N
      BY <2>1, RollOver DEF x
    <3> QED
      BY <1>1, <3>1 DEF x
<1>7. start = IF o + first < N THEN o + first ELSE o + first - N
  <2> HIDE DEF first
  <2>1. o + first \in 0 .. 2 * N - 1
    BY <1>1, <1>4
  <2> QED
    <3> DEFINE x == o + first
    <3> HIDE DEF x
    <3>1. x % N = IF x < N THEN x ELSE x - N
      BY <2>1, RollOver DEF x
    <3> QED
      BY <1>1, <1>4, <3>1 DEF x, start
<1> HIDE DEF start, first, N, o, l, mem
<1>8. /\ a \in Seq(Byte) /\ Len(a) = first /\ \A k \in 1 .. first : a[k] = mem[o + k - 1]
  <2>1. o \in Nat /\ first \in Nat /\ o + first <= RingLen
    BY <1>1, <1>4 DEF N
  <2> QED
    BY <1>1, <2>1, TakenBytes
<1>9. /\ b \in Seq(Byte) /\ Len(b) = n - first
      /\ \A k \in 1 .. n - first : b[k] = mem[start + k - 1]
  <2>1. start \in Nat /\ n - first \in Nat /\ start + (n - first) <= RingLen
    BY <1>1, <1>4, <1>5, <1>7 DEF N
  <2> QED
    BY <1>1, <2>1, TakenBytes
<1>10. /\ left \in [Index -> Byte]
       /\ \A x \in Index :
            x \notin o .. o + first - 1 /\ x \notin start .. start + (n - first) - 1
              => left[x] = mem[x]
  BY <1>1 DEF Wiped, Byte
<1> HIDE DEF a, b, left
<1>11. RingOK(rest) /\ rest.len = l - n /\ rest.off = start + n - first /\ rest.mem = left
  <2>1. start + n - first \in 0 .. N - 1 /\ l - n \in 0 .. N
    BY <1>1, <1>4, <1>5, <1>7
  <2> QED
    BY <1>1, <1>3, <1>10, <2>1 DEF RingOK, N
<1>12. /\ data \in Seq(Byte) /\ Len(data) = n
       /\ \A k \in 1 .. n : data[k] = IF k <= first THEN a[k] ELSE b[k - first]
  <2>1. /\ data \in Seq(Byte) /\ Len(data) = first + (n - first)
        /\ \A k \in 1 .. first + (n - first) :
             data[k] = IF k <= first THEN a[k] ELSE b[k - first]
    BY <1>3, <1>8, <1>9, ConcatProperties
  <2>2. first + (n - first) = n
    BY <1>1, <1>4
  <2> QED
    BY <2>1, <2>2
<1>13. ASSUME NEW k \in 1 .. n PROVE data[k] = At(r, k)
  <2> DEFINE x == (o + k - 1) % N
  <2>1. x = IF o + k - 1 < N THEN o + k - 1 ELSE o + k - 1 - N
    BY <1>1, <1>6
  <2> HIDE DEF x
  <2>2. CASE k <= first
    <3>1. k \in 1 .. first /\ x = o + k - 1
      BY <1>1, <1>4, <2>1, <2>2
    <3> QED
      BY <1>8, <1>12, <2>2, <3>1 DEF At, x, o, N, mem
  <2>3. CASE k > first
    <3>1. k - first \in 1 .. n - first /\ ~ (k <= first) /\ x = start + (k - first) - 1
      BY <1>1, <1>4, <1>5, <1>7, <2>1, <2>3
    <3> QED
      BY <1>9, <1>12, <3>1 DEF At, x, o, N, mem
  <2> QED
    BY <1>1, <1>4, <2>2, <2>3
<1>14. ASSUME NEW i \in 1 .. l - n PROVE At(rest, i) = At(r, n + i)
  <2> DEFINE x == (o + (n + i) - 1) % N
             y == ((start + n - first) + i - 1) % N
  <2>1. n + i \in 1 .. N
    BY <1>1
  <2>2. x = IF o + (n + i) - 1 < N THEN o + (n + i) - 1 ELSE o + (n + i) - 1 - N
    BY <1>6, <2>1
  <2>3. y = IF (start + n - first) + i - 1 < N THEN (start + n - first) + i - 1
            ELSE (start + n - first) + i - 1 - N
    <3>1. (start + n - first) + i - 1 \in 0 .. 2 * N - 1
      BY <1>1, <1>4, <1>5, <1>7
    <3> QED
      <4> DEFINE z == (start + n - first) + i - 1
      <4> HIDE DEF z
      <4>1. z \in 0 .. 2 * RingLen - 1
        BY <3>1 DEF z, N
      <4>2. z % N = IF z < N THEN z ELSE z - N
        BY <4>1, RollOver DEF N
      <4> QED
        BY <1>1, <1>4, <1>7, <4>2 DEF z
  <2> HIDE DEF x, y
  <2>4. y = x /\ x \in 0 .. N - 1
        /\ x \notin o .. o + first - 1 /\ x \notin start .. start + (n - first) - 1
    BY <1>1, <1>4, <1>5, <1>7, <2>1, <2>2, <2>3
  <2>5. left[y] = mem[x]
    BY <1>1, <1>10, <2>4
  <2> QED
    BY <1>11, <2>5 DEF At, x, y, o, N, mem
<1> QED
  BY <1>11, <1>12, <1>13, <1>14 DEF l
-----------------------------------------------------------------------------
(***************************************************************************)
(* Bytes that are whole frames, one behind the other.                      *)
(***************************************************************************)
Total(f) == Header + Size[f]

Framed(c) ==
  /\ \A i \in 1 .. Len(c) : c[i] \in Cell /\ c[i][2] <= Total(c[i][1])
  /\ Len(c) > 0 => c[1][2] = 1
  /\ \A i \in 1 .. Len(c) : c[i][2] < Total(c[i][1]) =>
       i + 1 <= Len(c) /\ c[i + 1] = <<c[i][1], c[i][2] + 1>>
  /\ \A i \in 1 .. Len(c) - 1 : c[i][2] = Total(c[i][1]) => c[i + 1][2] = 1

First == Frame \X {1}

LEMMA FrameTotal ==
  ASSUME NEW f \in Frame
  PROVE  Size[f] \in 1 .. BufLen /\ Total(f) \in Nat /\ Total(f) >= 3
         /\ Total(f) = Size[f] + 2 /\ BufLen \in Nat
BY UartAssumption DEF Total, Header

LEMMA CellParts ==
  ASSUME NEW b \in Cell
  PROVE  b[1] \in Frame /\ b[2] \in Nat \ {0} /\ b = <<b[1], b[2]>>
         /\ (b \in First <=> b[2] = 1)
<1>1. PICK f \in Frame, k \in 1 .. Header + BufLen : b = <<f, k>>
  BY DEF Cell
<1>2. k \in Nat \ {0}
  BY UartAssumption DEF Header
<1> QED
  BY <1>1, <1>2 DEF First

(* The first frame is there as a whole.                                    *)
LEMMA FrameAhead ==
  ASSUME NEW c \in Seq(Byte), Framed(c), Len(c) > 0
  PROVE  /\ c[1][1] \in Frame /\ Total(c[1][1]) <= Len(c)
         /\ \A j \in 1 .. Total(c[1][1]) : c[j] = <<c[1][1], j>>
<1> DEFINE f == c[1][1]
           T == Total(f)
           P == {k \in Nat : k + 1 <= Len(c) /\ c[k + 1] = <<f, k + 1>>}
<1>1. Len(c) \in Nat /\ 1 \in 1 .. Len(c)
  BY LenProperties
<1>2. c[1] \in Cell /\ c[1][2] = 1
  BY <1>1 DEF Framed
<1>3. f \in Frame /\ c[1] = <<f, 1>>
  BY <1>2, CellParts
<1>4. T \in Nat /\ T >= 3
  BY <1>3, FrameTotal
<1>5. 0 \in P
  <2>1. 0 + 1 = 1 /\ 0 \in Nat
    OBVIOUS
  <2> QED
    BY <1>1, <1>3, <2>1
<1> HIDE DEF f, T
<1>6. ASSUME NEW k \in 0 .. (T - 1) - 1, k \in P PROVE k + 1 \in P
  <2>1. k + 1 \in 1 .. Len(c) /\ c[k + 1] = <<f, k + 1>> /\ k + 1 \in Nat
    BY <1>1, <1>6
  <2>2. c[k + 1][1] = f /\ c[k + 1][2] = k + 1 /\ k + 1 < T
    BY <1>4, <2>1
  <2>3. (k + 1) + 1 <= Len(c) /\ c[(k + 1) + 1] = <<f, (k + 1) + 1>>
    BY <2>1, <2>2 DEF Framed, T
  <2> QED
    BY <2>1, <2>3
<1>7. \A k \in 0 .. T - 1 : k \in P
  <2>1. T - 1 \in Nat
    BY <1>4
  <2> HIDE DEF P
  <2> QED BY <1>5, <1>6, <2>1, Induct
<1>8. ASSUME NEW j \in 1 .. T PROVE j <= Len(c) /\ c[j] = <<f, j>>
  <2>1. j - 1 \in 0 .. T - 1 /\ (j - 1) + 1 = j
    BY <1>4
  <2>2. j - 1 \in P
    BY <1>7, <2>1
  <2>3. (j - 1) + 1 <= Len(c) /\ c[(j - 1) + 1] = <<f, (j - 1) + 1>>
    BY <2>2
  <2> QED
    BY <2>1, <2>3
<1>9. T \in 1 .. T
  BY <1>4
<1>10. T <= Len(c)
  BY <1>8, <1>9
<1> QED
  BY <1>3, <1>8, <1>10 DEF f, T

(* A frame more behind them.                                               *)
LEMMA FramedBehind ==
  ASSUME NEW c \in Seq(Byte), Framed(c), NEW f \in Frame, NEW d \in Seq(Byte),
         Len(d) = Len(c) + Total(f),
         \A i \in 1 .. Len(c) : d[i] = c[i],
         \A k \in 1 .. Total(f) : d[Len(c) + k] = <<f, k>>
  PROVE  Framed(d) /\ Only(d, First) = Append(Only(c, First), <<f, 1>>)
<1> DEFINE L == Len(c)
           T == Total(f)
<1>1. L \in Nat /\ T \in Nat /\ T >= 3 /\ T <= Header + BufLen /\ Len(d) = L + T
  BY LenProperties, FrameTotal DEF Header
<1>2. /\ \A i \in 1 .. L : d[i] = c[i]
      /\ \A k \in 1 .. T : d[L + k] = <<f, k>>
  OBVIOUS
<1>3. /\ \A i \in 1 .. L : c[i] \in Cell /\ c[i][2] <= Total(c[i][1])
      /\ L > 0 => c[1][2] = 1
      /\ \A i \in 1 .. L : c[i][2] < Total(c[i][1]) =>
           i + 1 <= L /\ c[i + 1] = <<c[i][1], c[i][2] + 1>>
      /\ \A i \in 1 .. L - 1 : c[i][2] = Total(c[i][1]) => c[i + 1][2] = 1
  BY DEF Framed
<1>4. ASSUME NEW i \in 1 .. L + T, i > L
      PROVE  /\ i - L \in 1 .. T /\ d[i] = <<f, i - L>>
             /\ d[i] \in Cell /\ d[i][1] = f /\ d[i][2] = i - L
  <2>1. i - L \in 1 .. T /\ L + (i - L) = i
    BY <1>1, <1>4
  <2>2. d[i] = <<f, i - L>>
    BY <1>2, <2>1
  <2>3. i - L \in 1 .. Header + BufLen
    BY <1>1, <2>1, UartAssumption DEF Header
  <2> QED
    BY <2>1, <2>2, <2>3 DEF Cell
<1>5. T = Total(f)
  OBVIOUS
<1> HIDE DEF L, T
<1>6. \A i \in 1 .. L + T : d[i] \in Cell /\ d[i][2] <= Total(d[i][1])
  <2> TAKE i \in 1 .. L + T
  <2>1. CASE i <= L
    <3>1. i \in 1 .. L
      BY <1>1, <2>1
    <3> QED
      BY <1>2, <1>3, <3>1
  <2>2. CASE i > L
    <3>1. d[i] \in Cell /\ d[i][1] = f /\ d[i][2] = i - L /\ i - L <= T
      BY <1>1, <1>4, <2>2
    <3> QED
      BY <1>5, <3>1
  <2> QED
    BY <1>1, <2>1, <2>2
<1>7. L + T > 0 /\ d[1][2] = 1
  <2>1. CASE L = 0
    <3>1. 1 \in 1 .. L + T /\ 1 > L /\ 1 - L = 1
      BY <1>1, <2>1
    <3> QED
      BY <1>1, <1>4, <3>1
  <2>2. CASE L > 0
    <3>1. 1 \in 1 .. L
      BY <1>1, <2>2
    <3> QED
      BY <1>1, <1>2, <1>3, <2>2, <3>1
  <2> QED
    BY <1>1, <2>1, <2>2
<1>8. \A i \in 1 .. L + T : d[i][2] < Total(d[i][1]) =>
         i + 1 <= L + T /\ d[i + 1] = <<d[i][1], d[i][2] + 1>>
  <2> SUFFICES ASSUME NEW i \in 1 .. L + T, d[i][2] < Total(d[i][1])
               PROVE  i + 1 <= L + T /\ d[i + 1] = <<d[i][1], d[i][2] + 1>>
    OBVIOUS
  <2>1. CASE i <= L
    <3>1. i \in 1 .. L /\ d[i] = c[i]
      BY <1>1, <1>2, <2>1
    <3>2. i + 1 <= L /\ c[i + 1] = <<c[i][1], c[i][2] + 1>>
      BY <1>3, <3>1
    <3>3. i + 1 \in 1 .. L
      BY <1>1, <3>1, <3>2
    <3> QED
      BY <1>1, <1>2, <3>1, <3>2, <3>3
  <2>2. CASE i > L
    <3>1. d[i][1] = f /\ d[i][2] = i - L
      BY <1>4, <2>2
    <3>2. i - L < T
      BY <1>5, <3>1
    <3>3. i + 1 \in 1 .. L + T /\ i + 1 > L /\ (i + 1) - L = (i - L) + 1
      BY <1>1, <2>2, <3>2
    <3>4. d[i + 1] = <<f, (i + 1) - L>>
      BY <1>4, <3>3
    <3> QED
      BY <1>1, <3>1, <3>3, <3>4
  <2> QED
    BY <1>1, <2>1, <2>2
<1>9. \A i \in 1 .. (L + T) - 1 : d[i][2] = Total(d[i][1]) => d[i + 1][2] = 1
  <2> SUFFICES ASSUME NEW i \in 1 .. (L + T) - 1, d[i][2] = Total(d[i][1])
               PROVE  d[i + 1][2] = 1
    OBVIOUS
  <2>1. CASE i < L
    <3>1. i \in 1 .. L - 1 /\ i \in 1 .. L /\ i + 1 \in 1 .. L
      BY <1>1, <2>1
    <3>2. d[i] = c[i] /\ d[i + 1] = c[i + 1]
      BY <1>2, <3>1
    <3> QED
      BY <1>3, <3>1, <3>2
  <2>2. CASE i = L
    <3>1. i + 1 \in 1 .. L + T /\ i + 1 > L /\ (i + 1) - L = 1
      BY <1>1, <2>2
    <3> QED
      BY <1>4, <3>1
  <2>3. CASE i > L
    <3>1. i \in 1 .. L + T /\ i - L < T
      BY <1>1, <2>3
    <3>2. d[i][1] = f /\ d[i][2] = i - L
      BY <1>4, <2>3, <3>1
    <3>3. i - L = T
      BY <1>5, <3>2
    <3> QED
      BY <1>1, <3>1, <3>3
  <2> QED
    BY <1>1, <2>1, <2>2, <2>3
<1>10. Framed(d)
  BY <1>1, <1>6, <1>7, <1>8, <1>9 DEF Framed
<1>11. d[L + 1] = <<f, 1>> /\ d[L + 1] \in First
  <2>1. 1 \in 1 .. T
    BY <1>1
  <2>2. <<f, 1>> \in First
    BY DEF First
  <2>3. d[L + 1] = <<f, 1>>
    BY <1>2, <2>1
  <2> QED
    BY <2>2, <2>3
<1>12. \A j \in L + 2 .. Len(d) : d[j] \notin First
  <2> TAKE j \in L + 2 .. Len(d)
  <2>1. j \in 1 .. L + T /\ j > L /\ j - L # 1
    BY <1>1
  <2>2. d[j] \in Cell /\ d[j][2] # 1
    BY <1>4, <2>1
  <2> QED
    BY <2>2, CellParts
<1>13. Only(d, First) = Append(Only(c, First), d[Len(c) + 1])
  <2>1. /\ Len(d) > Len(c) /\ d[Len(c) + 1] \in First
        /\ \A j \in Len(c) + 2 .. Len(d) : d[j] \notin First
    BY <1>1, <1>11, <1>12 DEF L
  <2> QED
    BY <2>1, OnlyBehind
<1> QED
  BY <1>10, <1>11, <1>13 DEF L

(* The first of them taken away.                                           *)
LEMMA FramedRest ==
  ASSUME NEW c \in Seq(Byte), Framed(c), Len(c) > 0, NEW d \in Seq(Byte),
         Len(d) = Len(c) - Total(c[1][1]),
         \A i \in 1 .. Len(d) : d[i] = c[Total(c[1][1]) + i]
  PROVE  Framed(d) /\ Only(c, First) = <<c[1]>> \o Only(d, First)
<1> DEFINE L == Len(c)
           M == Len(d)
           f == c[1][1]
           T == Total(f)
<1>1. f \in Frame /\ T <= L /\ \A j \in 1 .. T : c[j] = <<f, j>>
  BY FrameAhead
<1>2. L \in Nat /\ M \in Nat /\ T \in Nat /\ T >= 3 /\ L = M + T
      /\ \A i \in 1 .. M : d[i] = c[T + i]
  BY <1>1, LenProperties, FrameTotal
<1>3. /\ \A i \in 1 .. L : c[i] \in Cell /\ c[i][2] <= Total(c[i][1])
      /\ \A i \in 1 .. L : c[i][2] < Total(c[i][1]) =>
           i + 1 <= L /\ c[i + 1] = <<c[i][1], c[i][2] + 1>>
      /\ \A i \in 1 .. L - 1 : c[i][2] = Total(c[i][1]) => c[i + 1][2] = 1
  BY DEF Framed
<1>4. T = Total(f)
  OBVIOUS
<1> HIDE DEF L, M, f, T
<1>5. \A i \in 1 .. M : d[i] \in Cell /\ d[i][2] <= Total(d[i][1])
  <2> TAKE i \in 1 .. M
  <2>1. T + i \in 1 .. L /\ d[i] = c[T + i]
    BY <1>2
  <2> QED
    BY <1>3, <2>1
<1>6. M > 0 => d[1][2] = 1
  <2> SUFFICES ASSUME M > 0 PROVE d[1][2] = 1
    OBVIOUS
  <2>1. T \in 1 .. L - 1 /\ T \in 1 .. T /\ 1 \in 1 .. M
    BY <1>2
  <2>2. c[T] = <<f, T>>
    BY <1>1, <2>1
  <2>3. c[T + 1][2] = 1
    BY <1>3, <1>4, <2>1, <2>2
  <2> QED
    BY <1>2, <2>1, <2>3
<1>7. \A i \in 1 .. M : d[i][2] < Total(d[i][1]) =>
         i + 1 <= M /\ d[i + 1] = <<d[i][1], d[i][2] + 1>>
  <2> SUFFICES ASSUME NEW i \in 1 .. M, d[i][2] < Total(d[i][1])
               PROVE  i + 1 <= M /\ d[i + 1] = <<d[i][1], d[i][2] + 1>>
    OBVIOUS
  <2>1. T + i \in 1 .. L /\ d[i] = c[T + i]
    BY <1>2
  <2>2. (T + i) + 1 <= L /\ c[(T + i) + 1] = <<d[i][1], d[i][2] + 1>>
    BY <1>3, <2>1
  <2>3. i + 1 \in 1 .. M /\ i + 1 <= M /\ T + (i + 1) = (T + i) + 1
    BY <1>2, <2>2
  <2>4. d[i + 1] = c[T + (i + 1)]
    BY <1>2, <2>3
  <2> QED
    BY <2>2, <2>3, <2>4
<1>8. \A i \in 1 .. M - 1 : d[i][2] = Total(d[i][1]) => d[i + 1][2] = 1
  <2> SUFFICES ASSUME NEW i \in 1 .. M - 1, d[i][2] = Total(d[i][1])
               PROVE  d[i + 1][2] = 1
    OBVIOUS
  <2>1. i \in 1 .. M /\ i + 1 \in 1 .. M /\ T + i \in 1 .. L - 1 /\ T + (i + 1) = (T + i) + 1
    BY <1>2
  <2>2. d[i] = c[T + i] /\ d[i + 1] = c[(T + i) + 1]
    BY <1>2, <2>1
  <2> QED
    BY <1>3, <2>1, <2>2
<1>9. Framed(d)
  BY <1>5, <1>6, <1>7, <1>8 DEF Framed, M
<1>10. c[1] \in First
  <2>1. 1 \in 1 .. T
    BY <1>2
  <2>2. <<f, 1>> \in First
    BY <1>1 DEF First
  <2>3. c[1] = <<f, 1>>
    BY <1>1, <2>1
  <2> QED
    BY <2>2, <2>3
<1>11. \A j \in 2 .. T : c[j] \notin First
  <2> TAKE j \in 2 .. T
  <2>1. j \in 1 .. T /\ j # 1
    BY <1>2
  <2>2. c[j] = <<f, j>>
    BY <1>1, <2>1
  <2> QED
    BY <2>1, <2>2 DEF First
<1>12. Only(c, First) = <<c[1]>> \o Only(d, First)
  <2>1. T \in 1 .. L /\ M = L - T
    BY <1>1, <1>2
  <2>2. Begins(c, d, T, First)
    BY <1>2, <1>10, <1>11, <2>1 DEF Begins, L, M
  <2> QED
    BY <2>2, OnlyBefore
<1> QED
  BY <1>9, <1>12
-----------------------------------------------------------------------------
(***************************************************************************)
(* One frame written, one frame read.                                      *)
(***************************************************************************)
ContentsOf(r) == [i \in 1 .. r.len |-> At(r, i)]

Heads(bytes) == [i \in DOMAIN bytes |-> bytes[i][1]]

QueueOf(r) == Heads(Only(ContentsOf(r), First))

LEMMA QueuedIs == Contents = ContentsOf(ring) /\ Queued = QueueOf(ring)
BY DEF Contents, ContentsOf, At, Queued, QueueOf, Heads, First

LEMMA ContentsBytes ==
  ASSUME NEW r, RingOK(r)
  PROVE  /\ ContentsOf(r) \in Seq(Byte) /\ Len(ContentsOf(r)) = r.len
         /\ \A i \in 1 .. r.len : ContentsOf(r)[i] = At(r, i)
<1>1. r.len \in Nat /\ r.off \in Index /\ r.mem \in [Index -> Byte] /\ r.len <= RingLen
  BY UartAssumption DEF RingOK
<1>2. ASSUME NEW i \in 1 .. r.len PROVE At(r, i) \in Byte
  <2> DEFINE x == r.off + i - 1
  <2>1. x \in 0 .. 2 * RingLen - 1
    BY <1>1, UartAssumption DEF Index
  <2> HIDE DEF x
  <2>2. x % RingLen \in Index
    BY <2>1, RollOver DEF Index
  <2> QED
    BY <1>1, <2>2 DEF At, x
<1>3. ContentsOf(r) \in [1 .. r.len -> Byte]
  BY <1>2 DEF ContentsOf
<1>4. \A i \in 1 .. r.len : ContentsOf(r)[i] = At(r, i)
  BY DEF ContentsOf
<1> QED
  BY <1>1, <1>3, <1>4, FunIsSeq

LEMMA HeadsOf ==
  ASSUME NEW s \in Seq(Byte)
  PROVE  /\ Heads(s) \in Seq(Frame \cup {NoFrame}) /\ Len(Heads(s)) = Len(s)
         /\ \A i \in 1 .. Len(s) : Heads(s)[i] = s[i][1]
<1>1. Len(s) \in Nat /\ DOMAIN s = 1 .. Len(s) /\ \A i \in 1 .. Len(s) : s[i] \in Byte
  BY LenProperties, ElementOfSeq
<1>2. \A b \in Byte : b[1] \in Frame \cup {NoFrame}
  BY DEF Byte, Cell, Stale
<1>3. Heads(s) \in [1 .. Len(s) -> Frame \cup {NoFrame}]
  BY <1>1, <1>2 DEF Heads
<1>4. \A i \in 1 .. Len(s) : Heads(s)[i] = s[i][1]
  BY <1>1 DEF Heads
<1> QED
  BY <1>1, <1>3, <1>4, FunIsSeq

LEMMA HeadsAppend ==
  ASSUME NEW s \in Seq(Byte), NEW b \in Byte
  PROVE  Heads(Append(s, b)) = Append(Heads(s), b[1])
<1> DEFINE a == Append(s, b)
           h == Heads(s)
           L == Len(s)
<1>1. /\ a \in Seq(Byte) /\ Len(a) = L + 1 /\ L \in Nat
      /\ \A i \in 1 .. L : a[i] = s[i]
      /\ a[L + 1] = b
  BY LenProperties, AppendProperties
<1>2. /\ h \in Seq(Frame \cup {NoFrame}) /\ Len(h) = L
      /\ \A i \in 1 .. L : h[i] = s[i][1]
  BY HeadsOf
<1>3. b[1] \in Frame \cup {NoFrame}
  BY DEF Byte, Cell, Stale
<1> HIDE DEF a, h, L
<1>4. /\ Heads(a) \in Seq(Frame \cup {NoFrame}) /\ Len(Heads(a)) = L + 1
      /\ \A i \in 1 .. L + 1 : Heads(a)[i] = a[i][1]
  BY <1>1, HeadsOf
<1>5. /\ Append(h, b[1]) \in Seq(Frame \cup {NoFrame}) /\ Len(Append(h, b[1])) = L + 1
      /\ \A i \in 1 .. L : Append(h, b[1])[i] = h[i]
      /\ Append(h, b[1])[L + 1] = b[1]
  <2>1. /\ Append(h, b[1]) \in Seq(Frame \cup {NoFrame})
        /\ Len(Append(h, b[1])) = Len(h) + 1
        /\ \A i \in 1 .. Len(h) : Append(h, b[1])[i] = h[i]
        /\ Append(h, b[1])[Len(h) + 1] = b[1]
    BY <1>2, <1>3, AppendProperties
  <2> QED
    BY <1>2, <2>1
<1>6. \A i \in 1 .. L + 1 : Heads(a)[i] = Append(h, b[1])[i]
  <2> TAKE i \in 1 .. L + 1
  <2>1. i \in 1 .. L \/ i = L + 1
    BY <1>1
  <2> QED
    BY <1>1, <1>2, <1>4, <1>5, <2>1
<1> DEFINE u == Heads(a)
           v == Append(h, b[1])
<1>7. /\ u \in Seq(Frame \cup {NoFrame}) /\ v \in Seq(Frame \cup {NoFrame})
      /\ Len(u) = Len(v) /\ \A i \in 1 .. Len(u) : u[i] = v[i]
  BY <1>4, <1>5, <1>6
<1> HIDE DEF u, v
<1>8. u = v
  BY <1>7, SeqEqual
<1> QED
  BY <1>8 DEF u, v, a, h

LEMMA HeadsBehind ==
  ASSUME NEW s \in Seq(Byte), NEW b \in Byte
  PROVE  /\ Heads(<<b>> \o s) # << >>
         /\ Head(Heads(<<b>> \o s)) = b[1] /\ Tail(Heads(<<b>> \o s)) = Heads(s)
<1> DEFINE a == <<b>> \o s
           h == Heads(s)
           L == Len(s)
           F == Frame \cup {NoFrame}
<1>1. L \in Nat /\ <<b>> \in Seq(Byte) /\ Len(<<b>>) = 1 /\ <<b>>[1] = b
  BY LenProperties
<1>2. /\ a \in Seq(Byte) /\ Len(a) = 1 + L /\ a[1] = b
      /\ \A i \in 1 .. L : a[i + 1] = s[i]
  <2>1. /\ a \in Seq(Byte) /\ Len(a) = 1 + L
        /\ \A k \in 1 .. 1 + L : a[k] = IF k <= 1 THEN <<b>>[k] ELSE s[k - 1]
    BY <1>1, ConcatProperties
  <2> HIDE DEF a, L
  <2>2. a[1] = b
    BY <1>1, <2>1
  <2>3. ASSUME NEW i \in 1 .. L PROVE a[i + 1] = s[i]
    <3>1. i + 1 \in 1 .. 1 + L /\ ~ (i + 1 <= 1) /\ (i + 1) - 1 = i
      BY <1>1
    <3> QED
      BY <2>1, <3>1
  <2> QED
    BY <2>1, <2>2, <2>3
<1>3. h \in Seq(F) /\ Len(h) = L /\ \A i \in 1 .. L : h[i] = s[i][1]
  BY HeadsOf
<1> HIDE DEF a, h, L
<1> DEFINE u == Heads(a)
<1>4. u \in Seq(F) /\ Len(u) = 1 + L /\ \A i \in 1 .. 1 + L : u[i] = a[i][1]
  BY <1>2, HeadsOf
<1> HIDE DEF u, F
<1>5. u # << >>
  BY <1>1, <1>4
<1>6. /\ Head(u) = u[1] /\ Tail(u) \in Seq(F) /\ Len(Tail(u)) = Len(u) - 1
      /\ \A i \in 1 .. Len(Tail(u)) : Tail(u)[i] = u[i + 1]
  BY <1>4, <1>5, HeadTailProperties
<1>7. Head(u) = b[1]
  <2>1. 1 \in 1 .. 1 + L
    BY <1>1
  <2> QED
    BY <1>2, <1>4, <1>6, <2>1
<1>8. Tail(u) = h
  <2>1. Len(Tail(u)) = L
    BY <1>1, <1>4, <1>6
  <2>2. ASSUME NEW i \in 1 .. L PROVE Tail(u)[i] = h[i]
    <3>1. i + 1 \in 1 .. 1 + L
      BY <1>1
    <3> QED
      BY <1>2, <1>3, <1>4, <1>6, <2>1, <3>1
  <2> DEFINE v == Tail(u)
  <2>3. v \in Seq(F) /\ h \in Seq(F) /\ Len(v) = Len(h) /\ \A i \in 1 .. Len(v) : v[i] = h[i]
    BY <1>3, <1>6, <2>1, <2>2
  <2> HIDE DEF v
  <2> QED
    BY <2>3, SeqEqual DEF v
<1> QED
  BY <1>5, <1>7, <1>8 DEF u, a, h

(* The queue of a ring is no longer than its bytes.                        *)
LEMMA QueueShort ==
  ASSUME NEW r, RingOK(r)
  PROVE  /\ QueueOf(r) \in Seq(Frame \cup {NoFrame})
         /\ Len(QueueOf(r)) \in Nat /\ Len(QueueOf(r)) <= r.len
<1> DEFINE c == ContentsOf(r)
           o == Only(c, First)
<1>1. c \in Seq(Byte) /\ Len(c) = r.len
  BY ContentsBytes
<1> HIDE DEF c
<1>2. o \in Seq(Byte) /\ Len(o) <= Len(c)
  BY <1>1, OnlyShorter
<1> HIDE DEF o
<1>3. Heads(o) \in Seq(Frame \cup {NoFrame}) /\ Len(Heads(o)) = Len(o)
  BY <1>2, HeadsOf
<1>4. QueueOf(r) = Heads(o)
  BY DEF QueueOf, o, c
<1> QED
  BY <1>1, <1>2, <1>3, <1>4, LenProperties

LEMMA FrameBytes ==
  ASSUME NEW f \in Frame
  PROVE  /\ LengthOf(f) \in Seq(Byte) /\ Len(LengthOf(f)) = 2
         /\ \A k \in 1 .. 2 : LengthOf(f)[k] = <<f, k>>
         /\ BytesOf(f) \in Seq(Byte) /\ Len(BytesOf(f)) = Size[f]
         /\ \A k \in 1 .. Size[f] : BytesOf(f)[k] = <<f, 2 + k>>
<1>1. \A k \in 1 .. 2 + Size[f] : <<f, k>> \in Byte
  <2>1. \A k \in 1 .. 2 + Size[f] : k \in 1 .. Header + BufLen
    BY FrameTotal DEF Header
  <2> QED
    BY <2>1 DEF Byte, Cell
<1>2. /\ LengthOf(f) \in Seq(Byte) /\ Len(LengthOf(f)) = 2
      /\ \A k \in 1 .. 2 : LengthOf(f)[k] = <<f, k>>
  <2>1. <<f, 1>> \in Byte /\ <<f, 2>> \in Byte
    BY <1>1, FrameTotal
  <2>2. LengthOf(f)[1] = <<f, 1>> /\ LengthOf(f)[2] = <<f, 2>>
    BY DEF LengthOf
  <2>3. \A k \in 1 .. 2 : k = 1 \/ k = 2
    OBVIOUS
  <2>4. LengthOf(f) \in Seq(Byte) /\ Len(LengthOf(f)) = 2
    BY <2>1 DEF LengthOf
  <2> QED
    BY <2>2, <2>3, <2>4
<1>3. BytesOf(f) \in [1 .. Size[f] -> Byte]
  <2>1. \A k \in 1 .. Size[f] : Header + k \in 1 .. 2 + Size[f]
    BY FrameTotal DEF Header
  <2> QED
    BY <1>1, <2>1 DEF BytesOf
<1>4. \A k \in 1 .. Size[f] : BytesOf(f)[k] = <<f, 2 + k>>
  BY DEF BytesOf, Header
<1>5. Size[f] \in Nat
  BY FrameTotal
<1>6. BytesOf(f) \in Seq(Byte) /\ Len(BytesOf(f)) = Size[f]
  BY <1>3, <1>5, FunIsSeq
<1> QED
  BY <1>2, <1>4, <1>6

(* atio_irq with room for a frame and its length.                          *)
LEMMA WriteFrame ==
  ASSUME NEW r, RingOK(r), Framed(ContentsOf(r)), NEW f \in Frame,
         RingLen - r.len >= Total(f),
         NEW w, w = RingWrite(RingWrite(r, LengthOf(f)), BytesOf(f))
  PROVE  /\ RingOK(w) /\ Framed(ContentsOf(w)) /\ w.len = r.len + Total(f)
         /\ QueueOf(w) = Append(QueueOf(r), f)
<1>1. /\ Total(f) = Size[f] + 2 /\ Size[f] \in Nat /\ r.len \in Nat /\ RingLen \in Nat
      /\ Total(f) \in Nat
  BY FrameTotal, UartAssumption DEF RingOK
<1>2. PICK v : v = RingWrite(r, LengthOf(f))
  OBVIOUS
<1>l. Len(LengthOf(f)) = 2 /\ Len(BytesOf(f)) = Size[f]
  BY FrameBytes
<1>3. r.len + Len(LengthOf(f)) <= RingLen
  BY <1>1, <1>l
<1>4. /\ RingOK(v) /\ v.len = r.len + Len(LengthOf(f)) /\ v.off = r.off
      /\ \A i \in 1 .. r.len : At(v, i) = At(r, i)
      /\ \A k \in 1 .. Len(LengthOf(f)) : At(v, r.len + k) = LengthOf(f)[k]
  BY <1>2, <1>3, FrameBytes, RingWriteBytes
<1>5. /\ v.len = r.len + 2
      /\ \A k \in 1 .. 2 : At(v, r.len + k) = <<f, k>>
  BY <1>4, FrameBytes
<1>6. v.len + Len(BytesOf(f)) <= RingLen
  BY <1>1, <1>5, FrameBytes
<1>7. w = RingWrite(v, BytesOf(f))
  BY <1>2
<1>8. /\ RingOK(w) /\ w.len = v.len + Len(BytesOf(f)) /\ w.off = v.off
      /\ \A i \in 1 .. v.len : At(w, i) = At(v, i)
      /\ \A k \in 1 .. Len(BytesOf(f)) : At(w, v.len + k) = BytesOf(f)[k]
  BY <1>4, <1>6, <1>7, FrameBytes, RingWriteBytes
<1>9. /\ w.len = r.len + Total(f)
      /\ \A k \in 1 .. Size[f] : At(w, r.len + 2 + k) = <<f, 2 + k>>
  <2>1. w.len = (r.len + 2) + Size[f]
    BY <1>5, <1>8, <1>l
  <2>2. \A k \in 1 .. Size[f] : At(w, v.len + k) = <<f, 2 + k>>
    BY <1>8, <1>l, FrameBytes
  <2> QED
    BY <1>1, <1>5, <2>1, <2>2
<1> DEFINE c == ContentsOf(r)
           d == ContentsOf(w)
           L == r.len
           T == Total(f)
<1>10. c \in Seq(Byte) /\ Len(c) = L /\ \A i \in 1 .. L : c[i] = At(r, i)
  BY ContentsBytes
<1>11. d \in Seq(Byte) /\ Len(d) = w.len /\ \A i \in 1 .. w.len : d[i] = At(w, i)
  BY <1>8, ContentsBytes
<1>12. Framed(c) /\ QueueOf(r) = Heads(Only(c, First)) /\ QueueOf(w) = Heads(Only(d, First))
  BY DEF QueueOf
<1>a. L = r.len /\ T = Total(f)
  OBVIOUS
<1> HIDE DEF c, L, T
<1>b. Len(d) = L + T /\ \A i \in 1 .. L + T : d[i] = At(w, i)
  BY <1>9, <1>11, <1>a
<1>d. d \in Seq(Byte)
  BY <1>11
<1>e. Framed(d) <=> Framed(ContentsOf(w))
  OBVIOUS
<1> HIDE DEF d
<1>13. \A i \in 1 .. L : d[i] = c[i]
  <2> TAKE i \in 1 .. L
  <2>1. i \in 1 .. L + T /\ i \in 1 .. v.len /\ i \in 1 .. r.len
    BY <1>1, <1>5, <1>a
  <2> QED
    BY <1>4, <1>8, <1>10, <1>b, <2>1
<1>14. \A k \in 1 .. T : d[L + k] = <<f, k>>
  <2> TAKE k \in 1 .. T
  <2>1. L + k \in 1 .. L + T
    BY <1>1, <1>a
  <2>2. CASE k \in 1 .. 2
    <3>1. L + k \in 1 .. v.len
      BY <1>1, <1>5, <1>a, <2>2
    <3> QED
      BY <1>5, <1>8, <1>a, <1>b, <2>1, <2>2, <3>1
  <2>3. CASE k \notin 1 .. 2
    <3>1. k - 2 \in 1 .. Size[f] /\ L + 2 + (k - 2) = L + k /\ 2 + (k - 2) = k
      BY <1>1, <1>a, <2>3
    <3> QED
      BY <1>9, <1>a, <1>b, <2>1, <3>1
  <2> QED
    BY <2>2, <2>3
<1>15. Framed(d) /\ Only(d, First) = Append(Only(c, First), <<f, 1>>)
  <2>1. /\ Len(d) = Len(c) + Total(f)
        /\ \A i \in 1 .. Len(c) : d[i] = c[i]
        /\ \A k \in 1 .. Total(f) : d[Len(c) + k] = <<f, k>>
    BY <1>10, <1>13, <1>14, <1>a, <1>b
  <2> QED
    BY <1>10, <1>12, <1>d, <2>1, FramedBehind
<1>16. Heads(Append(Only(c, First), <<f, 1>>)) = Append(Heads(Only(c, First)), f)
  <2> DEFINE o == Only(c, First)
             b == <<f, 1>>
  <2>1. o \in Seq(Byte)
    BY <1>10, OnlyShorter
  <2>2. b \in Byte /\ b[1] = f
    BY FrameTotal DEF Byte, Cell, Header
  <2> HIDE DEF o, b
  <2>3. Heads(Append(o, b)) = Append(Heads(o), b[1])
    BY <2>1, <2>2, HeadsAppend
  <2> QED
    BY <2>2, <2>3 DEF o, b
<1> QED
  BY <1>8, <1>9, <1>12, <1>15, <1>16, <1>e

(* uart_at_receive with a frame in the ring.                               *)
LEMMA ReadFrame ==
  ASSUME NEW r, RingOK(r), Framed(ContentsOf(r)), r.len > 0
  PROVE  \E f \in Frame :
           /\ RingData(r, Header) = LengthOf(f)
           /\ LET rest == RingLeft(RingLeft(r, Header), Size[f])
              IN /\ RingData(RingLeft(r, Header), Size[f]) = BytesOf(f)
                 /\ RingOK(rest) /\ Framed(ContentsOf(rest))
                 /\ rest.len = r.len - Total(f)
                 /\ QueueOf(r) # << >>
                 /\ Head(QueueOf(r)) = f /\ Tail(QueueOf(r)) = QueueOf(rest)
<1> DEFINE c == ContentsOf(r)
           L == r.len
<1>1. c \in Seq(Byte) /\ Len(c) = L /\ \A i \in 1 .. L : c[i] = At(r, i)
  BY ContentsBytes
<1>2. PICK f : f = c[1][1]
  OBVIOUS
<1>c. Framed(c) /\ QueueOf(r) = Heads(Only(c, First)) /\ L = r.len
  BY DEF QueueOf
<1> HIDE DEF c, L
<1>3. f \in Frame /\ Total(f) <= L /\ \A j \in 1 .. Total(f) : c[j] = <<f, j>>
  BY <1>1, <1>2, <1>c, FrameAhead
<1>4. /\ L \in Nat /\ Size[f] \in Nat /\ Total(f) = Size[f] + 2 /\ Size[f] \in 1 .. BufLen
  BY <1>3, <1>c, FrameTotal, UartAssumption DEF RingOK
<1>5. \A j \in 1 .. Total(f) : At(r, j) = <<f, j>>
  <2> TAKE j \in 1 .. Total(f)
  <2>1. j \in 1 .. L
    BY <1>3, <1>4
  <2> QED
    BY <1>1, <1>3, <2>1
<1>6. PICK one : one = RingLeft(r, 2)
  OBVIOUS
<1>7. PICK length : length = RingData(r, 2)
  OBVIOUS
<1>8. 2 \in 0 .. r.len
  BY <1>3, <1>4, <1>c
<1>9. /\ length \in Seq(Byte) /\ Len(length) = 2
      /\ \A k \in 1 .. 2 : length[k] = At(r, k)
      /\ RingOK(one) /\ one.len = r.len - 2
      /\ \A i \in 1 .. r.len - 2 : At(one, i) = At(r, 2 + i)
  <2>1. PICK n : n = 2
    OBVIOUS
  <2>2. n \in 0 .. r.len /\ length = RingData(r, n) /\ one = RingLeft(r, n)
    BY <1>6, <1>7, <1>8, <2>1
  <2>3. /\ length \in Seq(Byte) /\ Len(length) = n
        /\ \A k \in 1 .. n : length[k] = At(r, k)
        /\ RingOK(one) /\ one.len = r.len - n
        /\ \A i \in 1 .. r.len - n : At(one, i) = At(r, n + i)
    BY <2>2, RingReadBytes
  <2> QED
    BY <2>1, <2>3
<1>10. length = LengthOf(f)
  <2>1. \A k \in 1 .. 2 : length[k] = LengthOf(f)[k]
    <3> TAKE k \in 1 .. 2
    <3>1. k \in 1 .. Total(f)
      BY <1>4
    <3> QED
      BY <1>3, <1>5, <1>9, <3>1, FrameBytes
  <2>2. LengthOf(f) \in Seq(Byte) /\ Len(LengthOf(f)) = 2
    BY <1>3, FrameBytes
  <2> QED
    BY <1>9, <2>1, <2>2, SeqEqual
<1>11. PICK rest : rest = RingLeft(one, Size[f])
  OBVIOUS
<1>12. PICK bytes : bytes = RingData(one, Size[f])
  OBVIOUS
<1>13. Size[f] \in 0 .. one.len
  BY <1>3, <1>4, <1>9, <1>c
<1>14. /\ bytes \in Seq(Byte) /\ Len(bytes) = Size[f]
       /\ \A k \in 1 .. Size[f] : bytes[k] = At(one, k)
       /\ RingOK(rest) /\ rest.len = one.len - Size[f]
       /\ \A i \in 1 .. one.len - Size[f] : At(rest, i) = At(one, Size[f] + i)
  BY <1>9, <1>11, <1>12, <1>13, RingReadBytes
<1>15. bytes = BytesOf(f)
  <2>1. \A k \in 1 .. Size[f] : bytes[k] = BytesOf(f)[k]
    <3> TAKE k \in 1 .. Size[f]
    <3>1. k \in 1 .. r.len - 2 /\ 2 + k \in 1 .. Total(f)
      BY <1>3, <1>4, <1>c
    <3> QED
      BY <1>3, <1>5, <1>9, <1>14, <3>1, FrameBytes
  <2>2. BytesOf(f) \in Seq(Byte) /\ Len(BytesOf(f)) = Size[f]
    BY <1>3, FrameBytes
  <2> QED
    BY <1>14, <2>1, <2>2, SeqEqual
<1>16. rest.len = L - Total(f)
  BY <1>4, <1>9, <1>14, <1>c
<1>17. PICK d : d = ContentsOf(rest)
  OBVIOUS
<1>18. d \in Seq(Byte) /\ Len(d) = L - Total(f) /\ \A i \in 1 .. L - Total(f) : d[i] = At(rest, i)
  BY <1>14, <1>16, <1>17, ContentsBytes
<1>19. \A i \in 1 .. L - Total(f) : d[i] = c[Total(f) + i]
  <2> TAKE i \in 1 .. L - Total(f)
  <2>1. /\ i \in 1 .. one.len - Size[f] /\ Size[f] + i \in 1 .. r.len - 2
        /\ 2 + (Size[f] + i) = Total(f) + i /\ Total(f) + i \in 1 .. L
    <3>1. /\ L \in Nat /\ Size[f] \in Nat /\ Total(f) = Size[f] + 2
          /\ Total(f) <= L /\ one.len = L - 2 /\ r.len = L
      BY <1>3, <1>4, <1>9, <1>c
    <3>2. i \in 1 .. L - Total(f)
      OBVIOUS
    <3> QED
      BY ONLY <3>1, <3>2
  <2>2. At(rest, i) = At(one, Size[f] + i)
    BY <1>14, <2>1
  <2>3. At(one, Size[f] + i) = At(r, 2 + (Size[f] + i))
    BY <1>9, <2>1
  <2>4. At(r, Total(f) + i) = c[Total(f) + i]
    BY <1>1, <2>1
  <2> QED
    BY <1>18, <2>1, <2>2, <2>3, <2>4
<1>20. Framed(d) /\ Only(c, First) = <<c[1]>> \o Only(d, First)
  <2>1. /\ Len(c) > 0 /\ Len(d) = Len(c) - Total(c[1][1])
        /\ \A i \in 1 .. Len(d) : d[i] = c[Total(c[1][1]) + i]
    BY <1>1, <1>2, <1>18, <1>19, <1>c
  <2> QED
    BY <1>1, <1>18, <1>c, <2>1, FramedRest
<1>21. PICK o : o = Only(d, First)
  OBVIOUS
<1>22. o \in Seq(Byte) /\ c[1] \in Byte
  <2>1. o \in Seq(Byte)
    BY <1>18, <1>21, OnlyShorter
  <2>2. 1 \in 1 .. Len(c)
    BY <1>1, <1>4, <1>c
  <2> QED
    BY <1>1, <2>1, <2>2, ElementOfSeq
<1>23. PICK q : q = QueueOf(r)
  OBVIOUS
<1>24. q = Heads(<<c[1]>> \o o)
  BY <1>20, <1>21, <1>23, <1>c
<1>25. q # << >> /\ Head(q) = f /\ Tail(q) = Heads(o)
  BY <1>2, <1>22, <1>24, HeadsBehind
<1>26. QueueOf(rest) = Heads(o)
  BY <1>17, <1>21 DEF QueueOf
<1>27. Header = 2
  BY DEF Header
<1>28. /\ RingData(r, Header) = LengthOf(f)
       /\ RingLeft(RingLeft(r, Header), Size[f]) = rest
       /\ RingData(RingLeft(r, Header), Size[f]) = BytesOf(f)
  BY <1>6, <1>7, <1>10, <1>11, <1>12, <1>15, <1>27
<1>29. /\ RingOK(rest) /\ Framed(ContentsOf(rest)) /\ rest.len = r.len - Total(f)
       /\ QueueOf(r) # << >> /\ Head(QueueOf(r)) = f /\ Tail(QueueOf(r)) = QueueOf(rest)
  BY <1>14, <1>16, <1>17, <1>20, <1>23, <1>25, <1>26, <1>c
<1> QED
  BY <1>3, <1>28, <1>29
-----------------------------------------------------------------------------
(***************************************************************************)
(* The frame channel.  The interrupt may find room for a frame but not for *)
(* its length as well, and then cuts it off: what follows holds where that *)
(* does not happen.                                                        *)
(***************************************************************************)
Room == \A f \in Frame : AtioIrq(f) => RingLen - ring.len >= Total(f)

RoomForLength == [][Room]_uart

LineInv ==
  /\ RingOK(ring) /\ Framed(ContentsOf(ring))
  /\ rcvsync \in Nat
  /\ rcvsync + (IF rcv = "woken" THEN 1 ELSE 0) = Len(QueueOf(ring))
  /\ rcv \in {"pend", "woken", "deal", "copied"}
  /\ rcv \in {"pend", "woken"} => hand = NoFrame
  /\ rcv \in {"deal", "copied"} => hand \in Frame

(* The receiver lets go of its frame, or goes on with it.                  *)
HandOver ==
  /\ rcv \in {"deal", "copied"} /\ UNCHANGED <<ring, rcvsync>>
  /\ \/ rcv' = "pend" /\ hand' = NoFrame
     \/ rcv' \in {"deal", "copied"} /\ hand' = hand

LEMMA QueuedNext == Queued' = QueueOf(ring')
BY DEF Contents, ContentsOf, At, Queued, QueueOf, Heads, First

LEMMA RingNext ==
  /\ RingOK(ring)' <=> RingOK(ring')
  /\ Framed(ContentsOf(ring))' <=> Framed(ContentsOf(ring'))
  /\ QueueOf(ring)' = QueueOf(ring')
<1>1. RingOK(ring)' <=> RingOK(ring')
  BY DEF RingOK
<1>2. ContentsOf(ring)' = ContentsOf(ring')
  BY DEF ContentsOf, At
<1>3. Framed(ContentsOf(ring))' <=> Framed(ContentsOf(ring'))
  BY <1>2 DEF Framed
<1>4. QueueOf(ring)' = QueueOf(ring')
  BY <1>2 DEF QueueOf, Heads
<1> QED
  BY <1>1, <1>3, <1>4

LEMMA LineInit == ASSUME UartInit PROVE LineInv /\ Channel!Init
<1>1. RingOK(ring) /\ ring.len = 0
  BY UartAssumption DEF UartInit, EmptyRing, RingOK, Index, Byte
<1>2. ContentsOf(ring) \in Seq(Byte) /\ Len(ContentsOf(ring)) = 0
  BY <1>1, ContentsBytes
<1>3. Framed(ContentsOf(ring))
  BY <1>2 DEF Framed
<1>4. QueueOf(ring) \in Seq(Frame \cup {NoFrame}) /\ Len(QueueOf(ring)) = 0
  BY <1>1, QueueShort
<1>5. QueueOf(ring) = << >>
  BY <1>4, EmptySeq
<1> QED
  BY <1>1, <1>3, <1>4, <1>5, QueuedIs DEF UartInit, LineInv, Channel!Init

LEMMA IrqLine ==
  ASSUME LineInv, NEW f \in Frame, AtioIrq(f), RingLen - ring.len >= Total(f)
  PROVE  LineInv' /\ Channel!Arrive(f) /\ ring'.len = ring.len + Total(f)
<1>1. PICK w : w = ring'
  OBVIOUS
<1>2. w = RingWrite(RingWrite(ring, LengthOf(f)), BytesOf(f))
  BY <1>1 DEF AtioIrq
<1>3. RingOK(ring) /\ Framed(ContentsOf(ring))
  BY DEF LineInv
<1>4. /\ RingOK(w) /\ Framed(ContentsOf(w)) /\ w.len = ring.len + Total(f)
      /\ QueueOf(w) = Append(QueueOf(ring), f)
  BY <1>2, <1>3, WriteFrame
<1> DEFINE q == QueueOf(ring)
<1>5. q \in Seq(Frame \cup {NoFrame}) /\ Len(q) \in Nat /\ Len(q) <= ring.len
  BY <1>3, QueueShort
<1>6. rcvsync' = rcvsync + 1
  <2>1. rcvsync \in Nat /\ rcvsync <= Len(q)
    BY <1>5 DEF LineInv
  <2>2. ring.len \in Nat /\ RingLen \in Nat /\ Total(f) \in Nat /\ Total(f) >= 3
    BY <1>3, FrameTotal, UartAssumption DEF RingOK
  <2> HIDE DEF q
  <2>3. rcvsync + 1 <= RingLen
    BY <1>5, <2>1, <2>2
  <2> QED
    BY <2>1, <2>2, <2>3 DEF AtioIrq, Lesser
<1>7. Len(Append(q, f)) = Len(q) + 1
  BY <1>5, AppendProperties
<1> HIDE DEF q
<1>8. LineInv'
  <2>1. RingOK(ring)' /\ Framed(ContentsOf(ring))'
    BY <1>1, <1>4, RingNext
  <2>2. /\ rcvsync' \in Nat /\ rcv' = rcv /\ hand' = hand
        /\ rcvsync' + (IF rcv' = "woken" THEN 1 ELSE 0) = Len(QueueOf(ring'))
    BY <1>1, <1>4, <1>5, <1>6, <1>7 DEF LineInv, AtioIrq, q
  <2> QED
    BY <2>1, <2>2 DEF LineInv
<1>9. Channel!Arrive(f)
  <2>1. Queued' = Append(Queued, f)
    BY <1>1, <1>4, QueuedIs, QueuedNext
  <2> QED
    BY <2>1 DEF Channel!Arrive, AtioIrq
<1> QED
  BY <1>1, <1>4, <1>8, <1>9

LEMMA PendLine ==
  ASSUME LineInv, ReceivePend PROVE LineInv' /\ UNCHANGED <<Queued, hand>>
<1>1. ring' = ring /\ hand' = hand /\ Queued' = Queued
  BY QueuedIs, QueuedNext DEF ReceivePend
<1>2. /\ rcvsync' = rcvsync - 1 /\ rcvsync' \in Nat /\ rcv = "pend" /\ rcv' = "woken"
      /\ hand = NoFrame
  BY DEF ReceivePend, LineInv
<1>3. Len(QueueOf(ring)) = rcvsync /\ rcvsync \in Nat
  BY <1>2, QueueShort DEF LineInv
<1>4. RingOK(ring)' /\ Framed(ContentsOf(ring))' /\ QueueOf(ring)' = QueueOf(ring)
  BY <1>1, RingNext DEF LineInv
<1> QED
  BY <1>1, <1>2, <1>3, <1>4 DEF LineInv

LEMMA FrameLine ==
  ASSUME LineInv, ReceiveFrame
  PROVE  /\ LineInv' /\ Channel!Receive
         /\ \E f \in Frame : ring'.len = ring.len - Total(f)
<1>1. RingOK(ring) /\ Framed(ContentsOf(ring)) /\ rcv = "woken" /\ hand = NoFrame
  BY DEF LineInv, ReceiveFrame
<1> DEFINE q == QueueOf(ring)
<1>2. q \in Seq(Frame \cup {NoFrame}) /\ Len(q) \in Nat /\ Len(q) <= ring.len
  BY <1>1, QueueShort
<1>3. rcvsync \in Nat /\ rcvsync + 1 = Len(q)
  BY <1>1 DEF LineInv
<1> HIDE DEF q
<1>4. ring.len > 0
  <2>1. ring.len \in Nat
    BY <1>1, UartAssumption DEF RingOK
  <2> QED
    BY <1>2, <1>3, <2>1
<1>5. PICK f \in Frame :
        /\ RingData(ring, Header) = LengthOf(f)
        /\ LET rest == RingLeft(RingLeft(ring, Header), Size[f])
           IN /\ RingData(RingLeft(ring, Header), Size[f]) = BytesOf(f)
              /\ RingOK(rest) /\ Framed(ContentsOf(rest))
              /\ rest.len = ring.len - Total(f)
              /\ q # << >> /\ Head(q) = f /\ Tail(q) = QueueOf(rest)
  BY <1>1, <1>4, ReadFrame DEF q
<1>6. PICK rest : rest = RingLeft(RingLeft(ring, Header), Size[f])
  OBVIOUS
<1>7. /\ RingOK(rest) /\ Framed(ContentsOf(rest)) /\ rest.len = ring.len - Total(f)
      /\ q # << >> /\ Head(q) = f /\ Tail(q) = QueueOf(rest)
  BY <1>5, <1>6
<1>8. /\ ring' = rest /\ hand' = f /\ rcv' = "deal" /\ rcvsync' = rcvsync
  <2>1. Len(RingData(ring, Header)) = Header
    BY <1>5, FrameBytes DEF Header
  <2>2. \A n \in Lengths(RingData(ring, Header)) : n = Size[f]
    BY <1>5 DEF Lengths
  <2>3. Size[f] # 0 /\ ~ (Size[f] > BufLen)
    BY FrameTotal
  <2>4. Len(RingData(RingLeft(ring, Header), Size[f])) = Size[f]
    BY <1>5, FrameBytes
  <2>5. Whole(BytesOf(f)) /\ BytesOf(f)[1][1] = f
    <3>1. 1 \in 1 .. Size[f]
      BY FrameTotal
    <3> QED
      BY <3>1 DEF Whole, BytesOf
  <2>6. /\ ring' = RingLeft(RingLeft(ring, Header), Size[f])
        /\ hand' = IF Whole(RingData(RingLeft(ring, Header), Size[f]))
                   THEN RingData(RingLeft(ring, Header), Size[f])[1][1] ELSE Garbled
        /\ rcv' = "deal" /\ rcvsync' = rcvsync
    BY <2>1, <2>2, <2>3, <2>4 DEF ReceiveFrame
  <2> QED
    BY <1>5, <1>6, <2>5, <2>6
<1>9. Len(Tail(q)) = Len(q) - 1
  BY <1>2, <1>7, HeadTailProperties
<1>10. LineInv'
  <2>1. RingOK(ring)' /\ Framed(ContentsOf(ring))'
    BY <1>7, <1>8, RingNext
  <2>2. rcvsync' + 0 = Len(QueueOf(ring'))
    BY <1>2, <1>3, <1>7, <1>8, <1>9
  <2> QED
    BY <1>3, <1>8, <2>1, <2>2 DEF LineInv
<1>11. Channel!Receive
  <2>1. Queued = q /\ Queued' = QueueOf(rest)
    BY <1>8, QueuedIs, QueuedNext DEF q
  <2> QED
    BY <1>1, <1>7, <1>8, <2>1 DEF Channel!Receive
<1> QED
  BY <1>7, <1>8, <1>10, <1>11

LEMMA HandLine ==
  ASSUME LineInv, HandOver
  PROVE  LineInv' /\ (Channel!Finish \/ UNCHANGED <<Queued, hand>>)
<1>1. ring' = ring /\ rcvsync' = rcvsync /\ Queued' = Queued
  BY QueuedIs, QueuedNext DEF HandOver
<1>2. RingOK(ring)' /\ Framed(ContentsOf(ring))' /\ QueueOf(ring)' = QueueOf(ring)
  BY <1>1, RingNext DEF LineInv
<1>3. rcv # "woken" /\ rcv' # "woken" /\ hand \in Frame
  BY DEF LineInv, HandOver
<1>4. rcvsync' + 0 = Len(QueueOf(ring)) /\ rcvsync' \in Nat
  BY <1>1, <1>3 DEF LineInv
<1>5. LineInv'
  BY <1>2, <1>3, <1>4 DEF LineInv, HandOver
<1>6. hand # NoFrame
  BY <1>3, UartAssumption
<1> QED
  BY <1>1, <1>5, <1>6 DEF HandOver, Channel!Finish

ChannelStep == Channel!Next \/ UNCHANGED <<Queued, hand>>

LEMMA LineStill ==
  ASSUME LineInv, UNCHANGED uart PROVE LineInv' /\ ChannelStep
<1>1. ring' = ring /\ rcvsync' = rcvsync /\ rcv' = rcv /\ hand' = hand /\ Queued' = Queued
  BY QueuedIs, QueuedNext DEF uart
<1>2. RingOK(ring)' /\ Framed(ContentsOf(ring))' /\ QueueOf(ring)' = QueueOf(ring)
  BY <1>1, RingNext DEF LineInv
<1> QED
  BY <1>1, <1>2 DEF LineInv, ChannelStep

LEMMA LineNext ==
  ASSUME LineInv, UartStep \/ HandOver \/ UNCHANGED uart, [Room]_uart
  PROVE  LineInv' /\ ChannelStep
<1>1. CASE UNCHANGED uart
  BY <1>1, LineStill
<1>2. CASE Room
  <2>1. ASSUME NEW f \in Frame, AtioIrq(f) PROVE LineInv' /\ ChannelStep
    <3>1. RingLen - ring.len >= Total(f)
      BY <1>2, <2>1 DEF Room
    <3> QED
      BY <2>1, <3>1, IrqLine DEF ChannelStep, Channel!Next
  <2>2. CASE ReceivePend
    BY <2>2, PendLine DEF ChannelStep
  <2>3. CASE ReceiveFrame
    BY <2>3, FrameLine DEF ChannelStep, Channel!Next
  <2>4. CASE HandOver
    BY <2>4, HandLine DEF ChannelStep, Channel!Next
  <2> QED
    BY <1>1, <2>1, <2>2, <2>3, <2>4 DEF UartStep
<1> QED
  BY <1>1, <1>2

LEMMA AtNextLine ==
  ASSUME [AtNext]_atvars PROVE UartStep \/ HandOver \/ UNCHANGED uart
<1>1. CASE UNCHANGED atvars
  BY <1>1 DEF atvars
<1>2. CASE ReceiverStep
  BY <1>2 DEF ReceiverStep, MatchCopy, MatchPost, MatchNone, HandOver
<1>3. ASSUME NEW c \in Caller, CallStep(c) PROVE UNCHANGED uart
  BY <1>3 DEF CallStep, AtCommand, CmdSyncEnds, CmdSyncPend, CmdSyncTimeout, Create,
     RespSyncEnds, RespSyncPend, RespSyncTimeout, ReadLength, Clear, CmdSyncPost
<1> QED
  BY <1>1, <1>2, <1>3 DEF AtNext

LEMMA UartNextLine ==
  ASSUME [UartStep \/ Dealt]_uart PROVE UartStep \/ HandOver \/ UNCHANGED uart
BY DEF Dealt, HandOver

LEMMA LineAlways == AtSpec /\ RoomForLength => []LineInv
<1>1. AtInit => LineInv
  BY LineInit DEF AtInit
<1>2. LineInv /\ [AtNext]_atvars /\ [Room]_uart => LineInv'
  BY AtNextLine, LineNext
<1> QED
  BY <1>1, <1>2, PTL DEF AtSpec, RoomForLength

(* Where no frame is cut off, the semaphore of uart_at counts the frames   *)
(* of the ring: a read finds a whole frame and never resets the ring.      *)
THEOREM SyncCountsHolds == AtSpec /\ RoomForLength => []SyncCountsFrames
<1>1. LineInv => SyncCountsFrames
  BY QueuedIs DEF LineInv, SyncCountsFrames
<1> QED
  BY <1>1, LineAlways, PTL

(* The frames then go through the ring in order, each once, wherever they  *)
(* cross the end of its memory and whatever at_command does meanwhile.     *)
THEOREM KeepsFramesHolds == AtSpec /\ RoomForLength => KeepsFrames
<1>1. AtInit => Channel!Init
  BY LineInit DEF AtInit
<1>2. LineInv /\ [AtNext]_atvars /\ [Room]_uart => [Channel!Next]_<<Queued, hand>>
  BY AtNextLine, LineNext DEF ChannelStep
<1> QED
  BY <1>1, <1>2, LineAlways, PTL DEF AtSpec, RoomForLength, KeepsFrames, Channel!Spec

(* What the receiver is given is then a frame of the line.                 *)
THEOREM FramesStayIntact == UartSpec /\ RoomForLength => []FramesIntact
<1>1. UartInit => LineInv
  BY LineInit
<1>2. LineInv /\ [UartStep \/ Dealt]_uart /\ [Room]_uart => LineInv'
  BY UartNextLine, LineNext
<1>3. LineInv => FramesIntact
  BY UartAssumption DEF LineInv, FramesIntact
<1> QED
  BY <1>1, <1>2, <1>3, PTL DEF UartSpec, RoomForLength
-----------------------------------------------------------------------------
(***************************************************************************)
(* Frames of one length L are never cut off, if whole frames and their     *)
(* lengths leave the ring with room for another one or for less than L.    *)
(***************************************************************************)
Leaves(n, L) == RingLen - n \notin L .. L + Header - 1

EqualFrames(L) ==
  /\ L \in Nat /\ \A f \in Frame : Size[f] = L
  /\ \A k \in Nat : Leaves(k * (L + Header), L)

Slots(L) == \E k \in Nat : ring.len = k * (L + Header)

LEMMA SlotsNext ==
  ASSUME NEW L, EqualFrames(L), LineInv, Slots(L), [AtNext]_atvars
  PROVE  [Room]_uart /\ Slots(L)'
<1>1. L \in Nat /\ Header = 2 /\ RingLen \in Nat /\ ring.len \in 0 .. RingLen
  BY UartAssumption DEF EqualFrames, Header, LineInv, RingOK
<1> DEFINE m == L + Header
<1>2. PICK k \in Nat : ring.len = k * m
  BY DEF Slots
<1>3. \A f \in Frame : Size[f] = L /\ Total(f) = m
  BY <1>1 DEF EqualFrames, Total
<1>4. RingLen - k * m \notin L .. m - 1
  <2>1. Leaves(k * m, L)
    BY <1>2 DEF EqualFrames
  <2>2. k * m \in Int
    BY <1>1, <1>2
  <2> QED
    BY <1>1, <2>1, <2>2 DEF Leaves
<1>5. m \in Nat /\ m >= 2 /\ m = L + 2
  BY <1>1
<1> HIDE DEF m
<1>6. (k + 1) * m = k * m + m /\ (k - 1) * m = k * m - m /\ k * m \in Nat
  BY <1>2, <1>5
<1>7. Room
  <2> SUFFICES ASSUME NEW f \in Frame, AtioIrq(f) PROVE RingLen - ring.len >= Total(f)
    BY DEF Room
  <2>1. RingLen - ring.len >= L
    BY <1>3 DEF AtioIrq
  <2>2. RingLen - ring.len \notin L .. m - 1
    BY <1>2, <1>4
  <2> QED
    BY <1>1, <1>3, <1>5, <2>1, <2>2
<1>8. \E n \in Nat : ring'.len = n * m
  <2>1. CASE ring' = ring
    BY <1>2, <2>1
  <2>2. ASSUME NEW f \in Frame, AtioIrq(f) PROVE \E n \in Nat : ring'.len = n * m
    <3>1. ring'.len = ring.len + Total(f)
      BY <1>7, <2>2, IrqLine DEF Room
    <3>2. ring'.len = (k + 1) * m /\ k + 1 \in Nat
      BY <1>2, <1>3, <1>6, <3>1
    <3> QED
      BY <3>2
  <2>3. ASSUME ReceiveFrame PROVE \E n \in Nat : ring'.len = n * m
    <3>1. PICK f \in Frame : ring'.len = ring.len - Total(f)
      BY <2>3, FrameLine
    <3>2. ring'.len = (k - 1) * m
      BY <1>2, <1>3, <1>6, <3>1
    <3>3. ring'.len \in Nat
      BY <2>3, FrameLine, UartAssumption DEF LineInv, RingOK
    <3>4. k # 0
      <4> SUFFICES ASSUME k = 0 PROVE FALSE
        OBVIOUS
      <4>1. ring.len = 0
        BY <1>2, <1>5
      <4> QED
        BY <1>3, <1>5, <3>1, <3>3, <4>1
    <3>5. k - 1 \in Nat
      BY <3>4
    <3> QED
      BY <3>2, <3>5
  <2>4. UartStep \/ HandOver \/ UNCHANGED uart
    BY AtNextLine
  <2>5. ReceivePend \/ HandOver \/ UNCHANGED uart => ring' = ring
    BY DEF ReceivePend, HandOver, uart
  <2> QED
    BY <2>1, <2>2, <2>3, <2>4, <2>5 DEF UartStep
<1> QED
  BY <1>7, <1>8 DEF Slots, m

(* The room that atio_irq leaves the length is then always there.          *)
THEOREM EqualFramesFit ==
  ASSUME NEW L, EqualFrames(L) PROVE AtSpec => RoomForLength
<1> DEFINE I == LineInv /\ Slots(L)
<1>1. AtInit => I
  <2> SUFFICES ASSUME AtInit PROVE Slots(L)
    BY LineInit DEF AtInit
  <2>1. ring.len = 0 * (L + Header)
    BY DEF AtInit, UartInit, EmptyRing, EqualFrames, Header
  <2> QED
    BY <2>1 DEF Slots
<1>2. I /\ [AtNext]_atvars => I' /\ [Room]_uart
  <2> SUFFICES ASSUME I, [AtNext]_atvars PROVE I' /\ [Room]_uart
    OBVIOUS
  <2>1. [Room]_uart /\ Slots(L)'
    BY SlotsNext
  <2>2. LineInv'
    BY <2>1, AtNextLine, LineNext
  <2> QED
    BY <2>1, <2>2
<1> HIDE DEF I
<1> QED
  BY <1>1, <1>2, PTL DEF AtSpec, RoomForLength
-----------------------------------------------------------------------------
(* No length passes the buffer of a frame.                                 *)
Short == respdatalen \in 0 .. BufLen /\ result \in [Caller -> 0 .. BufLen]

LEMMA ShortNext == ASSUME AtInv, Short, [AtNext]_atvars PROVE Short'
<1>1. CASE UNCHANGED atvars \/ (UartStep /\ UNCHANGED command) \/ MatchCopy \/ MatchNone
  BY <1>1 DEF atvars, command, MatchCopy, MatchNone, Short
<1>2. CASE MatchPost
  <2>1. hand \in Frame
    BY <1>2 DEF MatchPost, AtInv, Matching
  <2>2. Lesser(Size[hand], RespLen) \in 0 .. BufLen
    BY <2>1, FrameTotal, AtAssumption DEF Lesser
  <2> QED
    BY <1>2, <2>2 DEF MatchPost, Short
<1>3. ASSUME NEW c \in Caller, CallStep(c) PROVE Short'
  <2>1. 0 \in 0 .. BufLen
    BY UartAssumption
  <2>2. CASE AtCommand(c) \/ ReadLength(c)
    BY <2>1, <2>2 DEF AtCommand, ReadLength, Short
  <2>3. CASE Clear(c)
    BY <2>1, <2>3 DEF Clear, Short
  <2>4. CASE CmdSyncEnds(c) \/ Create(c) \/ RespSyncEnds(c) \/ CmdSyncPost(c)
    BY <2>4 DEF CmdSyncEnds, CmdSyncPend, CmdSyncTimeout, Create, RespSyncEnds,
       RespSyncPend, RespSyncTimeout, CmdSyncPost, Short
  <2> QED
    BY <1>3, <2>2, <2>3, <2>4 DEF CallStep
<1> QED
  BY <1>1, <1>2, <1>3 DEF AtNext, ReceiverStep

(* Every variable of at.c, uart_at.c and ring.c keeps its type, with the   *)
(* same condition: the offset of the ring never leaves its memory.         *)
THEOREM AtTypeCorrect == AtSpec /\ RoomForLength => []AtTypeOK
<1>1. AtInit => Short
  BY UartAssumption DEF AtInit, Short
<1>2. AtInv /\ LineInv /\ Short => AtTypeOK
  <2> SUFFICES ASSUME AtInv, LineInv, Short PROVE AtTypeOK
    OBVIOUS
  <2>1. UartTypeOK
    <3>1. Index \subseteq 0 .. RingLen
      BY UartAssumption DEF Index
    <3> QED
      BY <3>1 DEF LineInv, UartTypeOK, RingOK, Byte
  <2> QED
    BY <2>1 DEF AtInv, Types, Short, AtTypeOK
<1> QED
  BY <1>1, <1>2, AtInvAlways, LineAlways, ShortNext, PTL DEF AtSpec
=============================================================================
