----------------------------- MODULE OtaDefault -----------------------------
(***************************************************************************)
(* The firmware update of ota_default.c: the application downloads an      *)
(* image and asks for the update, the bootloader carries it out, and the   *)
(* flag between them is kept in two copies in the flash.  The power may be *)
(* lost at any step and a write of the flash may fail.                     *)
(* Outside src/: the bootloader's main, the application's, and the board's *)
(* functions that copy the blocks of an image, as the code here uses them. *)
(***************************************************************************)
EXTENDS Naturals

CONSTANTS
  Image,        (* what the download area may hold                         *)
  Old,          (* the image before the first update                       *)
  Broken,       (* a block whose copying was cut off                       *)
  Blocks,       (* the number of blocks of an image                        *)
  MaxRestarts,  (* MAX_RESTART_CNT                                         *)
  NoFlag,       (* a copy whose CRC is wrong                               *)
  MaxCrash,     (* how often the power is lost                             *)
  MaxFails      (* how many writes of the flag fail                        *)

ASSUME OtaAssumption ==
  /\ Blocks \in Nat /\ MaxRestarts \in Nat
  /\ MaxCrash \in Nat /\ MaxFails \in Nat
  /\ Old \notin Image /\ Broken \notin Image /\ Old # Broken

VARIABLES
  addr1, addr2,    (* the copies at OTA_FLAG_ADDR1 and OTA_FLAG_ADDR2       *)
  flag,            (* g_ota_flag                                           *)
  pc,              (* where the program is                                 *)
  then,            (* where it goes after a write: if it succeeds, fails   *)
  download,        (* what the download area holds                         *)
  active,          (* what the blocks of the running image hold            *)
  crashes, fails   (* how many there were                                  *)

flash   == <<addr1, addr2>>
images  == <<download, active>>
faults  == <<crashes, fails>>
otavars == <<flash, flag, pc, then, images, faults>>

State == {"IDLE", "NEEDUPDATE", "UPDATING", "SUCCEED", "FAILED"}

Flag == [state : State, restarts : 0 .. MaxRestarts + 1, offset : 0 .. Blocks,
         image : Image \cup {Old}]

ASSUME NoFlagAssumption == NoFlag \notin Flag

Writing == {"write", "backup", "between", "main"}
Program == {"boot", "process", "copy", "copying", "failed", "rollback",
            "rolling", "jump", "init", "app"}

OtaTypeOK ==
  /\ addr1 \in Flag \cup {NoFlag} /\ addr2 \in Flag \cup {NoFlag}
  /\ flag \in Flag
  /\ pc \in Program \cup Writing
  /\ then \in [ok : Program, fail : Program]
  /\ download \in Image
  /\ active \in [0 .. Blocks - 1 -> Image \cup {Old, Broken}]
  /\ crashes \in 0 .. MaxCrash /\ fails \in 0 .. MaxFails

(* The flag of a board that has none.                                      *)
Default == [state |-> "IDLE", restarts |-> 0, offset |-> 0, image |-> Old]

(* prv_read_ota_default_flag: the first copy, else the second.             *)
Stored == IF addr1 # NoFlag THEN addr1 ELSE addr2

(* A call of prv_write_ota_default_flag, and where its two outcomes lead.  *)
Store(f, ok, fail) ==
  /\ flag' = f
  /\ pc' = "write"
  /\ then' = [ok |-> ok, fail |-> fail]
  /\ UNCHANGED <<flash, faults>>

Goes(from, to) ==
  /\ pc = from /\ pc' = to
  /\ UNCHANGED <<flash, faults, then>>
-----------------------------------------------------------------------------
(* Mutant: the second copy is not made.                                    *)
WriteBeginsBare ==
  /\ Goes("write", "between") /\ UNCHANGED <<flag, images>>

(* prv_write_ota_default_flag: if the first copy is good, it goes to the   *)
(* second place.  A copy that is being written is not a good one.          *)
WriteBegins ==
  /\ pc = "write"
  /\ IF addr1 # NoFlag THEN pc' = "backup" /\ addr2' = NoFlag
                       ELSE pc' = "between" /\ UNCHANGED addr2
  /\ UNCHANGED <<addr1, flag, then, images, faults>>

BackupEnds ==
  /\ pc = "backup" /\ pc' = "between"
  /\ addr2' = addr1
  /\ UNCHANGED <<addr1, flag, then, images, faults>>

(* Then g_ota_flag goes to the first place.                                *)
MainBegins ==
  /\ pc = "between" /\ pc' = "main"
  /\ addr1' = NoFlag
  /\ UNCHANGED <<addr2, flag, then, images, faults>>

MainEnds ==
  /\ pc = "main" /\ pc' = then.ok
  /\ addr1' = flag
  /\ UNCHANGED <<addr2, flag, then, images, faults>>

(* Either write may fail, before it touches the copy, in its middle, or    *)
(* though the copy is written.                                             *)
WriteFails ==
  /\ fails < MaxFails /\ fails' = fails + 1
  /\ pc \in Writing /\ (pc = "write" => addr1 # NoFlag)
  /\ pc' = then.fail
  /\ addr2' \in IF pc = "backup" THEN {NoFlag, addr1} ELSE {addr2}
  /\ addr1' \in IF pc = "main" THEN {NoFlag, flag} ELSE {addr1}
  /\ UNCHANGED <<flag, then, images, crashes>>
-----------------------------------------------------------------------------
(* ota_default_init, in the bootloader and in the application.             *)
InitFlag(from, to) ==
  /\ IF Stored # NoFlag
     THEN Goes(from, to) /\ flag' = Stored
     ELSE pc = from /\ Store(Default, to, to)
  /\ UNCHANGED images

(* ota_default_update_process, by the state it finds: an image that is not *)
(* the one that was asked for fails, the copying begins or goes on ...     *)
NeedUpdate ==
  /\ pc = "process" /\ flag.state = "NEEDUPDATE"
  /\ IF download # flag.image
     THEN Store([flag EXCEPT !.state = "FAILED"], "jump", "jump")
     ELSE Store([flag EXCEPT !.state = "UPDATING"], "copy", "copy")
  /\ UNCHANGED images

GoOn ==
  /\ pc = "process" /\ flag.state = "UPDATING"
  /\ Store(flag, "copy", "copy")
  /\ UNCHANGED images

(* ... and a new image has so many restarts to be confirmed.               *)
CountRestart ==
  /\ pc = "process" /\ flag.state = "SUCCEED" /\ flag.restarts <= MaxRestarts
  /\ Store([flag EXCEPT !.restarts = @ + 1], "jump", "jump")
  /\ UNCHANGED images

GiveUp ==
  /\ flag.state = "SUCCEED" /\ flag.restarts > MaxRestarts
  /\ Goes("process", "rollback") /\ UNCHANGED <<flag, images>>

NothingToDo ==
  /\ flag.state \in {"IDLE", "FAILED"}
  /\ Goes("process", "jump") /\ UNCHANGED <<flag, images>>

(* Mutant: the offset is recorded before the block is copied.              *)
CopyBeginsRecorded ==
  /\ flag.offset < Blocks /\ pc = "copy"
  /\ Store([flag EXCEPT !.offset = @ + 1], "copying", "failed")
  /\ active' = [active EXCEPT ![flag.offset] = Broken]
  /\ UNCHANGED download

(* board_update_copy copies the blocks from the recorded offset on.        *)
CopyBegins ==
  /\ flag.offset < Blocks
  /\ Goes("copy", "copying")
  /\ active' = [active EXCEPT ![flag.offset] = Broken]
  /\ UNCHANGED <<flag, download>>

(* prv_set_update_record after each block.                                 *)
CopyEnds ==
  /\ pc = "copying"
  /\ active' = [active EXCEPT ![flag.offset] = download]
  /\ Store([flag EXCEPT !.offset = @ + 1], "copy", "failed")
  /\ UNCHANGED download

(* Mutant: the update ends without its last state.                         *)
UpdateEndsSilent ==
  /\ flag.offset = Blocks
  /\ Goes("copy", "jump") /\ UNCHANGED <<flag, images>>

(* The end of ota_default_update_process.                                  *)
UpdateSucceeds ==
  /\ pc = "copy" /\ flag.offset = Blocks
  /\ Store([flag EXCEPT !.state = "SUCCEED"], "jump", "jump")
  /\ UNCHANGED images

UpdateFails ==
  /\ pc = "failed"
  /\ Store([flag EXCEPT !.state = "FAILED"], "jump", "jump")
  /\ UNCHANGED images

(* ota_default_roll_back_image: board_rollback_copy restores the old image.*)
RollBegins ==
  /\ Goes("rollback", "rolling")
  /\ active' = [b \in 0 .. Blocks - 1 |-> Broken]
  /\ UNCHANGED <<flag, download>>

RollEnds ==
  /\ pc = "rolling"
  /\ active' = [b \in 0 .. Blocks - 1 |-> Old]
  /\ Store([flag EXCEPT !.state = "FAILED"], "jump", "jump")
  /\ UNCHANGED download
-----------------------------------------------------------------------------
(* board_jump2app: an image whose blocks do not belong together does not   *)
(* run, and the board restarts.                                            *)
Runs == \E v \in Image \cup {Old} : \A b \in 0 .. Blocks - 1 : active[b] = v

Jump ==
  /\ Goes("jump", IF Runs THEN "init" ELSE "boot")
  /\ UNCHANGED <<flag, images>>

(* ota_default_check_update_state: the application is satisfied.           *)
CheckUpdateState ==
  /\ pc = "app" /\ flag.state \in {"SUCCEED", "FAILED"}
  /\ Store([flag EXCEPT !.state = "IDLE", !.restarts = 0], "app", "app")
  /\ UNCHANGED images

(* The application downloads.                                              *)
Download(v) ==
  /\ Goes("app", "app")
  /\ download' = v
  /\ UNCHANGED <<flag, active>>

(* Mutant: the progress of the last update stays.                          *)
SetRebootStale ==
  /\ pc = "app"
  /\ Store([flag EXCEPT !.state = "NEEDUPDATE", !.image = download],
           "app", "app")
  /\ UNCHANGED images

(* ota_default_set_reboot: it asks for an update to what is downloaded,    *)
(* with its length and its hash.  It does not restart the board.           *)
SetReboot ==
  /\ pc = "app"
  /\ Store([flag EXCEPT !.state = "NEEDUPDATE", !.offset = 0,
                        !.image = download], "app", "app")
  /\ UNCHANGED images

Restart == Goes("app", "boot") /\ UNCHANGED <<flag, images>>

(* The power is lost, and with it the memory.                              *)
Crash ==
  /\ crashes < MaxCrash /\ crashes' = crashes + 1
  /\ pc' = "boot"
  /\ flag' = Default
  /\ UNCHANGED <<flash, then, images, fails>>
-----------------------------------------------------------------------------
OtaInit ==
  /\ addr1 = NoFlag /\ addr2 = NoFlag
  /\ flag = Default
  /\ pc = "boot" /\ then = [ok |-> "boot", fail |-> "boot"]
  /\ download \in Image
  /\ active = [b \in 0 .. Blocks - 1 |-> Old]
  /\ crashes = 0 /\ fails = 0

WriteStep == WriteBegins \/ BackupEnds \/ MainBegins \/ MainEnds

BootStep ==
  \/ InitFlag("boot", "process")
  \/ NeedUpdate \/ GoOn \/ CountRestart \/ GiveUp \/ NothingToDo
  \/ CopyBegins \/ CopyEnds \/ UpdateSucceeds \/ UpdateFails
  \/ RollBegins \/ RollEnds \/ Jump

AppStep ==
  \/ InitFlag("init", "app") \/ CheckUpdateState \/ SetReboot \/ Restart
  \/ \E v \in Image : Download(v)

OtaNext == WriteStep \/ WriteFails \/ BootStep \/ AppStep \/ Crash

OtaSpec == OtaInit /\ [][OtaNext]_otavars

(* The processor runs the program.                                         *)
OtaFairSpec == OtaSpec /\ WF_otavars(WriteStep \/ BootStep)
-----------------------------------------------------------------------------
(* Wherever the power is lost during an update, the blocks that the stored *)
(* flag says are copied are those of the image that was asked for.         *)
ResumeSound ==
  Stored # NoFlag /\ Stored.state = "UPDATING" =>
    \A b \in 0 .. Blocks - 1 : b < Stored.offset => active[b] = Stored.image

(* An update that is stored as a success is one: all of the image that was *)
(* asked for is there, unless it is being rolled back.                     *)
SuccessIsWhole ==
  Stored # NoFlag /\ Stored.state = "SUCCEED" /\ Stored.restarts <= MaxRestarts =>
    \A b \in 0 .. Blocks - 1 : active[b] = Stored.image

Contract == INSTANCE AtomicFlag WITH
              stored <- Stored, writing <- IF pc \in Writing THEN flag ELSE NoFlag

(* The two copies make one flag that is written atomically: no loss of     *)
(* power and no failed write, at any step and in any number, leaves the    *)
(* next boot with another flag than the last or the one being written.     *)
KeepsFlag == Contract!Spec

(* Once the faults are over, an update that was asked for comes to an end, *)
(* whatever was cut off before.                                            *)
Pending == Stored # NoFlag /\ Stored.state \in {"NEEDUPDATE", "UPDATING"}
FaultsOver == crashes = MaxCrash /\ fails = MaxFails

UpdateEnds == (pc = "boot" /\ Pending /\ FaultsOver) ~> ~Pending
=============================================================================
