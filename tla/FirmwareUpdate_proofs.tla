----------------------- MODULE FirmwareUpdate_proofs -----------------------
(***************************************************************************)
(* Proofs about FirmwareUpdate, for every set of releases, every set of    *)
(* phases in which the power fails, every set of commands that fail and    *)
(* any number of power losses and requests.                                *)
(***************************************************************************)
EXTENDS FirmwareUpdate, TLAPS

\* A proof about a step has one case per action; these expand its parts.
LEMMA UpdateHistory ==
    Update \/ SetWatchConf \/ Boot \/ Fwupdater \/ WriteBack
    \/ (\E who \in Rebooter : StartShutdown(who)) \/ UnmountAll
    => UNCHANGED <<hurt, losses, requests>>
<1> USE DEF Writes, Flashes
<1>1. Update => UNCHANGED <<hurt, losses, requests>>
  BY DEF Update, StopNetwatch, CleanDownloadDir, FetchImage, ExtractRoot,
         RootExtracted, BackupConfig, UmountBoot, InstallBoot, BootInstalled,
         MountBoot, RestoreConfig, ReadConfig, TruncateConfig, WriteConfig,
         CallReboot
<1>2. Fwupdater => UNCHANGED <<hurt, losses, requests>>
  BY DEF Fwupdater, CheckImage, CopyRoot, RootCopied, SyncRoot, RemoveImage,
         Disarm, SyncAgain, ResetAfterFlash
<1> QED
  BY <1>1, <1>2 DEF SetWatchConf, Boot, BootFwupdater, BootSystem, BootFails,
                    WriteBack, StartShutdown, UnmountAll

\* The phase of the device is one of the named ones.
LEMMA PhaseIsPhase == Phase \in Phases
BY DEF Phase, Phases

\* The history variables keep their types.
LEMMA HistoryStep == HistoryOK /\ [Next]_vars => HistoryOK'
<1> SUFFICES ASSUME HistoryOK, [Next]_vars PROVE HistoryOK'
  OBVIOUS
<1> USE ConstantsOK DEF HistoryOK
<1>1. CASE UNCHANGED <<hurt, losses, requests>>
  BY <1>1
<1>2. CASE hurt' \in {hurt, hurt \cup {Phase}} /\ UNCHANGED <<losses, requests>>
  BY <1>2, PhaseIsPhase
<1>3. CASE \E v \in Version : Request(v)
  BY <1>3 DEF Request
<1>4. CASE PowerLoss
  <2>1. hurt' \subseteq Phases /\ requests' \in 0..MaxRequests
    BY <1>4, PhaseIsPhase DEF PowerLoss, Interrupted
  <2>2. losses' \in 0..MaxLoss
    BY <1>4 DEF PowerLoss
  <2> QED
    BY <2>1, <2>2
<1> QED
  BY <1>1, <1>2, <1>3, <1>4, UpdateHistory
     DEF Next, vars, Fail, HardReboot, Shutdown, KillAll, Interrupted

\* The card, the backup and the lines in memory keep their types.
LEMMA CardStep == TypeOK /\ [Next]_vars => CardOK'
<1> SUFFICES ASSUME TypeOK, [Next]_vars PROVE CardOK'
  OBVIOUS
<1> USE ConstantsOK DEF CardOK, Card, Lines, Backup
<1>1. CardOK
  BY DEF TypeOK
<1>2. ASSUME NEW v \in Version, Request(v) PROVE CardOK'
  BY <1>1, <1>2 DEF Request, Goto, Running
<1>3. CASE Update
  <2> USE <1>1 DEF Writes, Goto, Running
  <2>1. CASE StopNetwatch \/ CallReboot \/ MountBoot
    BY <2>1 DEF StopNetwatch, CallReboot, MountBoot
  <2>2. CASE CleanDownloadDir \/ FetchImage \/ ExtractRoot \/ RootExtracted
    BY <2>2 DEF CleanDownloadDir, FetchImage, ExtractRoot, RootExtracted
  <2>3. CASE BackupConfig
    BY <2>3 DEF BackupConfig
  <2>4. CASE UmountBoot \/ InstallBoot \/ BootInstalled
    BY <2>4 DEF UmountBoot, InstallBoot, BootInstalled
  <2>5. CASE RestoreConfig
    <3>1. backup \in Backup
      BY <2>5 DEF RestoreConfig
    <3> QED
      BY <2>5, <3>1 DEF RestoreConfig
  <2>6. CASE ReadConfig \/ TruncateConfig \/ WriteConfig
    BY <2>6 DEF ReadConfig, TruncateConfig, WriteConfig
  <2> QED
    BY <1>3, <2>1, <2>2, <2>3, <2>4, <2>5, <2>6 DEF Update
<1>4. CASE Fail
  <2>1. cache' \in Card
    <3>1. cache' \in {cache, [cache EXCEPT !.conf = "cut", !.armed = FALSE]}
      BY <1>4 DEF Fail
    <3> QED
      BY <1>1, <3>1
  <2>2. backup' \in Backup \cup {Absent}
    <3>1. UNCHANGED backup \/ backup' = [conf |-> "cut", armed |-> FALSE]
      BY <1>4 DEF Fail
    <3>2. [conf |-> "cut", armed |-> FALSE] \in Backup
      OBVIOUS
    <3> QED
      BY <1>1, <3>1, <3>2 DEF CardOK
  <2>3. UNCHANGED <<ver, lines, mode>> /\ pc' = "idle" /\ mode = "system"
    BY <1>4 DEF Fail
  <2>4. disk' \in Card
    BY <1>1, <1>4 DEF Fail
  <2> QED
    BY <1>1, <2>1, <2>2, <2>3, <2>4
<1>5. CASE HardReboot \/ PowerLoss
  BY <1>1, <1>5 DEF HardReboot, PowerLoss, Reset
<1>6. CASE Shutdown
  BY <1>1, <1>6 DEF Shutdown, KillAll, UnmountAll, Reset
<1>7. CASE Fwupdater
  <2> USE <1>1 DEF Flashes, Flash
  <2>1. CASE CheckImage \/ CopyRoot \/ SyncRoot \/ RemoveImage
    BY <2>1 DEF CheckImage, CopyRoot, SyncRoot, RemoveImage
  <2>2. CASE RootCopied
    BY <2>2 DEF RootCopied
  <2>3. CASE Disarm \/ SyncAgain
    BY <2>3 DEF Disarm, SyncAgain
  <2>4. CASE ResetAfterFlash
    BY <2>4 DEF ResetAfterFlash, Reset
  <2> QED
    BY <1>7, <2>1, <2>2, <2>3, <2>4 DEF Fwupdater
<1>8. CASE WriteBack
  <2>1. disk' \in Card
    <3>1. CASE FlushBoot
      BY <1>1, <3>1 DEF FlushBoot
    <3>2. CASE FlushRoot
      BY <1>1, <3>2 DEF FlushRoot
    <3>3. CASE FlushImg
      BY <1>1, <3>3 DEF FlushImg
    <3>4. CASE FlushConf
      BY <1>1, <3>4 DEF FlushConf
    <3> QED
      BY <1>8, <3>1, <3>2, <3>3, <3>4 DEF WriteBack
  <2> QED
    BY <1>1, <1>8, <2>1 DEF WriteBack, volatile
<1>9. CASE UNCHANGED <<disk, cache, ver, backup, lines>>
           /\ (UNCHANGED <<mode, pc>> \/ mode = "off")
           /\ (mode' = "fwupdater" => pc' \notin {"copy", "copying"})
           /\ (mode' = "system" => pc' = pc)
  BY <1>1, <1>9 DEF TypeOK, ControlOK
<1> QED
  BY <1>2, <1>3, <1>4, <1>5, <1>6, <1>7, <1>8, <1>9
     DEF Next, vars, volatile, SetWatchConf, StartShutdown,
         Boot, BootFwupdater, BootSystem, BootFails, TypeOK, ControlOK

\* The control variables keep their types, and the program counter belongs to
\* the program that runs.
LEMMA ControlStep == TypeOK /\ [Next]_vars => ControlOK'
<1> SUFFICES ASSUME TypeOK, [Next]_vars PROVE ControlOK'
  OBVIOUS
<1> USE ConstantsOK DEF ControlOK, Watchers, UpdateSteps, PrepareSteps,
                        SwitchSteps, FlashSteps
<1>1. ControlOK
  BY DEF TypeOK
<1>2. ASSUME NEW v \in Version, Request(v) PROVE ControlOK'
  BY <1>1, <1>2 DEF Request, Goto, Running
<1>3. CASE Update
  <2> USE <1>1 DEF Writes, Goto, Running
  <2>1. CASE StopNetwatch \/ CallReboot
    BY <2>1 DEF StopNetwatch, CallReboot
  <2>2. CASE CleanDownloadDir \/ FetchImage \/ ExtractRoot \/ RootExtracted
    BY <2>2 DEF CleanDownloadDir, FetchImage, ExtractRoot, RootExtracted
  <2>3. CASE BackupConfig \/ UmountBoot \/ InstallBoot
    BY <2>3 DEF BackupConfig, UmountBoot, InstallBoot
  <2>4. CASE BootInstalled \/ MountBoot \/ RestoreConfig
    BY <2>4 DEF BootInstalled, MountBoot, RestoreConfig
  <2>5. CASE ReadConfig \/ TruncateConfig \/ WriteConfig
    BY <2>5 DEF ReadConfig, TruncateConfig, WriteConfig
  <2> QED
    BY <1>3, <2>1, <2>2, <2>3, <2>4, <2>5 DEF Update
<1>4. CASE Fail
  BY <1>1, <1>4 DEF Fail
<1>5. CASE HardReboot \/ PowerLoss
  BY <1>1, <1>5 DEF HardReboot, PowerLoss, Reset
<1>6. ASSUME NEW who \in Rebooter, StartShutdown(who) PROVE ControlOK'
  BY <1>1, <1>6 DEF StartShutdown
<1>7. CASE Shutdown
  BY <1>1, <1>7 DEF Shutdown, KillAll, UnmountAll, Reset
<1>8. CASE Boot
  BY <1>1, <1>8 DEF Boot, BootFwupdater, BootSystem, BootFails, volatile
<1>9. CASE Fwupdater
  BY <1>1, <1>9 DEF Fwupdater, Flashes, Flash, CheckImage, CopyRoot, RootCopied,
                   SyncRoot, RemoveImage, Disarm, SyncAgain, ResetAfterFlash, Reset
<1>10. CASE SetWatchConf
  BY <1>1, <1>10 DEF SetWatchConf, volatile, Running
<1>11. CASE WriteBack \/ UNCHANGED vars
  BY <1>1, <1>11 DEF WriteBack, vars, volatile
<1> QED
  BY <1>2, <1>3, <1>4, <1>5, <1>6, <1>7, <1>8, <1>9, <1>10, <1>11 DEF Next

\* The variables of FirmwareUpdate keep their types.
THEOREM TypeCorrect == Spec => []TypeOK
<1>1. Init => TypeOK
  <2> SUFFICES ASSUME Init PROVE TypeOK
    OBVIOUS
  <2> USE ConstantsOK DEF Init
  <2>1. CardOK
    BY DEF CardOK, Card, Lines, Backup
  <2>2. ControlOK
    BY DEF ControlOK, Watchers
  <2>3. HistoryOK
    BY DEF HistoryOK
  <2> QED
    BY <2>1, <2>2, <2>3 DEF TypeOK
<1>2. TypeOK /\ [Next]_vars => TypeOK'
  BY CardStep, ControlStep, HistoryStep DEF TypeOK
<1> QED
  BY <1>1, <1>2, PTL DEF Spec

-----------------------------------------------------------------------------

\* The root partition changes only while the fwupdater script runs.
LEMMA RootStableStep == TypeOK /\ RootStable /\ [Next]_vars => RootStable'
<1> SUFFICES ASSUME TypeOK, RootStable, [Next]_vars PROVE RootStable'
  OBVIOUS
<1> USE ConstantsOK DEF RootStable, TypeOK, ControlOK
<1>0. cache \in Card /\ disk \in Card
  BY DEF CardOK
<1>1. CASE UNCHANGED <<mode, disk, cache>>
  BY <1>1
<1>2. CASE HardReboot \/ PowerLoss
  BY <1>2 DEF HardReboot, PowerLoss, Reset
<1>3. CASE Shutdown
  BY <1>3 DEF Shutdown, KillAll, UnmountAll, Reset
<1>4. CASE Boot
  BY <1>0, <1>4 DEF Boot, BootFwupdater, BootSystem, BootFails, Card
<1>5. CASE Update
  BY <1>0, <1>5 DEF Update, StopNetwatch, CleanDownloadDir, FetchImage, ExtractRoot,
         RootExtracted, BackupConfig, UmountBoot, InstallBoot, BootInstalled,
         MountBoot, RestoreConfig, ReadConfig, TruncateConfig, WriteConfig,
         CallReboot, Writes, Goto, Running, Card
<1>6. CASE Fail
  BY <1>0, <1>6 DEF Fail, Card
<1>7. CASE WriteBack
  BY <1>0, <1>7 DEF WriteBack, FlushBoot, FlushRoot, FlushImg, FlushConf, Card
<1>8. CASE mode = "fwupdater" /\ mode' = "fwupdater"
  BY <1>8
<1>9. CASE ResetAfterFlash
  BY <1>9 DEF ResetAfterFlash, Reset
<1> QED
  BY <1>1, <1>2, <1>3, <1>4, <1>5, <1>6, <1>7, <1>8, <1>9
     DEF Next, vars, volatile, Request, SetWatchConf, StartShutdown, Fwupdater,
         Flashes, Flash, CheckImage, CopyRoot, RootCopied, SyncRoot, RemoveImage,
         Disarm, SyncAgain

\* An interruption that leaves the device unhurt is not in a risky phase.
LEMMA Spared ==
    ASSUME Interrupted, Unhurt'
    PROVE  Unhurt /\ Phase \notin Risky
BY DEF Interrupted, Unhurt, Risky

\* The history of interruptions only grows.
LEMMA StaysUnhurt ==
    ASSUME UNCHANGED hurt, Unhurt'
    PROVE  Unhurt
BY DEF Unhurt

CardInv == Unhurt => SystemInv /\ OffInv /\ FlashInv

\* perform_update keeps the card in the shape the script of fwupdater.gz needs.
LEMMA UpdateKeepsInv ==
    ASSUME TypeOK, IInv, TypeOK', Update PROVE CardInv'
<1> SUFFICES ASSUME Unhurt' PROVE SystemInv'
  <2>1. mode' = "system"
    BY DEF Update, StopNetwatch, CleanDownloadDir, FetchImage, ExtractRoot,
         RootExtracted, BackupConfig, UmountBoot, InstallBoot, BootInstalled,
         MountBoot, RestoreConfig, ReadConfig, TruncateConfig, WriteConfig,
         CallReboot, Writes, Goto, Running
  <2> QED
    BY <2>1 DEF CardInv, OffInv, FlashInv
<1>1. Unhurt
  BY UpdateHistory, StaysUnhurt
<1>2. SystemInv /\ RootStable
  BY <1>1 DEF IInv
<1>3. disk \in Card /\ cache \in Card /\ ver \in Version
  BY DEF TypeOK, CardOK
<1> USE <1>2, <1>3 DEF SystemInv, RootStable, Card, PrepareSteps, SwitchSteps,
                       Writes, Goto, Running
<1>4. CASE StopNetwatch \/ CallReboot \/ MountBoot \/ ReadConfig \/ BackupConfig
  BY <1>4 DEF StopNetwatch, CallReboot, MountBoot, ReadConfig, BackupConfig
<1>5. CASE CleanDownloadDir \/ FetchImage \/ ExtractRoot \/ RootExtracted
  BY <1>5 DEF CleanDownloadDir, FetchImage, ExtractRoot, RootExtracted
<1>6. CASE UmountBoot \/ InstallBoot
  BY <1>6 DEF UmountBoot, InstallBoot
<1>7. CASE BootInstalled
  BY <1>7 DEF BootInstalled
<1>8. CASE RestoreConfig \/ TruncateConfig \/ WriteConfig
  BY <1>8 DEF RestoreConfig, TruncateConfig, WriteConfig
<1> QED
  BY <1>4, <1>5, <1>6, <1>7, <1>8 DEF Update

\* So does whatever interrupts it.
LEMMA InterruptKeepsInv ==
    ASSUME TypeOK, IInv, Fail \/ HardReboot \/ PowerLoss \/ Shutdown
    PROVE  CardInv'
<1> SUFFICES ASSUME Unhurt' PROVE SystemInv' /\ OffInv' /\ FlashInv'
  BY DEF CardInv
<1> USE DEF TypeOK, ControlOK
<1>1. Unhurt
  BY Spared, StaysUnhurt, UpdateHistory
     DEF Fail, HardReboot, PowerLoss, Shutdown, KillAll
<1>2. SystemInv /\ OffInv /\ FlashInv /\ RootStable
  BY <1>1 DEF IInv
<1>3. disk \in Card /\ cache \in Card
  BY DEF CardOK
<1>4. CASE Fail
  <2>1. Phase \notin Risky /\ mode = "system"
    BY <1>4, Spared DEF Fail
  <2>2. ~cache.armed /\ ~disk.armed /\ pc \in PrepareSteps /\ pc # "restore"
    BY <1>4, <2>1, ConstantsOK, <1>3
       DEF Fail, Phase, Risky, UpdateSteps, PrepareSteps, SwitchSteps, Card
  <2>3. UNCHANGED <<cache, disk, mode>> /\ pc' = "idle"
    BY <1>4, <2>2 DEF Fail
  <2>4. pc # "installing"
    BY <2>2 DEF PrepareSteps
  <2> QED
    BY <1>2, <2>1, <2>2, <2>3, <2>4
       DEF SystemInv, OffInv, FlashInv, PrepareSteps, SwitchSteps
<1>5. CASE HardReboot
  <2>1. Phase \notin Risky /\ mode = "system" /\ pc = "reboot"
    BY <1>5, Spared DEF HardReboot, Running
  <2> QED
    BY <1>2, <2>1 DEF SystemInv, Phase, Risky
<1>6. CASE PowerLoss
  <2> USE <1>2, <1>3 DEF Card
  <2>1. /\ Phase \notin Risky /\ UNCHANGED disk
        /\ mode' = "off" /\ mode \in {"system", "fwupdater"}
    BY <1>6, Spared DEF PowerLoss, Reset
  <2>2. CASE mode = "system"
    <3>1. /\ ~cache.armed /\ ~disk.armed
          /\ pc \in {"idle", "reboot"} \cup PrepareSteps /\ pc # "installing"
      BY <2>1, <2>2 DEF Phase, Risky, UpdateSteps, PrepareSteps, SwitchSteps
    <3>2. pc # "reboot"
      BY <2>2, <3>1 DEF SystemInv
    <3>3. disk.boot \in Version /\ disk.root = disk.boot
      BY <2>2, <3>1, <3>2 DEF SystemInv, RootStable, PrepareSteps
    <3> QED
      BY <2>1, <3>1, <3>3 DEF SystemInv, OffInv, FlashInv
  <2>3. CASE mode = "fwupdater"
    BY <2>1, <2>3 DEF SystemInv, OffInv, FlashInv, FlashSteps
  <2> QED
    BY <2>1, <2>2, <2>3
<1>7. CASE KillAll
  <2>1. mode = "system" /\ UNCHANGED <<cache, disk, mode>> /\ pc' = "idle"
    BY <1>7 DEF KillAll
  <2>2. CASE pc \in {"idle", "reboot"}
    BY <1>2, <1>3, <2>1, <2>2
       DEF SystemInv, OffInv, FlashInv, PrepareSteps, SwitchSteps, Card
  <2>3. CASE pc \notin {"idle", "reboot"}
    <3>1. Phase \notin Risky
      BY <1>7, <2>3, Spared DEF KillAll
    <3>2. ~cache.armed /\ ~disk.armed /\ pc \in PrepareSteps /\ pc # "installing"
      BY <1>3, <2>1, <2>3, <3>1
         DEF Phase, Risky, UpdateSteps, PrepareSteps, SwitchSteps, Card
    <3> QED
      BY <1>2, <2>1, <3>2 DEF SystemInv, OffInv, FlashInv, PrepareSteps, SwitchSteps
  <2> QED
    BY <2>2, <2>3
<1>8. CASE UnmountAll
  BY <1>2, <1>3, <1>8
     DEF UnmountAll, Reset, SystemInv, OffInv, FlashInv, RootStable, Card
<1> QED
  BY <1>4, <1>5, <1>6, <1>7, <1>8 DEF Shutdown

\* The boot picks the program that fits the card.
LEMMA BootKeepsInv ==
    ASSUME TypeOK, IInv, Boot PROVE CardInv'
<1> SUFFICES ASSUME Unhurt' PROVE SystemInv' /\ OffInv' /\ FlashInv'
  BY DEF CardInv
<1>1. Unhurt
  BY UpdateHistory, StaysUnhurt
<1>2. SystemInv /\ OffInv /\ FlashInv /\ RootStable
  BY <1>1 DEF IInv
<1>3. disk \in Card /\ cache \in Card /\ mode = "off" /\ pc = "idle"
  BY DEF TypeOK, CardOK, ControlOK, Boot, BootFwupdater, BootSystem, BootFails
<1> USE <1>2, <1>3 DEF SystemInv, OffInv, FlashInv, RootStable, Card
<1>4. CASE BootFwupdater
  BY <1>4 DEF BootFwupdater
<1>5. CASE BootSystem
  BY <1>5 DEF BootSystem, PrepareSteps, SwitchSteps
<1>6. CASE BootFails
  BY <1>6 DEF BootFails
<1> QED
  BY <1>4, <1>5, <1>6 DEF Boot

\* The script of fwupdater.gz may be started over at each of its steps.
LEMMA FwupdaterKeepsInv ==
    ASSUME TypeOK, IInv, Fwupdater PROVE CardInv'
<1> SUFFICES ASSUME Unhurt' PROVE SystemInv' /\ OffInv' /\ FlashInv'
  BY DEF CardInv
<1>1. Unhurt
  BY UpdateHistory, StaysUnhurt
<1>2. FlashInv
  BY <1>1 DEF IInv
<1>3. disk \in Card /\ cache \in Card
  BY DEF TypeOK, CardOK
<1> USE <1>2, <1>3, ConstantsOK DEF SystemInv, OffInv, FlashInv, Card, Flashes, Flash
<1>4. CASE CheckImage \/ CopyRoot \/ RootCopied
  BY <1>4 DEF CheckImage, CopyRoot, RootCopied
<1>5. CASE SyncRoot \/ RemoveImage
  BY <1>5 DEF SyncRoot, RemoveImage
<1>6. CASE Disarm \/ SyncAgain
  BY <1>6 DEF Disarm, SyncAgain
<1>7. CASE ResetAfterFlash
  BY <1>7 DEF ResetAfterFlash, Reset
<1> QED
  BY <1>4, <1>5, <1>6, <1>7 DEF Fwupdater

\* Whatever the kernel writes back, the card stays fit to boot from.
LEMMA WriteBackKeepsInv ==
    ASSUME TypeOK, IInv, WriteBack PROVE CardInv'
<1> SUFFICES ASSUME Unhurt' PROVE SystemInv' /\ OffInv' /\ FlashInv'
  BY DEF CardInv
<1>1. Unhurt
  BY UpdateHistory, StaysUnhurt
<1>2. SystemInv /\ OffInv /\ FlashInv
  BY <1>1 DEF IInv
<1>3. disk \in Card /\ cache \in Card
  BY DEF TypeOK, CardOK
<1>4. UNCHANGED <<cache, mode, pc, ver>> /\ mode \in {"system", "fwupdater"}
  BY DEF WriteBack, volatile
<1> USE <1>2, <1>3, <1>4, ConstantsOK DEF Card
<1>5. CASE FlushBoot
  BY <1>5 DEF FlushBoot, SystemInv, OffInv, FlashInv
<1>6. CASE FlushRoot
  BY <1>6 DEF FlushRoot, SystemInv, OffInv, FlashInv
<1>7. CASE FlushImg
  BY <1>7 DEF FlushImg, SystemInv, OffInv, FlashInv
<1>8. CASE FlushConf
  BY <1>8 DEF FlushConf, SystemInv, OffInv, FlashInv, PrepareSteps
<1> QED
  BY <1>5, <1>6, <1>7, <1>8 DEF WriteBack

\* The other steps touch neither the card nor perform_update.
LEMMA OtherStepsKeepInv ==
    ASSUME TypeOK, IInv,
           \/ \E v \in Version : Request(v)
           \/ SetWatchConf
           \/ \E who \in Rebooter : StartShutdown(who)
           \/ UNCHANGED vars
    PROVE  CardInv'
<1> SUFFICES ASSUME Unhurt' PROVE SystemInv' /\ OffInv' /\ FlashInv'
  BY DEF CardInv
<1>1. UNCHANGED <<disk, cache, mode, hurt>>
  BY DEF Request, SetWatchConf, StartShutdown, vars
<1>2. SystemInv /\ OffInv /\ FlashInv
  BY <1>1, StaysUnhurt DEF IInv
<1>3. CASE UNCHANGED <<pc, ver>>
  BY <1>1, <1>2, <1>3 DEF SystemInv, OffInv, FlashInv
<1>4. CASE \E v \in Version : Request(v)
  <2>1. mode = "system" /\ pc = "idle" /\ pc' = "netwatch"
    BY <1>4 DEF Request, Goto, Running
  <2> QED
    BY <1>1, <1>2, <2>1
       DEF SystemInv, OffInv, FlashInv, PrepareSteps, SwitchSteps
<1> QED
  BY <1>3, <1>4 DEF SetWatchConf, StartShutdown, vars, volatile

\* The invariant that carries the safety of the update.
THEOREM InductiveInvariant == Spec => []IInv
<1>1. Init /\ TypeOK => IInv
  BY ConstantsOK DEF Init, IInv, RootStable, SystemInv, OffInv, FlashInv
<1>2. TypeOK /\ TypeOK' /\ IInv /\ [Next]_vars => IInv'
  <2> SUFFICES ASSUME TypeOK, TypeOK', IInv, [Next]_vars PROVE IInv'
    OBVIOUS
  <2>1. RootStable'
    BY RootStableStep DEF IInv
  <2>2. CardInv'
    BY UpdateKeepsInv, InterruptKeepsInv, BootKeepsInv, FwupdaterKeepsInv,
       WriteBackKeepsInv, OtherStepsKeepInv DEF Next
  <2> QED
    BY <2>1, <2>2 DEF IInv, CardInv
<1> QED
  BY <1>1, <1>2, TypeCorrect, PTL DEF Spec

\* Kernel and root file system are of one release whenever no update is under
\* way or armed and no risky phase was interrupted.
THEOREM OneReleaseHolds == Spec => []OneRelease
<1>1. TypeOK /\ IInv => OneRelease
  <2> SUFFICES ASSUME TypeOK, IInv, Unhurt, mode = "system", ~cache.armed,
                      pc \notin SwitchSteps \cup {"installing", "reboot"}
               PROVE  cache.boot = cache.root
    BY DEF OneRelease
  <2> QED
    BY DEF IInv, SystemInv, TypeOK, ControlOK, UpdateSteps
<1> QED
  BY <1>1, TypeCorrect, InductiveInvariant, PTL

\* A half-written root partition is flashed again, from a complete image.
THEOREM TornRootIsReflashedHolds == Spec => []TornRootIsReflashed
<1>1. TypeOK /\ IInv => TornRootIsReflashed
  <2> SUFFICES ASSUME TypeOK, IInv, Unhurt, disk.root = Torn
               PROVE  disk.armed /\ disk.img = disk.boot
    BY DEF TornRootIsReflashed
  <2> QED
    BY ConstantsOK DEF IInv, RootStable, OffInv, FlashInv, TypeOK, ControlOK, FlashSteps
<1> QED
  BY <1>1, TypeCorrect, InductiveInvariant, PTL

\* The fwupdater script always finds the image of the release on /boot, or has
\* already installed it.
THEOREM ArmedMeansFlashableHolds == Spec => []ArmedMeansFlashable
<1>1. TypeOK /\ IInv => ArmedMeansFlashable
  BY DEF ArmedMeansFlashable, IInv, OffInv, FlashInv, TypeOK, ControlOK, FlashSteps
<1> QED
  BY <1>1, TypeCorrect, InductiveInvariant, PTL

-----------------------------------------------------------------------------
(* What an interruption that does not brick the device leaves.             *)

Sound == hurt \cap {"install", "armed"} = {}

\* perform_update's view of the card, when the boot partition may be newer than
\* the root partition.
SystemSound ==
    mode = "system" =>
    /\ pc # "installing" => cache.boot = disk.boot /\ cache.boot \in Version
    /\ pc \in {"idle", "netwatch", "clean", "reboot"} /\ cache.armed
          => cache.img \in Version
    /\ pc \in {"idle"} \cup PrepareSteps /\ ~cache.armed => ~disk.armed
    /\ pc \in {"backup", "umount", "install", "installing"} \cup SwitchSteps
          => cache.img = ver
    /\ pc = "reboot" => cache.armed

\* A card that the next boot can boot from.
OffSound ==
    mode \in {"off", "dead"} =>
    /\ mode = "off"
    /\ disk.boot \in Version
    /\ ~disk.armed => disk.root \in Version
    /\ disk.armed => \/ disk.img \in Version
                     \/ disk.img = Absent /\ disk.root \in Version

FlashSound ==
    mode = "fwupdater" =>
    /\ disk.boot \in Version /\ cache.boot = disk.boot
    /\ pc \notin {"sync again", "reset"}
          => disk.armed /\ cache.armed /\ cache.conf = disk.conf
    /\ pc \in {"sync again", "reset"} => ~cache.armed
    /\ pc \in {"copy", "copying", "sync", "remove"}
          => cache.img \in Version /\ disk.img = cache.img
    /\ pc = "check" => /\ cache.img = disk.img /\ cache.root = disk.root
                       /\ \/ disk.img \in Version
                          \/ disk.img = Absent /\ disk.root \in Version
    /\ pc = "sync" => cache.root \in Version
    /\ pc \in {"remove", "disarm", "sync again", "reset"}
          => cache.root \in Version /\ disk.root = cache.root
    /\ pc \in {"disarm", "sync again", "reset"}
          => cache.img = Absent /\ disk.img \in Version \cup {Absent}

SoundInv == Sound => SystemSound /\ OffSound /\ FlashSound

\* Where the lines of the user are.
SystemConfig ==
    mode = "system" =>
    /\ pc \in {"umount", "install", "installing", "mount", "restore"}
          => backup.conf = "user"
    /\ pc \notin {"mount", "restore", "write"} => cache.conf = "user"
    /\ pc \in {"truncate", "write"} => lines = "user"
    /\ pc \in {"idle"} \cup PrepareSteps /\ ~cache.armed
          => ~disk.armed /\ disk.conf = "user"
    /\ pc = "reboot" => cache.armed

RestConfig ==
    /\ mode # "system" => cache.conf = "user"
    /\ mode = "fwupdater" /\ pc \in {"sync again", "reset"} => ~cache.armed
    /\ mode = "fwupdater" /\ pc = "reset" => disk.conf = "user" /\ ~disk.armed

ConfigInv == hurt \cap (Risky \cup {"flash"}) = {} => SystemConfig /\ RestConfig

\* Neither set of interruptions shrinks.
LEMMA HurtGrows == [Next]_vars => hurt \subseteq hurt'
BY UpdateHistory DEF Next, vars, Request, Fail, HardReboot, Shutdown, KillAll, PowerLoss, Interrupted

\* What is interrupted outside the risky phases leaves a card to boot from.
LEMMA SoundStep ==
    TypeOK /\ TypeOK' /\ RootStable /\ SoundInv /\ [Next]_vars => SoundInv'
<1> SUFFICES ASSUME TypeOK, TypeOK', RootStable, SoundInv, [Next]_vars, Sound'
             PROVE  SystemSound' /\ OffSound' /\ FlashSound'
  BY DEF SoundInv
<1>0. SystemSound /\ OffSound /\ FlashSound
  BY HurtGrows DEF Sound, SoundInv
<1>1. disk \in Card /\ cache \in Card /\ ver \in Version /\ ControlOK
  BY DEF TypeOK, CardOK
<1> USE <1>0, <1>1, ConstantsOK DEF RootStable, Card, ControlOK
<1>2. CASE Update
  <2>1. mode = "system" /\ mode' = "system"
    BY <1>2 DEF Update, StopNetwatch, CleanDownloadDir, FetchImage, ExtractRoot,
         RootExtracted, BackupConfig, UmountBoot, InstallBoot, BootInstalled,
         MountBoot, RestoreConfig, ReadConfig, TruncateConfig, WriteConfig,
         CallReboot, Writes, Goto, Running
  <2> USE <2>1 DEF SystemSound, PrepareSteps, SwitchSteps, Writes, Goto, Running
  <2>2. SystemSound'
    <3>1. CASE StopNetwatch \/ CallReboot \/ MountBoot \/ ReadConfig \/ BackupConfig
      BY <3>1 DEF StopNetwatch, CallReboot, MountBoot, ReadConfig, BackupConfig
    <3>2. CASE CleanDownloadDir \/ FetchImage \/ ExtractRoot \/ RootExtracted
      BY <3>2 DEF CleanDownloadDir, FetchImage, ExtractRoot, RootExtracted
    <3>3. CASE UmountBoot \/ InstallBoot \/ BootInstalled
      BY <3>3 DEF UmountBoot, InstallBoot, BootInstalled
    <3>4. CASE RestoreConfig
      BY <3>4 DEF RestoreConfig
    <3>5. CASE TruncateConfig
      BY <3>5 DEF TruncateConfig
    <3>6. CASE WriteConfig
      BY <3>6 DEF WriteConfig
    <3> QED
      BY <1>2, <3>1, <3>2, <3>3, <3>4, <3>5, <3>6 DEF Update
  <2> QED
    BY <2>2 DEF OffSound, FlashSound
<1>3. CASE Fail \/ HardReboot \/ PowerLoss
  <2>1. Phase \notin {"install", "armed"}
    BY <1>3 DEF Fail, HardReboot, PowerLoss, Interrupted, Sound
  <2>2. CASE Fail
    BY <2>1, <2>2 DEF Fail, Phase, SystemSound, OffSound, FlashSound, UpdateSteps,
                      PrepareSteps, SwitchSteps
  <2>3. CASE HardReboot
    BY <2>1, <2>3 DEF HardReboot, Phase, Running, SystemSound
  <2>4. CASE PowerLoss
    BY <2>1, <2>4 DEF PowerLoss, Reset, Phase, SystemSound, OffSound, FlashSound, FlashSteps
  <2> QED
    BY <1>3, <2>2, <2>3, <2>4
<1>4. CASE KillAll
  <2>1. pc \in {"idle", "reboot"} \/ Phase \notin {"install", "armed"}
    BY <1>4 DEF KillAll, Interrupted, Sound
  <2> QED
    BY <1>4, <2>1 DEF KillAll, Phase, SystemSound, OffSound, FlashSound, UpdateSteps,
                      PrepareSteps, SwitchSteps
<1>5. CASE UnmountAll
  BY <1>5 DEF UnmountAll, Reset, SystemSound, OffSound, FlashSound
<1>6. CASE Boot
  BY <1>6 DEF Boot, BootFwupdater, BootSystem, BootFails, Bootable, SystemSound, OffSound,
              FlashSound, PrepareSteps, SwitchSteps
<1>7. CASE Fwupdater
  <2> USE DEF OffSound, SystemSound, FlashSound, Flashes, Flash
  <2>1. CASE CheckImage \/ CopyRoot \/ RootCopied \/ SyncRoot
    BY <2>1 DEF CheckImage, CopyRoot, RootCopied, SyncRoot
  <2>2. CASE RemoveImage \/ Disarm \/ SyncAgain
    BY <2>2 DEF RemoveImage, Disarm, SyncAgain
  <2>3. CASE ResetAfterFlash
    BY <2>3 DEF ResetAfterFlash, Reset
  <2> QED
    BY <1>7, <2>1, <2>2, <2>3 DEF Fwupdater
<1>8. CASE WriteBack
  <2>1. UNCHANGED <<cache, mode, pc, ver>> /\ mode \in {"system", "fwupdater"}
    BY <1>8 DEF WriteBack, volatile
  <2> USE <2>1 DEF OffSound, SystemSound, FlashSound, PrepareSteps, FlashSteps
  <2>2. CASE FlushBoot
    BY <2>2 DEF FlushBoot
  <2>3. CASE FlushRoot
    BY <2>3 DEF FlushRoot
  <2>4. CASE FlushImg
    BY <2>4 DEF FlushImg
  <2>5. CASE FlushConf
    BY <2>5 DEF FlushConf
  <2> QED
    BY <1>8, <2>2, <2>3, <2>4, <2>5 DEF WriteBack
<1>9. CASE \E v \in Version : Request(v)
  BY <1>9 DEF Request, Goto, Running, SystemSound, OffSound, FlashSound, PrepareSteps, SwitchSteps
<1>10. CASE SetWatchConf \/ (\E who \in Rebooter : StartShutdown(who)) \/ UNCHANGED vars
  <2>1. UNCHANGED <<disk, cache, mode, pc, ver>>
    BY <1>10 DEF SetWatchConf, StartShutdown, vars, volatile
  <2> QED
    BY <2>1 DEF SystemSound, OffSound, FlashSound
<1> QED
  BY <1>2, <1>3, <1>4, <1>5, <1>6, <1>7, <1>8, <1>9, <1>10 DEF Next, Shutdown

\* Only an interruption of the dd to the boot partition, or between the arming
\* and the unmounting, stops the device from booting for good.
THEOREM BricksOnlyInWindowHolds == Spec => []BricksOnlyInWindow
<1>1. Init => SoundInv
  BY ConstantsOK DEF Init, SoundInv, SystemSound, OffSound, FlashSound
<1>2. SoundInv => BricksOnlyInWindow
  BY DEF SoundInv, Sound, OffSound, BricksOnlyInWindow
<1>3. IInv => RootStable
  BY DEF IInv
<1> QED
  BY <1>1, <1>2, <1>3, SoundStep, TypeCorrect, InductiveInvariant, PTL DEF Spec

\* The lines of the user are somewhere, whatever fails before the dd to /boot.
LEMMA ConfigStep == TypeOK /\ TypeOK' /\ RootStable /\ ConfigInv /\ [Next]_vars => ConfigInv'
<1> SUFFICES ASSUME TypeOK, TypeOK', RootStable, ConfigInv, [Next]_vars,
                    hurt' \cap (Risky \cup {"flash"}) = {}
             PROVE  SystemConfig' /\ RestConfig'
  BY DEF ConfigInv
<1>0. SystemConfig /\ RestConfig
  BY HurtGrows DEF ConfigInv
<1>1. disk \in Card /\ cache \in Card /\ ControlOK
  BY DEF TypeOK, CardOK
<1> USE <1>0, <1>1, ConstantsOK DEF RootStable, Card, ControlOK
<1>2. CASE Update
  <2>1. mode = "system" /\ mode' = "system"
    BY <1>2 DEF Update, StopNetwatch, CleanDownloadDir, FetchImage, ExtractRoot,
         RootExtracted, BackupConfig, UmountBoot, InstallBoot, BootInstalled,
         MountBoot, RestoreConfig, ReadConfig, TruncateConfig, WriteConfig,
         CallReboot, Writes, Goto, Running
  <2> USE <2>1 DEF SystemConfig, PrepareSteps, Writes, Goto, Running
  <2>2. SystemConfig'
    <3>1. CASE StopNetwatch \/ CallReboot \/ MountBoot \/ ReadConfig \/ BackupConfig
      BY <3>1 DEF StopNetwatch, CallReboot, MountBoot, ReadConfig, BackupConfig
    <3>2. CASE CleanDownloadDir \/ FetchImage \/ ExtractRoot \/ RootExtracted
      BY <3>2 DEF CleanDownloadDir, FetchImage, ExtractRoot, RootExtracted
    <3>3. CASE UmountBoot \/ InstallBoot
      BY <3>3 DEF UmountBoot, InstallBoot
    <3>4. CASE BootInstalled
      BY <3>4 DEF BootInstalled
    <3>5. CASE RestoreConfig
      BY <3>5 DEF RestoreConfig
    <3>6. CASE TruncateConfig
      BY <3>6 DEF TruncateConfig
    <3>7. CASE WriteConfig
      BY <3>7 DEF WriteConfig
    <3> QED
      BY <1>2, <3>1, <3>2, <3>3, <3>4, <3>5, <3>6, <3>7 DEF Update
  <2> QED
    BY <2>2 DEF RestConfig
<1>3. CASE Fail \/ HardReboot \/ PowerLoss
  <2>1. Phase \in {"idle", "prepare"}
    BY <1>3, PhaseIsPhase DEF Phases, Risky, Fail, HardReboot, PowerLoss, Interrupted
  <2>2. /\ mode # "fwupdater" /\ ~cache.armed /\ ~disk.armed
        /\ pc # "installing" /\ pc \notin SwitchSteps
    BY <2>1 DEF Phase
  <2>3. CASE Fail
    BY <2>2, <2>3 DEF Fail, SystemConfig, RestConfig, UpdateSteps, PrepareSteps, SwitchSteps
  <2>4. CASE HardReboot
    BY <2>2, <2>4 DEF HardReboot, Running, SystemConfig
  <2>5. CASE PowerLoss
    BY <2>2, <2>5 DEF PowerLoss, Reset, SystemConfig, RestConfig, UpdateSteps, PrepareSteps
  <2> QED
    BY <1>3, <2>3, <2>4, <2>5
<1>4. CASE KillAll
  <2>1. pc \in {"idle", "reboot"} \/ Phase \in {"idle", "prepare"}
    BY <1>4, PhaseIsPhase DEF Phases, Risky, KillAll, Interrupted
  <2>2. \/ pc \in {"idle", "reboot"}
        \/ pc \in PrepareSteps /\ ~cache.armed
    <3>1. mode = "system" /\ pc \in {"idle"} \cup UpdateSteps
      BY <1>4 DEF KillAll
    <3>2. ASSUME Phase \in {"idle", "prepare"}
          PROVE  ~cache.armed /\ pc # "installing" /\ pc \notin SwitchSteps
      BY <3>1, <3>2 DEF Phase
    <3>3. pc \in {"idle", "reboot", "installing"} \cup SwitchSteps \cup PrepareSteps
      BY <3>1 DEF UpdateSteps
    <3> QED
      BY <2>1, <3>2, <3>3
  <2> QED
    BY <1>4, <2>2 DEF KillAll, SystemConfig, RestConfig, PrepareSteps
<1>5. CASE UnmountAll
  BY <1>5 DEF UnmountAll, Reset, SystemConfig, RestConfig
<1>6. CASE Boot
  BY <1>6 DEF Boot, BootFwupdater, BootSystem, BootFails, SystemConfig, RestConfig, PrepareSteps
<1>7. CASE Fwupdater
  <2> USE DEF SystemConfig, RestConfig, Flashes, Flash
  <2>1. CASE CheckImage \/ CopyRoot \/ RootCopied \/ SyncRoot
    BY <2>1 DEF CheckImage, CopyRoot, RootCopied, SyncRoot
  <2>2. CASE RemoveImage \/ Disarm \/ SyncAgain
    BY <2>2 DEF RemoveImage, Disarm, SyncAgain
  <2>3. CASE ResetAfterFlash
    BY <2>3 DEF ResetAfterFlash, Reset
  <2> QED
    BY <1>7, <2>1, <2>2, <2>3 DEF Fwupdater
<1>8. CASE WriteBack
  <2>1. UNCHANGED <<cache, mode, pc, backup, lines>> /\ mode \in {"system", "fwupdater"}
    BY <1>8 DEF WriteBack, volatile
  <2> USE <2>1 DEF SystemConfig, RestConfig
  <2>2. CASE FlushBoot \/ FlushRoot \/ FlushImg
    BY <2>2 DEF FlushBoot, FlushRoot, FlushImg
  <2>3. CASE FlushConf
    BY <2>3 DEF FlushConf, PrepareSteps
  <2> QED
    BY <1>8, <2>2, <2>3 DEF WriteBack
<1>9. CASE \E v \in Version : Request(v)
  BY <1>9 DEF Request, Goto, Running, SystemConfig, RestConfig, PrepareSteps
<1>10. CASE SetWatchConf \/ (\E who \in Rebooter : StartShutdown(who)) \/ UNCHANGED vars
  <2>1. UNCHANGED <<disk, cache, mode, pc, backup, lines>>
    BY <1>10 DEF SetWatchConf, StartShutdown, vars, volatile
  <2> QED
    BY <2>1 DEF SystemConfig, RestConfig
<1> QED
  BY <1>2, <1>3, <1>4, <1>5, <1>6, <1>7, <1>8, <1>9, <1>10 DEF Next, Shutdown

\* The user's lines of config.txt outlive an update.
THEOREM UserConfigKeptHolds == Spec => []UserConfigKept
<1>1. Init => ConfigInv
  BY DEF Init, ConfigInv, SystemConfig, RestConfig
<1>2. ConfigInv => UserConfigKept
  BY DEF ConfigInv, SystemConfig, RestConfig, UserConfigKept
<1>3. IInv => RootStable
  BY DEF IInv
<1> QED
  BY <1>1, <1>2, <1>3, ConfigStep, TypeCorrect, InductiveInvariant, PTL DEF Spec

\* Which watch loops an update has stopped.
StoppedInv ==
    mode = "system" =>
    /\ pc \in UpdateSteps => "service" \notin watching
    /\ pc \in UpdateSteps \ {"netwatch"} => "net" \notin watching \/ ~netConf

\* They stay stopped until the shutdown kills the update.
LEMMA StoppedStep == TypeOK /\ StoppedInv /\ [Next]_vars => StoppedInv'
<1> SUFFICES ASSUME TypeOK, StoppedInv, [Next]_vars PROVE StoppedInv'
  OBVIOUS
<1> USE DEF StoppedInv, TypeOK, ControlOK
<1>1. CASE \E v \in Version : Request(v)
  BY <1>1 DEF Request, Goto, Running
<1>2. CASE StopNetwatch
  BY <1>2 DEF StopNetwatch, Goto, Running, UpdateSteps, PrepareSteps
<1>3. CASE Update /\ ~StopNetwatch
  <2>1. UNCHANGED <<mode, watching, netConf>> /\ mode = "system"
    BY <1>3 DEF Update, CleanDownloadDir, FetchImage, ExtractRoot, RootExtracted, BackupConfig,
       UmountBoot, InstallBoot, BootInstalled, MountBoot, RestoreConfig, ReadConfig,
       TruncateConfig, WriteConfig, CallReboot, Writes, Goto, Running
  <2>2. pc \in UpdateSteps \ {"netwatch"}
    BY <1>3 DEF Update, CleanDownloadDir, FetchImage, ExtractRoot, RootExtracted, BackupConfig,
       UmountBoot, InstallBoot, BootInstalled, MountBoot, RestoreConfig, ReadConfig,
       TruncateConfig, WriteConfig, CallReboot, Writes, Goto, Running, UpdateSteps,
       PrepareSteps, SwitchSteps
  <2> QED
    BY <2>1, <2>2
<1>4. CASE pc' = "idle" \/ mode' # "system"
  BY <1>4 DEF UpdateSteps, PrepareSteps, SwitchSteps
<1>5. CASE UNCHANGED <<mode, pc, watching, netConf>>
  BY <1>5
<1>6. CASE SetWatchConf
  BY <1>6 DEF SetWatchConf, Running, volatile, UpdateSteps, PrepareSteps, SwitchSteps
<1> QED
  BY <1>1, <1>2, <1>3, <1>4, <1>5, <1>6
     DEF Next, vars, volatile, Fail, HardReboot, Shutdown, KillAll, UnmountAll, Reset,
         StartShutdown, Boot, BootFwupdater, BootSystem, BootFails, PowerLoss, WriteBack,
         Fwupdater, CheckImage, CopyRoot, RootCopied, SyncRoot, RemoveImage, Disarm, SyncAgain,
         ResetAfterFlash, Flashes, Flash

\* A stopped watch loop does not reboot the device, unless its script did not
\* get as far as stopping it.
THEOREM StoppedWatchersStaySilentHolds == Spec => StoppedWatchersStaySilent
<1>1. Init => StoppedInv
  BY DEF Init, StoppedInv
<1>2. StoppedInv /\ [Next]_vars
      => [ /\ down = "no" /\ down' = "stopping" /\ by' \in {"service", "net"}
           /\ pc \in UpdateSteps \ {"netwatch"}
           => by' = "net" /\ ~netConf ]_vars
  <2> SUFFICES ASSUME StoppedInv, [Next]_vars, down = "no", down' = "stopping",
                      by' \in {"service", "net"}, pc \in UpdateSteps \ {"netwatch"}
               PROVE  by' = "net" /\ ~netConf
    OBVIOUS
  <2>1. PICK who \in Rebooter : StartShutdown(who)
    BY DEF Next, vars, volatile, Request, SetWatchConf, Fail, HardReboot, Shutdown, KillAll,
       UnmountAll, Reset, Boot, BootFwupdater, BootSystem, BootFails, PowerLoss, WriteBack,
       Fwupdater, CheckImage, CopyRoot, RootCopied, SyncRoot, RemoveImage, Disarm, SyncAgain,
       ResetAfterFlash, Flashes, Flash, Update, StopNetwatch, CleanDownloadDir, FetchImage,
       ExtractRoot, RootExtracted, BackupConfig, UmountBoot, InstallBoot, BootInstalled,
       MountBoot, RestoreConfig, ReadConfig, TruncateConfig, WriteConfig, CallReboot, Writes
  <2> QED
    BY <2>1 DEF StartShutdown, StoppedInv, Watchers
<1> QED
  BY <1>1, <1>2, StoppedStep, TypeCorrect, PTL DEF Spec, StoppedWatchersStaySilent

-----------------------------------------------------------------------------
(* FirmwareUpdate implements AtomicUpdate.                                 *)

\* What the next boot into the system runs, seen from fwupdater and from a
\* power loss in it: the release on /boot.
LEMMA FlashInstalls ==
    ASSUME TypeOK, IInv, Unhurt, mode = "fwupdater"
    PROVE  /\ InstalledRelease = disk.boot
           /\ disk.boot = IF disk.armed /\ disk.img \in Version
                          THEN disk.img ELSE disk.root
BY ConstantsOK DEF IInv, FlashInv, InstalledRelease, TypeOK, ControlOK, FlashSteps

\* perform_update commits to the requested release, or goes back to the
\* running one when it withdraws an armed update.
LEMMA UpdateCommits ==
    ASSUME TypeOK, IInv, Unhurt, Update
    PROVE  /\ UNCHANGED <<ver, RunningRelease>>
           /\ RunningRelease \in Version
           /\ InstalledRelease \in Version
           /\ InstalledRelease' \in {InstalledRelease, ver, RunningRelease}
<1>1. SystemInv /\ RootStable /\ disk \in Card /\ cache \in Card /\ ver \in Version
  BY DEF IInv, TypeOK, CardOK
<1>2. Unhurt'
  BY UpdateHistory DEF Unhurt
<1>3. /\ mode = "system" /\ mode' = "system" /\ UNCHANGED ver
      /\ cache'.root = cache.root
  BY <1>1 DEF Update, StopNetwatch, CleanDownloadDir, FetchImage, ExtractRoot,
         RootExtracted, BackupConfig, UmountBoot, InstallBoot, BootInstalled,
         MountBoot, RestoreConfig, ReadConfig, TruncateConfig, WriteConfig,
         CallReboot, Writes, Goto, Running, Card
<1>4. RunningRelease = cache.root /\ RunningRelease' = cache.root
  BY <1>3 DEF RunningRelease
<1>5. cache.root \in Version
  BY <1>1, <1>3 DEF RootStable
<1>6. InstalledRelease' \in {InstalledRelease, ver, cache.root}
  <2> USE <1>1, <1>2, <1>3, ConstantsOK
          DEF InstalledRelease, SystemInv, Card, Writes, Goto, Running, SwitchSteps
  <2>1. CASE UNCHANGED cache
    BY <2>1
  <2>2. CASE CleanDownloadDir \/ ExtractRoot \/ RootExtracted
    BY <2>2 DEF CleanDownloadDir, ExtractRoot, RootExtracted
  <2>3. CASE InstallBoot \/ BootInstalled
    BY <2>3 DEF InstallBoot, BootInstalled
  <2>4. CASE RestoreConfig \/ TruncateConfig \/ WriteConfig
    BY <2>4 DEF RestoreConfig, TruncateConfig, WriteConfig
  <2> QED
    BY <2>1, <2>2, <2>3, <2>4
       DEF Update, StopNetwatch, FetchImage, BackupConfig, UmountBoot, MountBoot,
           ReadConfig, CallReboot
<1> QED
  BY <1>3, <1>4, <1>5, <1>6 DEF InstalledRelease

\* A hurt device stays hurt.
LEMMA StaysHurt == [Next]_vars /\ Unhurt' => Unhurt
<1> SUFFICES ASSUME [Next]_vars, Unhurt' PROVE Unhurt
  OBVIOUS
<1>1. UNCHANGED hurt \/ Interrupted
  BY UpdateHistory
     DEF Next, vars, Request, Fail, HardReboot, PowerLoss, Shutdown, KillAll
<1> QED
  BY <1>1, Spared, StaysUnhurt

\* Every step that leaves the device unhurt is a step of AtomicUpdate.
LEMMA UnhurtStep ==
    ASSUME TypeOK, IInv, [Next]_vars, Unhurt, Unhurt'
    PROVE  [Atomic!Next]_<<ver, InstalledRelease, RunningRelease>>
<1> USE DEF Atomic!Next
<1>1. /\ SystemInv /\ OffInv /\ FlashInv /\ RootStable
      /\ disk \in Card /\ cache \in Card
  BY DEF IInv, TypeOK, CardOK
<1>2. CASE Update
  BY <1>2, UpdateCommits, ConstantsOK DEF Atomic!Commit
<1>3. ASSUME NEW v \in Version, Request(v)
      PROVE  Atomic!Ask(v)
  <2>1. /\ mode = "system" /\ ver' = v
        /\ UNCHANGED <<cache, mode, hurt>>
    BY <1>3 DEF Request, Goto, Running
  <2>2. UNCHANGED <<InstalledRelease, RunningRelease>>
    BY <2>1 DEF InstalledRelease, RunningRelease, Unhurt
  <2>3. RunningRelease # Absent
    BY <1>1, <2>1, ConstantsOK DEF RunningRelease, RootStable
  <2> QED
    BY <2>1, <2>2, <2>3 DEF Atomic!Ask
<1>4. CASE UNCHANGED <<cache, mode, ver>>
  BY <1>4 DEF InstalledRelease, RunningRelease
<1>5. CASE Fail
  <2>1. Phase \notin Risky
    BY <1>5, Spared DEF Fail
  <2>2. ~cache.armed /\ pc # "restore"
    BY <1>1, <1>5, <2>1, ConstantsOK
       DEF Fail, Phase, Risky, UpdateSteps, PrepareSteps, SwitchSteps, Card
  <2> QED
    BY <1>4, <1>5, <2>2 DEF Fail
<1>6. CASE HardReboot
  <2>1. Phase \notin Risky
    BY <1>6, Spared DEF HardReboot
  <2> QED
    BY <1>1, <1>6, <2>1 DEF HardReboot, Running, SystemInv, Phase, Risky
<1>7. CASE PowerLoss
  <2>1. /\ Phase \notin Risky /\ mode' = "off" /\ cache' = disk /\ UNCHANGED ver
        /\ mode \in {"system", "fwupdater"}
    BY <1>7, Spared DEF PowerLoss, Reset
  <2>2. InstalledRelease' = InstalledRelease
    <3>1. CASE mode = "fwupdater"
      BY <2>1, <3>1, FlashInstalls DEF InstalledRelease
    <3>2. CASE mode = "system"
      <4>1. ~cache.armed /\ ~disk.armed
        BY <1>1, <2>1, <3>2 DEF Phase, Risky, Card
      <4> QED
        BY <1>1, <2>1, <3>2, <4>1 DEF InstalledRelease, RootStable
    <3> QED
      BY <2>1, <3>1, <3>2
  <2>3. RunningRelease' = Absent
    BY <2>1 DEF RunningRelease
  <2> QED
    BY <2>1, <2>2, <2>3 DEF Atomic!Stop
<1>8. CASE UnmountAll
  <2>1. InstalledRelease' = InstalledRelease
    BY <1>1, <1>8 DEF UnmountAll, Reset, InstalledRelease, Unhurt
  <2>2. RunningRelease' = Absent /\ UNCHANGED ver
    BY <1>8 DEF UnmountAll, Reset, RunningRelease
  <2> QED
    BY <2>1, <2>2 DEF Atomic!Stop
<1>9. CASE Boot
  <2>1. UNCHANGED <<cache, ver>> /\ mode = "off"
    BY <1>9 DEF Boot, BootFwupdater, BootSystem, BootFails
  <2>2. InstalledRelease' = InstalledRelease /\ RunningRelease = Absent
    BY <2>1 DEF InstalledRelease, RunningRelease
  <2>3. CASE mode' # "system"
    BY <2>1, <2>2, <2>3 DEF RunningRelease
  <2>4. CASE mode' = "system"
    <3>1. ~cache.armed /\ cache.root # Torn
      BY <1>9, <2>4 DEF Boot, BootFwupdater, BootSystem, BootFails
    <3>2. InstalledRelease = cache.root /\ RunningRelease' = cache.root
      BY <2>1, <2>4, <3>1 DEF InstalledRelease, RunningRelease
    <3> QED
      BY <2>1, <2>2, <3>1, <3>2 DEF Atomic!Start
  <2> QED
    BY <2>3, <2>4
<1>10. CASE Fwupdater
  <2>1. InstalledRelease' = InstalledRelease
    <3>1. mode = "fwupdater" /\ UNCHANGED ver
      BY <1>10 DEF Fwupdater, CheckImage, CopyRoot, RootCopied, SyncRoot,
                  RemoveImage, Disarm, SyncAgain, ResetAfterFlash, Flashes, Flash
    <3>2. CASE ResetAfterFlash
      BY <3>1, <3>2, FlashInstalls DEF ResetAfterFlash, Reset, InstalledRelease
    <3>3. CASE CheckImage \/ CopyRoot \/ RootCopied \/ SyncRoot
      BY <1>1, <3>3, ConstantsOK
         DEF CheckImage, CopyRoot, RootCopied, SyncRoot, Flashes, Flash,
             FlashInv, InstalledRelease, Card
    <3>4. CASE RemoveImage \/ Disarm \/ SyncAgain
      BY <1>1, <3>4, ConstantsOK
         DEF RemoveImage, Disarm, SyncAgain, Flashes, Flash,
             FlashInv, InstalledRelease, Card
    <3> QED
      BY <1>10, <3>2, <3>3, <3>4 DEF Fwupdater
  <2>2. RunningRelease = Absent /\ RunningRelease' = Absent /\ UNCHANGED ver
    BY <1>10 DEF Fwupdater, CheckImage, CopyRoot, RootCopied, SyncRoot,
                RemoveImage, Disarm, SyncAgain, ResetAfterFlash, Flashes, Flash,
                Reset, RunningRelease
  <2> QED
    BY <2>1, <2>2
<1> QED
  BY <1>2, <1>3, <1>4, <1>5, <1>6, <1>7, <1>8, <1>9, <1>10
     DEF Next, Shutdown, KillAll, SetWatchConf, StartShutdown, WriteBack, vars

\* A step that hurts the device, or happens on a hurt one, is one the abstract
\* specification allows for.
LEMMA HurtStep ==
    ASSUME TypeOK, TypeOK', IInv, IInv', [Next]_vars, ~Unhurt'
    PROVE  [Atomic!Next]_<<ver, InstalledRelease, RunningRelease>>
<1> USE DEF Atomic!Next
<1>1. InstalledRelease' = Torn /\ RunningRelease' \in Version \cup {Absent}
  BY DEF InstalledRelease, RunningRelease, IInv, RootStable
<1>2. ver' \in Version
  BY DEF TypeOK, CardOK
<1>3. CASE ~Unhurt
  BY <1>1, <1>2, <1>3 DEF InstalledRelease, Atomic!Limp
<1>4. CASE Unhurt
  <2>1. hurt' # hurt
    BY <1>4 DEF Unhurt
  <2>2. Interrupted /\ Phase \in Risky /\ (Fail \/ HardReboot \/ PowerLoss \/ KillAll)
    <3>1. Fail \/ HardReboot \/ PowerLoss \/ KillAll
      BY <2>1, UpdateHistory DEF Next, vars, Request, Shutdown
    <3>2. Interrupted
      BY <2>1, <3>1 DEF Fail, HardReboot, PowerLoss, KillAll
    <3> QED
      BY <1>4, <3>1, <3>2 DEF Interrupted, Unhurt
  <2>3. mode = "system" /\ UNCHANGED ver
    BY <2>2 DEF Phase, Risky, Fail, HardReboot, Running, PowerLoss, KillAll
  <2>4. (mode' = "system" /\ cache'.root = cache.root) \/ mode' = "off"
    BY <2>2 DEF Fail, HardReboot, PowerLoss, KillAll, Reset, TypeOK, CardOK, Card
  <2>5. RunningRelease # Absent /\ RunningRelease' \in {RunningRelease, Absent}
    BY <2>3, <2>4, ConstantsOK DEF RunningRelease, IInv, RootStable
  <2> QED
    BY <1>1, <2>3, <2>5 DEF Atomic!Break
<1> QED
  BY <1>3, <1>4

\* The update of the device is an atomic change of the release it boots, until
\* an interruption in a risky phase.
THEOREM UpdateRefinesAtomic == Spec => UpdateIsAtomic
<1>1. Init => Atomic!Init
  BY ConstantsOK DEF Init, Atomic!Init, InstalledRelease, RunningRelease, Unhurt
<1>2. TypeOK /\ TypeOK' /\ IInv /\ IInv' /\ [Next]_vars
      => [Atomic!Next]_<<ver, InstalledRelease, RunningRelease>>
  <2> SUFFICES ASSUME TypeOK, TypeOK', IInv, IInv', [Next]_vars
               PROVE  [Atomic!Next]_<<ver, InstalledRelease, RunningRelease>>
    OBVIOUS
  <2>1. CASE ~Unhurt'
    BY <2>1, HurtStep
  <2>2. CASE Unhurt'
    <3>1. Unhurt
      BY <2>2, StaysHurt
    <3> QED
      BY <2>2, <3>1, UnhurtStep
  <2> QED
    BY <2>1, <2>2
<1> QED
  BY <1>1, <1>2, TypeCorrect, InductiveInvariant, PTL
     DEF Spec, UpdateIsAtomic, Atomic!Spec, Atomic!avars

=============================================================================
