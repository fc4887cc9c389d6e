--------------------------- MODULE FirmwareUpdate ---------------------------
(***************************************************************************)
(* The over-the-air update of a motionPie device: perform_update() of      *)
(* update.py, running in the web server; the init script inside            *)
(* fwupdater.gz, which flashes the root partition on the next boot; the    *)
(* shutdown sequence and the boot that run between them; and the watch     *)
(* loops of the init scripts, which may reboot the device at any moment.   *)
(*                                                                         *)
(* The SD card is seen twice: disk is what a power loss leaves, cache is   *)
(* what the running system reads and writes.  Writing changes the cache,   *)
(* the kernel writes it back when it likes and in pieces, sync makes the   *)
(* two equal.                                                              *)
(***************************************************************************)
EXTENDS Naturals

CONSTANTS
    Version,      \* the releases that can be installed
    Factory,      \* the release on the card at first
    Torn,         \* contents of a partition or file that was partly written
    Absent,       \* contents of a file that does not exist
    LossIn,       \* the phases in which the power may fail
    FailAt,       \* the steps of perform_update whose command may fail
    Rebooter,     \* who, beside the updater, may start a shutdown
    MaxLoss,      \* bound: how often the power fails
    MaxRequests   \* bound: how often an update is requested

\* Phases of an update, as an interruption sees them (see Phase).
Phases == {"idle", "prepare", "install", "switch", "armed", "flash"}

\* The program counter of perform_update, named for the step it does next.
PrepareSteps == {"netwatch", "clean", "fetch", "extract", "extracting",
                 "backup", "umount", "install"}
SwitchSteps  == {"mount", "restore", "read", "truncate", "write"}
UpdateSteps  == PrepareSteps \cup {"installing"} \cup SwitchSteps \cup {"reboot"}

\* The program counter of the init script of fwupdater.gz.
FlashSteps == {"check", "copy", "copying", "sync", "remove", "disarm",
               "sync again", "reset"}

\* The watch loops that call reboot: of S95motioneye, of S41netwatch, and of
\* S35wifi, S36ppp and S40network together.
Watchers == {"service", "net", "link"}

ASSUME ConstantsOK ==
    /\ Factory \in Version
    /\ Torn \notin Version /\ Absent \notin Version /\ Torn # Absent
    /\ LossIn \subseteq Phases
    /\ FailAt \subseteq UpdateSteps \ {"netwatch"}
    /\ Rebooter \subseteq Watchers \cup {"user"}
    /\ MaxLoss \in Nat /\ MaxRequests \in Nat

VARIABLES
    disk,      \* the card as a power loss leaves it
    cache,     \* the card as the running system sees it
    mode,      \* what the processor runs
    pc,        \* next step of perform_update, or of the fwupdater script
    ver,       \* the argument of perform_update
    backup,    \* /tmp/config.txt, on a tmpfs
    lines,     \* config_lines, in the memory of perform_update
    mounted,   \* /boot is mounted
    down,      \* progress of the shutdown sequence
    by,        \* history: who started the last shutdown
    watching,  \* the watch loops that run
    netConf,   \* /data/etc/watch.conf names a netwatch host and port
    hurt,      \* history: the phases that were interrupted
    losses,    \* power losses so far
    requests   \* update requests so far

volatile == <<pc, backup, lines, mounted, down, watching>>
vars == <<disk, cache, mode, volatile, ver, by, netConf, hurt, losses, requests>>

-----------------------------------------------------------------------------
(* The SD card.                                                            *)

\* Whose lines /boot/config.txt holds: the user's, those of the image the boot
\* partition was just written from, or only a part of them.
Lines == {"user", "stock", "cut"}

\* boot, root: the release on partition 1 and 2.  img: the file root.img in
\* /data/.firmware_update.  conf and armed: the lines of config.txt, and
\* whether "initramfs fwupdater.gz" is one of them.
Card == [boot  : Version \cup {Torn},
         root  : Version \cup {Torn},
         img   : Version \cup {Torn, Absent},
         conf  : Lines,
         armed : BOOLEAN]

Backup == [conf : Lines, armed : BOOLEAN]

\* Page cache write-back of one object, complete or so far only in part.
FlushBoot == disk' = [disk EXCEPT !.boot = cache.boot]
FlushRoot == \E r \in {cache.root, Torn} :
                cache.root # disk.root /\ disk' = [disk EXCEPT !.root = r]
FlushImg  == \E i \in {cache.img} \cup (IF cache.img = Absent THEN {} ELSE {Torn}) :
                cache.img # disk.img /\ disk' = [disk EXCEPT !.img = i]
FlushConf == \/ disk' = [disk EXCEPT !.conf = cache.conf, !.armed = cache.armed]
             \/ /\ <<cache.conf, cache.armed>> # <<disk.conf, disk.armed>>
                /\ disk' = [disk EXCEPT !.conf = "cut", !.armed = FALSE]

WriteBack ==
    /\ mode \in {"system", "fwupdater"}
    /\ FlushBoot \/ FlushRoot \/ FlushImg \/ FlushConf
    /\ UNCHANGED <<cache, mode, volatile, ver, by, netConf, hurt, losses, requests>>

-----------------------------------------------------------------------------
(* Interruptions.                                                          *)

\* The phase the device is in: dd writes the boot partition; the card holds
\* the initramfs line, or will when it is written back; the boot partition is
\* new and not armed yet; perform_update is before its first write to it.
Phase ==
    IF mode = "fwupdater" THEN "flash"
    ELSE IF pc = "installing" THEN "install"
    ELSE IF cache.armed \/ disk.armed THEN "armed"
    ELSE IF pc \in SwitchSteps THEN "switch"
    ELSE IF pc \in PrepareSteps THEN "prepare"
    ELSE "idle"

Interrupted == hurt' = hurt \cup {Phase}

\* The processor restarts: memory, tmpfs and page cache are gone (an action
\* that uses Reset says what is on the disk first).
Reset ==
    /\ mode' = "off"
    /\ cache' = disk'
    /\ pc' = "idle"
    /\ backup' = Absent
    /\ lines' = "cut"
    /\ mounted' = FALSE
    /\ down' = "no"
    /\ watching' = {}

PowerLoss ==
    /\ mode \in {"system", "fwupdater"}
    /\ losses < MaxLoss
    /\ Phase \in LossIn
    /\ UNCHANGED disk
    /\ Reset
    /\ Interrupted
    /\ losses' = losses + 1
    /\ UNCHANGED <<ver, by, netConf, requests>>

-----------------------------------------------------------------------------
(* Boot: the firmware reads config.txt from partition 1.                   *)

Bootable == cache.boot # Torn

BootFwupdater ==
    /\ mode = "off" /\ Bootable /\ cache.armed
    /\ mode' = "fwupdater"
    /\ pc' = "check"
    /\ UNCHANGED <<disk, cache, backup, lines, mounted, down, watching,
                   ver, by, netConf, hurt, losses, requests>>

\* init runs mount -a and rcS, which starts the watch loops.
BootSystem ==
    /\ mode = "off" /\ Bootable /\ ~cache.armed /\ cache.root # Torn
    /\ mode' = "system"
    /\ mounted' = TRUE
    /\ watching' = IF netConf THEN Watchers ELSE Watchers \ {"net"}
    /\ UNCHANGED <<disk, cache, pc, backup, lines, down,
                   ver, by, netConf, hurt, losses, requests>>

\* No kernel on partition 1, or no root file system for it to mount.
BootFails ==
    /\ mode = "off"
    /\ ~Bootable \/ (~cache.armed /\ cache.root = Torn)
    /\ mode' = "dead"
    /\ UNCHANGED <<disk, cache, volatile, ver, by, netConf, hurt, losses, requests>>

-----------------------------------------------------------------------------
(* perform_update, one action per command it runs.                         *)

Running(step) == mode = "system" /\ pc = step
Goto(from, to) == Running(from) /\ pc' = to

\* Mutant of Request: the watch loop of S95motioneye is not killed.
RequestKeepsWatch(v) ==
    /\ Goto("idle", "netwatch")
    /\ down # "killed"
    /\ requests < MaxRequests
    /\ requests' = requests + 1
    /\ ver' = v
    /\ UNCHANGED <<disk, cache, mode, backup, lines, mounted, down, watching,
                   by, netConf, hurt, losses>>

\* perform_update(version), lines 178-182: the handlers of the web server run
\* one at a time, and the server lives until the shutdown kills it.
Request(v) ==
    /\ Goto("idle", "netwatch")
    /\ down # "killed"
    /\ requests < MaxRequests
    /\ requests' = requests + 1
    /\ ver' = v
    /\ watching' = watching \ {"service"}
    /\ UNCHANGED <<disk, cache, mode, backup, lines, mounted, down, by,
                   netConf, hurt, losses>>

\* "S41netwatch stop": the script exits before its case statement when
\* watch.conf names no host now, even if its watch loop still runs.
StopNetwatch ==
    /\ Goto("netwatch", "clean")
    /\ watching' = IF netConf THEN watching \ {"net"} ELSE watching
    /\ UNCHANGED <<disk, cache, mode, backup, lines, mounted, down, ver, by,
                   netConf, hurt, losses, requests>>

\* The steps that change nothing but the cache of the card.
Writes(from, to, newCache) ==
    /\ Goto(from, to)
    /\ cache' = newCache
    /\ UNCHANGED <<disk, mode, backup, lines, mounted, down, watching, ver, by,
                   netConf, hurt, losses, requests>>

\* rmtree and makedirs of the download directory.
CleanDownloadDir == Writes("clean", "fetch", [cache EXCEPT !.img = Absent])

\* wget, gunzip, fdisk and the dd that extracts boot.img.
FetchImage == Writes("fetch", "extract", cache)

\* Mutant of RootExtracted: the partition bounds are rounded, the tail is lost.
RootExtractedShort == Writes("extracting", "backup", [cache EXCEPT !.img = Torn])

\* dd of=root.img, begun and ended.
ExtractRoot    == Writes("extract", "extracting", [cache EXCEPT !.img = Torn])
RootExtracted  == Writes("extracting", "backup", [cache EXCEPT !.img = ver])

\* Mutant of BackupConfig: cp into a /tmp that keeps nothing.
BackupForgotten ==
    /\ Goto("backup", "umount")
    /\ mounted
    /\ backup' = Absent
    /\ UNCHANGED <<disk, cache, mode, lines, mounted, down, watching, ver, by,
                   netConf, hurt, losses, requests>>

BackupConfig ==
    /\ Goto("backup", "umount")
    /\ mounted
    /\ backup' = [conf |-> cache.conf, armed |-> cache.armed]
    /\ UNCHANGED <<disk, cache, mode, lines, mounted, down, watching, ver, by,
                   netConf, hurt, losses, requests>>

\* umount and mount write the dirty pages of the file system back.
UmountBoot ==
    /\ Goto("umount", "install")
    /\ mounted' = FALSE
    /\ disk' = [disk EXCEPT !.conf = cache.conf, !.armed = cache.armed]
    /\ UNCHANGED <<cache, mode, backup, lines, down, watching, ver, by,
                   netConf, hurt, losses, requests>>

\* dd of=/dev/mmcblk0p1, begun ...
InstallBoot == Writes("install", "installing", [cache EXCEPT !.boot = Torn])

\* ... and ended: closing the block device writes it back.
BootInstalled ==
    /\ Goto("installing", "mount")
    /\ cache' = [cache EXCEPT !.boot = ver, !.conf = "stock", !.armed = FALSE]
    /\ disk' = [disk EXCEPT !.boot = ver, !.conf = "stock", !.armed = FALSE]
    /\ UNCHANGED <<mode, backup, lines, mounted, down, watching, ver, by,
                   netConf, hurt, losses, requests>>

MountBoot ==
    /\ Goto("mount", "restore")
    /\ mounted' = TRUE
    /\ UNCHANGED <<disk, cache, mode, backup, lines, down, watching, ver, by,
                   netConf, hurt, losses, requests>>

\* Mutant of RestoreConfig: the stock config.txt of the new image is kept.
RestoreForgotten == Writes("restore", "read", cache)

RestoreConfig ==
    Writes("restore", "read",
           [cache EXCEPT !.conf = backup.conf, !.armed = backup.armed])

ReadConfig ==
    /\ Goto("read", "truncate")
    /\ lines' = cache.conf
    /\ UNCHANGED <<disk, cache, mode, backup, mounted, down, watching, ver, by,
                   netConf, hurt, losses, requests>>

\* open(..., 'w') empties config.txt; the loop writes the lines and, last,
\* "initramfs fwupdater.gz".
TruncateConfig ==
    Writes("truncate", "write", [cache EXCEPT !.conf = "cut", !.armed = FALSE])
WriteConfig ==
    Writes("write", "reboot", [cache EXCEPT !.conf = lines, !.armed = TRUE])

\* Mutant of CallReboot: nothing shuts the system down.
RebootForgotten ==
    /\ Goto("reboot", "idle")
    /\ UNCHANGED <<disk, cache, mode, backup, lines, mounted, down, watching,
                   ver, by, netConf, hurt, losses, requests>>

\* /sbin/reboot signals init and returns; the handler ends.
CallReboot ==
    /\ Goto("reboot", "idle")
    /\ down' = IF down = "no" THEN "stopping" ELSE down
    /\ by' = IF down = "no" THEN "updater" ELSE by
    /\ UNCHANGED <<disk, cache, mode, backup, lines, mounted, watching, ver,
                   netConf, hurt, losses, requests>>

\* A failed /sbin/reboot: sysrq b resets the board without syncing.
HardReboot ==
    /\ Running("reboot")
    /\ "reboot" \in FailAt
    /\ UNCHANGED disk
    /\ Reset
    /\ Interrupted
    /\ UNCHANGED <<ver, by, netConf, losses, requests>>

\* A command fails and perform_update raises, undoing nothing: the watch loops
\* stay dead and /boot stays as it is.  Copying from an unmounted /boot always
\* fails.  cp truncates its target before it copies.
Fail ==
    /\ mode = "system"
    /\ pc \in FailAt \ {"reboot"} \/ (pc = "backup" /\ ~mounted)
    /\ pc' = "idle"
    /\ Interrupted
    /\ \/ UNCHANGED <<cache, backup>>
       \/ /\ pc = "restore"
          /\ cache' = [cache EXCEPT !.conf = "cut", !.armed = FALSE]
          /\ UNCHANGED backup
       \/ /\ pc = "backup" /\ mounted
          /\ backup' = [conf |-> "cut", armed |-> FALSE]
          /\ UNCHANGED cache
    /\ UNCHANGED <<disk, mode, lines, mounted, down, watching, ver, by,
                   netConf, losses, requests>>

-----------------------------------------------------------------------------
(* Settings, watch loops and the shutdown sequence.                        *)

\* watchctl._set_watch_settings rewrites watch.conf; the running loops keep
\* what they read at boot.
SetWatchConf ==
    /\ Running("idle") /\ down # "killed"
    /\ netConf' = ~netConf
    /\ UNCHANGED <<disk, cache, mode, volatile, ver, by, hurt, losses, requests>>

\* A watch loop has lost patience, or the user asks for a reboot.
StartShutdown(who) ==
    /\ mode = "system" /\ down = "no"
    /\ who \in Watchers => who \in watching
    /\ down' = "stopping"
    /\ by' = who
    /\ UNCHANGED <<disk, cache, mode, pc, backup, lines, mounted, watching, ver,
                   netConf, hurt, losses, requests>>

\* rcK has stopped S95motioneye, init kills what is left: perform_update dies
\* wherever it is.
KillAll ==
    /\ mode = "system" /\ down = "stopping"
    /\ down' = "killed"
    /\ pc' = "idle"
    /\ watching' = {}
    /\ IF pc \in {"idle", "reboot"} THEN UNCHANGED hurt ELSE Interrupted
    /\ UNCHANGED <<disk, cache, mode, backup, lines, mounted, ver, by, netConf,
                   losses, requests>>

\* Mutant of UnmountAll: the kernel restarts without unmounting.
UnmountNothing ==
    /\ mode = "system" /\ down = "killed"
    /\ UNCHANGED disk
    /\ Reset
    /\ UNCHANGED <<ver, by, netConf, hurt, losses, requests>>

\* umount -a -r writes everything back and the kernel restarts.
UnmountAll ==
    /\ mode = "system" /\ down = "killed"
    /\ disk' = cache
    /\ Reset
    /\ UNCHANGED <<ver, by, netConf, hurt, losses, requests>>

-----------------------------------------------------------------------------
(* The init script of fwupdater.gz, a shell script under set -e.           *)

Flash(from, to) == mode = "fwupdater" /\ pc = from /\ pc' = to

Flashes(from, to, newCache, newDisk) ==
    /\ Flash(from, to)
    /\ cache' = newCache
    /\ disk' = newDisk
    /\ UNCHANGED <<mode, backup, lines, mounted, down, watching, ver, by,
                   netConf, hurt, losses, requests>>

\* Mutants: the initramfs line goes before the copy; the first sync is left
\* out; the sed pattern does not match.
DisarmBeforeCopy == Flashes("copy", "copying",
                            [cache EXCEPT !.root = Torn, !.armed = FALSE], disk)
DisarmMisses     == Flashes("disarm", "sync again", cache, disk)

CheckImage  == Flashes("check", IF cache.img = Absent THEN "disarm" ELSE "copy",
                       cache, disk)
CopyRoot    == Flashes("copy", "copying", [cache EXCEPT !.root = Torn], disk)
RootCopied  == Flashes("copying", "sync", [cache EXCEPT !.root = cache.img], disk)
SyncRoot    == Flashes("sync", "remove", cache, cache)
RemoveImage == Flashes("remove", "disarm", [cache EXCEPT !.img = Absent], disk)
Disarm      == Flashes("disarm", "sync again", [cache EXCEPT !.armed = FALSE], disk)
SyncAgain   == Flashes("sync again", "reset", cache, cache)

ResetAfterFlash ==
    /\ mode = "fwupdater" /\ pc = "reset"
    /\ UNCHANGED disk
    /\ Reset
    /\ UNCHANGED <<ver, by, netConf, hurt, losses, requests>>

-----------------------------------------------------------------------------

Init ==
    /\ disk = [boot |-> Factory, root |-> Factory, img |-> Absent,
               conf |-> "user", armed |-> FALSE]
    /\ cache = disk
    /\ mode = "off"
    /\ pc = "idle"
    /\ ver = Factory
    /\ backup = Absent
    /\ lines = "cut"
    /\ mounted = FALSE
    /\ down = "no"
    /\ by = "user"
    /\ watching = {}
    /\ netConf \in BOOLEAN
    /\ hurt = {}
    /\ losses = 0
    /\ requests = 0

Boot == BootFwupdater \/ BootSystem \/ BootFails

Update ==
    \/ StopNetwatch \/ CleanDownloadDir \/ FetchImage
    \/ ExtractRoot \/ RootExtracted
    \/ BackupConfig \/ UmountBoot \/ InstallBoot \/ BootInstalled
    \/ MountBoot \/ RestoreConfig \/ ReadConfig
    \/ TruncateConfig \/ WriteConfig \/ CallReboot

Fwupdater ==
    \/ CheckImage \/ CopyRoot \/ RootCopied \/ SyncRoot
    \/ RemoveImage \/ Disarm \/ SyncAgain \/ ResetAfterFlash

Shutdown == KillAll \/ UnmountAll

Next ==
    \/ \E v \in Version : Request(v)
    \/ Update \/ Fail \/ HardReboot
    \/ SetWatchConf
    \/ \E who \in Rebooter : StartShutdown(who)
    \/ Shutdown
    \/ Boot
    \/ Fwupdater
    \/ WriteBack
    \/ PowerLoss

Spec == Init /\ [][Next]_vars

\* perform_update, the shutdown, the boot and the fwupdater script are
\* sequential programs that go on while the device has power; nothing obliges
\* anyone to ask for an update, the power to fail or a watch loop to fire.
Fairness == /\ WF_vars(Update) /\ WF_vars(Shutdown)
            /\ WF_vars(Boot) /\ WF_vars(Fwupdater)

FairSpec == Spec /\ Fairness

-----------------------------------------------------------------------------
(* Properties.                                                             *)

CardOK ==
    /\ disk \in Card /\ cache \in Card
    /\ ver \in Version
    /\ backup \in Backup \cup {Absent}
    /\ lines \in Lines
    /\ mode = "system"
          /\ pc \in {"umount", "install", "installing", "mount", "restore"}
       => backup \in Backup
    /\ mode = "fwupdater" /\ pc \in {"copy", "copying"} => cache.img # Absent

ControlOK ==
    /\ mode \in {"off", "system", "fwupdater", "dead"}
    /\ mode = "system" => pc \in {"idle"} \cup UpdateSteps
    /\ mode = "fwupdater" => pc \in FlashSteps
    /\ mode \in {"off", "dead"} => pc = "idle"
    /\ mode = "system" /\ down = "killed" => pc = "idle"
    /\ mounted \in BOOLEAN
    /\ down \in {"no", "stopping", "killed"}
    /\ by \in Watchers \cup {"user", "updater"}
    /\ watching \subseteq Watchers
    /\ netConf \in BOOLEAN

HistoryOK ==
    /\ hurt \subseteq Phases
    /\ losses \in 0..MaxLoss /\ requests \in 0..MaxRequests

\* The variables have their types, and the program counter is the idle one
\* unless perform_update or the fwupdater script can be running; a backup, if
\* there is one, is a config.txt.
TypeOK == CardOK /\ ControlOK /\ HistoryOK

\* The phases from the dd to the boot partition up to the unmounting that
\* follows the arming.  perform_update has no means of recovery in them.
Risky == {"install", "switch", "armed"}
Unhurt == hurt \cap Risky = {}

\* A device stops booting for good only if the dd to the boot partition was
\* interrupted, or the device reset after config.txt was armed and before
\* root.img was written back.  No interruption while the image is downloaded
\* (download), while config.txt is restored and armed, or while fwupdater
\* flashes the root partition does it.
BricksOnlyInWindow ==
    mode = "dead" => hurt \cap {"install", "armed"} # {}

\* When no update is under way and none is armed, the kernel and the root file
\* system are of one release, unless a risky phase was interrupted: fwupdater
\* brings the root partition to the release perform_update left on /boot, even
\* when it is itself interrupted and starts over.
OneRelease ==
    /\ mode = "system" /\ ~cache.armed
    /\ pc \notin SwitchSteps \cup {"installing", "reboot"}
    /\ Unhurt
    => cache.boot = cache.root

\* A half-written root partition is always one that the next boot flashes
\* again, from an image that is complete and of the release on /boot: the
\* script of fwupdater.gz removes the image and the initramfs line only once
\* the partition is synced.
TornRootIsReflashed ==
    disk.root = Torn /\ Unhurt => disk.armed /\ disk.img = disk.boot

\* Whenever the device is not running its system and config.txt names
\* fwupdater, either the image of the release on /boot is there, whole, or
\* the root partition holds that release and the image is gone.
ArmedMeansFlashable ==
    mode # "system" /\ disk.armed /\ Unhurt
    => \/ disk.img = disk.boot
       \/ disk.img = Absent /\ disk.root = disk.boot

\* The user's lines of config.txt outlive an update: on the card, or in /tmp
\* while the boot partition holds the stock file, or in memory while the file
\* is rewritten; a failed or repeated request does not lose them, and only an
\* interruption from the dd to /boot on does.
UserConfigKept ==
    hurt \cap (Risky \cup {"flash"}) = {}
    => CASE mode = "system" /\ pc \in {"mount", "restore"} -> backup.conf = "user"
         [] mode = "system" /\ pc = "write"                -> lines = "user"
         [] OTHER                                          -> cache.conf = "user"

\* Once perform_update has gone past "S41netwatch stop", a shutdown is begun by
\* the watch loops of S95motioneye and S41netwatch only if watch.conf was
\* changed since boot so that S41netwatch exited before its stop branch.
StoppedWatchersStaySilent ==
    [][ /\ down = "no" /\ down' = "stopping" /\ by' \in {"service", "net"}
        /\ pc \in UpdateSteps \ {"netwatch"}
        => by' = "net" /\ ~netConf ]_vars

\* An update that gets as far as calling reboot is followed by a boot into the
\* system with kernel and root of one release and config.txt disarmed, however
\* often the power fails while fwupdater flashes.
UpdateArrives ==
    Running("reboot") /\ Unhurt
    ~> \/ mode = "system" /\ ~cache.armed /\ cache.boot = cache.root
       \/ ~Unhurt

\* The fwupdater script never leaves the device rebooting into itself.
FlashEnds == mode = "fwupdater" ~> mode \in {"system", "dead"}

-----------------------------------------------------------------------------
(* The inductive invariant behind OneRelease, TornRootIsReflashed,         *)
(* ArmedMeansFlashable and UpdateIsAtomic.                                 *)

\* Only fwupdater writes the root partition.
RootStable ==
    /\ mode = "system" => cache.root = disk.root /\ cache.root \in Version
    /\ mode \in {"off", "dead"} => cache = disk

\* perform_update's view of the card, step by step.
SystemInv ==
    mode = "system" =>
    /\ pc # "installing" => cache.boot = disk.boot /\ cache.boot \in Version
    /\ pc \in {"idle", "netwatch", "clean", "reboot"} /\ cache.armed
          => cache.img = cache.boot
    /\ pc \in {"idle"} \cup PrepareSteps /\ ~cache.armed
          => ~disk.armed /\ cache.boot = cache.root
    /\ pc \in {"backup", "umount", "install", "installing"} \cup SwitchSteps
          => cache.img = ver
    /\ pc \in SwitchSteps => cache.boot = ver
    /\ pc = "reboot" => cache.armed

\* What the boot finds on the card.
OffInv ==
    mode \in {"off", "dead"} =>
    /\ disk.boot \in Version
    /\ ~disk.armed => disk.root = disk.boot
    /\ disk.armed => \/ disk.img = disk.boot
                     \/ disk.img = Absent /\ disk.root = disk.boot

\* The fwupdater script's view of the card, step by step.
FlashInv ==
    mode = "fwupdater" =>
    LET release == disk.boot IN
    /\ release \in Version /\ cache.boot = release
    /\ pc \notin {"sync again", "reset"}
          => disk.armed /\ cache.armed /\ cache.conf = disk.conf
    /\ pc \in {"sync again", "reset"} => ~cache.armed
    /\ pc = "reset" => ~disk.armed
    /\ pc \in {"copy", "copying", "sync", "remove"}
          => cache.img = release /\ disk.img = release
    /\ pc = "check" => /\ cache.img = disk.img /\ cache.root = disk.root
                       /\ \/ disk.img = release
                          \/ disk.img = Absent /\ disk.root = release
    /\ pc = "sync" => cache.root = release
    /\ pc \in {"remove", "disarm", "sync again", "reset"}
          => cache.root = release /\ disk.root = release
    /\ pc \in {"disarm", "sync again", "reset"}
          => cache.img = Absent /\ disk.img \in {release, Absent}

IInv == RootStable /\ (Unhurt => SystemInv /\ OffInv /\ FlashInv)

-----------------------------------------------------------------------------
(* The update as one atomic change of the installed release.               *)

InstalledRelease ==
    IF ~Unhurt THEN Torn
    ELSE IF cache.armed /\ cache.img \in Version THEN cache.img ELSE cache.root

RunningRelease == IF mode = "system" THEN cache.root ELSE Absent

Atomic == INSTANCE AtomicUpdate WITH
              Off <- Absent, Broken <- Torn,
              wanted <- ver, installed <- InstalledRelease,
              running <- RunningRelease

\* As long as no risky phase is interrupted, perform_update, the shutdown, the
\* boot and fwupdater together install a release atomically: what the next
\* boot into the system runs changes when config.txt is armed, and no power
\* loss, failed download or interrupted flashing changes it.
UpdateIsAtomic == Atomic!Spec

=============================================================================
