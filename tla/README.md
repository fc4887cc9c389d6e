# motionPie in TLA+

motionPie turns a Raspberry Pi (or a similar board) into a surveillance camera.
The repository is a fork of buildroot; what is its own is the operating system
layer around the motionEye web server: the over-the-air firmware update, the init
scripts that boot, watch and shut down the device, the settings modules that
motionEye loads, and the scripts that build the SD card image. The modules model
that layer, and the one part of buildroot with a state and a logic of its own: the
configuration system (Kconfig), which decides what is built, with its two programs
that run in a terminal, `conf` and menuconfig.

Paths below: `update.py`, `watchctl.py`, `ipctl.py`, `servicectl.py` and
`extractl.py` are in `src/package/motioneye/`; the init scripts are in
`src/board/common/overlay/etc/init.d/`; `streameyectl.py` and `boardctl.py` are in
`src/board/raspberrypi/motioneye-modules/`; `fwupdater.gz` is in
`src/board/raspberrypi/` and `src/board/raspberrypi2/`; the C files are in
`src/support/kconfig/`, those of the dialogs in its directory `lxdialog/`.

## 1. Inventory

| Component | State | Operations | What is hard |
|---|---|---|---|
| Firmware update (`update.py`) | download directory, `/boot`, `/tmp/config.txt`, `config_lines` | `download`, `perform_update` | some fifteen commands, each of which may fail; nothing is undone; the power may fail anywhere; other processes may call reboot |
| Firmware updater (`fwupdater.gz`, an initramfs) | root partition, `root.img`, `config.txt` | one script under `set -e`: check, dd, sync, rm, sed, sync, reset | started over after a power loss at any of its commands |
| Boot and shutdown (`inittab`, `rcS`, `rcK`, `sbin/reboot`) | mounts, running services | start or stop every `S??*` script in order | what has been written is not yet on the card; services stopped in start order |
| Watch loops (`S35wifi`, `S36ppp`, `S40network`, `S41netwatch`, `S95motioneye`) | a counter each | poll, give up, reboot | not all are stopped before an update; they keep the settings read at boot |
| Watch settings (`watchctl.py`) | `/data/etc/watch.conf` | `_get_watch_settings`, `_set_watch_settings` | rewritten under running loops |
| Data partition (`S11datapart`) | partition table, file system | fdisk, reboot, mkfs, mount | spread over several boots; "Bad magic" means mkfs |
| Hardware watchdog (`S02watchdog`, `sbin/reboot`) | daemon, `/dev/watchdog` | start, stop, freeze after 10 s | `rcK` stops the daemon first, which disarms the device that is to end a hung shutdown |
| streamEye mode (`streameyectl.py`, `S94streameye`, `streameye.sh`) | camera configurations, their `.bak`, the mode file | enable, disable, settings | callbacks deferred to the event loop, renames one after the other |
| Board settings (`boardctl.py`) | `config.txt` | read, rewrite, remount `/boot` | the same file the update rewrites |
| Network, service, extra settings (`ipctl.py`, `servicectl.py`, `extractl.py`) | files in `/data/etc` | get, set | what is read back should be what was set |
| DHCP hook (`dhclient-script`) | `/etc/resolv.conf` | one branch per DHCP event | truncated by one event while another process writes it |
| Date updater (`S60date`) | background loop, date process | set the date, retry, kill after a timeout | the killer races with the end of what it kills |
| Small scripts (`S00hostname`, `S01logging`, `S10udev`, `S50sshd`, `S70proftpd`, `S80crond`, `S91smb`) | none | start or stop a daemon | nothing |
| Image build (`build.sh`, `mkimage.sh`, `writeimage.sh`, ...) | files of the build host | sequential commands | nothing the models can add to |
| Kconfig expressions (`expr.c`) | trees of dependencies | rewriting, comparison, evaluation, printing | done in place, by rules that hold only for some shapes and types |
| Kconfig menus (`zconf.y`, `menu.c`) | tree of entries, properties of symbols | parse, `menu_finalize`, visibility | what belongs below what is found out from rewritten dependencies |
| Kconfig symbols (`symbol.c`) | cached values and flags of each symbol | `sym_calc_value`, set, toggle, `sym_check_deps` | computed on demand, choices and values from each other |
| Configuration files (`confdata.c`) | `.config`, `.config.old`, `auto.conf`, headers | `conf_read`, `conf_write`, defconfig, `conf_write_autoconf` | several files replaced one after the other; what is left out must come back as the default |
| `conf` (`conf.c`) | mode, position in the tree | eleven modes of `make *config`; asks for what is new | answers bring up questions |
| menuconfig (`mconf.c`) | stack of nested menus, file name, unsaved changes | walk, set, search, load, save, exit; SIGINT | the handler runs at any moment; a load that fails |
| lxdialog (`lxdialog/*.c`) | scroll and cursor positions, the screen | one loop per dialog | the screen is patched, the terminal resized |
| Other front ends (`nconf.c`, `gconf.c`, `qconf.cc`) | widgets | as menuconfig | the state is that of GTK, Qt and ncurses |
| The rest of buildroot | - | - | third-party |

How they interact. The web server calls `perform_update`, which stops two watch
loops, downloads an image, overwrites the boot partition, writes
"initramfs fwupdater.gz" into `config.txt` and calls `/sbin/reboot`. init then
runs `rcK` and `umount -a`. The firmware of the board reads `config.txt` and boots
the kernel with the initramfs `fwupdater.gz`, whose script copies `root.img` to the
root partition, takes the line out of `config.txt` again and resets the board.
Meanwhile any of the watch loops may call `reboot`, the settings may rewrite
`watch.conf`, and the power may fail.

The configuration system runs on the build host. `make menuconfig` or `make *config`
parses the Kconfig files (`conf_parse`, then `menu_finalize` and `sym_check_deps`), reads
`.config`, changes values through `sym_set_tristate_value` and `sym_set_string_value`, and
writes `.config`. The build itself runs `conf --silentoldconfig` (`Makefile:777`), which
asks for what is new in the Kconfig files and brings `auto.conf` and one empty header per
changed symbol up to date. The two programs share nothing but the files.

What makes it correct: a device that boots afterwards runs a kernel and a root
file system of one release; a half-written root partition is flashed again; the
user's `config.txt` survives; an update that got as far as its reboot finishes
however often the power fails while flashing; and the loops that were stopped do
not reboot the device in the middle of it. Of the configuration system: dependencies keep
their meaning; what is written is a legal configuration and reads back; the last one saved
survives crashes; everything new is asked, once; a changed symbol is noticed by the build;
and what menuconfig shows is what a key acts on.

## 2. What is modelled

### `FirmwareUpdate`: the update and everything it runs between

One module, because its parts share the card and the program counter passes from
one to the next: `perform_update` (section *perform_update*), the script of
`fwupdater.gz`, the boot, the shutdown and, as far as an update can tell, the watch
loops.

**The card.** `disk` is what a power loss leaves, `cache` what the running system
reads. Each is a record: the release on the boot and on the root partition, the
file `root.img` in the download directory, whose lines `config.txt` holds, and
whether it is *armed* (names `fwupdater.gz`). `Torn` stands for a partition or file
of which a part was written, "cut" for such a `config.txt`. `WriteBack` lets the kernel
write any of the four objects back at any time, wholly or in part; `umount`,
`sync` and the close of a block device after `dd` make it certain. The rest of
the downloaded files are left out: `boot.img` is read in the same run in which it
was extracted, so it is whatever the page cache holds.

**The program counter** of `perform_update` has one value per command (the names in
`UpdateSteps`), and each command is one action, from `Request` (lines 178-182) to
`CallReboot` (247). A `dd` to a partition or to `root.img`, and the rewriting of
`config.txt`, are two actions, begun and ended, because their middle is a state the
card can be left in. `Fail` is every raise of lines 122-243: it ends the handler
and undoes nothing, which is what the code does. A failed backup or restore may
have truncated the file `cp` was writing. `HardReboot` is line 250.

**The script of `fwupdater.gz`**, extracted from the archive, is

    mount devtmpfs, proc, /boot, /data
    [ -r /data/.firmware_update/root.img ] || normal_boot
    dd of=/dev/mmcblk0p2; sync; rm -rf /data/.firmware_update; normal_boot

where `normal_boot` deletes the line that starts with "initramfs" from
`config.txt`, syncs, unmounts and resets the board. Its actions are `CheckImage` to
`ResetAfterFlash`. They are marked external in the map, as are the board's
firmware, the page cache and the power.

**Shutdown.** `StartShutdown` is a call of `reboot` by a watch loop that runs, or by
the user; `KillAll` is the end of `rcK` and of init's kill, which ends
`perform_update` wherever it is; `UnmountAll` is `umount -a -r` and the restart of
the kernel.

**History.** `hurt` collects the phases (`Phase`) that were interrupted by a power
loss, a failed command, a kill or a hard reset. `Risky` are the three in which
`perform_update` has no way back: `install` (the dd to the boot partition),
`switch` (from there to the arming) and `armed` (armed, but not yet unmounted, so
that the card may hold the line without the image). Properties of a device that was
not hurt there are stated with `Unhurt`. This makes the limits of the code part of
the statement: an interruption in a risky phase can leave two releases mixed or, in
`install` and `armed`, a device that does not boot. `by` says who began the last
shutdown.

### `AtomicUpdate`: what an update promises

A device has an installed release, which the next boot runs, and may be
running it. The installed release changes in one step while the system runs
(`Commit`); no reset and no boot changes it. `FirmwareUpdate` implements it under the
mapping `InstalledRelease` (the image if `config.txt` is armed and the image there,
the root partition otherwise) and `RunningRelease`, up to the first interruption of a
risky phase (`Break`), after which nothing is promised (`Limp`).

### `LinkWatch`: the scripts that watch a link

`S35wifi`, `S36ppp`, `S40network` (its loops for the ethernet link and for the IP
address) and `S95motioneye` are one program with five parameters: `start` waits for
a device or a carrier, starts a daemon, waits until `connected`, and leaves
`watch &` behind, which sleeps five seconds, polls, and counts. The module models one
script, chosen by `Init`, and a clock in seconds: `Tick` is a second of a sleep or
of a poll that is failing (only the `wget` of `S95motioneye` takes time, up to
`LongestProbe`), and every other action of the script takes none. A failing poll sees
the link as it is when it ends.

Where the scripts differ, so do the operators: what `S35wifi` and `S36ppp` do when the
device does not appear (`DeviceExpired`, `DeviceGone`), which daemon must run
(`ConnectExpired`), who reads `watch.conf` and with which defaults (`Sourced`).
`watch.conf` is truncated and rewritten in place, and a power loss may leave any part of
it (`Cut`): nothing, an assignment of nothing, the first digits of a timeout, or the whole.
A line that is not there and one that ends after its `=` are different things: the first
leaves the script its default, the second replaces the default by the empty string (`None`
and `Empty` in the file, `Sourced`). So each network script may find itself without a
timeout, and `S36ppp`, which has no defaults, already when the line is missing.
`[ $count -lt ]` is then an error and counts as false: a loop reboots at the first bad
poll, and a wait that has no limit of its own (`Limited`) goes on for as long as what it
waits for is missing. The turns of such a wait are not counted, because nothing is
compared with them. Not modelled: the waits of `start_eth` for driver and operstate and that of
`usb_modeswitch`, which have the form of those modelled, and the addresses,
name servers and cameras the scripts set up.

`since` and `down` are history: seconds since a poll of the loop succeeded, and
seconds the link has been down while the loop ran.

### `NetWatch`: the loop of `S41netwatch`

The same for the connection to a host: `nc` succeeds as soon as the host is up and
fails at any moment before its timeout (refused) or when it is over. `failed`, `idle`
and `down` are history. Only settings that were saved in full are considered here; a
`watch.conf` cut at one of the lines of `S41netwatch` would give it an empty number of retries, which
`$(( - 1))` takes for none, or a command without its argument.

### `StreamEye`: the network camera mode

`streameyectl.py` has no file that records the mode: streamEye is on when the only
camera is a simple mjpeg camera at 127.0.0.1 (`Enabled`). Switching it on renames the
configuration of every camera to `.bak` and adds that camera; switching it off
removes it and renames the others back. `Ask` is the setter, which adds a callback to
the event loop if the mode differs from the cached one and, when it is to be on,
rewrites the configuration of camera 1 at once (`RewriteSettings`,
`SettingsRewritten`). The callback is `TurnOn` to `Forbid`, or `TurnOff` to `Allow`,
one action per file operation. Nothing else runs in the server meanwhile (it has
one thread), but `Stop` may kill it between any two; a file that was being written is
then `Cut`. `StartServer` reads the mode from the files.

motionEye itself is not in the repository. Of its module `config` the model takes what
`streameyectl.py` relies on: ids are the numbers of the files, a new camera gets the
first free one, a file it does not understand is no camera. A camera is the user's or
streamEye's, and its `@url` its own or that of streamEye.

**History.** `harm` collects what the code does not cope with: a request before the last
one was carried out ("overlap"), a camera added while others are hidden or before the
server has started again ("added"), the `@url` of streamEye in a camera of the
user ("url"), a configuration cut ("cut"), and, only for statements about the mode, a
switch interrupted ("stopped").

### `ExprData`, `ExprProto`, `Expr`, `ExprRewrite` and `ExprPrinted`: dependencies

`ExprData` says what an expression is; `Expr` is `expr.c` as operators: an expression is a
record, and code that writes through a pointer to a part of one returns the new expression.
Where the code calls itself with two pointers into one expression (`expr_eliminate_dups1`),
the operator works on paths. Values are those of `expr_calc_value`.

Nearly all of these functions call themselves or each other. `ExprProto` has their names in
the code as CONSTANTS, and an operator of `Expr` calls these where the code makes a call: the
text of an operator is one execution of its function. The `.cfg` files assign the operators to
the constants (`MCExpr`: `MCTransform(e)` is `Transform(e)`), so that TLC runs the recursion;
the proofs take the equality as a hypothesis, because the prover cannot work with RECURSIVE.

`ExprRewrite` is a state machine around them: a pair of expressions, as `menu_finalize` has
it, to which any of its rewritings is applied any number of times before what the two share
is taken out (`expr_eliminate_eq`). `ExprPrinted` adds the grammar of `zconf.y`, by which what
`expr_print` wrote is read again.

### `Lkc`, `Menu`, `Symbols`, `DepCheck`, `ConfigFiles`, `LkcProto`: the library

These have no state machine of their own: the memory of a program is a record `st`,
and a C function that changes it is an operator from one memory to the next.
`Menu` is the parser's actions and `menu_finalize`, from statements to a tree of entries;
`Symbols` is `sym_calc_value` with all it calls, visibility, and the setters, with the flags
which `Lkc` lists, that say what is cached (`VALID`), to be written (`WRITE`), given by the user (`USER`);
`DepCheck` is the depth-first search for recursive dependencies; `ConfigFiles` is
`confdata.c`: a line of a file is a symbol and the characters of its text, so that escaping
and unescaping are modelled, and headings are not. `LkcProto` (after `lkc_proto.h`) is what the
programs see of the library: its functions as CONSTANTS. `Conf` and `Mconf` extend it and are
proved about for every library; the `MC` modules give the constants the operators of the
modules above, so that TLC runs the programs with the library as it is.

### `Conf` and `ConfProperties`: the runs of `conf`

A plan is a sequence of runs, each with a mode, one of two versions of the Kconfig files and
a terminal or none. The program counter follows `main`; the recursion of `conf()` and
`check_conf()` is the stack `todo`. Each file operation is an action, `Crash` may come
between any two, and the disk may be full once (`MaxFaults`). `saved`, `asked` and `touched`
are history: the configuration written last, the Kconfig version that was completed, and
the headers touched since `auto.conf` changed. `ConfProperties` has the properties that speak of
the library's data and not only of what `conf` does with it.

### `Dialogs`, `Screens` and `Mconf`: menuconfig

`Dialogs` is lxdialog as operators: the local variables of a dialog, the list of items and
the lines on the screen are a record; a key gives the next one and a result. The screen
changes by the lines and characters the code prints (`PrintItem`, `DoScroll`, `Reprint`,
`UpdateText`), never as a whole unless the code draws it anew; what a loop of the code repeats is a recursive
function (`Repeat`). `Screens` is what the dialogs show: the items that `build_conf` makes of a
menu, and the lines and places of jumps in what is said of symbols. `Mconf` is `mconf.c`: `stack`
holds the functions that run, each with its place; a dialog is shown (`dlg`) and the user
presses keys (`Press`) or resizes the terminal (`Resize`) until it returns (`ret`).
`Interrupt` pushes the handler of SIGINT, from which the program never comes back, on
whatever runs: a dialog, or `conf_write` between any two of its steps. Texts are their
number of lines and the places where jump keys may stand; `Matches` stands for the regular
expressions of libc. `forgot` and `outcome.cut` are history: unsaved changes dropped by a
load that failed, and an interrupt in the middle of a write.

## 3. What is checked

`MCFirmwareUpdate` gives the constants their values. Three releases: the factory's
and two interchangeable new ones (symmetry in the safety run only), so that a
second request can be for another release than the first. Every bound is a guard:
`MaxLoss` power losses, `MaxRequests` requests. Deadlock is not checked: a device
that does not boot ("dead") stops, and so does one with all requests used up and
nobody left to reboot it.

| Run | Shows |
|---|---|
| `FirmwareUpdate.cfg` | every fault at once: power losses in every phase (2), every command of `perform_update` may fail, all watch loops and the user may reboot, 2 requests. 1.6 million states. |
| `FirmwareUpdateLive.cfg` | liveness with fairness: power losses in every phase (2), the reboot command may fail, all loops may reboot, 1 request. |

Two losses are enough for the second to hit a flashing or a boot that already
recovers from the first; a third meets a card in the same set of states. Two requests
are enough for one to follow a failed one, an armed one, or to come while the
shutdown of the first runs.

Safety:

- `BricksOnlyInWindow`: the device stops booting only if the dd to the boot partition
  was interrupted, or the device was reset between arming and the unmounting. The
  second window exists because nothing syncs `root.img` before `config.txt` names
  `fwupdater.gz`: a torn `root.img` may be flashed.
- `OneRelease`: kernel and root are of one release when no update is under way.
- `TornRootIsReflashed`, `ArmedMeansFlashable`: what the script of `fwupdater.gz`
  leaves on the card when it is interrupted, it can start over from.
- `UserConfigKept`: the lines of `config.txt` are on the card, in `/tmp` or in memory at
  every step, failed and repeated requests included.
- `StoppedWatchersStaySilent`: after "S41netwatch stop" neither its loop nor
  that of `S95motioneye` reboots the device, except when the host was taken out of
  `watch.conf` after boot: `S41netwatch` then exits (line 14) before its stop branch.
- `UpdateIsAtomic`: the refinement of `AtomicUpdate`.

Liveness:

- `UpdateArrives`: an update that got as far as calling reboot is followed by a running
  system of one release, unless a risky phase was interrupted.
- `FlashEnds`: the device does not reboot into `fwupdater` for ever.

Fairness (`Fairness`) in these runs is weak fairness of `Update`, `Shutdown`, `Boot` and
`Fwupdater`: each is a sequential program, or init, that goes on while there is
power. Requests, failures, settings, watch loops, write-back and power
losses are under no obligation.

`LinkWatch.cfg` runs every script, with the default timeouts of the code (20 s and 40 s;
35 s in place of the 120 s of `S95motioneye`), with 1 s and 12 s as timeouts that are
saved, the first less than a period of the loop and a first part of the second, neither a
multiple of the period, and polls of up to 2 s. 900 000 states, no other bound: the counters
are bounded by the timeouts.

- `TypeOK` says besides the types which settings a script may run with: one with a default
  lacks a timeout only after a save that ended right after the `=`, and `S95motioneye` never.
- `PatientWatch`: a loop reboots the device only after `link_watch_timeout` and five
  seconds more without a good poll, whatever the link does in between; without a timeout, after
  five seconds.
- `PromptWatch`: nothing stays down under a loop for longer than
  `(timeout + 10) * (5 + LongestProbe) / 5` seconds. For the web server that is 182 s where
  `watch_timeout` says 120: five seconds are counted for a turn that takes seven.
- `BootGoesOn` (liveness): a script does not hold up the boot for ever; a wait without a limit
  (without a timeout, `S36ppp` for its modem, it and `S35wifi` for the link) may, but not if what
  it waits for is there to stay. It assumes that time passes (`WF(Tick)`) and that the script,
  a process of its own, goes on (`WF(Starting)`).

`NetWatch.cfg` takes 1, 2 or 4 attempts, a timeout of 3 s and an interval of 5 s:

- `PatientNetwatch`: the device reboots at the `netwatch_retries`-th failure in a row.
- `PromptNetwatch`: no host stays down for longer than
  `netwatch_interval + netwatch_retries * netwatch_timeout` seconds.
- `GivesUp` (liveness): a loop that finds its host down reboots, unless the host comes
  back; fairness as above.

`StreamEye.cfg` takes two cameras, one of them simple mjpeg, in any of three ids, 3
requests (on, off, on; or two that overlap and a third), and 2 stops: one may interrupt a
switch and the other its repetition. Deadlock is not checked: a server waits for
requests.

- `CamerasKept`: however often switches are interrupted and repeated, every camera of the
  user has its file, as `.conf` or as `.bak`. Four kinds of harm are excluded and each is a way
  to lose one; TLC finds all of them when they are not.
- `OffShowsAll`: switching off shows every camera of the user, whatever was interrupted before.
- `ModeIsOnDisk`: the cached mode is the one the next start will find.
- `LastRequestWins`: with nothing pending, the mode is the one asked for last.
- `SwitchedOff`: off means no hidden files, `motion.conf` complete, adding cameras allowed.

`StreamEyeUrl.cfg` violates `OnlyItsOwnUrl`: the setter rewrites the `@url` of camera 1 before
the callback has put streamEye's camera there. If the user's first camera is a simple
mjpeg camera it loses its address, and the device may take it for streamEye's.

Three runs show where the code differs from the descriptions of the settings in
`watchctl.py`:

- `LinkWatchSetting.cfg` violates `RebootsOnlyIfWatched`: with `link_watch=no`, "enable this
  if you want the system to reboot upon detecting network link issues", `S35wifi` and
  `S36ppp` still reboot when the link does not come up at boot.
- `NetWatchRetries.cfg` violates `RetriesAsConfigured`: `netwatch_retries`, "the number of
  times to retry", is the number of attempts.
- `NetWatchInterval.cfg` violates `IntervalBetweenConnections`: after a failure the next
  attempt follows at once, without "the time to wait between connections".

`ExprRewrite.cfg` starts from every expression over two booleans and a tristate of up to two
operators, and some of three, each with three dependencies of a menu:

- `MeaningKept`: no sequence of rewritings changes whether something is on; those that are not
  meant for y and n only keep the value m too.
- `BelowMeansDepends`: what `menu_finalize` puts below a menu is off when the menu is.
- `PrintedReadsBack`: what `expr_print` writes has, by the grammar, the value of what it printed.
- `UnmetIsBlamed`: the warning about a selected symbol without its dependencies names one.

`m` is compared with and is never a dependency by itself: `menu_check_dep` (`menu.c:95-99`)
makes it `m && MODULES`, and no Kconfig file of the repository depends on it. It is not an
omission without effect: `m` is neither `y` nor `n`, so that the rules for these make it `y`
(TLC finds that in two steps), and "with every symbol y or n" would say nothing of it.

`Conf.cfg` runs seven plans over two versions of a small tree (a selection, a choice that
depends, a number with a range, a string with characters to escape; the second version
moves, narrows and removes some of them), with all answers from a small set and two faults:

- `ConfigIsLegal`: a `.config` that is written is a legal configuration by its text alone.
- `SavedReadsBack`: `.config` reads back as what was in memory, and `make savedefconfig`
  followed by `make defconfig` gives it again.
- `LastSaveSurvives`: the configuration saved last is in `.config` or `.config.old` after any
  crash. The one exception is in the statement: a new run after the disk was full.
- `HeadersTouched`: when `auto.conf` is replaced, every header of a changed symbol has been
  touched. Quoted strings that are in no Kconfig file any more are left out:
  `conf_split_config` never sees them.
- `SplitFindsAll`: the symbols whose headers `conf_split_config` is about to touch are all those
  whose lines in `auto.conf` will change.
- `NothingIsAskedTwice`: asking ends when nothing new is left, and the build's run that follows
  a completed configuration asks nothing.
- `CyclesReported`: over 288 graphs, a cycle is reported if and only if there is one.

`Mconf.cfg` has thirteen users, each with a few keys, terminal heights and one or two
disks (`MCSessions`): walking and setting, menus that do not fit and scroll, resizing to every
kind of too small, searching and jumping from a page of results that scrolls, loading and
saving under other names, a missing `.config`, a disk that cannot be written, SIGINT,
`single_menu_mode`. 313 000 states; `limit` bounds what changes values, text or heights.

- `ExitTellsTheTruth`: unless it says that changes were not saved, menuconfig ends with a file
  that reads back as what is in memory. Two exceptions are in the statement, and TLC finds a
  counterexample without either: `forgot` (`confdata.c:411`) and `outcome.cut` (a SIGINT while
  `conf_write` shows its message: answering yes then writes an empty `.config`, because the
  flags that say what to write have been cleared at line 801).
- `ScreenIsTrue`: lists show the items around the scroll position and highlight the one ENTER
  takes; an input box shows the text around its cursor; the menus named at the top are those
  around the one shown. A menu that was resized is left out: `menubox.c:242-250` keeps an old
  `first_item` when the window grows, so that what is highlighted is not what ENTER takes, and
  an item past the end may be read (`Crash`).
- `JumpGoesWhereShown`: the jump keys of a page of search results are those on the screen, and
  each goes to what it stands at.
- `LibraryData`: the library gives menuconfig lists and texts that its dialogs can show. The
  places of jumps lie in the text and follow each other, one to a line: `update_text` numbers
  them as it meets them, and would number wrongly otherwise. And what `conf_write` is about to
  rename reads back as the configuration in memory, but for a handler that interrupted it.
- `ChangesAreCounted`: no step changes the configuration that would be saved and leaves the
  number of changes at 0, or sets it to 0 but the end of `conf_write` and a load. That number is
  all `handle_exit` looks at.

Other defects that modelling met, which the properties state around: `sym_set_string_value`
returns early when the old and the new text agree and leaves the symbol at its default
(`symbol.c:676`); `sym_check_deps` returns nothing at the top of a cycle (1283), so that
`zconf.y:513` does not count it and the program goes on; `conf_string` and `conf_load` of
menuconfig spin when the terminal is too small for the box (`Spinning`); after ESC in the
question at the end, `save_and_exit` stays set and the next message goes to the terminal
under the dialogs.

## 4. What is proved

`FirmwareUpdate_proofs`, for every set of releases, every choice of faults
(`LossIn`, `FailAt`, `Rebooter`) and every bound, from `ConstantsOK` alone (the
markers `Torn` and `Absent` are different and no releases, the parameters are
of the sets their comments name):

- `TypeCorrect`: `Spec => []TypeOK`.
- `InductiveInvariant`: `Spec => []IInv`.
- `OneReleaseHolds`, `TornRootIsReflashedHolds`, `ArmedMeansFlashableHolds`.
- `UpdateRefinesAtomic`: `Spec => UpdateIsAtomic`.
- `BricksOnlyInWindowHolds`, `UserConfigKeptHolds`, `StoppedWatchersStaySilentHolds`.

The three properties are not inductive: they speak of the card at rest and say
nothing of why `fwupdater` finds it as it does. `IInv` adds, per program, what it knows
of the card at each step: `SystemInv` for `perform_update` (from the backup on,
`root.img` is the release asked for; from the mount on, so is `/boot`; what is armed
has its image), `OffInv` for the boot, `FlashInv` for the script (until the sync
the image stays on the card; after it the root partition is the release of
`/boot`), and `RootStable` (only `fwupdater` writes the root partition). All but
`RootStable` are claimed only for a device that is `Unhurt`. The lemmas go one group of
actions at a time; the key one is `InterruptKeepsInv`: a power loss makes the cache
the disk, and outside the risky phases the disk is fit to boot from. The
refinement has three parts: a step that leaves the device unhurt is an abstract
step or a stutter (`UnhurtStep`), a step that hurts it is `Break`, and a step of a
hurt one is `Limp` (`HurtStep`).

The last three allow more or other interruptions than `IInv`, and have invariants of their own,
one step lemma each: `SoundInv` (the boot partition may be newer than the root partition, but
both are whole, and what is armed has a whole image: an interruption in the phase "switch" is
survived), `ConfigInv` (where the lines of the user are at each step of `perform_update`,
and that a power loss before the dd finds them on the disk) and `StoppedInv` (which watch loops
`perform_update` has stopped).

`LinkWatch_proofs`, for every timeout that can be saved and every `LongestProbe`, from
`LinkConstantsOK` alone (timeouts are numbers, the markers `None` and `Empty` are neither
numbers nor answers nor each other, and only `S36ppp` has no default):

- `TypeCorrect`, `WatchInvariant`: `Spec => []TypeOK` and `Spec => []WatchInv`.
- `PatientWatchHolds`, `PromptWatchHolds`.

Neither of the last two is inductive: they bound history by the timeout, and say
nothing of `count`, which the code compares. `WatchInv` relates the three:
`count + 5 <= since + timer`, so that a count that has reached the timeout means as much
time without a good poll; and `5 * (down + timer) <= (count + 5) * (5 + Probe)`, so that
a link that is down cannot outlast the counting. Both mention `timer`: they must
hold in the middle of a sleep.

`NetWatch_proofs`, for all numbers of retries, timeouts and intervals that are not zero
(`NetConstantsOK`; `watchctl.py` lets nothing else be saved): `TypeCorrect`, `NetInvariant`,
`PatientNetwatchHolds`, `PromptNetwatchHolds`. Here too the properties bound history, and
`NetInv` says what it has to do with `count`: `failed = count`, and
`down + timer <= Interval + (count + 1) * Timeout`.

`StreamEye_proofs`, for any cameras, ids, number of requests and number of stops, from
`StreamEyeConstantsOK` (the markers `Absent` and `Cut` are different and no configurations):

- `TypeCorrect`, `Inductive`: `Spec => []TypeOK` and `Spec => []IInv`.
- `CamerasKeptHolds`, `ModeIsOnDiskHolds`, `LastRequestWinsHolds`, `SwitchedOffHolds`,
  `OffShowsAllHolds`.

Each property allows a different degree of `harm`, and so does the part of `IInv` it follows
from. `CalmInv` (interrupted switches, and files that were cut) says where streamEye's camera
may be and that it is alone, what each step of a switch has left to do
(`todo = Present(conf)` while cameras are hidden, `todo = Present(bak)` while they are
restored), and that at most one callback is pending, which changes the mode. `QuietInv`
(interrupted switches only) says that every camera of the user is in exactly one of `conf`
and `bak`. `FreshInv` (no harm) ties the mode to `asked`, and `threads` to the file that
owns each id, hidden or not (`Owner`): hiding and restoring leave it as it is. `Now` puts the
file that is being rewritten back in its place, which makes `RewriteSettings` and
`SettingsRewritten` stutters for all three. As the degrees are nested and `harm` only grows
(`HarmGrows`), each step lemma (`CalmStep`, `QuietStep`, `FreshStep`) may use the weaker ones.

`WatchInv`, `NetInv` and the invariants of `FirmwareUpdate_proofs` and `StreamEye_proofs` are
proved and in no run: the properties that follow from them are.

`Conf_proofs`, for every library, plan, number of faults and mode of `conf`:

- `SaveSurvives`: `Spec => []LastSaveSurvives`. The property says where the last save is, not when
  it moves there: `SaveInv` adds that before the first rename of `conf_write` a `.config` beside a
  last save is that save, and that between the two renames there is no `.config`, so that
  nothing can be renamed over `.config.old`.
- `HeadersAreTouched`: `Spec /\ []SplitFindsAll => HeadersTouched`. That `conf_split_config` finds the
  symbols whose lines change is a fact about the library's data, which the run checks; the
  theorem is about what `conf` makes of it. `TouchInv` says that each such symbol is touched or still
  in `todo`, from the first touch to the last rename, whatever crash comes between, and that the
  header and `auto.conf` speak of the same symbols.

`Dialogs_proofs`, for any items, characters and texts, any height of the terminal and all sizes
of the window, from `DialogsConstantsOK` (sizes are positive): one theorem for each dialog, which
says that any key, or a change of the terminal's size, leads a true dialog to a true dialog or to
its end.

- `MenuKeyIs`, `ListKeyIs`: a list shows the items around its scroll position, and one of them is
  highlighted. The code prints one line and scrolls the others by one; a page is a loop of such
  steps. What holds after one of them holds after the loop, since `Repeat` is a
  recursive function and the lemmas bound its argument by the number of items.
- `FieldKeyIs`, and `FieldKeepsTrue` for the keys that edit: the code does not clear an input box: it
  prints the text again with one blank after it, and only when it has to. `ReprintIsTrue` says
  when that is enough, namely when everything further right is blank already;
  `CursorLeftMoves` and `CursorRightMoves` say by how much the box scrolls, which is never more
  than that one blank.
- `TextKeyIs`: a text box knows a page by offsets, and which jump keys work from the last time
  it was drawn. The invariant `TrueText` says that the pointer is inside the text and that the
  keys that work are those that stand on the page, each at one place, with the target of that
  place. Where jump keys are shown, places must follow each other in the text; in other texts
  nothing is assumed.

`Mconf_proofs`, for every Kconfig tree, library, session and set of files, from
`MconfConstantsOK` and `DialogsConstantsOK`:

- `ScreenStaysTrue`, `JumpsStayTrue`: `Spec /\ []ShowsData => []ScreenIsTrue`, and the same of
  `JumpGoesWhereShown`. `ShowsData` is the first part of `LibraryData`: the lists and texts the
  library gives. The theorems on the dialogs say that they stay true; `Inv` says what they begin
  with: the scroll positions and names that the frames of `stack` remember, what a dialog has
  returned, and that a menu is shown under the titles of the frames below it.
- `ExitStaysTrue`: `Spec /\ []LibraryData /\ ChangesAreCounted => []ExitTellsTheTruth`. The two
  hypotheses are what menuconfig relies on: that the library counts its changes, step by step,
  and that what it writes reads back. The program has to keep the number of changes, the name
  of the file and the file together while dialogs, loads and saves call each other and SIGINT
  comes. `TruthInv` says that the file reads back as the configuration whenever the number is 0
  (`Told`); that for a moment after `conf_save` it is another file, the one it was given; that
  on top of `conf_write` there is at most a text, and below it the function that takes over the
  name it has written (`Shape`); and that the handler calls nothing else (`Handler`), so that
  either it runs on top of `conf_write`, and what it says is marked (`cut`), or all of that is
  so (`FileIsTrue`). There are lemmas on stacks for each way to go on (`ReplacedKeeps`,
  `PushedKeeps`, `PoppedKeeps`, and the same of `Shape`), and one step lemma (`PlainStep`) for
  the forty actions that neither write nor end.

`LibraryData`, `ChangesAreCounted` and `SplitFindsAll` are checked by the runs for the library as
it is modelled. They speak of `Symbols`, `ConfigFiles` and `Screens`, which recur over trees.

`ExprRewrite_proofs`, for dependencies of any size and depth, over any symbols of type boolean
or tristate:

- `Rewriting`: `Spec => []RewriteInv`.
- `MeaningIsKept`: `Spec => []MeaningKept`.
- `BelowMenuDependsOnIt`: `Spec => []BelowMeansDepends`.
- `SelectorIsBlamed`: `Spec => []UnmetIsBlamed`.

They rest on three hypotheses. `ConstantsAssumption` (which TLC evaluates): `y`, `m`, `n` and
the other constants are not among the symbols with a value of their own, and `m` is no
boolean. `Parsed`: the expressions to begin with are expressions over these symbols, without `m`
as an operand (section 3), or there is none (`Null`). `Recurs`: a function that is called is the
operator of `Expr` that models it, for the arguments it is called with. Read as equations
for the constants of `ExprProto` these have a solution, as each call is for something smaller in
the order of the proof; the assignments of the `.cfg` are it.

An expression is what the constructors build in finitely many steps. Without induction over
data this is said by a set that has the parts of each of its members and gives them a
weight (`Weighed`, `IsExpr`): a symbol 1, a comparison 3, a negation twice its part and one more,
a list its parts and two. A negation that moves into a list makes it lighter, so that
`expr_transform`, which recurs on `!a || !b` for `!(a && b)`, recurs on something lighter. The weight
is unique (`OneWeight`), and induction over numbers (`LeastNumber`, from the well-foundedness of
the subsets of a finite set, which the library has without an operator parameter) does the
rest: for each function, a lemma on one execution, given what its calls for lighter arguments do.

- `YnSimplifies`, `TransformSimplifies`: these keep the value of every expression for all three
  values, and make none heavier. `BoolKeepsTwoValue`, `CompareKeepsTwoValue`: these keep it where
  no symbol is a module.
- `Equivalence`: `expr_eq` and `__expr_eliminate_eq`, which call each other, by one induction over
  the weight of both arguments. Expressions that `expr_eq` accepts have one value; what is taken
  out of two lists is a member of both, so that if what is left of one implies what is left of
  the other, so did the whole (`Common`). `ExtractKeeps` says the same of `expr_extract_eq`.
- `JoinIs`: the rules of `expr_join_or` and `expr_join_and`, by cases: what they return says
  what the two members said and is lighter than both.
- `Dups1Is`, `Dups2Is`: the two passes write through two pointers into one expression. A pointer
  is a path through lists of one type (`IsPath`); what is put at its end changes the value
  of the whole as it changes that of the member (`SpineIs`), and leaves other paths as they are
  (`StaysIs`). `Reduces` says what a call may do: the members stay where they are or become
  constants, the value of the list is kept, and it is not heavier; if anything was changed there is
  a constant in it (`Outcome`). The induction is over the weight of the list and, within
  that, over how far the two pointers are from its members: a call for the parts of a list has
  the same list and longer paths, one for a member that is a list of the other type has a
  lighter list.
- `DupsKeeps`: `expr_eliminate_dups` ends, because after a pass that changed something
  `expr_eliminate_yn` drops a constant and makes the expression lighter (`YnLightens`).
  `JoinedKeeps`: if no contradiction was used, modules keep their value, too.
- `DependsIsOff`, `OthersDecide`: what `expr_depends_symbol` and `expr_contains_symbol` say.
- `UnmetIs`: `expr_simplify_unmet_dep`, over the selectors of a symbol.

`MeaningKept` is nearly inductive; `RewriteInv` adds that the expressions stay expressions, that
their value is kept for every valuation and not only those of the run, and, for the end, that
the remainder of the entry implies that of the menu only if the entry implied the menu.
`BelowMeansDepends` follows when the remainder of the menu is `y`.

Only model-checked: the liveness properties and the fairness they need, which are beyond the
prover; `PrintedReadsBack` of expressions, as the grammar is a RECURSIVE operator over sequences of
tokens; `ConfigIsLegal`, `SavedReadsBack`, `NothingIsAskedTwice` and `CyclesReported` of
`conf`; and the three hypotheses above (`LibraryData`, `ChangesAreCounted`, `SplitFindsAll`). The
last seven are about what the library computes from the tree of menus and from the symbols a
symbol depends on, in modules with RECURSIVE operators over a memory that changes on the way;
what was done for expressions, constants in place of the calls and an induction over
weights, would have to be done for the memory of the whole library.

## 5. What is not modelled

- Data partition and hardware watchdog (`S11datapart`, `S02watchdog`, `sbin/reboot`): what
  matters is what a power loss leaves of a partition table, what `mke2fs` makes of a disk, and
  when a driver disarms its device; none of the three is in the repository.
- `streamEye`'s processes (`S94streameye`, `streameye.sh`): started and killed by name; the mode
  switch, which is what can lose cameras, is modelled.
- Settings read back for the user interface (`watchctl.py`, `ipctl.py`, `servicectl.py`,
  `extractl.py`, `boardctl.py`): each is one file, read and rewritten in one call. `watchctl.py:122`
  overwrites one timeout with another; no state depends on it until the page is saved.
- `dhclient-script` and `S60date`: their hazards are listed in `PROJECT.json`; they race with
  dhclient, pppd and the kernel's process ids, which are not here.
- Of Kconfig: the lexer, environment variables in prompts, `KCONFIG_ALLCONFIG`,
  `KCONFIG_OVERWRITECONFIG`, `KCONFIG_NOSILENTUPDATE` and `KCONFIG_PROBABILITY`; a full disk
  for files other than the `.config` that `conf` writes (`menuconfig` knows a disk that cannot be
  written, but none that is full); the width of the terminal; functions that are not safe in a
  signal handler; and the front ends nconf, gconf and qconf, which call the same library from
  the callbacks of their toolkits.
- The build scripts (sequential, on the build host), the listing of versions (no state), the
  small init scripts (one daemon each), the rest of buildroot (third-party), and the wording of
  logs.
