----------------------------- MODULE LinkWatch -----------------------------
(***************************************************************************)
(* The init scripts that reboot a device when something stays down: the    *)
(* wireless link (S35wifi), the modem connection (S36ppp), the ethernet    *)
(* link and the IP address (S40network), the web server (S95motioneye).    *)
(* Each starts a service, waits for it, and then watches it with a loop    *)
(* that sleeps, polls and counts.  One script runs; time is in seconds.    *)
(***************************************************************************)
EXTENDS Naturals

CONSTANTS
    Scripts,          \* the scripts to consider
    None,             \* a setting that is not set
    Empty,            \* a setting to which no answer, or a part of one, is assigned
    DefaultTimeout,   \* link_watch_timeout of each script, without a watch.conf
    Timeouts,         \* the values of link_watch_timeout that may be saved
    LongestProbe      \* how long a failing wget of S95motioneye takes at most

ASSUME LinkConstantsOK ==
    /\ Scripts \subseteq {"wifi", "ppp", "eth", "ip", "motioneye"}
    /\ None \notin Nat /\ Empty \notin Nat /\ None # Empty
    /\ {None, Empty} \cap {"yes", "no"} = {}
    /\ DefaultTimeout \in [Scripts -> Nat \cup {None}]
    /\ \A s \in Scripts : DefaultTimeout[s] = None => s = "ppp"
    /\ Timeouts \subseteq Nat
    /\ LongestProbe \in Nat

VARIABLES
    script,   \* which script this is
    file,     \* link_watch and link_watch_timeout in /data/etc/watch.conf, or
              \* ip_watch and ip_watch_timeout for the script "ip"
    conf,     \* the two as the script read them; no number is the timeout None
    pc,       \* what the script does
    count,    \* the variable count
    timer,    \* seconds until the sleep, or the failing poll, is over
    device,   \* the interface or modem exists
    daemon,   \* wpa_supplicant or pppd runs
    link,     \* what is watched is up
    since,    \* history: seconds since a poll of the loop succeeded
    down      \* history: seconds the link has been down under the loop's eyes

vars == <<script, file, conf, pc, count, timer, device, daemon, link, since, down>>

Period == 5           \* sleep 5
Probe == IF script = "motioneye" THEN LongestProbe ELSE 0
Delay(sleep) == sleep .. (sleep + Probe)

-----------------------------------------------------------------------------
(* Settings.                                                               *)

Saved == [watch : {"yes", "no"}, timeout : Timeouts]

\* There is no watch.conf (S11datapart did not get to copying one), or nothing in it.
Unset == [watch |-> None, timeout |-> None]

\* The first digits of a timeout; watchctl.py has none of more than four.
Prefixes(t) == {p \in 1..t : \E m \in {1, 10, 100, 1000} : p = t \div m}

\* What a power loss may leave of a watch.conf that is being rewritten: a file
\* that ends in or before the first of the two lines, right after the = of the
\* second, in its number, or later.
Cut ==      [watch : {None, Empty, "yes", "no"}, timeout : {None}]
       \cup [watch : {"yes", "no"}, timeout : {Empty}]
       \cup [watch : {"yes", "no"}, timeout : UNION {Prefixes(t) : t \in Timeouts}]

\* S36ppp has no defaults of its own, S95motioneye reads no watch.conf.
DefaultWatch == IF script = "ppp" THEN None ELSE "yes"

\* What is assigned, be it the empty string, overrides the default.
Sourced ==
    IF script = "motioneye"
    THEN [watch |-> "yes", timeout |-> DefaultTimeout[script]]
    ELSE [watch   |-> IF file.watch = None THEN DefaultWatch ELSE file.watch,
          timeout |-> CASE file.timeout = None  -> DefaultTimeout[script]
                        [] file.timeout = Empty -> None
                        [] OTHER                -> file.timeout]

\* [ $count -lt $link_watch_timeout ] and -gt; an empty operand is an error,
\* and counts as false.
CountBelow == conf.timeout # None /\ count < conf.timeout
CountAbove == conf.timeout # None /\ count > conf.timeout

SaveSettings ==
    /\ pc # "off"
    /\ file' \in Saved
    /\ UNCHANGED <<script, conf, pc, count, timer, device, daemon, link, since, down>>

-----------------------------------------------------------------------------
(* Starting the service and waiting for it.                                *)

\* The script goes on to the given place; its loop, if any, begins afresh.
Enter(place, sleep) ==
    /\ pc' = place
    /\ count' = 0
    /\ timer' \in sleep
    /\ since' = 0 /\ down' = 0

\* Mutant of Start: no script has a link_watch_timeout of its own.
StartWithoutDefault ==
    /\ pc = "off"
    /\ conf' = [Sourced EXCEPT !.timeout = IF file.timeout = None THEN None ELSE @]
    /\ Enter(CASE script \in {"wifi", "ppp"} -> "device"
               [] script \in {"eth", "ip"}   -> "negotiate"
               [] script = "motioneye"       -> "connect",
             IF script = "motioneye" THEN Delay(1) ELSE {0})
    /\ device' \in BOOLEAN /\ daemon' = TRUE /\ link' \in BOOLEAN
    /\ UNCHANGED <<script, file>>

Start ==
    /\ pc = "off"
    /\ conf' = Sourced
    /\ Enter(CASE script \in {"wifi", "ppp"} -> "device"
               [] script \in {"eth", "ip"}   -> "negotiate"
               [] script = "motioneye"       -> "connect",
             IF script = "motioneye" THEN Delay(1) ELSE {0})
    /\ device' \in BOOLEAN /\ daemon' = TRUE /\ link' \in BOOLEAN
    /\ UNCHANGED <<script, file>>

Wakes(place) == pc = place /\ timer = 0

\* A wait has the timeout for a limit, or one of its own.
Limited == \/ conf.timeout # None
           \/ pc = "negotiate"
           \/ pc = "device" /\ script = "wifi"

\* Without a limit the turns are compared with nothing, and not counted here.
Again(sleep) ==
    /\ count' = IF Limited THEN count + 1 ELSE count
    /\ timer' \in sleep
    /\ UNCHANGED <<script, file, conf, pc, device, daemon, link, since, down>>

DeviceExpired == IF script = "wifi" THEN count >= 5 ELSE CountAbove

\* Waiting for wlan0, or for the modem.
DeviceMissing ==
    /\ Wakes("device") /\ ~device /\ ~DeviceExpired
    /\ Again({1})

DeviceGone ==
    /\ Wakes("device") /\ DeviceExpired
    /\ device => script = "wifi"
    /\ Enter("left", {0})
    /\ UNCHANGED <<script, file, conf, device, daemon, link>>

DeviceFound ==
    /\ Wakes("device") /\ device
    /\ DeviceExpired => script # "wifi"
    /\ Enter("connect", {1})
    /\ UNCHANGED <<script, file, conf, device, daemon, link>>

\* S40network waits ten times for the carrier and then gives up.
NotNegotiated == Wakes("negotiate") /\ ~link /\ count < 10 /\ Again({1})

NoLink ==
    /\ Wakes("negotiate") /\ count >= 10
    /\ Enter("left", {0})
    /\ UNCHANGED <<script, file, conf, device, daemon, link>>

\* The service is up: watch & or nothing.
Watch ==
    /\ IF conf.watch = "yes" THEN Enter("watch", Delay(Period)) ELSE Enter("left", {0})
    /\ UNCHANGED <<script, file, conf, device, daemon, link>>

Negotiated == Wakes("negotiate") /\ link /\ count < 10 /\ Watch
Connected  == Wakes("connect") /\ link /\ Watch

ConnectExpired == CountAbove \/ (script \in {"wifi", "ppp"} /\ ~daemon)

\* Mutant of NotConnected: the turns are not counted.
NotConnectedForEver ==
    /\ Wakes("connect") /\ ~link /\ ~ConnectExpired
    /\ timer' \in Delay(1)
    /\ UNCHANGED <<script, file, conf, pc, count, device, daemon, link, since, down>>

NotConnected ==
    /\ Wakes("connect") /\ ~link /\ ~ConnectExpired
    /\ Again(Delay(1))

\* "failed": the script calls reboot, whatever link_watch says.
ConnectFails ==
    /\ Wakes("connect") /\ ~link /\ ConnectExpired
    /\ pc' = "reboot"
    /\ UNCHANGED <<script, file, conf, count, timer, device, daemon, link, since, down>>

-----------------------------------------------------------------------------
(* The watch loop.                                                         *)

\* Mutant of GoodPoll: count is not reset.
GoodPollKeepsCount ==
    /\ Wakes("watch") /\ link
    /\ timer' \in Delay(Period)
    /\ since' = 0
    /\ UNCHANGED <<script, file, conf, pc, count, device, daemon, link, down>>

GoodPoll ==
    /\ Wakes("watch") /\ link
    /\ count' = 0
    /\ timer' \in Delay(Period)
    /\ since' = 0
    /\ UNCHANGED <<script, file, conf, pc, device, daemon, link, down>>

\* Mutant of BadPoll: a second is counted, the loop sleeps five.
BadPollCountsOne ==
    /\ Wakes("watch") /\ ~link /\ CountBelow
    /\ count' = count + 1
    /\ timer' \in Delay(Period)
    /\ UNCHANGED <<script, file, conf, pc, device, daemon, link, since, down>>

BadPoll ==
    /\ Wakes("watch") /\ ~link /\ CountBelow
    /\ count' = count + Period
    /\ timer' \in Delay(Period)
    /\ UNCHANGED <<script, file, conf, pc, device, daemon, link, since, down>>

\* The loop calls reboot (and goes on calling it until it is killed, which
\* adds nothing: init is shutting down already).
LastPoll ==
    /\ Wakes("watch") /\ ~link /\ ~CountBelow
    /\ pc' = "reboot"
    /\ UNCHANGED <<script, file, conf, count, timer, device, daemon, link, since, down>>

-----------------------------------------------------------------------------
(* The rest of the device.                                                 *)

Tick ==
    /\ timer > 0
    /\ pc # "reboot"
    /\ timer' = timer - 1
    /\ since' = IF pc = "watch" THEN since + 1 ELSE since
    /\ down' = IF pc = "watch" /\ ~link THEN down + 1 ELSE 0
    /\ UNCHANGED <<script, file, conf, pc, count, device, daemon, link>>

LinkChanges ==
    /\ pc \in {"negotiate", "connect", "watch"}
    /\ link' = ~link
    /\ down' = 0
    /\ UNCHANGED <<script, file, conf, pc, count, timer, device, daemon, since>>

DeviceChanges ==
    /\ pc = "device"
    /\ device' = ~device
    /\ UNCHANGED <<script, file, conf, pc, count, timer, daemon, link, since, down>>

DaemonDies ==
    /\ pc = "connect" /\ daemon
    /\ daemon' = FALSE
    /\ UNCHANGED <<script, file, conf, pc, count, timer, device, link, since, down>>

\* The reboot this script called, or one for another reason.
Shutdown ==
    /\ pc # "off"
    /\ Enter("off", {0})
    /\ UNCHANGED <<script, file, conf, device, daemon, link>>

PowerLossWhileSaving ==
    /\ pc # "off"
    /\ file' \in Cut
    /\ Enter("off", {0})
    /\ UNCHANGED <<script, conf, device, daemon, link>>

-----------------------------------------------------------------------------

Init ==
    /\ script \in Scripts
    /\ file \in Saved \cup {Unset}
    /\ conf = Sourced
    /\ pc = "off"
    /\ count = 0 /\ timer = 0
    /\ device = FALSE /\ daemon = TRUE /\ link = FALSE
    /\ since = 0 /\ down = 0

Starting == \/ DeviceMissing \/ DeviceGone \/ DeviceFound
            \/ NotNegotiated \/ NoLink \/ Negotiated
            \/ NotConnected \/ Connected \/ ConnectFails

Watching == GoodPoll \/ BadPoll \/ LastPoll

Next == \/ Start \/ Starting \/ Watching
        \/ Tick
        \/ LinkChanges \/ DeviceChanges \/ DaemonDies
        \/ SaveSettings
        \/ Shutdown \/ PowerLossWhileSaving

Spec == Init /\ [][Next]_vars

\* Time passes and the script goes on; nothing else has to happen.
FairSpec == Spec /\ WF_vars(Tick) /\ WF_vars(Starting)

-----------------------------------------------------------------------------
(* Properties.                                                             *)

\* The variables have their types.  A script that has a default runs without a
\* timeout only after a save that was cut short right after its =, and so with
\* a link_watch that was written in full; S95motioneye never does.
TypeOK ==
    /\ script \in Scripts
    /\ file \in Saved \cup Cut
    /\ conf \in [watch : {"yes", "no", None, Empty}, timeout : Nat \cup {None}]
    /\ conf.timeout = None /\ script # "ppp" =>
           script # "motioneye" /\ conf.watch \in {"yes", "no"}
    /\ pc \in {"off", "device", "negotiate", "connect", "watch", "left", "reboot"}
    /\ count \in Nat /\ timer \in Nat
    /\ device \in BOOLEAN /\ daemon \in BOOLEAN /\ link \in BOOLEAN
    /\ since \in Nat /\ down \in Nat

\* How far a loop counts: without a timeout the first bad poll is the last.
Patience == IF conf.timeout = None THEN 0 ELSE conf.timeout

\* A watch loop calls reboot only when no poll succeeded for the whole timeout
\* and the sleep before it, however the link comes and goes; one that has no
\* timeout, only when no poll succeeded for a whole sleep.
PatientWatch ==
    [][ pc = "watch" /\ pc' = "reboot" => since >= Patience + Period ]_vars

\* A loop lets nothing stay down for longer than it takes to count up to the
\* timeout, if any, and once more, in steps of a sleep and a failing poll.
PromptWatch ==
    pc = "watch" => Period * down <= (Patience + 2 * Period) * (Period + Probe)

\* How the loop keeps count of both: a poll is due before the time since the
\* last good one, or the time the link is down, outgrows the count.
WatchInv ==
    pc = "watch" =>
    /\ timer <= Period + Probe
    /\ link => down = 0
    /\ count + Period <= since + timer
    /\ Period * (down + timer) <= (count + Period) * (Period + Probe)
    /\ count < Patience + Period

Waiting == pc \in {"device", "negotiate", "connect"}
Missing == IF pc = "device" THEN ~device ELSE ~link

\* A script does not hold the boot up for ever: the next script gets its turn,
\* or the device reboots.  A wait without a limit may, but not when the modem or
\* the link it waits for is there, and stays.
BootGoesOn == Waiting ~> ~Waiting \/ (~Limited /\ Missing)

\* "enable this if you want the system to reboot upon detecting network link
\* issues" (watchctl.py): with link_watch=no in watch.conf no network script
\* reboots the device.
RebootsOnlyIfWatched ==
    [][ pc # "reboot" /\ pc' = "reboot" => conf.watch = "yes" ]_vars

=============================================================================
