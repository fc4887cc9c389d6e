----------------------------- MODULE StreamEye -----------------------------
(***************************************************************************)
(* streameyectl.py: turning the device into a fast network camera and      *)
(* back.  To turn it on, the configuration of every camera is renamed to   *)
(* .bak and one for streamEye is added; to turn it off, that one is        *)
(* removed and the others are renamed back.  There is no other record of   *)
(* the mode than these files.                                              *)
(*                                                                         *)
(* The web server is one thread: a request asks for a switch, a callback   *)
(* of the event loop carries it out later, and nothing else runs in the    *)
(* server until it returns.  It may be killed between any two steps.       *)
(***************************************************************************)
EXTENDS Integers, Sequences

CONSTANTS
    Cams,          \* the cameras of the user
    Mjpeg,         \* those of them that are simple mjpeg cameras
    StreamEyeCam,  \* the camera that streamEye provides
    Absent,        \* no such file
    Cut,           \* a file that was being written
    MaxId,         \* bound: camera ids
    MaxRequests,   \* bound: requests
    MaxStops       \* bound: how often the server is stopped

ASSUME StreamEyeConstantsOK ==
    /\ Mjpeg \subseteq Cams /\ StreamEyeCam \notin Cams
    /\ Absent # Cut
    /\ \A file \in [cam : Cams \cup {StreamEyeCam}, local : BOOLEAN] : file \notin {Absent, Cut}
    /\ MaxId \in Nat \ {0} /\ MaxRequests \in Nat /\ MaxStops \in Nat

Ids == 1..MaxId

VARIABLES
    conf,      \* thread-<id>.conf
    bak,       \* thread-<id>.conf.bak
    threads,   \* the cameras that motion.conf tells motion to run
    allowed,   \* add-remove-cameras of motioneye.conf
    pc,        \* what the server does
    todo,      \* the ids it still has to go through
    lines,     \* what it read of the file it rewrites
    cached,    \* _streameye_enabled
    canAdd,    \* add-remove-cameras, as the server read it
    pending,   \* the callbacks added to the event loop
    asked,     \* history: what the last request asked for
    users,     \* history: the cameras the user has added
    harm,      \* history: what went wrong
    requests, stops

disk == <<conf, bak, threads, allowed>>
memory == <<pc, todo, lines, cached, canAdd, pending>>
vars == <<disk, memory, asked, users, harm, requests, stops>>

-----------------------------------------------------------------------------
(* The files.                                                              *)

\* A configuration: the camera, and whether its @url is that of streamEye.
File(cam, local) == [cam |-> cam, local |-> local]
Configs == [cam : Cams \cup {StreamEyeCam}, local : BOOLEAN]

Present(files) == {n \in Ids : files[n] # Absent}
Valid(files)   == {n \in Ids : files[n] \notin {Absent, Cut}}
IsMjpeg(file)  == file \notin {Absent, Cut} /\ file.cam \in Mjpeg \cup {StreamEyeCam}

\* _get_streameye_enabled, without its cache: the only camera is a simple mjpeg
\* camera at 127.0.0.1.
Enabled == \E n \in Ids : /\ Present(conf) = {n}
                          /\ IsMjpeg(conf[n]) /\ conf[n].local

Kept == {c \in users : \E n \in Ids, f \in {conf, bak} :
                          f[n] \notin {Absent, Cut} /\ f[n].cam = c}

-----------------------------------------------------------------------------
(* Requests.                                                               *)

Serving == pc = "serve"

\* Mutant of Ask: the callback is added whatever the mode.
AskAlways(enabled) ==
    /\ Serving /\ requests < MaxRequests
    /\ requests' = requests + 1
    /\ asked' = enabled
    /\ pending' = Append(pending, enabled)
    /\ harm' = IF pending = <<>> THEN harm ELSE harm \cup {"overlap"}
    /\ pc' = IF enabled /\ conf[1] # Absent THEN "settings" ELSE "serve"
    /\ UNCHANGED <<disk, todo, cached, lines, canAdd, users, stops>>

\* _set_streameye_enabled_deferred: the mode is compared with the one that
\* counts now, not with the one that pending callbacks lead to.  Without a
\* first camera the settings are not written: get_camera raises.
Ask(enabled) ==
    /\ Serving /\ requests < MaxRequests
    /\ requests' = requests + 1
    /\ asked' = enabled
    /\ pending' = IF enabled # cached THEN Append(pending, enabled) ELSE pending
    /\ harm' = IF pending = <<>> THEN harm ELSE harm \cup {"overlap"}
    /\ pc' = IF enabled /\ conf[1] # Absent THEN "settings" ELSE "serve"
    /\ UNCHANGED <<disk, todo, cached, lines, canAdd, users, stops>>

\* _set_streameye_settings rewrites the configuration of camera 1, whose lines
\* it has read, with the @url of streamEye in place of the one it has, if any.
RewriteSettings ==
    /\ pc = "settings"
    /\ pc' = "rewriting"
    /\ lines' = conf[1]
    /\ conf' = [conf EXCEPT ![1] = Cut]
    /\ UNCHANGED <<bak, threads, allowed, todo, cached, canAdd, pending, asked,
                   users, harm, requests, stops>>

GetsUrl(file) == IsMjpeg(file) /\ ~file.local

SettingsRewritten ==
    /\ pc = "rewriting"
    /\ pc' = "serve"
    /\ lines' = Absent
    /\ conf' = [conf EXCEPT ![1] = IF GetsUrl(lines) THEN File(lines.cam, TRUE) ELSE lines]
    /\ harm' = IF GetsUrl(lines) THEN harm \cup {"url"} ELSE harm
    /\ UNCHANGED <<bak, threads, allowed, todo, cached, canAdd, pending, asked,
                   users, requests, stops>>

\* The user adds a camera: it gets the first id that no camera has.  The server
\* allows it until it starts again, when streamEye has been turned on.
AddCamera(cam) ==
    /\ Serving /\ canAdd /\ cam \notin users
    /\ \E n \in Ids :
          /\ n \notin Valid(conf) /\ 1..(n - 1) \subseteq Valid(conf)
          /\ conf' = [conf EXCEPT ![n] = File(cam, FALSE)]
          /\ threads' = IF cam \in Mjpeg THEN threads ELSE threads \cup {n}
    /\ users' = users \cup {cam}
    /\ harm' = IF cached \/ Present(bak) # {} THEN harm \cup {"added"} ELSE harm
    /\ UNCHANGED <<bak, allowed, memory, asked, requests, stops>>

-----------------------------------------------------------------------------
(* _set_streameye_enabled(True).                                           *)

\* All the callbacks that are pending run before the next request is handled.
Callback(enabled) ==
    /\ pc \in {"serve", "next"} /\ pending # <<>> /\ Head(pending) = enabled
    /\ pending' = Tail(pending)

Return == IF pending = <<>> THEN "serve" ELSE "next"

Step(from, to) == pc = from /\ pc' = to

\* The cameras are disabled in motion.conf (a failure is only logged), and the
\* names of the files to rename are listed.
TurnOn ==
    /\ Callback(TRUE)
    /\ pc' = "hide"
    /\ threads' \in {{}, threads}
    /\ todo' = Present(conf)
    /\ UNCHANGED <<conf, bak, allowed, cached, lines, canAdd, asked, users,
                   harm, requests, stops>>

HideCamera(n) ==
    /\ pc = "hide" /\ n \in todo
    /\ todo' = todo \ {n}
    /\ bak' = [bak EXCEPT ![n] = conf[n]]
    /\ conf' = [conf EXCEPT ![n] = Absent]
    /\ UNCHANGED <<threads, allowed, pc, cached, lines, canAdd, pending, asked,
                   users, harm, requests, stops>>

\* Mutant of AddStreamEye: the loop over the files was left early.
AddStreamEyeEarly ==
    /\ Step("hide", "adding")
    /\ cached' = TRUE
    /\ conf' = [conf EXCEPT ![1] = Cut]
    /\ UNCHANGED <<bak, threads, allowed, todo, lines, canAdd, pending, asked,
                   users, harm, requests, stops>>

\* The caches of the ids have been emptied, so the new camera has id 1.  Its
\* file is written twice, by add_camera and set_camera, with the same outcome.
AddStreamEye ==
    /\ Step("hide", "adding") /\ todo = {}
    /\ cached' = TRUE
    /\ conf' = [conf EXCEPT ![1] = Cut]
    /\ UNCHANGED <<bak, threads, allowed, todo, lines, canAdd, pending, asked,
                   users, harm, requests, stops>>

StreamEyeAdded ==
    /\ Step("adding", "forbid")
    /\ conf' = [conf EXCEPT ![1] = File(StreamEyeCam, TRUE)]
    /\ UNCHANGED <<bak, threads, allowed, todo, cached, lines, canAdd, pending,
                   asked, users, harm, requests, stops>>

\* _set_motioneye_add_remove_cameras.  A motioneye.conf that was cut has no such
\* line and allows it, as before.
Forbid ==
    /\ Step("forbid", Return)
    /\ allowed' = FALSE
    /\ UNCHANGED <<conf, bak, threads, todo, cached, lines, canAdd, pending,
                   asked, users, harm, requests, stops>>

-----------------------------------------------------------------------------
(* _set_streameye_enabled(False).                                          *)

TurnOff ==
    /\ Callback(FALSE)
    /\ pc' = "remove"
    /\ todo' = {n \in Valid(conf) : IsMjpeg(conf[n])}
    /\ UNCHANGED <<disk, cached, lines, canAdd, asked, users, harm, requests,
                   stops>>

RemoveStreamEye(n) ==
    /\ pc = "remove" /\ n \in todo
    /\ todo' = todo \ {n}
    /\ conf' = [conf EXCEPT ![n] = Absent]
    /\ threads' = threads \ {n}
    /\ UNCHANGED <<bak, allowed, pc, cached, lines, canAdd, pending, asked,
                   users, harm, requests, stops>>

\* Mutant of ListHidden: the pattern takes one digit only, and misses a camera.
ListHiddenShort ==
    /\ Step("remove", "restore") /\ todo = {}
    /\ todo' = Present(bak) \ {MaxId}
    /\ UNCHANGED <<disk, cached, lines, canAdd, pending, asked, users, harm,
                   requests, stops>>

ListHidden ==
    /\ Step("remove", "restore") /\ todo = {}
    /\ todo' = Present(bak)
    /\ UNCHANGED <<disk, cached, lines, canAdd, pending, asked, users, harm,
                   requests, stops>>

RestoreCamera(n) ==
    /\ pc = "restore" /\ n \in todo
    /\ todo' = todo \ {n}
    /\ conf' = [conf EXCEPT ![n] = bak[n]]
    /\ bak' = [bak EXCEPT ![n] = Absent]
    /\ UNCHANGED <<threads, allowed, pc, cached, lines, canAdd, pending, asked,
                   users, harm, requests, stops>>

\* Mutant of ListCameras: _streameye_enabled is not reset.
ListCamerasOnly ==
    /\ Step("restore", "enable") /\ todo = {}
    /\ todo' = Valid(conf)
    /\ UNCHANGED <<disk, cached, lines, canAdd, pending, asked, users, harm,
                   requests, stops>>

ListCameras ==
    /\ Step("restore", "enable") /\ todo = {}
    /\ cached' = FALSE
    /\ todo' = Valid(conf)
    /\ UNCHANGED <<disk, lines, canAdd, pending, asked, users, harm, requests,
                   stops>>

\* set_camera writes the same configuration again, enabled, and tells motion.
\* (That the file is cut meanwhile is part of Stop.)
EnableCamera(n) ==
    /\ pc = "enable" /\ n \in todo
    /\ todo' = todo \ {n}
    /\ threads' = IF IsMjpeg(conf[n]) THEN threads ELSE threads \cup {n}
    /\ UNCHANGED <<conf, bak, allowed, pc, cached, lines, canAdd, pending,
                   asked, users, harm, requests, stops>>

\* Mutant of Allow: adding cameras stays forbidden.
AllowNothing ==
    /\ Step("enable", Return) /\ todo = {}
    /\ UNCHANGED <<disk, todo, cached, lines, canAdd, pending, asked, users,
                   harm, requests, stops>>

Allow ==
    /\ Step("enable", Return) /\ todo = {}
    /\ allowed' = TRUE
    /\ UNCHANGED <<conf, bak, threads, todo, cached, lines, canAdd, pending,
                   asked, users, harm, requests, stops>>

-----------------------------------------------------------------------------
(* The server stops and starts.                                            *)

\* A reboot, as after every change of the mode, a power loss, or a kill.  What
\* was being written is cut.
Stop ==
    /\ pc # "down" /\ stops < MaxStops
    /\ stops' = stops + 1
    /\ pc' = "down"
    /\ todo' = {} /\ lines' = Absent /\ pending' = <<>>
    /\ \/ UNCHANGED conf
       \/ /\ pc = "enable"
          /\ \E n \in todo : conf' = [conf EXCEPT ![n] = Cut]
    /\ harm' = harm
           \cup (IF Serving /\ pending = <<>> THEN {} ELSE {"stopped"})
           \cup (IF pc \in {"rewriting", "adding"} \/ conf' # conf THEN {"cut"} ELSE {})
    /\ UNCHANGED <<bak, threads, allowed, cached, canAdd, asked, users,
                   requests>>

\* The module is imported: it asks for the mode, and the answer is cached.
StartServer ==
    /\ Step("down", "serve")
    /\ cached' = Enabled
    /\ canAdd' = allowed
    /\ UNCHANGED <<disk, todo, lines, pending, asked, users, harm, requests,
                   stops>>

\* A device with cameras of the user, and streamEye off.
Init ==
    /\ conf \in [Ids -> {Absent} \cup {File(c, FALSE) : c \in Cams}]
    /\ \A m, n \in Valid(conf) : conf[m].cam = conf[n].cam => m = n
    /\ bak = [n \in Ids |-> Absent]
    /\ threads = {n \in Valid(conf) : ~IsMjpeg(conf[n])}
    /\ allowed = TRUE /\ canAdd = TRUE
    /\ pc = "serve" /\ todo = {} /\ lines = Absent /\ cached = FALSE /\ pending = <<>>
    /\ asked = FALSE
    /\ users = {conf[n].cam : n \in Valid(conf)}
    /\ harm = {} /\ requests = 0 /\ stops = 0

Request == (\E enabled \in BOOLEAN : Ask(enabled)) \/ (\E c \in Cams : AddCamera(c))

SwitchOn  == \/ TurnOn \/ (\E n \in Ids : HideCamera(n))
             \/ AddStreamEye \/ StreamEyeAdded \/ Forbid

SwitchOff == \/ TurnOff \/ (\E n \in Ids : RemoveStreamEye(n))
             \/ ListHidden \/ (\E n \in Ids : RestoreCamera(n))
             \/ ListCameras \/ (\E n \in Ids : EnableCamera(n))
             \/ Allow

Settings == RewriteSettings \/ SettingsRewritten

Next == Request \/ Settings \/ SwitchOn \/ SwitchOff \/ Stop \/ StartServer

Spec == Init /\ [][Next]_vars

-----------------------------------------------------------------------------
(* Properties.                                                             *)

\* The variables have their types; no loop over the files is left before its end.
TypeOK ==
    /\ conf \in [Ids -> Configs \cup {Absent, Cut}]
    /\ bak \in [Ids -> Configs \cup {Absent, Cut}]
    /\ threads \subseteq Ids /\ allowed \in BOOLEAN
    /\ pc \in {"serve", "down", "settings", "rewriting", "hide", "adding", "forbid",
               "remove", "restore", "enable", "next"}
    /\ todo \subseteq Ids
    /\ todo # {} => pc \in {"hide", "remove", "restore", "enable"}
    /\ lines \in Configs \cup {Absent, Cut}
    /\ (lines # Absent) <=> (pc = "rewriting")
    /\ cached \in BOOLEAN /\ canAdd \in BOOLEAN
    /\ pending \in Seq(BOOLEAN)
    /\ asked \in BOOLEAN /\ users \subseteq Cams
    /\ harm \subseteq {"overlap", "added", "url", "cut", "stopped"}

\* No camera of the user is lost, however often a switch is interrupted and
\* repeated, unless a second request came before the first was carried out, a
\* camera was added while others were still hidden, or a file was cut, or the
\* first camera was given the @url of streamEye.
CamerasKept ==
    /\ harm \subseteq {"stopped"}
    /\ pc # "rewriting"
    => users = Kept

Idle == Serving /\ pending = <<>>

\* The mode the server believes in is the one it will find when it starts again.
ModeIsOnDisk ==
    Idle /\ harm \subseteq {"stopped", "cut"} => (cached <=> Enabled)

\* When nothing is pending, the mode is the one the last request asked for.
LastRequestWins ==
    Idle /\ harm = {} => (cached <=> asked)

\* A switch that was not interrupted leaves nothing behind: no hidden camera,
\* every camera of the user runs or is an mjpeg camera, and cameras can be added.
SwitchedOff ==
    Idle /\ harm = {} /\ ~cached
    => /\ Present(bak) = {}
       /\ threads = {n \in Present(conf) : ~IsMjpeg(conf[n])}
       /\ allowed

\* Only the camera of streamEye ever gets its @url: "a workaround to update the
\* camera username and password" (_set_streameye_settings).
OnlyItsOwnUrl ==
    \A n \in Valid(conf) : conf[n].local => conf[n].cam = StreamEyeCam

\* Turning streamEye off shows every camera of the user again, whatever switches
\* were interrupted before.
OffShowsAll ==
    [][ pc = "enable" /\ pc' \notin {"enable", "down"} /\ harm \subseteq {"stopped"}
        => users = {conf'[n].cam : n \in Valid(conf')} ]_vars

=============================================================================
