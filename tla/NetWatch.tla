------------------------------ MODULE NetWatch ------------------------------
(***************************************************************************)
(* The watch loop of S41netwatch: it connects to a host again and again,   *)
(* and reboots the device when the connection has failed often enough.     *)
(* Time is in seconds.                                                     *)
(***************************************************************************)
EXTENDS Naturals

CONSTANTS
    Retries,    \* the values of netwatch_retries that may be saved
    Timeout,    \* netwatch_timeout
    Interval    \* netwatch_interval

\* watchctl.py lets none of the three be less than 1.
ASSUME NetConstantsOK ==
    /\ Retries \subseteq Nat \ {0}
    /\ Timeout \in Nat \ {0} /\ Interval \in Nat \ {0}

VARIABLES
    file,      \* netwatch_retries in watch.conf
    retries,   \* the same, as the script read it
    pc,        \* what the loop does
    count,     \* the variable count
    timer,     \* seconds until the sleep is over, or nc gives up
    up,        \* the host accepts connections
    failed,    \* history: attempts that failed since one succeeded
    idle,      \* history: seconds since the last attempt ended
    down       \* history: seconds the host has been down under the loop's eyes,
               \* counted until they are too many

vars == <<file, retries, pc, count, timer, up, failed, idle, down>>

\* The script starts: watch counts up to one less than what it was given.
Start ==
    /\ pc = "off"
    /\ retries' = file
    /\ pc' = "connect"
    /\ count' = 0
    /\ timer' = Timeout
    /\ up' \in BOOLEAN
    /\ failed' = 0 /\ idle' = Interval /\ down' = 0
    /\ UNCHANGED file

Limit == retries - 1

\* Mutant of Connects: an old failure still counts.
ConnectsKeepsCount ==
    /\ pc = "connect" /\ up
    /\ pc' = "sleep"
    /\ timer' = Interval
    /\ failed' = 0 /\ idle' = 0
    /\ UNCHANGED <<file, retries, count, up, down>>

\* nc -z connects at once, or as soon as the host is up ...
Connects ==
    /\ pc = "connect" /\ up
    /\ pc' = "sleep"
    /\ count' = 0
    /\ timer' = Interval
    /\ failed' = 0 /\ idle' = 0
    /\ UNCHANGED <<file, retries, up, down>>

\* Mutants of Retry: one attempt too many; a sleep before every attempt; the
\* attempts are not counted.
RetryOnceMore ==
    /\ pc = "connect" /\ ~up
    /\ count <= Limit
    /\ count' = count + 1
    /\ timer' = Timeout
    /\ failed' = failed + 1 /\ idle' = 0
    /\ UNCHANGED <<file, retries, pc, up, down>>

RetrySleeps ==
    /\ pc = "connect" /\ ~up
    /\ count < Limit
    /\ count' = count + 1
    /\ pc' = "sleep"
    /\ timer' = Interval
    /\ failed' = failed + 1 /\ idle' = 0
    /\ UNCHANGED <<file, retries, up, down>>

RetryUncounted ==
    /\ pc = "connect" /\ ~up
    /\ count < Limit
    /\ timer' = Timeout
    /\ failed' = failed /\ idle' = 0
    /\ UNCHANGED <<file, retries, pc, count, up, down>>

\* ... and fails at once when it is refused, or when its time is up.  The loop
\* tries again with no sleep in between.
Retry ==
    /\ pc = "connect" /\ ~up
    /\ count < Limit
    /\ count' = count + 1
    /\ timer' = Timeout
    /\ failed' = failed + 1 /\ idle' = 0
    /\ UNCHANGED <<file, retries, pc, up, down>>

GiveUp ==
    /\ pc = "connect" /\ ~up
    /\ count >= Limit
    /\ pc' = "reboot"
    /\ timer' = 0
    /\ failed' = failed + 1 /\ idle' = 0
    /\ UNCHANGED <<file, retries, count, up, down>>

WakeUp ==
    /\ pc = "sleep" /\ timer = 0
    /\ pc' = "connect"
    /\ timer' = Timeout
    /\ UNCHANGED <<file, retries, count, up, failed, idle, down>>

\* The longest a host should stay down: a sleep and all the attempts.
Patience == Interval + retries * Timeout

Tick ==
    /\ timer > 0
    /\ timer' = timer - 1
    /\ idle' = IF pc = "sleep" /\ idle < Interval THEN idle + 1 ELSE idle
    /\ down' = IF up THEN 0 ELSE IF down <= Patience THEN down + 1 ELSE down
    /\ UNCHANGED <<file, retries, pc, count, up, failed>>

HostChanges ==
    /\ pc \in {"connect", "sleep"}
    /\ up' = ~up
    /\ down' = 0
    /\ UNCHANGED <<file, retries, pc, count, timer, failed, idle>>

SaveSettings ==
    /\ pc # "off"
    /\ file' \in Retries
    /\ UNCHANGED <<retries, pc, count, timer, up, failed, idle, down>>

Shutdown ==
    /\ pc # "off"
    /\ pc' = "off"
    /\ count' = 0 /\ timer' = 0
    /\ failed' = 0 /\ idle' = 0 /\ down' = 0
    /\ UNCHANGED <<file, retries, up>>

Init ==
    /\ file \in Retries /\ retries = file
    /\ pc = "off"
    /\ count = 0 /\ timer = 0
    /\ up = FALSE
    /\ failed = 0 /\ idle = 0 /\ down = 0

Watching == Connects \/ Retry \/ GiveUp \/ WakeUp

Next == Start \/ Watching \/ Tick \/ HostChanges \/ SaveSettings \/ Shutdown

Spec == Init /\ [][Next]_vars
FairSpec == Spec /\ WF_vars(Watching) /\ WF_vars(Tick)

-----------------------------------------------------------------------------
(* Properties.                                                             *)
\* The variables have their types; count never exceeds what watch counts up to.
TypeOK ==
    /\ file \in Retries /\ retries \in Retries
    /\ pc \in {"off", "connect", "sleep", "reboot"}
    /\ count \in 0..Limit
    /\ pc = "connect" => timer \in 0..Timeout
    /\ pc = "sleep" => timer \in 0..Interval
    /\ pc \in {"off", "reboot"} => timer = 0
    /\ up \in BOOLEAN
    /\ failed \in Nat /\ idle \in 0..Interval /\ down \in Nat

\* The loop reboots when netwatch_retries attempts in a row have failed, not
\* earlier and not later, however often the host came back before.
PatientNetwatch ==
    [][ pc # "reboot" /\ pc' = "reboot" => failed' = retries ]_vars

\* No host stays down for longer than a sleep and netwatch_retries attempts.
PromptNetwatch == down <= Patience

\* How the loop keeps count of both: count is the number of failures, and the
\* time the host is down, with what is left of the attempt, fits into a sleep
\* and the attempts counted.
NetInv ==
    /\ up \/ pc = "off" => down = 0
    /\ pc \in {"connect", "sleep"} => failed = count
    /\ pc = "sleep" => down + timer <= Interval
    /\ pc \in {"connect", "reboot"} =>
           down + timer <= Interval + (count + 1) * Timeout

\* A loop that finds the host down reboots, unless the host comes back (or the
\* device shuts down for another reason): the retries without a sleep end.
GivesUp == pc = "connect" /\ ~up ~> up \/ pc \in {"reboot", "off"}

\* "sets the number of times to retry to connect" (watchctl.py): when the
\* device reboots, netwatch_retries attempts have followed the first failed one.
RetriesAsConfigured ==
    [][ pc # "reboot" /\ pc' = "reboot" => failed' - 1 >= retries ]_vars

\* "sets the time to wait between connections" (watchctl.py): an attempt begins
\* netwatch_interval seconds after the last one ended, or later.
IntervalBetweenConnections ==
    [][ /\ pc' = "connect"
        /\ pc # "connect" \/ failed' # failed
        => idle' >= Interval ]_vars

=============================================================================
