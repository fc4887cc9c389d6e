---------------------------- MODULE AtomicUpdate ----------------------------
(***************************************************************************)
(* What an update promises: the device boots the release that is installed *)
(* on it; the installed release changes in one step, while the system      *)
(* runs, to the one asked for (or back to the running one, when another    *)
(* update starts over); no reset and no boot changes it.                   *)
(***************************************************************************)
CONSTANTS
    Version,   \* the releases that can be installed
    Factory,   \* the one installed at first
    Off,       \* not a release: nothing runs
    Broken     \* not a release: the promise has ended

VARIABLES wanted,     \* the release last asked for
          installed,  \* the release the next boot runs, or Broken
          running     \* the release that runs, or Off

avars == <<wanted, installed, running>>

Init ==
    /\ wanted = Factory
    /\ installed = Factory
    /\ running = Off

Ask(v) ==
    /\ running # Off
    /\ wanted' = v
    /\ UNCHANGED <<installed, running>>

Commit ==
    /\ running # Off /\ installed # Broken
    /\ installed' \in {wanted, running}
    /\ UNCHANGED <<wanted, running>>

Start ==
    /\ running = Off /\ installed # Broken
    /\ running' = installed
    /\ UNCHANGED <<wanted, installed>>

Stop ==
    /\ running' = Off
    /\ UNCHANGED <<wanted, installed>>

\* An update was cut short where it may not be: the promise ends.
Break ==
    /\ running # Off
    /\ installed' = Broken
    /\ running' \in {running, Off}
    /\ UNCHANGED wanted

\* A broken device may boot some release, and may even be updated again.
Limp ==
    /\ installed = Broken
    /\ wanted' \in Version
    /\ running' \in Version \cup {Off}
    /\ UNCHANGED installed

Next == (\E v \in Version : Ask(v)) \/ Commit \/ Start \/ Stop \/ Break \/ Limp

Spec == Init /\ [][Next]_avars

=============================================================================
