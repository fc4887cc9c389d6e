-------------------------- MODULE MCFirmwareUpdate --------------------------
(***************************************************************************)
(* FirmwareUpdate with one factory release and two newer ones, for TLC.    *)
(***************************************************************************)
EXTENDS FirmwareUpdate, TLC

CONSTANTS r0, r1, r2

MCVersion == {r0, r1, r2}

\* The newer releases are interchangeable.
ReleaseSymmetry == Permutations({r1, r2})

AllPhases  == Phases
AllSteps   == UpdateSteps \ {"netwatch"}

RebootStep == {"reboot"}

AllRebooters == Watchers \cup {"user"}

=============================================================================
