---------------------------- MODULE MCStreamEye ----------------------------
(***************************************************************************)
(* StreamEye for TLC.                                                      *)
(***************************************************************************)
EXTENDS StreamEye

CONSTANTS a, b

MCCams == {a, b}
MCMjpeg == {b}

=============================================================================
