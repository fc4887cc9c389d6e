---------------------------- MODULE MCLinkWatch ----------------------------
(***************************************************************************)
(* LinkWatch for TLC: with the timeouts of the scripts, except that of     *)
(* S95motioneye (120), and two that may be saved, one the first digit of   *)
(* the other, none a multiple of the period of the loops.                  *)
(***************************************************************************)
EXTENDS LinkWatch

AllScripts == {"wifi", "ppp", "eth", "ip", "motioneye"}
MCDefaultTimeout == [s \in AllScripts |->
    CASE s \in {"wifi", "eth"} -> 20
      [] s = "ip"              -> 40
      [] s = "motioneye"       -> 35
      [] s = "ppp"             -> None]
MCTimeouts == {1, 12}

=============================================================================
