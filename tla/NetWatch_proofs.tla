-------------------------- MODULE NetWatch_proofs --------------------------
(***************************************************************************)
(* Proofs about NetWatch: how many failures it takes to reboot the device, *)
(* and how long they last, for all settings.                               *)
(***************************************************************************)
EXTENDS NetWatch, TLAPS

\* What the proofs need of the product of a counter and a duration.
LEMMA Products ==
    ASSUME NEW n \in Nat, NEW t \in Nat
    PROVE  /\ n * t \in Nat
           /\ (n + 1) * t = n * t + t
           /\ (n + 1) * t \in Nat
           /\ t <= (n + 1) * t
<1>1. n * t \in Nat
  OBVIOUS
<1>2. (n + 1) * t = n * t + t
  OBVIOUS
<1> QED
  BY <1>1, <1>2

\* The longer count, the longer the time.
LEMMA ProductMonotonic ==
    ASSUME NEW m \in Nat, NEW n \in Nat, NEW t \in Nat, m <= n
    PROVE  m * t <= n * t
<1>1. n * t = m * t + (n - m) * t
  OBVIOUS
<1>2. (n - m) * t \in Nat
  OBVIOUS
<1>3. m * t \in Nat
  OBVIOUS
<1> QED
  BY <1>1, <1>2, <1>3

\* The variables of NetWatch keep their types.
LEMMA TypeStep == TypeOK /\ [Next]_vars => TypeOK'
<1> SUFFICES ASSUME TypeOK, [Next]_vars PROVE TypeOK'
  OBVIOUS
<1> USE NetConstantsOK DEF TypeOK, Limit
<1>1. CASE Start
  BY <1>1 DEF Start
<1>2. CASE Connects
  BY <1>2 DEF Connects
<1>3. CASE Retry
  <2>1. count + 1 \in 0..Limit
    BY <1>3 DEF Retry
  <2> QED
    BY <1>3, <2>1 DEF Retry
<1>4. CASE GiveUp
  BY <1>4 DEF GiveUp
<1>5. CASE WakeUp
  BY <1>5 DEF WakeUp
<1>6. CASE Tick
  <2>1. /\ pc = "connect" => timer - 1 \in 0..Timeout
        /\ pc = "sleep" => timer - 1 \in 0..Interval
        /\ pc \notin {"off", "reboot"}
    BY <1>6 DEF Tick
  <2>2. idle' \in 0..Interval
    BY <1>6 DEF Tick
  <2>3. down' \in Nat
    BY <1>6 DEF Tick
  <2> QED
    BY <1>6, <2>1, <2>2, <2>3 DEF Tick
<1>7. CASE HostChanges
  BY <1>7 DEF HostChanges
<1>8. CASE SaveSettings
  BY <1>8 DEF SaveSettings
<1>9. CASE Shutdown
  BY <1>9 DEF Shutdown
<1>10. CASE UNCHANGED vars
  BY <1>10 DEF vars
<1> QED
  BY <1>1, <1>2, <1>3, <1>4, <1>5, <1>6, <1>7, <1>8, <1>9, <1>10 DEF Next, Watching

\* TypeOK is an invariant, whatever retries, timeout and interval are set:
\* count stays below the limit watch compares it with.
THEOREM TypeCorrect == Spec => []TypeOK
<1>1. Init => TypeOK
  <2> SUFFICES ASSUME Init PROVE TypeOK
    OBVIOUS
  <2>1. retries \in Nat \ {0}
    BY NetConstantsOK DEF Init
  <2>2. count \in 0..Limit /\ idle \in 0..Interval
    BY <2>1, NetConstantsOK DEF Init, Limit
  <2> QED
    BY <2>2 DEF Init, TypeOK
<1> QED
  BY <1>1, TypeStep, PTL DEF Spec

\* One step keeps the counts of failures and of time.
LEMMA NetStep == TypeOK /\ NetInv /\ [Next]_vars => NetInv'
<1> SUFFICES ASSUME TypeOK, NetInv, [Next]_vars PROVE NetInv'
  OBVIOUS
<1> USE NetConstantsOK DEF TypeOK, NetInv, Limit
<1>1. CASE Start
  <2>1. (0 + 1) * Timeout = Timeout
    OBVIOUS
  <2> QED
    BY <1>1, <2>1 DEF Start
<1>2. CASE Connects
  BY <1>2 DEF Connects
<1>3. CASE Retry
  <2>1. (count + 1 + 1) * Timeout = (count + 1) * Timeout + Timeout
    BY Products
  <2>2. down <= Interval + (count + 1) * Timeout
    BY <1>3, Products DEF Retry
  <2> QED
    BY <1>3, <2>1, <2>2, Products DEF Retry
<1>4. CASE GiveUp
  <2>1. down + 0 <= Interval + (count + 1) * Timeout
    BY <1>4, Products DEF GiveUp
  <2> QED
    BY <1>4, <2>1 DEF GiveUp
<1>5. CASE WakeUp
  <2>1. down + Timeout <= Interval + (count + 1) * Timeout
    BY <1>5, Products DEF WakeUp
  <2> QED
    BY <1>5, <2>1 DEF WakeUp
<1>6. CASE Tick
  <2>1. (down + 1) + (timer - 1) = down + timer /\ 0 + (timer - 1) <= down + timer
    BY <1>6 DEF Tick
  <2> QED
    BY <1>6, <2>1, Products DEF Tick
<1>7. CASE HostChanges
  BY <1>7, Products DEF HostChanges
<1>8. CASE SaveSettings
  BY <1>8 DEF SaveSettings
<1>9. CASE Shutdown
  BY <1>9 DEF Shutdown
<1>10. CASE UNCHANGED vars
  BY <1>10 DEF vars
<1> QED
  BY <1>1, <1>2, <1>3, <1>4, <1>5, <1>6, <1>7, <1>8, <1>9, <1>10 DEF Next, Watching

\* NetInv is an invariant: it is inductive together with TypeOK.
THEOREM NetInvariant == Spec => []NetInv
<1>1. Init => NetInv
  BY DEF Init, NetInv
<1> QED
  BY <1>1, NetStep, TypeCorrect, PTL DEF Spec

\* The device reboots at the netwatch_retries-th failure in a row, never at
\* another.
THEOREM PatientNetwatchHolds == Spec => PatientNetwatch
<1>1. ASSUME TypeOK, NetInv, [Next]_vars
      PROVE  [pc # "reboot" /\ pc' = "reboot" => failed' = retries]_vars
  <2> SUFFICES ASSUME Next, pc # "reboot", pc' = "reboot" PROVE failed' = retries
    BY <1>1
  <2>1. GiveUp
    BY <1>1 DEF Next, Watching, Start, Connects, Retry, WakeUp, Tick, HostChanges,
                SaveSettings, Shutdown
  <2>2. count = retries - 1 /\ retries \in Nat \ {0}
    BY <1>1, <2>1, NetConstantsOK DEF TypeOK, Limit, GiveUp
  <2> QED
    BY <1>1, <2>1, <2>2 DEF NetInv, GiveUp
<1> QED
  BY <1>1, TypeCorrect, NetInvariant, PTL DEF Spec, PatientNetwatch

\* No host is down, under the eyes of the loop, for longer than a sleep and
\* netwatch_retries attempts that take their whole timeout.
THEOREM PromptNetwatchHolds == Spec => []PromptNetwatch
<1>1. ASSUME TypeOK, NetInv PROVE PromptNetwatch
  <2> USE NetConstantsOK DEF TypeOK, NetInv, Limit
  <2>1. /\ retries \in Nat \ {0} /\ count \in Nat /\ count + 1 <= retries
        /\ down \in Nat /\ timer \in Nat /\ Timeout \in Nat /\ Interval \in Nat
    BY <1>1
  <2>2. (count + 1) * Timeout <= retries * Timeout
    BY <2>1, ProductMonotonic
  <2>3. CASE pc \in {"connect", "reboot"}
    BY <1>1, <2>1, <2>2, <2>3, Products DEF PromptNetwatch, Patience
  <2>4. CASE pc \in {"sleep", "off"}
    <3>1. retries * Timeout \in Nat
      BY <2>1
    <3> QED
      BY <1>1, <2>1, <2>4, <3>1 DEF PromptNetwatch, Patience
  <2> QED
    BY <1>1, <2>3, <2>4
<1> QED
  BY <1>1, TypeCorrect, NetInvariant, PTL

=============================================================================
