------------------------- MODULE LinkWatch_proofs -------------------------
(***************************************************************************)
(* Proofs about LinkWatch: a watch loop is neither hasty nor slow, for     *)
(* every timeout, every script and every duration of a poll.               *)
(***************************************************************************)
EXTENDS LinkWatch, TLAPS

\* What a script sources is a setting, and a timeout where it has a default,
\* unless the file ends right after the = of a timeout.
LEMMA SourcedOK ==
    ASSUME script \in Scripts, file \in Saved \cup Cut
    PROVE  /\ Sourced \in [watch : {"yes", "no", None, Empty}, timeout : Nat \cup {None}]
           /\ Sourced.timeout = None /\ script # "ppp" =>
                  script # "motioneye" /\ Sourced.watch \in {"yes", "no"}
<1>1. DefaultTimeout[script] \in Nat \cup {None}
  BY LinkConstantsOK
<1>2. script # "ppp" => DefaultTimeout[script] # None
  BY LinkConstantsOK
<1>3. UNION {Prefixes(t) : t \in Timeouts} \subseteq Nat
  BY LinkConstantsOK DEF Prefixes
<1>4. /\ file.watch \in {"yes", "no", None, Empty}
      /\ file.timeout \in Nat \cup {None, Empty}
      /\ file.timeout = Empty => file.watch \in {"yes", "no"}
  BY <1>3, LinkConstantsOK DEF Saved, Cut
<1>5. CASE script = "motioneye"
  BY <1>1, <1>2, <1>5 DEF Sourced
<1>6. CASE script # "motioneye"
  <2>1. Sourced = [watch |-> Sourced.watch, timeout |-> Sourced.timeout]
    BY <1>6 DEF Sourced
  <2>2. Sourced.watch = IF file.watch = None THEN DefaultWatch ELSE file.watch
    BY <1>6 DEF Sourced
  <2>3. /\ file.timeout = None => Sourced.timeout = DefaultTimeout[script]
        /\ file.timeout = Empty => Sourced.timeout = None
        /\ file.timeout \in Nat => Sourced.timeout = file.timeout
    BY <1>6, LinkConstantsOK DEF Sourced
  <2>4. Sourced.watch \in {"yes", "no", None, Empty}
    BY <1>4, <2>2 DEF DefaultWatch
  <2>5. Sourced.timeout \in Nat \cup {None}
    BY <1>1, <1>4, <2>3
  <2>6. Sourced.timeout = None /\ script # "ppp" => Sourced.watch \in {"yes", "no"}
    BY <1>2, <1>4, <2>2, <2>3, LinkConstantsOK
  <2> QED
    BY <1>6, <2>1, <2>4, <2>5, <2>6
<1> QED
  BY <1>5, <1>6

\* A sleep, with the failing poll after it, takes a natural number of seconds.
LEMMA DelayOK ==
    ASSUME NEW sleep \in Nat, NEW t \in Delay(sleep)
    PROVE  t \in Nat /\ sleep <= t /\ t <= sleep + Probe /\ Probe \in Nat
BY LinkConstantsOK DEF Delay, Probe

\* The variables of LinkWatch keep their types.
LEMMA TypeStep == TypeOK /\ [Next]_vars => TypeOK'
<1> SUFFICES ASSUME TypeOK, [Next]_vars PROVE TypeOK'
  OBVIOUS
<1> USE DEF TypeOK
<1>1. CASE Start
  <2>1. timer' \in {0} \cup Delay(1)
    BY <1>1 DEF Start, Enter
  <2>2. timer' \in Nat
    BY <2>1, DelayOK
  <2>3. conf' = Sourced /\ UNCHANGED <<script, file>>
    BY <1>1 DEF Start
  <2>4. /\ conf' \in [watch : {"yes", "no", None, Empty}, timeout : Nat \cup {None}]
        /\ conf'.timeout = None /\ script # "ppp" =>
               script # "motioneye" /\ conf'.watch \in {"yes", "no"}
    BY <2>3, SourcedOK
  <2>5. pc' \in {"device", "negotiate", "connect"}
    BY <1>1, LinkConstantsOK DEF Start, Enter
  <2> QED
    BY <1>1, <2>2, <2>3, <2>4, <2>5 DEF Start, Enter
<1>2. ASSUME NEW place \in {"off", "device", "negotiate", "connect", "watch", "left", "reboot"},
             NEW sleep, sleep \subseteq Nat,
             Enter(place, sleep), UNCHANGED <<script, conf, device, daemon, link>>,
             file' \in Saved \cup Cut
      PROVE  TypeOK'
  BY <1>2 DEF Enter
<1>3. ASSUME NEW sleep, sleep \subseteq Nat, Again(sleep)
      PROVE  TypeOK'
  BY <1>3 DEF Again
<1>4. Delay(Period) \subseteq Nat /\ Delay(1) \subseteq Nat
  BY DelayOK DEF Period
<1>5. CASE DeviceMissing \/ NotNegotiated \/ NotConnected
  BY <1>3, <1>4, <1>5 DEF DeviceMissing, NotNegotiated, NotConnected
<1>6. CASE DeviceGone \/ DeviceFound \/ NoLink
  BY <1>2, <1>6 DEF DeviceGone, DeviceFound, NoLink
<1>7. CASE Negotiated \/ Connected
  BY <1>2, <1>4, <1>7 DEF Negotiated, Connected, Watch
<1>8. CASE ConnectFails \/ LastPoll
  BY <1>8 DEF ConnectFails, LastPoll
<1>9. CASE GoodPoll \/ BadPoll
  BY <1>4, <1>9 DEF GoodPoll, BadPoll, Period
<1>10. CASE Tick
  BY <1>10 DEF Tick
<1>11. CASE LinkChanges \/ DeviceChanges \/ DaemonDies \/ SaveSettings
  <2>1. device' \in BOOLEAN /\ daemon' \in BOOLEAN /\ link' \in BOOLEAN
    BY <1>11, Zenon DEF LinkChanges, DeviceChanges, DaemonDies, SaveSettings
  <2>2. down' \in Nat
    BY <1>11 DEF LinkChanges, DeviceChanges, DaemonDies, SaveSettings
  <2>3. UNCHANGED <<script, conf, pc, count, timer, since>> /\ file' \in Saved \cup Cut
    BY <1>11, Zenon DEF LinkChanges, DeviceChanges, DaemonDies, SaveSettings
  <2> QED
    BY <2>1, <2>2, <2>3
<1>12. CASE Shutdown \/ PowerLossWhileSaving
  BY <1>2, <1>12 DEF Shutdown, PowerLossWhileSaving
<1>13. CASE UNCHANGED vars
  BY <1>13 DEF vars
<1> QED
  BY <1>1, <1>5, <1>6, <1>7, <1>8, <1>9, <1>10, <1>11, <1>12, <1>13
     DEF Next, Starting, Watching

\* The variables of LinkWatch have their types.
THEOREM TypeCorrect == Spec => []TypeOK
<1>1. Init => TypeOK
  <2> SUFFICES ASSUME Init PROVE TypeOK
    OBVIOUS
  <2>1. script \in Scripts /\ file \in Saved \cup Cut /\ conf = Sourced
    BY DEF Init, Unset, Cut
  <2> QED
    BY <2>1, SourcedOK DEF Init, TypeOK
<1> QED
  BY <1>1, TypeStep, PTL DEF Spec

-----------------------------------------------------------------------------

\* The arithmetic of a failed poll and of a second that passes.
LEMMA OnePollMore ==
    ASSUME NEW c \in Nat, NEW d \in Nat, NEW t \in Nat, NEW p \in Nat,
           5 * d <= (c + 5) * (5 + p), t <= 5 + p
    PROVE  5 * (d + t) <= ((c + 5) + 5) * (5 + p)
<1>1. ((c + 5) + 5) * (5 + p) = (c + 5) * (5 + p) + 5 * (5 + p)
  OBVIOUS
<1>2. 5 * (d + t) = 5 * d + 5 * t
  OBVIOUS
<1> DEFINE m == (c + 5) * (5 + p)
<1>3. m \in Nat
  OBVIOUS
<1> HIDE DEF m
<1> QED
  BY <1>1, <1>2, <1>3 DEF m

\* The loop keeps count of the time that has passed.
LEMMA WatchStep == TypeOK /\ WatchInv /\ [Next]_vars => WatchInv'
<1> SUFFICES ASSUME TypeOK, WatchInv, [Next]_vars, pc' = "watch"
             PROVE  WatchInv'
  BY DEF WatchInv
<1>1. Probe \in Nat /\ count \in Nat /\ timer \in Nat /\ since \in Nat /\ down \in Nat
      /\ Patience \in Nat
  BY LinkConstantsOK DEF TypeOK, Probe, Patience
<1>2. (UNCHANGED script => Probe' = Probe) /\ (UNCHANGED conf => Patience' = Patience)
  BY DEF Probe, Patience
<1>3. ASSUME UNCHANGED <<script, conf>>,
             timer' <= 5 + Probe,
             link' => down' = 0,
             count' + 5 <= since' + timer',
             5 * (down' + timer') <= (count' + 5) * (5 + Probe),
             count' < Patience + 5
      PROVE  WatchInv'
  <2>1. Probe' = Probe /\ Patience' = Patience
    BY <1>2, <1>3
  <2> QED
    BY <1>3, <2>1, Zenon DEF WatchInv, Period
<1>4. ASSUME timer' \in Delay(5)
      PROVE  \E t \in Nat : timer' = t /\ 5 <= t /\ t <= 5 + Probe
  BY <1>4, DelayOK
<1>5. ASSUME timer' \in Delay(5), UNCHANGED <<script, conf>>,
             count' = 0, since' = 0, down' = 0
      PROVE  WatchInv'
  <2>1. PICK t \in Nat : timer' = t /\ 5 <= t /\ t <= 5 + Probe
    BY <1>4, <1>5
  <2>2. count' < Patience + 5
    BY <1>1, <1>5
  <2>3. timer' <= 5 + Probe /\ count' + 5 <= since' + timer'
    BY <1>5, <2>1
  <2>4. 5 * (down' + timer') <= (count' + 5) * (5 + Probe)
    BY <1>1, <1>5, <2>1
  <2> QED
    BY <1>3, <1>5, <2>2, <2>3, <2>4, Zenon
<1>6. CASE Negotiated \/ Connected
  <2>1. /\ timer' \in Delay(5)
        /\ UNCHANGED <<script, conf>> /\ count' = 0 /\ since' = 0 /\ down' = 0
    BY <1>6 DEF Negotiated, Connected, Watch, Enter, Period
  <2> QED
    BY <1>5, <2>1, Zenon
<1>7. CASE GoodPoll
  <2>1. /\ timer' \in Delay(5)
        /\ UNCHANGED <<script, conf, down>> /\ count' = 0 /\ since' = 0
    BY <1>7 DEF GoodPoll, Period
  <2>2. down = 0
    BY <1>7 DEF GoodPoll, Wakes, WatchInv
  <2> QED
    BY <1>5, <2>1, <2>2, Zenon
<1>8. CASE BadPoll
  <2>1. /\ count' = count + 5 /\ since' = since /\ down' = down
        /\ pc = "watch" /\ timer = 0 /\ count < Patience
        /\ UNCHANGED <<script, conf>>
    BY <1>8 DEF BadPoll, Wakes, Period, CountBelow, Patience
  <2>2. PICK t \in Nat : timer' = t /\ 5 <= t /\ t <= 5 + Probe
    BY <1>4, <1>8 DEF BadPoll, Period
  <2>3. 5 * down <= (count + 5) * (5 + Probe) /\ count + 5 <= since
    BY <1>1, <2>1 DEF WatchInv, Period
  <2>4. 5 * (down' + timer') <= (count' + 5) * (5 + Probe)
    BY <1>1, <2>1, <2>2, <2>3, OnePollMore
  <2>5. count' < Patience + 5
    BY <1>1, <2>1, LinkConstantsOK
  <2>6. timer' <= 5 + Probe /\ count' + 5 <= since' + timer'
    BY <1>1, <2>1, <2>2, <2>3
  <2>7. link' => down' = 0
    BY <1>8, Zenon DEF BadPoll
  <2> QED
    BY <1>3, <2>1, <2>4, <2>5, <2>6, <2>7
<1>9. CASE Tick
  <2>1. /\ timer' = timer - 1 /\ timer > 0 /\ pc = "watch" /\ since' = since + 1
        /\ down' = IF link THEN 0 ELSE down + 1
        /\ UNCHANGED <<script, conf, count, link>>
    BY <1>9 DEF Tick
  <2>2. down' + timer' <= down + timer /\ down' + timer' \in Nat
    BY <1>1, <2>1
  <2>3. 5 * (down' + timer') <= 5 * (down + timer)
    BY <1>1, <2>2
  <2>4. 5 * (down' + timer') <= (count' + 5) * (5 + Probe)
    BY <1>1, <2>1, <2>2, <2>3 DEF WatchInv, Period
  <2>5. timer' <= 5 + Probe /\ count' + 5 <= since' + timer'
    BY <1>1, <2>1 DEF WatchInv, Period
  <2>6. link' => down' = 0
    BY <1>9, <2>1, Zenon
  <2>7. count' < Patience + 5
    BY <2>1, Zenon DEF WatchInv, Period
  <2> QED
    BY <1>3, <2>1, <2>4, <2>5, <2>6, <2>7
<1>10. CASE LinkChanges
  <2>1. pc = "watch" /\ down' = 0 /\ UNCHANGED <<script, conf, count, timer, since>>
    BY <1>10 DEF LinkChanges
  <2>2. 5 * timer <= 5 * (down + timer)
    BY <1>1
  <2>3. 5 * (down' + timer') <= (count' + 5) * (5 + Probe)
    BY <1>1, <2>1, <2>2 DEF WatchInv, Period
  <2>4. timer' <= 5 + Probe /\ count' + 5 <= since' + timer'
    BY <1>1, <2>1 DEF WatchInv, Period
  <2>5. count' < Patience + 5
    BY <2>1, Zenon DEF WatchInv, Period
  <2> QED
    BY <1>3, <2>1, <2>3, <2>4, <2>5
<1>11. CASE SaveSettings \/ UNCHANGED vars
  <2>1. UNCHANGED <<script, conf, pc, count, timer, link, since, down>>
    BY <1>11 DEF SaveSettings, vars
  <2> QED
    BY <1>2, <2>1 DEF WatchInv
<1>12. CASE \/ DeviceMissing \/ DeviceGone \/ DeviceFound \/ NotNegotiated
            \/ NoLink \/ NotConnected \/ ConnectFails \/ LastPoll
            \/ DeviceChanges \/ DaemonDies \/ Shutdown \/ PowerLossWhileSaving
  BY <1>12 DEF DeviceMissing, DeviceGone, DeviceFound, NotNegotiated, NoLink,
               NotConnected, ConnectFails, LastPoll, DeviceChanges, DaemonDies,
               Shutdown, PowerLossWhileSaving, Wakes, Again, Enter
<1>13. CASE Start
  BY <1>13, LinkConstantsOK DEF Start, Enter, TypeOK
<1>14. CASE Starting \/ Watching
  BY <1>6, <1>7, <1>8, <1>12, <1>14, Zenon DEF Starting, Watching
<1> QED
  BY <1>9, <1>10, <1>11, <1>12, <1>13, <1>14, Zenon DEF Next

\* A loop that watches keeps count of both times.
THEOREM WatchInvariant == Spec => []WatchInv
<1>1. Init => WatchInv
  BY DEF Init, WatchInv
<1> QED
  BY <1>1, WatchStep, TypeCorrect, PTL DEF Spec

\* No watch loop is hasty.
THEOREM PatientWatchHolds == Spec => PatientWatch
<1>1. TypeOK /\ WatchInv /\ [Next]_vars
      => [ pc = "watch" /\ pc' = "reboot" => since >= Patience + Period ]_vars
  <2> SUFFICES ASSUME TypeOK, WatchInv, [Next]_vars,
                      pc = "watch", pc' = "reboot"
               PROVE  since >= Patience + Period
    OBVIOUS
  <2>1. LastPoll
    BY DEF Next, Start, Starting, Watching, vars, DeviceMissing, DeviceGone,
           DeviceFound, NotNegotiated, NoLink, Negotiated, NotConnected, Connected,
           ConnectFails, GoodPoll, BadPoll, Tick, LinkChanges, DeviceChanges,
           DaemonDies, SaveSettings, Shutdown, PowerLossWhileSaving, Wakes, Enter
  <2>2. count \in Nat /\ since \in Nat /\ Patience \in Nat
    BY DEF TypeOK, Patience
  <2>3. timer = 0 /\ ~(count < Patience)
    BY <2>1, <2>2 DEF LastPoll, Wakes, CountBelow, Patience
  <2> QED
    BY <2>2, <2>3 DEF WatchInv, Period
<1> QED
  BY <1>1, TypeCorrect, WatchInvariant, PTL DEF Spec, PatientWatch

\* The product of naturals is monotonic.
LEMMA ProductMonotonic ==
    ASSUME NEW a \in Nat, NEW b \in Nat, NEW c \in Nat, a <= b
    PROVE  a * c <= b * c
<1>1. b * c = a * c + (b - a) * c
  OBVIOUS
<1>2. (b - a) * c \in Nat
  OBVIOUS
<1>3. a * c \in Nat
  OBVIOUS
<1> QED
  BY <1>1, <1>2, <1>3

\* No watch loop is slow.
THEOREM PromptWatchHolds == Spec => []PromptWatch
<1>1. TypeOK /\ WatchInv => PromptWatch
  <2> SUFFICES ASSUME TypeOK, WatchInv, pc = "watch"
               PROVE  5 * down <= (Patience + 10) * (5 + Probe)
    BY DEF PromptWatch, Period
  <2>1. count \in Nat /\ timer \in Nat /\ down \in Nat /\ Patience \in Nat /\ Probe \in Nat
    BY LinkConstantsOK DEF TypeOK, Probe, Patience
  <2>2. (count + 5) * (5 + Probe) <= (Patience + 10) * (5 + Probe)
    <3>1. count + 5 <= Patience + 10
      BY <2>1 DEF WatchInv, Period
    <3> QED
      BY <2>1, <3>1, ProductMonotonic
  <2>3. 5 * (down + timer) <= (count + 5) * (5 + Probe)
    BY DEF WatchInv, Period
  <2>4. (count + 5) * (5 + Probe) \in Nat /\ (Patience + 10) * (5 + Probe) \in Nat
    BY <2>1
  <2> QED
    BY <2>1, <2>2, <2>3, <2>4
<1> QED
  BY <1>1, TypeCorrect, WatchInvariant, PTL

=============================================================================
