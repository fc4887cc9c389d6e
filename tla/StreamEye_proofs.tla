-------------------------- MODULE StreamEye_proofs --------------------------
(***************************************************************************)
(* Proofs about StreamEye.  What a switch needs of the files is stated for *)
(* three degrees of harm: nothing but interrupted switches and files that  *)
(* were cut (CalmInv), nothing but interrupted switches (QuietInv), and    *)
(* none at all (FreshInv).                                                 *)
(***************************************************************************)
EXTENDS StreamEye, SequenceTheorems, TLAPS

\* A device that is about to write the settings has a first camera.
SettingsHasFile == pc = "settings" => conf[1] # Absent

-----------------------------------------------------------------------------
(* Types.                                                                  *)

\* There is a first camera id.
LEMMA FirstId == 1 \in Ids
BY StreamEyeConstantsOK DEF Ids

\* Every step of the server keeps the types.
LEMMA TypeStep == TypeOK /\ SettingsHasFile /\ [Next]_vars => TypeOK' /\ SettingsHasFile'
<1> SUFFICES ASSUME TypeOK, SettingsHasFile, [Next]_vars PROVE TypeOK' /\ SettingsHasFile'
  OBVIOUS
<1> USE FirstId DEF TypeOK, SettingsHasFile, disk, memory, Configs
<1>1. ASSUME NEW enabled \in BOOLEAN, Ask(enabled) PROVE TypeOK' /\ SettingsHasFile'
  <2>1. /\ pc' \in {"settings", "serve"} /\ pc' = "settings" => conf[1] # Absent
        /\ asked' \in BOOLEAN /\ todo = {} /\ lines = Absent
    BY <1>1 DEF Ask, Serving
  <2>2. pending' \in Seq(BOOLEAN)
    <3>1. Append(pending, enabled) \in Seq(BOOLEAN)
      BY AppendProperties
    <3> QED
      BY <1>1, <3>1 DEF Ask
  <2>3. harm' \subseteq {"overlap", "added", "url", "cut", "stopped"}
    BY <1>1 DEF Ask
  <2> QED
    BY <1>1, <2>1, <2>2, <2>3 DEF Ask
<1>2. ASSUME NEW c \in Cams, AddCamera(c) PROVE TypeOK' /\ SettingsHasFile'
  BY <1>2 DEF AddCamera, Serving, File
<1>3. CASE RewriteSettings
  BY <1>3 DEF RewriteSettings
<1>4. CASE SettingsRewritten
  BY <1>4 DEF SettingsRewritten, GetsUrl, IsMjpeg, File
<1>5. CASE TurnOn
  <2>1. pending' \in Seq(BOOLEAN)
    <3>1. pending # <<>> /\ pending' = Tail(pending)
      BY <1>5 DEF TurnOn, Callback
    <3> QED
      BY <3>1, HeadTailProperties
  <2>2. threads' \subseteq Ids /\ todo' \subseteq Ids
    BY <1>5 DEF TurnOn, Present
  <2>3. pc \in {"serve", "next"}
    BY <1>5 DEF TurnOn, Callback
  <2> QED
    BY <1>5, <2>1, <2>2, <2>3 DEF TurnOn
<1>6. ASSUME NEW n \in Ids, HideCamera(n) PROVE TypeOK' /\ SettingsHasFile'
  BY <1>6 DEF HideCamera
<1>7. CASE AddStreamEye
  BY <1>7 DEF AddStreamEye, Step
<1>8. CASE StreamEyeAdded
  BY <1>8 DEF StreamEyeAdded, Step, File
<1>9. CASE Forbid
  BY <1>9 DEF Forbid, Step, Return
<1>10. CASE TurnOff
  <2>1. pending' \in Seq(BOOLEAN)
    <3>1. pending # <<>> /\ pending' = Tail(pending)
      BY <1>10 DEF TurnOff, Callback
    <3> QED
      BY <3>1, HeadTailProperties
  <2>2. todo' \subseteq Ids
    BY <1>10 DEF TurnOff, Valid
  <2>3. pc \in {"serve", "next"}
    BY <1>10 DEF TurnOff, Callback
  <2> QED
    BY <1>10, <2>1, <2>2, <2>3 DEF TurnOff
<1>11. ASSUME NEW n \in Ids, RemoveStreamEye(n) PROVE TypeOK' /\ SettingsHasFile'
  BY <1>11 DEF RemoveStreamEye
<1>12. CASE ListHidden
  BY <1>12 DEF ListHidden, Step, Present
<1>13. ASSUME NEW n \in Ids, RestoreCamera(n) PROVE TypeOK' /\ SettingsHasFile'
  BY <1>13 DEF RestoreCamera
<1>14. CASE ListCameras
  BY <1>14 DEF ListCameras, Step, Valid
<1>15. ASSUME NEW n \in Ids, EnableCamera(n) PROVE TypeOK' /\ SettingsHasFile'
  BY <1>15 DEF EnableCamera
<1>16. CASE Allow
  BY <1>16 DEF Allow, Step, Return
<1>17. CASE Stop
  BY <1>17 DEF Stop
<1>18. CASE StartServer
  BY <1>18 DEF StartServer, Step, Enabled
<1>19. CASE UNCHANGED vars
  BY <1>19 DEF vars
<1> QED
  BY <1>1, <1>2, <1>3, <1>4, <1>5, <1>6, <1>7, <1>8, <1>9, <1>10, <1>11, <1>12, <1>13,
     <1>14, <1>15, <1>16, <1>17, <1>18, <1>19 DEF Next, Request, Settings, SwitchOn, SwitchOff

\* The server starts with them.
LEMMA TypeInit == Init => TypeOK /\ SettingsHasFile
<1> SUFFICES ASSUME Init PROVE TypeOK /\ SettingsHasFile
  OBVIOUS
<1>1. conf \in [Ids -> Configs \cup {Absent, Cut}] /\ bak \in [Ids -> Configs \cup {Absent, Cut}]
  <2>1. \A c \in Cams : File(c, FALSE) \in Configs
    BY DEF Configs, File
  <2>2. {Absent} \cup {File(c, FALSE) : c \in Cams} \subseteq Configs \cup {Absent, Cut}
    BY <2>1
  <2>3. conf \in [Ids -> Configs \cup {Absent, Cut}]
    BY <2>2 DEF Init
  <2>4. bak \in [Ids -> Configs \cup {Absent, Cut}]
    BY DEF Init
  <2> QED
    BY <2>3, <2>4
<1>2. threads \subseteq Ids
  BY DEF Init, Valid
<1>3. users \subseteq Cams
  <2>1. \A n \in Valid(conf) : conf[n] \in {File(c, FALSE) : c \in Cams}
    BY DEF Init, Valid
  <2> QED
    BY <2>1 DEF Init, File
<1>4. pending \in Seq(BOOLEAN)
  BY EmptySeq DEF Init
<1> QED
  BY <1>1, <1>2, <1>3, <1>4 DEF Init, TypeOK, SettingsHasFile

\* TypeOK is an invariant, for any cameras and bounds: in particular no loop
\* over the files is left before its end.
THEOREM TypeCorrect == Spec => []TypeOK
BY TypeInit, TypeStep, PTL DEF Spec

-----------------------------------------------------------------------------
(* What is true of the files.                                              *)

\* The configurations, with the one that is being rewritten as it was read.
Now == IF pc = "rewriting" THEN [conf EXCEPT ![1] = lines] ELSE conf

SE == File(StreamEyeCam, TRUE)
OfUser == [cam : Cams, local : {FALSE}]
Others == Ids \ {1}

\* No callback is carrying a switch out.
Asking == {"serve", "settings", "rewriting"}

\* The camera of streamEye is alone, without the harm of another order.
FilesCalm ==
    /\ Now[1] \in OfUser \cup {SE, Absent, Cut}
    /\ \A n \in Others : Now[n] \in OfUser \cup {Absent, Cut}
    /\ \A n \in Ids : bak[n] \in OfUser \cup {Absent, Cut}
    /\ \A n \in Ids : /\ Now[n] \in OfUser => Now[n].cam \in users
                      /\ bak[n] \in OfUser => bak[n].cam \in users
    /\ Now[1] = SE => \A n \in Others : Now[n] = Absent

\* Where a switch is.
PlaceCalm ==
    /\ pc # "next"
    /\ pc \in Asking => (cached <=> Now[1] = SE)
    /\ pc = "rewriting" => conf[1] = Cut
    /\ pc = "hide" => ~cached /\ conf[1] # SE /\ todo = Present(conf)
    /\ pc = "adding" => cached /\ conf[1] = Cut /\ \A n \in Others : conf[n] = Absent
    /\ pc = "forbid" => cached /\ conf[1] = SE
    /\ pc = "remove" => /\ \A n \in Others : conf[n] = Absent
                        /\ \/ todo = {1} /\ conf[1] = SE
                           \/ todo = {} /\ conf[1] = Absent
    /\ pc = "restore" => conf[1] # SE /\ todo = Present(bak)
    /\ pc = "enable" => ~cached /\ conf[1] # SE /\ todo \subseteq Valid(conf)

\* At most one callback is pending, and it changes the mode.
PendingCalm ==
    pending # <<>> => pc \in Asking /\ pending = <<~cached>>

CalmInv == harm \subseteq {"stopped", "cut"} => FilesCalm /\ PlaceCalm /\ PendingCalm

\* No camera of the user is in two files or in none.
FilesQuiet ==
    /\ \A n \in Ids : Now[n] = Cut => pc = "adding" /\ n = 1
    /\ \A n \in Ids : bak[n] # Cut
    /\ \A n \in Ids : Now[n] \in OfUser => bak[n] = Absent
    /\ \A c \in users : \E n \in Ids : \/ Now[n] \in OfUser /\ Now[n].cam = c
                                       \/ bak[n] \in OfUser /\ bak[n].cam = c
    /\ pc = "enable" => \A n \in Ids : bak[n] = Absent

QuietInv == harm \subseteq {"stopped"} => FilesQuiet

\* The camera of an id is the one that was hidden, if any.
Owner(n) == IF bak[n] # Absent THEN bak[n] ELSE Now[n]
Runs(file) == file \in OfUser /\ file.cam \notin Mjpeg

AskedFresh ==
    /\ pc \in Asking => IF pending = <<>> THEN cached = asked ELSE pending = <<asked>>
    /\ pc \in {"hide", "adding", "forbid"} => asked
    /\ pc \in {"remove", "restore", "enable"} => ~asked
    /\ pc = "down" => pending = <<>> /\ cached = asked /\ (cached <=> conf[1] = SE)
ThreadsFresh ==
    /\ \A n \in threads : Runs(Owner(n))
    /\ pc \in Asking \cup {"down"} /\ ~cached =>
         /\ allowed
         /\ \A n \in Ids : bak[n] = Absent /\ (Runs(Now[n]) => n \in threads)
    /\ pc = "enable" => \A n \in Ids : Runs(conf[n]) => n \in todo \cup threads

FreshInv == harm = {} => AskedFresh /\ ThreadsFresh

IInv == TypeOK /\ SettingsHasFile /\ CalmInv /\ QuietInv /\ FreshInv

-----------------------------------------------------------------------------
(* Nothing but interrupted switches and files that were cut.               *)

\* The four kinds of files that a switch meets are different.
LEMMA FileFacts ==
    /\ SE \notin OfUser /\ SE # Absent /\ SE # Cut /\ SE.local /\ IsMjpeg(SE)
    /\ Absent \notin OfUser /\ Cut \notin OfUser /\ Absent # Cut
    /\ \A f \in OfUser : ~f.local /\ f.cam \in Cams /\ f # Absent /\ f # Cut
    /\ \A c \in Cams : File(c, FALSE) \in OfUser /\ File(c, FALSE).cam = c
<1>1. \A f \in OfUser : ~f.local /\ f.cam \in Cams /\ f \in [cam : Cams \cup {StreamEyeCam}, local : BOOLEAN]
  BY DEF OfUser
<1>2. SE \in [cam : Cams \cup {StreamEyeCam}, local : BOOLEAN] /\ SE.local /\ SE.cam = StreamEyeCam
  BY DEF SE, File
<1>3. \A c \in Cams : File(c, FALSE) \in OfUser /\ File(c, FALSE).cam = c
  BY DEF File, OfUser
<1>4. \A f \in OfUser \cup {SE} : f # Absent /\ f # Cut
  BY <1>1, <1>2, StreamEyeConstantsOK
<1>5. IsMjpeg(SE)
  BY <1>2, <1>4 DEF IsMjpeg
<1>6. SE \notin OfUser
  BY <1>1, <1>2
<1> QED
  BY <1>1, <1>2, <1>3, <1>4, <1>5, <1>6, StreamEyeConstantsOK

\* What went wrong is not forgotten.
LEMMA HarmGrows == [Next]_vars => harm \subseteq harm'
BY DEF Next, Request, Settings, SwitchOn, SwitchOff, Ask, AddCamera, RewriteSettings,
   SettingsRewritten, TurnOn, HideCamera, AddStreamEye, StreamEyeAdded, Forbid, TurnOff,
   RemoveStreamEye, ListHidden, RestoreCamera, ListCameras, EnableCamera, Allow, Stop,
   StartServer, vars, disk, memory

\* The server finds the mode of the files when it starts.
LEMMA EnabledCalm == TypeOK /\ FilesCalm /\ pc # "rewriting" => (Enabled <=> conf[1] = SE)
<1> SUFFICES ASSUME TypeOK, FilesCalm, pc # "rewriting" PROVE Enabled <=> conf[1] = SE
  OBVIOUS
<1> USE FileFacts, FirstId DEF FilesCalm, Now, Others
<1>1. ASSUME conf[1] = SE PROVE Enabled
  <2>1. Present(conf) = {1}
    BY <1>1 DEF Present
  <2> QED
    BY <1>1, <2>1 DEF Enabled
<1>2. ASSUME Enabled PROVE conf[1] = SE
  <2>1. PICK n \in Ids : IsMjpeg(conf[n]) /\ conf[n].local
    BY <1>2 DEF Enabled
  <2> QED
    BY <2>1 DEF IsMjpeg
<1> QED
  BY <1>1, <1>2

\* A queue of one.
LEMMA OneCallback ==
    ASSUME NEW value, NEW q, q = <<value>>
    PROVE  Head(q) = value /\ Tail(q) = <<>>
OBVIOUS

\* The files and the place of the switch, whatever the server does.  A callback
\* that is pending runs when nothing else does.
LEMMA CalmStep ==
    /\ TypeOK /\ SettingsHasFile /\ CalmInv /\ [Next]_vars /\ harm' \subseteq {"stopped", "cut"}
    => FilesCalm' /\ PlaceCalm' /\ PendingCalm'
<1> SUFFICES ASSUME TypeOK, SettingsHasFile, CalmInv, [Next]_vars, harm' \subseteq {"stopped", "cut"}
             PROVE  FilesCalm' /\ PlaceCalm' /\ PendingCalm'
  OBVIOUS
<1>0. FilesCalm /\ PlaceCalm /\ PendingCalm
  BY HarmGrows DEF CalmInv
<1> USE <1>0, FirstId, FileFacts DEF disk, memory, Others, Asking
<1>1. ASSUME NEW enabled \in BOOLEAN, Ask(enabled) PROVE FilesCalm' /\ PlaceCalm' /\ PendingCalm'
  <2>1. FilesCalm' /\ PlaceCalm'
    BY <1>1 DEF Ask, FilesCalm, PlaceCalm, Now, Serving
  <2>2. PendingCalm'
    <3>1. pending = <<>> /\ pc' \in Asking /\ cached' = cached /\ cached \in BOOLEAN
      BY <1>1 DEF Ask, TypeOK
    <3>2. CASE enabled = cached
      BY <1>1, <3>1, <3>2 DEF Ask, PendingCalm
    <3>3. CASE enabled # cached
      <4>1. enabled = ~cached
        BY <3>1, <3>3
      <4>2. pending' = <<enabled>>
        BY <1>1, <3>1, <3>3 DEF Ask
      <4> QED
        BY <3>1, <4>1, <4>2 DEF PendingCalm
    <3> QED
      BY <3>2, <3>3
  <2> QED
    BY <2>1, <2>2
<1>2. ASSUME NEW c \in Cams, AddCamera(c) PROVE FilesCalm' /\ PlaceCalm' /\ PendingCalm'
  <2>1. PICK n \in Ids : conf' = [conf EXCEPT ![n] = File(c, FALSE)]
    BY <1>2 DEF AddCamera
  <2>2. /\ \A m \in Ids : conf'[m] = IF m = n THEN File(c, FALSE) ELSE conf[m]
        /\ File(c, FALSE) \in OfUser /\ File(c, FALSE).cam = c
    BY <2>1 DEF TypeOK
  <2>3. /\ pc = "serve" /\ pc' = pc /\ cached' = cached /\ ~cached /\ pending' = pending
        /\ bak' = bak /\ todo' = todo /\ users' = users \cup {c} /\ Present(bak) = {}
    BY <1>2 DEF AddCamera, Serving
  <2>4. conf[1] # SE /\ conf'[1] # SE
    BY <2>2, <2>3 DEF PlaceCalm, Now
  <2>5. FilesCalm'
    BY <2>2, <2>4, <2>3 DEF FilesCalm, Now
  <2>6. PlaceCalm' /\ PendingCalm'
    BY <2>4, <2>3 DEF PlaceCalm, PendingCalm, Now
  <2> QED
    BY <2>5, <2>6
<1>3. CASE RewriteSettings
  BY <1>3 DEF RewriteSettings, FilesCalm, PlaceCalm, PendingCalm, Now, TypeOK
<1>4. CASE SettingsRewritten
  <2>1. /\ pc = "rewriting" /\ pc' = "serve" /\ conf' = [conf EXCEPT ![1] = lines]
        /\ UNCHANGED <<bak, users, cached, todo, pending>>
    BY <1>4 DEF SettingsRewritten
  <2>2. Now' = Now
    BY <2>1 DEF Now
  <2>3. FilesCalm'
    BY <2>1, <2>2 DEF FilesCalm
  <2>4. PlaceCalm' /\ PendingCalm'
    BY <2>1, <2>2 DEF PlaceCalm, PendingCalm
  <2> QED
    BY <2>3, <2>4
<1>5. CASE TurnOn
  <2>1. /\ pc = "serve" /\ pending = <<~cached>> /\ Head(pending) = TRUE /\ pending' = Tail(pending)
        /\ pc' = "hide" /\ todo' = Present(conf) /\ UNCHANGED <<conf, bak, users, cached>>
    BY <1>5 DEF TurnOn, Callback, PendingCalm, PlaceCalm
  <2>2. ~cached /\ pending' = <<>>
    BY <2>1, OneCallback
  <2>3. FilesCalm'
    BY <2>1 DEF FilesCalm, Now
  <2>4. PlaceCalm' /\ PendingCalm'
    BY <2>1, <2>2 DEF PlaceCalm, PendingCalm, Now, Present
  <2> QED
    BY <2>3, <2>4
<1>6. ASSUME NEW n \in Ids, HideCamera(n) PROVE FilesCalm' /\ PlaceCalm' /\ PendingCalm'
  BY <1>6 DEF HideCamera, FilesCalm, PlaceCalm, PendingCalm, Now, TypeOK, Present
<1>7. CASE AddStreamEye
  BY <1>7 DEF AddStreamEye, Step, FilesCalm, PlaceCalm, PendingCalm, Now, TypeOK, Present
<1>8. CASE StreamEyeAdded
  <2>1. conf' = [conf EXCEPT ![1] = SE]
    BY <1>8 DEF StreamEyeAdded, SE
  <2> QED
    <3>1. conf'[1] = SE /\ \A n \in Others : conf'[n] = Absent
      BY <1>8, <2>1 DEF StreamEyeAdded, Step, PlaceCalm, TypeOK
    <3>2. /\ pc = "adding" /\ pc' = "forbid" /\ pending = <<>>
          /\ cached /\ UNCHANGED <<bak, users, cached, pending>>
      BY <1>8 DEF StreamEyeAdded, Step, PendingCalm, PlaceCalm
    <3>3. FilesCalm'
      BY <3>1, <3>2 DEF FilesCalm, Now
    <3> QED
      BY <3>1, <3>2, <3>3 DEF PlaceCalm, PendingCalm
<1>9. CASE Forbid
  BY <1>9 DEF Forbid, Step, Return, FilesCalm, PlaceCalm, PendingCalm, Now
<1>10. CASE TurnOff
  <2>1. /\ pc = "serve" /\ pending = <<~cached>> /\ Head(pending) = FALSE /\ pending' = Tail(pending)
        /\ pc' = "remove" /\ todo' = {n \in Valid(conf) : IsMjpeg(conf[n])}
        /\ UNCHANGED <<conf, bak, users, cached>>
    BY <1>10 DEF TurnOff, Callback, PendingCalm, PlaceCalm
  <2>2. cached /\ pending' = <<>>
    BY <2>1, OneCallback
  <2>3. FilesCalm'
    BY <2>1 DEF FilesCalm, Now
  <2>4. conf[1] = SE /\ \A n \in Others : conf[n] = Absent
    BY <2>1, <2>2 DEF PlaceCalm, FilesCalm, Now
  <2>5. todo' = {1}
    <3>1. 1 \in todo'
      BY <2>1, <2>4 DEF Valid
    <3>2. \A n \in todo' : n = 1
      BY <2>1, <2>4 DEF Valid
    <3> QED
      BY <3>1, <3>2
  <2>6. PlaceCalm' /\ PendingCalm'
    BY <2>1, <2>2, <2>4, <2>5 DEF PlaceCalm, PendingCalm
  <2> QED
    BY <2>3, <2>6
<1>11. ASSUME NEW n \in Ids, RemoveStreamEye(n) PROVE FilesCalm' /\ PlaceCalm' /\ PendingCalm'
  BY <1>11 DEF RemoveStreamEye, FilesCalm, PlaceCalm, PendingCalm, Now, TypeOK
<1>12. CASE ListHidden
  BY <1>12 DEF ListHidden, Step, FilesCalm, PlaceCalm, PendingCalm, Now, Present
<1>13. ASSUME NEW n \in Ids, RestoreCamera(n) PROVE FilesCalm' /\ PlaceCalm' /\ PendingCalm'
  BY <1>13 DEF RestoreCamera, FilesCalm, PlaceCalm, PendingCalm, Now, TypeOK, Present
<1>14. CASE ListCameras
  BY <1>14 DEF ListCameras, Step, FilesCalm, PlaceCalm, PendingCalm, Now, Valid
<1>15. ASSUME NEW n \in Ids, EnableCamera(n) PROVE FilesCalm' /\ PlaceCalm' /\ PendingCalm'
  BY <1>15 DEF EnableCamera, FilesCalm, PlaceCalm, PendingCalm, Now, Valid
<1>16. CASE Allow
  BY <1>16 DEF Allow, Step, Return, FilesCalm, PlaceCalm, PendingCalm, Now
<1>17. CASE Stop
  BY <1>17 DEF Stop, FilesCalm, PlaceCalm, PendingCalm, Now, TypeOK
<1>18. CASE StartServer
  <2>1. /\ pc = "down" /\ pc' = "serve" /\ cached' = Enabled /\ pending' = pending
        /\ UNCHANGED <<conf, bak, users, todo>>
    BY <1>18 DEF StartServer, Step
  <2>2. Enabled <=> conf[1] = SE
    BY <2>1, EnabledCalm
  <2>3. FilesCalm'
    BY <2>1 DEF FilesCalm, Now
  <2>4. PlaceCalm' /\ PendingCalm'
    BY <2>1, <2>2 DEF PlaceCalm, PendingCalm, Now
  <2> QED
    BY <2>3, <2>4
<1>19. CASE UNCHANGED vars
  BY <1>19 DEF vars, FilesCalm, PlaceCalm, PendingCalm, Now, Present, Valid
<1> QED
  BY <1>1, <1>2, <1>3, <1>4, <1>5, <1>6, <1>7, <1>8, <1>9, <1>10, <1>11, <1>12, <1>13,
     <1>14, <1>15, <1>16, <1>17, <1>18, <1>19 DEF Next, Request, Settings, SwitchOn, SwitchOff

-----------------------------------------------------------------------------
(* Nothing but interrupted switches.                                       *)

\* A switch moves the file of a camera, and its end is not cut.
LEMMA QuietStep ==
    /\ TypeOK /\ SettingsHasFile /\ CalmInv /\ QuietInv /\ [Next]_vars
    /\ harm' \subseteq {"stopped"}
    => FilesQuiet'
<1> SUFFICES ASSUME TypeOK, SettingsHasFile, CalmInv, QuietInv, [Next]_vars,
                    harm' \subseteq {"stopped"}
             PROVE  FilesQuiet'
  OBVIOUS
<1>0. FilesCalm /\ PlaceCalm /\ PendingCalm /\ FilesQuiet
  BY HarmGrows DEF CalmInv, QuietInv
<1> USE <1>0, FirstId, FileFacts DEF Others, Asking
<1>1. CASE \/ \E enabled \in BOOLEAN : Ask(enabled)
           \/ Forbid \/ ListCameras \/ Allow \/ StartServer
           \/ \E n \in Ids : EnableCamera(n)
           \/ TurnOn \/ TurnOff
  <2>1. UNCHANGED <<conf, bak, users>> /\ pc \notin {"rewriting", "adding"} /\ pc' # "rewriting"
    BY <1>1 DEF Ask, Serving, Forbid, ListCameras, Allow, StartServer, EnableCamera, TurnOn, TurnOff,
       Callback, Step, Return, disk, memory
  <2>2. pc' = "enable" => pc = "enable" \/ (pc = "restore" /\ todo = {})
    BY <1>1 DEF Ask, Serving, Forbid, ListCameras, Allow, StartServer, EnableCamera, TurnOn, TurnOff,
       Callback, Step, Return, disk, memory
  <2> QED
    BY <2>1, <2>2 DEF FilesQuiet, PlaceCalm, Present, Now
<1>2. ASSUME NEW c \in Cams, AddCamera(c) PROVE FilesQuiet'
  <2>1. PICK n \in Ids : /\ conf' = [conf EXCEPT ![n] = File(c, FALSE)]
                         /\ n \notin Valid(conf)
    BY <1>2 DEF AddCamera
  <2>2. PICK file \in OfUser : /\ file.cam = c /\ file # Cut
                              /\ \A m \in Ids : conf'[m] = IF m = n THEN file ELSE conf[m]
    <3>1. File(c, FALSE) \in OfUser /\ File(c, FALSE).cam = c
      OBVIOUS
    <3> QED
      BY <2>1, <3>1 DEF TypeOK
  <2>3. /\ pc = "serve" /\ pc' = pc /\ bak' = bak /\ users' = users \cup {c}
        /\ \A m \in Ids : bak[m] = Absent
    BY <1>2 DEF AddCamera, Serving, memory, Present
  <2>4. conf[n] = Absent
    BY <2>1, <2>3 DEF Valid, FilesQuiet, Now
  <2>5. \A d \in users' : \E m \in Ids : conf'[m] \in OfUser /\ conf'[m].cam = d
    <3>1. \A d \in users : \E m \in Ids : m # n /\ conf[m] \in OfUser /\ conf[m].cam = d
      BY <2>3, <2>4 DEF FilesQuiet, Now
    <3> QED
      BY <2>2, <2>3, <3>1
  <2>6. \A m \in Ids : conf'[m] # Cut
    BY <2>2, <2>3 DEF FilesQuiet, Now
  <2> QED
    BY <2>3, <2>5, <2>6 DEF FilesQuiet, Now
<1>3. CASE RewriteSettings \/ SettingsRewritten
  <2>1. Now' = Now
    <3>1. CASE RewriteSettings
      BY <3>1 DEF RewriteSettings, Now, TypeOK
    <3>2. CASE SettingsRewritten
      BY <3>2 DEF SettingsRewritten, Now
    <3> QED
      BY <1>3, <3>1, <3>2
  <2>2. UNCHANGED <<bak, users>> /\ pc' \notin {"adding", "enable"} /\ pc # "adding"
    BY <1>3 DEF RewriteSettings, SettingsRewritten
  <2> QED
    BY <2>1, <2>2 DEF FilesQuiet
<1>4. ASSUME NEW n \in Ids, HideCamera(n) PROVE FilesQuiet'
  <2>1. /\ pc = "hide" /\ pc' = "hide" /\ users' = users
        /\ \A m \in Ids : /\ conf'[m] = IF m = n THEN Absent ELSE conf[m]
                          /\ bak'[m] = IF m = n THEN conf[n] ELSE bak[m]
    BY <1>4 DEF HideCamera, TypeOK
  <2>2. conf[n] \in OfUser
    BY <1>4 DEF HideCamera, PlaceCalm, Present, FilesCalm, FilesQuiet, Now
  <2> QED
    BY <2>1, <2>2 DEF FilesQuiet, Now
<1>5. CASE AddStreamEye
  <2>1. \A m \in Ids : conf[m] = Absent
    BY <1>5 DEF AddStreamEye, Step, PlaceCalm, Present
  <2>2. /\ pc = "hide" /\ pc' = "adding" /\ UNCHANGED <<bak, users>>
        /\ \A m \in Ids : conf'[m] = IF m = 1 THEN Cut ELSE conf[m]
    BY <1>5 DEF AddStreamEye, Step, TypeOK
  <2> QED
    BY <2>1, <2>2 DEF FilesQuiet, Now
<1>6. CASE StreamEyeAdded
  <2>1. /\ pc = "adding" /\ pc' = "forbid" /\ UNCHANGED <<bak, users>>
        /\ conf[1] = Cut
        /\ \A m \in Ids : conf'[m] = IF m = 1 THEN SE ELSE conf[m]
    BY <1>6 DEF StreamEyeAdded, Step, PlaceCalm, TypeOK, SE
  <2> QED
    BY <2>1 DEF FilesQuiet, Now
<1>7. ASSUME NEW n \in Ids, RemoveStreamEye(n) PROVE FilesQuiet'
  <2>1. /\ pc = "remove" /\ pc' = "remove" /\ UNCHANGED <<bak, users>>
        /\ n = 1 /\ conf[1] = SE
        /\ \A m \in Ids : conf'[m] = IF m = 1 THEN Absent ELSE conf[m]
    BY <1>7 DEF RemoveStreamEye, PlaceCalm, TypeOK
  <2> QED
    BY <2>1 DEF FilesQuiet, Now
<1>8. CASE ListHidden
  BY <1>8 DEF ListHidden, Step, disk, FilesQuiet, Now
<1>9. ASSUME NEW n \in Ids, RestoreCamera(n) PROVE FilesQuiet'
  <2>1. /\ pc = "restore" /\ pc' = "restore" /\ users' = users
        /\ \A m \in Ids : /\ conf'[m] = IF m = n THEN bak[n] ELSE conf[m]
                          /\ bak'[m] = IF m = n THEN Absent ELSE bak[m]
    BY <1>9 DEF RestoreCamera, TypeOK
  <2>2. bak[n] \in OfUser
    BY <1>9 DEF RestoreCamera, PlaceCalm, Present, FilesCalm, FilesQuiet
  <2>3. conf[n] \notin OfUser
    BY <2>1, <2>2 DEF FilesQuiet, Now
  <2> QED
    BY <2>1, <2>2, <2>3 DEF FilesQuiet, Now
<1>10. CASE Stop
  <2>1. pc \notin {"rewriting", "adding"} /\ conf' = conf /\ UNCHANGED <<bak, users>> /\ pc' = "down"
    BY <1>10 DEF Stop
  <2> QED
    BY <2>1 DEF FilesQuiet, Now
<1>11. CASE UNCHANGED vars
  BY <1>11 DEF vars, disk, memory, FilesQuiet, Now
<1> QED
  BY <1>1, <1>2, <1>3, <1>4, <1>5, <1>6, <1>7, <1>8, <1>9, <1>10, <1>11
  DEF Next, Request, Settings, SwitchOn, SwitchOff

-----------------------------------------------------------------------------
(* No harm at all.                                                         *)

\* The mode is the one that was asked for, and motion runs what is to run.
LEMMA FreshStep ==
    /\ TypeOK /\ SettingsHasFile /\ CalmInv /\ QuietInv /\ FreshInv /\ [Next]_vars
    /\ harm' = {}
    => AskedFresh' /\ ThreadsFresh'
<1> SUFFICES ASSUME TypeOK, SettingsHasFile, CalmInv, QuietInv, FreshInv, [Next]_vars,
                    harm' = {}
             PROVE  AskedFresh' /\ ThreadsFresh'
  OBVIOUS
<1>0. FilesCalm /\ PlaceCalm /\ PendingCalm /\ FilesQuiet /\ AskedFresh /\ ThreadsFresh
  BY HarmGrows DEF CalmInv, QuietInv, FreshInv
<1> USE <1>0, FirstId, FileFacts DEF Others, Asking
<1>1. ASSUME NEW enabled \in BOOLEAN, Ask(enabled) PROVE AskedFresh' /\ ThreadsFresh'
  <2>1. /\ pc = "serve" /\ pc' \in {"serve", "settings"} /\ pending = <<>> /\ asked' = enabled
        /\ UNCHANGED <<conf, bak, threads, allowed, cached>>
        /\ pending' = IF enabled # cached THEN <<enabled>> ELSE <<>>
    <3>1. /\ pc = "serve" /\ pending = <<>>
          /\ pending' = IF enabled # cached THEN Append(pending, enabled) ELSE pending
      BY <1>1 DEF Ask, Serving
    <3>2. Append(<<>>, enabled) = <<enabled>>
      OBVIOUS
    <3>3. pending' = IF enabled # cached THEN <<enabled>> ELSE <<>>
      BY <3>1, <3>2, Zenon
    <3> QED
      BY <1>1, <3>1, <3>3 DEF Ask, disk
  <2>2. AskedFresh'
    BY <2>1 DEF AskedFresh
  <2>3. ThreadsFresh'
    BY <2>1 DEF ThreadsFresh, Owner, Now
  <2> QED
    BY <2>2, <2>3
<1>2. ASSUME NEW c \in Cams, AddCamera(c) PROVE AskedFresh' /\ ThreadsFresh'
  <2>1. PICK n \in Ids : /\ conf' = [conf EXCEPT ![n] = File(c, FALSE)]
                         /\ n \notin Valid(conf)
                         /\ threads' = IF c \in Mjpeg THEN threads ELSE threads \cup {n}
    BY <1>2 DEF AddCamera
  <2>2. PICK file \in OfUser : /\ file.cam = c
                              /\ \A m \in Ids : conf'[m] = IF m = n THEN file ELSE conf[m]
    <3>1. File(c, FALSE) \in OfUser /\ File(c, FALSE).cam = c
      OBVIOUS
    <3> QED
      BY <2>1, <3>1 DEF TypeOK
  <2>3. /\ pc = "serve" /\ ~cached /\ UNCHANGED <<pc, bak, allowed, cached, asked, pending>>
    BY <1>2 DEF AddCamera, Serving, memory
  <2>4. conf[n] = Absent /\ \A m \in Ids : bak[m] = Absent
    BY <1>2, <2>1, <2>3 DEF Valid, FilesQuiet, Now, AddCamera, Present
  <2>5. AskedFresh'
    BY <2>3 DEF AskedFresh
  <2>6. \A m \in Ids : Runs(conf'[m]) <=> m \in threads'
    <3>1. \A m \in Ids : Runs(conf[m]) <=> m \in threads
      BY <2>3, <2>4 DEF ThreadsFresh, Owner, Now, TypeOK
    <3>2. Runs(file) <=> c \notin Mjpeg
      BY <2>2 DEF Runs
    <3>3. n \notin threads
      BY <3>1, <2>4 DEF Runs
    <3> QED
      BY <2>1, <2>2, <3>1, <3>2, <3>3
  <2>7. ThreadsFresh'
    BY <2>1, <2>3, <2>4, <2>6 DEF ThreadsFresh, Owner, Now, TypeOK
  <2> QED
    BY <2>5, <2>7
<1>3. CASE RewriteSettings \/ SettingsRewritten
  <2>1. Now' = Now
    <3>1. CASE RewriteSettings
      BY <3>1 DEF RewriteSettings, Now, TypeOK
    <3>2. CASE SettingsRewritten
      BY <3>2 DEF SettingsRewritten, Now
    <3> QED
      BY <1>3, <3>1, <3>2
  <2>2. /\ UNCHANGED <<bak, threads, allowed, cached, asked, pending>>
        /\ pc \in {"settings", "rewriting"} /\ pc' \in {"rewriting", "serve"}
    BY <1>3 DEF RewriteSettings, SettingsRewritten
  <2>3. AskedFresh'
    BY <2>2 DEF AskedFresh
  <2>4. ThreadsFresh'
    BY <2>1, <2>2 DEF ThreadsFresh, Owner
  <2> QED
    BY <2>3, <2>4
<1>4. CASE TurnOn
  <2>1. /\ pc = "serve" /\ pending = <<~cached>> /\ Head(pending) = TRUE /\ pending' = Tail(pending)
        /\ pc' = "hide" /\ UNCHANGED <<conf, bak, asked>> /\ threads' \subseteq threads
    BY <1>4 DEF TurnOn, Callback, PendingCalm, PlaceCalm
  <2>2. asked /\ pending' = <<>>
    <3>1. pending = <<asked>>
      BY <2>1 DEF AskedFresh
    <3>2. Head(pending) = asked /\ Tail(pending) = <<>>
      BY <3>1, OneCallback
    <3> QED
      BY <2>1, <3>2
  <2>3. AskedFresh'
    BY <2>1, <2>2 DEF AskedFresh
  <2>4. ThreadsFresh'
    BY <2>1 DEF ThreadsFresh, Owner, Now
  <2> QED
    BY <2>3, <2>4
<1>5. ASSUME NEW n \in Ids, HideCamera(n) PROVE AskedFresh' /\ ThreadsFresh'
  <2>1. /\ pc = "hide" /\ pc' = "hide" /\ UNCHANGED <<threads, asked>>
        /\ \A m \in Ids : /\ conf'[m] = IF m = n THEN Absent ELSE conf[m]
                          /\ bak'[m] = IF m = n THEN conf[n] ELSE bak[m]
    BY <1>5 DEF HideCamera, TypeOK
  <2>2. conf[n] \in OfUser /\ bak[n] = Absent
    BY <1>5 DEF HideCamera, PlaceCalm, Present, FilesCalm, FilesQuiet, Now
  <2>3. \A m \in Ids : Owner(m)' = Owner(m)
    BY <2>1, <2>2 DEF Owner, Now
  <2> QED
    BY <2>1, <2>3 DEF AskedFresh, ThreadsFresh, TypeOK
<1>6. CASE AddStreamEye
  <2>1. \A m \in Ids : conf[m] = Absent
    BY <1>6 DEF AddStreamEye, Step, PlaceCalm, Present
  <2>2. /\ pc = "hide" /\ pc' = "adding" /\ UNCHANGED <<bak, threads, asked>>
        /\ \A m \in Ids : conf'[m] = IF m = 1 THEN Cut ELSE conf[m]
    BY <1>6 DEF AddStreamEye, Step, TypeOK
  <2>3. \A m \in threads : bak[m] # Absent
    BY <2>1, <2>2 DEF ThreadsFresh, Owner, Now, Runs, TypeOK
  <2> QED
    BY <2>2, <2>3 DEF AskedFresh, ThreadsFresh, Owner, Now
<1>7. CASE StreamEyeAdded
  <2>1. /\ pc = "adding" /\ pc' = "forbid" /\ UNCHANGED <<bak, threads, asked>>
        /\ \A m \in Ids : conf[m] \in {Absent, Cut}
    BY <1>7 DEF StreamEyeAdded, Step, PlaceCalm
  <2>2. \A m \in threads : bak[m] # Absent
    BY <2>1 DEF ThreadsFresh, Owner, Now, Runs, TypeOK
  <2> QED
    BY <2>1, <2>2 DEF AskedFresh, ThreadsFresh, Owner
<1>8. CASE Forbid
  <2>1. /\ pc = "forbid" /\ pc' = "serve" /\ cached /\ cached' /\ pending' = <<>>
        /\ UNCHANGED <<conf, bak, threads, asked>> /\ asked
    BY <1>8 DEF Forbid, Step, Return, PlaceCalm, PendingCalm, AskedFresh
  <2>2. cached' = asked'
    BY <2>1, <1>8 DEF TypeOK, Forbid
  <2> QED
    BY <2>1, <2>2 DEF AskedFresh, ThreadsFresh, Owner, Now
<1>9. CASE TurnOff
  <2>1. /\ pc = "serve" /\ pending = <<~cached>> /\ Head(pending) = FALSE /\ pending' = Tail(pending)
        /\ pc' = "remove" /\ UNCHANGED <<conf, bak, asked, threads>>
    BY <1>9 DEF TurnOff, Callback, PendingCalm, PlaceCalm, disk
  <2>2. ~asked /\ pending' = <<>>
    <3>1. pending = <<asked>>
      BY <2>1 DEF AskedFresh
    <3>2. Head(pending) = asked /\ Tail(pending) = <<>>
      BY <3>1, OneCallback
    <3> QED
      BY <2>1, <3>2
  <2>3. AskedFresh'
    BY <2>1, <2>2 DEF AskedFresh
  <2>4. ThreadsFresh'
    BY <2>1 DEF ThreadsFresh, Owner, Now
  <2> QED
    BY <2>3, <2>4
<1>10. ASSUME NEW n \in Ids, RemoveStreamEye(n) PROVE AskedFresh' /\ ThreadsFresh'
  <2>1. /\ pc = "remove" /\ pc' = "remove" /\ UNCHANGED <<bak, asked>>
        /\ n = 1 /\ conf[1] = SE /\ threads' = threads \ {1}
        /\ \A m \in Ids : conf'[m] = IF m = 1 THEN Absent ELSE conf[m]
    BY <1>10 DEF RemoveStreamEye, PlaceCalm, TypeOK
  <2> QED
    BY <2>1 DEF AskedFresh, ThreadsFresh, Owner, Now, TypeOK
<1>11. CASE ListHidden
  BY <1>11 DEF ListHidden, Step, disk, AskedFresh, ThreadsFresh, Owner, Now
<1>12. ASSUME NEW n \in Ids, RestoreCamera(n) PROVE AskedFresh' /\ ThreadsFresh'
  <2>1. /\ pc = "restore" /\ pc' = "restore" /\ UNCHANGED <<threads, asked>>
        /\ \A m \in Ids : /\ conf'[m] = IF m = n THEN bak[n] ELSE conf[m]
                          /\ bak'[m] = IF m = n THEN Absent ELSE bak[m]
    BY <1>12 DEF RestoreCamera, TypeOK
  <2>2. bak[n] # Absent
    BY <1>12 DEF RestoreCamera, PlaceCalm, Present
  <2>3. \A m \in Ids : Owner(m)' = Owner(m)
    BY <2>1, <2>2 DEF Owner, Now
  <2> QED
    BY <2>1, <2>3 DEF AskedFresh, ThreadsFresh, TypeOK
<1>13. CASE ListCameras
  <2>1. /\ pc = "restore" /\ pc' = "enable" /\ UNCHANGED <<conf, bak, threads, asked>>
        /\ todo' = Valid(conf)
    BY <1>13 DEF ListCameras, Step, disk
  <2>2. \A n \in Ids : Runs(conf[n]) => n \in Valid(conf)
    BY DEF Runs, Valid
  <2> QED
    BY <2>1, <2>2 DEF AskedFresh, ThreadsFresh, Owner, Now
<1>14. ASSUME NEW n \in Ids, EnableCamera(n) PROVE AskedFresh' /\ ThreadsFresh'
  <2>1. /\ pc = "enable" /\ pc' = "enable" /\ UNCHANGED <<conf, bak, asked>>
        /\ todo' = todo \ {n} /\ conf[n] \in OfUser
        /\ threads' = IF IsMjpeg(conf[n]) THEN threads ELSE threads \cup {n}
    BY <1>14 DEF EnableCamera, PlaceCalm, Valid, FilesCalm, Now
  <2>2. IsMjpeg(conf[n]) <=> ~Runs(conf[n])
    BY <2>1, StreamEyeConstantsOK DEF IsMjpeg, Runs
  <2>3. \A m \in Ids : bak[m] = Absent
    BY <2>1 DEF FilesQuiet
  <2> QED
    BY <2>1, <2>2, <2>3 DEF AskedFresh, ThreadsFresh, Owner, Now
<1>15. CASE Allow
  <2>1. /\ pc = "enable" /\ pc' = "serve" /\ ~cached /\ ~cached' /\ pending' = <<>> /\ todo = {}
        /\ UNCHANGED <<conf, bak, threads, asked>> /\ ~asked /\ allowed'
    BY <1>15 DEF Allow, Step, Return, PlaceCalm, PendingCalm, AskedFresh
  <2>2. cached' = asked'
    BY <2>1, <1>15 DEF TypeOK, Allow
  <2>3. \A n \in Ids : bak[n] = Absent
    BY <2>1 DEF FilesQuiet
  <2> QED
    BY <2>1, <2>2, <2>3 DEF AskedFresh, ThreadsFresh, Owner, Now
<1>16. CASE Stop
  <2>1. /\ pc = "serve" /\ pending = <<>> /\ pc' = "down" /\ pending' = <<>>
        /\ UNCHANGED <<conf, bak, threads, allowed, cached, asked>>
    BY <1>16 DEF Stop, Serving
  <2>2. cached = asked /\ (cached <=> conf[1] = SE)
    BY <2>1 DEF AskedFresh, PlaceCalm, Now
  <2> QED
    BY <2>1, <2>2 DEF AskedFresh, ThreadsFresh, Owner, Now
<1>17. CASE StartServer
  <2>1. /\ pc = "down" /\ pc' = "serve" /\ cached' = Enabled /\ pending' = pending
        /\ UNCHANGED <<conf, bak, threads, allowed, asked>>
    BY <1>17 DEF StartServer, Step, disk
  <2>2. cached' = cached
    <3>1. Enabled <=> cached
      BY <2>1, EnabledCalm DEF AskedFresh
    <3>2. Enabled \in BOOLEAN /\ cached \in BOOLEAN
      BY DEF TypeOK, Enabled
    <3> QED
      BY <2>1, <3>1, <3>2
  <2> QED
    BY <2>1, <2>2 DEF AskedFresh, ThreadsFresh, Owner, Now
<1>18. CASE UNCHANGED vars
  BY <1>18 DEF vars, disk, memory, AskedFresh, ThreadsFresh, Owner, Now
<1> QED
  BY <1>1, <1>2, <1>3, <1>4, <1>5, <1>6, <1>7, <1>8, <1>9, <1>10, <1>11, <1>12, <1>13,
     <1>14, <1>15, <1>16, <1>17, <1>18 DEF Next, Request, Settings, SwitchOn, SwitchOff

-----------------------------------------------------------------------------
(* The invariant and what follows from it.                                 *)

\* The inductive invariant, for any cameras and bounds.
THEOREM Inductive == Spec => []IInv
<1>1. Init => IInv
  <2> SUFFICES ASSUME Init PROVE IInv
    OBVIOUS
  <2> USE FirstId, FileFacts
  <2>1. TypeOK /\ SettingsHasFile
    BY TypeInit
  <2>2. /\ Now = conf /\ pc = "serve" /\ pending = <<>> /\ ~cached /\ cached = asked
        /\ \A n \in Ids : bak[n] = Absent /\ conf[n] \in OfUser \cup {Absent}
    <3>1. {File(c, FALSE) : c \in Cams} \subseteq OfUser
      OBVIOUS
    <3> QED
      BY <3>1 DEF Init, Now
  <2>3. \A n \in Ids : conf[n] \in OfUser => conf[n].cam \in users
    BY DEF Init, Valid
  <2>4. \A c \in users : \E n \in Ids : conf[n] \in OfUser /\ conf[n].cam = c
    <3>1. \A c \in users : \E n \in Valid(conf) : conf[n].cam = c
      BY DEF Init
    <3>2. Valid(conf) \subseteq Ids /\ \A n \in Valid(conf) : conf[n] \in OfUser
      BY <2>2 DEF Valid
    <3> QED
      BY <3>1, <3>2
  <2>5. \A n \in Ids : n \in threads <=> Runs(conf[n])
    BY <2>2, StreamEyeConstantsOK DEF Init, Valid, IsMjpeg, Runs
  <2>6. FilesCalm
    BY <2>2, <2>3 DEF FilesCalm, Others
  <2>7. PlaceCalm /\ PendingCalm
    BY <2>2 DEF PlaceCalm, PendingCalm
  <2>8. FilesQuiet
    BY <2>2, <2>4 DEF FilesQuiet
  <2>9. AskedFresh /\ ThreadsFresh
    <3>1. allowed /\ threads \subseteq Ids
      BY <2>1 DEF Init, TypeOK
    <3> QED
      BY <2>2, <2>5, <3>1 DEF AskedFresh, ThreadsFresh, Owner
  <2> QED
    BY <2>1, <2>6, <2>7, <2>8, <2>9 DEF IInv, CalmInv, QuietInv, FreshInv
<1>2. IInv /\ [Next]_vars => IInv'
  BY TypeStep, CalmStep, QuietStep, FreshStep DEF IInv, CalmInv, QuietInv, FreshInv
<1> QED
  BY <1>1, <1>2, PTL DEF Spec

\* Interrupted switches alone lose no camera of the user.
THEOREM CamerasKeptHolds == Spec => []CamerasKept
<1>1. IInv => CamerasKept
  BY FileFacts DEF IInv, CalmInv, QuietInv, FilesQuiet, CamerasKept, Kept, Now
<1> QED
  BY <1>1, Inductive, PTL

\* The mode the server believes in is the one it will find when it starts again.
THEOREM ModeIsOnDiskHolds == Spec => []ModeIsOnDisk
<1>1. IInv => ModeIsOnDisk
  BY EnabledCalm DEF IInv, CalmInv, PlaceCalm, ModeIsOnDisk, Idle, Serving, Now, Asking
<1> QED
  BY <1>1, Inductive, PTL

\* When nothing is pending, the mode is the one the last request asked for.
THEOREM LastRequestWinsHolds == Spec => []LastRequestWins
<1>1. IInv => LastRequestWins
  BY DEF IInv, FreshInv, AskedFresh, LastRequestWins, Idle, Serving, Asking
<1> QED
  BY <1>1, Inductive, PTL

\* A switch that was not interrupted leaves nothing behind.
THEOREM SwitchedOffHolds == Spec => []SwitchedOff
<1>1. IInv => SwitchedOff
  <2> SUFFICES ASSUME IInv, Idle, harm = {}, ~cached
               PROVE  /\ Present(bak) = {} /\ allowed
                      /\ threads = {n \in Present(conf) : ~IsMjpeg(conf[n])}
    BY DEF SwitchedOff
  <2>1. /\ FilesCalm /\ PlaceCalm /\ FilesQuiet /\ ThreadsFresh /\ TypeOK
        /\ pc = "serve"
    BY DEF IInv, CalmInv, QuietInv, FreshInv, Idle, Serving
  <2>2. allowed /\ \A n \in Ids : bak[n] = Absent /\ (n \in threads <=> Runs(conf[n]))
    BY <2>1 DEF ThreadsFresh, Owner, Now, Asking
  <2>3. \A n \in Ids : conf[n] \in OfUser \cup {Absent}
    BY <2>1, FirstId DEF FilesCalm, FilesQuiet, PlaceCalm, Now, Asking, Others
  <2>4. \A n \in Ids : n \in threads <=> conf[n] # Absent /\ ~IsMjpeg(conf[n])
    BY <2>2, <2>3, FileFacts, StreamEyeConstantsOK DEF Runs, IsMjpeg
  <2> QED
    BY <2>1, <2>2, <2>4 DEF Present, TypeOK
<1> QED
  BY <1>1, Inductive, PTL

\* Turning streamEye off shows every camera of the user again, whatever switches
\* were interrupted before.
THEOREM OffShowsAllHolds == Spec => OffShowsAll
<1>1. IInv /\ [Next]_vars
      => [ pc = "enable" /\ pc' \notin {"enable", "down"} /\ harm \subseteq {"stopped"}
           => users = {conf'[n].cam : n \in Valid(conf')} ]_vars
  <2> SUFFICES ASSUME IInv, [Next]_vars, pc = "enable", pc' \notin {"enable", "down"},
                      harm \subseteq {"stopped"}
               PROVE  users = {conf'[n].cam : n \in Valid(conf')}
    OBVIOUS
  <2>1. conf' = conf
    BY DEF Next, Request, Settings, SwitchOn, SwitchOff, Ask, AddCamera, Serving, RewriteSettings,
       SettingsRewritten, TurnOn, TurnOff, Callback, HideCamera, AddStreamEye, StreamEyeAdded,
       Forbid, RemoveStreamEye, ListHidden, RestoreCamera, ListCameras, EnableCamera, Allow,
       Stop, StartServer, Step, vars, disk, memory
  <2>2. FilesCalm /\ PlaceCalm /\ FilesQuiet /\ Now = conf
    BY DEF IInv, CalmInv, QuietInv, Now
  <2>3. \A n \in Valid(conf) : conf[n] \in OfUser /\ conf[n].cam \in users
    BY <2>2, FirstId DEF FilesCalm, PlaceCalm, Valid, Others
  <2>4. \A c \in users : \E n \in Valid(conf) : conf[n].cam = c
    BY <2>2, FileFacts DEF FilesQuiet, Valid
  <2> QED
    BY <2>1, <2>3, <2>4
<1> QED
  BY <1>1, Inductive, PTL DEF Spec, OffShowsAll

=============================================================================
