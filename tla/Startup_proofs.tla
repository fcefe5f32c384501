--------------------------- MODULE Startup_proofs ---------------------------
(***************************************************************************)
(* Proofs about Startup.  Files of the operator are safe, and honoured,    *)
(* when a user config directory is known: then the place where writeConfig *)
(* puts the default is the place where Init has found nothing.             *)
(***************************************************************************)
EXTENDS Startup, Integers, TLAPS

Instance == [pc : {"off", "running"} \cup Starting, gen : BOOLEAN,
             chosen : Locations, found : Contents, loaded : Contents]

(* What TypeOK says of one instance. *)
Sound(r) ==
  /\ r \in Instance
  /\ r.gen => r.chosen = "cwd" /\ r.pc \in {"truncate", "write"}

LEMMA OffSound == Sound(Off)
  BY DEF Sound, Off, Instance, Locations, Contents, Starting

LEMMA TypeInit == Init => TypeOK
  BY OffSound DEF Init, TypeOK, Sound, Off, Instance, Locations, Contents

(* TypeOK is kept when one instance takes a new value that is sound. *)
LEMMA Update ==
  ASSUME TypeOK, NEW i \in Instances, NEW r, Sound(r),
         inst' = [inst EXCEPT ![i] = r],
         files' \in [Locations -> Contents]
  PROVE  TypeOK'
  BY DEF TypeOK, Sound, Instance

LEMMA Typed ==
  TypeOK => /\ files \in [Locations -> Contents]
            /\ \A i \in Instances : Sound(inst[i])
  BY DEF TypeOK, Sound, Instance

LEMMA ExitTyped ==
  ASSUME TypeOK, NEW i \in Instances, Exit(i),
         files' \in [Locations -> Contents]
  PROVE  TypeOK'
  BY OffSound, Update DEF Exit

(* A step to the next place; --genconfig is left only by an exit. *)
LEMMA GotoTyped ==
  ASSUME TypeOK, NEW i \in Instances,
         NEW next \in {"off", "running"} \cup Starting,
         inst[i].gen => next \in {"truncate", "write"}, Goto(i, next),
         files' \in [Locations -> Contents]
  PROVE  TypeOK'
<1> DEFINE r == [inst[i] EXCEPT !.pc = next]
<1>1. Sound(inst[i])
  BY Typed
<1>2. Sound(r)
  BY <1>1 DEF Sound, Instance
<1>3. inst' = [inst EXCEPT ![i] = r]
  BY DEF Goto
<1> HIDE DEF r
<1> QED BY <1>2, <1>3, Update

LEMMA ChooseTyped ==
  ASSUME TypeOK, NEW i \in Instances, NEW l \in Locations,
         NEW next \in Starting, ~ inst[i].gen, Choose(i, l, next),
         files' = files
  PROVE  TypeOK'
<1> DEFINE r == [inst[i] EXCEPT !.chosen = l, !.found = files[l], !.pc = next]
<1>1. Sound(inst[i]) /\ files[l] \in Contents
  BY Typed
<1>2. Sound(r)
  BY <1>1 DEF Sound, Instance
<1>3. inst' = [inst EXCEPT ![i] = r]
  BY DEF Choose
<1>4. files' \in [Locations -> Contents]
  BY Typed
<1> HIDE DEF r
<1> QED BY <1>2, <1>3, <1>4, Update

(* Every step keeps the types. *)
LEMMA TypeNext == TypeOK /\ [Next]_vars => TypeOK'
<1> SUFFICES ASSUME TypeOK, [Next]_vars PROVE TypeOK'
  OBVIOUS
<1>0. /\ files \in [Locations -> Contents]
      /\ \A i \in Instances : Sound(inst[i])
  BY Typed
<1>1. CASE UNCHANGED vars
  BY <1>1 DEF vars, TypeOK
<1>2. ASSUME NEW i \in Instances, LaunchGenConfig(i) PROVE TypeOK'
  <2> DEFINE r == [inst[i] EXCEPT !.gen = TRUE, !.pc = "truncate",
                                  !.chosen = "cwd", !.found = files["cwd"]]
  <2>1. Sound(r)
    BY <1>0 DEF Sound, Instance, Locations, Contents, Starting
  <2>2. inst' = [inst EXCEPT ![i] = r] /\ files' = files
    BY <1>2 DEF LaunchGenConfig
  <2> HIDE DEF r
  <2> QED BY <1>0, <2>1, <2>2, Update
<1>3. ASSUME NEW i \in Instances, NEW l \in Locations, LaunchCustom(i, l)
      PROVE  TypeOK'
  BY <1>0, <1>3, ChooseTyped DEF LaunchCustom, Starting, Sound
<1>4. ASSUME NEW i \in Instances, LaunchSearch(i) PROVE TypeOK'
  BY <1>0, <1>4, GotoTyped DEF LaunchSearch, Starting, Sound
<1>5. ASSUME NEW i \in Instances, Search(i) PROVE TypeOK'
  <2>1. SearchResult \in Locations /\ DefaultLocation \in Locations
    BY DEF SearchResult, DefaultLocation, Locations
  <2>2. ~ inst[i].gen /\ files' = files
    BY <1>0, <1>5 DEF Search, Sound
  <2> QED BY <1>5, <2>1, <2>2, ChooseTyped DEF Search, Starting
<1>6. ASSUME NEW i \in Instances, Truncate(i) PROVE TypeOK'
  <2>1. files' \in [Locations -> Contents]
    BY <1>0, <1>6 DEF Truncate, Contents
  <2> QED BY <1>6, <2>1, GotoTyped, ExitTyped DEF Truncate, Starting
<1>7. ASSUME NEW i \in Instances, WriteDefault(i) PROVE TypeOK'
  <2>1. files' \in [Locations -> Contents]
    BY <1>0, <1>7 DEF WriteDefault, Contents
  <2> QED BY <1>7, <2>1, GotoTyped, ExitTyped DEF WriteDefault, Starting
<1>8. ASSUME NEW i \in Instances, LoadConfig(i) PROVE TypeOK'
  <2> DEFINE r == [inst[i] EXCEPT !.loaded = files[inst[i].chosen],
                                  !.pc = "logger"]
  <2>1. files' = files /\ inst[i].pc = "load"
    BY <1>8 DEF LoadConfig
  <2>2. Sound(r)
    BY <1>0, <2>1 DEF Sound, Instance, Starting
  <2>3. inst' = [inst EXCEPT ![i] = r] \/ Exit(i)
    BY <1>8 DEF LoadConfig
  <2> HIDE DEF r
  <2> QED BY <1>0, <2>1, <2>2, <2>3, Update, ExitTyped
<1>9. ASSUME NEW i \in Instances, StartLogger(i) PROVE TypeOK'
  <2>1. ~ inst[i].gen /\ files' = files
    BY <1>0, <1>9 DEF StartLogger, Sound
  <2> QED BY <1>0, <1>9, <2>1, GotoTyped, ExitTyped
          DEF StartLogger, OrFails, Starting
<1>10. ASSUME NEW i \in Instances, NewServer(i) PROVE TypeOK'
  <2>1. ~ inst[i].gen /\ files' = files
    BY <1>0, <1>10 DEF NewServer, Sound
  <2> QED BY <1>0, <1>10, <2>1, GotoTyped, ExitTyped DEF NewServer, OrFails
<1>11. ASSUME NEW i \in Instances, Ends(i) PROVE TypeOK'
  BY <1>0, <1>11, ExitTyped DEF Ends
<1>12. ASSUME NEW l \in Edited, Edit(l) PROVE TypeOK'
  BY <1>12 DEF Edit, TypeOK, Contents
<1> QED
  BY <1>1, <1>2, <1>3, <1>4, <1>5, <1>6, <1>7, <1>8, <1>9, <1>10, <1>11, <1>12
     DEF Next, StartStep

(* The types of Startup's variables, for every set of instances. *)
THEOREM StartupTypes == Spec => []TypeOK
  BY TypeInit, TypeNext, PTL DEF Spec
-----------------------------------------------------------------------------
(* A file that is about to be written is none of the operator's, unless    *)
(* --genconfig asked for it, and the settings an instance found are still  *)
(* there when it loads them.                                               *)
Safe(i) ==
  LET r == inst[i] IN
    /\ (r.pc = "write" \/ (r.pc = "truncate" /\ ~ r.gen))
         => files[r.chosen] \notin OperatorsOwn
    /\ (r.pc \in {"truncate", "write"} /\ ~ r.gen) => r.found = "absent"
    /\ (r.pc = "load" /\ r.found = "edited" /\ r.chosen # "cwd")
         => files[r.chosen] = "edited"
    /\ (/\ r.pc \in {"logger", "server", "running"}
        /\ r.found = "edited" /\ r.chosen # "cwd")
         => r.loaded = "edited"

SInv == TypeOK /\ \A i \in Instances : Safe(i)

(* The other instances do not notice a step that changes no file. *)
LEMMA FilesKept ==
  ASSUME SInv, NEW i \in Instances, NEW r, inst' = [inst EXCEPT ![i] = r],
         files' = files, Safe(i)'
  PROVE  \A j \in Instances : Safe(j)'
<1> SUFFICES ASSUME NEW j \in Instances, j # i PROVE Safe(j)'
  OBVIOUS
<1>1. inst'[j] = inst[j] /\ Safe(j)
  BY DEF SInv, TypeOK
<1> QED BY <1>1 DEF Safe

(* Nor do they notice a write, if the file was none of the operator's or   *)
(* is ./config.toml, and is none of the operator's now.                    *)
LEMMA FileWritten ==
  ASSUME SInv, NEW i \in Instances, NEW r, inst' = [inst EXCEPT ![i] = r],
         NEW c, c \notin OperatorsOwn,
         files' = [files EXCEPT ![inst[i].chosen] = c],
         inst[i].chosen = "cwd" \/ files[inst[i].chosen] \notin OperatorsOwn,
         Safe(i)'
  PROVE  \A j \in Instances : Safe(j)'
<1> SUFFICES ASSUME NEW j \in Instances, j # i PROVE Safe(j)'
  OBVIOUS
<1>1. inst'[j] = inst[j] /\ Safe(j) /\ Sound(inst[i]) /\ Sound(inst[j])
  BY Typed DEF SInv, TypeOK
<1>2. inst[i].chosen \in Locations /\ inst[j].chosen \in Locations
  BY <1>1 DEF Sound, Instance
<1>3. files'[inst[j].chosen] =
        IF inst[j].chosen = inst[i].chosen THEN c ELSE files[inst[j].chosen]
  BY <1>2 DEF SInv, TypeOK
<1> QED BY <1>1, <1>3 DEF Safe, OperatorsOwn

LEMMA ExitSafe ==
  ASSUME SInv, NEW i \in Instances, Exit(i)
  PROVE  Safe(i)'
<1>1. inst'[i] = Off
  BY DEF Exit, SInv, TypeOK
<1> QED BY <1>1 DEF Safe, Off

LEMMA SafeInit == Init => SInv
  BY TypeInit DEF Init, SInv, Safe, Off

(* Without a user directory Search may choose a file that exists. *)
LEMMA SafeNext == UserDirKnown /\ SInv /\ [Next]_vars => SInv'
<1> SUFFICES ASSUME UserDirKnown, SInv, [Next]_vars
             PROVE  \A j \in Instances : Safe(j)'
  BY TypeNext DEF SInv
<1> DEFINE Goal == \A j \in Instances : Safe(j)'
<1>0. /\ TypeOK
      /\ files \in [Locations -> Contents]
      /\ \A i \in Instances : Sound(inst[i]) /\ Safe(i)
  BY Typed DEF SInv
<1>1. CASE UNCHANGED vars
  BY <1>0, <1>1 DEF vars, Safe
<1>2. ASSUME NEW i \in Instances, LaunchGenConfig(i) PROVE Goal
  <2> DEFINE r == [inst[i] EXCEPT !.gen = TRUE, !.pc = "truncate",
                                  !.chosen = "cwd", !.found = files["cwd"]]
  <2>1. inst' = [inst EXCEPT ![i] = r] /\ files' = files
    BY <1>2 DEF LaunchGenConfig
  <2>2. inst'[i] = r
    BY <1>0, <2>1 DEF TypeOK
  <2>3. Safe(i)'
    BY <1>0, <2>1, <2>2 DEF Safe, Sound, Instance
  <2> HIDE DEF r
  <2> QED BY <2>1, <2>3, FilesKept
<1>3. ASSUME NEW i \in Instances, NEW l \in Locations, LaunchCustom(i, l)
      PROVE  Goal
  <2> DEFINE r == [inst[i] EXCEPT !.chosen = l, !.found = files[l], !.pc = "load"]
  <2>1. inst' = [inst EXCEPT ![i] = r] /\ files' = files
    BY <1>3 DEF LaunchCustom, Choose
  <2>2. inst'[i] = r
    BY <1>0, <2>1 DEF TypeOK
  <2>3. Safe(i)'
    BY <1>0, <2>1, <2>2 DEF Safe, Sound, Instance
  <2> HIDE DEF r
  <2> QED BY <2>1, <2>3, FilesKept
<1>4. ASSUME NEW i \in Instances, LaunchSearch(i) PROVE Goal
  <2> DEFINE r == [inst[i] EXCEPT !.pc = "search"]
  <2>1. inst' = [inst EXCEPT ![i] = r] /\ files' = files
    BY <1>4 DEF LaunchSearch, Goto
  <2>2. inst'[i] = r
    BY <1>0, <2>1 DEF TypeOK
  <2>3. Safe(i)'
    BY <1>0, <2>1, <2>2 DEF Safe, Sound, Instance
  <2> HIDE DEF r
  <2> QED BY <2>1, <2>3, FilesKept
<1>5. ASSUME NEW i \in Instances, Search(i) PROVE Goal
  <2> DEFINE l == IF SearchFound THEN SearchResult ELSE DefaultLocation
             next == IF SearchFound THEN "load" ELSE "truncate"
             r == [inst[i] EXCEPT !.chosen = l, !.found = files[l], !.pc = next]
  <2>1. inst' = [inst EXCEPT ![i] = r] /\ files' = files
    BY <1>5 DEF Search, Choose
  <2>2. l \in Locations
    BY DEF SearchResult, DefaultLocation, Locations
  <2>3. ~ SearchFound => files[l] = "absent"
    BY DEF SearchFound, SearchResult, DefaultLocation, Exists
  <2> HIDE DEF l
  <2>4. inst'[i] = r
    BY <1>0, <2>1 DEF TypeOK
  <2>5. Safe(i)'
    BY <1>0, <2>1, <2>2, <2>3, <2>4 DEF Safe, Sound, Instance, OperatorsOwn
  <2> HIDE DEF r
  <2> QED BY <2>1, <2>5, FilesKept
<1>6. ASSUME NEW i \in Instances, Truncate(i) PROVE Goal
  <2>1. inst[i].pc = "truncate" /\ inst[i].chosen \in Locations
    BY <1>0, <1>6 DEF Truncate, Sound, Instance
  <2>2. inst[i].chosen = "cwd" \/ files[inst[i].chosen] \notin OperatorsOwn
    BY <1>0, <2>1 DEF Safe, Sound
  <2>3. CASE files' = [files EXCEPT ![inst[i].chosen] = "empty"] /\ Goto(i, "write")
    <3> DEFINE r == [inst[i] EXCEPT !.pc = "write"]
    <3>1. inst' = [inst EXCEPT ![i] = r]
      BY <2>3 DEF Goto
    <3>2. inst'[i] = r
      BY <1>0, <3>1 DEF TypeOK
    <3>3. files'[inst[i].chosen] = "empty"
      BY <1>0, <2>1, <2>3
    <3>4. Safe(i)'
      BY <1>0, <2>1, <3>2, <3>3 DEF Safe, Sound, Instance, OperatorsOwn
    <3> HIDE DEF r
    <3>5. "empty" \notin OperatorsOwn
      BY DEF OperatorsOwn
    <3> QED BY <2>2, <2>3, <3>1, <3>4, <3>5, FileWritten
  <2>4. CASE Exit(i) /\ files' = files
    BY <2>4, ExitSafe, FilesKept DEF Exit
  <2> QED BY <1>6, <2>3, <2>4 DEF Truncate
<1>7. ASSUME NEW i \in Instances, WriteDefault(i) PROVE Goal
  <2>1. inst[i].pc = "write" /\ inst[i].chosen \in Locations
    BY <1>0, <1>7 DEF WriteDefault, Sound, Instance
  <2>2. files[inst[i].chosen] \notin OperatorsOwn
    BY <1>0, <2>1 DEF Safe
  <2>3. CASE /\ files' = [files EXCEPT ![inst[i].chosen] = "default"]
             /\ ~ inst[i].gen /\ Goto(i, "load")
    <3> DEFINE r == [inst[i] EXCEPT !.pc = "load"]
    <3>1. inst' = [inst EXCEPT ![i] = r]
      BY <2>3 DEF Goto
    <3>2. inst'[i] = r
      BY <1>0, <3>1 DEF TypeOK
    <3>3. Safe(i)'
      BY <1>0, <2>1, <2>3, <3>2 DEF Safe, Sound, Instance
    <3> HIDE DEF r
    <3>4. "default" \notin OperatorsOwn
      BY DEF OperatorsOwn
    <3> QED BY <2>2, <2>3, <3>1, <3>3, <3>4, FileWritten
  <2>4. CASE Exit(i)
    <3>1. PICK c \in {"default", "partial"} :
            files' = [files EXCEPT ![inst[i].chosen] = c]
      BY <1>7 DEF WriteDefault
    <3> QED BY <2>2, <2>4, <3>1, ExitSafe, FileWritten DEF Exit, OperatorsOwn
  <2> QED BY <1>7, <2>3, <2>4 DEF WriteDefault
<1>8. ASSUME NEW i \in Instances, LoadConfig(i) PROVE Goal
  <2> DEFINE r == [inst[i] EXCEPT !.loaded = files[inst[i].chosen],
                                  !.pc = "logger"]
  <2>1. files' = files /\ inst[i].pc = "load"
    BY <1>8 DEF LoadConfig
  <2>2. CASE inst' = [inst EXCEPT ![i] = r]
    <3>1. inst'[i] = r
      BY <1>0, <2>2 DEF TypeOK
    <3>2. Safe(i)'
      BY <1>0, <2>1, <3>1 DEF Safe, Sound, Instance
    <3> HIDE DEF r
    <3> QED BY <2>1, <2>2, <3>2, FilesKept
  <2>3. CASE Exit(i)
    BY <2>1, <2>3, ExitSafe, FilesKept DEF Exit
  <2> QED BY <1>8, <2>2, <2>3 DEF LoadConfig
<1>9. ASSUME NEW i \in Instances, NEW op, NEW next \in {"server", "running"},
             inst[i].pc \in {"logger", "server"}, OrFails(i, op, next),
             files' = files
      PROVE  Goal
  <2> DEFINE r == [inst[i] EXCEPT !.pc = next]
  <2>1. CASE inst' = [inst EXCEPT ![i] = r]
    <3>1. inst'[i] = r
      BY <1>0, <2>1 DEF TypeOK
    <3>2. Safe(i)'
      BY <1>0, <1>9, <3>1 DEF Safe, Sound, Instance
    <3> HIDE DEF r
    <3> QED BY <1>9, <2>1, <3>2, FilesKept
  <2>2. CASE Exit(i)
    BY <1>9, <2>2, ExitSafe, FilesKept DEF Exit
  <2> QED BY <1>9, <2>1, <2>2 DEF OrFails, Goto
<1>10. ASSUME NEW i \in Instances, StartLogger(i) \/ NewServer(i) PROVE Goal
  BY <1>9, <1>10 DEF StartLogger, NewServer
<1>11. ASSUME NEW i \in Instances, Ends(i) PROVE Goal
  BY <1>11, ExitSafe, FilesKept DEF Ends, Exit
<1>12. ASSUME NEW l \in Edited, Edit(l) PROVE Goal
  <2>1. \A i \in Instances : inst[i].pc \in {"off", "running"}
    BY <1>0, <1>12 DEF Edit, Sound, Instance
  <2> QED BY <1>0, <1>12, <2>1 DEF Edit, Safe
<1> QED
  BY <1>1, <1>2, <1>3, <1>4, <1>5, <1>6, <1>7, <1>8, <1>10, <1>11, <1>12
     DEF Next, StartStep

LEMMA SafeAlways ==
  ASSUME UserDirKnown
  PROVE  Spec => []SInv
<1>1. SInv /\ [Next]_vars => SInv'
  BY SafeNext
<1> QED BY <1>1, SafeInit, PTL DEF Spec

-----------------------------------------------------------------------------
(* With a user config directory an instance that found an operator's       *)
(* settings runs with them, for any number of instances.                   *)
THEOREM FoundSettingsHonoured ==
  ASSUME UserDirKnown
  PROVE  Spec => []SettingsHonoured
<1>1. SInv => SettingsHonoured
  BY DEF SInv, Safe, SettingsHonoured
<1> QED BY <1>1, SafeAlways, PTL

(* With a user config directory no start of the program changes a file of  *)
(* the operator's, but for the ./config.toml of --genconfig.               *)
THEOREM OperatorsFilesSurvive ==
  ASSUME UserDirKnown
  PROVE  Spec => EditsSurvive
<1> DEFINE Kept ==
      \A l \in Locations :
        files[l] \in OperatorsOwn /\ files'[l] # files[l] /\ inst' # inst
          => l = "cwd" /\ \E i \in Instances :
               inst[i].gen /\ inst[i].pc = "truncate"
<1>1. SInv /\ [Next]_vars => [Kept]_vars
  <2> SUFFICES ASSUME SInv, Next,
                      NEW l \in Locations, files[l] \in OperatorsOwn,
                      files'[l] # files[l], inst' # inst
               PROVE  l = "cwd" /\ \E i \in Instances :
                        inst[i].gen /\ inst[i].pc = "truncate"
    OBVIOUS
  <2>1. PICK i \in Instances : Truncate(i) \/ WriteDefault(i)
    BY DEF Next, StartStep, LaunchGenConfig, LaunchCustom, LaunchSearch, Search,
           LoadConfig, StartLogger, NewServer, Ends, Edit
  <2>2. Safe(i) /\ Sound(inst[i]) /\ files \in [Locations -> Contents]
    BY Typed DEF SInv
  <2>3. l = inst[i].chosen
    BY <2>1, <2>2 DEF Truncate, WriteDefault
  <2> QED BY <2>1, <2>2, <2>3 DEF Truncate, WriteDefault, Safe, Sound
<1> QED BY <1>1, SafeAlways, PTL DEF Spec, EditsSurvive
-----------------------------------------------------------------------------
(* How far a start is from its end. *)
StepsLeft(r) ==
  CASE r.pc = "search"   -> 6
    [] r.pc = "truncate" -> 5
    [] r.pc = "write"    -> 4
    [] r.pc = "load"     -> 3
    [] r.pc = "logger"   -> 2
    [] r.pc = "server"   -> 1
    [] OTHER             -> 0

(* The steps of a start never go back, whatever other instances and the    *)
(* operator do to the files in between: a start that was launched makes at *)
(* most six of them.                                                       *)
THEOREM StartsGoForward ==
  Spec => [][\A i \in Instances :
               inst[i].pc # "off" /\ inst'[i] # inst[i]
                 => StepsLeft(inst'[i]) < StepsLeft(inst[i]) \/ inst'[i] = Off]_vars
<1> DEFINE Forward(i) ==
      inst[i].pc # "off" /\ inst'[i] # inst[i]
        => StepsLeft(inst'[i]) < StepsLeft(inst[i]) \/ inst'[i] = Off
<1>1. TypeOK /\ [Next]_vars => [\A i \in Instances : Forward(i)]_vars
  <2> SUFFICES ASSUME TypeOK, Next, NEW i \in Instances, inst[i].pc # "off",
                      inst'[i] # inst[i]
               PROVE  StepsLeft(inst'[i]) < StepsLeft(inst[i]) \/ inst'[i] = Off
    OBVIOUS
  <2>1. inst[i] \in Instance /\ \A k \in Instances : inst[k] \in Instance
    BY Typed DEF Sound
  <2>2. inst \in [Instances -> Instance]
    BY DEF TypeOK, Instance
  <2>3. ASSUME NEW k \in Instances, StartStep(k) PROVE k = i
    <3>1. \A j \in Instances \ {k} : inst'[j] = inst[j]
      BY <2>2, <2>3 DEF StartStep, Search, Truncate, WriteDefault, LoadConfig, StartLogger,
                        NewServer, OrFails, Goto, Choose, Exit
    <3> QED BY <3>1
  <2>4. ASSUME NEW next, Goto(i, next) PROVE inst'[i].pc = next
    BY <2>1, <2>2, <2>4 DEF Goto, Instance
  <2>5. ASSUME Exit(i) PROVE inst'[i] = Off
    BY <2>2, <2>5 DEF Exit
  <2>6. ASSUME NEW k \in Instances, StartStep(k)
        PROVE  StepsLeft(inst'[i]) < StepsLeft(inst[i]) \/ inst'[i] = Off
    <3>1. StartStep(i)
      BY <2>3, <2>6
    <3>2. CASE Search(i)
      <4>1. inst[i].pc = "search" /\ inst'[i].pc \in {"load", "truncate"}
        BY <2>1, <2>2, <3>2 DEF Search, Choose, Instance
      <4> QED BY <4>1 DEF StepsLeft
    <3>3. CASE Truncate(i)
      <4>1. inst[i].pc = "truncate" /\ (inst'[i].pc = "write" \/ inst'[i] = Off)
        BY <2>4, <2>5, <3>3 DEF Truncate
      <4> QED BY <4>1 DEF StepsLeft
    <3>4. CASE WriteDefault(i)
      <4>1. inst[i].pc = "write" /\ (inst'[i].pc = "load" \/ inst'[i] = Off)
        BY <2>4, <2>5, <3>4 DEF WriteDefault
      <4> QED BY <4>1 DEF StepsLeft
    <3>5. CASE LoadConfig(i)
      <4>1. inst[i].pc = "load" /\ (inst'[i].pc = "logger" \/ inst'[i] = Off)
        BY <2>1, <2>2, <2>5, <3>5 DEF LoadConfig, Instance
      <4> QED BY <4>1 DEF StepsLeft
    <3>6. CASE StartLogger(i)
      <4>1. inst[i].pc = "logger" /\ (inst'[i].pc = "server" \/ inst'[i] = Off)
        BY <2>4, <2>5, <3>6 DEF StartLogger, OrFails
      <4> QED BY <4>1 DEF StepsLeft
    <3>7. CASE NewServer(i)
      <4>1. inst[i].pc = "server" /\ (inst'[i].pc = "running" \/ inst'[i] = Off)
        BY <2>4, <2>5, <3>7 DEF NewServer, OrFails
      <4> QED BY <4>1 DEF StepsLeft
    <3> QED BY <3>1, <3>2, <3>3, <3>4, <3>5, <3>6, <3>7 DEF StartStep
  <2>7. ASSUME NEW k \in Instances,
               LaunchGenConfig(k) \/ LaunchSearch(k) \/ \E l \in Locations : LaunchCustom(k, l)
        PROVE  FALSE
    <3>1. inst[k].pc = "off" /\ k # i
      BY <2>7 DEF LaunchGenConfig, LaunchSearch, LaunchCustom
    <3>2. inst'[i] = inst[i]
      BY <2>2, <2>7, <3>1 DEF LaunchGenConfig, LaunchSearch, LaunchCustom, Goto, Choose
    <3> QED BY <3>2
  <2>8. ASSUME NEW k \in Instances, Ends(k) PROVE inst'[i] = Off
    BY <2>2, <2>8 DEF Ends, Exit
  <2>9. ASSUME NEW l \in Edited, Edit(l) PROVE FALSE
    BY <2>9 DEF Edit
  <2> QED BY <2>6, <2>7, <2>8, <2>9 DEF Next
<1> QED BY <1>1, StartupTypes, PTL DEF Spec
=============================================================================
