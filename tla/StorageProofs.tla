--------------------------- MODULE StorageProofs ---------------------------
(***************************************************************************)
(* Inv is an inductive invariant of Storage, for every set of paths, every *)
(* file a user may write, every --port and any number of uploads.          *)
(***************************************************************************)
EXTENDS Storage, TLAPS

(* Where main is when the router and its upload manager exist, and when a  *)
(* request may run.                                                        *)
RouterAt  == {"bind", "port", "fast", "up", "stop_http", "destroy"}
ServingAt == {"port", "fast", "up", "stop_http"}

(* main, the servers, the manager and config_save_file in step.            *)
ProcInv ==
    /\ manager.alive <=> proc \in RouterAt
    /\ manager.alive => manager.destination \in Paths
    /\ ~manager.alive => manager = NoManager
    /\ listening # {} \/ sel.pc # "idle" => proc \in ServingAt
    /\ save.pc # "none" /\ save.caller = "main" => proc = "saving"
    /\ proc = "saving" =>
          save.pc # "none" /\ save.caller = "main" /\ save.content = Saved(config)

(* What a selection that is under way relies on.                           *)
SelInv ==
    /\ save.caller = "select" <=> sel.pc = "saving"
    /\ save.pc = "none" => save.caller = "main"
    /\ sel.pc # "idle" =>
          /\ sel.destination \in PathsOf(config.targets)
          /\ sel.previous = config.destination
          /\ manager.destination = sel.destination
          /\ manager.open = NoUpload
    /\ sel.pc = "saving" =>
          save.content = Saved([config EXCEPT !.destination = sel.destination])

(* What the answers to selections say of config.ini, step by step.         *)
AnswerInv ==
    /\ sel.pc # "idle" => promised = sel.before \cup {sel.destination}
    /\ sel.pc \in {"saving", "rollback"} /\ sel.before # Paths =>
          file # Absent /\ Loaded(file).destination \in sel.before
    /\ sel.pc = "commit" => file # Absent /\ Loaded(file).destination = sel.destination
    /\ proc = "saving" => promised = Paths

PartInv == OpenPartKept /\ NoOtherParts

Inv == /\ TypeOK /\ ProcInv /\ SelInv
       /\ StatusTellsDestination /\ PartInv
       /\ AnswerInv /\ AnswersDurable
-----------------------------------------------------------------------------
(* Configurations and files.                                               *)

(* The paths of a table of targets are paths.                              *)
LEMMA PathsOfType ==
    ASSUME NEW targets \in Seq(Target)
    PROVE  PathsOf(targets) \subseteq Paths
<1>1. ASSUME NEW i \in 1..Len(targets) PROVE targets[i].path \in Paths
  <2>1. targets[i] \in Target
    OBVIOUS
  <2>. QED
    BY <2>1 DEF Target
<1>. QED
  BY <1>1, Zenon DEF PathsOf

(* The ports the program chooses itself.                                   *)
LEMMA PortTypes == DefaultPort \in Port /\ EphemeralPort \in Port
BY SMT DEF DefaultPort, EphemeralPort, Port

(* config_set_defaults yields a configuration.                             *)
LEMMA DefaultsType == config_set_defaults \in Config
<1>1. << [id |-> "internal", path |-> Inbox], [id |-> "usb", path |-> UsbInbox] >>
        \in Seq(Target)
  BY PathsAssumption, SettingsAssumption DEF Target
<1>. QED
  BY <1>1, PathsAssumption, SettingsAssumption, PortTypes DEF config_set_defaults,
                                                              Config

(* The two targets a file without storage_path lines gets.                 *)
LEMMA LegacyTargetsType ==
    ASSUME NEW f \in File
    PROVE  /\ LegacyTargets(f) \in Seq(Target)
           /\ Len(LegacyTargets(f)) = 2
<1>. DEFINE claims(paths, given) == IF given # Absent THEN given
                                    ELSE IF f.destination \in paths THEN f.destination
                                    ELSE Absent
            internal == Given(claims(DataPaths, f.internal_destination), Inbox)
            usb == Given(claims(UsbPaths \cup {UsbRoot}, f.usb_destination), UsbInbox)
<1>1. internal \in Paths /\ usb \in Paths
  BY PathsAssumption DEF File, Given
<1>2. LegacyTargets(f) = << [id |-> "internal", path |-> internal],
                            [id |-> "usb", path |-> usb] >>
  BY DEF LegacyTargets
<1>. HIDE DEF internal, usb
<1>. QED
  BY <1>1, <1>2, SettingsAssumption DEF Target

(* config_load_file yields a configuration, whose destination is the path  *)
(* of one of its targets.                                                  *)
LEMMA LoadedType ==
    ASSUME NEW f \in File
    PROVE  /\ Loaded(f) \in Config
           /\ Loaded(f).destination \in PathsOf(Loaded(f).targets)
<1>. DEFINE targets == IF f.storage_path = <<>> THEN LegacyTargets(f) ELSE f.storage_path
            wanted  == Given(f.destination, Inbox)
            destination == IF wanted \in PathsOf(targets) THEN wanted ELSE targets[1].path
<1>1. targets \in Seq(Target) /\ 1 \in 1..Len(targets)
  <2>1. CASE f.storage_path = <<>>
    BY <2>1, LegacyTargetsType
  <2>2. CASE f.storage_path # <<>>
    <3>1. f.storage_path \in Seq(Target)
      BY DEF File
    <3>2. Len(f.storage_path) \in Nat /\ Len(f.storage_path) # 0
      BY <2>2, <3>1
    <3>. QED
      BY <2>2, <3>1, <3>2
  <2>. QED
    BY <2>1, <2>2
<1>2. destination \in PathsOf(targets)
  BY <1>1 DEF PathsOf
<1>3. destination \in Paths
  BY <1>1, <1>2, PathsOfType
<1>4. Given(f.port, DefaultPort) \in Port /\ Given(f.rest, DefaultRest) \in Rests
  BY SettingsAssumption, PortTypes DEF Given, File
<1>5. Loaded(f) = [port |-> Given(f.port, DefaultPort), destination |-> destination,
                   targets |-> targets, rest |-> Given(f.rest, DefaultRest)]
  BY DEF Loaded
<1>. HIDE DEF targets, destination
<1>. QED
  BY <1>1, <1>2, <1>3, <1>4, <1>5 DEF Config

(* config_save_file writes a file.                                         *)
LEMMA SavedType ==
    ASSUME NEW c \in Config
    PROVE  Saved(c) \in File
BY DEF Saved, Empty, Config, File

(* What config_save_file writes, config_load_file reads back.              *)
LEMMA RoundTrip ==
    ASSUME NEW c \in Config, c.destination \in PathsOf(c.targets)
    PROVE  Loaded(Saved(c)) = c
<1>1. c.targets # <<>>
  BY DEF PathsOf
<1>2. /\ Saved(c).storage_path = c.targets /\ Saved(c).destination = c.destination
      /\ Saved(c).port = c.port /\ Saved(c).rest = c.rest
  BY DEF Saved, Empty
<1>3. /\ Given(c.destination, Inbox) = c.destination
      /\ Given(c.port, DefaultPort) = c.port /\ Given(c.rest, DefaultRest) = c.rest
  BY PathsAssumption, SettingsAssumption DEF Config, Given
<1>4. Loaded(Saved(c)) = [port |-> c.port, destination |-> c.destination,
                          targets |-> c.targets, rest |-> c.rest]
  BY <1>1, <1>2, <1>3 DEF Loaded
<1>. QED
  BY <1>4 DEF Config

(* The states a process starts with.                                       *)
LEMMA StartTypes == /\ NoManager \in Manager /\ NoSave \in Save /\ NoSel \in Selection
                    /\ NoManager.open = NoUpload /\ ~NoManager.alive /\ NoSel.pc = "idle"
                    /\ NoSave.pc = "none" /\ NoSave.caller = "main"
BY DEF NoManager, NoSave, NoSel, Empty, Manager, Save, Selection, File

(* The part files that are left when the open upload is cleared.           *)
LEMMA UnlinkedParts ==
    ASSUME TypeOK, NoOtherParts
    PROVE  /\ LeftAlone \subseteq PartFile /\ Unlinked \subseteq PartFile
           /\ \A p \in LeftAlone : p.left
           /\ \A p \in Unlinked : p.left
<1>1. ASSUME NEW p \in OpenPart
      PROVE  [p EXCEPT !.left = TRUE] \in PartFile /\ [p EXCEPT !.left = TRUE].left
  BY DEF TypeOK, PartFile, OpenPart
<1>2. LeftAlone \subseteq PartFile /\ \A p \in LeftAlone : p.left
  BY <1>1, Zenon DEF LeftAlone
<1>. QED
  BY <1>2 DEF Unlinked, OpenPart, NoOtherParts, TypeOK

(* A manager with another open upload, and what the call reaped.           *)
LEMMA ReapedTypes ==
    ASSUME TypeOK, NoOtherParts, NEW reaps \in MayReap
    PROVE  /\ Reaped(reaps).upload \in Ids \cup {NoUpload}
           /\ Reaped(reaps).parts \subseteq PartFile
           /\ \A p \in Reaped(reaps).parts : p.id = Reaped(reaps).upload \/ p.left
           /\ reaps \in BOOLEAN
<1>1. reaps \in BOOLEAN
  BY DEF MayReap
<1>2. CASE reaps
  <2>1. Reaped(reaps).upload = NoUpload /\ Reaped(reaps).parts = Unlinked
    BY <1>2 DEF Reaped
  <2>. QED
    BY <1>1, <2>1, UnlinkedParts
<1>3. CASE ~reaps
  <2>1. Reaped(reaps).upload = manager.open /\ Reaped(reaps).parts = parts
    BY <1>3 DEF Reaped
  <2>. QED
    BY <1>1, <2>1 DEF TypeOK, Manager, NoOtherParts
<1>. QED
  BY <1>1, <1>2, <1>3

(* Types are kept.                                                         *)
LEMMA TypeStep == Inv /\ [Next]_vars => TypeOK'
<1>. SUFFICES ASSUME Inv, [Next]_vars PROVE TypeOK'
  OBVIOUS
<1>1. CASE LoadOk
  BY <1>1, LoadedType DEF LoadOk, Inv, TypeOK, diskVars, procVars, historyVars
<1>2. CASE LoadFails
  BY <1>2, SettingsAssumption, StartTypes, DefaultsType DEF LoadFails, Exit, Inv,
                                                            TypeOK, diskVars,
                                                            procVars, historyVars
<1>3. CASE LoadMissing
  <2>1. save' \in Save
    BY <1>3, DefaultsType, SavedType DEF LoadMissing, Save
  <2>. QED
    BY <1>3, <2>1, DefaultsType DEF LoadMissing, Inv, TypeOK, diskVars, procVars,
                                    historyVars
<1>4. CASE RouterInit
  <2>1. config' \in Config
    BY <1>4 DEF RouterInit, Given, Inv, TypeOK, Config
  <2>2. manager' \in Manager
    BY <1>4 DEF RouterInit, NoManager, Inv, TypeOK, Config, Manager
  <2>. QED
    BY <1>4, <2>1, <2>2 DEF RouterInit, Swept, Inv, TypeOK, diskVars, procVars,
                            historyVars
<1>5. CASE RouterInitFails
  BY <1>5, SettingsAssumption, StartTypes, DefaultsType DEF RouterInitFails, Exit,
                                                            Inv, TypeOK, diskVars,
                                                            procVars, historyVars
<1>6. CASE Bind
  BY <1>6 DEF Bind, Inv, TypeOK, diskVars, procVars, historyVars
<1>7. CASE BindFails
  BY <1>7 DEF BindFails, Inv, TypeOK, diskVars, procVars, historyVars
<1>8. CASE RouterSetPort
  <2>1. config' \in Config
    BY <1>8, PortTypes DEF RouterSetPort, Inv, TypeOK, Config
  <2>. QED
    BY <1>8, <2>1 DEF RouterSetPort, Inv, TypeOK, diskVars, procVars, historyVars
<1>9. CASE PortUnknown
  BY <1>9 DEF PortUnknown, Inv, TypeOK, diskVars, procVars, historyVars
<1>10. CASE FastStart
  BY <1>10 DEF FastStart, Inv, TypeOK, diskVars, procVars, historyVars
<1>11. CASE FastStartFails
  BY <1>11 DEF FastStartFails, Inv, TypeOK, diskVars, procVars, historyVars
<1>12. CASE StopHttp
  BY <1>12 DEF StopHttp, Inv, TypeOK, diskVars, procVars, historyVars
<1>13. CASE Destroy
  BY <1>13, StartTypes, UnlinkedParts DEF Destroy, PartInv, Inv, TypeOK, diskVars,
                                          procVars, historyVars
<1>14. CASE Returns
  BY <1>14, SettingsAssumption, StartTypes, DefaultsType DEF Returns, Exit, Inv,
                                                             TypeOK, diskVars,
                                                             procVars, historyVars
<1>15. CASE SaveOpen
  <2>1. save' \in Save
    BY <1>15 DEF SaveOpen, Inv, TypeOK, Save
  <2>. QED
    BY <1>15, <2>1 DEF SaveOpen, Inv, TypeOK, diskVars, procVars, historyVars
<1>16. CASE SaveWrite
  <2>1. save' \in Save
    BY <1>16 DEF SaveWrite, Inv, TypeOK, Save
  <2>. QED
    BY <1>16, <2>1 DEF SaveWrite, Inv, TypeOK, diskVars, procVars, historyVars
<1>17. CASE SaveRename
  <2>1. sel' \in Selection /\ file' \in File
    BY <1>17 DEF SaveRename, SaveReturns, Inv, TypeOK, Selection, Save
  <2>. QED
    BY <1>17, <2>1, StartTypes DEF SaveRename, SaveReturns, Inv, TypeOK, diskVars,
                                   procVars, historyVars
<1>18. CASE SaveFails
  <2>1. sel' \in Selection
    BY <1>18 DEF SaveFails, SaveReturns, Inv, TypeOK, Selection
  <2>. QED
    BY <1>18, <2>1, StartTypes DEF SaveFails, SaveReturns, Inv, TypeOK, diskVars,
                                   procVars, historyVars
<1>19. CASE SelectCommit
  <2>1. sel.destination \in Paths
    BY <1>19, PathsOfType DEF SelectCommit, Inv, TypeOK, SelInv, Config
  <2>2. config' \in Config
    BY <1>19, <2>1 DEF SelectCommit, Inv, TypeOK, Config
  <2>. QED
    BY <1>19, <2>1, <2>2, StartTypes DEF SelectCommit, Inv, TypeOK, diskVars,
                                         procVars, historyVars
<1>20. CASE Rollback
  <2>1. manager' \in Manager /\ sel.before \subseteq Paths
    BY <1>20 DEF Rollback, Inv, TypeOK, Manager, Selection
  <2>. QED
    BY <1>20, <2>1, StartTypes DEF Rollback, Swept, Inv, TypeOK, diskVars, procVars,
                                   historyVars
<1>21. CASE RollbackFails
  <2>1. sel.before \subseteq Paths
    BY DEF Inv, TypeOK, Selection
  <2>. QED
    BY <1>21, <2>1, StartTypes DEF RollbackFails, Inv, TypeOK, diskVars, procVars,
                                   historyVars
<1>22. CASE Launch
  BY <1>22, SettingsAssumption DEF Launch, Inv, TypeOK, diskVars, procVars, historyVars
<1>23. CASE StopFast
  BY <1>23 DEF StopFast, Inv, TypeOK, diskVars, procVars, historyVars
<1>24. CASE Select
  <2>1. PICK path \in PathsOf(config.targets), reaps \in MayReap :
            LET after == Reaped(reaps)
            IN  /\ manager' = [manager EXCEPT !.destination = path, !.open = after.upload,
                                              !.stale = @ /\ ~reaps]
                /\ parts' = IF path = manager.destination THEN after.parts
                            ELSE after.parts \cap Swept(path)
                /\ sel' = [pc |-> "saving", destination |-> path,
                           previous |-> config.destination, before |-> promised]
                /\ save' = [pc |-> "open", caller |-> "select",
                            content |-> Saved([config EXCEPT !.destination = path])]
                /\ promised' = promised \cup {path}
    BY <1>24 DEF Select
  <2>2. path \in Paths /\ config.destination \in Paths
    BY PathsOfType DEF Inv, TypeOK, Config
  <2>3. manager' \in Manager
    BY <2>1, <2>2, ReapedTypes DEF Inv, PartInv, TypeOK, Manager
  <2>4. sel' \in Selection
    BY <2>1, <2>2 DEF Inv, TypeOK, Selection
  <2>5. [config EXCEPT !.destination = path] \in Config
    BY <2>2 DEF Inv, TypeOK, Config
  <2>6. save' \in Save
    BY <2>1, <2>5, SavedType DEF Save
  <2>7. parts' \subseteq PartFile
    BY <2>1, ReapedTypes DEF Inv, PartInv
  <2>. QED
    BY <1>24, <2>1, <2>2, <2>3, <2>4, <2>6, <2>7 DEF Select, Inv, TypeOK, diskVars,
                                                     procVars, historyVars
<1>25. CASE SelectRefused
  <2>1. PICK reaps \in MayReap :
            /\ manager' = [manager EXCEPT !.open = Reaped(reaps).upload, !.stale = @ /\ ~reaps]
            /\ parts' = Reaped(reaps).parts
    BY <1>25 DEF SelectRefused
  <2>2. manager' \in Manager
    BY <2>1, ReapedTypes DEF Inv, PartInv, TypeOK, Manager
  <2>3. parts' \subseteq PartFile
    BY <2>1, ReapedTypes DEF Inv, PartInv
  <2>. QED
    BY <1>25, <2>2, <2>3 DEF SelectRefused, Inv, TypeOK, diskVars, procVars, historyVars
<1>26. CASE Prepare
  <2>1. PICK reaps \in MayReap, id \in Ids :
            /\ parts' = Reaped(reaps).parts \cup
                          {[id |-> id, path |-> manager.destination,
                            old |-> FALSE, left |-> FALSE]}
            /\ manager' = [manager EXCEPT !.open = id, !.stale = FALSE]
    BY <1>26 DEF Prepare
  <2>2. manager' \in Manager
    BY <2>1 DEF Inv, TypeOK, Manager
  <2>3. manager.destination \in Paths
    BY <1>26 DEF Prepare, PrepareAllowed, Serving, Inv, ProcInv, RouterAt, ServingAt
  <2>4. parts' \subseteq PartFile
    <3>1. [id |-> id, path |-> manager.destination, old |-> FALSE, left |-> FALSE] \in PartFile
      BY <2>3 DEF PartFile
    <3>2. Reaped(reaps).parts \subseteq PartFile
      BY ReapedTypes DEF Inv, PartInv
    <3>. QED
      BY <2>1, <3>1, <3>2
  <2>. QED
    BY <1>26, <2>2, <2>4 DEF Prepare, Inv, TypeOK, diskVars, procVars, historyVars
<1>27. CASE UploadEnds
  <2>1. manager' \in Manager
    BY <1>27 DEF UploadEnds, Inv, TypeOK, Manager
  <2>. QED
    BY <1>27, <2>1, UnlinkedParts DEF UploadEnds, PartInv, Inv, TypeOK, diskVars,
                                      procVars, historyVars
<1>28. CASE LeaseExpires
  <2>1. manager' \in Manager
    BY <1>28 DEF LeaseExpires, Inv, TypeOK, Manager
  <2>. QED
    BY <1>28, <2>1 DEF LeaseExpires, Inv, TypeOK, diskVars, procVars, historyVars
<1>29. CASE Ages
  <2>1. PICK p \in parts : parts' = (parts \ {p}) \cup {[p EXCEPT !.old = TRUE]}
    BY <1>29 DEF Ages
  <2>2. [p EXCEPT !.old = TRUE] \in PartFile
    BY DEF Inv, TypeOK, PartFile
  <2>. QED
    BY <1>29, <2>1, <2>2 DEF Ages, Inv, TypeOK, diskVars, procVars, historyVars
<1>30. CASE PlugOrUnplug
  BY <1>30 DEF PlugOrUnplug, Inv, TypeOK, diskVars, procVars, historyVars
<1>31. CASE EditConfig
  BY <1>31, SettingsAssumption DEF EditConfig, Inv, TypeOK, diskVars, procVars,
                                   historyVars
<1>32. CASE Kill
  BY <1>32, SettingsAssumption, StartTypes, DefaultsType, UnlinkedParts
     DEF Kill, Exit, PartInv, Inv, TypeOK, diskVars, procVars, historyVars
<1>33. CASE UNCHANGED vars
  BY <1>33 DEF Inv, TypeOK, diskVars, procVars, historyVars, vars
<1>. QED
  BY <1>1, <1>2, <1>3, <1>4, <1>5, <1>6, <1>7, <1>8, <1>9, <1>10, <1>11, <1>12, <1>13,
     <1>14, <1>15, <1>16, <1>17, <1>18, <1>19, <1>20, <1>21, <1>22, <1>23, <1>24,
     <1>25, <1>26, <1>27, <1>28, <1>29, <1>30, <1>31, <1>32, <1>33
     DEF Next, MainStep, SaveStep, SelectStep

(* Main, the servers and the manager stay in step.                         *)
LEMMA ProcStep == Inv /\ [Next]_vars => ProcInv'
<1>. SUFFICES ASSUME Inv, [Next]_vars PROVE ProcInv'
  OBVIOUS
<1>. USE DEF Inv, TypeOK, ProcInv, SelInv, RouterAt, ServingAt, diskVars, procVars,
             historyVars
<1>1. CASE LoadOk
  BY <1>1 DEF LoadOk
<1>2. CASE LoadFails
  BY <1>2 DEF LoadFails, Exit, NoManager, NoSave, NoSel
<1>3. CASE LoadMissing
  BY <1>3 DEF LoadMissing
<1>4. CASE RouterInit
  BY <1>4 DEF RouterInit, Swept, NoManager, Config, Manager
<1>5. CASE RouterInitFails
  BY <1>5 DEF RouterInitFails, Exit, NoManager, NoSave, NoSel
<1>6. CASE Bind
  BY <1>6 DEF Bind
<1>7. CASE BindFails
  BY <1>7 DEF BindFails
<1>8. CASE RouterSetPort
  BY <1>8 DEF RouterSetPort, Config
<1>9. CASE PortUnknown
  BY <1>9 DEF PortUnknown
<1>10. CASE FastStart
  BY <1>10 DEF FastStart
<1>11. CASE FastStartFails
  BY <1>11 DEF FastStartFails
<1>12. CASE StopHttp
  BY <1>12 DEF StopHttp
<1>13. CASE Destroy
  BY <1>13 DEF Destroy, NoManager
<1>14. CASE Returns
  BY <1>14 DEF Returns, Exit, NoManager, NoSave, NoSel
<1>15. CASE SaveOpen
  BY <1>15 DEF SaveOpen, Save
<1>16. CASE SaveWrite
  BY <1>16 DEF SaveWrite, Save
<1>17. CASE SaveRename
  BY <1>17 DEF SaveRename, SaveReturns, NoSave, Selection, Save
<1>18. CASE SaveFails
  BY <1>18 DEF SaveFails, SaveReturns, NoSave, Selection, Save
<1>19. CASE SelectCommit
  BY <1>19 DEF SelectCommit, NoSel, Selection, Config
<1>20. CASE Rollback
  BY <1>20 DEF Rollback, NoSel, Swept, Manager, Selection, Config
<1>21. CASE RollbackFails
  BY <1>21 DEF RollbackFails, NoSel
<1>22. CASE Launch
  BY <1>22 DEF Launch
<1>23. CASE StopFast
  BY <1>23 DEF StopFast
<1>24. CASE Select
  BY <1>24, PathsOfType, StartTypes DEF Select, Reaped, MayReap, Swept, Switchable,
                                        Serving, Manager, Selection, Config
<1>25. CASE SelectRefused
  BY <1>25, StartTypes DEF SelectRefused, Reaped, MayReap, Manager, Serving
<1>26. CASE Prepare
  BY <1>26 DEF Prepare, PrepareAllowed, Serving, Reaped, MayReap, Manager
<1>27. CASE UploadEnds
  BY <1>27 DEF UploadEnds, Manager
<1>28. CASE LeaseExpires
  BY <1>28, StartTypes DEF LeaseExpires, Manager
<1>29. CASE Ages
  BY <1>29 DEF Ages
<1>30. CASE PlugOrUnplug
  BY <1>30 DEF PlugOrUnplug
<1>31. CASE EditConfig
  BY <1>31 DEF EditConfig
<1>32. CASE Kill
  BY <1>32 DEF Kill, Exit, NoManager, NoSave, NoSel
<1>33. CASE UNCHANGED vars
  BY <1>33 DEF vars
<1>. QED
  BY <1>1, <1>2, <1>3, <1>4, <1>5, <1>6, <1>7, <1>8, <1>9, <1>10, <1>11, <1>12, <1>13,
     <1>14, <1>15, <1>16, <1>17, <1>18, <1>19, <1>20, <1>21, <1>22, <1>23, <1>24,
     <1>25, <1>26, <1>27, <1>28, <1>29, <1>30, <1>31, <1>32, <1>33
     DEF Next, MainStep, SaveStep, SelectStep

(* A selection finds what it relies on.                                    *)
LEMMA SelStep == Inv /\ [Next]_vars => SelInv'
<1>. SUFFICES ASSUME Inv, [Next]_vars PROVE SelInv'
  OBVIOUS
<1>. USE DEF Inv, TypeOK, ProcInv, SelInv, ServingAt, RouterAt, diskVars, procVars,
             historyVars
<1>1. CASE LoadOk
  BY <1>1 DEF LoadOk
<1>2. CASE LoadFails
  BY <1>2 DEF LoadFails, Exit, NoManager, NoSave, NoSel
<1>3. CASE LoadMissing
  BY <1>3 DEF LoadMissing
<1>4. CASE RouterInit
  BY <1>4 DEF RouterInit, Swept, NoManager, Config, Manager
<1>5. CASE RouterInitFails
  BY <1>5 DEF RouterInitFails, Exit, NoManager, NoSave, NoSel
<1>6. CASE Bind
  BY <1>6 DEF Bind
<1>7. CASE BindFails
  BY <1>7 DEF BindFails
<1>8. CASE RouterSetPort
  BY <1>8 DEF RouterSetPort, Config
<1>9. CASE PortUnknown
  BY <1>9 DEF PortUnknown
<1>10. CASE FastStart
  BY <1>10 DEF FastStart
<1>11. CASE FastStartFails
  BY <1>11 DEF FastStartFails
<1>12. CASE StopHttp
  BY <1>12 DEF StopHttp
<1>13. CASE Destroy
  BY <1>13 DEF Destroy, NoManager
<1>14. CASE Returns
  BY <1>14 DEF Returns, Exit, NoManager, NoSave, NoSel
<1>15. CASE SaveOpen
  BY <1>15 DEF SaveOpen, Save
<1>16. CASE SaveWrite
  BY <1>16 DEF SaveWrite, Save
<1>17. CASE SaveRename
  BY <1>17 DEF SaveRename, SaveReturns, NoSave, Selection, Save
<1>18. CASE SaveFails
  BY <1>18 DEF SaveFails, SaveReturns, NoSave, Selection, Save
<1>19. CASE SelectCommit
  BY <1>19 DEF SelectCommit, NoSel, Selection, Config
<1>20. CASE Rollback
  BY <1>20 DEF Rollback, NoSel, Swept, Manager, Selection, Config
<1>21. CASE RollbackFails
  BY <1>21 DEF RollbackFails, NoSel
<1>22. CASE Launch
  BY <1>22 DEF Launch
<1>23. CASE StopFast
  BY <1>23 DEF StopFast
<1>24. CASE Select
  BY <1>24 DEF Select, Reaped, MayReap, Swept, Switchable, Serving, Manager,
               Selection, Config
<1>25. CASE SelectRefused
  BY <1>25 DEF SelectRefused, Reaped, MayReap, Manager, Serving
<1>26. CASE Prepare
  BY <1>26 DEF Prepare, PrepareAllowed, Serving, Reaped, MayReap, Manager
<1>27. CASE UploadEnds
  BY <1>27 DEF UploadEnds, Manager
<1>28. CASE LeaseExpires
  BY <1>28 DEF LeaseExpires, Manager
<1>29. CASE Ages
  BY <1>29 DEF Ages
<1>30. CASE PlugOrUnplug
  BY <1>30 DEF PlugOrUnplug
<1>31. CASE EditConfig
  BY <1>31 DEF EditConfig
<1>32. CASE Kill
  BY <1>32 DEF Kill, Exit, NoManager, NoSave, NoSel
<1>33. CASE UNCHANGED vars
  BY <1>33 DEF vars
<1>. QED
  BY <1>1, <1>2, <1>3, <1>4, <1>5, <1>6, <1>7, <1>8, <1>9, <1>10, <1>11, <1>12, <1>13,
     <1>14, <1>15, <1>16, <1>17, <1>18, <1>19, <1>20, <1>21, <1>22, <1>23, <1>24,
     <1>25, <1>26, <1>27, <1>28, <1>29, <1>30, <1>31, <1>32, <1>33
     DEF Next, MainStep, SaveStep, SelectStep

(* The router and the manager agree at rest.                               *)
LEMMA StatusStep == Inv /\ [Next]_vars => StatusTellsDestination'
<1>. SUFFICES ASSUME Inv, [Next]_vars PROVE StatusTellsDestination'
  OBVIOUS
<1>. USE DEF Inv, TypeOK, ProcInv, SelInv, StatusTellsDestination, ServingAt,
             RouterAt, diskVars, procVars, historyVars
<1>1. CASE LoadOk
  BY <1>1 DEF LoadOk
<1>2. CASE LoadFails
  BY <1>2 DEF LoadFails, Exit, NoManager, NoSave, NoSel
<1>3. CASE LoadMissing
  BY <1>3 DEF LoadMissing
<1>4. CASE RouterInit
  BY <1>4 DEF RouterInit, Swept, NoManager, Config, Manager
<1>5. CASE RouterInitFails
  BY <1>5 DEF RouterInitFails, Exit, NoManager, NoSave, NoSel
<1>6. CASE Bind
  BY <1>6 DEF Bind
<1>7. CASE BindFails
  BY <1>7 DEF BindFails
<1>8. CASE RouterSetPort
  BY <1>8 DEF RouterSetPort, Config
<1>9. CASE PortUnknown
  BY <1>9 DEF PortUnknown
<1>10. CASE FastStart
  BY <1>10 DEF FastStart
<1>11. CASE FastStartFails
  BY <1>11 DEF FastStartFails
<1>12. CASE StopHttp
  BY <1>12 DEF StopHttp
<1>13. CASE Destroy
  BY <1>13 DEF Destroy, NoManager
<1>14. CASE Returns
  BY <1>14 DEF Returns, Exit, NoManager, NoSave, NoSel
<1>15. CASE SaveOpen
  BY <1>15 DEF SaveOpen, Save
<1>16. CASE SaveWrite
  BY <1>16 DEF SaveWrite, Save
<1>17. CASE SaveRename
  BY <1>17 DEF SaveRename, SaveReturns, NoSave, Selection, Save
<1>18. CASE SaveFails
  BY <1>18 DEF SaveFails, SaveReturns, NoSave, Selection, Save
<1>19. CASE SelectCommit
  BY <1>19 DEF SelectCommit, NoSel, Selection, Config
<1>20. CASE Rollback
  BY <1>20 DEF Rollback, NoSel, Swept, Manager, Selection, Config
<1>21. CASE RollbackFails
  BY <1>21 DEF RollbackFails, NoSel
<1>22. CASE Launch
  BY <1>22 DEF Launch
<1>23. CASE StopFast
  BY <1>23 DEF StopFast
<1>24. CASE Select
  BY <1>24 DEF Select, Reaped, MayReap, Swept, Switchable, Serving, Manager,
               Selection, Config
<1>25. CASE SelectRefused
  BY <1>25 DEF SelectRefused, Reaped, MayReap, Manager, Serving
<1>26. CASE Prepare
  BY <1>26 DEF Prepare, PrepareAllowed, Serving, Reaped, MayReap, Manager
<1>27. CASE UploadEnds
  BY <1>27 DEF UploadEnds, Manager
<1>28. CASE LeaseExpires
  BY <1>28 DEF LeaseExpires, Manager
<1>29. CASE Ages
  BY <1>29 DEF Ages
<1>30. CASE PlugOrUnplug
  BY <1>30 DEF PlugOrUnplug
<1>31. CASE EditConfig
  BY <1>31 DEF EditConfig
<1>32. CASE Kill
  BY <1>32 DEF Kill, Exit, NoManager, NoSave, NoSel
<1>33. CASE UNCHANGED vars
  BY <1>33 DEF vars
<1>. QED
  BY <1>1, <1>2, <1>3, <1>4, <1>5, <1>6, <1>7, <1>8, <1>9, <1>10, <1>11, <1>12, <1>13,
     <1>14, <1>15, <1>16, <1>17, <1>18, <1>19, <1>20, <1>21, <1>22, <1>23, <1>24,
     <1>25, <1>26, <1>27, <1>28, <1>29, <1>30, <1>31, <1>32, <1>33
     DEF Next, MainStep, SaveStep, SelectStep

(* Part files.                                                             *)
LEMMA PartStep == Inv /\ [Next]_vars => PartInv'
<1>. SUFFICES ASSUME Inv, [Next]_vars PROVE PartInv'
  OBVIOUS
<1>1. CASE LoadOk
  BY <1>1 DEF LoadOk, Inv, TypeOK, ProcInv, SelInv, PartInv, OpenPartKept,
              NoOtherParts, RouterAt, ServingAt, diskVars, procVars, historyVars
<1>2. CASE LoadFails
  BY <1>2 DEF LoadFails, Exit, NoManager, NoSave, NoSel, Inv, TypeOK, ProcInv, SelInv,
              PartInv, OpenPartKept, NoOtherParts, RouterAt, ServingAt, diskVars,
              procVars, historyVars
<1>3. CASE LoadMissing
  BY <1>3 DEF LoadMissing, Inv, TypeOK, ProcInv, SelInv, PartInv, OpenPartKept,
              NoOtherParts, RouterAt, ServingAt, diskVars, procVars, historyVars
<1>4. CASE RouterInit
  BY <1>4 DEF RouterInit, Swept, NoManager, Config, Manager, Inv, TypeOK, ProcInv,
              SelInv, PartInv, OpenPartKept, NoOtherParts, RouterAt, ServingAt,
              diskVars, procVars, historyVars
<1>5. CASE RouterInitFails
  BY <1>5 DEF RouterInitFails, Exit, NoManager, NoSave, NoSel, Inv, TypeOK, ProcInv,
              SelInv, PartInv, OpenPartKept, NoOtherParts, RouterAt, ServingAt,
              diskVars, procVars, historyVars
<1>6. CASE Bind
  BY <1>6 DEF Bind, Inv, TypeOK, ProcInv, SelInv, PartInv, OpenPartKept, NoOtherParts,
              RouterAt, ServingAt, diskVars, procVars, historyVars
<1>7. CASE BindFails
  BY <1>7 DEF BindFails, Inv, TypeOK, ProcInv, SelInv, PartInv, OpenPartKept,
              NoOtherParts, RouterAt, ServingAt, diskVars, procVars, historyVars
<1>8. CASE RouterSetPort
  BY <1>8 DEF RouterSetPort, Config, Inv, TypeOK, ProcInv, SelInv, PartInv,
              OpenPartKept, NoOtherParts, RouterAt, ServingAt, diskVars, procVars,
              historyVars
<1>9. CASE PortUnknown
  BY <1>9 DEF PortUnknown, Inv, TypeOK, ProcInv, SelInv, PartInv, OpenPartKept,
              NoOtherParts, RouterAt, ServingAt, diskVars, procVars, historyVars
<1>10. CASE FastStart
  BY <1>10 DEF FastStart, Inv, TypeOK, ProcInv, SelInv, PartInv, OpenPartKept,
               NoOtherParts, RouterAt, ServingAt, diskVars, procVars, historyVars
<1>11. CASE FastStartFails
  BY <1>11 DEF FastStartFails, Inv, TypeOK, ProcInv, SelInv, PartInv, OpenPartKept,
               NoOtherParts, RouterAt, ServingAt, diskVars, procVars, historyVars
<1>12. CASE StopHttp
  BY <1>12 DEF StopHttp, Inv, TypeOK, ProcInv, SelInv, PartInv, OpenPartKept,
               NoOtherParts, RouterAt, ServingAt, diskVars, procVars, historyVars
<1>13. CASE Destroy
  <2>1. \A p \in parts' : p.left
    BY <1>13, UnlinkedParts DEF Destroy, Inv, PartInv
  <2>2. manager'.open = NoUpload
    BY <1>13, StartTypes DEF Destroy
  <2>. QED
    BY <2>1, <2>2 DEF PartInv, OpenPartKept, NoOtherParts
<1>14. CASE Returns
  BY <1>14 DEF Returns, Exit, NoManager, NoSave, NoSel, Inv, TypeOK, ProcInv, SelInv,
               PartInv, OpenPartKept, NoOtherParts, RouterAt, ServingAt, diskVars,
               procVars, historyVars
<1>15. CASE SaveOpen
  BY <1>15 DEF SaveOpen, Save, Inv, TypeOK, ProcInv, SelInv, PartInv, OpenPartKept,
               NoOtherParts, RouterAt, ServingAt, diskVars, procVars, historyVars
<1>16. CASE SaveWrite
  BY <1>16 DEF SaveWrite, Save, Inv, TypeOK, ProcInv, SelInv, PartInv, OpenPartKept,
               NoOtherParts, RouterAt, ServingAt, diskVars, procVars, historyVars
<1>17. CASE SaveRename
  BY <1>17 DEF SaveRename, SaveReturns, NoSave, Selection, Save, Inv, TypeOK, ProcInv,
               SelInv, PartInv, OpenPartKept, NoOtherParts, RouterAt, ServingAt,
               diskVars, procVars, historyVars
<1>18. CASE SaveFails
  BY <1>18 DEF SaveFails, SaveReturns, NoSave, Selection, Save, Inv, TypeOK, ProcInv,
               SelInv, PartInv, OpenPartKept, NoOtherParts, RouterAt, ServingAt,
               diskVars, procVars, historyVars
<1>19. CASE SelectCommit
  BY <1>19 DEF SelectCommit, NoSel, Selection, Config, Inv, TypeOK, ProcInv, SelInv,
               PartInv, OpenPartKept, NoOtherParts, RouterAt, ServingAt, diskVars,
               procVars, historyVars
<1>20. CASE Rollback
  BY <1>20 DEF Rollback, NoSel, Swept, Manager, Selection, Config, Inv, TypeOK,
               ProcInv, SelInv, PartInv, OpenPartKept, NoOtherParts, RouterAt,
               ServingAt, diskVars, procVars, historyVars
<1>21. CASE RollbackFails
  BY <1>21 DEF RollbackFails, NoSel, Inv, TypeOK, ProcInv, SelInv, PartInv,
               OpenPartKept, NoOtherParts, RouterAt, ServingAt, diskVars, procVars,
               historyVars
<1>22. CASE Launch
  BY <1>22 DEF Launch, Inv, TypeOK, ProcInv, SelInv, PartInv, OpenPartKept,
               NoOtherParts, RouterAt, ServingAt, diskVars, procVars, historyVars
<1>23. CASE StopFast
  BY <1>23 DEF StopFast, Inv, TypeOK, ProcInv, SelInv, PartInv, OpenPartKept,
               NoOtherParts, RouterAt, ServingAt, diskVars, procVars, historyVars
<1>24. CASE Select
  <2>1. PICK reaps \in MayReap :
            /\ Reaped(reaps).upload = NoUpload
            /\ manager'.open = NoUpload
            /\ parts' \subseteq Reaped(reaps).parts
    BY <1>24 DEF Select, Switchable, Inv, TypeOK, Manager
  <2>2. \A p \in parts' : p.left
    BY <2>1, ReapedTypes, SettingsAssumption DEF Inv, PartInv, PartFile
  <2>. QED
    BY <2>1, <2>2 DEF PartInv, OpenPartKept, NoOtherParts
<1>25. CASE SelectRefused
  <2>1. PICK reaps \in MayReap :
            /\ manager'.open = Reaped(reaps).upload
            /\ manager'.destination = manager.destination
            /\ parts' = Reaped(reaps).parts
    BY <1>25 DEF SelectRefused, Inv, TypeOK, Manager
  <2>2. NoOtherParts'
    BY <2>1, ReapedTypes DEF Inv, PartInv, NoOtherParts
  <2>3. OpenPartKept'
    BY <2>1 DEF Reaped, Inv, PartInv, OpenPartKept
  <2>. QED
    BY <2>2, <2>3 DEF PartInv
<1>26. CASE Prepare
  <2>1. PICK reaps \in MayReap, id \in Ids :
            /\ Reaped(reaps).upload = NoUpload
            /\ parts' = Reaped(reaps).parts \cup
                          {[id |-> id, path |-> manager.destination,
                            old |-> FALSE, left |-> FALSE]}
            /\ manager' = [manager EXCEPT !.open = id, !.stale = FALSE]
    BY <1>26 DEF Prepare
  <2>2. manager'.open = id /\ manager'.destination = manager.destination
    BY <2>1 DEF Inv, TypeOK, Manager
  <2>3. \A p \in Reaped(reaps).parts : p.left
    BY <2>1, ReapedTypes, SettingsAssumption DEF Inv, PartInv, PartFile
  <2>4. OpenPartKept'
    <3>. DEFINE part == [id |-> id, path |-> manager.destination,
                         old |-> FALSE, left |-> FALSE]
    <3>1. part \in parts' /\ part.id = manager'.open /\ part.path = manager'.destination
      BY <2>1, <2>2
    <3>. HIDE DEF part
    <3>. QED
      BY <3>1 DEF OpenPartKept
  <2>5. NoOtherParts'
    BY <2>1, <2>2, <2>3 DEF NoOtherParts
  <2>. QED
    BY <2>4, <2>5 DEF PartInv
<1>27. CASE UploadEnds
  <2>1. \A p \in parts' : p.left
    BY <1>27, UnlinkedParts DEF UploadEnds, Inv, PartInv
  <2>2. manager'.open = NoUpload
    BY <1>27 DEF UploadEnds, Inv, TypeOK, Manager
  <2>. QED
    BY <2>1, <2>2 DEF PartInv, OpenPartKept, NoOtherParts
<1>28. CASE LeaseExpires
  BY <1>28 DEF LeaseExpires, Manager, Inv, TypeOK, ProcInv, SelInv, PartInv,
               OpenPartKept, NoOtherParts, RouterAt, ServingAt, diskVars, procVars,
               historyVars
<1>29. CASE Ages
  <2>1. PICK p \in parts : parts' = (parts \ {p}) \cup {[p EXCEPT !.old = TRUE]}
    BY <1>29 DEF Ages
  <2>2. /\ [p EXCEPT !.old = TRUE].id = p.id /\ [p EXCEPT !.old = TRUE].path = p.path
        /\ [p EXCEPT !.old = TRUE].left = p.left
    BY DEF Inv, TypeOK, PartFile
  <2>3. manager' = manager
    BY <1>29 DEF Ages, procVars
  <2>4. OpenPartKept'
    BY <2>1, <2>2, <2>3 DEF Inv, PartInv, OpenPartKept
  <2>5. NoOtherParts'
    BY <2>1, <2>2, <2>3 DEF Inv, PartInv, NoOtherParts
  <2>. QED
    BY <2>4, <2>5 DEF PartInv
<1>30. CASE PlugOrUnplug
  BY <1>30 DEF PlugOrUnplug, Inv, TypeOK, ProcInv, SelInv, PartInv, OpenPartKept,
               NoOtherParts, RouterAt, ServingAt, diskVars, procVars, historyVars
<1>31. CASE EditConfig
  BY <1>31 DEF EditConfig, Inv, TypeOK, ProcInv, SelInv, PartInv, OpenPartKept,
               NoOtherParts, RouterAt, ServingAt, diskVars, procVars, historyVars
<1>32. CASE Kill
  <2>1. \A p \in parts' : p.left
    BY <1>32, UnlinkedParts DEF Kill, OpenPart, Inv, PartInv, NoOtherParts
  <2>2. manager'.open = NoUpload
    BY <1>32, StartTypes DEF Kill, Exit
  <2>. QED
    BY <2>1, <2>2 DEF PartInv, OpenPartKept, NoOtherParts
<1>33. CASE UNCHANGED vars
  BY <1>33 DEF Inv, TypeOK, ProcInv, SelInv, PartInv, OpenPartKept, NoOtherParts,
               RouterAt, ServingAt, diskVars, procVars, historyVars, vars
<1>. QED
  BY <1>1, <1>2, <1>3, <1>4, <1>5, <1>6, <1>7, <1>8, <1>9, <1>10, <1>11, <1>12, <1>13,
     <1>14, <1>15, <1>16, <1>17, <1>18, <1>19, <1>20, <1>21, <1>22, <1>23, <1>24,
     <1>25, <1>26, <1>27, <1>28, <1>29, <1>30, <1>31, <1>32, <1>33
     DEF Next, MainStep, SaveStep, SelectStep

(* Answers and config.ini.                                                 *)
LEMMA AnswerStep == Inv /\ [Next]_vars => (AnswerInv /\ AnswersDurable)'
<1>. SUFFICES ASSUME Inv, [Next]_vars PROVE (AnswerInv /\ AnswersDurable)'
  OBVIOUS
<1>1. CASE LoadOk
  BY <1>1 DEF LoadOk, Inv, TypeOK, ProcInv, SelInv, AnswerInv, AnswersDurable,
              ServingAt, diskVars, procVars, historyVars
<1>2. CASE LoadFails
  BY <1>2 DEF LoadFails, Exit, NoManager, NoSave, NoSel, Inv, TypeOK, ProcInv, SelInv,
              AnswerInv, AnswersDurable, ServingAt, diskVars, procVars, historyVars
<1>3. CASE LoadMissing
  BY <1>3 DEF LoadMissing, Inv, TypeOK, ProcInv, SelInv, AnswerInv, AnswersDurable,
              ServingAt, diskVars, procVars, historyVars
<1>4. CASE RouterInit
  BY <1>4 DEF RouterInit, Swept, NoManager, Config, Manager, Inv, TypeOK, ProcInv,
              SelInv, AnswerInv, AnswersDurable, ServingAt, diskVars, procVars,
              historyVars
<1>5. CASE RouterInitFails
  BY <1>5 DEF RouterInitFails, Exit, NoManager, NoSave, NoSel, Inv, TypeOK, ProcInv,
              SelInv, AnswerInv, AnswersDurable, ServingAt, diskVars, procVars,
              historyVars
<1>6. CASE Bind
  BY <1>6 DEF Bind, Inv, TypeOK, ProcInv, SelInv, AnswerInv, AnswersDurable,
              ServingAt, diskVars, procVars, historyVars
<1>7. CASE BindFails
  BY <1>7 DEF BindFails, Inv, TypeOK, ProcInv, SelInv, AnswerInv, AnswersDurable,
              ServingAt, diskVars, procVars, historyVars
<1>8. CASE RouterSetPort
  BY <1>8 DEF RouterSetPort, Config, Inv, TypeOK, ProcInv, SelInv, AnswerInv,
              AnswersDurable, ServingAt, diskVars, procVars, historyVars
<1>9. CASE PortUnknown
  BY <1>9 DEF PortUnknown, Inv, TypeOK, ProcInv, SelInv, AnswerInv, AnswersDurable,
              ServingAt, diskVars, procVars, historyVars
<1>10. CASE FastStart
  BY <1>10 DEF FastStart, Inv, TypeOK, ProcInv, SelInv, AnswerInv, AnswersDurable,
               ServingAt, diskVars, procVars, historyVars
<1>11. CASE FastStartFails
  BY <1>11 DEF FastStartFails, Inv, TypeOK, ProcInv, SelInv, AnswerInv,
               AnswersDurable, ServingAt, diskVars, procVars, historyVars
<1>12. CASE StopHttp
  BY <1>12 DEF StopHttp, Inv, TypeOK, ProcInv, SelInv, AnswerInv, AnswersDurable,
               ServingAt, diskVars, procVars, historyVars
<1>13. CASE Destroy
  BY <1>13 DEF Destroy, NoManager, Inv, TypeOK, ProcInv, SelInv, AnswerInv,
               AnswersDurable, ServingAt, diskVars, procVars, historyVars
<1>14. CASE Returns
  BY <1>14 DEF Returns, Exit, NoManager, NoSave, NoSel, Inv, TypeOK, ProcInv, SelInv,
               AnswerInv, AnswersDurable, ServingAt, diskVars, procVars, historyVars
<1>15. CASE SaveOpen
  BY <1>15 DEF SaveOpen, Save, Inv, TypeOK, ProcInv, SelInv, AnswerInv,
               AnswersDurable, ServingAt, diskVars, procVars, historyVars
<1>16. CASE SaveWrite
  BY <1>16 DEF SaveWrite, Save, Inv, TypeOK, ProcInv, SelInv, AnswerInv,
               AnswersDurable, ServingAt, diskVars, procVars, historyVars
<1>17. CASE SaveRename
  <2>1. CASE save.caller = "main"
    BY <1>17, <2>1 DEF SaveRename, SaveReturns, NoSave, Inv, ProcInv, SelInv, AnswerInv,
                      AnswersDurable, ServingAt
  <2>2. CASE save.caller # "main"
    <3>1. sel.pc = "saving" /\ sel' = [sel EXCEPT !.pc = "commit"] /\ proc' = proc
      BY <1>17, <2>2 DEF SaveRename, SaveReturns, Inv, TypeOK, SelInv, Save
    <3>2. [config EXCEPT !.destination = sel.destination] \in Config
      BY <3>1, PathsOfType DEF Inv, TypeOK, SelInv, Config
    <3>3. file' = Saved([config EXCEPT !.destination = sel.destination])
      BY <1>17, <3>1 DEF SaveRename, Inv, SelInv
    <3>4. Loaded(file').destination = sel.destination
      BY <3>1, <3>2, <3>3, RoundTrip DEF Inv, TypeOK, SelInv, Config
    <3>5. file' # Absent
      BY <3>2, <3>3, SavedType, SettingsAssumption
    <3>6. /\ sel'.pc = "commit" /\ sel'.destination = sel.destination
          /\ sel'.before = sel.before
      BY <3>1 DEF Inv, TypeOK, Selection
    <3>. QED
      BY <1>17, <3>1, <3>4, <3>5, <3>6 DEF SaveRename, Inv, ProcInv, ServingAt,
                                           AnswerInv,
                                          AnswersDurable
  <2>. QED
    BY <2>1, <2>2
<1>18. CASE SaveFails
  <2>1. CASE save.caller = "main"
    BY <1>18, <2>1 DEF SaveFails, SaveReturns, historyVars, Inv, ProcInv, SelInv,
                       AnswerInv,
                      AnswersDurable, ServingAt
  <2>2. CASE save.caller # "main"
    <3>1. sel.pc = "saving" /\ sel' = [sel EXCEPT !.pc = "rollback"] /\ proc' = proc
      BY <1>18, <2>2 DEF SaveFails, SaveReturns, Inv, TypeOK, SelInv, Save
    <3>2. /\ sel'.pc = "rollback" /\ sel'.destination = sel.destination
          /\ sel'.before = sel.before
      BY <3>1 DEF Inv, TypeOK, Selection
    <3>. QED
      BY <1>18, <3>1, <3>2 DEF SaveFails, historyVars, Inv, ProcInv, ServingAt,
                               AnswerInv,
                              AnswersDurable
  <2>. QED
    BY <2>1, <2>2
<1>19. CASE SelectCommit
  BY <1>19 DEF SelectCommit, NoSel, Selection, Config, Inv, TypeOK, ProcInv, SelInv,
               AnswerInv, AnswersDurable, ServingAt, diskVars, procVars, historyVars
<1>20. CASE Rollback
  BY <1>20 DEF Rollback, NoSel, Swept, Manager, Selection, Config, Inv, TypeOK,
               ProcInv, SelInv, AnswerInv, AnswersDurable, ServingAt, diskVars,
               procVars, historyVars
<1>21. CASE RollbackFails
  BY <1>21 DEF RollbackFails, NoSel, Inv, TypeOK, ProcInv, SelInv, AnswerInv,
               AnswersDurable, ServingAt, diskVars, procVars, historyVars
<1>22. CASE Launch
  BY <1>22 DEF Launch, Inv, TypeOK, ProcInv, SelInv, AnswerInv, AnswersDurable,
               ServingAt, diskVars, procVars, historyVars
<1>23. CASE StopFast
  BY <1>23 DEF StopFast, Inv, TypeOK, ProcInv, SelInv, AnswerInv, AnswersDurable,
               ServingAt, diskVars, procVars, historyVars
<1>24. CASE Select
  <2>1. PICK path \in PathsOf(config.targets) :
            /\ sel' = [pc |-> "saving", destination |-> path,
                       previous |-> config.destination, before |-> promised]
            /\ promised' = promised \cup {path}
    BY <1>24 DEF Select
  <2>2. path \in Paths
    BY PathsOfType DEF Inv, TypeOK, Config
  <2>3. promised = Paths => promised' = Paths
    BY <2>1, <2>2
  <2>4. file' = file /\ proc' \in ServingAt
    BY <1>24 DEF Select, Serving, Inv, ProcInv
  <2>. QED
    BY <2>1, <2>3, <2>4 DEF Inv, AnswerInv, AnswersDurable, ServingAt
<1>25. CASE SelectRefused
  BY <1>25 DEF SelectRefused, Reaped, MayReap, Manager, Serving, Inv, TypeOK, ProcInv,
               SelInv, AnswerInv, AnswersDurable, ServingAt, diskVars, procVars,
               historyVars
<1>26. CASE Prepare
  BY <1>26 DEF Prepare, PrepareAllowed, Serving, Reaped, MayReap, Manager, Inv,
               TypeOK, ProcInv, SelInv, AnswerInv, AnswersDurable, ServingAt,
               diskVars, procVars, historyVars
<1>27. CASE UploadEnds
  BY <1>27 DEF UploadEnds, Manager, Inv, TypeOK, ProcInv, SelInv, AnswerInv,
               AnswersDurable, ServingAt, diskVars, procVars, historyVars
<1>28. CASE LeaseExpires
  BY <1>28 DEF LeaseExpires, Manager, Inv, TypeOK, ProcInv, SelInv, AnswerInv,
               AnswersDurable, ServingAt, diskVars, procVars, historyVars
<1>29. CASE Ages
  BY <1>29 DEF Ages, Inv, TypeOK, ProcInv, SelInv, AnswerInv, AnswersDurable,
               ServingAt, diskVars, procVars, historyVars
<1>30. CASE PlugOrUnplug
  BY <1>30 DEF PlugOrUnplug, Inv, TypeOK, ProcInv, SelInv, AnswerInv, AnswersDurable,
               ServingAt, diskVars, procVars, historyVars
<1>31. CASE EditConfig
  BY <1>31 DEF EditConfig, Inv, TypeOK, ProcInv, SelInv, AnswerInv, AnswersDurable,
               ServingAt, diskVars, procVars, historyVars
<1>32. CASE Kill
  BY <1>32 DEF Kill, Exit, NoManager, NoSave, NoSel, Inv, TypeOK, ProcInv, SelInv,
               AnswerInv, AnswersDurable, ServingAt, diskVars, procVars, historyVars
<1>33. CASE UNCHANGED vars
  BY <1>33 DEF Inv, TypeOK, ProcInv, SelInv, AnswerInv, AnswersDurable, ServingAt,
               diskVars, procVars, historyVars, vars
<1>. QED
  BY <1>1, <1>2, <1>3, <1>4, <1>5, <1>6, <1>7, <1>8, <1>9, <1>10, <1>11, <1>12, <1>13,
     <1>14, <1>15, <1>16, <1>17, <1>18, <1>19, <1>20, <1>21, <1>22, <1>23, <1>24,
     <1>25, <1>26, <1>27, <1>28, <1>29, <1>30, <1>31, <1>32, <1>33
     DEF Next, MainStep, SaveStep, SelectStep

(* Inv holds at the start.                                                 *)
LEMMA InvInit == Init => Inv
<1>. SUFFICES ASSUME Init PROVE Inv
  OBVIOUS
<1>1. TypeOK
  BY StartTypes, DefaultsType, SettingsAssumption DEF Init, TypeOK
<1>2. ProcInv /\ SelInv /\ StatusTellsDestination /\ PartInv /\ AnswerInv /\ AnswersDurable
  BY StartTypes DEF Init, ProcInv, RouterAt, SelInv, StatusTellsDestination, PartInv,
                    OpenPartKept, NoOtherParts, AnswerInv, AnswersDurable
<1>. QED
  BY <1>1, <1>2 DEF Inv

(* Every step of the receiver, of a request and of the environment keeps   *)
(* Inv.                                                                    *)
THEOREM InvNext == Inv /\ [Next]_vars => Inv'
BY TypeStep, ProcStep, SelStep, StatusStep, PartStep, AnswerStep DEF Inv

(* Inv holds in every behaviour, whenever the process is killed, a file    *)
(* operation fails or the drive is pulled.                                 *)
THEOREM Safety == Spec => []Inv
BY InvInit, InvNext, PTL DEF Spec

(* config.ini, the router's copy and the part files keep their types: a    *)
(* configuration that was loaded is complete, whatever lines it came from. *)
THEOREM StorageTypes == Spec => []TypeOK
<1>1. Inv => TypeOK
  BY DEF Inv
<1>. QED
  BY <1>1, Safety, PTL

(* No selection, sweep of stale part files or rollback takes the part file *)
(* of the open upload away (upload_manager_set_destination,                *)
(* cleanup_stale_parts).                                                   *)
THEOREM OpenPartSafe == Spec => []OpenPartKept
<1>1. Inv => OpenPartKept
  BY DEF Inv, PartInv
<1>. QED
  BY <1>1, Safety, PTL

(* No other part file is left behind without a kill or a missing drive     *)
(* (clear_slot, upload_manager_destroy).                                   *)
THEOREM PartFilesOwned == Spec => []NoOtherParts
<1>1. Inv => NoOtherParts
  BY DEF Inv, PartInv
<1>. QED
  BY <1>1, Safety, PTL

(* The destination /status shows is the one uploads go to, except after a  *)
(* rollback that failed (dispatch_storage).                                *)
THEOREM StatusTrue == Spec => []StatusTellsDestination
<1>1. Inv => StatusTellsDestination
  BY DEF Inv
<1>. QED
  BY <1>1, Safety, PTL

(* No request runs without its router (server_start, server_stop).         *)
THEOREM RouterOutlivesRequests == Spec => []RequestsHaveRouter
<1>1. Inv => RequestsHaveRouter
  BY DEF Inv, ProcInv, RequestsHaveRouter, RouterAt, ServingAt
<1>. QED
  BY <1>1, Safety, PTL

(* What a selection was answered is what a restart finds, also after a     *)
(* kill between any two steps of dispatch_storage and config_save_file.    *)
THEOREM SelectionDurable == Spec => []AnswersDurable
<1>1. Inv => AnswersDurable
  BY DEF Inv
<1>. QED
  BY <1>1, Safety, PTL
-----------------------------------------------------------------------------
(* The configuration file over restarts.                                   *)

(* Steps that leave the configuration and its file alone.                  *)
Quiet == /\ UNCHANGED <<file, config, author, override>>
         /\ proc' \in {"down", "load", "saving"} => proc' = proc
         /\ proc \in {"down", "load"} => proc' = proc

(* The steps that do not.                                                  *)
LEMMA ConfigSteps ==
    ASSUME Inv, [Next]_vars
    PROVE  \/ Launch \/ LoadOk \/ LoadMissing \/ RouterInit \/ RouterSetPort
           \/ SaveRename \/ SelectCommit \/ EditConfig
           \/ Exit /\ UNCHANGED <<file, author>>
           \/ Quiet
<1>1. CASE LoadFails \/ RouterInitFails \/ Returns \/ Kill
  BY <1>1 DEF LoadFails, RouterInitFails, Returns, Kill, diskVars
<1>2. CASE \/ Bind \/ BindFails \/ PortUnknown \/ FastStart \/ FastStartFails \/ StopHttp
           \/ Destroy \/ StopFast
  BY <1>2 DEF Bind, BindFails, PortUnknown, FastStart, FastStartFails, StopHttp,
              Destroy,
              StopFast, Quiet, diskVars, historyVars
<1>3. CASE SaveOpen \/ SaveWrite \/ SaveFails
  BY <1>3 DEF SaveOpen, SaveWrite, SaveFails, SaveReturns, Quiet, diskVars, historyVars,
              Inv, TypeOK, ProcInv, Save, SelInv, ServingAt
<1>4. CASE Rollback \/ RollbackFails \/ Select \/ SelectRefused \/ Prepare \/ UploadEnds
  BY <1>4 DEF Rollback, RollbackFails, Select, SelectRefused, Prepare, UploadEnds,
              Quiet,
              diskVars
<1>5. CASE LeaseExpires \/ Ages \/ PlugOrUnplug \/ UNCHANGED vars
  BY <1>5 DEF LeaseExpires, Ages, PlugOrUnplug, vars, Quiet, diskVars, procVars,
              historyVars
<1>. QED
  BY <1>1, <1>2, <1>3, <1>4, <1>5 DEF Next, MainStep, SaveStep, SelectStep

(* The destination is always the path of a target, and the defaults are    *)
(* saved only where there is no file.                                      *)
ConfigInv ==
    /\ config.destination \in PathsOf(config.targets)
    /\ override \in Overrides \cup {Absent}
    /\ proc = "saving" => file = Absent

(* The defaults name one of their own targets.                             *)
LEMMA DefaultsConsistent ==
    config_set_defaults.destination \in PathsOf(config_set_defaults.targets)
<1>. DEFINE targets == << [id |-> "internal", path |-> Inbox],
                          [id |-> "usb", path |-> UsbInbox] >>
<1>1. 1 \in 1..Len(targets) /\ targets[1].path = Inbox
  OBVIOUS
<1>2. config_set_defaults.targets = targets /\ config_set_defaults.destination = Inbox
  BY DEF config_set_defaults
<1>. HIDE DEF targets
<1>. QED
  BY <1>1, <1>2 DEF PathsOf

(* ConfigInv is kept.                                                      *)
LEMMA ConfigStep == Inv /\ ConfigInv /\ [Next]_vars => ConfigInv'
<1>. SUFFICES ASSUME Inv, ConfigInv, [Next]_vars PROVE ConfigInv'
  OBVIOUS
<1>1. CASE Launch
  BY <1>1 DEF Launch, diskVars, ConfigInv
<1>2. CASE LoadOk
  BY <1>2, LoadedType DEF LoadOk, diskVars, Inv, TypeOK, ConfigInv
<1>3. CASE LoadMissing
  BY <1>3, DefaultsConsistent DEF LoadMissing, diskVars, ConfigInv
<1>4. CASE RouterInit
  BY <1>4 DEF RouterInit, Inv, TypeOK, Config, ConfigInv
<1>5. CASE RouterSetPort
  BY <1>5 DEF RouterSetPort, Inv, TypeOK, Config, ConfigInv
<1>6. CASE SaveRename
  BY <1>6 DEF SaveRename, SaveReturns, Inv, TypeOK, ProcInv, SelInv, Save, ServingAt,
              ConfigInv
<1>7. CASE SelectCommit
  BY <1>7 DEF SelectCommit, diskVars, Inv, TypeOK, SelInv, Config, ConfigInv
<1>8. CASE EditConfig
  BY <1>8 DEF EditConfig, procVars, ConfigInv
<1>9. CASE Exit /\ UNCHANGED <<file, author>>
  BY <1>9, DefaultsConsistent DEF Exit, ConfigInv
<1>10. CASE Quiet
  BY <1>10 DEF Quiet, ConfigInv
<1>. QED
  BY <1>1, <1>2, <1>3, <1>4, <1>5, <1>6, <1>7, <1>8, <1>9, <1>10, ConfigSteps

(* The destination of the configuration always is one of its targets,      *)
(* also of a file whose destination line names none of them                *)
(* (config_load_file).                                                     *)
THEOREM DestinationIsTarget == Spec => []ConfigInv
<1>1. Init => ConfigInv
  BY DefaultsConsistent DEF Init, ConfigInv
<1>2. Inv /\ ConfigInv /\ [Next]_vars => ConfigInv'
  BY ConfigStep
<1>. QED
  BY <1>1, <1>2, Safety, PTL DEF Spec
-----------------------------------------------------------------------------
(* The port of --port is one config.ini may hold.                          *)
OverridesAllowed == \A p \in Overrides : p = Absent \/ PortAllowed(p)
(* No path the older lines of config.ini allow holds the separator.        *)
NoBars == (DataPaths \cup UsbPaths \cup {UsbRoot}) \cap BarPaths = {}

(* A configuration config_save_file writes in a form that loads.           *)
Fits(c) == PortAllowed(c.port) /\ TargetsAllowed(c.targets)
LoadInv == Fits(config) /\ SavedLoads

(* The ports the program chooses may stand in config.ini; 0 may not.       *)
LEMMA PortsFit == PortAllowed(DefaultPort) /\ PortAllowed(EphemeralPort)
BY SMT DEF PortAllowed, DefaultPort, EphemeralPort

(* So do the defaults.                                                     *)
LEMMA DefaultsFit == Fits(config_set_defaults)
<1>. DEFINE targets == << [id |-> "internal", path |-> Inbox],
                          [id |-> "usb", path |-> UsbInbox] >>
<1>1. Len(targets) = 2 /\ targets[1].path = Inbox /\ targets[2].path = UsbInbox
      /\ targets[1].id = "internal" /\ targets[2].id = "usb"
  OBVIOUS
<1>2. config_set_defaults.targets = targets /\ config_set_defaults.port = DefaultPort
  BY DEF config_set_defaults
<1>. HIDE DEF targets
<1>3. TargetsAllowed(targets)
  BY <1>1, PathsAssumption, SettingsAssumption DEF TargetsAllowed
<1>. QED
  BY <1>2, <1>3, PortsFit DEF Fits

(* What config_load_file accepts can be written again.                     *)
LEMMA LoadedFits ==
    ASSUME NoBars, NEW f \in File, Loads(f)
    PROVE  Fits(Loaded(f))
<1>1. PortAllowed(Loaded(f).port)
  BY PortsFit DEF Loads, Loaded, Given
<1>2. CASE f.storage_path = <<>>
  <2>. DEFINE claims(paths, given) == IF given # Absent THEN given
                                      ELSE IF f.destination \in paths THEN f.destination
                                      ELSE Absent
              internal == Given(claims(DataPaths, f.internal_destination), Inbox)
              usb == Given(claims(UsbPaths \cup {UsbRoot}, f.usb_destination), UsbInbox)
              targets == << [id |-> "internal", path |-> internal],
                            [id |-> "usb", path |-> usb] >>
  <2>1. internal \in DataPaths /\ usb \in UsbPaths \cup {UsbRoot}
    BY PathsAssumption DEF Loads, Given
  <2>2. internal \notin UnsafePaths \cup BarPaths /\ usb \notin UnsafePaths \cup BarPaths
    BY <2>1, PathsAssumption DEF NoBars
  <2>3. Loaded(f).targets = targets
    BY <1>2 DEF Loaded, LegacyTargets
  <2>. HIDE DEF internal, usb
  <2>4. Len(targets) = 2 /\ targets[1].path = internal /\ targets[2].path = usb
        /\ targets[1].id = "internal" /\ targets[2].id = "usb"
    OBVIOUS
  <2>. HIDE DEF targets
  <2>5. TargetsAllowed(targets)
    BY <2>2, <2>4, SettingsAssumption DEF TargetsAllowed
  <2>. QED
    BY <1>1, <2>3, <2>5 DEF Fits
<1>3. CASE f.storage_path # <<>>
  BY <1>1, <1>3 DEF Loads, Loaded, Fits
<1>. QED
  BY <1>2, <1>3

(* config_save_file writes what config_load_file accepts.                  *)
LEMMA FitsLoads ==
    ASSUME NEW c \in Config, Fits(c), c.destination \in PathsOf(c.targets)
    PROVE  Loads(Saved(c))
<1>1. c.destination \notin UnsafePaths
  BY DEF PathsOf, Fits, TargetsAllowed
<1>2. /\ Saved(c).storage_path = c.targets /\ Saved(c).destination = c.destination
      /\ Saved(c).port = c.port /\ Saved(c).malformed = FALSE
      /\ Saved(c).internal_destination = Absent /\ Saved(c).usb_destination = Absent
  BY DEF Saved, Empty
<1>. QED
  BY <1>1, <1>2 DEF Fits, Loads

(* What config_save_file is about to put in place.                         *)
LEMMA SavedContent ==
    ASSUME Inv, ConfigInv, save.pc # "none"
    PROVE  \E c \in Config :
              /\ save.content = Saved(c) /\ c.destination \in PathsOf(c.targets)
              /\ c.port = config.port /\ c.targets = config.targets /\ c.rest = config.rest
<1>1. CASE save.caller = "main"
  BY <1>1 DEF Inv, TypeOK, ProcInv, ConfigInv
<1>2. CASE save.caller # "main"
  <2>. DEFINE c == [config EXCEPT !.destination = sel.destination]
  <2>1. sel.pc = "saving" /\ sel.destination \in PathsOf(config.targets)
    BY <1>2 DEF Inv, TypeOK, Save, SelInv
  <2>2. c \in Config /\ c.destination = sel.destination /\ c.port = config.port
        /\ c.targets = config.targets /\ c.rest = config.rest
    BY <2>1, PathsOfType DEF Inv, TypeOK, Config
  <2>3. save.content = Saved(c)
    BY <2>1 DEF Inv, SelInv
  <2>. HIDE DEF c
  <2>. QED
    BY <2>1, <2>2, <2>3
<1>. QED
  BY <1>1, <1>2

(* LoadInv is kept, if --port and the older lines allow it.                *)
LEMMA LoadStep ==
    ASSUME OverridesAllowed, NoBars
    PROVE  Inv /\ ConfigInv /\ LoadInv /\ [Next]_vars => LoadInv'
<1>. SUFFICES ASSUME Inv, ConfigInv, LoadInv, [Next]_vars PROVE LoadInv'
  OBVIOUS
<1>1. CASE Launch
  BY <1>1 DEF Launch, diskVars, historyVars, LoadInv, SavedLoads
<1>2. CASE LoadOk
  BY <1>2, LoadedFits DEF LoadOk, diskVars, historyVars, Inv, TypeOK, LoadInv,
                          SavedLoads
<1>3. CASE LoadMissing
  BY <1>3, DefaultsFit DEF LoadMissing, diskVars, historyVars, LoadInv, SavedLoads
<1>4. CASE RouterInit
  <2>1. config'.port = Given(override, config.port) /\ config'.targets = config.targets
    BY <1>4 DEF RouterInit, Inv, TypeOK, Config
  <2>2. PortAllowed(config'.port)
    BY <2>1 DEF Given, ConfigInv, OverridesAllowed, LoadInv, Fits
  <2>. QED
    BY <1>4, <2>1, <2>2 DEF RouterInit, historyVars, LoadInv, Fits, SavedLoads
<1>5. CASE RouterSetPort
  <2>1. /\ config'.port = EphemeralPort \/ config'.port = config.port
        /\ config'.targets = config.targets
    BY <1>5 DEF RouterSetPort, Inv, TypeOK, Config
  <2>. QED
    BY <1>5, <2>1, PortsFit DEF RouterSetPort, diskVars, historyVars, LoadInv, Fits,
                                SavedLoads
<1>6. CASE SaveRename
  <2>1. PICK c \in Config :
            /\ save.content = Saved(c) /\ c.destination \in PathsOf(c.targets)
            /\ c.port = config.port /\ c.targets = config.targets
    BY <1>6, SavedContent DEF SaveRename
  <2>2. Loads(Saved(c)) /\ Saved(c) # Absent
    BY <2>1, FitsLoads, SavedType, SettingsAssumption DEF LoadInv, Fits
  <2>. QED
    BY <1>6, <2>1, <2>2 DEF SaveRename, LoadInv, SavedLoads
<1>7. CASE SelectCommit
  <2>1. config'.port = config.port /\ config'.targets = config.targets
    BY <1>7 DEF SelectCommit, Inv, TypeOK, Config
  <2>. QED
    BY <1>7, <2>1 DEF SelectCommit, diskVars, LoadInv, Fits, SavedLoads
<1>8. CASE EditConfig
  BY <1>8 DEF EditConfig, procVars, LoadInv, SavedLoads
<1>9. CASE Exit /\ UNCHANGED <<file, author>>
  BY <1>9, DefaultsFit DEF Exit, LoadInv, SavedLoads
<1>10. CASE Quiet
  BY <1>10 DEF Quiet, LoadInv, SavedLoads
<1>. QED
  BY <1>1, <1>2, <1>3, <1>4, <1>5, <1>6, <1>7, <1>8, <1>9, <1>10, ConfigSteps

(* The receiver never writes a configuration it cannot start with, if      *)
(* --port is in the range of the port line and no older destination line   *)
(* holds the separator of storage_path lines.  Both are needed: the parser *)
(* checks neither.                                                         *)
THEOREM SavedFilesLoad ==
    ASSUME OverridesAllowed, NoBars
    PROVE  Spec => []SavedLoads
<1>1. Init => LoadInv
  BY DefaultsFit DEF Init, LoadInv, SavedLoads
<1>2. Inv /\ ConfigInv /\ LoadInv /\ [Next]_vars => LoadInv'
  BY LoadStep
<1>3. LoadInv => SavedLoads
  BY DEF LoadInv
<1>. QED
  BY <1>1, <1>2, <1>3, Safety, DestinationIsTarget, PTL DEF Spec
-----------------------------------------------------------------------------
(* The file agrees with the configuration in memory in all a selection     *)
(* does not change.                                                        *)
SameInv ==
    /\ PortAllowed(config.port)
    /\ proc \notin {"down", "load"} /\ file # Absent =>
          /\ Loaded(file).port = config.port
          /\ Loaded(file).targets = config.targets
          /\ Loaded(file).rest = config.rest

(* Zero may not stand in a port line.                                      *)
LEMMA ZeroNotAllowed == ~PortAllowed(0)
BY SMT DEF PortAllowed

(* A file that loads has an allowed port.                                  *)
LEMMA LoadedPort ==
    ASSUME NEW f \in File, Loads(f)
    PROVE  PortAllowed(Loaded(f).port)
BY PortsFit DEF Loads, Loaded, Given

(* SameInv is kept without --port.                                         *)
LEMMA SameStep ==
    ASSUME Overrides \subseteq {Absent}
    PROVE  Inv /\ ConfigInv /\ SameInv /\ [Next]_vars => SameInv'
<1>. SUFFICES ASSUME Inv, ConfigInv, SameInv, [Next]_vars PROVE SameInv'
  OBVIOUS
<1>0. PortAllowed(config_set_defaults.port)
  BY PortsFit DEF config_set_defaults
<1>1. CASE Launch
  BY <1>1 DEF Launch, diskVars, SameInv
<1>2. CASE LoadOk
  BY <1>2, LoadedPort DEF LoadOk, diskVars, Inv, TypeOK, SameInv
<1>3. CASE LoadMissing
  BY <1>3, <1>0 DEF LoadMissing, diskVars, SameInv
<1>4. CASE RouterInit
  <2>1. config' = config
    BY <1>4 DEF RouterInit, Given, Inv, TypeOK, Config, ConfigInv
  <2>. QED
    BY <1>4, <2>1 DEF RouterInit, SameInv
<1>5. CASE RouterSetPort
  <2>1. config' = config
    BY <1>5, ZeroNotAllowed DEF RouterSetPort, Inv, TypeOK, Config, SameInv
  <2>. QED
    BY <1>5, <2>1 DEF RouterSetPort, diskVars, SameInv
<1>6. CASE SaveRename
  <2>1. PICK c \in Config :
            /\ save.content = Saved(c) /\ c.destination \in PathsOf(c.targets)
            /\ c.port = config.port /\ c.targets = config.targets /\ c.rest = config.rest
    BY <1>6, SavedContent DEF SaveRename
  <2>2. Loaded(file') = c
    BY <1>6, <2>1, RoundTrip DEF SaveRename
  <2>. QED
    BY <1>6, <2>1, <2>2 DEF SaveRename, SameInv
<1>7. CASE SelectCommit
  <2>1. config'.port = config.port /\ config'.targets = config.targets
        /\ config'.rest = config.rest
    BY <1>7 DEF SelectCommit, Inv, TypeOK, Config
  <2>. QED
    BY <1>7, <2>1 DEF SelectCommit, diskVars, SameInv
<1>8. CASE EditConfig
  BY <1>8 DEF EditConfig, procVars, SameInv
<1>9. CASE Exit /\ UNCHANGED <<file, author>>
  BY <1>9, <1>0 DEF Exit, SameInv
<1>10. CASE Quiet
  BY <1>10 DEF Quiet, SameInv
<1>. QED
  BY <1>1, <1>2, <1>3, <1>4, <1>5, <1>6, <1>7, <1>8, <1>9, <1>10, ConfigSteps

(* Only SaveRename writes the file on behalf of a selection.               *)
LEMMA SelectionWrites ==
    ASSUME Inv, ConfigInv, SameInv, [Next]_vars,
           save.caller = "select", file' # file, file # Absent
    PROVE  /\ Loaded(file').port = Loaded(file).port
           /\ Loaded(file').targets = Loaded(file).targets
           /\ Loaded(file').rest = Loaded(file).rest
<1>1. SaveRename \/ EditConfig
  BY ConfigSteps DEF Launch, LoadOk, LoadMissing, RouterInit, RouterSetPort,
                     SelectCommit,
                     Quiet, diskVars
<1>2. CASE EditConfig
  BY <1>2 DEF EditConfig, Inv, SelInv, ProcInv, ServingAt
<1>3. CASE SaveRename
  <2>1. PICK c \in Config :
            /\ save.content = Saved(c) /\ c.destination \in PathsOf(c.targets)
            /\ c.port = config.port /\ c.targets = config.targets /\ c.rest = config.rest
    BY <1>3, SavedContent DEF SaveRename
  <2>2. Loaded(file') = c
    BY <1>3, <2>1, RoundTrip DEF SaveRename
  <2>3. proc \notin {"down", "load"}
    BY <1>3 DEF SaveRename, Inv, SelInv, ProcInv, ServingAt
  <2>. QED
    BY <2>1, <2>2, <2>3 DEF SameInv
<1>. QED
  BY <1>1, <1>2, <1>3

(* Without --port, a selection changes the destination line of config.ini  *)
(* and nothing else (dispatch_storage, config_save_file, config_load_file).*)
THEOREM OnlyDestination ==
    ASSUME Overrides \subseteq {Absent}
    PROVE  Spec => UpdatesOnlyDestination
<1>1. Init => SameInv
  BY PortsFit DEF Init, SameInv, config_set_defaults
<1>2. Inv /\ ConfigInv /\ SameInv /\ [Next]_vars => SameInv'
  BY SameStep
<1>3. Inv /\ ConfigInv /\ SameInv /\ [Next]_vars =>
        [ save.caller = "select" /\ file' # file /\ file # Absent =>
            /\ Loaded(file').port = Loaded(file).port
            /\ Loaded(file').targets = Loaded(file).targets
            /\ Loaded(file').rest = Loaded(file).rest ]_vars
  BY SelectionWrites
<1>. QED
  BY <1>1, <1>2, <1>3, Safety, DestinationIsTarget, PTL DEF Spec, UpdatesOnlyDestination
=============================================================================
