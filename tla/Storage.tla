------------------------------ MODULE Storage -------------------------------
(***************************************************************************)
(* Where received files go: config.ini (src/config.c), the start and stop  *)
(* of the receiver (src/main.c, server_start and server_stop of            *)
(* src/server.c, router_init of src/router.c), the selection of a storage  *)
(* target (dispatch_storage) and the part of the upload manager that a     *)
(* destination concerns (upload_manager_create, _set_destination and       *)
(* cleanup_stale_parts of src/upload.c).                                   *)
(*                                                                         *)
(* The process may be killed between any two steps; the files stay.        *)
(* Selections and preparations hold the router's mutex throughout, so one  *)
(* of them runs at a time; everything else may happen between their steps. *)
(*                                                                         *)
(* The manager takes its destination from the configuration, as the PS5    *)
(* build does; the host build, where PS5LOCALSEND_UPLOAD_DIR or the data   *)
(* directory decide, never looks at the one of the configuration.          *)
(*                                                                         *)
(* Data: a path is a model value, and what the code asks of its characters *)
(* is membership in a set; a configuration file is the record of its       *)
(* lines; all settings that only travel are one value, `rest'.             *)
(***************************************************************************)
EXTENDS Integers, Sequences

CONSTANTS
    Paths,         \* absolute paths of directories
    Inbox,         \* /data/ps5localsend/inbox
    UsbInbox,      \* /mnt/usb0/ps5localsend/inbox
    UsbRoot,       \* /mnt/usb0
    UnsafePaths,   \* paths destination_syntax_is_safe refuses
    BarPaths,      \* paths with the separator of storage_path lines in them
    DataPaths,     \* safe children of /data
    UsbPaths,      \* safe children of /mnt/usb0
    MountPaths,    \* paths below the mount point of a removable drive
    TargetIds,     \* identifiers of storage targets
    MaxTargets,    \* CONFIG_STORAGE_TARGETS_MAX
    Rests,         \* values of the other settings
    DefaultRest,   \* and what config_set_defaults gives them
    NoUpload,      \* no upload occupies the manager
    Absent,        \* a key without a line, no --port, no configuration file
    HandFiles,     \* files a user may write while the receiver is stopped
    Overrides,     \* --port arguments: a Port, or Absent
    Ids,           \* identifiers of uploads; bounds the part files at a time
    Faults         \* "disk": a file operation fails, "kill": the process dies

Port == 0..65535
DefaultPort   == 53317
EphemeralPort == 49152   \* what the system hands out for port 0

Target == [id : TargetIds, path : Paths]
File == [malformed : BOOLEAN, port : Port \cup {Absent},
         destination : Paths \cup {Absent}, internal_destination : Paths \cup {Absent},
         usb_destination : Paths \cup {Absent}, storage_path : Seq(Target),
         rest : Rests \cup {Absent}]
PartFile == [id : Ids, path : Paths,
             old : BOOLEAN,    \* not written to for a day
             left : BOOLEAN]   \* history: its upload could not remove it
Config == [port : Port, destination : Paths, targets : Seq(Target), rest : Rests]
Manager == [alive : BOOLEAN, destination : Paths \cup {Absent},
            open : Ids \cup {NoUpload}, stale : BOOLEAN]
Save == [pc : {"none", "open", "write", "rename"}, content : File,
         caller : {"main", "select"}]
Selection == [pc : {"idle", "saving", "commit", "rollback"},
              destination : Paths \cup {Absent}, previous : Paths \cup {Absent},
              before : SUBSET Paths]

ASSUME PathsAssumption ==
    /\ {Inbox, UsbInbox, UsbRoot} \subseteq Paths
    /\ Inbox \in DataPaths /\ UsbInbox \in UsbPaths
    /\ DataPaths \subseteq Paths /\ UsbPaths \subseteq Paths
    /\ UnsafePaths \subseteq Paths /\ BarPaths \subseteq Paths
    /\ (DataPaths \cup UsbPaths \cup {UsbRoot}) \cap UnsafePaths = {}
    /\ {Inbox, UsbInbox} \cap BarPaths = {}
    /\ Absent \notin Paths
ASSUME SettingsAssumption ==
    /\ {"internal", "usb"} \subseteq TargetIds
    /\ MaxTargets \in Nat /\ MaxTargets >= 2
    /\ DefaultRest \in Rests /\ Absent \notin Rests /\ Absent \notin Port
    /\ HandFiles \subseteq File /\ Absent \notin File
    /\ Overrides \subseteq Port \cup {Absent}
    /\ NoUpload \notin Ids /\ Faults \subseteq {"disk", "kill"}
-----------------------------------------------------------------------------
(* Reading and writing config.ini.                                         *)

PortAllowed(p) == p \in 1024..65535

(* add_storage_target, on every storage_path line.                         *)
(* Mutant: the table is taken for full one entry too early.                *)
TargetsAllowedButLast(s) ==
    /\ Len(s) < MaxTargets
    /\ \A i \in 1..Len(s) : s[i].path \notin UnsafePaths \cup BarPaths
    /\ \A i, j \in 1..Len(s) : s[i].id = s[j].id => i = j
TargetsAllowed(s) ==
    /\ Len(s) <= MaxTargets
    /\ \A i \in 1..Len(s) : s[i].path \notin UnsafePaths \cup BarPaths
    /\ \A i, j \in 1..Len(s) : s[i].id = s[j].id => i = j

(* config_load_file returns CONFIG_LOAD_OK.  An unknown or repeated key, a *)
(* line without value, UTF-16, or another setting out of its range makes   *)
(* the file malformed.                                                     *)
Loads(f) ==
    /\ ~f.malformed
    /\ f.port = Absent \/ PortAllowed(f.port)
    /\ f.destination \notin UnsafePaths
    /\ f.internal_destination \in DataPaths \cup {Absent}
    /\ f.usb_destination \in UsbPaths \cup {Absent}
    /\ TargetsAllowed(f.storage_path)

(* Mutant: the default is not set first.                                   *)
GivenOnly(value, default) == value
Given(value, default) == IF value = Absent THEN default ELSE value

(* A file without storage_path lines gets two targets, and its destination *)
(* becomes the path of one of them.                                        *)
LegacyTargets(f) ==
    LET claims(paths, given) == IF given # Absent THEN given
                                ELSE IF f.destination \in paths THEN f.destination
                                ELSE Absent
        internal == claims(DataPaths, f.internal_destination)
        usb == claims(UsbPaths \cup {UsbRoot}, f.usb_destination)
    IN  << [id |-> "internal", path |-> Given(internal, Inbox)],
           [id |-> "usb", path |-> Given(usb, UsbInbox)] >>

PathsOf(targets) == {targets[i].path : i \in 1..Len(targets)}

(* What config_load_file yields when it returns CONFIG_LOAD_OK.            *)
Loaded(f) ==
    LET targets == IF f.storage_path = <<>> THEN LegacyTargets(f) ELSE f.storage_path
        wanted  == Given(f.destination, Inbox)
    IN  [port |-> Given(f.port, DefaultPort),
         destination |-> IF wanted \in PathsOf(targets) THEN wanted ELSE targets[1].path,
         targets |-> targets,
         rest |-> Given(f.rest, DefaultRest)]

Empty == [malformed |-> FALSE, port |-> Absent, destination |-> Absent,
          internal_destination |-> Absent, usb_destination |-> Absent,
          storage_path |-> <<>>, rest |-> Absent]
config_set_defaults ==
    [port |-> DefaultPort, destination |-> Inbox,
     targets |-> << [id |-> "internal", path |-> Inbox], [id |-> "usb", path |-> UsbInbox] >>,
     rest |-> DefaultRest]

(* The lines config_save_file writes.                                      *)
Saved(c) == [Empty EXCEPT !.port = c.port, !.destination = c.destination,
                          !.storage_path = c.targets, !.rest = c.rest]
-----------------------------------------------------------------------------
VARIABLES
    file,       \* config.ini, or Absent
    temp,       \* config.ini.tmp exists
    mounted,    \* the removable drive is in place
    parts,      \* part files: see PartFile
    proc,       \* where main is
    override,   \* its --port argument
    config,     \* the configuration of main, then of the router
    listening,  \* the servers that accept requests: "http", "fast"
    manager,    \* the upload manager
    save,       \* config_save_file
    sel,        \* dispatch_storage
    \* history, read by properties only:
    author,     \* who wrote config.ini last: "user" or "receiver"
    promised,   \* destinations the last answers to selections allow
    lost        \* the directory a rollback went back to was not there

diskVars == <<file, temp, mounted, parts>>
procVars == <<proc, override, config, listening, manager, save, sel>>
historyVars == <<author, promised, lost>>
vars == <<diskVars, procVars, historyVars>>

NoManager == [alive |-> FALSE, destination |-> Absent, open |-> NoUpload, stale |-> FALSE]
NoSave    == [pc |-> "none", content |-> Empty, caller |-> "main"]
NoSel     == [pc |-> "idle", destination |-> Absent, previous |-> Absent, before |-> {}]

Init ==
    /\ file \in HandFiles \cup {Absent} /\ temp = FALSE
    /\ mounted \in BOOLEAN
    /\ parts = {}
    /\ proc = "down" /\ override = Absent /\ config = config_set_defaults
    /\ listening = {} /\ manager = NoManager /\ save = NoSave /\ sel = NoSel
    /\ author = "user" /\ promised = Paths /\ lost = FALSE
-----------------------------------------------------------------------------
(* Directories and part files.                                             *)

(* A path below /mnt needs its mount point.                                *)
Reachable(path) == path \in MountPaths => mounted
(* ensure_destination_directory succeeds, or fails.                        *)
CanFail == "disk" \in Faults

(* cleanup_stale_parts(path).                                              *)
Swept(path) == {p \in parts : ~(p.path = path /\ p.old)}

(* clear_slot with remove_part: unlink, which fails without the drive.     *)
OpenPart == {p \in parts : p.id = manager.open}
LeftAlone == {[p EXCEPT !.left = TRUE] : p \in OpenPart}
(* Mutant: the part file is forgotten.                                     *)
UnlinkedNone == parts
Unlinked == (parts \ OpenPart) \cup {p \in LeftAlone : ~Reachable(p.path)}

(* reap_locked at the start of a call: an upload whose lease has run out   *)
(* is cleared, unless it is being hashed or written at this moment.        *)
Reaped(reaps) ==
    IF reaps THEN [upload |-> NoUpload, parts |-> Unlinked]
             ELSE [upload |-> manager.open, parts |-> parts]
MayReap == {FALSE} \cup {b \in {TRUE} : manager.open # NoUpload /\ manager.stale}
-----------------------------------------------------------------------------
(* main: load_configuration, then server_start.                            *)

(* The process ends, and its memory with it.                               *)
Exit ==
    /\ proc' = "down" /\ override' = Absent /\ config' = config_set_defaults
    /\ listening' = {} /\ manager' = NoManager /\ save' = NoSave /\ sel' = NoSel
    /\ lost' = FALSE

Launch ==
    /\ proc = "down"
    /\ override' \in Overrides
    /\ proc' = "load"
    /\ UNCHANGED <<diskVars, config, listening, manager, save, sel, historyVars>>

LoadOk ==
    /\ proc = "load" /\ file # Absent /\ Loads(file)
    /\ config' = Loaded(file)
    /\ proc' = "init"
    /\ UNCHANGED <<diskVars, override, listening, manager, save, sel, historyVars>>

LoadFails ==
    /\ proc = "load"
    /\ \/ file # Absent /\ ~Loads(file)
       \/ CanFail
    /\ Exit
    /\ UNCHANGED <<diskVars, author, promised>>

(* The file is missing: the defaults are saved.                            *)
LoadMissing ==
    /\ proc = "load" /\ file = Absent
    /\ config' = config_set_defaults
    /\ save' = [pc |-> "open", content |-> Saved(config_set_defaults), caller |-> "main"]
    /\ proc' = "saving"
    /\ UNCHANGED <<diskVars, override, listening, manager, sel, historyVars>>

(* router_init: the upload manager needs the destination directory.        *)
RouterInit ==
    /\ proc = "init" /\ Reachable(config.destination)
    /\ config' = [config EXCEPT !.port = Given(override, @)]
    /\ manager' = [NoManager EXCEPT !.alive = TRUE, !.destination = config.destination]
    /\ parts' = Swept(config.destination)
    /\ proc' = "bind"
    /\ UNCHANGED <<file, temp, mounted, override, listening, save, sel, historyVars>>

RouterInitFails ==
    /\ proc = "init"
    /\ ~Reachable(config.destination) \/ CanFail
    /\ Exit
    /\ UNCHANGED <<diskVars, author, promised>>

(* MHD_start_daemon: from here on requests arrive.                         *)
Bind ==
    /\ proc = "bind"
    /\ listening' = {"http"}
    /\ proc' = "port"
    /\ UNCHANGED <<diskVars, override, config, manager, save, sel, historyVars>>

BindFails ==
    /\ proc = "bind"
    /\ proc' = "destroy"
    /\ UNCHANGED <<diskVars, override, config, listening, manager, save, sel, historyVars>>

(* router_set_port takes the router's mutex.                               *)
RouterSetPort ==
    /\ proc = "port" /\ sel.pc = "idle"
    /\ config' = [config EXCEPT !.port = IF @ = 0 THEN EphemeralPort ELSE @]
    /\ proc' = "fast"
    /\ UNCHANGED <<diskVars, override, listening, manager, save, sel, historyVars>>

(* The port that was bound cannot be found out.                            *)
PortUnknown ==
    /\ proc = "port" /\ CanFail
    /\ proc' = "stop_http"
    /\ UNCHANGED <<diskVars, override, config, listening, manager, save, sel, historyVars>>

(* fast_upload_server_start, on the next port or on a free one.            *)
FastStart ==
    /\ proc = "fast"
    /\ listening' = listening \cup {"fast"}
    /\ proc' = "up"
    /\ UNCHANGED <<diskVars, override, config, manager, save, sel, historyVars>>

FastStartFails ==
    /\ proc = "fast"
    /\ proc' = "stop_http"
    /\ UNCHANGED <<diskVars, override, config, listening, manager, save, sel, historyVars>>
-----------------------------------------------------------------------------
(* server_stop after a signal or with --once.                              *)

StopFast ==
    /\ proc = "up"
    /\ listening' = listening \ {"fast"}
    /\ proc' = "stop_http"
    /\ UNCHANGED <<diskVars, override, config, manager, save, sel, historyVars>>

(* MHD_stop_daemon joins the request threads.                              *)
(* Mutant: it does not.                                                    *)
StopHttpAtOnce ==
    /\ proc = "stop_http"
    /\ listening' = {}
    /\ proc' = "destroy"
    /\ UNCHANGED <<diskVars, override, config, manager, save, sel, historyVars>>
StopHttp ==
    /\ proc = "stop_http" /\ sel.pc = "idle"
    /\ listening' = {}
    /\ proc' = "destroy"
    /\ UNCHANGED <<diskVars, override, config, manager, save, sel, historyVars>>

(* router_destroy and upload_manager_destroy.                              *)
Destroy ==
    /\ proc = "destroy"
    /\ parts' = Unlinked
    /\ manager' = NoManager
    /\ proc' = "exit"
    /\ UNCHANGED <<file, temp, mounted, override, config, listening, save, sel, historyVars>>

Returns ==
    /\ proc = "exit"
    /\ Exit
    /\ UNCHANGED <<diskVars, author, promised>>
-----------------------------------------------------------------------------
(* config_save_file.                                                       *)

(* Back in dispatch_storage, or in load_configuration, which goes on       *)
(* whether the save succeeded or not.                                      *)
SaveReturns(ok) ==
    /\ save' = NoSave
    /\ IF save.caller = "main"
       THEN proc' = "init" /\ UNCHANGED sel
       ELSE /\ sel' = [sel EXCEPT !.pc = IF ok THEN "commit" ELSE "rollback"]
            /\ UNCHANGED proc

SaveOpen ==
    /\ save.pc = "open"
    /\ temp' = TRUE
    /\ save' = [save EXCEPT !.pc = "write"]
    /\ UNCHANGED <<file, mounted, parts, proc, override, config, listening,
                   manager, sel, historyVars>>

SaveWrite ==
    /\ save.pc = "write"
    /\ save' = [save EXCEPT !.pc = "rename"]
    /\ UNCHANGED <<diskVars, proc, override, config, listening,
                   manager, sel, historyVars>>

SaveRename ==
    /\ save.pc = "rename"
    /\ file' = save.content /\ author' = "receiver"
    /\ temp' = FALSE
    /\ SaveReturns(TRUE)
    /\ UNCHANGED <<mounted, parts, override, config, listening, manager,
                   promised, lost>>

(* The temporary file cannot be opened, written or renamed.                *)
(* Mutant: the return value of fopen and fprintf is all that is looked at. *)
SaveFailsSilently ==
    /\ save.pc # "none" /\ CanFail
    /\ temp' = (temp /\ save.pc = "open")
    /\ SaveReturns(save.pc = "rename")
    /\ UNCHANGED <<file, mounted, parts, override, config, listening, manager,
                   historyVars>>
SaveFails ==
    /\ save.pc # "none" /\ CanFail
    /\ temp' = (temp /\ save.pc = "open")
    /\ SaveReturns(FALSE)
    /\ UNCHANGED <<file, mounted, parts, override, config, listening, manager,
                   historyVars>>
-----------------------------------------------------------------------------
(* dispatch_storage.  Requests run from the moment the daemon listens      *)
(* until its threads are joined.                                           *)
Serving == "http" \in listening

(* Mutant: an open upload does not block the switch.                       *)
SwitchableAnyhow(path, upload) == Reachable(path)
(* upload_manager_set_destination(path) succeeds.                          *)
Switchable(path, upload) == upload = NoUpload /\ Reachable(path)

Select ==
    /\ Serving /\ sel.pc = "idle"
    /\ \E path \in PathsOf(config.targets), reaps \in MayReap :
          LET after == Reaped(reaps)
          IN  /\ Switchable(path, after.upload)
              /\ manager' = [manager EXCEPT !.destination = path, !.open = after.upload,
                                            !.stale = @ /\ ~reaps]
              /\ parts' = IF path = manager.destination THEN after.parts
                          ELSE after.parts \cap Swept(path)
              /\ sel' = [pc |-> "saving", destination |-> path,
                         previous |-> config.destination, before |-> promised]
              /\ save' = [pc |-> "open", caller |-> "select",
                          content |-> Saved([config EXCEPT !.destination = path])]
              /\ promised' = promised \cup {path}
    /\ UNCHANGED <<file, temp, mounted, proc, override, config, listening,
                   author, lost>>

(* UPLOAD_BUSY, or the directory is not there.                             *)
SelectRefused ==
    /\ Serving /\ sel.pc = "idle"
    /\ \E path \in PathsOf(config.targets), reaps \in MayReap :
          LET after == Reaped(reaps)
          IN  /\ ~Switchable(path, after.upload) \/ CanFail
              /\ manager' = [manager EXCEPT !.open = after.upload, !.stale = @ /\ ~reaps]
              /\ parts' = after.parts
    /\ UNCHANGED <<file, temp, mounted, proc, override, config, listening,
                   save, sel, author, promised, lost>>

(* router->config = next_config, and the answer 200.                       *)
SelectCommit ==
    /\ sel.pc = "commit"
    /\ config' = [config EXCEPT !.destination = sel.destination]
    /\ promised' = {sel.destination}
    /\ lost' = FALSE
    /\ sel' = NoSel
    /\ UNCHANGED <<diskVars, proc, override, listening, manager, save, author>>

(* Mutant: the manager keeps the new destination.                          *)
RollbackForgotten ==
    /\ sel.pc = "rollback"
    /\ promised' = sel.before /\ lost' = FALSE
    /\ sel' = NoSel
    /\ UNCHANGED <<diskVars, proc, override, config, listening, manager, save,
                   author>>
(* The save failed: set_destination(previous), and the answer 500.         *)
Rollback ==
    /\ sel.pc = "rollback" /\ Switchable(sel.previous, manager.open)
    /\ manager' = [manager EXCEPT !.destination = sel.previous]
    /\ parts' = IF sel.previous = manager.destination THEN parts ELSE Swept(sel.previous)
    /\ promised' = sel.before /\ lost' = FALSE
    /\ sel' = NoSel
    /\ UNCHANGED <<file, temp, mounted, proc, override, config, listening, save,
                   author>>

(* The result of the rollback is ignored.                                  *)
RollbackFails ==
    /\ sel.pc = "rollback"
    /\ ~Switchable(sel.previous, manager.open) \/ CanFail
    /\ promised' = sel.before /\ lost' = (manager.open = NoUpload)
    /\ sel' = NoSel
    /\ UNCHANGED <<diskVars, proc, override, config, listening, manager, save,
                   author>>
-----------------------------------------------------------------------------
(* Uploads, as far as a destination sees them.                             *)

(* upload_prepare, under the router's mutex.                               *)
(* Mutant: without it.                                                     *)
PrepareUnlocked == Serving
PrepareAllowed == Serving /\ sel.pc = "idle"

Prepare ==
    /\ PrepareAllowed /\ Reachable(manager.destination)
    /\ \E reaps \in MayReap, id \in Ids :
          LET after == Reaped(reaps)
          IN  /\ after.upload = NoUpload
              /\ \A p \in after.parts : p.id # id
              /\ parts' = after.parts \cup {[id |-> id, path |-> manager.destination,
                                             old |-> FALSE, left |-> FALSE]}
              /\ manager' = [manager EXCEPT !.open = id, !.stale = FALSE]
    /\ UNCHANGED <<file, temp, mounted, proc, override, config, listening, save, sel,
                   author, promised, lost>>

(* It is published, cancelled or fails: its part file is gone.             *)
UploadEnds ==
    /\ listening # {} /\ manager.open # NoUpload
    /\ parts' = Unlinked
    /\ manager' = [manager EXCEPT !.open = NoUpload, !.stale = FALSE]
    /\ UNCHANGED <<file, temp, mounted, proc, override, config, listening,
                   save, sel, author, promised, lost>>
-----------------------------------------------------------------------------
(* The environment.                                                        *)

(* lease_seconds pass without a call for the upload.                       *)
LeaseExpires ==
    /\ manager.open # NoUpload /\ ~manager.stale
    /\ manager' = [manager EXCEPT !.stale = TRUE]
    /\ UNCHANGED <<diskVars, proc, override, config, listening, save, sel, historyVars>>

(* A day passes without a write to a part file.                            *)
Ages ==
    /\ \E p \in parts : /\ ~p.old
                        /\ parts' = (parts \ {p}) \cup {[p EXCEPT !.old = TRUE]}
    /\ UNCHANGED <<file, temp, mounted, procVars, historyVars>>

PlugOrUnplug ==
    /\ mounted' = ~mounted
    /\ UNCHANGED <<file, temp, parts, procVars, historyVars>>

(* "Edit config.ini while the receiver is stopped."                        *)
EditConfig ==
    /\ proc = "down"
    /\ file' \in HandFiles \cup {Absent}
    /\ author' = "user" /\ promised' = Paths
    /\ UNCHANGED <<temp, mounted, parts, procVars, lost>>

(* The process is killed.                                                  *)
Kill ==
    /\ proc # "down" /\ "kill" \in Faults
    /\ parts' = (parts \ OpenPart) \cup LeftAlone
    /\ Exit
    /\ UNCHANGED <<file, temp, mounted, author, promised>>
-----------------------------------------------------------------------------
MainStep == \/ LoadOk \/ LoadFails \/ LoadMissing \/ RouterInit \/ RouterInitFails
            \/ Bind \/ BindFails \/ RouterSetPort \/ PortUnknown \/ FastStart
            \/ FastStartFails \/ StopHttp \/ Destroy \/ Returns
SaveStep == SaveOpen \/ SaveWrite \/ SaveRename \/ SaveFails
SelectStep == SelectCommit \/ Rollback \/ RollbackFails

Next == \/ MainStep \/ SaveStep \/ SelectStep
        \/ Launch \/ StopFast
        \/ Select \/ SelectRefused \/ Prepare \/ UploadEnds
        \/ LeaseExpires \/ Ages \/ PlugOrUnplug \/ EditConfig \/ Kill

Spec == Init /\ [][Next]_vars
-----------------------------------------------------------------------------
(* Properties.                                                             *)

(* Every file, record and program counter has its type.                    *)
TypeOK ==
    /\ file \in File \cup {Absent} /\ temp \in BOOLEAN
    /\ mounted \in BOOLEAN
    /\ parts \subseteq PartFile
    /\ proc \in {"down", "load", "saving", "init", "bind", "port", "fast", "up",
                 "stop_http", "destroy", "exit"}
    /\ override \in Port \cup {Absent} /\ config \in Config
    /\ listening \subseteq {"http", "fast"}
    /\ manager \in Manager /\ save \in Save /\ sel \in Selection
    /\ author \in {"user", "receiver"} /\ promised \subseteq Paths
    /\ lost \in BOOLEAN

(* What config_save_file wrote, config_load_file accepts: the receiver     *)
(* never writes a file that keeps it from starting again.                  *)
SavedLoads == author = "receiver" => file # Absent /\ Loads(file)

(* A selection changes the destination in config.ini and nothing else that *)
(* a later start would see (dispatch_storage saves the whole               *)
(* configuration, port and targets included).                              *)
UpdatesOnlyDestination ==
    [][ save.caller = "select" /\ file' # file /\ file # Absent =>
            /\ Loaded(file').port = Loaded(file).port
            /\ Loaded(file').targets = Loaded(file).targets
            /\ Loaded(file').rest = Loaded(file).rest ]_vars

(* A selection that was answered 200 is what a restart uses, one answered  *)
(* with an error is not; only one that got no answer may be either.        *)
(* Neither a kill between the steps nor a failed save changes that         *)
(* (dispatch_storage, config_save_file).                                   *)
AnswersDurable ==
    promised # Paths => file # Absent /\ Loaded(file).destination \in promised

(* Uploads go where /status says they go: at rest the manager's            *)
(* destination is the router's, except after a rollback that failed.       *)
StatusTellsDestination ==
    manager.alive /\ sel.pc = "idle" => \/ manager.destination = config.destination
                                        \/ lost

(* The part file of the open upload is in the manager's destination, and   *)
(* no sweep of stale part files takes it away (set_destination refuses to  *)
(* switch under an upload, and sweeps only after that).                    *)
OpenPartKept ==
    manager.open # NoUpload =>
        \E p \in parts : p.id = manager.open /\ p.path = manager.destination

(* Any other part file lost its upload to a kill, or could not be removed  *)
(* without its drive.                                                      *)
NoOtherParts == \A p \in parts : p.id = manager.open \/ p.left

(* Requests run only while the router exists: server_stop, and the ways in *)
(* which server_start gives up, end the daemon and its threads before they *)
(* destroy the router.                                                     *)
RequestsHaveRouter == listening # {} \/ sel.pc # "idle" => manager.alive
=============================================================================
