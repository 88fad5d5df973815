--------------------------- MODULE HomeLifecycle ---------------------------
(***************************************************************************)
(* deye.lifecycle on the files of DEYE_HOME: backup, restore, uninstall,   *)
(* portable import and export, setup, update.  Every file operation is a   *)
(* step: other commands, and other D-Eye processes that write and delete   *)
(* data files, come in between, and a command may die at any step.         *)
(* A command starts with Config.load(), which raises on a torn config.     *)
(***************************************************************************)
EXTENDS Naturals, Sequences, SequencesExt

CONSTANTS
    Commands,       \* processes that run lifecycle commands
    DataFiles,      \* sequence: the other files of the home, as sorted() has them
    Values,         \* values of a config key
    None, Default,  \* a missing key; the value setup writes
    Absent, Torn,   \* contents of a file that is missing, that is cut short
    MaxSeconds, MaxWrites, MaxCrashes, MaxCommands

CONFIG == "config.json"

ASSUME HomeAssumption ==
    /\ DataFiles \in Seq(ToSet(DataFiles)) /\ CONFIG \notin ToSet(DataFiles)
    /\ Default \in Values /\ None \notin Values /\ None \notin Commands
    /\ Absent # Torn
    /\ {MaxSeconds, MaxWrites, MaxCrashes, MaxCommands} \subseteq Nat

VARIABLES
    present,        \* DEYE_HOME exists
    disk,           \* disk[f]: content of file f of the home
    archive,        \* archive[d, s]: the .tar.gz of second s in directory d
    portable,       \* the config in the portable file, exported here or elsewhere
    installed,      \* the package is installed here
    now,            \* the second the clock shows
    cmd,            \* cmd[p]: the command process p runs, and where it is
    touched,        \* history: what others changed since p looked at it
    budget          \* what is left of the bounds

homeVars == <<present, disk, archive, portable, installed, now, cmd, touched, budget>>

Order == <<CONFIG>> \o DataFiles        \* "config.json" < "evidence.db"
Names == {CONFIG} \cup ToSet(DataFiles)
(* search_provider is a known key, note one of the user's own.             *)
Config == [search_provider : Values \cup {None}, note : Values \cup {None}]
Places == {"deye-backups", "deye-uninstall-backups"} \X (0..MaxSeconds)
NoKeys == [search_provider |-> None, note |-> None]
Nothing == [f \in Names |-> Absent]
Files(d) == {f \in Names : d[f] # Absent}
(* f is the first, in the order of the names, of the files left to do.     *)
IsNext(f, todo) ==
    \E i \in DOMAIN Order : /\ Order[i] = f /\ f \in todo
                           /\ \A j \in 1..(i - 1) : Order[j] \notin todo
Nowhere == <<"", 0>>

(* Where each command begins; uninstall_package is uninstall without       *)
(* --remove-home.                                                          *)
First == [backup |-> "open", uninstall |-> "open", uninstall_package |-> "pip",
          restore |-> "check", portable_import |-> "merge", portable_export |-> "export",
          setup |-> "create", apply_update |-> "update"]
Verbs == DOMAIN First

(* Contents of files, and of a home or an archive; a command.              *)
Settings == {Absent, Torn} \cup Config
Data == {Absent, Torn} \cup 1..(MaxWrites + 1)
Homes == {[f \in Names |-> IF f = CONFIG THEN c ELSE data[f]] :
             c \in Settings, data \in [ToSet(DataFiles) -> Data]}
Archive == [state : {"absent", "open", "closed", "torn"}, by : Commands \cup {None},
            files : Homes]
Stages == {"idle", "open", "add", "pip", "remove", "check", "extract", "fill",
           "merge", "create", "truncate", "write", "export", "update"}
Outcomes == {"", "backup", "raised", "uninstalled", "removed", "refused", "restored",
             "set up", "imported", "exported", "updated", "skipped", "died"}
Command == [at : Stages, verb : Verbs \cup {""}, todo : SUBSET Names, seen : Homes,
            place : Places \cup {Nowhere}, lost : Homes, buffer : Config \cup {Absent},
            report : Outcomes, raced : BOOLEAN]
Idle == [at |-> "idle", verb |-> "", todo |-> {}, seen |-> Nothing,
         place |-> Nowhere, lost |-> Nothing, buffer |-> Absent,
         report |-> "", raced |-> FALSE]

HomeInit ==
    /\ present \in BOOLEAN
    /\ disk = [f \in Names |->
                 IF ~ present THEN Absent
                 ELSE IF f = CONFIG THEN [search_provider |-> Default, note |-> Default] ELSE 1]
    /\ archive = [a \in Places |-> [state |-> "absent", by |-> None, files |-> Nothing]]
    /\ portable \in [search_provider : Values \ {Default}, note : Values \ {Default}]
    /\ installed = TRUE
    /\ now = 0
    /\ cmd = [p \in Commands |-> Idle]
    /\ touched = [p \in Commands |-> {}]
    /\ budget = [writes |-> MaxWrites, crashes |-> MaxCrashes, commands |-> MaxCommands]

At(p, l) == cmd[p].at = l
Continue(p, l) == cmd' = [cmd EXCEPT ![p].at = l]
(* The command is over: it returned `what`, or raised.                     *)
Report(p, what) ==
    cmd' = [cmd EXCEPT ![p].at = "idle", ![p].report = what,
                       ![p].todo = {}, ![p].buffer = Absent]
(* Every process but p sees f change under its hands.                      *)
Touches(p, f) ==
    touched' = [q \in Commands |-> IF q = p THEN touched[q] ELSE touched[q] \cup {f}]

(* main() and the head of each function: Config.load(), and ensure_home()  *)
(* in those of Creating.  Without a home uninstall() has nothing to back   *)
(* up, and an export finds no config.json.                                 *)
Creating == {"backup", "restore", "portable_import", "setup"}
Start(p, verb) ==
    /\ At(p, "idle") /\ budget.commands > 0 /\ installed
    /\ disk[CONFIG] # Torn
    /\ budget' = [budget EXCEPT !.commands = @ - 1]
    /\ cmd' = [cmd EXCEPT ![p] =
         [at |-> IF verb = "uninstall" /\ ~ present THEN "pip" ELSE First[verb],
          verb |-> verb, todo |-> {}, seen |-> Nothing, place |-> Nowhere, lost |-> Nothing,
          buffer |-> Absent, report |-> "", raced |-> FALSE]]
    /\ present' = (present \/ verb \in Creating)
    /\ touched' = [touched EXCEPT ![p] = {}]
    /\ UNCHANGED <<disk, archive, portable, installed, now>>

(***************************************************************************)
(* backup_home: the name is the second, tarfile.open("w:gz") truncates an  *)
(* archive of the same name, rglob() is listed before the first add.       *)
(***************************************************************************)
OpenArchive(p) ==
    /\ At(p, "open")
    /\ LET d == IF cmd[p].verb = "uninstall" THEN "deye-uninstall-backups" ELSE "deye-backups"
           a == <<d, now>>
       IN  /\ archive' = [archive EXCEPT ![a] = [state |-> "open", by |-> p, files |-> Nothing]]
           /\ cmd' = [q \in Commands |->
                IF q = p
                THEN [cmd[p] EXCEPT !.at = "add", !.place = a, !.todo = Files(disk), !.seen = disk,
                        !.raced = \E r \in Commands : At(r, "add") /\ cmd[r].place = a]
                ELSE [cmd[q] EXCEPT !.raced = @ \/ cmd[q].place = a]]
    /\ touched' = [touched EXCEPT ![p] = {}]
    /\ UNCHANGED <<present, disk, portable, installed, now, budget>>

Mine(p) == archive[cmd[p].place].by = p
Closes(p) ==
    archive' = [archive EXCEPT ![cmd[p].place].state =
                  IF Mine(p) /\ @ = "open" THEN "closed" ELSE "torn"]

(* tar.add, or is_file() is already false.  Two writers of one archive     *)
(* file leave it unreadable.                                               *)
AddFile(p) ==
    /\ At(p, "add")
    /\ \E f \in Names :
        /\ IsNext(f, cmd[p].todo)
        /\ archive' = IF disk[f] = Absent THEN archive
                      ELSE IF Mine(p) THEN [archive EXCEPT ![cmd[p].place].files[f] = disk[f]]
                      ELSE [archive EXCEPT ![cmd[p].place].state = "torn"]
        /\ cmd' = [cmd EXCEPT ![p].todo = @ \ {f}]
    /\ UNCHANGED <<present, disk, portable, installed, now, touched, budget>>

(* Faulty variant: the first error ends the loop and the backup counts.    *)
AddRaisesSwallowed(p) ==
    /\ At(p, "add")
    /\ \E f \in Names : IsNext(f, cmd[p].todo) /\ disk[f] = Absent
    /\ Closes(p)
    /\ Report(p, "backup")
    /\ UNCHANGED <<present, disk, portable, installed, now, touched, budget>>

(* The file went away between is_file() and add(): backup_home raises, and *)
(* leaves a short archive that is well formed.                             *)
AddRaises(p) ==
    /\ At(p, "add")
    /\ \E f \in Names : IsNext(f, cmd[p].todo) /\ disk[f] = Absent
    /\ Closes(p)
    /\ Report(p, "raised")
    /\ UNCHANGED <<present, disk, portable, installed, now, touched, budget>>

CloseArchive(p) ==
    /\ At(p, "add") /\ cmd[p].todo = {}
    /\ Closes(p)
    /\ IF cmd[p].verb = "uninstall" THEN Continue(p, "pip") ELSE Report(p, "backup")
    /\ UNCHANGED <<present, disk, portable, installed, now, touched, budget>>

(***************************************************************************)
(* uninstall: pip runs for a while, and fails or acts on the interpreter   *)
(* given as python=, then rmtree scans the home, unlinks what it found and *)
(* removes the directory.                                                  *)
(***************************************************************************)
(* Faulty variant: the home goes before the backup is known to be there.   *)
PipUninstallUnchecked(p) ==
    /\ At(p, "pip")
    /\ installed' = FALSE
    /\ IF present /\ cmd[p].verb = "uninstall"
       THEN cmd' = [cmd EXCEPT ![p].at = "remove", ![p].todo = Names]
       ELSE Report(p, "uninstalled")
    /\ UNCHANGED <<present, disk, archive, portable, now, touched, budget>>

PipUninstall(p) ==
    /\ At(p, "pip")
    /\ installed' \in {installed, FALSE}
    /\ IF present /\ cmd[p].place # Nowhere
       THEN cmd' = [cmd EXCEPT ![p].at = "remove", ![p].todo = Files(disk)]
       ELSE Report(p, "uninstalled")
    /\ UNCHANGED <<present, disk, archive, portable, now, touched, budget>>

(* A file that went away since the scan makes rmtree raise.  os.scandir    *)
(* has no order.                                                           *)
RemoveFile(p) ==
    /\ At(p, "remove")
    /\ \E f \in cmd[p].todo :
        IF disk[f] = Absent
        THEN Report(p, "raised") /\ UNCHANGED <<disk, touched>>
        ELSE /\ disk' = [disk EXCEPT ![f] = Absent]
             /\ cmd' = [cmd EXCEPT ![p].todo = @ \ {f}, ![p].lost[f] = disk[f]]
             /\ Touches(p, f)
    /\ UNCHANGED <<present, archive, portable, installed, now, budget>>

(* rmdir of a directory in which a file was created meanwhile raises.      *)
RemoveHome(p) ==
    /\ At(p, "remove") /\ cmd[p].todo = {}
    /\ IF Files(disk) = {} /\ present
       THEN present' = FALSE /\ Report(p, "removed")
       ELSE UNCHANGED present /\ Report(p, "raised")
    /\ UNCHANGED <<disk, archive, portable, installed, now, touched, budget>>

(***************************************************************************)
(* restore_home: refuse a home with files unless told otherwise, read the  *)
(* archive's members (an unreadable one raises), extract file by file,     *)
(* into a new directory if it has gone.  Other files stay.                 *)
(***************************************************************************)
RestoreCheck(p, a, overwrite) ==
    /\ At(p, "check")
    /\ archive[a].state # "absent"
    /\ IF Files(disk) # {} /\ ~ overwrite THEN Report(p, "refused")
       ELSE IF archive[a].state # "closed" THEN Report(p, "raised")
       ELSE cmd' = [cmd EXCEPT ![p].at = "extract", ![p].seen = archive[a].files,
                               ![p].todo = Files(archive[a].files)]
    /\ touched' = [touched EXCEPT ![p] = {}]
    /\ UNCHANGED <<present, disk, archive, portable, installed, now, budget>>

(* Faulty variant: a file that is there is kept.                           *)
ExtractOpenMissing(p) ==
    /\ At(p, "extract")
    /\ \E f \in Names :
        /\ IsNext(f, cmd[p].todo)
        /\ IF disk[f] = Absent
           THEN disk' = [disk EXCEPT ![f] = Torn] /\ Continue(p, "fill") /\ Touches(p, f)
           ELSE cmd' = [cmd EXCEPT ![p].todo = @ \ {f}] /\ UNCHANGED <<disk, touched>>
    /\ present' = TRUE
    /\ UNCHANGED <<archive, portable, installed, now, budget>>

ExtractOpen(p) ==
    /\ At(p, "extract")
    /\ \E f \in Names :
        IsNext(f, cmd[p].todo) /\ disk' = [disk EXCEPT ![f] = Torn] /\ Touches(p, f)
    /\ present' = TRUE
    /\ Continue(p, "fill")
    /\ UNCHANGED <<archive, portable, installed, now, budget>>

(* What a write into the open file f leaves there: nothing when the file   *)
(* was unlinked, and a mixture when another process wrote it meanwhile.    *)
Written(f, text) ==
    IF disk[f] = Absent THEN {Absent} ELSE {text} \cup ({Torn} \ {disk[f]})

ExtractFill(p) ==
    /\ At(p, "fill")
    /\ \E f \in Names :
        /\ IsNext(f, cmd[p].todo)
        /\ \E c \in Written(f, cmd[p].seen[f]) : disk' = [disk EXCEPT ![f] = c]
        /\ cmd' = [cmd EXCEPT ![p].at = "extract", ![p].todo = @ \ {f}]
        /\ Touches(p, f)
    /\ UNCHANGED <<present, archive, portable, installed, now, budget>>

RestoreDone(p) ==
    /\ At(p, "extract") /\ cmd[p].todo = {}
    /\ Report(p, "restored")
    /\ UNCHANGED <<present, disk, archive, portable, installed, now, touched, budget>>

(***************************************************************************)
(* portable_config_import, cmd_setup: read, merge, write_text in place.    *)
(***************************************************************************)
(* The keys of `portable` that are known and there replace the current     *)
(* ones.  redact() leaves these keys as they are.                          *)
Merged(current, incoming) ==
    [current EXCEPT !.search_provider =
        IF incoming.search_provider = None THEN @ ELSE incoming.search_provider]

(* Faulty variant: the file's keys replace the whole configuration.        *)
MergeAll(p) ==
    /\ At(p, "merge")
    /\ cmd' = [cmd EXCEPT ![p].at = "truncate", ![p].seen = disk, ![p].buffer = portable]
    /\ touched' = [touched EXCEPT ![p] = {}]
    /\ UNCHANGED <<present, disk, archive, portable, installed, now, budget>>

Merge(p) ==
    /\ At(p, "merge")
    /\ IF disk[CONFIG] = Torn THEN Report(p, "raised")
       ELSE LET current == IF disk[CONFIG] = Absent THEN NoKeys ELSE disk[CONFIG] IN
            cmd' = [cmd EXCEPT ![p].at = "truncate", ![p].seen = disk,
                               ![p].buffer = Merged(current, portable)]
    /\ touched' = [touched EXCEPT ![p] = {}]
    /\ UNCHANGED <<present, disk, archive, portable, installed, now, budget>>

Create(p) ==
    /\ At(p, "create")
    /\ IF disk[CONFIG] # Absent THEN Report(p, "set up")
       ELSE cmd' = [cmd EXCEPT ![p].at = "truncate",
                               ![p].buffer = [NoKeys EXCEPT !.search_provider = Default]]
    /\ UNCHANGED <<present, disk, archive, portable, installed, now, touched, budget>>

OpenConfig(p) ==
    /\ At(p, "truncate")
    /\ IF present
       THEN disk' = [disk EXCEPT ![CONFIG] = Torn] /\ Continue(p, "write") /\ Touches(p, CONFIG)
       ELSE Report(p, "raised") /\ UNCHANGED <<disk, touched>>
    /\ UNCHANGED <<present, archive, portable, installed, now, budget>>

WriteConfig(p) ==
    /\ At(p, "write")
    /\ \E c \in Written(CONFIG, cmd[p].buffer) : disk' = [disk EXCEPT ![CONFIG] = c]
    /\ Report(p, IF cmd[p].verb = "setup" THEN "set up" ELSE "imported")
    /\ Touches(p, CONFIG)
    /\ UNCHANGED <<present, archive, portable, installed, now, budget>>

Export(p) ==
    /\ At(p, "export")
    /\ IF disk[CONFIG] = Torn THEN Report(p, "raised") /\ UNCHANGED portable
       ELSE /\ portable' = IF disk[CONFIG] = Absent THEN NoKeys ELSE disk[CONFIG]
            /\ Report(p, "exported")
    /\ UNCHANGED <<present, disk, archive, installed, now, touched, budget>>

(* apply_update, rollback_to: pip installs the package, or fails, or acts  *)
(* on the interpreter given as python=.  (previous_version is the version  *)
(* this process has loaded, whatever pip replaced: it is left out.)        *)
ApplyUpdate(p) ==
    /\ At(p, "update")
    /\ installed' \in {installed, TRUE}
    /\ Report(p, "updated")
    /\ UNCHANGED <<present, disk, archive, portable, now, touched, budget>>

(* Offline, or a dry run: pip is not called.                               *)
SkipUpdate(p) ==
    /\ At(p, "update")
    /\ Report(p, "skipped")
    /\ UNCHANGED <<present, disk, archive, portable, installed, now, touched, budget>>

(***************************************************************************)
(* The rest of the world: D-Eye processes that write and delete data files *)
(* (databases, profiles, objects), the clock, and death.                   *)
(***************************************************************************)
WriteData(f) ==
    /\ budget.writes > 0
    /\ budget' = [budget EXCEPT !.writes = @ - 1]
    /\ disk' = [disk EXCEPT ![f] = 2 + MaxWrites - budget.writes]
    /\ present' = TRUE
    /\ Touches(None, f)
    /\ UNCHANGED <<archive, portable, installed, now, cmd>>

DeleteData(f) ==
    /\ disk[f] # Absent
    /\ disk' = [disk EXCEPT ![f] = Absent]
    /\ Touches(None, f)
    /\ UNCHANGED <<present, archive, portable, installed, now, cmd, budget>>

HomeTick ==
    /\ now < MaxSeconds
    /\ now' = now + 1
    /\ UNCHANGED <<present, disk, archive, portable, installed, cmd, touched, budget>>

(* The gzip stream of a backup that dies is not ended: it cannot be read.  *)
CommandDies(p) ==
    /\ ~ At(p, "idle") /\ budget.crashes > 0
    /\ budget' = [budget EXCEPT !.crashes = @ - 1]
    /\ archive' = IF At(p, "add") THEN [archive EXCEPT ![cmd[p].place].state = "torn"] ELSE archive
    /\ Report(p, "died")
    /\ UNCHANGED <<present, disk, portable, installed, now, touched>>

HomeNext ==
    \/ \E p \in Commands :
        \/ \E verb \in Verbs : Start(p, verb)
        \/ OpenArchive(p) \/ AddFile(p) \/ AddRaises(p) \/ CloseArchive(p)
        \/ PipUninstall(p) \/ RemoveFile(p) \/ RemoveHome(p)
        \/ \E a \in Places, overwrite \in BOOLEAN : RestoreCheck(p, a, overwrite)
        \/ ExtractOpen(p) \/ ExtractFill(p) \/ RestoreDone(p)
        \/ Merge(p) \/ Create(p) \/ OpenConfig(p) \/ WriteConfig(p) \/ Export(p)
        \/ ApplyUpdate(p) \/ SkipUpdate(p) \/ CommandDies(p)
    \/ \E f \in ToSet(DataFiles) : WriteData(f) \/ DeleteData(f)
    \/ HomeTick

HomeSpec == HomeInit /\ [][HomeNext]_homeVars

----------------------------------------------------------------------------
HomeTypeOK ==
    /\ present \in BOOLEAN /\ installed \in BOOLEAN /\ now \in 0..MaxSeconds
    /\ disk \in Homes /\ portable \in Config
    /\ archive \in [Places -> Archive]
    /\ cmd \in [Commands -> Command]
    /\ touched \in [Commands -> SUBSET Names]
    /\ budget \in [writes : 0..MaxWrites, crashes : 0..MaxCrashes, commands : 0..MaxCommands]

(* A backup that returned holds every file that was there when it listed   *)
(* the home and that nobody has changed since, in an archive that can be   *)
(* read, unless another backup took the archive's name (the names are one  *)
(* second apart): backup_home's list-then-add under concurrent writers.    *)
BackupIsWhole ==
    \A p \in Commands :
        (cmd[p].report = "backup" \/ (cmd[p].verb = "uninstall" /\ At(p, "pip")
                                      /\ cmd[p].place # Nowhere))
            /\ ~ cmd[p].raced
        => LET a == archive[cmd[p].place] IN
           /\ a.state = "closed"
           /\ \A f \in Files(cmd[p].seen) \ touched[p] : a.files[f] = cmd[p].seen[f]

(* uninstall() removes nothing unless it took a backup, also when the home *)
(* it found missing was created while pip ran; and what it removes is in   *)
(* that archive, but for what was written after the home was listed.       *)
RemovalIsCovered ==
    \A p \in Commands : ~ cmd[p].raced =>
        \A f \in Files(cmd[p].lost) :
            /\ cmd[p].place # Nowhere
            /\ f \notin touched[p] => archive[cmd[p].place].files[f] = cmd[p].lost[f]

(* "Always backs up DEYE_HOME before touching it": nothing uninstall()     *)
(* removed is missing from the backups.                                    *)
AlwaysBackedUp ==
    \A p \in Commands : \A f \in Files(cmd[p].lost) :
        \E a \in Places : archive[a].files[f] = cmd[p].lost[f]

(* A restore that returned ok has put back every file of the archive as it *)
(* was there, config.json and files it overwrote included, except where    *)
(* another process wrote since.                                            *)
RestoreIsFaithful ==
    \A p \in Commands : cmd[p].report = "restored" =>
        \A f \in Files(cmd[p].seen) \ touched[p] : disk[f] = cmd[p].seen[f]

(* "Merges into an existing config.json rather than overwriting": an       *)
(* import leaves the keys it does not know as they were when it began, and *)
(* takes none away, unless another process rewrote the configuration       *)
(* meanwhile.                                                              *)
ImportKeepsOtherKeys ==
    \A p \in Commands :
        (cmd[p].report = "imported" /\ CONFIG \notin touched[p] /\ cmd[p].seen[CONFIG] # Absent)
        => /\ disk[CONFIG].note = cmd[p].seen[CONFIG].note
           /\ disk[CONFIG].search_provider = None => cmd[p].seen[CONFIG].search_provider = None
=============================================================================
