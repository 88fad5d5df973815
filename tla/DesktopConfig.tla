--------------------------- MODULE DesktopConfig ---------------------------
(***************************************************************************)
(* deye.init_claude.write_desktop_config on the client's config file: read *)
(* it, merge the deye server into it, copy it to a backup named after the  *)
(* second, write it in place.  Runs overlap and die between any two steps. *)
(* A config is the set of its servers; the contents of a file that is not  *)
(* JSON (the user's own, or one cut short) are model values.               *)
(***************************************************************************)
EXTENDS Naturals

CONSTANTS
    Runs,           \* processes that run `deye init-claude`
    Missing,        \* no such file
    Broken,         \* the user's file, with a syntax error
    Cut,            \* a file that was opened for writing and not yet written
    LastSecond, MaxDeaths

ASSUME DesktopAssumption == LastSecond \in Nat /\ MaxDeaths \in Nat

VARIABLES
    original,       \* history: the file before the first run
    text,           \* the config file
    bak,            \* bak[s]: the backup <name>.<s>.bak
    run,            \* run[r]: where run r is, and what it has in memory
    second, deaths,
    copies          \* history: how many copies were started in second s

desktopVars == <<original, text, bak, run, second, deaths, copies>>

Servers == {"deye", "other"}
Contents == (SUBSET Servers) \cup {Missing, Broken, Cut}
Unreadable == {Broken, Cut}
NotStarted == [at |-> "read", merged |-> {}, stamp |-> 0]

DesktopInit ==
    /\ original \in {{}, {"other"}, Missing, Broken}
    /\ text = original
    /\ bak = [s \in 0..LastSecond |-> Missing]
    /\ run = [r \in Runs |-> NotStarted]
    /\ second = 0 /\ deaths = 0
    /\ copies = [s \in 0..LastSecond |-> 0]

(* merge_config: an unreadable or missing file counts as empty.            *)
MergeConfig(existing) ==
    (IF existing \in Unreadable \cup {Missing} THEN {} ELSE existing) \cup {"deye"}

(* Read and merge; dry_run stops here.                                     *)
Read(r, dry_run) ==
    /\ run[r].at = "read"
    /\ run' = [run EXCEPT ![r] = [@ EXCEPT !.at = IF dry_run THEN "done" ELSE "backup",
                                           !.merged = MergeConfig(text)]]
    /\ UNCHANGED <<original, text, bak, second, deaths, copies>>

(* `if path.exists()`: copy2 truncates the backup of this second ...       *)
CopyOpen(r) ==
    /\ run[r].at = "backup"
    /\ IF text = Missing
       THEN run' = [run EXCEPT ![r].at = "truncate"] /\ UNCHANGED <<bak, copies>>
       ELSE /\ run' = [run EXCEPT ![r].at = "copy", ![r].stamp = second]
            /\ bak' = [bak EXCEPT ![second] = Cut]
            /\ copies' = [copies EXCEPT ![second] = @ + 1]
    /\ UNCHANGED <<original, text, second, deaths>>

(* ... and fills it with what the file is now.                             *)
CopyFill(r) ==
    /\ run[r].at = "copy"
    /\ bak' = [bak EXCEPT ![run[r].stamp] = text]
    /\ run' = [run EXCEPT ![r].at = "truncate"]
    /\ UNCHANGED <<original, text, second, deaths, copies>>

(* Faulty variant: the file is opened before the copy is complete.         *)
WriteOpenEarly(r) ==
    /\ run[r].at \in {"copy", "truncate"}
    /\ text' = Cut
    /\ run' = [run EXCEPT ![r].at = IF @ = "copy" THEN @ ELSE "write"]
    /\ UNCHANGED <<original, bak, second, deaths, copies>>

(* write_text truncates the config ...                                     *)
WriteOpen(r) ==
    /\ run[r].at = "truncate"
    /\ text' = Cut
    /\ run' = [run EXCEPT ![r].at = "write"]
    /\ UNCHANGED <<original, bak, second, deaths, copies>>

(* ... and writes it; over what another run wrote since, the longer text   *)
(* may show through, which is no JSON.                                     *)
WriteFill(r) ==
    /\ run[r].at = "write"
    /\ text' \in (IF text = Cut THEN {run[r].merged} ELSE {run[r].merged, Cut})
    /\ run' = [run EXCEPT ![r].at = "done"]
    /\ UNCHANGED <<original, bak, second, deaths, copies>>

RunDies(r) ==
    /\ run[r].at # "done" /\ deaths < MaxDeaths
    /\ deaths' = deaths + 1
    /\ run' = [run EXCEPT ![r].at = "done"]
    /\ UNCHANGED <<original, text, bak, second, copies>>

NextSecond ==
    /\ second < LastSecond
    /\ second' = second + 1
    /\ UNCHANGED <<original, text, bak, run, deaths, copies>>

DesktopNext ==
    \/ \E r \in Runs :
        \/ \E dry_run \in BOOLEAN : Read(r, dry_run)
        \/ CopyOpen(r) \/ CopyFill(r) \/ WriteOpen(r) \/ WriteFill(r)
        \/ RunDies(r)
    \/ NextSecond

DesktopSpec == DesktopInit /\ [][DesktopNext]_desktopVars

----------------------------------------------------------------------------
(* The file, its backups and the runs.                                     *)
DesktopTypeOK ==
    /\ original \in Contents /\ text \in Contents
    /\ bak \in [0..LastSecond -> Contents]
    /\ run \in [Runs -> [at : {"read", "backup", "copy", "truncate", "write", "done"},
                         merged : SUBSET Servers, stamp : 0..LastSecond]]
    /\ second \in 0..LastSecond /\ deaths \in 0..MaxDeaths
    /\ copies \in [0..LastSecond -> Nat]

(* "Backing up any existing file first": whatever runs overlap and die,    *)
(* the user's file is still the config or one of the backups -- unless two *)
(* runs made their backup in the same second.                              *)
OriginalRecoverable ==
    (\A s \in DOMAIN copies : copies[s] <= 1) =>
        original \in {Missing, text} \cup {bak[s] : s \in DOMAIN bak}
=============================================================================
