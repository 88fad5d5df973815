----------------------------- MODULE HomeProofs ------------------------------
(***************************************************************************)
(* Theorems about HomeLifecycle: what backup, restore, uninstall and       *)
(* import promise, for every number of commands, files, seconds,           *)
(* foreign writes and deaths.                                              *)
(***************************************************************************)
EXTENDS HomeLifecycle, TLAPS, SequenceTheorems

-----------------------------------------------------------------------------
(* The inductive invariant, for each command p by itself.  Which commands  *)
(* have an archive, have removed files, or have reported.                  *)
Staged(p) ==
    LET c == cmd[p] IN
    /\ c.at \in {"add", "remove"} \/ c.report = "backup" => c.place # Nowhere
    /\ c.at \notin {"idle", "add", "pip", "remove"} => c.place = Nowhere
    /\ c.at \notin {"idle", "remove"} => c.lost = Nothing
    /\ c.at # "idle" => c.report = ""
    /\ c.at = "create" => c.verb = "setup"

(* The files p found, and nobody touched since, are in the archive p fills *)
(* but for those it has still to add; ...                                  *)
Kept(p) == Files(cmd[p].seen) \ touched[p]
Filling(p) ==
    LET c == cmd[p] IN
    c.at = "add" /\ c.raced = FALSE =>
        /\ archive[c.place].by = p /\ archive[c.place].state = "open"
        /\ \A f \in Kept(p) \ c.todo : archive[c.place].files[f] = c.seen[f]

(* ... all of them, once it is closed.                                     *)
HasBackup(c) == c.report = "backup" \/ (c.at \in {"pip", "remove"} /\ c.place # Nowhere)
Filled(p) ==
    LET c == cmd[p] IN
    HasBackup(c) /\ c.raced = FALSE =>
        /\ archive[c.place].state = "closed"
        /\ \A f \in Kept(p) : archive[c.place].files[f] = c.seen[f]

(* While p backs up and removes, a file that nobody else touched is as p   *)
(* found it, or p has removed it; ...                                      *)
Watched(p) ==
    LET c == cmd[p] IN
    c.at \in {"add", "pip", "remove"} /\ c.place # Nowhere =>
        \A f \in Names \ touched[p] :
            disk[f] = IF c.lost[f] # Absent THEN Absent ELSE c.seen[f]

(* ... and what it removed is in its archive.                              *)
Covered(p) ==
    LET c == cmd[p] IN
    c.raced = FALSE => \A f \in Files(c.lost) :
        /\ c.place # Nowhere
        /\ f \notin touched[p] => archive[c.place].files[f] = c.lost[f]

(* A restore has put back the files it has passed, and the one it has open *)
(* is cut short.                                                           *)
Restored(p) ==
    LET c == cmd[p] IN
    /\ c.at \in {"extract", "fill"} => \A f \in Kept(p) \ c.todo : disk[f] = c.seen[f]
    /\ c.report = "restored" => \A f \in Kept(p) : disk[f] = c.seen[f]
    /\ c.at = "fill" => \A f \in Names \ touched[p] : IsNext(f, c.todo) => disk[f] = Torn

(* A merged configuration has the keys of the one it was merged into.      *)
KeepsKeys(new, old) ==
    /\ new.note = old.note
    /\ new.search_provider = None => old.search_provider = None
Imported(p) ==
    LET c == cmd[p] IN
    /\ c.at \in {"truncate", "write"} =>
          /\ c.buffer \in Config
          /\ c.verb # "setup" /\ c.seen[CONFIG] # Absent => KeepsKeys(c.buffer, c.seen[CONFIG])
    /\ c.at = "write" /\ CONFIG \notin touched[p] => disk[CONFIG] = Torn
    /\ c.report = "imported" /\ CONFIG \notin touched[p] /\ c.seen[CONFIG] # Absent =>
          KeepsKeys(disk[CONFIG], c.seen[CONFIG])

Own(p) ==
    /\ Staged(p) /\ Filling(p) /\ Filled(p) /\ Watched(p) /\ Covered(p)
    /\ Restored(p) /\ Imported(p)

(* Between two commands: who shares the archive that another one is        *)
(* filling knows of it.                                                    *)
NoRival(p, q) ==
    cmd[q].at = "add" /\ cmd[p].place = cmd[q].place => p = q \/ cmd[p].raced = TRUE

HomeInv ==
    /\ HomeTypeOK
    /\ \A p \in Commands : Own(p)
    /\ \A p, q \in Commands : NoRival(p, q)

-----------------------------------------------------------------------------
(* Homes, and a home with one file written.                                *)
Fits(f, x) == IF f = CONFIG THEN x \in Settings ELSE x \in Data

LEMMA HomeHolds ==
  ASSUME NEW d \in Homes
  PROVE  /\ d = [f \in Names |-> d[f]]
         /\ \A f \in Names : Fits(f, d[f])
<1>1. PICK c \in Settings, data \in [ToSet(DataFiles) -> Data] :
        d = [f \in Names |-> IF f = CONFIG THEN c ELSE data[f]]
  BY DEF Homes
<1>2. \A f \in Names : f # CONFIG => f \in ToSet(DataFiles)
  BY DEF Names
<1> QED
  BY <1>1, <1>2 DEF Fits

LEMMA IsHome ==
  ASSUME NEW d, d = [f \in Names |-> d[f]], \A f \in Names : Fits(f, d[f])
  PROVE  d \in Homes
<1> DEFINE data == [f \in ToSet(DataFiles) |-> d[f]]
<1>1. CONFIG \in Names /\ ToSet(DataFiles) \subseteq Names /\ CONFIG \notin ToSet(DataFiles)
      /\ \A f \in Names : f # CONFIG => f \in ToSet(DataFiles)
  BY HomeAssumption DEF Names
<1>2. d[CONFIG] \in Settings
  BY <1>1 DEF Fits
<1>3. data \in [ToSet(DataFiles) -> Data]
  BY <1>1 DEF Fits
<1>4. d = [f \in Names |-> IF f = CONFIG THEN d[CONFIG] ELSE data[f]]
  BY <1>1
<1> HIDE DEF data
<1> QED
  BY <1>2, <1>3, <1>4 DEF Homes

LEMMA Rewritten ==
  ASSUME NEW d \in Homes, NEW f \in Names, NEW x, Fits(f, x)
  PROVE  [d EXCEPT ![f] = x] \in Homes
<1> DEFINE e == [d EXCEPT ![f] = x]
<1>1. d = [g \in Names |-> d[g]] /\ \A g \in Names : Fits(g, d[g])
  BY HomeHolds
<1>2. e = [g \in Names |-> e[g]] /\ \A g \in Names : e[g] = IF g = f THEN x ELSE d[g]
  <2>1. DOMAIN d = Names
    BY <1>1
  <2>2. e = [g \in Names |-> IF g = f THEN x ELSE d[g]]
    <3> HIDE <1>1
    <3> QED
      BY <2>1
  <2> HIDE DEF e
  <2> QED
    BY <2>2
<1>3. \A g \in Names : Fits(g, e[g])
  BY <1>1, <1>2
<1> HIDE DEF e
<1>4. e \in Homes
  BY <1>2, <1>3, IsHome
<1> QED
  BY <1>4 DEF e

LEMMA SimpleContents ==
  /\ CONFIG \in Names /\ Nothing \in Homes
  /\ \A f \in Names : Fits(f, Absent) /\ Fits(f, Torn)
<1>1. \A f \in Names : Fits(f, Absent) /\ Fits(f, Torn)
  BY DEF Fits, Settings, Data
<1>2. Nothing = [f \in Names |-> Nothing[f]] /\ \A f \in Names : Nothing[f] = Absent
  BY DEF Nothing
<1>3. Nothing \in Homes
  BY <1>1, <1>2, IsHome
<1> QED
  BY <1>1, <1>3 DEF Names

(* The order of the names leaves one file to do next.                      *)
LEMMA OneIsNext ==
  ASSUME NEW todo, NEW f, NEW g, IsNext(f, todo), IsNext(g, todo)
  PROVE  f = g
<1>1. Order \in Seq(Names)
  <2>1. <<CONFIG>> \in Seq(Names) /\ DataFiles \in Seq(Names)
    <3>1. DataFiles \in Seq(ToSet(DataFiles)) /\ ToSet(DataFiles) \subseteq Names
      BY HomeAssumption DEF Names
    <3>2. DataFiles \in Seq(Names)
      BY <3>1
    <3> QED
      BY <3>2 DEF Names
  <2> QED
    BY <2>1, ConcatProperties DEF Order
<1>2. DOMAIN Order \subseteq Nat /\ \A i \in DOMAIN Order : i >= 1
  BY <1>1, LenProperties
<1>3. PICK i \in DOMAIN Order : Order[i] = f /\ f \in todo /\ \A k \in 1..(i - 1) : Order[k] \notin todo
  BY DEF IsNext
<1>4. PICK j \in DOMAIN Order : Order[j] = g /\ g \in todo /\ \A k \in 1..(j - 1) : Order[k] \notin todo
  BY DEF IsNext
<1>5. ~ i < j
  BY <1>2, <1>3, <1>4
<1>6. ~ j < i
  BY <1>2, <1>3, <1>4
<1> QED
  BY <1>2, <1>3, <1>4, <1>5, <1>6

-----------------------------------------------------------------------------
(* What a step of another process may do to command q: share its archive,  *)
(* or touch files, but not in silence.                                     *)
Respected(q, r) ==
    /\ r \in BOOLEAN /\ (cmd[q].raced = TRUE => r = TRUE)
    /\ touched[q] \subseteq touched'[q]
    /\ \A f \in Names : disk'[f] = disk[f] \/ f \in touched'[q]
    /\ cmd[q].place \in Places =>
          archive'[cmd[q].place] = archive[cmd[q].place] \/ r = TRUE

LEMMA BystanderKeeps ==
  ASSUME HomeTypeOK, NEW q \in Commands, Own(q), NEW r, Respected(q, r),
         cmd'[q] = [cmd[q] EXCEPT !.raced = r]
  PROVE  Own(q)'
<1> DEFINE c == cmd[q]  d == cmd'[q]
<1>1. c \in Command
  BY DEF HomeTypeOK
<1>2. /\ d.at = c.at /\ d.verb = c.verb /\ d.todo = c.todo /\ d.seen = c.seen
      /\ d.place = c.place /\ d.lost = c.lost /\ d.buffer = c.buffer
      /\ d.report = c.report /\ d.raced = r
  BY <1>1 DEF Command
<1>3. d.raced = FALSE => c.raced = FALSE
  BY <1>1, <1>2 DEF Respected, Command
<1>4. c.place # Nowhere => c.place \in Places
  BY <1>1 DEF Command
<1>5. d.raced = FALSE /\ c.place # Nowhere => archive'[c.place] = archive[c.place]
  BY <1>2, <1>4 DEF Respected
<1>6. \A f \in Names : f \notin touched'[q] => f \notin touched[q] /\ disk'[f] = disk[f]
  BY DEF Respected
<1>7. Kept(q)' \subseteq Kept(q) /\ Kept(q) \subseteq Names /\ Kept(q)' \cap touched'[q] = {}
  BY <1>2, <1>6 DEF Kept, Files
<1>8. Staged(q)'
  <2>1. Staged(q)
    BY DEF Own
  <2> HIDE DEF c, d
  <2> QED
    BY <1>2, <2>1 DEF Staged, c, d
<1>9. Filling(q)'
  <2> SUFFICES ASSUME d.at = "add", d.raced = FALSE
               PROVE  /\ archive'[d.place].by = q /\ archive'[d.place].state = "open"
                      /\ \A f \in Kept(q)' \ d.todo : archive'[d.place].files[f] = d.seen[f]
    BY DEF Filling
  <2>1. c.at = "add" /\ c.raced = FALSE /\ c.place # Nowhere
    BY <1>2, <1>3 DEF Own, Staged
  <2>2. /\ archive[c.place].by = q /\ archive[c.place].state = "open"
        /\ \A f \in Kept(q) \ c.todo : archive[c.place].files[f] = c.seen[f]
    BY <2>1 DEF Own, Filling
  <2>3. archive'[d.place] = archive[c.place]
    BY <1>2, <1>5, <2>1
  <2> HIDE DEF c, d
  <2> QED
    BY <1>2, <1>7, <2>2, <2>3
<1>10. Filled(q)'
  <2> SUFFICES ASSUME HasBackup(d), d.raced = FALSE
               PROVE  /\ archive'[d.place].state = "closed"
                      /\ \A f \in Kept(q)' : archive'[d.place].files[f] = d.seen[f]
    BY DEF Filled, HasBackup
  <2>1. HasBackup(c) /\ c.raced = FALSE /\ c.place # Nowhere
    BY <1>2, <1>3 DEF Own, Staged, HasBackup
  <2>2. /\ archive[c.place].state = "closed"
        /\ \A f \in Kept(q) : archive[c.place].files[f] = c.seen[f]
    BY <2>1 DEF Own, Filled
  <2>3. archive'[d.place] = archive[c.place]
    BY <1>2, <1>5, <2>1
  <2> HIDE DEF c, d
  <2> QED
    BY <1>2, <1>7, <2>2, <2>3
<1>11. Watched(q)'
  BY <1>2, <1>6 DEF Own, Watched
<1>12. Covered(q)'
  BY <1>2, <1>3, <1>5, <1>6 DEF Own, Covered, Files
<1>13. Restored(q)'
  BY <1>2, <1>6, <1>7 DEF Own, Restored
<1>14. Imported(q)'
  BY <1>2, <1>6, SimpleContents DEF Own, Imported
<1> QED
  BY <1>8, <1>9, <1>10, <1>11, <1>12, <1>13, <1>14 DEF Own

(* So of a step of p, no archive but its own filled, p is left to show.    *)
LEMMA ActorKeeps ==
  ASSUME HomeInv, HomeTypeOK', NEW p \in Commands, Own(p)',
         NEW c, cmd' = [cmd EXCEPT ![p] = c],
         c.place = Nowhere \/ (c.place = cmd[p].place /\ c.raced = cmd[p].raced),
         c.at = "add" => cmd[p].at = "add",
         \A q \in Commands \ {p} :
            /\ touched[q] \subseteq touched'[q]
            /\ \A f \in Names : disk'[f] = disk[f] \/ f \in touched'[q],
         \A a \in Places : archive'[a] = archive[a] \/ (cmd[p].at = "add" /\ a = cmd[p].place)
  PROVE  HomeInv'
<1>1. cmd \in [Commands -> Command] /\ cmd'[p] = c
      /\ \A q \in Commands \ {p} : cmd'[q] = cmd[q]
  BY DEF HomeInv, HomeTypeOK
<1>2. ASSUME NEW q \in Commands \ {p} PROVE Own(q)'
  <2>1. cmd[q] \in Command
    BY <1>1
  <2>2. cmd[q].raced \in BOOLEAN /\ cmd[q] = [cmd[q] EXCEPT !.raced = cmd[q].raced]
    BY <2>1 DEF Command
  <2>3. \A a \in Places : cmd[p].at = "add" /\ a = cmd[p].place /\ a = cmd[q].place =>
          cmd[q].raced = TRUE
    BY DEF HomeInv, NoRival
  <2>4. Respected(q, cmd[q].raced)
    BY <2>2, <2>3 DEF Respected
  <2> QED
    BY <1>1, <2>2, <2>4, BystanderKeeps DEF HomeInv
<1>3. ASSUME NEW q \in Commands, NEW r \in Commands PROVE NoRival(q, r)'
  <2>1. CASE q = r
    BY <2>1 DEF NoRival
  <2>2. CASE q # r /\ q = p
    <3>1. cmd[r].at = "add" => cmd[r].place # Nowhere
      BY DEF HomeInv, Own, Staged
    <3> QED
      BY <1>1, <2>2, <3>1 DEF HomeInv, NoRival
  <2>3. CASE q # r /\ r = p
    <3>1. c.at = "add" => c.place # Nowhere
      BY <1>1 DEF Own, Staged
    <3> QED
      BY <1>1, <2>3, <3>1 DEF HomeInv, NoRival
  <2>4. CASE q # r /\ q # p /\ r # p
    BY <1>1, <2>4 DEF HomeInv, NoRival
  <2> QED
    BY <2>1, <2>2, <2>3, <2>4
<1>4. \A q \in Commands : Own(q)'
  BY <1>2
<1> QED
  BY <1>3, <1>4 DEF HomeInv

-----------------------------------------------------------------------------
(* Most parts of the invariant say nothing about most stages.              *)
LEMMA OtherStages ==
  ASSUME NEW p
  PROVE  LET c == cmd'[p] IN
         /\ c.place = Nowhere /\ c.lost = Nothing /\ c.report # "backup" /\ c.at # "add" =>
               Filling(p)' /\ Filled(p)' /\ Watched(p)' /\ Covered(p)'
         /\ c.at \notin {"extract", "fill"} /\ c.report # "restored" => Restored(p)'
         /\ c.at \notin {"truncate", "write"} /\ c.report # "imported" => Imported(p)'
<1> DEFINE c == cmd'[p]
<1>1. Files(Nothing) = {}
  BY DEF Files, Nothing
<1>2. c.place = Nowhere /\ c.lost = Nothing /\ c.report # "backup" /\ c.at # "add" =>
        Filling(p)' /\ Filled(p)' /\ Watched(p)' /\ Covered(p)'
  BY <1>1 DEF Filling, Filled, HasBackup, Watched, Covered
<1>3. c.at \notin {"extract", "fill"} /\ c.report # "restored" => Restored(p)'
  BY DEF Restored
<1>4. c.at \notin {"truncate", "write"} /\ c.report # "imported" => Imported(p)'
  BY DEF Imported
<1> QED
  BY <1>2, <1>3, <1>4

(* What a report and what a move to another stage leave of a command.      *)
SameBut(c, d) ==
    /\ d.verb = c.verb /\ d.seen = c.seen /\ d.place = c.place /\ d.lost = c.lost
    /\ d.raced = c.raced

LEMMA ReportLeaves ==
  ASSUME HomeTypeOK, NEW p \in Commands, NEW what \in Outcomes, Report(p, what)
  PROVE  \E d \in Command : /\ cmd' = [cmd EXCEPT ![p] = d] /\ cmd'[p] = d
                            /\ d.at = "idle" /\ d.report = what /\ d.todo = {}
                            /\ SameBut(cmd[p], d)
<1> DEFINE c == cmd[p]
           d == [c EXCEPT !.at = "idle", !.report = what, !.todo = {}, !.buffer = Absent]
<1>1. cmd \in [Commands -> Command] /\ c \in Command
  BY DEF HomeTypeOK
<1>2. "idle" \in Stages /\ {} \in SUBSET Names /\ Absent \in Config \cup {Absent}
  BY DEF Stages
<1>3. d \in Command
  <2> HIDE DEF c
  <2> QED
    BY <1>1, <1>2 DEF Command
<1>4. cmd' = [cmd EXCEPT ![p] = d]
  BY <1>1 DEF Report
<1>5. d.at = "idle" /\ d.report = what /\ d.todo = {} /\ SameBut(c, d)
  <2> HIDE DEF c
  <2> QED
    BY <1>1 DEF Command, SameBut
<1> HIDE DEF d
<1>6. cmd'[p] = d
  BY <1>1, <1>4
<1> QED
  BY <1>3, <1>4, <1>5, <1>6

LEMMA ContinueLeaves ==
  ASSUME HomeTypeOK, NEW p \in Commands, NEW l \in Stages, Continue(p, l)
  PROVE  \E d \in Command : /\ cmd' = [cmd EXCEPT ![p] = d] /\ cmd'[p] = d
                            /\ d.at = l /\ d.report = cmd[p].report /\ d.todo = cmd[p].todo
                            /\ d.buffer = cmd[p].buffer /\ SameBut(cmd[p], d)
<1> DEFINE c == cmd[p]  d == [c EXCEPT !.at = l]
<1>1. cmd \in [Commands -> Command] /\ c \in Command
  BY DEF HomeTypeOK
<1>2. cmd' = [cmd EXCEPT ![p] = d]
  BY <1>1 DEF Continue
<1>3. d \in Command /\ d.at = l /\ d.report = c.report /\ d.todo = c.todo
      /\ d.buffer = c.buffer /\ SameBut(c, d)
  <2> HIDE DEF c
  <2> QED
    BY <1>1 DEF Command, SameBut
<1> HIDE DEF d
<1>4. cmd'[p] = d
  BY <1>1, <1>2
<1> QED
  BY <1>2, <1>3, <1>4

Quiet == Outcomes \ {"", "backup", "restored", "imported"}

LEMMA QuietEnd ==
  ASSUME HomeInv, NEW p \in Commands, NEW what \in Quiet, Report(p, what),
         \/ cmd[p].lost = Nothing
         \/ archive' = archive /\ touched'[p] = touched[p]
  PROVE  Own(p)'
<1>1. PICK d \in Command : /\ cmd' = [cmd EXCEPT ![p] = d] /\ cmd'[p] = d
                           /\ d.at = "idle" /\ d.report = what /\ d.todo = {}
                           /\ SameBut(cmd[p], d)
  <2>1. HomeTypeOK /\ what \in Outcomes
    BY DEF HomeInv, Quiet
  <2> QED
    BY <2>1, ReportLeaves
<1>2. what \notin {"", "backup", "restored", "imported"}
  BY DEF Quiet
<1>3. Staged(p)'
  BY <1>1, <1>2 DEF Staged
<1>4. Filling(p)' /\ Filled(p)' /\ Watched(p)'
  BY <1>1, <1>2 DEF Filling, Filled, HasBackup, Watched
<1>5. Covered(p)'
  <2>1. d.lost = cmd[p].lost /\ d.place = cmd[p].place /\ d.raced = cmd[p].raced
    BY <1>1 DEF SameBut
  <2>2. CASE cmd[p].lost = Nothing
    <3>1. Files(Nothing) = {}
      BY DEF Files, Nothing
    <3> QED
      BY <1>1, <2>1, <2>2, <3>1 DEF Covered
  <2>3. CASE archive' = archive /\ touched'[p] = touched[p]
    BY <1>1, <2>1, <2>3 DEF HomeInv, Own, Covered
  <2> QED
    BY <2>2, <2>3
<1>6. Restored(p)' /\ Imported(p)'
  BY <1>1, <1>2, OtherStages
<1> QED
  BY <1>3, <1>4, <1>5, <1>6 DEF Own

(* Three kinds of steps of one command: it changes nothing but itself, ... *)
Budgets == [writes : 0..MaxWrites, crashes : 0..MaxCrashes, commands : 0..MaxCommands]

LEMMA OwnStepKeeps ==
  ASSUME HomeInv, NEW p \in Commands, Own(p)', NEW c \in Command, cmd' = [cmd EXCEPT ![p] = c],
         c.place = Nowhere \/ (c.place = cmd[p].place /\ c.raced = cmd[p].raced),
         c.at = "add" => cmd[p].at = "add",
         UNCHANGED <<disk, archive, now>>, installed' \in BOOLEAN \cup {installed},
         portable' \in Config,
         present' \in BOOLEAN, budget' \in Budgets,
         touched' = touched \/ touched' = [touched EXCEPT ![p] = {}]
  PROVE  HomeInv'
<1>1. UNCHANGED disk /\ UNCHANGED archive /\ UNCHANGED now
  OBVIOUS
<1>2. HomeTypeOK
  BY DEF HomeInv
<1>3. touched \in [Commands -> SUBSET Names]
  BY <1>2 DEF HomeTypeOK
<1>4. /\ touched' \in [Commands -> SUBSET Names]
      /\ \A q \in Commands \ {p} : touched'[q] = touched[q]
  BY <1>3
<1>5. cmd' \in [Commands -> Command]
  BY <1>2 DEF HomeTypeOK
<1>6. HomeTypeOK'
  BY <1>1, <1>2, <1>4, <1>5 DEF HomeTypeOK, Budgets
<1> HIDE DEF HomeInv
<1> QED
  BY <1>1, <1>4, <1>6, ActorKeeps

(* ... or it writes one file, ...                                          *)
LEMMA FileStepKeeps ==
  ASSUME HomeInv, NEW p \in Commands, Own(p)', NEW c \in Command, cmd' = [cmd EXCEPT ![p] = c],
         c.place = cmd[p].place, c.raced = cmd[p].raced, c.at # "add",
         NEW f \in Names, NEW x, Fits(f, x), disk' = [disk EXCEPT ![f] = x], Touches(p, f),
         UNCHANGED <<archive, portable, installed, now, budget>>, present' \in BOOLEAN
  PROVE  HomeInv'
<1>1. UNCHANGED archive /\ UNCHANGED portable /\ UNCHANGED installed /\ UNCHANGED now
      /\ UNCHANGED budget
  OBVIOUS
<1>2. HomeTypeOK
  BY DEF HomeInv
<1>3. touched \in [Commands -> SUBSET Names] /\ disk \in Homes
  BY <1>2 DEF HomeTypeOK
<1>4. /\ touched' \in [Commands -> SUBSET Names]
      /\ \A q \in Commands \ {p} : touched'[q] = touched[q] \cup {f}
  BY <1>3 DEF Touches
<1>5. disk' \in Homes /\ \A g \in Names : g # f => disk'[g] = disk[g]
  BY <1>3, Rewritten, HomeHolds
<1>6. cmd' \in [Commands -> Command]
  BY <1>2 DEF HomeTypeOK
<1>7. HomeTypeOK'
  BY <1>1, <1>2, <1>4, <1>5, <1>6 DEF HomeTypeOK
<1> QED
  BY <1>1, <1>4, <1>5, <1>7, ActorKeeps

(* ... or it writes its archive.                                           *)
LEMMA ArchiveStepKeeps ==
  ASSUME HomeInv, NEW p \in Commands, Own(p)', NEW c \in Command, cmd' = [cmd EXCEPT ![p] = c],
         c.place = cmd[p].place, c.raced = cmd[p].raced, cmd[p].at = "add",
         NEW a \in Archive, archive' = [archive EXCEPT ![cmd[p].place] = a],
         UNCHANGED <<present, disk, portable, installed, now, touched>>, budget' \in Budgets
  PROVE  HomeInv'
<1>1. UNCHANGED present /\ UNCHANGED disk /\ UNCHANGED portable /\ UNCHANGED installed
      /\ UNCHANGED now /\ UNCHANGED touched
  OBVIOUS
<1>2. HomeTypeOK
  BY DEF HomeInv
<1>3. archive \in [Places -> Archive] /\ cmd \in [Commands -> Command]
  BY <1>2 DEF HomeTypeOK
<1>4. archive' \in [Places -> Archive]
      /\ \A b \in Places : b # cmd[p].place => archive'[b] = archive[b]
  BY <1>3
<1>5. HomeTypeOK'
  BY <1>1, <1>2, <1>3, <1>4 DEF HomeTypeOK, Budgets
<1> QED
  BY <1>1, <1>4, <1>5, ActorKeeps

-----------------------------------------------------------------------------
(* The steps, in the order of the commands.                                *)
LEMMA HomeInitial == HomeInit => HomeInv
<1> SUFFICES ASSUME HomeInit PROVE HomeInv
  OBVIOUS
<1>1. Nothing \in Homes /\ disk \in Homes
  <2>1. Default \in Values /\ 1 \in 1..(MaxWrites + 1)
    BY HomeAssumption
  <2>2. [search_provider |-> Default, note |-> Default] \in Config
    BY <2>1 DEF Config
  <2>3. disk = [f \in Names |-> disk[f]] /\ \A f \in Names : Fits(f, disk[f])
    BY <2>1, <2>2 DEF HomeInit, Fits, Settings, Data
  <2> QED
    BY <2>3, IsHome, SimpleContents
<1>2. portable \in Config
  BY DEF HomeInit, Config
<1>3. Idle \in Command
  <2> DEFINE P == Places \cup {Nowhere}  V == Verbs \cup {""}  B == Config \cup {Absent}
             T == SUBSET Names
  <2>1. "idle" \in Stages /\ "" \in V /\ {} \in T /\ Nowhere \in P /\ Absent \in B
        /\ "" \in Outcomes
    BY DEF Stages, Outcomes
  <2>2. Command = [at : Stages, verb : V, todo : T, seen : Homes, place : P, lost : Homes,
                   buffer : B, report : Outcomes, raced : BOOLEAN]
    BY DEF Command
  <2> HIDE DEF P, V, B, T
  <2> QED
    BY <1>1, <2>1, <2>2 DEF Idle
<1>4. cmd \in [Commands -> Command] /\ \A p \in Commands : cmd[p] = Idle
  BY <1>3 DEF HomeInit
<1>5. archive \in [Places -> Archive]
  <2> DEFINE S == {"absent", "open", "closed", "torn"}  B == Commands \cup {None}
  <2>1. "absent" \in S /\ None \in B
    OBVIOUS
  <2> HIDE DEF S, B
  <2>2. [state |-> "absent", by |-> None, files |-> Nothing] \in [state : S, by : B, files : Homes]
    BY <1>1, <2>1
  <2> QED
    BY <2>2 DEF HomeInit, Archive, S, B
<1>6. budget \in Budgets
  <2> DEFINE W == 0..MaxWrites  C == 0..MaxCrashes  M == 0..MaxCommands
  <2>1. MaxWrites \in W /\ MaxCrashes \in C /\ MaxCommands \in M
    BY HomeAssumption
  <2> HIDE DEF W, C, M
  <2>2. budget \in [writes : W, crashes : C, commands : M]
    BY <2>1 DEF HomeInit
  <2> QED
    BY <2>2 DEF Budgets, W, C, M
<1>7. present \in BOOLEAN /\ installed \in BOOLEAN /\ now \in 0..MaxSeconds
      /\ touched \in [Commands -> SUBSET Names]
  BY HomeAssumption DEF HomeInit
<1>8. HomeTypeOK
  BY <1>1, <1>2, <1>4, <1>5, <1>6, <1>7 DEF HomeTypeOK, Budgets
<1>9. ASSUME NEW p \in Commands PROVE Own(p)
  <2> DEFINE c == cmd[p]
  <2>0. Idle.at = "idle" /\ Idle.report = "" /\ Idle.lost = Nothing
    BY DEF Idle
  <2>1. c.at = "idle" /\ c.report = "" /\ c.lost = Nothing
    BY <1>4, <2>0
  <2>2. Files(Nothing) = {}
    BY DEF Files, Nothing
  <2> HIDE DEF HomeInit
  <2> QED
    BY <2>1, <2>2
    DEF Own, Staged, Filling, Filled, HasBackup, Watched, Covered, Restored, Imported
<1>10. \A p, q \in Commands : NoRival(p, q)
  <2>1. Idle.at = "idle"
    BY DEF Idle
  <2>2. \A p \in Commands : cmd[p].at = "idle"
    BY <1>4, <2>1
  <2> QED
    BY <2>2 DEF NoRival
<1> QED
  BY <1>8, <1>9, <1>10 DEF HomeInv

LEMMA StartKeeps ==
  ASSUME HomeInv, NEW p \in Commands, NEW verb \in Verbs, Start(p, verb)
  PROVE  HomeInv'
<1> DEFINE l == IF verb = "uninstall" /\ ~ present THEN "pip" ELSE First[verb]
           c == [at |-> l, verb |-> verb, todo |-> {}, seen |-> Nothing, place |-> Nowhere,
                 lost |-> Nothing, buffer |-> Absent, report |-> "", raced |-> FALSE]
<1>1. HomeTypeOK
  BY DEF HomeInv
<1>2. l \in {"open", "pip", "check", "merge", "export", "create", "update"}
      /\ (l = "create" => verb = "setup")
  BY DEF Verbs, First
<1>3. c \in Command
  <2> DEFINE P == Places \cup {Nowhere}  V == Verbs \cup {""}  B == Config \cup {Absent}
             T == SUBSET Names
  <2>1. l \in Stages /\ verb \in V /\ {} \in T /\ Nowhere \in P /\ Absent \in B
        /\ "" \in Outcomes /\ Nothing \in Homes
    <3>2. l \in Stages
      BY <1>2 DEF Stages
    <3> HIDE DEF l, c
    <3>3. verb \in V /\ {} \in T /\ Nowhere \in P /\ Absent \in B
      OBVIOUS
    <3>5. "" \in Outcomes
      BY DEF Outcomes
    <3>6. Nothing \in Homes
      BY SimpleContents
    <3> QED
      BY <3>2, <3>3, <3>5, <3>6
  <2>2. Command = [at : Stages, verb : V, todo : T, seen : Homes, place : P, lost : Homes,
                   buffer : B, report : Outcomes, raced : BOOLEAN]
    BY DEF Command
  <2> HIDE DEF P, V, B, T, l
  <2> QED
    BY <2>1, <2>2
<1>4. cmd' = [cmd EXCEPT ![p] = c]
  BY DEF Start
<1>5. c.at = l /\ c.verb = verb /\ c.place = Nowhere /\ c.lost = Nothing /\ c.report = ""
  OBVIOUS
<1> HIDE DEF c, l
<1>6. cmd'[p] = c
  BY <1>1, <1>4 DEF HomeTypeOK
<1>7. /\ UNCHANGED <<disk, archive, installed, now>> /\ portable' = portable
      /\ touched' = [touched EXCEPT ![p] = {}]
      /\ present' = (present \/ verb \in Creating)
      /\ budget.commands > 0 /\ budget' = [budget EXCEPT !.commands = @ - 1]
  BY DEF Start
<1>8. portable' \in Config /\ present' \in BOOLEAN
  BY <1>1, <1>7 DEF HomeTypeOK
<1>9. budget' \in Budgets
  BY <1>1, <1>7, HomeAssumption DEF HomeTypeOK, Budgets
<1>10. Staged(p)'
  BY <1>2, <1>5, <1>6 DEF Staged
<1>11. Filling(p)' /\ Filled(p)' /\ Watched(p)' /\ Covered(p)' /\ Restored(p)' /\ Imported(p)'
  BY <1>2, <1>5, <1>6, OtherStages
<1>13. Own(p)'
  BY <1>10, <1>11 DEF Own
<1>14. c.at # "add"
  BY <1>2, <1>5
<1> QED
  BY <1>3, <1>4, <1>5, <1>7, <1>8, <1>9, <1>13, <1>14, OwnStepKeeps

LEMMA OpenArchiveKeeps ==
  ASSUME HomeInv, NEW p \in Commands, OpenArchive(p)
  PROVE  HomeInv'
<1>1. HomeTypeOK /\ Own(p)
  BY DEF HomeInv
<1>2. cmd \in [Commands -> Command] /\ cmd[p] \in Command /\ cmd[p].at = "open"
      /\ archive \in [Places -> Archive] /\ disk \in Homes
  BY <1>1 DEF OpenArchive, At, HomeTypeOK
<1> DEFINE dir == IF cmd[p].verb = "uninstall" THEN "deye-uninstall-backups" ELSE "deye-backups"
<1>3. PICK a : a = <<dir, now>>
  OBVIOUS
<1>4. a \in Places /\ a # Nowhere
  BY <1>1, <1>3 DEF HomeTypeOK, Places, Nowhere
<1>5. PICK g \in BOOLEAN : g = (\E r \in Commands : At(r, "add") /\ cmd[r].place = a)
  OBVIOUS
<1> DEFINE ar == [state |-> "open", by |-> p, files |-> Nothing]
           c == [cmd[p] EXCEPT !.at = "add", !.place = a, !.todo = Files(disk), !.seen = disk,
                               !.raced = g]
<1>6. /\ archive' = [archive EXCEPT ![a] = ar]
      /\ cmd' = [q \in Commands |->
                   IF q = p THEN c ELSE [cmd[q] EXCEPT !.raced = @ \/ cmd[q].place = a]]
      /\ touched' = [touched EXCEPT ![p] = {}]
      /\ UNCHANGED present /\ UNCHANGED disk /\ UNCHANGED portable /\ UNCHANGED installed
      /\ UNCHANGED now /\ UNCHANGED budget
  BY <1>3, <1>5 DEF OpenArchive
<1>7. ar \in Archive /\ ar.by = p /\ ar.state = "open"
  <2> DEFINE S == {"absent", "open", "closed", "torn"}  B == Commands \cup {None}
  <2>1. "open" \in S /\ p \in B /\ Nothing \in Homes
    BY SimpleContents
  <2> HIDE DEF S, B
  <2>2. ar \in [state : S, by : B, files : Homes]
    BY <2>1
  <2> QED
    BY <2>2 DEF Archive, S, B
<1>8. /\ c \in Command
      /\ c.at = "add" /\ c.place = a /\ c.todo = Files(disk) /\ c.seen = disk /\ c.raced = g
      /\ c.lost = cmd[p].lost /\ c.report = cmd[p].report /\ c.verb = cmd[p].verb
  <2> DEFINE T == SUBSET Names  P == Places \cup {Nowhere}
  <2>1. "add" \in Stages /\ a \in P /\ Files(disk) \in T /\ disk \in Homes
    BY <1>2, <1>4 DEF Stages, Files
  <2>2. Command = [at : Stages, verb : Verbs \cup {""}, todo : T, seen : Homes,
                   place : P, lost : Homes, buffer : Config \cup {Absent},
                   report : Outcomes, raced : BOOLEAN]
    BY DEF Command
  <2> HIDE DEF T, P
  <2> QED
    BY <1>2, <2>1, <2>2
<1> HIDE DEF c, ar, dir
<1>9. cmd'[p] = c /\ archive'[a] = ar /\ \A b \in Places : b # a => archive'[b] = archive[b]
  BY <1>2, <1>4, <1>6
<1>10. touched \in [Commands -> SUBSET Names]
  BY <1>1 DEF HomeTypeOK
<1>11. touched' \in [Commands -> SUBSET Names] /\ touched'[p] = {}
       /\ \A q \in Commands \ {p} : touched'[q] = touched[q]
  BY <1>6, <1>10
<1>12. ASSUME NEW q \in Commands \ {p}
       PROVE  \E r \in BOOLEAN : /\ cmd'[q] = [cmd[q] EXCEPT !.raced = r]
                                 /\ r = (cmd[q].raced \/ cmd[q].place = a)
  <2>1. cmd[q] \in Command
    BY <1>2
  <2>2. cmd[q].raced \in BOOLEAN
    BY <2>1 DEF Command
  <2>3. PICK r \in BOOLEAN : r = (cmd[q].raced \/ cmd[q].place = a)
    BY <2>2
  <2>4. cmd'[q] = [cmd[q] EXCEPT !.raced = r]
    BY <1>6, <2>1, <2>3
  <2> QED
    BY <2>3, <2>4
<1>13. \A q \in Commands \ {p} :
          /\ cmd'[q] \in Command /\ cmd'[q].at = cmd[q].at /\ cmd'[q].place = cmd[q].place
          /\ cmd[q].raced = TRUE \/ cmd[q].place = a => cmd'[q].raced = TRUE
  <2> TAKE q \in Commands \ {p}
  <2>1. PICK r \in BOOLEAN : /\ cmd'[q] = [cmd[q] EXCEPT !.raced = r]
                             /\ r = (cmd[q].raced \/ cmd[q].place = a)
    BY <1>12
  <2>2. cmd[q] \in Command
    BY <1>2
  <2>3. cmd'[q] \in Command /\ cmd'[q].at = cmd[q].at /\ cmd'[q].place = cmd[q].place
        /\ cmd'[q].raced = r
    BY <2>1, <2>2 DEF Command
  <2> QED
    BY <2>1, <2>3
<1>14. HomeTypeOK'
  <2>1. cmd' \in [Commands -> Command]
    BY <1>6, <1>8, <1>9, <1>13
  <2>2. archive' \in [Places -> Archive]
    BY <1>2, <1>6, <1>7
  <2> QED
    BY <1>1, <1>6, <1>11, <2>1, <2>2 DEF HomeTypeOK
<1>15. Own(p)'
  <2>1. c.lost = Nothing /\ c.report = "" /\ Files(Nothing) = {}
        /\ \A f \in Names : Nothing[f] = Absent
    BY <1>1, <1>2, <1>8 DEF Own, Staged, Files, Nothing
  <2>2. Staged(p)'
    BY <1>4, <1>8, <1>9, <2>1 DEF Staged
  <2>3. Filling(p)'
    <3>1. Kept(p)' \ c.todo = {}
      BY <1>8, <1>9 DEF Kept, Files
    <3> QED
      BY <1>7, <1>8, <1>9, <3>1 DEF Filling
  <2>4. Filled(p)' /\ Covered(p)'
    BY <1>8, <1>9, <2>1 DEF Filled, HasBackup, Covered
  <2>5. Watched(p)'
    BY <1>6, <1>8, <1>9, <2>1 DEF Watched
  <2>6. Restored(p)' /\ Imported(p)'
    BY <1>8, <1>9, <2>1, OtherStages
  <2> QED
    BY <2>2, <2>3, <2>4, <2>5, <2>6 DEF Own
<1>16. ASSUME NEW q \in Commands \ {p} PROVE Own(q)'
  <2>1. PICK r \in BOOLEAN : /\ cmd'[q] = [cmd[q] EXCEPT !.raced = r]
                             /\ r = (cmd[q].raced \/ cmd[q].place = a)
    BY <1>12
  <2>2. Respected(q, r)
    BY <1>6, <1>9, <1>11, <2>1 DEF Respected
  <2> QED
    BY <1>1, <2>1, <2>2, BystanderKeeps DEF HomeInv
<1>17. ASSUME NEW q \in Commands, NEW r \in Commands PROVE NoRival(q, r)'
  <2>1. CASE q = r
    BY <2>1 DEF NoRival
  <2>2. CASE q # r /\ q = p
    <3>1. cmd'[r].at = cmd[r].at /\ cmd'[r].place = cmd[r].place
      BY <1>13, <2>2
    <3>2. ASSUME cmd[r].at = "add", cmd[r].place = a PROVE g = TRUE
      <4>1. \E s \in Commands : At(s, "add") /\ cmd[s].place = a
        BY <3>2 DEF At
      <4> QED
        BY <1>5, <4>1
    <3> QED
      BY <1>8, <1>9, <2>2, <3>1, <3>2 DEF NoRival
  <2>3. CASE q # r /\ r = p
    BY <1>8, <1>9, <1>13, <2>3 DEF NoRival
  <2>4. CASE q # r /\ q # p /\ r # p
    BY <1>13, <2>4 DEF HomeInv, NoRival
  <2> QED
    BY <2>1, <2>2, <2>3, <2>4
<1> QED
  BY <1>14, <1>15, <1>16, <1>17 DEF HomeInv

(* Adding a file, with c the record of p after it.                         *)
LEMMA AddFileKeeps ==
  ASSUME HomeInv, NEW p \in Commands, AddFile(p)
  PROVE  HomeInv'
<1>1. HomeTypeOK /\ Own(p)
  BY DEF HomeInv
<1>2. PICK f \in Names :
        /\ archive' = IF disk[f] = Absent THEN archive
                      ELSE IF Mine(p) THEN [archive EXCEPT ![cmd[p].place].files[f] = disk[f]]
                      ELSE [archive EXCEPT ![cmd[p].place].state = "torn"]
        /\ cmd' = [cmd EXCEPT ![p].todo = @ \ {f}]
  BY DEF AddFile
<1>3. cmd \in [Commands -> Command] /\ cmd[p] \in Command /\ cmd[p].at = "add"
      /\ archive \in [Places -> Archive] /\ disk \in Homes
  BY <1>1 DEF AddFile, At, HomeTypeOK
<1> DEFINE pl == cmd[p].place  todo == cmd[p].todo \ {f}  c == [cmd[p] EXCEPT !.todo = todo]
<1>4. pl \in Places
  BY <1>1, <1>3 DEF Own, Staged, Command
<1>5. cmd' = [cmd EXCEPT ![p] = c]
  BY <1>2, <1>3
<1>6. /\ c \in Command /\ c.at = "add" /\ c.todo = todo /\ c.place = pl /\ c.seen = cmd[p].seen
      /\ c.raced = cmd[p].raced /\ c.lost = cmd[p].lost /\ c.report = cmd[p].report
      /\ c.verb = cmd[p].verb
  BY <1>3 DEF Command
<1> DEFINE old == archive[pl]
           new == IF disk[f] = Absent THEN old
                  ELSE IF Mine(p) THEN [old EXCEPT !.files = [old.files EXCEPT ![f] = disk[f]]]
                  ELSE [old EXCEPT !.state = "torn"]
<1>7. old \in Archive
  BY <1>3, <1>4
<1>8. archive' = [archive EXCEPT ![pl] = new]
  <2>1. CASE disk[f] = Absent
    BY <1>2, <1>3, <2>1
  <2>2. CASE disk[f] # Absent /\ Mine(p)
    BY <1>2, <1>3, <1>4, <1>7, <2>2 DEF Archive
  <2>3. CASE disk[f] # Absent /\ ~ Mine(p)
    BY <1>2, <1>3, <1>4, <2>3
  <2> QED
    BY <2>1, <2>2, <2>3
<1>9. /\ new \in Archive
      /\ Mine(p) => /\ new.by = old.by /\ new.state = old.state
                    /\ disk[f] # Absent => new.files[f] = disk[f]
                    /\ \A g \in Names : g # f => new.files[g] = old.files[g]
  <2>1. CASE disk[f] = Absent
    BY <1>7, <2>1
  <2>2. CASE disk[f] # Absent /\ Mine(p)
    <3> DEFINE fs == [old.files EXCEPT ![f] = disk[f]]
    <3>1. old.files \in Homes
      BY <1>7 DEF Archive
    <3>2. fs \in Homes /\ fs[f] = disk[f] /\ \A g \in Names : g # f => fs[g] = old.files[g]
      <4>1. Fits(f, disk[f])
        BY <1>3, HomeHolds
      <4>2. old.files = [g \in Names |-> old.files[g]]
        BY <3>1, HomeHolds
      <4> QED
        BY <3>1, <4>1, <4>2, Rewritten
    <3> HIDE DEF fs, old
    <3>3. new = [old EXCEPT !.files = fs]
      BY <2>2 DEF fs
    <3> HIDE DEF new
    <3> QED
      BY <1>7, <3>2, <3>3 DEF Archive
  <2>3. CASE disk[f] # Absent /\ ~ Mine(p)
    <3>1. new = [old EXCEPT !.state = "torn"]
      BY <2>3
    <3> HIDE DEF old, new
    <3> QED
      BY <1>7, <2>3, <3>1 DEF Archive
  <2> QED
    BY <2>1, <2>2, <2>3
<1> HIDE DEF c, new
<1>10. cmd'[p] = c /\ archive'[pl] = new
  BY <1>3, <1>4, <1>5, <1>8
<1>11. UNCHANGED <<present, disk, portable, installed, now, touched, budget>>
  BY DEF AddFile
<1>12. Own(p)'
  <2>1. cmd[p].lost = Nothing /\ cmd[p].report = "" /\ Files(Nothing) = {}
    BY <1>1, <1>3 DEF Own, Staged, Files, Nothing
  <2>2. Staged(p)'
    BY <1>1, <1>3, <1>6, <1>10 DEF Own, Staged
  <2>3. Filling(p)'
    <3> SUFFICES ASSUME c.raced = FALSE
                 PROVE  /\ new.by = p /\ new.state = "open"
                        /\ \A g \in Kept(p)' \ todo : new.files[g] = cmd[p].seen[g]
      BY <1>6, <1>10 DEF Filling
    <3>1. /\ old.by = p /\ old.state = "open"
          /\ \A g \in Kept(p) \ cmd[p].todo : old.files[g] = cmd[p].seen[g]
      BY <1>1, <1>3, <1>6 DEF Own, Filling
    <3>2. Mine(p)
      BY <3>1 DEF Mine
    <3>3. Kept(p)' = Kept(p) /\ Kept(p) \subseteq Names
      BY <1>6, <1>10, <1>11 DEF Kept, Files
    <3>4. f \in Kept(p) => disk[f] = cmd[p].seen[f] /\ disk[f] # Absent
      <4>1. \A g \in Names \ touched[p] :
               disk[g] = IF cmd[p].lost[g] # Absent THEN Absent ELSE cmd[p].seen[g]
        BY <1>1, <1>3 DEF Own, Staged, Watched
      <4> QED
        BY <2>1, <4>1 DEF Kept, Files, Nothing
    <3> QED
      BY <1>9, <3>1, <3>2, <3>3, <3>4
  <2>4. Filled(p)' /\ Covered(p)'
    BY <1>6, <1>10, <2>1 DEF Filled, HasBackup, Covered
  <2>5. Watched(p)'
    BY <1>1, <1>3, <1>6, <1>10, <1>11 DEF Own, Watched
  <2>6. Restored(p)' /\ Imported(p)'
    BY <1>6, <1>10, <2>1, OtherStages
  <2> QED
    BY <2>2, <2>3, <2>4, <2>5, <2>6 DEF Own
<1>13. budget' \in Budgets
  BY <1>1, <1>11 DEF HomeTypeOK, Budgets
<1> QED
  BY <1>3, <1>5, <1>6, <1>8, <1>9, <1>11, <1>12, <1>13, ArchiveStepKeeps

(* with tarfile.open(...): the archive is closed, or spoilt.               *)
LEMMA ClosesLeaves ==
  ASSUME HomeTypeOK, NEW p \in Commands, cmd[p].place \in Places, Closes(p)
  PROVE  \E a \in Archive :
            /\ archive' = [archive EXCEPT ![cmd[p].place] = a] /\ archive'[cmd[p].place] = a
            /\ a.files = archive[cmd[p].place].files
            /\ archive[cmd[p].place].by = p /\ archive[cmd[p].place].state = "open" =>
                  a.state = "closed"
<1> DEFINE pl == cmd[p].place  old == archive[pl]
           s == IF Mine(p) /\ old.state = "open" THEN "closed" ELSE "torn"
           a == [old EXCEPT !.state = s]
<1>1. archive \in [Places -> Archive] /\ old \in Archive
  BY DEF HomeTypeOK
<1>2. archive' = [archive EXCEPT ![pl] = a]
  BY <1>1 DEF Closes
<1>3. s \in {"closed", "torn"} /\ (old.by = p /\ old.state = "open" => s = "closed")
  BY DEF Mine
<1> HIDE DEF s
<1>4. a \in Archive /\ a.files = old.files /\ a.state = s
  <2> HIDE DEF old
  <2> QED
    BY <1>1, <1>3 DEF Archive
<1> HIDE DEF a
<1>5. archive'[pl] = a
  BY <1>1, <1>2
<1> QED
  BY <1>2, <1>3, <1>4, <1>5

LEMMA AddRaisesKeeps ==
  ASSUME HomeInv, NEW p \in Commands, AddRaises(p)
  PROVE  HomeInv'
<1>1. HomeTypeOK /\ Own(p) /\ cmd[p].at = "add" /\ cmd[p] \in Command
  BY DEF HomeInv, AddRaises, At, HomeTypeOK
<1>2. cmd[p].place \in Places /\ cmd[p].lost = Nothing
  BY <1>1 DEF Own, Staged, Command
<1>3. Report(p, "raised") /\ Closes(p)
      /\ UNCHANGED <<present, disk, portable, installed, now, touched, budget>>
  BY DEF AddRaises
<1>4. "raised" \in Quiet /\ "raised" \in Outcomes
  BY DEF Quiet, Outcomes
<1>5. Own(p)'
  BY <1>2, <1>3, <1>4, QuietEnd
<1>6. PICK d \in Command : /\ cmd' = [cmd EXCEPT ![p] = d] /\ SameBut(cmd[p], d)
  BY <1>1, <1>3, <1>4, ReportLeaves
<1>7. PICK a \in Archive : archive' = [archive EXCEPT ![cmd[p].place] = a]
  BY <1>1, <1>2, <1>3, ClosesLeaves
<1>8. budget' \in Budgets
  BY <1>1, <1>3 DEF HomeTypeOK, Budgets
<1> QED
  BY <1>1, <1>3, <1>5, <1>6, <1>7, <1>8, ArchiveStepKeeps DEF SameBut

LEMMA CloseArchiveKeeps ==
  ASSUME HomeInv, NEW p \in Commands, CloseArchive(p)
  PROVE  HomeInv'
<1>1. HomeTypeOK /\ Own(p) /\ cmd[p].at = "add" /\ cmd[p] \in Command /\ cmd[p].todo = {}
  BY DEF HomeInv, CloseArchive, At, HomeTypeOK
<1>2. cmd[p].place \in Places /\ cmd[p].place # Nowhere /\ cmd[p].lost = Nothing
      /\ cmd[p].report = ""
  BY <1>1 DEF Own, Staged, Command
<1>3. Closes(p) /\ UNCHANGED <<present, disk, portable, installed, now, touched, budget>>
      /\ IF cmd[p].verb = "uninstall" THEN Continue(p, "pip") ELSE Report(p, "backup")
  BY DEF CloseArchive
<1>4. PICK a \in Archive :
         /\ archive' = [archive EXCEPT ![cmd[p].place] = a] /\ archive'[cmd[p].place] = a
         /\ a.files = archive[cmd[p].place].files
         /\ archive[cmd[p].place].by = p /\ archive[cmd[p].place].state = "open" =>
               a.state = "closed"
  BY <1>1, <1>2, <1>3, ClosesLeaves
<1>5. PICK d \in Command : /\ cmd' = [cmd EXCEPT ![p] = d] /\ cmd'[p] = d /\ SameBut(cmd[p], d)
                           /\ \/ d.at = "pip" /\ d.report = ""
                              \/ d.at = "idle" /\ d.report = "backup"
  <2>1. CASE cmd[p].verb = "uninstall"
    <3>1. "pip" \in Stages
      BY DEF Stages
    <3>2. Continue(p, "pip")
      BY <1>3, <2>1
    <3>3. PICK d \in Command : /\ cmd' = [cmd EXCEPT ![p] = d] /\ cmd'[p] = d /\ d.at = "pip"
                               /\ d.report = cmd[p].report /\ SameBut(cmd[p], d)
      BY <1>1, <3>1, <3>2, ContinueLeaves
    <3> QED
      BY <1>2, <3>3
  <2>2. CASE cmd[p].verb # "uninstall"
    <3>1. "backup" \in Outcomes
      BY DEF Outcomes
    <3>2. Report(p, "backup")
      BY <1>3, <2>2
    <3>3. PICK d \in Command : /\ cmd' = [cmd EXCEPT ![p] = d] /\ cmd'[p] = d /\ d.at = "idle"
                               /\ d.report = "backup" /\ SameBut(cmd[p], d)
      BY <1>1, <3>1, <3>2, ReportLeaves
    <3> QED
      BY <3>3
  <2> QED
    BY <2>1, <2>2
<1>6. d.place = cmd[p].place /\ d.raced = cmd[p].raced /\ d.lost = cmd[p].lost
      /\ d.seen = cmd[p].seen
  BY <1>5 DEF SameBut
<1>7. Files(Nothing) = {} /\ \A f \in Names : Nothing[f] = Absent
  BY DEF Files, Nothing
<1>8. Own(p)'
  <2>1. Staged(p)'
    BY <1>2, <1>5, <1>6 DEF Staged
  <2>2. Filling(p)' /\ Covered(p)'
    BY <1>2, <1>5, <1>6, <1>7 DEF Filling, Covered
  <2>3. Filled(p)'
    <3> SUFFICES ASSUME d.raced = FALSE
                 PROVE  a.state = "closed" /\ \A f \in Kept(p)' : a.files[f] = d.seen[f]
      <4>1. archive'[d.place] = a
        BY <1>4, <1>6
      <4>2. cmd'[p] = d
        BY <1>5
      <4> QED
        BY <4>1, <4>2 DEF Filled
    <3>1. /\ archive[cmd[p].place].by = p /\ archive[cmd[p].place].state = "open"
          /\ \A f \in Kept(p) : archive[cmd[p].place].files[f] = cmd[p].seen[f]
      BY <1>1, <1>6 DEF Own, Filling
    <3>2. Kept(p)' = Kept(p)
      BY <1>3, <1>5, <1>6 DEF Kept, Files
    <3> QED
      BY <1>4, <1>6, <3>1, <3>2
  <2>4. Watched(p)'
    <3>1. disk' = disk /\ touched' = touched /\ cmd'[p] = d
      BY <1>3, <1>5
    <3>2. cmd[p].place # Nowhere =>
             \A f \in Names \ touched[p] :
                disk[f] = IF cmd[p].lost[f] # Absent THEN Absent ELSE cmd[p].seen[f]
      BY <1>1, <1>2 DEF Own, Watched
    <3> QED
      BY <1>6, <3>1, <3>2 DEF Watched
  <2>5. Restored(p)' /\ Imported(p)'
    BY <1>5, OtherStages
  <2> QED
    BY <2>1, <2>2, <2>3, <2>4, <2>5 DEF Own
<1>9. budget' \in Budgets
  BY <1>1, <1>3 DEF HomeTypeOK, Budgets
<1> QED
  BY <1>1, <1>3, <1>4, <1>5, <1>6, <1>8, <1>9, ArchiveStepKeeps

(* A command that ends, and leaves all but itself as it was.               *)
LEMMA EndKeeps ==
  ASSUME HomeInv, NEW p \in Commands, NEW what \in Quiet, Report(p, what),
         cmd[p].lost = Nothing \/ touched' = touched,
         touched' = touched \/ touched' = [touched EXCEPT ![p] = {}],
         UNCHANGED <<disk, archive, now>>, installed' \in BOOLEAN \cup {installed},
         portable' \in Config,
         present' \in BOOLEAN, budget' \in Budgets
  PROVE  HomeInv'
<1>1. HomeTypeOK /\ what \in Outcomes /\ archive' = archive
  BY DEF HomeInv, Quiet
<1>2. Own(p)'
  BY <1>1, QuietEnd
<1>3. PICK d \in Command : /\ cmd' = [cmd EXCEPT ![p] = d] /\ d.at = "idle"
                           /\ SameBut(cmd[p], d)
  BY <1>1, ReportLeaves
<1> QED
  BY <1>2, <1>3, OwnStepKeeps DEF SameBut

LEMMA PipUninstallKeeps ==
  ASSUME HomeInv, NEW p \in Commands, PipUninstall(p)
  PROVE  HomeInv'
<1>1. HomeTypeOK /\ Own(p) /\ cmd[p].at = "pip" /\ cmd[p] \in Command
      /\ cmd \in [Commands -> Command]
  BY DEF HomeInv, PipUninstall, At, HomeTypeOK
<1>2. cmd[p].lost = Nothing /\ cmd[p].report = ""
  BY <1>1 DEF Own, Staged
<1>3. /\ UNCHANGED <<present, disk, archive, portable, now, touched, budget>>
      /\ installed' \in {installed, FALSE}
      /\ IF present /\ cmd[p].place # Nowhere
         THEN cmd' = [cmd EXCEPT ![p].at = "remove", ![p].todo = Files(disk)]
         ELSE Report(p, "uninstalled")
  BY DEF PipUninstall
<1>4. installed' \in BOOLEAN
  BY <1>1, <1>3 DEF HomeTypeOK
<1>5. CASE present /\ cmd[p].place # Nowhere
  <2> DEFINE todo == Files(disk)  c == [cmd[p] EXCEPT !.at = "remove", !.todo = todo]
  <2>1. cmd' = [cmd EXCEPT ![p] = c]
    BY <1>1, <1>3, <1>5
  <2>2. todo \in SUBSET Names /\ "remove" \in Stages
    BY DEF Files, Stages
  <2> HIDE DEF todo
  <2>3. /\ c \in Command /\ c.at = "remove" /\ c.place = cmd[p].place /\ c.seen = cmd[p].seen
        /\ c.raced = cmd[p].raced /\ c.lost = cmd[p].lost /\ c.report = cmd[p].report
    BY <1>1, <2>2 DEF Command
  <2> HIDE DEF c
  <2>4. cmd'[p] = c
    BY <1>1, <2>1
  <2>5. touched[p] \subseteq touched'[p] /\ disk' = disk /\ archive' = archive
    BY <1>1, <1>3 DEF HomeTypeOK
  <2>6. Files(Nothing) = {}
    BY DEF Files, Nothing
  <2>7. Staged(p)'
    BY <1>2, <1>5, <2>3, <2>4 DEF Staged
  <2>8. Filling(p)' /\ Covered(p)'
    BY <1>2, <2>3, <2>4, <2>6 DEF Filling, Covered
  <2>9. Filled(p)'
    <3>1. Kept(p)' \subseteq Kept(p)
      BY <2>3, <2>4, <2>5 DEF Kept, Files
    <3> QED
      BY <1>1, <1>5, <2>3, <2>4, <2>5, <3>1 DEF Own, Filled, HasBackup
  <2>10. Watched(p)'
    BY <1>1, <1>5, <2>3, <2>4, <2>5 DEF Own, Watched
  <2>11. Restored(p)' /\ Imported(p)'
    BY <1>2, <2>3, <2>4, OtherStages
  <2>12. Own(p)'
    BY <2>7, <2>8, <2>9, <2>10, <2>11 DEF Own
  <2> QED
    BY <1>1, <1>3, <1>4, <2>1, <2>3, <2>12, OwnStepKeeps DEF HomeTypeOK, Budgets
<1>6. CASE ~ (present /\ cmd[p].place # Nowhere)
  <2>1. Report(p, "uninstalled") /\ "uninstalled" \in Quiet
    BY <1>3, <1>6 DEF Quiet, Outcomes
  <2> QED
    BY <1>1, <1>3, <1>4, <2>1, EndKeeps DEF HomeTypeOK, Budgets
<1> QED
  BY <1>5, <1>6

LEMMA HomeTypes ==
  ASSUME HomeInv
  PROVE  /\ HomeTypeOK /\ cmd \in [Commands -> Command] /\ disk \in Homes
         /\ archive \in [Places -> Archive] /\ portable \in Config /\ present \in BOOLEAN
         /\ budget \in Budgets /\ installed \in BOOLEAN
         /\ touched \in [Commands -> SUBSET Names]
         /\ Files(Nothing) = {} /\ \A f \in Names : Nothing[f] = Absent
BY DEF HomeInv, HomeTypeOK, Budgets, Files, Nothing

LEMMA RemoveFileKeeps ==
  ASSUME HomeInv, NEW p \in Commands, RemoveFile(p)
  PROVE  HomeInv'
<1>1. Own(p) /\ cmd[p].at = "remove" /\ cmd[p] \in Command
  BY HomeTypes DEF HomeInv, RemoveFile, At
<1>2. cmd[p].place # Nowhere /\ cmd[p].report = ""
  BY <1>1 DEF Own, Staged
<1>3. PICK f \in cmd[p].todo :
        IF disk[f] = Absent
        THEN Report(p, "raised") /\ UNCHANGED <<disk, touched>>
        ELSE /\ disk' = [disk EXCEPT ![f] = Absent]
             /\ cmd' = [cmd EXCEPT ![p].todo = @ \ {f}, ![p].lost[f] = disk[f]]
             /\ Touches(p, f)
  BY DEF RemoveFile
<1>4. UNCHANGED <<present, archive, portable, installed, now, budget>>
  BY DEF RemoveFile
<1>5. f \in Names
  BY <1>1 DEF Command
<1>6. CASE disk[f] = Absent
  <2>1. "raised" \in Quiet
    BY DEF Quiet, Outcomes
  <2> QED
    BY <1>3, <1>4, <1>6, <2>1, HomeTypes, EndKeeps
<1>7. CASE disk[f] # Absent
  <2> DEFINE lost == [cmd[p].lost EXCEPT ![f] = disk[f]]  todo == cmd[p].todo \ {f}
             c == [cmd[p] EXCEPT !.todo = todo, !.lost = lost]
  <2>1. disk' = [disk EXCEPT ![f] = Absent] /\ Touches(p, f)
        /\ cmd' = [cmd EXCEPT ![p].todo = @ \ {f}, ![p].lost[f] = disk[f]]
    BY <1>3, <1>7
  <2>2. cmd' = [cmd EXCEPT ![p] = c]
    BY <1>1, <2>1, HomeTypes DEF Command
  <2>3. cmd[p].lost \in Homes /\ Fits(f, disk[f])
    BY <1>1, <1>5, HomeTypes, HomeHolds DEF Command
  <2>4. lost \in Homes /\ lost[f] = disk[f]
        /\ \A g \in Names : g # f => lost[g] = cmd[p].lost[g]
    <3>1. cmd[p].lost = [g \in Names |-> cmd[p].lost[g]]
      BY <2>3, HomeHolds
    <3>2. lost \in Homes
      BY <1>5, <2>3, Rewritten
    <3> QED
      BY <1>5, <3>1, <3>2
  <2>5. todo \in SUBSET Names
    BY <1>1 DEF Command
  <2> HIDE DEF lost, todo
  <2>6. /\ c \in Command /\ c.at = "remove" /\ c.place = cmd[p].place /\ c.seen = cmd[p].seen
        /\ c.raced = cmd[p].raced /\ c.lost = lost /\ c.report = cmd[p].report
    BY <1>1, <2>4, <2>5 DEF Command
  <2> HIDE DEF c
  <2>7. cmd'[p] = c /\ touched'[p] = touched[p] /\ archive' = archive
    BY <1>4, <2>1, <2>2, HomeTypes DEF Touches
  <2>8. disk'[f] = Absent /\ \A g \in Names : g # f => disk'[g] = disk[g]
    <3>1. disk = [g \in Names |-> disk[g]]
      BY HomeTypes, HomeHolds
    <3> QED
      BY <1>5, <2>1, <3>1
  <2>9. \A g \in Names \ touched[p] :
          disk[g] = IF cmd[p].lost[g] # Absent THEN Absent ELSE cmd[p].seen[g]
    BY <1>1, <1>2 DEF Own, Watched
  <2>10. Staged(p)'
    BY <1>2, <2>6, <2>7 DEF Staged
  <2>11. Filling(p)'
    BY <2>6, <2>7 DEF Filling
  <2>12. Kept(p)' = Kept(p)
    BY <2>6, <2>7 DEF Kept, Files
  <2>13. cmd[p].raced = FALSE => \A g \in Kept(p) : archive[cmd[p].place].files[g] = cmd[p].seen[g]
    BY <1>1, <1>2 DEF Own, Filled, HasBackup
  <2>14. Filled(p)'
    BY <1>1, <1>2, <2>6, <2>7, <2>12 DEF Own, Filled, HasBackup
  <2>15. Watched(p)'
    BY <1>7, <2>4, <2>6, <2>7, <2>8, <2>9 DEF Watched
  <2>16. Covered(p)'
    <3> SUFFICES ASSUME c.raced = FALSE, NEW g \in Files(lost), g \notin touched[p]
                 PROVE  archive[cmd[p].place].files[g] = lost[g]
      BY <1>2, <2>6, <2>7 DEF Covered, Files
    <3>1. g \in Names /\ lost[g] # Absent
      BY DEF Files
    <3>2. CASE g = f
      <4>1. disk[f] = cmd[p].seen[f]
        BY <1>7, <2>9, <3>1, <3>2
      <4>2. f \in Kept(p)
        BY <1>7, <3>1, <3>2, <4>1 DEF Kept, Files
      <4> QED
        BY <2>4, <2>6, <2>13, <3>2, <4>1, <4>2
    <3>3. CASE g # f
      <4>1. g \in Files(cmd[p].lost) /\ lost[g] = cmd[p].lost[g]
        BY <2>4, <3>1, <3>3 DEF Files
      <4> QED
        BY <1>1, <2>6, <4>1 DEF Own, Covered
    <3> QED
      BY <3>2, <3>3
  <2>17. Restored(p)' /\ Imported(p)'
    BY <1>2, <2>6, <2>7, OtherStages
  <2>18. Own(p)'
    BY <2>10, <2>11, <2>14, <2>15, <2>16, <2>17 DEF Own
  <2>19. Fits(f, Absent)
    BY <1>5, SimpleContents
  <2>20. present' \in BOOLEAN /\ UNCHANGED <<archive, portable, installed, now, budget>>
    BY <1>4, HomeTypes
  <2> QED
    BY <1>5, <2>1, <2>2, <2>6, <2>18, <2>19, <2>20, FileStepKeeps
<1> QED
  BY <1>6, <1>7

LEMMA RemoveHomeKeeps ==
  ASSUME HomeInv, NEW p \in Commands, RemoveHome(p)
  PROVE  HomeInv'
<1>1. PICK what \in {"removed", "raised"} : Report(p, what)
  BY DEF RemoveHome
<1>2. what \in Quiet
  BY <1>1 DEF Quiet, Outcomes
<1>3. UNCHANGED <<disk, archive, portable, installed, now, touched, budget>>
      /\ present' \in BOOLEAN
  BY HomeTypes DEF RemoveHome
<1> QED
  BY <1>1, <1>2, <1>3, HomeTypes, EndKeeps

LEMMA RestoreCheckKeeps ==
  ASSUME HomeInv, NEW p \in Commands, NEW a \in Places, NEW overwrite \in BOOLEAN,
         RestoreCheck(p, a, overwrite)
  PROVE  HomeInv'
<1>1. Own(p) /\ cmd[p].at = "check" /\ cmd[p] \in Command
  BY HomeTypes DEF HomeInv, RestoreCheck, At
<1>2. cmd[p].place = Nowhere /\ cmd[p].lost = Nothing /\ cmd[p].report = ""
  BY <1>1 DEF Own, Staged
<1>3. touched' = [touched EXCEPT ![p] = {}]
      /\ UNCHANGED <<present, disk, archive, portable, installed, now, budget>>
  BY DEF RestoreCheck
<1>4. CASE \E what \in {"refused", "raised"} : Report(p, what)
  <2>1. PICK what \in {"refused", "raised"} : Report(p, what)
    BY <1>4
  <2>2. what \in Quiet
    BY DEF Quiet, Outcomes
  <2> QED
    BY <1>2, <1>3, <2>1, <2>2, HomeTypes, EndKeeps
<1>5. CASE cmd' = [cmd EXCEPT ![p].at = "extract", ![p].seen = archive[a].files,
                              ![p].todo = Files(archive[a].files)]
  <2> DEFINE seen == archive[a].files  todo == Files(seen)
             c == [cmd[p] EXCEPT !.at = "extract", !.seen = seen, !.todo = todo]
  <2>1. seen \in Homes /\ todo \in SUBSET Names /\ "extract" \in Stages
    BY HomeTypes DEF Archive, Files, Stages
  <2>2. cmd' = [cmd EXCEPT ![p] = c]
    BY <1>5, HomeTypes
  <2> HIDE DEF seen
  <2>3. todo = Files(seen)
    OBVIOUS
  <2> HIDE DEF todo
  <2>4. /\ c \in Command /\ c.at = "extract" /\ c.seen = seen /\ c.todo = todo
        /\ c.place = Nowhere /\ c.lost = Nothing /\ c.report = ""
    BY <1>1, <1>2, <2>1 DEF Command
  <2> HIDE DEF c
  <2>5. cmd'[p] = c
    BY <2>2, HomeTypes
  <2>6. Staged(p)'
    BY <2>4, <2>5 DEF Staged
  <2>7. Restored(p)'
    <3>1. Kept(p)' \ c.todo = {}
      BY <2>3, <2>4, <2>5 DEF Kept, Files
    <3> QED
      BY <2>4, <2>5, <3>1 DEF Restored
  <2>8. Filling(p)' /\ Filled(p)' /\ Watched(p)' /\ Covered(p)' /\ Imported(p)'
    BY <2>4, <2>5, OtherStages
  <2>9. Own(p)'
    BY <2>6, <2>7, <2>8 DEF Own
  <2>10. portable' \in Config /\ present' \in BOOLEAN /\ budget' \in Budgets
    BY <1>3, HomeTypes
  <2> QED
    BY <1>3, <2>2, <2>4, <2>9, <2>10, OwnStepKeeps
<1> QED
  BY <1>4, <1>5 DEF RestoreCheck

LEMMA ExtractOpenKeeps ==
  ASSUME HomeInv, NEW p \in Commands, ExtractOpen(p)
  PROVE  HomeInv'
<1>1. Own(p) /\ cmd[p].at = "extract" /\ cmd[p] \in Command /\ HomeTypeOK
  BY HomeTypes DEF HomeInv, ExtractOpen, At
<1>2. cmd[p].place = Nowhere /\ cmd[p].lost = Nothing /\ cmd[p].report = ""
  BY <1>1 DEF Own, Staged
<1>3. PICK f \in Names :
        IsNext(f, cmd[p].todo) /\ disk' = [disk EXCEPT ![f] = Torn] /\ Touches(p, f)
  BY DEF ExtractOpen
<1>4. Continue(p, "fill") /\ present' \in BOOLEAN
      /\ UNCHANGED <<archive, portable, installed, now, budget>>
  BY DEF ExtractOpen
<1>5. "fill" \in Stages
  BY DEF Stages
<1>6. PICK d \in Command : /\ cmd' = [cmd EXCEPT ![p] = d] /\ cmd'[p] = d
                           /\ d.at = "fill" /\ d.report = cmd[p].report /\ d.todo = cmd[p].todo
                           /\ SameBut(cmd[p], d)
  BY <1>1, <1>4, <1>5, ContinueLeaves
<1>7. /\ d.place = cmd[p].place /\ d.raced = cmd[p].raced /\ d.lost = cmd[p].lost
      /\ d.seen = cmd[p].seen
  BY <1>6 DEF SameBut
<1>8. touched'[p] = touched[p]
  BY <1>3, HomeTypes DEF Touches
<1>9. disk'[f] = Torn /\ \A g \in Names : g # f => disk'[g] = disk[g]
  <2>1. disk = [g \in Names |-> disk[g]]
    BY HomeTypes, HomeHolds
  <2> QED
    BY <1>3, <2>1
<1>10. Staged(p)'
  BY <1>2, <1>6, <1>7 DEF Staged
<1>11. Restored(p)'
  <2>1. Kept(p)' = Kept(p) /\ Kept(p) \subseteq Names
    BY <1>6, <1>7, <1>8 DEF Kept, Files
  <2>2. \A g \in Kept(p) \ cmd[p].todo : disk[g] = cmd[p].seen[g]
    BY <1>1 DEF Own, Restored
  <2>3. f \in cmd[p].todo
    BY <1>3 DEF IsNext
  <2>4. \A g \in Kept(p)' \ d.todo : disk'[g] = d.seen[g]
    BY <1>6, <1>7, <1>9, <2>1, <2>2, <2>3
  <2>5. \A g \in Names : IsNext(g, d.todo) => disk'[g] = Torn
    BY <1>3, <1>6, <1>9, OneIsNext
  <2> QED
    BY <1>2, <1>6, <2>4, <2>5 DEF Restored
<1>12. Filling(p)' /\ Filled(p)' /\ Watched(p)' /\ Covered(p)' /\ Imported(p)'
  BY <1>2, <1>6, <1>7, OtherStages
<1>13. Own(p)'
  BY <1>10, <1>11, <1>12 DEF Own
<1>14. Fits(f, Torn)
  BY SimpleContents
<1> QED
  BY <1>3, <1>4, <1>6, <1>7, <1>13, <1>14, FileStepKeeps

(* Nobody else has it open: what is written is what was to be written.     *)
LEMMA WrittenIsText ==
  ASSUME NEW f \in Names, NEW text, NEW x \in Written(f, text)
  PROVE  /\ x \in {Absent, Torn, text}
         /\ disk[f] = Torn => x = text
BY HomeAssumption DEF Written

LEMMA ExtractFillKeeps ==
  ASSUME HomeInv, NEW p \in Commands, ExtractFill(p)
  PROVE  HomeInv'
<1>1. Own(p) /\ cmd[p].at = "fill" /\ cmd[p] \in Command
  BY HomeTypes DEF HomeInv, ExtractFill, At
<1>2. cmd[p].place = Nowhere /\ cmd[p].lost = Nothing /\ cmd[p].report = ""
  BY <1>1 DEF Own, Staged
<1>3. PICK f \in Names :
        /\ IsNext(f, cmd[p].todo) /\ Touches(p, f)
        /\ \E x \in Written(f, cmd[p].seen[f]) : disk' = [disk EXCEPT ![f] = x]
        /\ cmd' = [cmd EXCEPT ![p].at = "extract", ![p].todo = @ \ {f}]
  BY DEF ExtractFill
<1>3a. PICK x \in Written(f, cmd[p].seen[f]) : disk' = [disk EXCEPT ![f] = x]
  BY <1>3
<1>4. UNCHANGED <<present, archive, portable, installed, now, budget>>
  BY DEF ExtractFill
<1> DEFINE todo == cmd[p].todo \ {f}  c == [cmd[p] EXCEPT !.at = "extract", !.todo = todo]
<1>5. cmd' = [cmd EXCEPT ![p] = c]
  BY <1>3, HomeTypes
<1>6. todo \in SUBSET Names /\ "extract" \in Stages
  BY <1>1 DEF Command, Stages
<1> HIDE DEF todo
<1>7. /\ c \in Command /\ c.at = "extract" /\ c.todo = todo /\ c.place = cmd[p].place
      /\ c.raced = cmd[p].raced /\ c.lost = Nothing /\ c.report = "" /\ c.seen = cmd[p].seen
  BY <1>1, <1>2, <1>6 DEF Command
<1> HIDE DEF c
<1>8. cmd'[p] = c /\ touched'[p] = touched[p]
  BY <1>3, <1>5, HomeTypes DEF Touches
<1>9. disk'[f] = x /\ \A g \in Names : g # f => disk'[g] = disk[g]
  <2>1. disk = [g \in Names |-> disk[g]]
    BY HomeTypes, HomeHolds
  <2> QED
    BY <1>3a, <2>1
<1>10. Staged(p)'
  BY <1>2, <1>7, <1>8 DEF Staged
<1>11. Restored(p)'
  <2>1. Kept(p)' = Kept(p) /\ Kept(p) \subseteq Names \ touched[p]
    BY <1>7, <1>8 DEF Kept, Files
  <2>2. \A g \in Kept(p) \ cmd[p].todo : disk[g] = cmd[p].seen[g]
    BY <1>1 DEF Own, Restored
  <2>3. f \in Kept(p) => x = cmd[p].seen[f]
    BY <1>1, <1>3, <2>1, WrittenIsText DEF Own, Restored
  <2>4. \A g \in Kept(p)' \ c.todo : disk'[g] = c.seen[g]
    BY <1>7, <1>9, <2>1, <2>2, <2>3 DEF todo
  <2> QED
    BY <1>7, <1>8, <2>4 DEF Restored
<1>12. Filling(p)' /\ Filled(p)' /\ Watched(p)' /\ Covered(p)' /\ Imported(p)'
  BY <1>2, <1>7, <1>8, OtherStages
<1>13. Own(p)'
  BY <1>10, <1>11, <1>12 DEF Own
<1>14. Fits(f, x)
  <2>1. cmd[p].seen \in Homes
    BY <1>1 DEF Command
  <2>2. Fits(f, cmd[p].seen[f]) /\ Fits(f, Absent) /\ Fits(f, Torn)
    BY <2>1, HomeHolds, SimpleContents
  <2>3. x \in {Absent, Torn, cmd[p].seen[f]}
    BY WrittenIsText
  <2> QED
    BY <2>2, <2>3
<1>15. present' \in BOOLEAN /\ UNCHANGED <<archive, portable, installed, now, budget>>
  BY <1>4, HomeTypes
<1>16. c.at # "add"
  BY <1>7
<1> QED
  BY <1>3, <1>3a, <1>5, <1>7, <1>13, <1>14, <1>15, <1>16, FileStepKeeps

LEMMA RestoreDoneKeeps ==
  ASSUME HomeInv, NEW p \in Commands, RestoreDone(p)
  PROVE  HomeInv'
<1>1. Own(p) /\ cmd[p].at = "extract" /\ cmd[p].todo = {} /\ cmd[p] \in Command /\ HomeTypeOK
  BY HomeTypes DEF HomeInv, RestoreDone, At
<1>2. cmd[p].place = Nowhere /\ cmd[p].lost = Nothing
  BY <1>1 DEF Own, Staged
<1>3. Report(p, "restored")
      /\ UNCHANGED <<present, disk, archive, portable, installed, now, touched, budget>>
  BY DEF RestoreDone
<1>4. "restored" \in Outcomes
  BY DEF Outcomes
<1>5. PICK d \in Command : /\ cmd' = [cmd EXCEPT ![p] = d] /\ cmd'[p] = d
                           /\ d.at = "idle" /\ d.report = "restored" /\ d.todo = {}
                           /\ SameBut(cmd[p], d)
  BY <1>1, <1>3, <1>4, ReportLeaves
<1>6. /\ d.place = cmd[p].place /\ d.raced = cmd[p].raced /\ d.lost = cmd[p].lost
      /\ d.seen = cmd[p].seen
  BY <1>5 DEF SameBut
<1>7. Staged(p)'
  BY <1>5 DEF Staged
<1>8. Restored(p)'
  <2>1. Kept(p)' = Kept(p)
    BY <1>3, <1>5, <1>6 DEF Kept, Files
  <2>2. \A g \in Kept(p) \ cmd[p].todo : disk[g] = cmd[p].seen[g]
    BY <1>1 DEF Own, Restored
  <2> QED
    BY <1>1, <1>3, <1>5, <1>6, <2>1, <2>2 DEF Restored
<1>9. Filling(p)' /\ Filled(p)' /\ Watched(p)' /\ Covered(p)' /\ Imported(p)'
  BY <1>2, <1>5, <1>6, OtherStages
<1>10. Own(p)'
  BY <1>7, <1>8, <1>9 DEF Own
<1>11. portable' \in Config /\ present' \in BOOLEAN /\ budget' \in Budgets
  BY <1>3, HomeTypes
<1> QED
  BY <1>3, <1>5, <1>6, <1>10, <1>11, OwnStepKeeps

LEMMA MergeKeeps ==
  ASSUME HomeInv, NEW p \in Commands, Merge(p)
  PROVE  HomeInv'
<1>1. Own(p) /\ cmd[p].at = "merge" /\ cmd[p] \in Command
  BY HomeTypes DEF HomeInv, Merge, At
<1>2. cmd[p].place = Nowhere /\ cmd[p].lost = Nothing /\ cmd[p].report = ""
  BY <1>1 DEF Own, Staged
<1>3. touched' = [touched EXCEPT ![p] = {}]
      /\ UNCHANGED <<present, disk, archive, portable, installed, now, budget>>
  BY DEF Merge
<1>4. CASE disk[CONFIG] = Torn
  <2>1. Report(p, "raised") /\ "raised" \in Quiet
    BY <1>4 DEF Merge, Quiet, Outcomes
  <2> QED
    BY <1>2, <1>3, <2>1, HomeTypes, EndKeeps
<1>5. CASE disk[CONFIG] # Torn
  <2> DEFINE current == IF disk[CONFIG] = Absent THEN NoKeys ELSE disk[CONFIG]
             merged == Merged(current, portable)
             c == [cmd[p] EXCEPT !.at = "truncate", !.seen = disk, !.buffer = merged]
  <2>1. cmd' = [cmd EXCEPT ![p].at = "truncate", ![p].seen = disk, ![p].buffer = merged]
    BY <1>5 DEF Merge
  <2>2. cmd' = [cmd EXCEPT ![p] = c]
    BY <2>1, HomeTypes
  <2>3. disk[CONFIG] \in Settings
    BY HomeTypes, HomeHolds, SimpleContents DEF Fits
  <2>4. current \in Config
    BY <1>5, <2>3 DEF Settings, NoKeys, Config
  <2> HIDE DEF current
  <2>5. merged \in Config /\ KeepsKeys(merged, current)
    BY <2>4, HomeTypes DEF Merged, Config, KeepsKeys
  <2>6. disk[CONFIG] # Absent => KeepsKeys(merged, disk[CONFIG])
    BY <2>5 DEF current
  <2> HIDE DEF merged
  <2>7. "truncate" \in Stages
    BY DEF Stages
  <2>8. /\ c \in Command /\ c.at = "truncate" /\ c.seen = disk /\ c.buffer = merged
        /\ c.place = Nowhere /\ c.lost = Nothing /\ c.report = ""
    BY <1>1, <1>2, <2>5, <2>7, HomeTypes DEF Command
  <2> HIDE DEF c
  <2>9. cmd'[p] = c
    BY <2>2, HomeTypes
  <2>10. Staged(p)'
    BY <2>8, <2>9 DEF Staged
  <2>11. Imported(p)'
    BY <2>5, <2>6, <2>8, <2>9 DEF Imported
  <2>12. Filling(p)' /\ Filled(p)' /\ Watched(p)' /\ Covered(p)' /\ Restored(p)'
    BY <2>8, <2>9, OtherStages
  <2>13. Own(p)'
    BY <2>10, <2>11, <2>12 DEF Own
  <2>14. portable' \in Config /\ present' \in BOOLEAN /\ budget' \in Budgets
    BY <1>3, HomeTypes
  <2> QED
    BY <1>3, <2>2, <2>8, <2>13, <2>14, OwnStepKeeps
<1> QED
  BY <1>4, <1>5

LEMMA CreateKeeps ==
  ASSUME HomeInv, NEW p \in Commands, Create(p)
  PROVE  HomeInv'
<1>1. Own(p) /\ cmd[p].at = "create" /\ cmd[p] \in Command
  BY HomeTypes DEF HomeInv, Create, At
<1>2. cmd[p].place = Nowhere /\ cmd[p].lost = Nothing /\ cmd[p].report = ""
      /\ cmd[p].verb = "setup"
  BY <1>1 DEF Own, Staged
<1>3. UNCHANGED <<present, disk, archive, portable, installed, now, touched, budget>>
  BY DEF Create
<1>4. CASE disk[CONFIG] # Absent
  <2>1. Report(p, "set up") /\ "set up" \in Quiet
    BY <1>4 DEF Create, Quiet, Outcomes
  <2> QED
    BY <1>2, <1>3, <2>1, HomeTypes, EndKeeps
<1>5. CASE disk[CONFIG] = Absent
  <2> DEFINE buffer == [NoKeys EXCEPT !.search_provider = Default]
             c == [cmd[p] EXCEPT !.at = "truncate", !.buffer = buffer]
  <2>1. cmd' = [cmd EXCEPT ![p].at = "truncate", ![p].buffer = buffer]
    BY <1>5 DEF Create
  <2>2. cmd' = [cmd EXCEPT ![p] = c]
    BY <2>1, HomeTypes
  <2>3. buffer \in Config /\ "truncate" \in Stages
    BY HomeAssumption DEF NoKeys, Config, Stages
  <2> HIDE DEF buffer
  <2>4. /\ c \in Command /\ c.at = "truncate" /\ c.verb = "setup" /\ c.buffer = buffer
        /\ c.place = Nowhere /\ c.lost = Nothing /\ c.report = ""
    BY <1>1, <1>2, <2>3 DEF Command
  <2> HIDE DEF c
  <2>5. cmd'[p] = c
    BY <2>2, HomeTypes
  <2>6. Staged(p)'
    BY <2>4, <2>5 DEF Staged
  <2>7. Imported(p)'
    BY <2>3, <2>4, <2>5 DEF Imported
  <2>8. Filling(p)' /\ Filled(p)' /\ Watched(p)' /\ Covered(p)' /\ Restored(p)'
    BY <2>4, <2>5, OtherStages
  <2>9. Own(p)'
    BY <2>6, <2>7, <2>8 DEF Own
  <2>10. portable' \in Config /\ present' \in BOOLEAN /\ budget' \in Budgets
    BY <1>3, HomeTypes
  <2> QED
    BY <1>3, <2>2, <2>4, <2>9, <2>10, OwnStepKeeps
<1> QED
  BY <1>4, <1>5

LEMMA OpenConfigKeeps ==
  ASSUME HomeInv, NEW p \in Commands, OpenConfig(p)
  PROVE  HomeInv'
<1>1. Own(p) /\ cmd[p].at = "truncate" /\ cmd[p] \in Command /\ HomeTypeOK
  BY HomeTypes DEF HomeInv, OpenConfig, At
<1>2. cmd[p].place = Nowhere /\ cmd[p].lost = Nothing /\ cmd[p].report = ""
  BY <1>1 DEF Own, Staged
<1>3. UNCHANGED <<present, archive, portable, installed, now, budget>>
  BY DEF OpenConfig
<1>4. CASE present
  <2>1. disk' = [disk EXCEPT ![CONFIG] = Torn] /\ Continue(p, "write") /\ Touches(p, CONFIG)
    BY <1>4 DEF OpenConfig
  <2>2. "write" \in Stages
    BY DEF Stages
  <2>3. PICK d \in Command : /\ cmd' = [cmd EXCEPT ![p] = d] /\ cmd'[p] = d
                             /\ d.at = "write" /\ d.report = cmd[p].report
                             /\ d.buffer = cmd[p].buffer /\ SameBut(cmd[p], d)
    BY <1>1, <2>1, <2>2, ContinueLeaves
  <2>4. /\ d.place = cmd[p].place /\ d.raced = cmd[p].raced /\ d.lost = cmd[p].lost
        /\ d.seen = cmd[p].seen /\ d.verb = cmd[p].verb
    BY <2>3 DEF SameBut
  <2>5. disk'[CONFIG] = Torn
    <3>1. disk = [g \in Names |-> disk[g]] /\ CONFIG \in Names
      BY HomeTypes, HomeHolds, SimpleContents
    <3> QED
      BY <2>1, <3>1
  <2>6. Staged(p)'
    BY <1>2, <2>3, <2>4 DEF Staged
  <2>7. Imported(p)'
    BY <1>1, <1>2, <2>3, <2>4, <2>5 DEF Own, Imported
  <2>8. Filling(p)' /\ Filled(p)' /\ Watched(p)' /\ Covered(p)' /\ Restored(p)'
    BY <1>2, <2>3, <2>4, OtherStages
  <2>9. Own(p)'
    BY <2>6, <2>7, <2>8 DEF Own
  <2>10. Fits(CONFIG, Torn) /\ CONFIG \in Names
    BY SimpleContents
  <2>11. present' \in BOOLEAN /\ UNCHANGED <<archive, portable, installed, now, budget>>
    BY <1>3, HomeTypes
  <2> QED
    BY <2>1, <2>3, <2>4, <2>9, <2>10, <2>11, FileStepKeeps
<1>5. CASE ~ present
  <2>1. Report(p, "raised") /\ UNCHANGED <<disk, touched>> /\ "raised" \in Quiet
    BY <1>5 DEF OpenConfig, Quiet, Outcomes
  <2> QED
    BY <1>3, <2>1, HomeTypes, EndKeeps
<1> QED
  BY <1>4, <1>5

LEMMA WriteConfigKeeps ==
  ASSUME HomeInv, NEW p \in Commands, WriteConfig(p)
  PROVE  HomeInv'
<1>1. Own(p) /\ cmd[p].at = "write" /\ cmd[p] \in Command /\ HomeTypeOK
  BY HomeTypes DEF HomeInv, WriteConfig, At
<1>2. cmd[p].place = Nowhere /\ cmd[p].lost = Nothing /\ cmd[p].buffer \in Config
  BY <1>1 DEF Own, Staged, Imported
<1>3. PICK x \in Written(CONFIG, cmd[p].buffer) : disk' = [disk EXCEPT ![CONFIG] = x]
  BY DEF WriteConfig
<1> DEFINE what == IF cmd[p].verb = "setup" THEN "set up" ELSE "imported"
<1>4. Report(p, what) /\ Touches(p, CONFIG)
      /\ UNCHANGED <<present, archive, portable, installed, now, budget>>
  BY DEF WriteConfig
<1>5. what \in Outcomes /\ what \in {"set up", "imported"}
      /\ (what = "imported" => cmd[p].verb # "setup")
  BY DEF Outcomes
<1> HIDE DEF what
<1>6. PICK d \in Command : /\ cmd' = [cmd EXCEPT ![p] = d] /\ cmd'[p] = d
                           /\ d.at = "idle" /\ d.report = what /\ d.todo = {}
                           /\ SameBut(cmd[p], d)
  BY <1>1, <1>4, <1>5, ReportLeaves
<1>7. /\ d.place = cmd[p].place /\ d.raced = cmd[p].raced /\ d.lost = cmd[p].lost
      /\ d.seen = cmd[p].seen
  BY <1>6 DEF SameBut
<1>8. touched'[p] = touched[p] /\ CONFIG \in Names
  BY <1>4, HomeTypes, SimpleContents DEF Touches
<1>9. disk'[CONFIG] = x
  <2>1. disk = [g \in Names |-> disk[g]]
    BY HomeTypes, HomeHolds
  <2> QED
    BY <1>3, <1>8, <2>1
<1>10. Staged(p)'
  BY <1>5, <1>6 DEF Staged
<1>11. Imported(p)'
  <2> SUFFICES ASSUME what = "imported", CONFIG \notin touched[p], cmd[p].seen[CONFIG] # Absent
               PROVE  KeepsKeys(x, cmd[p].seen[CONFIG])
    BY <1>6, <1>7, <1>8, <1>9 DEF Imported
  <2>1. disk[CONFIG] = Torn /\ KeepsKeys(cmd[p].buffer, cmd[p].seen[CONFIG])
    BY <1>1, <1>5 DEF Own, Imported
  <2>2. x = cmd[p].buffer
    BY <1>8, <2>1, WrittenIsText
  <2> QED
    BY <2>1, <2>2
<1>12. Filling(p)' /\ Filled(p)' /\ Watched(p)' /\ Covered(p)' /\ Restored(p)'
  BY <1>2, <1>5, <1>6, <1>7, OtherStages
<1>13. Own(p)'
  BY <1>10, <1>11, <1>12 DEF Own
<1>14. Fits(CONFIG, x)
  <2>1. x \in {Absent, Torn, cmd[p].buffer}
    BY <1>8, WrittenIsText
  <2> QED
    BY <1>2, <2>1 DEF Fits, Settings
<1>15. present' \in BOOLEAN /\ UNCHANGED <<archive, portable, installed, now, budget>>
  BY <1>4, HomeTypes
<1> QED
  BY <1>3, <1>4, <1>6, <1>7, <1>8, <1>13, <1>14, <1>15, FileStepKeeps

LEMMA ExportKeeps ==
  ASSUME HomeInv, NEW p \in Commands, Export(p)
  PROVE  HomeInv'
<1>1. PICK what \in {"raised", "exported"} : Report(p, what)
  BY DEF Export
<1>2. what \in Quiet
  BY DEF Quiet, Outcomes
<1>3. UNCHANGED <<present, disk, archive, installed, now, touched, budget>>
  BY DEF Export
<1>4. portable' \in Config
  <2>1. disk[CONFIG] \in Settings /\ NoKeys \in Config
    BY HomeTypes, HomeHolds, SimpleContents DEF Fits, NoKeys, Config
  <2> QED
    BY <2>1, HomeTypes DEF Export, Settings
<1> QED
  BY <1>1, <1>2, <1>3, <1>4, HomeTypes, EndKeeps

LEMMA ApplyUpdateKeeps ==
  ASSUME HomeInv, NEW p \in Commands, ApplyUpdate(p)
  PROVE  HomeInv'
<1>1. "updated" \in Quiet
  BY DEF Quiet, Outcomes
<1>2. installed' \in BOOLEAN
  BY HomeTypes DEF ApplyUpdate
<1>3. UNCHANGED <<present, disk, archive, portable, now, touched, budget>> /\ Report(p, "updated")
  BY DEF ApplyUpdate
<1> QED
  BY <1>1, <1>2, <1>3, HomeTypes, EndKeeps

LEMMA SkipUpdateKeeps ==
  ASSUME HomeInv, NEW p \in Commands, SkipUpdate(p)
  PROVE  HomeInv'
<1>1. "skipped" \in Quiet
  BY DEF Quiet, Outcomes
<1> QED
  BY <1>1, HomeTypes, EndKeeps DEF SkipUpdate

LEMMA CommandDiesKeeps ==
  ASSUME HomeInv, NEW p \in Commands, CommandDies(p)
  PROVE  HomeInv'
<1>1. "died" \in Quiet /\ "died" \in Outcomes
  BY DEF Quiet, Outcomes
<1>2. /\ budget.crashes > 0 /\ budget' = [budget EXCEPT !.crashes = @ - 1] /\ Report(p, "died")
      /\ archive' = IF At(p, "add") THEN [archive EXCEPT ![cmd[p].place].state = "torn"]
                    ELSE archive
      /\ UNCHANGED <<present, disk, portable, installed, now, touched>>
  BY DEF CommandDies
<1>3. budget' \in Budgets
  BY <1>2, HomeTypes, HomeAssumption DEF Budgets
<1>4. CASE cmd[p].at = "add"
  <2>1. Own(p) /\ cmd[p] \in Command
    BY HomeTypes DEF HomeInv
  <2>2. cmd[p].lost = Nothing /\ cmd[p].place \in Places
    BY <1>4, <2>1 DEF Own, Staged, Command
  <2>3. Own(p)'
    BY <1>1, <1>2, <2>2, QuietEnd
  <2>4. PICK d \in Command : cmd' = [cmd EXCEPT ![p] = d] /\ SameBut(cmd[p], d)
    BY <1>1, <1>2, HomeTypes, ReportLeaves
  <2> DEFINE a == [archive[cmd[p].place] EXCEPT !.state = "torn"]
  <2>5. archive[cmd[p].place] \in Archive
    BY <2>2, HomeTypes
  <2>6. a \in Archive
    BY <2>5 DEF Archive
  <2>7. archive' = [archive EXCEPT ![cmd[p].place] = a]
    BY <1>2, <1>4, <2>2, HomeTypes DEF At
  <2> HIDE DEF a
  <2> QED
    BY <1>2, <1>3, <1>4, <2>3, <2>4, <2>6, <2>7, ArchiveStepKeeps DEF SameBut
<1>5. CASE cmd[p].at # "add"
  <2>1. archive' = archive
    BY <1>2, <1>5 DEF At
  <2>2. portable' \in Config /\ present' \in BOOLEAN
    BY <1>2, HomeTypes
  <2> QED
    BY <1>1, <1>2, <1>3, <2>1, <2>2, EndKeeps
<1> QED
  BY <1>4, <1>5

-----------------------------------------------------------------------------
(* The rest of the world.                                                  *)
LEMMA OutsideKeeps ==
  ASSUME HomeInv, HomeTypeOK', cmd' = cmd, archive' = archive, installed' = installed,
         \A p \in Commands : /\ touched[p] \subseteq touched'[p]
                             /\ \A f \in Names : disk'[f] = disk[f] \/ f \in touched'[p]
  PROVE  HomeInv'
<1>1. ASSUME NEW p \in Commands PROVE Own(p)'
  <2>1. cmd[p].raced \in BOOLEAN /\ cmd[p] \in Command
    BY HomeTypes DEF Command
  <2>2. cmd'[p] = [cmd[p] EXCEPT !.raced = cmd[p].raced]
    BY <2>1 DEF Command
  <2>3. Respected(p, cmd[p].raced)
    BY <2>1 DEF Respected
  <2> QED
    BY <2>2, <2>3, BystanderKeeps DEF HomeInv
<1>2. \A p, q \in Commands : NoRival(p, q)'
  BY DEF HomeInv, NoRival
<1> QED
  BY <1>1, <1>2 DEF HomeInv

LEMMA DataStepKeeps ==
  ASSUME HomeInv, NEW f \in ToSet(DataFiles), NEW x, Fits(f, x), disk' = [disk EXCEPT ![f] = x],
         Touches(None, f), present' \in BOOLEAN, budget' \in Budgets,
         UNCHANGED <<archive, portable, installed, now, cmd>>
  PROVE  HomeInv'
<1>1. f \in Names /\ None \notin Commands
  BY HomeAssumption DEF Names
<1>2. disk' \in Homes /\ \A g \in Names : g # f => disk'[g] = disk[g]
  <2>1. disk = [g \in Names |-> disk[g]]
    BY HomeTypes, HomeHolds
  <2>2. disk' \in Homes
    BY <1>1, HomeTypes, Rewritten
  <2> QED
    BY <1>1, <2>1, <2>2
<1>3. /\ touched' \in [Commands -> SUBSET Names]
      /\ \A p \in Commands : touched'[p] = touched[p] \cup {f}
  BY <1>1, HomeTypes DEF Touches
<1>4. UNCHANGED archive /\ UNCHANGED portable /\ UNCHANGED installed /\ UNCHANGED now
      /\ UNCHANGED cmd
  OBVIOUS
<1>5. HomeTypeOK'
  <2>1. archive' \in [Places -> Archive] /\ cmd' \in [Commands -> Command]
    BY <1>4, HomeTypes
  <2>2. installed' \in BOOLEAN /\ now' \in 0..MaxSeconds /\ portable' \in Config
    BY <1>4, HomeTypes DEF HomeTypeOK
  <2>3. disk' \in Homes /\ present' \in BOOLEAN
    BY <1>2, <1>3
  <2>4. touched' \in [Commands -> SUBSET Names]
    BY <1>2, <1>3, HomeTypes
  <2>5. budget' \in Budgets
    OBVIOUS
  <2> QED
    BY <2>1, <2>2, <2>3, <2>4, <2>5 DEF HomeTypeOK, Budgets
<1> QED
  BY <1>2, <1>3, <1>4, <1>5, OutsideKeeps

LEMMA WriteDataKeeps ==
  ASSUME HomeInv, NEW f \in ToSet(DataFiles), WriteData(f)
  PROVE  HomeInv'
<1>1. /\ budget.writes > 0 /\ budget' = [budget EXCEPT !.writes = @ - 1]
      /\ disk' = [disk EXCEPT ![f] = 2 + MaxWrites - budget.writes]
      /\ present' = TRUE /\ Touches(None, f)
      /\ UNCHANGED <<archive, portable, installed, now, cmd>>
  BY DEF WriteData
<1>2. budget' \in Budgets /\ budget.writes \in 0..MaxWrites
  <2>1. budget \in [writes : 0..MaxWrites, crashes : 0..MaxCrashes, commands : 0..MaxCommands]
    BY HomeTypes DEF Budgets
  <2>2. budget.writes \in 0..MaxWrites /\ budget.writes - 1 \in 0..MaxWrites
    BY <1>1, <2>1, HomeAssumption
  <2>3. budget' \in [writes : 0..MaxWrites, crashes : 0..MaxCrashes, commands : 0..MaxCommands]
    BY <1>1, <2>1, <2>2
  <2> QED
    BY <2>2, <2>3 DEF Budgets
<1> DEFINE x == 2 + MaxWrites - budget.writes
<1>3. x \in 1..(MaxWrites + 1)
  BY <1>1, <1>2, HomeAssumption
<1> HIDE DEF x
<1>4. Fits(f, x)
  BY <1>3, HomeAssumption DEF Fits, Data
<1>5. disk' = [disk EXCEPT ![f] = x]
  BY <1>1 DEF x
<1> QED
  BY <1>1, <1>2, <1>4, <1>5, DataStepKeeps

LEMMA DeleteDataKeeps ==
  ASSUME HomeInv, NEW f \in ToSet(DataFiles), DeleteData(f)
  PROVE  HomeInv'
<1>1. Fits(f, Absent)
  BY SimpleContents DEF Names
<1>2. budget' \in Budgets /\ present' \in BOOLEAN
  BY HomeTypes DEF DeleteData
<1> QED
  BY <1>1, <1>2, DataStepKeeps DEF DeleteData

LEMMA HomeTickKeeps == ASSUME HomeInv, HomeTick PROVE HomeInv'
<1>1. now < MaxSeconds /\ now' = now + 1
      /\ UNCHANGED <<present, disk, archive, portable, installed, cmd, touched, budget>>
  BY DEF HomeTick
<1>2. UNCHANGED present /\ UNCHANGED disk /\ UNCHANGED archive /\ UNCHANGED portable
      /\ UNCHANGED installed /\ UNCHANGED cmd /\ UNCHANGED touched /\ UNCHANGED budget
  BY <1>1
<1>3. now' \in 0..MaxSeconds
  BY <1>1, HomeTypes, HomeAssumption DEF HomeTypeOK
<1>4. HomeTypeOK'
  BY <1>2, <1>3, HomeTypes DEF HomeTypeOK
<1> QED
  BY <1>2, <1>4, OutsideKeeps

LEMMA HomeStepKeeps == HomeInv /\ [HomeNext]_homeVars => HomeInv'
<1> SUFFICES ASSUME HomeInv, [HomeNext]_homeVars PROVE HomeInv'
  OBVIOUS
<1>1. ASSUME NEW p \in Commands,
             \/ \E verb \in Verbs : Start(p, verb)
             \/ OpenArchive(p) \/ AddFile(p) \/ AddRaises(p) \/ CloseArchive(p)
             \/ PipUninstall(p) \/ RemoveFile(p) \/ RemoveHome(p)
      PROVE  HomeInv'
  BY <1>1, StartKeeps, OpenArchiveKeeps, AddFileKeeps, AddRaisesKeeps, CloseArchiveKeeps,
     PipUninstallKeeps, RemoveFileKeeps, RemoveHomeKeeps
<1>2. ASSUME NEW p \in Commands,
             \/ \E a \in Places, overwrite \in BOOLEAN : RestoreCheck(p, a, overwrite)
             \/ ExtractOpen(p) \/ ExtractFill(p) \/ RestoreDone(p)
             \/ Merge(p) \/ Create(p) \/ OpenConfig(p) \/ WriteConfig(p) \/ Export(p)
      PROVE  HomeInv'
  BY <1>2, RestoreCheckKeeps, ExtractOpenKeeps, ExtractFillKeeps, RestoreDoneKeeps,
     MergeKeeps, CreateKeeps, OpenConfigKeeps, WriteConfigKeeps, ExportKeeps
<1>3. ASSUME NEW p \in Commands,
             ApplyUpdate(p) \/ SkipUpdate(p) \/ CommandDies(p)
      PROVE  HomeInv'
  BY <1>3, ApplyUpdateKeeps, SkipUpdateKeeps, CommandDiesKeeps
<1>4. ASSUME NEW f \in ToSet(DataFiles), WriteData(f) \/ DeleteData(f) PROVE HomeInv'
  BY <1>4, WriteDataKeeps, DeleteDataKeeps
<1>5. CASE HomeTick
  BY <1>5, HomeTickKeeps
<1>6. CASE UNCHANGED homeVars
  <2>1. UNCHANGED present /\ UNCHANGED disk /\ UNCHANGED archive /\ UNCHANGED portable
        /\ UNCHANGED installed /\ UNCHANGED now /\ UNCHANGED cmd /\ UNCHANGED touched
        /\ UNCHANGED budget
    BY <1>6 DEF homeVars
  <2>2. HomeTypeOK'
    BY <2>1, HomeTypes DEF HomeTypeOK
  <2> QED
    BY <2>1, <2>2, OutsideKeeps
<1> QED
  BY <1>1, <1>2, <1>3, <1>4, <1>5, <1>6 DEF HomeNext

(* The invariant holds at every step of the commands and of the others.    *)
THEOREM HomeInvariant == HomeSpec => []HomeInv
<1> QED
  BY HomeInitial, HomeStepKeeps, PTL DEF HomeSpec

(* Homes, archives and commands stay well formed.                          *)
THEOREM HomeTypeCorrect == HomeSpec => []HomeTypeOK
<1>1. HomeInv => HomeTypeOK
  BY DEF HomeInv
<1> QED
  BY <1>1, HomeInvariant, PTL

(* A backup_home() that returned holds every file it found and nobody      *)
(* touched since, in a readable archive, unless its name was taken.        *)
THEOREM BackupsAreWhole == HomeSpec => []BackupIsWhole
<1>1. ASSUME HomeInv PROVE BackupIsWhole
  <2> SUFFICES ASSUME NEW p \in Commands, ~ cmd[p].raced,
                      cmd[p].report = "backup" \/ (cmd[p].verb = "uninstall" /\ At(p, "pip")
                                                   /\ cmd[p].place # Nowhere)
               PROVE  /\ archive[cmd[p].place].state = "closed"
                      /\ \A f \in Files(cmd[p].seen) \ touched[p] :
                           archive[cmd[p].place].files[f] = cmd[p].seen[f]
    BY DEF BackupIsWhole
  <2>1. cmd[p].raced = FALSE
    BY <1>1, HomeTypes DEF Command
  <2> QED
    BY <1>1, <2>1 DEF HomeInv, Own, Filled, HasBackup, Kept, At
<1> QED
  BY <1>1, HomeInvariant, PTL

(* uninstall() removes only what its backup holds, but for files written   *)
(* after it listed the home.                                               *)
THEOREM RemovalsAreCovered == HomeSpec => []RemovalIsCovered
<1>1. ASSUME HomeInv PROVE RemovalIsCovered
  <2> SUFFICES ASSUME NEW p \in Commands, ~ cmd[p].raced, NEW f \in Files(cmd[p].lost)
               PROVE  /\ cmd[p].place # Nowhere
                      /\ f \notin touched[p] =>
                           archive[cmd[p].place].files[f] = cmd[p].lost[f]
    BY DEF RemovalIsCovered
  <2>1. cmd[p].raced = FALSE
    BY <1>1, HomeTypes DEF Command
  <2> QED
    BY <1>1, <2>1 DEF HomeInv, Own, Covered
<1> QED
  BY <1>1, HomeInvariant, PTL

(* A restore_home() that returned has put every file of the archive back,  *)
(* except where another process wrote since.                               *)
THEOREM RestoresAreFaithful == HomeSpec => []RestoreIsFaithful
<1>1. ASSUME HomeInv PROVE RestoreIsFaithful
  <2> SUFFICES ASSUME NEW p \in Commands, cmd[p].report = "restored",
                      NEW f \in Files(cmd[p].seen) \ touched[p]
               PROVE  disk[f] = cmd[p].seen[f]
    BY DEF RestoreIsFaithful
  <2>1. Restored(p) /\ f \in Kept(p)
    BY <1>1 DEF HomeInv, Own, Kept
  <2> QED
    BY <2>1 DEF Restored
<1> QED
  BY <1>1, HomeInvariant, PTL

(* portable_config_import() merges: it takes no key away, and leaves those *)
(* it does not know as they were.                                          *)
THEOREM ImportsKeepOtherKeys == HomeSpec => []ImportKeepsOtherKeys
<1>1. ASSUME HomeInv PROVE ImportKeepsOtherKeys
  BY <1>1 DEF HomeInv, Own, Imported, KeepsKeys, ImportKeepsOtherKeys
<1> QED
  BY <1>1, HomeInvariant, PTL

=============================================================================
