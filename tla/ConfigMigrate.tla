--------------------------- MODULE ConfigMigrate ---------------------------
(***************************************************************************)
(* The migration of config.toml when a node starts (ConfigMigrate in       *)
(* lib/boost/node/config), by binaries of different versions, with crashes *)
(* and I/O errors at its steps and edits between its runs.                 *)
(*                                                                         *)
(* config.toml is a plain file, or a link to config/config.toml.<version>. *)
(* A file has a version and a value for the settings it has a line for; a  *)
(* setting without one has its default.  os.WriteFile cuts the file and    *)
(* then writes it, and a file that is cut parses as one of version 0.      *)
(*                                                                         *)
(* The binaries differ in toVersion alone: the repository has one Boost    *)
(* and one DefaultBoost, which every migration uses.  Overrides by the     *)
(* environment (LOTUS_...) are left out, and so is a ConfigVersion that    *)
(* the user changes.                                                       *)
(***************************************************************************)
EXTENDS Integers

CONSTANTS
  Keys,      \* the settings
  Name,      \* what a line calls each setting; settings of two sections share names
  Values,
  Default,   \* the value of each setting in DefaultBoost()
  Newest,    \* bound: the newest version there is a binary of (CurrentVersion)
  Unset, None,
  MaxRuns,   \* bound: starts of a binary
  MaxEdits,  \* bound: changes by the user
  MaxFaults  \* bound: crashes and I/O errors while migrating

Versions == 0..Newest

Plain == -1 \* config.toml as a file of its own

\* What a file parses as: a Boost, only a VersionCfg (a setting has a value of
\* the wrong type), or nothing (it is no TOML).
Parses == {"Boost", "VersionCfg", "nothing"}

Content == [version: Versions, set: [Keys -> Values \cup {Unset}], parses: Parses]

ASSUME ConfigMigrateAssumption ==
  /\ Default \in [Keys -> Values]
  /\ Keys = DOMAIN Name
  /\ Unset \notin Values
  /\ None \notin Content \cup Versions \cup {Plain}
  /\ Newest \in Nat \ {0}
  /\ MaxRuns \in Nat /\ MaxEdits \in Nat /\ MaxFaults \in Nat

VARIABLES
  files,  \* the content of config.toml.<version> and of the plain config.toml
  link,   \* where config.toml is
  to,     \* the version of the binary
  pc,
  at,     \* oldVersion
  buf,    \* the content that was read or made, until it is written
  was,    \* history: the settings that each version was left with
  torn,   \* history: a fault has cut the file that config.toml is
  runs, edits, faults

disk == <<files, link>>
counts == <<runs, edits, faults>>
vars == <<disk, to, pc, at, buf, was, torn, counts>>

\* An empty file.
Cut == [version |-> 0, set |-> [k \in Keys |-> Unset], parses |-> "Boost"]

Stopped == {"idle", "done", "failed", "ioFailed"}

PCs == Stopped \cup {"version", "read", "cutOld", "writeOld", "migrate", "cutNew", "writeNew",
                     "stat", "remove", "link"}

Init ==
  /\ files = [f \in Versions \cup {Plain} |-> IF f = Plain THEN Cut ELSE None]
  /\ link = Plain
  /\ to = 0
  /\ pc = "idle"
  /\ at = 0
  /\ buf = Cut
  /\ was = [v \in Versions |-> Default]
  /\ torn = FALSE
  /\ runs = 0 /\ edits = 0 /\ faults = 0

Current == IF link = None THEN None ELSE files[link]

\* FromFile(path, DefaultBoost()), of a file that parses.
Parsed(content) ==
  [k \in Keys |-> IF content.set[k] = Unset THEN Default[k] ELSE content.set[k]]

\* FromFile(path, &VersionCfg{}): a file that is not there is one of version 0.
VersionOf(content) == IF content = None THEN 0 ELSE content.version

-----------------------------------------------------------------------------
(* ConfigUpdate, as the migrations call it.                                *)

\* The lines of the default configuration, whatever their section.
DefaultLines == {<<Name[k], Default[k]>> : k \in Keys}

\* A line that is a line of the default configuration is commented out.
Commented(settings, version) ==
  [version |-> version,
   set |-> [k \in Keys |-> IF <<Name[k], settings[k]>> \in DefaultLines THEN Unset
                           ELSE settings[k]],
   parses |-> "Boost"]

\* Mutant: the result is not compared with the settings.
ConfigUpdateUnchecked(settings, version) == Commented(settings, version)

\* The result must parse as the settings, or it is an error.
ConfigUpdate(settings, version) ==
  LET new == Commented(settings, version) IN IF Parsed(new) = settings THEN new ELSE None

-----------------------------------------------------------------------------
(* The steps of configMigrate, when the file system does what it is asked. *)

Fail == pc' = "failed" /\ UNCHANGED <<disk, to, at, buf, was, torn, counts>>

Start(v) ==
  /\ pc \in Stopped
  /\ runs < MaxRuns
  /\ runs' = runs + 1
  /\ to' = v
  /\ pc' = "version"
  /\ UNCHANGED <<disk, at, buf, was, torn, edits, faults>>

\* An upgrade leaves the versions it passes with the settings of the one it starts from.
ReadVersion ==
  LET v == VersionOf(Current) IN
  /\ pc = "version"
  /\ IF Current # None /\ Current.parses = "nothing" THEN Fail
     ELSE /\ at' = v
          /\ pc' = IF v < to THEN "read" ELSE IF v > to THEN "stat" ELSE "done"
          /\ was' = [x \in Versions |-> IF x \in v..to THEN was[v] ELSE was[x]]
          /\ UNCHANGED <<disk, to, buf, torn, counts>>

\* migrateUp, for each version from the present one on.
ReadOld ==
  /\ pc = "read"
  /\ IF Current = None THEN Fail
     ELSE /\ buf' = Current
          /\ pc' = "cutOld"
          /\ UNCHANGED <<disk, to, at, was, torn, counts>>

\* os.WriteFile.
CutFile(f, then) ==
  /\ files' = [files EXCEPT ![f] = Cut]
  /\ pc' = then
  /\ UNCHANGED <<link, to, at, buf, was, torn, counts>>

WriteFile(f, then) ==
  /\ files' = [files EXCEPT ![f] = buf]
  /\ buf' = Cut
  /\ pc' = then
  /\ UNCHANGED <<link, to, at, was, torn, counts>>

CutOld == pc = "cutOld" /\ CutFile(at, "writeOld")

WriteOld == pc = "writeOld" /\ WriteFile(at, "migrate")

\* v0Tov1 to v5Tov6 differ in nothing but the version.
Migrate ==
  LET new == ConfigUpdate(Parsed(Current), at + 1) IN
  /\ pc = "migrate"
  /\ IF Current.parses # "Boost" \/ new = None THEN Fail
     ELSE /\ buf' = new
          /\ pc' = "cutNew"
          /\ UNCHANGED <<disk, to, at, was, torn, counts>>

\* The new content goes to the file of the last version, not of the next.
CutNew == pc = "cutNew" /\ CutFile(to, "writeNew")

\* Mutant: it is written to the file of the next version.
WriteNewNext == pc = "writeNew" /\ WriteFile(at + 1, "remove")

WriteNew == pc = "writeNew" /\ WriteFile(to, "remove")

\* migrateDown.
StatOlder ==
  /\ pc = "stat"
  /\ IF files[to] = None THEN Fail
     ELSE pc' = "remove" /\ UNCHANGED <<disk, to, at, buf, was, torn, counts>>

\* makeSymlink.  A plain config.toml is gone for good.
RemoveLink ==
  /\ pc = "remove"
  /\ link' = None
  /\ files' = IF link = Plain THEN [files EXCEPT ![Plain] = None] ELSE files
  /\ pc' = "link"
  /\ UNCHANGED <<to, at, buf, was, torn, counts>>

\* An upgrade goes on with the next version.
MakeSymlink ==
  /\ pc = "link"
  /\ link' = to
  /\ IF at + 1 < to THEN pc' = "read" /\ at' = at + 1 ELSE pc' = "done" /\ UNCHANGED at
  /\ UNCHANGED <<files, to, buf, was, torn, counts>>

-----------------------------------------------------------------------------
(* Faults, and the user.                                                   *)

\* What a write of c that is cut short leaves: c up to some line, which may be
\* cut itself and parse as another value or not at all.
Parts(c) ==
  {d \in Content :
     /\ d.version = c.version \/ (d.version = 0 /\ d.set = Cut.set)
     /\ \E last \in Keys : \A k \in Keys \ {last} : d.set[k] \in {c.set[k], Unset}}

\* The file being written.
Written == CASE pc = "writeOld" -> at [] pc = "writeNew" -> to [] OTHER -> None

\* Any step can be cut short, a write in the middle.
CutShort(then) ==
  /\ pc \notin Stopped
  /\ faults < MaxFaults
  /\ faults' = faults + 1
  /\ pc' = then
  /\ buf' = Cut
  /\ IF Written = None THEN UNCHANGED <<files, torn>>
     ELSE /\ \E part \in Parts(buf) : files' = [files EXCEPT ![Written] = part]
          /\ torn' = (torn \/ link = Written)
  /\ UNCHANGED <<link, to, at, was, runs, edits>>

Crash == CutShort("idle")

\* Open, read, MkdirAll, write, Stat, Remove or Symlink fails, and configMigrate
\* returns the error.
IOError == CutShort("ioFailed")

\* The user changes config.toml, while no migration runs: a setting...
Edit(k, v) ==
  /\ pc \in Stopped
  /\ Current # None
  /\ edits < MaxEdits
  /\ edits' = edits + 1
  /\ pc' = "idle"
  /\ files' = [files EXCEPT ![link] = [@ EXCEPT !.set[k] = v, !.parses = "Boost"]]
  /\ was' = [was EXCEPT ![Current.version][k] = v]
  /\ UNCHANGED <<link, to, at, buf, torn, runs, faults>>

\* ... or a mistake, which is put right with the next setting that is changed.
Spoil(parses) ==
  /\ pc \in Stopped
  /\ Current # None
  /\ edits < MaxEdits
  /\ edits' = edits + 1
  /\ pc' = "idle"
  /\ files' = [files EXCEPT ![link].parses = parses]
  /\ UNCHANGED <<link, to, at, buf, was, torn, runs, faults>>

Step ==
  \/ ReadVersion \/ ReadOld \/ CutOld \/ WriteOld \/ Migrate \/ CutNew \/ WriteNew
  \/ StatOlder \/ RemoveLink \/ MakeSymlink

Next ==
  \/ Step \/ Crash \/ IOError
  \/ \E v \in Versions \ {0} : Start(v)
  \/ \E k \in Keys, v \in Values : Edit(k, v)
  \/ \E parses \in Parses : Spoil(parses)

Spec == Init /\ [][Next]_vars

-----------------------------------------------------------------------------
(* Properties.                                                             *)

\* The types of the state.
TypeOK ==
  /\ files \in [Versions \cup {Plain} -> Content \cup {None}]
  /\ link \in Versions \cup {Plain, None}
  /\ to \in Versions /\ at \in Versions
  /\ pc \in PCs
  /\ buf \in Content
  /\ was \in [Versions -> [Keys -> Values]]
  /\ torn \in BOOLEAN
  /\ runs \in 0..MaxRuns /\ edits \in 0..MaxEdits /\ faults \in 0..MaxFaults

\* config.toml has, of its version, the settings that version was left with: upgrades keep
\* them, a crash or an I/O error at any step and a restart keep them, and a downgrade finds
\* those of the older version again.  Not so while the file is being written, nor once a
\* fault has cut the file that config.toml is.
SettingsKept ==
  \/ torn \/ Current = None
  \/ pc = "writeOld" /\ link = at
  \/ pc = "writeNew" /\ link = to
  \/ Parsed(Current) = was[Current.version]

\* The default of another setting of the same name.
Clash ==
  \E k \in Keys : LET v == Parsed(Current)[k] IN
    v # Default[k] /\ \E j \in Keys \ {k} : Name[j] = Name[k] /\ v = Default[j]

\* A migration that ends well leaves config.toml of the version of the binary.  Without an
\* I/O error it fails only when config.toml is gone, when it does not parse as what is asked
\* for, when there is no file of the older version to go back to, or when a setting has the
\* same line as the default of another one.  config.toml is gone only after a fault, and
\* only the user or a fault that cuts it makes it a file that does not parse.
OutcomeExplained ==
  /\ pc = "done" => Current # None /\ Current.version = to
  /\ Current = None => pc = "link" \/ faults > 0
  /\ pc = "failed" /\ Current # None =>
       \/ (torn \/ edits > 0) /\ Current.parses = "nothing"
       \/ Current.version > to /\ files[to] = None
       \/ /\ Current.version < to
          /\ Clash \/ ((torn \/ edits > 0) /\ Current.parses = "VersionCfg")

=============================================================================
