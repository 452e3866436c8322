---------------------------- MODULE KconfigFiles ----------------------------
(***************************************************************************)
(* The files kconfig keeps: .config, its backup, and the three that "make" *)
(* lets conf --syncconfig derive from it (auto.conf, autoconf.h and        *)
(* tristate.config), together with the empty .h of each symbol, whose age  *)
(* tells a build what to compile again.  A configurator or syncconfig may  *)
(* end at any point (killed, out of disk space, an error return), and      *)
(* somebody may edit .config at any time.  KCONFIG_OVERWRITECONFIG is not  *)
(* set, as in Buildroot's Makefile.                                        *)
(***************************************************************************)
EXTENDS Naturals

CONSTANTS
    Symbols,
    Booleans,    \* the symbols whose type is bool or tristate
    Values,
    No,          \* "n"
    Hidden,      \* a symbol without SYMBOL_WRITE
    Absent,      \* a symbol of which a file says nothing
    Inputs,      \* the configurations users and questions come to
    Missing,     \* no file, no process
    Partial,     \* a file opened and not yet closed
    MaxTime      \* bound: the number of writes

Configs == [Symbols -> Values \cup {Hidden}]
\* A derived file never says "n".
Derived == {d \in [Symbols -> Values \cup {Absent}] : \A s \in Booleans : d[s] # No}

ASSUME FilesAssumption ==
    /\ Booleans \subseteq Symbols
    /\ No \in Values
    /\ Hidden \notin Values /\ Absent \notin Values
    /\ Inputs \subseteq Configs
    /\ Missing \notin Configs \cup Derived
    /\ Partial \notin Configs \cup Derived
    /\ Missing # Partial

Paths == {".config", ".config.old", ".tmpconfig.pid",
          "auto.conf", "autoconf.h", "tristate.config",
          ".tmpconfig", ".tmpconfig.h", ".tmpconfig_tristate"}
Drafts == {".tmpconfig", ".tmpconfig.h", ".tmpconfig_tristate"}
Results == {"auto.conf", "autoconf.h", "tristate.config"}

VARIABLES
    disk,        \* path |-> what it holds and when that was written
    clock,       \* the time of the last write
    pc,          \* where the running front end is; "idle" when none runs
    sync,        \* it is conf --syncconfig
    mem,         \* the values its symbols have
    auto,        \* S_DEF_AUTO: what it read from auto.conf
    todo,        \* symbols conf_split_config has still to look at
    touched,     \* symbols whose .h is newer than the last build
    seen,        \* history: the values the last build was made with
    readAt,      \* history: when the running syncconfig read .config
    synced,      \* history: readAt of the last one that came to its end
    saved        \* history: what .config was given last

fvars == <<disk, clock, pc, sync, mem, auto, todo, touched, seen, readAt, synced, saved>>
history == <<seen, readAt, synced, saved>>

Data(p) == disk[p].data
Exists(p) == Data(p) # Missing

(***************************************************************************)
(* The file system.                                                        *)
(***************************************************************************)
NoFile == [data |-> Missing, time |-> 0]
Set(paths, file) == disk' = [p \in Paths |-> IF p \in paths THEN file ELSE disk[p]]

\* fopen(3) for writing; its time is overwritten by that of the close.
Open(paths) ==
    /\ Set(paths, [data |-> Partial, time |-> clock])
    /\ UNCHANGED clock

Close(paths, data) ==
    /\ clock < MaxTime
    /\ clock' = clock + 1
    /\ Set(paths, [data |-> data, time |-> clock + 1])

\* rename(2): the new name has the age of the old one; without a file it fails.
Rename(from, to) ==
    disk' = IF Exists(from) THEN [disk EXCEPT ![to] = disk[from], ![from] = NoFile] ELSE disk

\* Make's test of the rule for auto.conf.
UpToDate == Exists(".config") /\ Exists("auto.conf") /\ disk[".config"].time <= disk["auto.conf"].time

(***************************************************************************)
(* The values.                                                             *)
(***************************************************************************)
\* What auto.conf says of a symbol whose value is v.
DerivedValue(s, v) == IF v = Hidden \/ (s \in Booleans /\ v = No) THEN Absent ELSE v
Derive(c) == [s \in Symbols |-> DerivedValue(s, c[s])]

\* A missing auto.conf leaves every symbol without SYMBOL_DEF_AUTO.
AutoValues == IF Exists("auto.conf") THEN Data("auto.conf") ELSE [s \in Symbols |-> Absent]

\* Mutant of Differs: a symbol no longer written does not count as changed.
DiffersWritten(s, new, old) ==
    /\ new # Hidden
    /\ IF old # Absent THEN new # old ELSE s \notin Booleans \/ new # No

\* conf_split_config finds that s changed.
Differs(s, new, old) ==
    IF new # Hidden
    THEN IF old # Absent THEN new # old ELSE s \notin Booleans \/ new # No
    ELSE old # Absent

Init ==
    /\ \E c \in Inputs :
          disk = [p \in Paths |-> IF p = ".config" THEN [data |-> c, time |-> 1] ELSE NoFile]
    /\ clock = 1
    /\ pc = "idle"
    /\ sync = FALSE
    /\ mem = Missing
    /\ auto = Missing
    /\ todo = {}
    /\ touched = Symbols
    /\ seen = [s \in Symbols |-> Absent]
    /\ readAt = 0
    /\ synced = 0
    /\ saved = Data(".config")

(***************************************************************************)
(* A front end starts, and ends.                                           *)
(***************************************************************************)
End ==
    /\ pc' = "idle"
    /\ sync' = FALSE
    /\ mem' = Missing
    /\ auto' = Missing
    /\ todo' = {}
    /\ readAt' = 0

\* A configurator has been told to save c.
Configure(c) ==
    /\ pc = "idle"
    /\ pc' = "open"
    /\ sync' = FALSE
    /\ mem' = c
    /\ UNCHANGED <<disk, clock, auto, todo, touched, history>>

\* conf --syncconfig reads .config and asks about new symbols, which makes it c;
\* only then, or when reading counted a change, it writes .config first.
Sync(c) ==
    /\ pc = "idle" /\ Exists(".config")
    /\ sync' = TRUE
    /\ mem' = c
    /\ pc' \in {"open", "compare"}
    /\ pc' = "compare" => c = Data(".config")
    /\ readAt' = clock
    /\ UNCHANGED <<disk, clock, auto, todo, touched, seen, synced, saved>>

(***************************************************************************)
(* conf_write.                                                             *)
(***************************************************************************)
\* Mutant of OpenConfig: .config itself is opened.
OpenConfigInPlace ==
    /\ pc = "open"
    /\ pc' = "fill"
    /\ Open({".config"})
    /\ UNCHANGED <<sync, mem, auto, todo, touched, history>>

OpenConfig ==
    /\ pc = "open"
    /\ pc' = "fill"
    /\ Open({".tmpconfig.pid"})
    /\ UNCHANGED <<sync, mem, auto, todo, touched, history>>

FillConfig ==
    /\ pc = "fill"
    /\ pc' = "keep"
    /\ Close({".tmpconfig.pid"}, mem)
    /\ UNCHANGED <<sync, mem, auto, todo, touched, history>>

KeepOld ==
    /\ pc = "keep"
    /\ pc' = "replace"
    /\ Rename(".config", ".config.old")
    /\ UNCHANGED <<clock, sync, mem, auto, todo, touched, history>>

ReplaceConfig ==
    /\ pc = "replace"
    /\ Rename(".tmpconfig.pid", ".config")
    /\ saved' = mem
    /\ \/ /\ sync
          /\ pc' = "compare"
          /\ readAt' = clock
          /\ UNCHANGED <<sync, mem, auto, todo>>
       \/ ~sync /\ End
    /\ UNCHANGED <<clock, touched, seen, synced>>

(***************************************************************************)
(* conf_write_autoconf.                                                    *)
(***************************************************************************)
ReadAuto ==
    /\ pc = "compare"
    /\ pc' = "split"
    /\ auto' = AutoValues
    /\ todo' = Symbols
    /\ UNCHANGED <<disk, clock, sync, mem, touched, history>>

Touch(s) ==
    /\ pc = "split" /\ s \in todo
    /\ todo' = todo \ {s}
    /\ touched' = IF Differs(s, mem[s], auto[s]) THEN touched \cup {s} ELSE touched
    /\ UNCHANGED <<disk, clock, pc, sync, mem, auto, history>>

OpenDrafts ==
    /\ pc = "split" /\ todo = {}
    /\ pc' = "draft"
    /\ Open(Drafts)
    /\ UNCHANGED <<sync, mem, auto, todo, touched, history>>

FillDrafts ==
    /\ pc = "draft"
    /\ pc' = "header"
    /\ Close(Drafts, Derive(mem))
    /\ UNCHANGED <<sync, mem, auto, todo, touched, history>>

RenameHeader ==
    /\ pc = "header"
    /\ pc' = "tristate"
    /\ Rename(".tmpconfig.h", "autoconf.h")
    /\ UNCHANGED <<clock, sync, mem, auto, todo, touched, history>>

\* Mutant of RenameTristate: auto.conf is not the last step.
RenameTristateLast ==
    /\ pc = "tristate"
    /\ pc' = "auto"
    /\ Rename(".tmpconfig", "auto.conf")
    /\ synced' = readAt
    /\ UNCHANGED <<clock, sync, mem, auto, todo, touched, seen, readAt, saved>>

RenameTristate ==
    /\ pc = "tristate"
    /\ pc' = "auto"
    /\ Rename(".tmpconfig_tristate", "tristate.config")
    /\ UNCHANGED <<clock, sync, mem, auto, todo, touched, history>>

RenameAuto ==
    /\ pc = "auto"
    /\ Rename(".tmpconfig", "auto.conf")
    /\ synced' = readAt
    /\ End
    /\ UNCHANGED <<clock, touched, seen, saved>>

(***************************************************************************)
(* Around the front ends.                                                  *)
(***************************************************************************)
\* A kill or an error return; temporary files stay behind.
Die ==
    /\ pc # "idle"
    /\ End
    /\ UNCHANGED <<disk, clock, touched, seen, synced, saved>>

EditByHand(c) ==
    /\ Close({".config"}, c)
    /\ saved' = c
    /\ UNCHANGED <<pc, sync, mem, auto, todo, touched, seen, readAt, synced>>

\* make clean: the build directory with its results and .h files goes.
Clean ==
    /\ pc = "idle"
    /\ Set(Results, NoFile)
    /\ touched' = Symbols
    /\ UNCHANGED <<clock, pc, sync, mem, auto, todo, history>>

\* A build that compiles what depends on a newer .h, and nothing else.
Build ==
    /\ pc = "idle" /\ UpToDate
    /\ seen' = Data("auto.conf")
    /\ touched' = {}
    /\ UNCHANGED <<disk, clock, pc, sync, mem, auto, todo, readAt, synced, saved>>

Next ==
    \/ \E c \in Inputs : Configure(c)
    \/ \E c \in Inputs : Sync(c)
    \/ \E c \in Inputs : EditByHand(c)
    \/ OpenConfig \/ FillConfig \/ KeepOld \/ ReplaceConfig
    \/ ReadAuto
    \/ \E s \in Symbols : Touch(s)
    \/ OpenDrafts \/ FillDrafts \/ RenameHeader \/ RenameTristate \/ RenameAuto
    \/ Die \/ Clean \/ Build

Spec == Init /\ [][Next]_fvars
-----------------------------------------------------------------------------
Points == {"idle", "open", "fill", "keep", "replace", "compare", "split", "draft", "header", "tristate", "auto"}
Contents(p) ==
    IF p \in Drafts \cup Results THEN Derived \cup {Missing, Partial} ELSE Configs \cup {Missing, Partial}

\* Types; and what conf_write and conf_write_autoconf put in place is never a
\* file in the making.
TypeOK ==
    /\ clock \in Nat /\ readAt \in 0..clock /\ synced \in 0..clock
    /\ disk \in [Paths -> [data : Configs \cup Derived \cup {Missing, Partial}, time : 0..clock]]
    /\ \A p \in Paths : Data(p) \in Contents(p)
    /\ \A p \in Results \cup {".config", ".config.old"} : Data(p) # Partial
    /\ pc \in Points /\ sync \in BOOLEAN
    /\ mem \in Configs \cup {Missing} /\ saved \in Configs
    /\ auto \in Derived \cup {Missing} /\ seen \in Derived
    /\ todo \subseteq Symbols /\ touched \subseteq Symbols

\* The configuration saved last is in .config or, while conf_write is between
\* its two renames or died there, in .config.old.
SavedSurvives ==
    \/ Data(".config") = saved
    \/ Data(".config") = Missing /\ Data(".config.old") = saved

\* When make finds auto.conf up to date, the three derived files agree with
\* each other and with .config, however many runs of syncconfig died on the
\* way, unless .config was written after the last complete one had read it and
\* before that one closed its files, which is when auto.conf gets its time.
UpToDateIsCurrent ==
    UpToDate =>
      \/ disk[".config"].time > synced
      \/ \A p \in Results : Data(p) = Derive(Data(".config"))

\* A symbol whose .h conf_split_config did not touch since the last build has
\* in auto.conf the value that build saw: what depends on it need not be
\* compiled again.
UntouchedIsUnchanged ==
    UpToDate => \A s \in Symbols \ touched : Data("auto.conf")[s] = seen[s]
=============================================================================
