---------------------------- MODULE KconfigProcess ---------------------------
(***************************************************************************)
(* What kconfig's front ends share: the Kconfig files, the configuration   *)
(* files, and the one process that works on them at a time.  Between two   *)
(* processes a new release may bring other Kconfig files, and somebody may *)
(* edit .config by hand.                                                   *)
(***************************************************************************)
EXTENDS KconfigData
LOCAL INSTANCE SequencesExt

CONSTANTS
    Releases,    \* the finalized tables that the Kconfig files may give
    FileNames,   \* ".config", "defconfig" and other names for a configuration
    NoFile,      \* the content of a file that does not exist
    HandEdits,   \* what a hand-made .config may hold
    OldFiles,    \* the configurations under other names at first: name |-> lines
    Modes        \* bound: the front ends or modes that may run first, second, and so on

VARIABLES
    t,           \* the symbols in the process; NoTable when none runs
    tool,        \* the front end, or the mode of conf, that runs, or "none"
    files,       \* name |-> the lines of the file
    wrote,       \* history: files written by conf_write under the present Kconfig files
    processes    \* how many have been started

shared == <<k, t, tool, files, wrote, processes>>

NoTable == [changed |-> FALSE]
Running == tool # "none"

ProcessInit ==
    /\ k \in Releases
    /\ t = NoTable
    /\ tool = "none"
    /\ \E config \in HandEdits \cup {NoFile} :
          files = [name \in FileNames |-> IF name = ".config" THEN config
                                         ELSE IF name \in DOMAIN OldFiles THEN OldFiles[name] ELSE NoFile]
    /\ wrote = {}
    /\ processes = 0

\* conf_read(name), and conf_read(NULL), for which a missing .config is a change.
Read(tt, name) ==
    IF files[name] = NoFile THEN [tt EXCEPT !.changed = FALSE] ELSE conf_read(tt, files[name])
ReadConfig(tt) ==
    IF files[".config"] = NoFile THEN [tt EXCEPT !.changed = TRUE] ELSE conf_read(tt, files[".config"])

Start(name, table) ==
    /\ ~Running
    /\ processes < Len(Modes)
    /\ name \in Modes[processes + 1]
    /\ processes' = processes + 1
    /\ tool' = name
    /\ t' = table
    /\ UNCHANGED <<k, files, wrote>>

\* conf_write(name); the caller says what becomes of the process.
Write(name) ==
    /\ \E w \in {conf_write(t)} : files' = [files EXCEPT ![name] = w.lines] /\ t' = w.t
    /\ wrote' = wrote \cup {name}
    /\ UNCHANGED <<k, processes>>

\* The last write of a process that then ends.
WriteAndEnd(name) ==
    /\ files' = [files EXCEPT ![name] = conf_write(t).lines]
    /\ wrote' = wrote \cup {name}
    /\ t' = NoTable
    /\ tool' = "none"
    /\ UNCHANGED <<k, processes>>

End ==
    /\ t' = NoTable
    /\ tool' = "none"
    /\ UNCHANGED <<k, files, wrote, processes>>

NewRelease ==
    /\ ~Running /\ processes < Len(Modes)
    /\ k' \in Releases \ {k}
    /\ wrote' = {}
    /\ UNCHANGED <<t, tool, files, processes>>

EditByHand ==
    /\ ~Running /\ processes < Len(Modes)
    /\ \E lines \in HandEdits : files' = [files EXCEPT ![".config"] = lines]
    /\ wrote' = wrote \ {".config"}
    /\ UNCHANGED <<k, t, tool, processes>>

Environment == NewRelease \/ EditByHand
=============================================================================
