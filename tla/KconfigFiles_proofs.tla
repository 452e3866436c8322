------------------------- MODULE KconfigFiles_proofs -------------------------
(* What holds of kconfig's files for every set of symbols and values, every *)
(* number of runs and of deaths on the way.                                 *)
EXTENDS KconfigFiles, TLAPS

Writing == {"open", "fill", "keep", "replace"}
Deriving == {"compare", "split", "draft", "header", "tristate", "auto"}

\* What a process holds while it runs.
ProcessInv ==
    /\ pc # "idle" => mem \in Configs
    /\ pc \in Deriving => sync
    /\ pc \in {"keep", "replace"} =>
         Data(".tmpconfig.pid") = mem /\ disk[".tmpconfig.pid"].time > synced

\* A .config not written since syncconfig read it is the one in its memory.
ReadInv ==
    pc \in Deriving =>
      /\ synced <= readAt
      /\ Exists(".config") /\ disk[".config"].time <= readAt => Data(".config") = mem

\* The files in the making, and those renamed so far.
DraftInv ==
    /\ pc \in {"header", "tristate", "auto"} => Data(".tmpconfig") = Derive(mem)
    /\ pc = "header" => Data(".tmpconfig.h") = Derive(mem)
    /\ pc \in {"header", "tristate"} => Data(".tmpconfig_tristate") = Derive(mem)
    /\ pc \in {"tristate", "auto"} => Data("autoconf.h") = Derive(mem)
    /\ pc = "auto" => Data("tristate.config") = Derive(mem)

\* The derived files of a .config not written since syncconfig last came to its end.
SyncedInv ==
    Exists("auto.conf") /\ Exists(".config") /\ disk[".config"].time <= synced =>
      \A p \in Results : Data(p) = Derive(Data(".config"))

\* An untouched symbol has the value the last build saw, and the value it is about to get.
TouchedInv ==
    \A s \in Symbols \ touched :
      /\ AutoValues[s] = seen[s]
      /\ pc \in {"split", "draft", "header", "tristate", "auto"} /\ s \notin todo =>
            Derive(mem)[s] = AutoValues[s]

SplitInv ==
    /\ pc = "split" => auto = AutoValues
    /\ pc \in {"draft", "header", "tristate", "auto"} => todo = {}

IInv ==
    TypeOK /\ ProcessInv /\ SavedSurvives /\ ReadInv /\ DraftInv /\ SyncedInv /\ TouchedInv /\ SplitInv
-----------------------------------------------------------------------------
(* What is derived from a configuration is what a derived file may hold.    *)
LEMMA DeriveType ==
    ASSUME NEW c \in Configs
    PROVE  Derive(c) \in Derived
BY FilesAssumption DEF Derive, DerivedValue, Derived, Configs

(* A symbol conf_split_config does not find different has in the new        *)
(* auto.conf the value it has in the old one.                               *)
LEMMA SameValue ==
    ASSUME NEW c \in Configs, NEW d \in Derived, NEW s \in Symbols, ~Differs(s, c[s], d[s])
    PROVE  Derive(c)[s] = d[s]
BY FilesAssumption DEF Differs, Derive, DerivedValue, Derived, Configs

(* A missing auto.conf reads like one that says nothing.                    *)
LEMMA AutoValuesType == TypeOK => AutoValues \in Derived
<1> SUFFICES ASSUME TypeOK PROVE AutoValues \in Derived
  OBVIOUS
<1>1. CASE Exists("auto.conf")
  <2>1. Data("auto.conf") \in Contents("auto.conf") /\ Data("auto.conf") # Partial
    BY DEF TypeOK, Paths, Results
  <2> QED
    BY <1>1, <2>1 DEF AutoValues, Contents, Results, Exists
<1>2. CASE ~Exists("auto.conf")
  BY <1>2, FilesAssumption DEF AutoValues, Derived
<1> QED
  BY <1>1, <1>2

(* The file system's operations keep its type and touch no other file.      *)
LEMMA CloseFacts ==
    ASSUME TypeOK, NEW paths \in SUBSET Paths, NEW data \in Configs \cup Derived, Close(paths, data)
    PROVE  /\ clock' \in Nat /\ clock' = clock + 1
           /\ disk' \in [Paths -> [data : Configs \cup Derived \cup {Missing, Partial}, time : 0..clock']]
           /\ \A p \in paths : Data(p)' = data /\ disk'[p].time = clock'
           /\ \A p \in Paths \ paths : disk'[p] = disk[p]
BY DEF TypeOK, Close, Set, Data

LEMMA OpenFacts ==
    ASSUME TypeOK, NEW paths \in SUBSET Paths, Open(paths)
    PROVE  /\ clock' = clock
           /\ disk' \in [Paths -> [data : Configs \cup Derived \cup {Missing, Partial}, time : 0..clock']]
           /\ \A p \in paths : Data(p)' = Partial
           /\ \A p \in Paths \ paths : disk'[p] = disk[p]
BY DEF TypeOK, Open, Set, Data

LEMMA RemoveFacts ==
    ASSUME TypeOK, Set(Results, NoFile), UNCHANGED clock
    PROVE  /\ disk' \in [Paths -> [data : Configs \cup Derived \cup {Missing, Partial}, time : 0..clock']]
           /\ \A p \in Results : Data(p)' = Missing
           /\ \A p \in Paths \ Results : disk'[p] = disk[p]
BY DEF TypeOK, Set, Data, NoFile, Paths, Results

LEMMA RenameFacts ==
    ASSUME TypeOK, NEW from \in Paths, NEW to \in Paths, from # to, Rename(from, to), UNCHANGED clock
    PROVE  /\ disk' \in [Paths -> [data : Configs \cup Derived \cup {Missing, Partial}, time : 0..clock']]
           /\ Exists(from) => disk'[to] = disk[from] /\ Data(from)' = Missing
           /\ ~Exists(from) => disk' = disk
           /\ \A p \in Paths \ {from, to} : disk'[p] = disk[p]
BY DEF TypeOK, Rename, Data, NoFile, Exists

(***************************************************************************)
(* The induction.                                                          *)
(***************************************************************************)
LEMMA InitInv == Init => IInv
<1> SUFFICES ASSUME Init PROVE IInv
  OBVIOUS
<1>1. PICK c \in Inputs :
        disk = [p \in Paths |-> IF p = ".config" THEN [data |-> c, time |-> 1] ELSE NoFile]
  BY DEF Init
<1>2. c \in Configs /\ c # Missing /\ c # Partial
  BY FilesAssumption
<1>3. Data(".config") = c /\ \A p \in Paths \ {".config"} : Data(p) = Missing
  BY <1>1 DEF Data, Paths, NoFile
<1>4. TypeOK
  <2>1. disk \in [Paths -> [data : Configs \cup Derived \cup {Missing, Partial}, time : 0..clock]]
    BY <1>1, <1>2 DEF Init, NoFile
  <2>2. seen \in Derived
    BY FilesAssumption DEF Init, Derived
  <2>3. \A p \in Paths : Data(p) \in Contents(p)
    BY <1>2, <1>3 DEF Contents, Paths, Results, Drafts
  <2>4. \A p \in Results \cup {".config", ".config.old"} : Data(p) # Partial
    BY <1>2, <1>3, FilesAssumption DEF Paths, Results
  <2>5. clock \in Nat /\ readAt \in 0..clock /\ synced \in 0..clock
    BY DEF Init
  <2>6. saved \in Configs
    BY <1>2, <1>3 DEF Init
  <2> QED
    BY <2>1, <2>2, <2>3, <2>4, <2>5, <2>6 DEF Init, TypeOK, Points
<1>5. AutoValues = seen /\ ~Exists("auto.conf")
  BY <1>3 DEF AutoValues, Init, Exists, Paths
<1> QED
  BY <1>3, <1>4, <1>5 DEF IInv, Init, ProcessInv, SavedSurvives, ReadInv, DraftInv, SyncedInv, TouchedInv, SplitInv, Deriving

(* Steps that leave the files alone.                                        *)
LEMMA ConfigureStep == ASSUME IInv, NEW c \in Inputs, Configure(c) PROVE IInv'
<1> USE DEF IInv, Configure, history
<1>1. TypeOK'
  BY FilesAssumption DEF TypeOK, Points, Data
<1>2. Data(".config")' = Data(".config") /\ Data(".config.old")' = Data(".config.old")
  BY DEF Data
<1>3. AutoValues' = AutoValues
  BY DEF AutoValues, Exists, Data
<1> QED
  BY <1>1, <1>2, <1>3, FilesAssumption DEF ProcessInv, SavedSurvives, ReadInv, DraftInv, SyncedInv, TouchedInv, SplitInv, Deriving, Data, Exists

LEMMA SyncStep == ASSUME IInv, NEW c \in Inputs, Sync(c) PROVE IInv'
<1> USE DEF IInv, Sync, history
<1>1. TypeOK'
  BY FilesAssumption DEF TypeOK, Points, Data
<1>2. AutoValues' = AutoValues
  BY DEF AutoValues, Exists, Data
<1>3. ReadInv'
  BY DEF ReadInv, TypeOK, Deriving, Data, Exists
<1> QED
  BY <1>1, <1>2, <1>3, FilesAssumption DEF ProcessInv, SavedSurvives, DraftInv, SyncedInv, TouchedInv, SplitInv, Deriving, Data, Exists

LEMMA ReadAutoStep == ASSUME IInv, ReadAuto PROVE IInv'
<1> USE DEF IInv, ReadAuto, history
<1>1. AutoValues \in Derived
  BY AutoValuesType
<1>2. TypeOK'
  BY <1>1 DEF TypeOK, Points, Data
<1>3. AutoValues' = AutoValues
  BY DEF AutoValues, Exists, Data
<1> QED
  BY <1>2, <1>3 DEF ProcessInv, SavedSurvives, ReadInv, DraftInv, SyncedInv, TouchedInv, SplitInv, Deriving, Data, Exists

LEMMA TouchStep == ASSUME IInv, NEW s \in Symbols, Touch(s) PROVE IInv'
<1> USE DEF IInv, Touch, history
<1>1. AutoValues \in Derived
  BY AutoValuesType
<1>2. TypeOK'
  BY DEF TypeOK, Points, Data
<1>3. AutoValues' = AutoValues
  BY DEF AutoValues, Exists, Data
<1>4. s \notin touched' => Derive(mem)[s] = AutoValues[s]
  <2>1. mem \in Configs /\ auto = AutoValues
    BY DEF SplitInv, ProcessInv
  <2>2. s \notin touched' => ~Differs(s, mem[s], auto[s])
    OBVIOUS
  <2> QED
    BY <1>1, <2>1, <2>2, SameValue
<1>5. TouchedInv'
  BY <1>3, <1>4 DEF TouchedInv
<1> QED
  BY <1>2, <1>3, <1>5 DEF ProcessInv, SavedSurvives, ReadInv, DraftInv, SyncedInv, SplitInv, Deriving, Data, Exists

LEMMA DieStep == ASSUME IInv, Die PROVE IInv'
<1> USE DEF IInv, Die, End
<1>1. TypeOK'
  <2>1. readAt' \in 0..clock'
    BY DEF TypeOK
  <2>2. mem' \in Configs \cup {Missing} /\ auto' \in Derived \cup {Missing} /\ todo' \subseteq Symbols
    OBVIOUS
  <2> QED
    BY <2>1, <2>2 DEF TypeOK, Points, Data
<1>2. AutoValues' = AutoValues
  BY DEF AutoValues, Exists, Data
<1> QED
  BY <1>1, <1>2 DEF ProcessInv, SavedSurvives, ReadInv, DraftInv, SyncedInv, TouchedInv, SplitInv, Deriving, Data, Exists

LEMMA BuildStep == ASSUME IInv, Build PROVE IInv'
<1> USE DEF IInv, Build
<1>1. AutoValues \in Derived
  BY AutoValuesType
<1>2. Data("auto.conf") = AutoValues
  BY DEF AutoValues, UpToDate
<1>3. TypeOK'
  BY <1>1, <1>2 DEF TypeOK, Points, Data
<1>4. AutoValues' = AutoValues
  BY DEF AutoValues, Exists, Data
<1> QED
  BY <1>2, <1>3, <1>4 DEF ProcessInv, SavedSurvives, ReadInv, DraftInv, SyncedInv, TouchedInv, SplitInv, Deriving, Data, Exists

(* Steps that write files.                                                  *)
LEMMA EditStep == ASSUME IInv, NEW c \in Inputs, EditByHand(c) PROVE IInv'
<1> USE DEF IInv, EditByHand
<1>1. c \in Configs /\ c # Missing /\ c # Partial
  BY FilesAssumption
<1>2. /\ clock' \in Nat /\ clock' = clock + 1
      /\ disk' \in [Paths -> [data : Configs \cup Derived \cup {Missing, Partial}, time : 0..clock']]
      /\ Data(".config")' = c /\ disk'[".config"].time = clock'
      /\ \A p \in Paths \ {".config"} : disk'[p] = disk[p]
  BY <1>1, CloseFacts DEF Paths
<1>3. \A p \in Paths \ {".config"} : Data(p)' = Data(p)
  BY <1>2 DEF Data
<1>4. TypeOK'
  BY <1>1, <1>2, <1>3 DEF TypeOK, Contents, Paths, Results, Drafts
<1>5. AutoValues' = AutoValues
  BY <1>3 DEF AutoValues, Exists, Paths
<1>6. SavedSurvives'
  BY <1>2 DEF SavedSurvives
<1>7. ReadInv' /\ SyncedInv'
  BY <1>2 DEF ReadInv, SyncedInv, TypeOK
<1>8. ProcessInv' /\ DraftInv'
  BY <1>2, <1>3 DEF ProcessInv, DraftInv, Paths, Deriving
<1> QED
  BY <1>4, <1>5, <1>6, <1>7, <1>8 DEF TouchedInv, SplitInv

LEMMA OpenConfigStep == ASSUME IInv, OpenConfig PROVE IInv'
<1> USE DEF IInv, OpenConfig, history
<1>1. /\ clock' = clock
      /\ disk' \in [Paths -> [data : Configs \cup Derived \cup {Missing, Partial}, time : 0..clock']]
      /\ Data(".tmpconfig.pid")' = Partial
      /\ \A p \in Paths \ {".tmpconfig.pid"} : disk'[p] = disk[p]
  BY OpenFacts DEF Paths
<1>2. \A p \in Paths \ {".tmpconfig.pid"} : Data(p)' = Data(p)
  BY <1>1 DEF Data
<1>3. TypeOK'
  BY <1>1, <1>2 DEF TypeOK, Points, Contents, Paths, Results, Drafts
<1>4. AutoValues' = AutoValues
  BY <1>2 DEF AutoValues, Exists, Paths
<1>5. SavedSurvives' /\ SyncedInv'
  BY <1>1, <1>2 DEF SavedSurvives, SyncedInv, Exists, Paths, Results
<1> QED
  BY <1>3, <1>4, <1>5 DEF ProcessInv, ReadInv, DraftInv, TouchedInv, SplitInv, Deriving

LEMMA FillConfigStep == ASSUME IInv, FillConfig PROVE IInv'
<1> USE DEF IInv, FillConfig, history
<1>1. mem \in Configs
  BY DEF ProcessInv
<1>2. /\ clock' \in Nat /\ clock' = clock + 1
      /\ disk' \in [Paths -> [data : Configs \cup Derived \cup {Missing, Partial}, time : 0..clock']]
      /\ Data(".tmpconfig.pid")' = mem /\ disk'[".tmpconfig.pid"].time = clock'
      /\ \A p \in Paths \ {".tmpconfig.pid"} : disk'[p] = disk[p]
  BY <1>1, CloseFacts DEF Paths
<1>3. \A p \in Paths \ {".tmpconfig.pid"} : Data(p)' = Data(p)
  BY <1>2 DEF Data
<1>4. TypeOK'
  BY <1>1, <1>2, <1>3 DEF TypeOK, Points, Contents, Paths, Results, Drafts
<1>5. AutoValues' = AutoValues
  BY <1>3 DEF AutoValues, Exists, Paths
<1>6. SavedSurvives' /\ SyncedInv'
  BY <1>2, <1>3 DEF SavedSurvives, SyncedInv, Exists, Paths, Results
<1>7. ProcessInv'
  BY <1>1, <1>2 DEF ProcessInv, TypeOK, Deriving
<1> QED
  BY <1>4, <1>5, <1>6, <1>7 DEF ReadInv, DraftInv, TouchedInv, SplitInv, Deriving

LEMMA KeepOldStep == ASSUME IInv, KeepOld PROVE IInv'
<1> USE DEF IInv, KeepOld, history
<1>1. /\ disk' \in [Paths -> [data : Configs \cup Derived \cup {Missing, Partial}, time : 0..clock']]
      /\ Exists(".config") => disk'[".config.old"] = disk[".config"] /\ Data(".config")' = Missing
      /\ ~Exists(".config") => disk' = disk
      /\ \A p \in Paths \ {".config", ".config.old"} : disk'[p] = disk[p]
  BY RenameFacts DEF Paths
<1>2. \A p \in Paths \ {".config", ".config.old"} : Data(p)' = Data(p)
  BY <1>1 DEF Data
<1>3. TypeOK'
  <2>1. CASE Exists(".config")
    <3>1. Data(".config")' = Missing /\ Data(".config.old")' = Data(".config")
      BY <1>1, <2>1 DEF Data
    <3> QED
      BY <1>1, <1>2, <3>1, FilesAssumption DEF TypeOK, Points, Contents, Paths, Results, Drafts
  <2>2. CASE ~Exists(".config")
    BY <1>1, <2>2 DEF TypeOK, Points, Data
  <2> QED
    BY <2>1, <2>2
<1>4. AutoValues' = AutoValues
  BY <1>2 DEF AutoValues, Exists, Paths
<1>5. SavedSurvives'
  BY <1>1 DEF SavedSurvives, Exists, Data
<1>6. SyncedInv'
  BY <1>1, <1>2 DEF SyncedInv, Exists, Data, Paths, Results
<1>7. ProcessInv'
  BY <1>1, <1>2 DEF ProcessInv, Paths, Deriving
<1> QED
  BY <1>3, <1>4, <1>5, <1>6, <1>7 DEF ReadInv, DraftInv, TouchedInv, SplitInv, Deriving

LEMMA ReplaceConfigStep == ASSUME IInv, ReplaceConfig PROVE IInv'
<1> USE DEF IInv, ReplaceConfig, End
<1>1. mem \in Configs /\ mem # Missing /\ mem # Partial /\ Data(".tmpconfig.pid") = mem
  BY FilesAssumption DEF ProcessInv
<1>2. /\ disk' \in [Paths -> [data : Configs \cup Derived \cup {Missing, Partial}, time : 0..clock']]
      /\ disk'[".config"] = disk[".tmpconfig.pid"] /\ Data(".tmpconfig.pid")' = Missing
      /\ \A p \in Paths \ {".tmpconfig.pid", ".config"} : disk'[p] = disk[p]
  BY <1>1, RenameFacts DEF Paths, Exists
<1>3. Data(".config")' = mem /\ \A p \in Paths \ {".tmpconfig.pid", ".config"} : Data(p)' = Data(p)
  BY <1>1, <1>2 DEF Data
<1>4. disk'[".config"].time > synced' /\ disk'[".config"].time \in 0..clock
  BY <1>2 DEF ProcessInv, TypeOK, Paths
<1>5. TypeOK'
  <2>1. \A p \in Paths : Data(p)' \in Contents(p)
    BY <1>1, <1>2, <1>3 DEF TypeOK, Contents, Paths, Results, Drafts
  <2>2. \A p \in Results \cup {".config", ".config.old"} : Data(p)' # Partial
    BY <1>1, <1>3 DEF TypeOK, Paths, Results
  <2>3. clock' \in Nat /\ readAt' \in 0..clock' /\ synced' \in 0..clock'
    BY DEF TypeOK
  <2> QED
    BY <1>1, <1>2, <2>1, <2>2, <2>3 DEF TypeOK, Points
<1>6. AutoValues' = AutoValues
  BY <1>3 DEF AutoValues, Exists, Paths
<1>7. SavedSurvives'
  BY <1>3 DEF SavedSurvives
<1>8. SyncedInv'
  BY <1>4 DEF SyncedInv, TypeOK
<1>9. ReadInv'
  BY <1>3, <1>4 DEF ReadInv, TypeOK, Deriving
<1> QED
  BY <1>1, <1>5, <1>6, <1>7, <1>8, <1>9 DEF ProcessInv, DraftInv, TouchedInv, SplitInv, Deriving

LEMMA OpenDraftsStep == ASSUME IInv, OpenDrafts PROVE IInv'
<1> USE DEF IInv, OpenDrafts, history
<1>1. /\ clock' = clock
      /\ disk' \in [Paths -> [data : Configs \cup Derived \cup {Missing, Partial}, time : 0..clock']]
      /\ \A p \in Drafts : Data(p)' = Partial
      /\ \A p \in Paths \ Drafts : disk'[p] = disk[p]
  BY OpenFacts DEF Paths, Drafts
<1>2. \A p \in Paths \ Drafts : Data(p)' = Data(p)
  BY <1>1 DEF Data
<1>3. TypeOK'
  <2>1. \A p \in Paths : Data(p)' \in Contents(p)
    BY <1>1, <1>2 DEF TypeOK, Contents
  <2>2. \A p \in Results \cup {".config", ".config.old"} : Data(p)' # Partial
    BY <1>2 DEF TypeOK, Paths, Results, Drafts
  <2> QED
    BY <1>1, <2>1, <2>2 DEF TypeOK, Points
<1>4. AutoValues' = AutoValues
  BY <1>2 DEF AutoValues, Exists, Paths, Drafts
<1>5. SavedSurvives' /\ SyncedInv'
  BY <1>1, <1>2 DEF SavedSurvives, SyncedInv, Exists, Paths, Results, Drafts
<1>6. ReadInv'
  BY <1>1, <1>2 DEF ReadInv, Deriving, Exists, Paths, Drafts
<1> QED
  BY <1>3, <1>4, <1>5, <1>6 DEF ProcessInv, DraftInv, TouchedInv, SplitInv, Deriving

LEMMA FillDraftsStep == ASSUME IInv, FillDrafts PROVE IInv'
<1> USE DEF IInv, FillDrafts, history
<1>1. mem \in Configs /\ Derive(mem) \in Derived
  BY DeriveType DEF ProcessInv
<1>2. /\ clock' \in Nat /\ clock' = clock + 1
      /\ disk' \in [Paths -> [data : Configs \cup Derived \cup {Missing, Partial}, time : 0..clock']]
      /\ \A p \in Drafts : Data(p)' = Derive(mem)
      /\ \A p \in Paths \ Drafts : disk'[p] = disk[p]
  <2>1. Drafts \in SUBSET Paths /\ Derive(mem) \in Configs \cup Derived /\ Close(Drafts, Derive(mem))
    BY <1>1 DEF Paths, Drafts
  <2> HIDE DEF FillDrafts
  <2> QED
    BY <2>1, CloseFacts
<1>3. \A p \in Paths \ Drafts : Data(p)' = Data(p)
  BY <1>2 DEF Data
<1>4. TypeOK'
  <2>1. \A p \in Paths : Data(p)' \in Contents(p)
    BY <1>1, <1>2, <1>3 DEF TypeOK, Contents
  <2>2. \A p \in Results \cup {".config", ".config.old"} : Data(p)' # Partial
    BY <1>3 DEF TypeOK, Paths, Results, Drafts
  <2>3. clock' \in Nat /\ readAt' \in 0..clock' /\ synced' \in 0..clock'
    BY <1>2 DEF TypeOK
  <2> QED
    BY <1>2, <2>1, <2>2, <2>3 DEF TypeOK, Points
<1>5. AutoValues' = AutoValues
  BY <1>3 DEF AutoValues, Exists, Paths, Drafts
<1>6. SavedSurvives' /\ SyncedInv'
  BY <1>2, <1>3 DEF SavedSurvives, SyncedInv, Exists, Paths, Results, Drafts
<1>7. ReadInv'
  BY <1>2, <1>3 DEF ReadInv, Deriving, Exists, Paths, Drafts
<1>8. DraftInv'
  BY <1>2 DEF DraftInv, Drafts
<1> QED
  BY <1>4, <1>5, <1>6, <1>7, <1>8 DEF ProcessInv, TouchedInv, SplitInv, Deriving

(* What the three renames have in common.                                   *)
LEMMA RenamedInv ==
    ASSUME IInv, pc \in {"header", "tristate", "auto"},
           NEW from \in Drafts, NEW to \in Results, Data(from) = Derive(mem),
           Rename(from, to), UNCHANGED clock
    PROVE  /\ Data(to)' = Derive(mem) /\ Derive(mem) \in Derived
           /\ \A p \in Paths \ {from, to} : disk'[p] = disk[p] /\ Data(p)' = Data(p)
           /\ disk' \in [Paths -> [data : Configs \cup Derived \cup {Missing, Partial}, time : 0..clock']]
           /\ \A p \in Paths : Data(p)' \in Contents(p)
           /\ \A p \in Results \cup {".config", ".config.old"} : Data(p)' # Partial
<1> USE DEF IInv
<1>1. Derive(mem) \in Derived /\ Derive(mem) # Missing /\ Derive(mem) # Partial
  BY DeriveType, FilesAssumption DEF ProcessInv
<1>2. from \in Paths /\ to \in Paths /\ from # to
  BY DEF Paths, Drafts, Results
<1>3. /\ disk' \in [Paths -> [data : Configs \cup Derived \cup {Missing, Partial}, time : 0..clock']]
      /\ disk'[to] = disk[from] /\ Data(from)' = Missing
      /\ \A p \in Paths \ {from, to} : disk'[p] = disk[p]
  BY <1>1, <1>2, RenameFacts DEF Exists
<1>4. Data(to)' = Derive(mem) /\ \A p \in Paths \ {from, to} : Data(p)' = Data(p)
  BY <1>3 DEF Data
<1>5. \A p \in Paths : Data(p)' \in Contents(p)
  BY <1>1, <1>3, <1>4 DEF TypeOK, Contents
<1>6. \A p \in Results \cup {".config", ".config.old"} : Data(p)' # Partial
  BY <1>1, <1>4 DEF TypeOK, Paths, Results, Drafts
<1> QED
  BY <1>1, <1>3, <1>4, <1>5, <1>6

LEMMA RenameHeaderStep == ASSUME IInv, RenameHeader PROVE IInv'
<1> USE DEF IInv, RenameHeader, history
<1>1. /\ Data("autoconf.h")' = Derive(mem)
      /\ \A p \in Paths \ {".tmpconfig.h", "autoconf.h"} : disk'[p] = disk[p] /\ Data(p)' = Data(p)
      /\ disk' \in [Paths -> [data : Configs \cup Derived \cup {Missing, Partial}, time : 0..clock']]
      /\ \A p \in Paths : Data(p)' \in Contents(p)
      /\ \A p \in Results \cup {".config", ".config.old"} : Data(p)' # Partial
  BY RenamedInv DEF DraftInv, Drafts, Results
<1>2. TypeOK'
  BY <1>1 DEF TypeOK, Points
<1>3. AutoValues' = AutoValues
  BY <1>1 DEF AutoValues, Exists, Paths
<1>4. SavedSurvives' /\ ReadInv'
  BY <1>1 DEF SavedSurvives, ReadInv, Deriving, Exists, Paths
<1>5. SyncedInv'
  <2> SUFFICES ASSUME Exists("auto.conf")', Exists(".config")', disk'[".config"].time <= synced'
               PROVE  \A p \in Results : Data(p)' = Derive(Data(".config"))'
    BY DEF SyncedInv
  <2>1. Exists("auto.conf") /\ Exists(".config") /\ disk[".config"].time <= synced
    BY <1>1 DEF Exists, Paths
  <2>2. Data(".config") = mem /\ Data(".config")' = mem
    BY <1>1, <2>1 DEF ReadInv, Deriving, TypeOK, Paths
  <2> QED
    BY <1>1, <2>1, <2>2 DEF SyncedInv, Results, Paths
<1>6. DraftInv'
  BY <1>1 DEF DraftInv, Paths
<1> QED
  BY <1>2, <1>3, <1>4, <1>5, <1>6 DEF ProcessInv, TouchedInv, SplitInv, Deriving

LEMMA RenameTristateStep == ASSUME IInv, RenameTristate PROVE IInv'
<1> USE DEF IInv, RenameTristate, history
<1>1. /\ Data("tristate.config")' = Derive(mem)
      /\ \A p \in Paths \ {".tmpconfig_tristate", "tristate.config"} : disk'[p] = disk[p] /\ Data(p)' = Data(p)
      /\ disk' \in [Paths -> [data : Configs \cup Derived \cup {Missing, Partial}, time : 0..clock']]
      /\ \A p \in Paths : Data(p)' \in Contents(p)
      /\ \A p \in Results \cup {".config", ".config.old"} : Data(p)' # Partial
  BY RenamedInv DEF DraftInv, Drafts, Results
<1>2. TypeOK'
  BY <1>1 DEF TypeOK, Points
<1>3. AutoValues' = AutoValues
  BY <1>1 DEF AutoValues, Exists, Paths
<1>4. SavedSurvives' /\ ReadInv'
  BY <1>1 DEF SavedSurvives, ReadInv, Deriving, Exists, Paths
<1>5. SyncedInv'
  <2> SUFFICES ASSUME Exists("auto.conf")', Exists(".config")', disk'[".config"].time <= synced'
               PROVE  \A p \in Results : Data(p)' = Derive(Data(".config"))'
    BY DEF SyncedInv
  <2>1. Exists("auto.conf") /\ Exists(".config") /\ disk[".config"].time <= synced
    BY <1>1 DEF Exists, Paths
  <2>2. Data(".config") = mem /\ Data(".config")' = mem
    BY <1>1, <2>1 DEF ReadInv, Deriving, TypeOK, Paths
  <2> QED
    BY <1>1, <2>1, <2>2 DEF SyncedInv, Results, Paths
<1>6. DraftInv'
  BY <1>1 DEF DraftInv, Paths
<1> QED
  BY <1>2, <1>3, <1>4, <1>5, <1>6 DEF ProcessInv, TouchedInv, SplitInv, Deriving

LEMMA RenameAutoStep == ASSUME IInv, RenameAuto PROVE IInv'
<1> USE DEF IInv, RenameAuto, End
<1>1. /\ Data("auto.conf")' = Derive(mem) /\ Derive(mem) \in Derived
      /\ \A p \in Paths \ {".tmpconfig", "auto.conf"} : disk'[p] = disk[p] /\ Data(p)' = Data(p)
      /\ disk' \in [Paths -> [data : Configs \cup Derived \cup {Missing, Partial}, time : 0..clock']]
      /\ \A p \in Paths : Data(p)' \in Contents(p)
      /\ \A p \in Results \cup {".config", ".config.old"} : Data(p)' # Partial
  BY RenamedInv DEF DraftInv, Drafts, Results
<1>2. TypeOK'
  <2>1. clock' \in Nat /\ readAt' \in 0..clock' /\ synced' \in 0..clock'
    BY DEF TypeOK
  <2> QED
    BY <1>1, <2>1 DEF TypeOK, Points
<1>3. AutoValues' = Derive(mem)
  BY <1>1, FilesAssumption DEF AutoValues, Exists
<1>4. SavedSurvives'
  BY <1>1 DEF SavedSurvives, Paths
<1>5. SyncedInv'
  <2> SUFFICES ASSUME Exists(".config")', disk'[".config"].time <= synced'
               PROVE  \A p \in Results : Data(p)' = Derive(Data(".config"))'
    BY DEF SyncedInv
  <2>1. Exists(".config") /\ disk[".config"].time <= readAt
    BY <1>1 DEF Exists, Paths
  <2>2. Data(".config")' = mem
    BY <1>1, <2>1 DEF ReadInv, Deriving, Paths
  <2> QED
    BY <1>1, <2>2 DEF DraftInv, Results, Paths
<1>6. TouchedInv'
  BY <1>3 DEF TouchedInv, SplitInv, TypeOK
<1> QED
  BY <1>2, <1>4, <1>5, <1>6 DEF ProcessInv, ReadInv, DraftInv, SplitInv, Deriving

LEMMA CleanStep == ASSUME IInv, Clean PROVE IInv'
<1> USE DEF IInv, Clean, history
<1>1. /\ disk' \in [Paths -> [data : Configs \cup Derived \cup {Missing, Partial}, time : 0..clock']]
      /\ \A p \in Results : Data(p)' = Missing
      /\ \A p \in Paths \ Results : disk'[p] = disk[p]
  BY RemoveFacts
<1>2. \A p \in Paths \ Results : Data(p)' = Data(p)
  BY <1>1 DEF Data
<1>3. TypeOK'
  <2>1. \A p \in Paths : Data(p)' \in Contents(p)
    BY <1>1, <1>2 DEF TypeOK, Contents
  <2>2. \A p \in Results \cup {".config", ".config.old"} : Data(p)' # Partial
    BY <1>1, <1>2, FilesAssumption DEF TypeOK, Paths, Results
  <2> QED
    BY <1>1, <2>1, <2>2 DEF TypeOK, Points
<1>4. SavedSurvives'
  BY <1>2 DEF SavedSurvives, Paths, Results
<1>5. SyncedInv'
  BY <1>1 DEF SyncedInv, Exists, Results
<1>6. TouchedInv'
  BY DEF TouchedInv, TypeOK
<1> QED
  BY <1>3, <1>4, <1>5, <1>6 DEF ProcessInv, ReadInv, DraftInv, SplitInv, Deriving

LEMMA StepInv == IInv /\ [Next]_fvars => IInv'
<1> SUFFICES ASSUME IInv, [Next]_fvars PROVE IInv'
  OBVIOUS
<1>1. CASE UNCHANGED fvars
  BY <1>1 DEF fvars, IInv, TypeOK, ProcessInv, SavedSurvives, ReadInv, DraftInv, SyncedInv, TouchedInv, SplitInv,
              AutoValues, Exists, Data
<1> QED
  BY <1>1, ConfigureStep, SyncStep, EditStep, OpenConfigStep, FillConfigStep, KeepOldStep, ReplaceConfigStep,
     ReadAutoStep, TouchStep, OpenDraftsStep, FillDraftsStep, RenameHeaderStep, RenameTristateStep,
     RenameAutoStep, DieStep, CleanStep, BuildStep DEF Next

LEMMA Invariance == Spec => []IInv
BY InitInv, StepInv, PTL DEF Spec

(***************************************************************************)
(* The results.                                                            *)
(***************************************************************************)
(* Types; no file under a name that make or a later front end reads is ever *)
(* one in the making.                                                       *)
THEOREM TypeCorrect == Spec => []TypeOK
<1>1. IInv => TypeOK
  BY DEF IInv
<1> QED
  BY <1>1, Invariance, PTL

(* Whenever conf_write is interrupted, the configuration saved last is in   *)
(* .config or in .config.old.                                               *)
THEOREM SavedConfigurationSurvives == Spec => []SavedSurvives
<1>1. IInv => SavedSurvives
  BY DEF IInv
<1> QED
  BY <1>1, Invariance, PTL

(* What make takes for up to date has been derived from .config as it is,   *)
(* whatever interrupted conf_write_autoconf before; or .config was written  *)
(* while the last complete syncconfig ran, after it had read it.            *)
THEOREM UpToDateMeansCurrent == Spec => []UpToDateIsCurrent
<1>1. IInv => UpToDateIsCurrent
  BY DEF IInv, TypeOK, SyncedInv, UpToDateIsCurrent, UpToDate, Paths
<1> QED
  BY <1>1, Invariance, PTL

(* conf_split_config touches the .h of every symbol that changed since the  *)
(* last build, also when several runs of it died in between.                *)
THEOREM UntouchedMeansUnchanged == Spec => []UntouchedIsUnchanged
<1>1. IInv => UntouchedIsUnchanged
  BY DEF IInv, TouchedInv, UntouchedIsUnchanged, UpToDate, AutoValues
<1> QED
  BY <1>1, Invariance, PTL
=============================================================================
