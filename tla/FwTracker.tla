------------------------------ MODULE FwTracker ------------------------------
(***************************************************************************)
(* track_fw_application.sh: the watchdog of the firmware application and   *)
(* the ring of dumps it keeps under /var/log.                              *)
(*                                                                         *)
(* Once a second the script greps the kernel log for two complaints of the *)
(* driver about the firmware; if one is there it takes the kernel stacks   *)
(* of the firmware's tasks and kills it.  When the firmware is gone and    *)
(* has left a core, the script packs and uploads the core, the firmware's  *)
(* output and the stacks, and keeps a copy in the next of N numbered       *)
(* directories; the file ri holds the number of the last one.              *)
(*                                                                         *)
(* Whoever starts the firmware starts the script (nothing in this          *)
(* repository does).  The ring is on the eMMC partition and survives a     *)
(* loss of power as far as it was written back; nothing else does.         *)
(***************************************************************************)
EXTENDS Integers, Sequences

CONSTANTS
    N,          \* directories in the ring; 9 in the script
    Trackers,   \* processes running the script
    Messages,   \* the complaints the driver makes, of "timedout" and "stuck"
    Overlap,    \* the firmware is started again while a script is at work
    MaxLives,   \* bound: starts of the firmware
    MaxCuts     \* bound: losses of power

ASSUME RingAssumption == N \in Nat \ {0}
ASSUME BoundsAssumption ==
    /\ Messages \subseteq {"timedout", "stuck"}
    /\ Overlap \in BOOLEAN /\ MaxLives \in Nat /\ MaxCuts \in Nat

Lives == 1..MaxLives
None == 0      \* no life, no file, or a file with nothing useful in it

Ring == 1..N
Absent == 0    \* ri does not exist
Empty == -1    \* ri was cut short

VARIABLES
    life,     \* lives of the firmware so far; the latest one is its pid
    fw,       \* down, up, or dying (killed or crashed, dumping its core)
    dmesg,    \* the complaints in the kernel log
    core,     \* /core: the life that dumped it
    trace,    \* /tmp/stackbacktrace.txt: the life whose stacks it holds
    pc,       \* where each script is
    pid,      \* the life it watches
    dump,     \* the core it moved away and the stacks it copied
    idx,      \* $ridx
    ri,       \* the number in ri
    riDisk,   \* and the one in ri that would survive a loss of power
    slot,     \* the dumps in each directory of the ring
    saved,    \* history: the dumps saved since the power was lost, and where
    killed,   \* history: the lives a script has killed
    cuts      \* losses of power so far

machine == <<life, fw, dmesg, core>>
locals  == <<pc, pid, dump, idx>>
ring    == <<ri, riDisk, slot>>
hist    == <<saved, killed, cuts>>
vars    == <<machine, trace, locals, ring, hist>>

NoDump == [core |-> None, trace |-> None]
Dumps == [core : Lives \cup {None}, trace : Lives \cup {None}]

Busy(t) == pc[t] # "idle"
AtWork == \E t \in Trackers : Busy(t)

-----------------------------------------------------------------------------
Init ==
    /\ life = 0 /\ fw = "down" /\ dmesg = {} /\ core = None /\ trace = None
    /\ pc = [t \in Trackers |-> "idle"] /\ pid = [t \in Trackers |-> None]
    /\ dump = [t \in Trackers |-> NoDump] /\ idx = [t \in Trackers |-> 1]
    /\ ri \in Ring \cup {Absent, Empty} /\ riDisk = ri
    /\ slot = [i \in Ring |-> {}]
    /\ saved = <<>> /\ killed = {} /\ cuts = 0

(* The firmware and the kernel.                                            *)

FwStart ==
    /\ fw = "down" /\ life < MaxLives
    /\ Overlap \/ ~AtWork
    /\ fw' = "up" /\ life' = life + 1
    /\ UNCHANGED <<dmesg, core, trace, locals, ring, hist>>

FwComplaint ==
    /\ fw = "up" /\ \E m \in Messages : dmesg' = dmesg \cup {m}
    /\ UNCHANGED <<life, fw, core, trace, locals, ring, hist>>

FwExit ==
    /\ fw = "up" /\ fw' = "down"
    /\ UNCHANGED <<life, dmesg, core, trace, locals, ring, hist>>

FwCrash ==
    /\ fw = "up" /\ fw' = "dying"
    /\ UNCHANGED <<life, dmesg, core, trace, locals, ring, hist>>

\* The core may not fit into memory, or be disabled.
FwGone ==
    /\ fw = "dying" /\ fw' = "down"
    /\ core' \in {core, life}
    /\ UNCHANGED <<life, dmesg, trace, locals, ring, hist>>

Writeback ==
    /\ riDisk # ri /\ riDisk' = ri
    /\ UNCHANGED <<machine, trace, locals, ri, slot, hist>>

PowerLoss ==
    /\ cuts < MaxCuts /\ cuts' = cuts + 1
    /\ fw' = "down" /\ dmesg' = {} /\ core' = None /\ trace' = None
    /\ pc' = [t \in Trackers |-> "idle"] /\ pid' = [t \in Trackers |-> None]
    /\ dump' = [t \in Trackers |-> NoDump] /\ idx' = [t \in Trackers |-> 1]
    /\ ri' \in {riDisk} \cup (IF ri # riDisk THEN {Empty} ELSE {})
    /\ riDisk' = ri'
    /\ \E lost \in SUBSET Ring :
         slot' = [i \in Ring |-> IF i \in lost THEN {} ELSE slot[i]]
    /\ saved' = <<>>
    /\ UNCHANGED <<life, killed>>

-----------------------------------------------------------------------------
(* The script.                                                             *)

Goto(t, from, to) == pc[t] = from /\ pc' = [pc EXCEPT ![t] = to]

\* /proc/$pid/exe can be read.
Exists(p) == p = life /\ fw # "down"

TrackerStart(t) ==
    /\ Goto(t, "idle", "watch")
    /\ Overlap \/ ~AtWork
    /\ pid' = [pid EXCEPT ![t] = IF fw = "down" THEN None ELSE life]
    /\ UNCHANGED <<machine, trace, dump, idx, ring, hist>>

Watch(t) ==
    /\ Goto(t, "watch", IF Exists(pid[t]) THEN "timedout" ELSE "core")
    /\ UNCHANGED <<machine, trace, pid, dump, idx, ring, hist>>

\* Of a process that is gone there are no stacks, and the file is of no use.
stackbacktrace(p) == trace' = IF Exists(p) THEN p ELSE None

\* One grep of the kernel log.
Look(t, m, bad, good) ==
    /\ Goto(t, m, IF m \in dmesg THEN bad ELSE good)
    /\ IF m \in dmesg THEN stackbacktrace(pid[t]) ELSE UNCHANGED trace
    /\ UNCHANGED <<machine, pid, dump, idx, ring, hist>>

\* Mutant of Kill: kill is left out.
KillMissing(t, from, to) ==
    /\ Goto(t, from, to)
    /\ UNCHANGED <<machine, trace, pid, dump, idx, ring, hist>>

Kill(t, from, to) ==
    /\ Goto(t, from, to)
    /\ IF Exists(pid[t])
       THEN fw' = "dying" /\ killed' = killed \cup {pid[t]}
       ELSE UNCHANGED <<fw, killed>>
    /\ UNCHANGED <<life, dmesg, core, trace, pid, dump, idx, ring, saved, cuts>>

\* Mutant of FindCore: [ ! -f /core ].
FindCoreInverted(t) ==
    /\ Goto(t, "core", IF core # None THEN "idle" ELSE "pack")
    /\ UNCHANGED <<machine, trace, pid, dump, idx, ring, hist>>

FindCore(t) ==
    /\ Goto(t, "core", IF core = None THEN "idle" ELSE "pack")
    /\ UNCHANGED <<machine, trace, pid, dump, idx, ring, hist>>

\* mv, cp, gzip and tftp.  Another script may have moved the core meanwhile.
Pack(t) ==
    /\ Goto(t, "pack", "read")
    /\ dump' = [dump EXCEPT ![t] = [core |-> core, trace |-> trace]]
    /\ core' = None
    /\ UNCHANGED <<life, fw, dmesg, trace, pid, idx, ring, hist>>

\* Mutant of NextIdx: -ge in the place of -gt.
NextIdxShort(i) == IF i < 1 THEN 1 ELSE IF i + 1 >= N THEN 1 ELSE i + 1

\* Mutant of NextIdx: no wrap-around.
NextIdxOnAndOn(i) == IF i < 1 THEN 1 ELSE i + 1

\* The number after the one in ri; an empty ri counts as 0.
NextIdx(i) == IF i < 1 THEN 1 ELSE IF i + 1 > N THEN 1 ELSE i + 1

ReadIndex(t) ==
    /\ Goto(t, "read", "write")
    /\ idx' = [idx EXCEPT ![t] = NextIdx(ri)]
    /\ UNCHANGED <<machine, trace, pid, dump, ring, hist>>

WriteIndex(t) ==
    /\ Goto(t, "write", "clean")
    /\ ri' = idx[t]
    /\ UNCHANGED <<machine, trace, pid, dump, idx, riDisk, slot, hist>>

Clean(t) ==
    /\ Goto(t, "clean", "keep")
    /\ slot' = [slot EXCEPT ![idx[t]] = {}]
    /\ UNCHANGED <<machine, trace, pid, dump, idx, ri, riDisk, hist>>

\* Without a core, only the output and the stacks are kept.
Keep(t) ==
    /\ Goto(t, "keep", "idle")
    /\ slot' = [slot EXCEPT ![idx[t]] = @ \cup {dump[t]}]
    /\ saved' = Append(saved, [dump |-> dump[t], at |-> idx[t]])
    /\ UNCHANGED <<machine, trace, pid, dump, idx, ri, riDisk, killed, cuts>>

-----------------------------------------------------------------------------
Script(t) ==
    \/ Watch(t)
    \/ Look(t, "timedout", "kill1", "stuck") \/ Kill(t, "kill1", "stuck")
    \/ Look(t, "stuck", "kill2", "watch")    \/ Kill(t, "kill2", "watch")
    \/ FindCore(t) \/ Pack(t) \/ ReadIndex(t) \/ WriteIndex(t) \/ Clean(t) \/ Keep(t)

Machine == FwStart \/ FwComplaint \/ FwExit \/ FwCrash \/ FwGone

Next ==
    \/ Machine \/ Writeback \/ PowerLoss
    \/ \E t \in Trackers : TrackerStart(t) \/ Script(t)

Spec == Init /\ [][Next]_vars

\* The script's commands end (tftp gives up on a silent server), and so does
\* the dumping of a core.
FairSpec == Spec /\ WF_vars(FwGone) /\ \A t \in Trackers : WF_vars(Script(t))

-----------------------------------------------------------------------------
Stages == {"idle", "watch", "timedout", "kill1", "stuck", "kill2",
           "core", "pack", "read", "write", "clean", "keep"}

TypeOK ==
    /\ life \in 0..MaxLives /\ dmesg \subseteq Messages
    /\ fw \in {"down", "up", "dying"} /\ (fw # "down" => life \in Lives)
    /\ core \in Lives \cup {None} /\ trace \in Lives \cup {None}
    /\ pc \in [Trackers -> Stages] /\ pid \in [Trackers -> Lives \cup {None}]
    /\ dump \in [Trackers -> Dumps] /\ idx \in [Trackers -> Ring]
    /\ ri \in Ring \cup {Absent, Empty} /\ riDisk \in Ring \cup {Absent, Empty}
    /\ slot \in [Ring -> SUBSET Dumps]
    /\ saved \in Seq([dump : Dumps, at : Ring])
    /\ killed \subseteq Lives /\ cuts \in 0..MaxCuts

\* The ring keeps the last N dumps (the last N - 1 while the next one is being
\* saved), whatever ri held when the board started and wherever earlier losses of
\* power have left it.
RingKeepsLatest ==
    LET saving == \E t \in Trackers : pc[t] = "keep"
        kept   == IF saving THEN N - 1 ELSE N
    IN  \A k \in DOMAIN saved :
          Len(saved) - k < kept => slot[saved[k].at] = {saved[k].dump}

Watched(p) == \E t \in Trackers : Busy(t) /\ pid[t] = p

\* A firmware the driver complains about, once watched, does not stay.
ComplaintIsFatal ==
    \A p \in Lives :
        (dmesg # {} /\ Exists(p) /\ Watched(p)) ~> ~Exists(p)

\* The core of a firmware that was watched gets into the ring, unless the power
\* is lost first.
CrashIsKept ==
    \A p \in Lives, n \in 0..MaxCuts :
        (core = p /\ cuts = n /\ Watched(p))
            ~> (cuts # n \/ \E i \in Ring : \E d \in slot[i] : d.core = p)
=============================================================================
