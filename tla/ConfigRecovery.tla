--------------------------- MODULE ConfigRecovery ---------------------------
(***************************************************************************)
(* The platform configuration of an AC5X switch and its recovery.          *)
(*                                                                         *)
(* The root file system is an initramfs: /etc, /tmp and /var are RAM, the  *)
(* same at every boot.  The platform XML an operator edits is kept on an   *)
(* eMMC partition.  S89part mounts the partition, keeps the initramfs copy *)
(* as mvsw_platform.ro, copies the partition's XML over it and starts      *)
(* track_xml.sh in the background; S90agent then starts the agent, which   *)
(* reads that XML and, if it is any good, brings up the ports.  A minute   *)
(* later the tracker looks for port sw1p1: if it is missing, it writes the *)
(* initramfs copy back to the partition and reboots.                       *)
(*                                                                         *)
(* Init (rcS, rcK), any number of trackers, the page cache, the operator   *)
(* and the power supply all step independently.                            *)
(***************************************************************************)
EXTENDS Naturals

CONSTANTS
    Factory,     \* the XML in the initramfs
    Custom,      \* the XMLs an operator may write
    Torn,        \* what an interrupted write leaves in a file
    Absent,      \* there is no such file
    NoAgent,     \* no agent runs
    Works,       \* the XMLs with which the agent brings up the ports
    AutoStart,   \* the kernel command line lacks agentAutoStart=0
    Timely,      \* booting and bringing up the ports takes less than 60 s
    ByHand,      \* the operator may run S89part from a shell
    Trackers,    \* the track_xml.sh processes one boot may start
    MaxCuts,     \* bound: power losses
    MaxOps       \* bound: operator actions

Contents == Custom \cup {Factory, Torn, Absent}

ASSUME ConstantsAssumption ==
    /\ Factory \notin Custom \cup {Torn, Absent, NoAgent}
    /\ Works \subseteq Custom \cup {Factory}
    /\ Custom \cap {Torn, Absent, NoAgent} = {}
    /\ Torn # Absent /\ NoAgent \notin {Torn, Absent}
    /\ AutoStart \in BOOLEAN /\ Timely \in BOOLEAN /\ ByHand \in BOOLEAN
    /\ MaxCuts \in Nat /\ MaxOps \in Nat

\* The checksum file: the sum of an XML, followed or not by a file name, or a
\* file whose blocks never reached the disk.
Sums == [of : Contents, form : {"bare", "named", "torn"}]
Bare(x)  == [of |-> x, form |-> "bare"]
Named(x) == [of |-> x, form |-> "named"]
TornSum  == [of |-> Torn, form |-> "torn"]

Partition == [xml : Contents, md5 : Sums]

\* Where init is: rcS (S89part line by line, then S90agent), up, or rcK.
Starting == {"mount", "test", "save", "load", "relink", "verify", "spawn"}
Booting  == Starting \cup {"agent"}
Stopping == {"krelink", "ksync", "kumount"}
Shutdown == Stopping \cup {"kagent", "kdrivers", "kinit"}
Control  == Booting \cup Shutdown \cup {"off", "up"}

TrackerControl ==
    {"idle", "sleep", "restore", "md5", "sync", "umount", "reboot", "done"}

VARIABLES
    rc,        \* control point of init and of the script it runs
    shell,     \* S89part was run from a shell and returns to "up"
    disk,      \* the partition as the eMMC holds it
    mnt,       \* the partition as programs see it under /mnt
    dirty,     \* the files whose last write is only in the page cache
    mounted,   \* the partition is mounted on /mnt
    etc,       \* /etc/mvsw/mvsw_platform.xml and .ro
    varlog,    \* what the link /var/log points to
    alarm,     \* S89part logged "XML MD5 check failed"
    agent,     \* the XML the running agent was started with
    ports,     \* sw1p1 exists
    trk,       \* control point of every tracker
    request,   \* a reboot is pending
    restores,  \* XMLs restored since the operator or the power acted, up to 2
    cuts, ops  \* power losses and operator actions so far

store == <<disk, mnt, dirty>>
boot  == <<etc, varlog, alarm>>
chip  == <<agent, ports>>
hist  == <<restores, cuts, ops>>
vars  == <<rc, shell, store, mounted, boot, chip, trk, request, hist>>

-----------------------------------------------------------------------------
(* Power and the page cache.                                               *)

FreshRam ==
    /\ shell' = FALSE
    /\ mounted' = FALSE
    /\ dirty' = {}
    /\ etc' = [xml |-> Factory, ro |-> Absent]
    /\ varlog' = "tmp"
    /\ alarm' = FALSE
    /\ agent' = NoAgent
    /\ ports' = FALSE
    /\ trk' = [t \in Trackers |-> "idle"]
    /\ request' = FALSE

\* The image ships an XML with its bare checksum; an earlier life of the board
\* may have left any other XML there.
Init ==
    /\ rc = "off" /\ shell = FALSE
    /\ disk \in [xml : Custom \cup {Factory, Absent}, md5 : {Bare(Factory)}]
    /\ mnt = disk /\ dirty = {} /\ mounted = FALSE
    /\ etc = [xml |-> Factory, ro |-> Absent]
    /\ varlog = "tmp" /\ alarm = FALSE
    /\ agent = NoAgent /\ ports = FALSE
    /\ trk = [t \in Trackers |-> "idle"]
    /\ request = FALSE
    /\ restores = 0 /\ cuts = 0 /\ ops = 0

PowerOn ==
    /\ rc = "off" /\ rc' = "mount"
    /\ UNCHANGED <<shell, store, mounted, boot, chip, trk, request, hist>>

\* A file that was dirty when the power went keeps its old contents or is torn.
Survivors(d) ==
    [xml : {disk.xml} \cup (IF "xml" \in d THEN {Torn} ELSE {}),
     md5 : {disk.md5} \cup (IF "md5" \in d THEN {TornSum} ELSE {})]

PowerLoss ==
    /\ cuts < MaxCuts /\ cuts' = cuts + 1
    /\ rc # "off" /\ rc' = "off"
    /\ disk' \in Survivors(dirty) /\ mnt' = disk'
    /\ FreshRam
    /\ restores' = 0
    /\ UNCHANGED ops

Writeback ==
    \E f \in dirty :
        /\ disk' = [disk EXCEPT ![f] = mnt[f]]
        /\ dirty' = dirty \ {f}
        /\ UNCHANGED <<rc, shell, mnt, mounted, boot, chip, trk, request, hist>>

\* sync(1), and the flush an unmount begins with.
FlushAll == disk' = mnt /\ dirty' = {} /\ UNCHANGED mnt

\* umount refuses while some process has a file open on the partition.
TryUmount ==
    \/ mounted /\ mounted' = FALSE /\ FlushAll
    \/ UNCHANGED <<store, mounted>>

WriteFile(f, v) ==
    IF mounted
    THEN /\ mnt' = [mnt EXCEPT ![f] = v]
         /\ dirty' = dirty \cup {f}
         /\ UNCHANGED disk
    ELSE UNCHANGED store          \* /mnt/etc/mvsw does not exist

-----------------------------------------------------------------------------
(* S89part start, run by rcS or from a shell.                              *)

Goto(from, to) == rc = from /\ rc' = to

\* The step after S89part: the next script of rcS or rcK, or the prompt.
After(next) == IF shell THEN "up" ELSE next

\* fsck's verdict is ignored; mount fails on a bad partition, and when it is
\* mounted already.
Mount ==
    /\ Goto("mount", "test")
    /\ mounted' \in {mounted, TRUE}
    /\ UNCHANGED <<shell, store, boot, chip, trk, request, hist>>

Test ==
    /\ rc = "test"
    /\ \/ mounted /\ mnt.xml # Absent /\ rc' = "save" /\ UNCHANGED shell
       \/ ~(mounted /\ mnt.xml # Absent) /\ rc' = After("agent") /\ shell' = FALSE
    /\ UNCHANGED <<store, mounted, boot, chip, trk, request, hist>>

\* Mutant of Save: the partition's XML is set aside, not the initramfs one.
SaveWrongFile ==
    /\ Goto("save", "load")
    /\ etc' = [xml |-> Absent, ro |-> mnt.xml]
    /\ UNCHANGED <<shell, store, mounted, varlog, alarm, chip, trk, request, hist>>

\* mv
Save ==
    /\ Goto("save", "load")
    /\ etc' = IF etc.xml = Absent THEN etc
              ELSE [xml |-> Absent, ro |-> etc.xml]
    /\ UNCHANGED <<shell, store, mounted, varlog, alarm, chip, trk, request, hist>>

\* Mutant of Load: the XML moved aside is not replaced.
LoadMissing ==
    /\ Goto("load", "relink")
    /\ UNCHANGED <<shell, store, mounted, boot, chip, trk, request, hist>>

\* cp
Load ==
    /\ Goto("load", "relink")
    /\ etc' = IF mounted /\ mnt.xml # Absent
              THEN [etc EXCEPT !.xml = mnt.xml] ELSE etc
    /\ UNCHANGED <<shell, store, mounted, varlog, alarm, chip, trk, request, hist>>

Relink ==
    /\ Goto("relink", "verify")
    /\ varlog' = "mnt"
    /\ UNCHANGED <<shell, store, mounted, etc, alarm, chip, trk, request, hist>>

\* The sum is computed bare and compared with the file as text.
Verify ==
    /\ Goto("verify", "spawn")
    /\ alarm' = (alarm \/ (mounted /\ mnt.md5 # Bare(mnt.xml)))
    /\ UNCHANGED <<shell, store, mounted, etc, varlog, chip, trk, request, hist>>

\* start-stop-daemon looks for a process whose program is track_xml.sh; a
\* running tracker's program is the shell, so another one is always started.
Spawn ==
    /\ rc = "spawn" /\ rc' = After("agent") /\ shell' = FALSE
    /\ \E t \in Trackers :
        /\ trk[t] = "idle"
        /\ trk' = [trk EXCEPT ![t] = "sleep"]
    /\ UNCHANGED <<store, mounted, boot, chip, request, hist>>

-----------------------------------------------------------------------------
(* S90agent start, and the agent.                                          *)

AgentStart ==
    /\ Goto("agent", "up")
    /\ agent' = IF AutoStart THEN etc.xml ELSE agent
    /\ UNCHANGED <<shell, store, mounted, boot, ports, trk, request, hist>>

PortsUp ==
    /\ agent \in Works /\ ~ports /\ ports' = TRUE
    /\ rc \in {"up"} \cup Starting
    /\ UNCHANGED <<rc, shell, store, mounted, boot, agent, trk, request, hist>>

-----------------------------------------------------------------------------
(* track_xml.sh.                                                           *)

TrackerGoto(t, from, to) == trk[t] = from /\ trk' = [trk EXCEPT ![t] = to]

\* With Timely, the minute is not over before the boot is and before an agent
\* that can bring up the ports has done so.
MinuteOver ==
    Timely => /\ rc \notin Booting
              /\ agent \in Works /\ rc = "up" => ports

\* Mutant of Expire: the port is not looked for.
ExpireBlindly(t) ==
    /\ MinuteOver
    /\ TrackerGoto(t, "sleep", "restore")
    /\ UNCHANGED <<rc, shell, store, mounted, boot, chip, request, hist>>

Expire(t) ==
    /\ MinuteOver
    /\ TrackerGoto(t, "sleep", IF ports THEN "done" ELSE "restore")
    /\ UNCHANGED <<rc, shell, store, mounted, boot, chip, request, hist>>

\* Mutant of Restore: copies the XML in use instead of the one set aside.
RestoreXmlInUse(t) ==
    /\ TrackerGoto(t, "restore", "md5")
    /\ WriteFile("xml", etc.xml)
    /\ restores' = IF restores = 2 THEN 2 ELSE restores + 1
    /\ UNCHANGED <<rc, shell, mounted, boot, chip, request, cuts, ops>>

Restore(t) ==
    /\ TrackerGoto(t, "restore", "md5")
    /\ \/ mounted /\ etc.ro # Absent
          /\ WriteFile("xml", etc.ro)
          /\ restores' = IF restores = 2 THEN 2 ELSE restores + 1
       \/ ~(mounted /\ etc.ro # Absent)
          /\ UNCHANGED <<store, restores>>
    /\ UNCHANGED <<rc, shell, mounted, boot, chip, request, cuts, ops>>

\* md5sum's whole line goes to the file: the sum and the name.
WriteMd5(t) ==
    /\ TrackerGoto(t, "md5", "sync")
    /\ WriteFile("md5", IF etc.ro = Absent THEN TornSum ELSE Named(etc.ro))
    /\ UNCHANGED <<rc, shell, mounted, boot, chip, request, hist>>

Sync(t) ==
    /\ TrackerGoto(t, "sync", "umount")
    /\ FlushAll
    /\ UNCHANGED <<rc, shell, mounted, boot, chip, request, hist>>

Umount(t) ==
    /\ TrackerGoto(t, "umount", "reboot")
    /\ TryUmount
    /\ UNCHANGED <<rc, shell, boot, chip, request, hist>>

Reboot(t) ==
    /\ TrackerGoto(t, "reboot", "done")
    /\ request' = TRUE
    /\ UNCHANGED <<rc, shell, store, mounted, boot, chip, hist>>

-----------------------------------------------------------------------------
(* rcK: S90agent stop, S89part stop, the drivers, then init's own umount.  *)

\* init serves a reboot request once sysinit is over.
BeginShutdown ==
    /\ request /\ Goto("up", "kagent")
    /\ UNCHANGED <<shell, store, mounted, boot, chip, trk, request, hist>>

AgentStop ==
    /\ Goto("kagent", "krelink")
    /\ agent' = NoAgent
    /\ UNCHANGED <<shell, store, mounted, boot, ports, trk, request, hist>>

\* Mutant of PartRelink: /var/log keeps leading into the partition.
PartRelinkMissing ==
    /\ Goto("krelink", "ksync")
    /\ UNCHANGED <<shell, store, mounted, boot, chip, trk, request, hist>>

PartRelink ==
    /\ Goto("krelink", "ksync")
    /\ varlog' = "tmp"
    /\ UNCHANGED <<shell, store, mounted, etc, alarm, chip, trk, request, hist>>

PartSync ==
    /\ Goto("ksync", "kumount")
    /\ FlushAll
    /\ UNCHANGED <<shell, mounted, boot, chip, trk, request, hist>>

PartUmount ==
    /\ rc = "kumount" /\ rc' = After("kdrivers") /\ shell' = FALSE
    /\ TryUmount
    /\ UNCHANGED <<boot, chip, trk, request, hist>>

\* S70 and S69 stop unload the drivers behind the ports.
DriversStop ==
    /\ Goto("kdrivers", "kinit")
    /\ ports' = FALSE
    /\ UNCHANGED <<shell, store, mounted, boot, agent, trk, request, hist>>

\* Mutant of Restart: a partition that was busy is not flushed.
RestartUnflushed ==
    /\ Goto("kinit", "mount")
    /\ disk' = disk /\ mnt' = disk
    /\ FreshRam
    /\ UNCHANGED hist

\* Processes are killed, umount -a flushes, and the board starts again.
Restart ==
    /\ Goto("kinit", "mount")
    /\ disk' = mnt /\ mnt' = mnt
    /\ FreshRam
    /\ UNCHANGED hist

-----------------------------------------------------------------------------
(* The operator, at a shell once the system is up.                         *)

Operate ==
    /\ rc = "up" /\ ~request
    /\ ops < MaxOps /\ ops' = ops + 1
    /\ restores' = 0
    /\ UNCHANGED cuts

\* Writes or removes the XML; a careful one writes its checksum too.
EditXml ==
    /\ Operate /\ mounted
    /\ \E x \in Custom \cup {Factory, Absent}, sealed \in BOOLEAN :
        /\ mnt' = [xml |-> x, md5 |-> IF sealed THEN Bare(x) ELSE mnt.md5]
        /\ dirty' = dirty \cup {"xml"} \cup (IF sealed THEN {"md5"} ELSE {})
    /\ UNCHANGED <<rc, shell, disk, mounted, boot, chip, trk, request>>

AskReboot ==
    /\ Operate
    /\ request' = TRUE
    /\ UNCHANGED <<rc, shell, store, mounted, boot, chip, trk>>

StartAgentByHand ==
    /\ Operate /\ agent = NoAgent
    /\ agent' = etc.xml
    /\ UNCHANGED <<rc, shell, store, mounted, boot, ports, trk, request>>

RunS89part ==
    /\ ByHand /\ Operate
    /\ \/ rc' = "mount" /\ \E t \in Trackers : trk[t] = "idle"
       \/ rc' = "krelink"
    /\ shell' = TRUE
    /\ UNCHANGED <<store, mounted, boot, chip, trk, request>>

-----------------------------------------------------------------------------
RcS == Mount \/ Test \/ Save \/ Load \/ Relink \/ Verify \/ Spawn \/ AgentStart
RcK == BeginShutdown \/ AgentStop \/ PartRelink \/ PartSync \/ PartUmount
         \/ DriversStop \/ Restart
Tracker(t) == Expire(t) \/ Restore(t) \/ WriteMd5(t) \/ Sync(t) \/ Umount(t)
                \/ Reboot(t)
Operator == EditXml \/ AskReboot \/ StartAgentByHand \/ RunS89part

Next ==
    \/ PowerOn \/ PowerLoss \/ Writeback
    \/ RcS \/ RcK \/ PortsUp
    \/ \E t \in Trackers : Tracker(t)
    \/ Operator

Spec == Init /\ [][Next]_vars

\* init, the trackers and the agent run until they are done; the operator and
\* the power owe nothing, except that a board that is off is switched on.
Fairness ==
    /\ WF_vars(PowerOn) /\ WF_vars(RcS) /\ WF_vars(RcK) /\ WF_vars(PortsUp)
    /\ \A t \in Trackers : WF_vars(Tracker(t))

FairSpec == Spec /\ Fairness

-----------------------------------------------------------------------------
TypeOK ==
    /\ rc \in Control /\ shell \in BOOLEAN
    /\ disk \in Partition /\ mnt \in Partition /\ dirty \subseteq {"xml", "md5"}
    /\ mounted \in BOOLEAN
    /\ etc \in [xml : Contents, ro : Contents]
    /\ varlog \in {"tmp", "mnt"} /\ alarm \in BOOLEAN
    /\ agent \in Contents \cup {NoAgent} /\ ports \in BOOLEAN
    /\ trk \in [Trackers -> TrackerControl]
    /\ request \in BOOLEAN
    /\ restores \in 0..2 /\ cuts \in 0..MaxCuts /\ ops \in 0..MaxOps

(* From here on: a board whose factory XML works, whose agent init starts,  *)
(* and which comes up within the tracker's minute is assumed where named.  *)

\* A live tracker always has the factory XML to fall back to: S89part sets it
\* aside (mv to mvsw_platform.ro) before anything can overwrite it.
FallbackIsFactory ==
    \A t \in Trackers : trk[t] \notin {"idle", "done"} => etc.ro = Factory

\* The recovery does not cycle: once an XML was restored, nothing is restored
\* again until the operator or a power loss changed what is on the partition.
AtMostOneRestore == restores <= 1

\* What track_xml.sh restored stays on the partition, and is on the eMMC itself
\* by the time the partition is unmounted or the board starts again, whatever
\* order the tracker's and rcK's syncs and unmounts come in.
RestoreSticks ==
    restores > 0 => /\ mnt.xml = Factory
                    /\ mounted \/ disk.xml = Factory

\* Logs are never lost to a dangling link: when /var/log leads into the
\* partition, the partition is mounted or the board is about to restart.
LogsHaveAHome ==
    varlog = "mnt" => \/ mounted
                      \/ request
                      \/ \E t \in Trackers : trk[t] = "reboot"

\* While the system is up, no one but the operator takes away the XML it runs
\* with when that XML works: the tracker's only write is to a failed one.
WorkingXmlTakenAway ==
    /\ mnt.xml \in Works /\ mnt.xml = etc.xml /\ rc \notin Shutdown
    /\ mnt'.xml # mnt.xml /\ ops' = ops /\ rc' # "off"
LiveConfigKept == [][~WorkingXmlTakenAway]_mnt

\* In the end the board is up with its ports, whatever XML an operator left and
\* wherever the power was cut.
Converges == <>[](rc = "up" /\ ports)

\* Where S89part is run by init alone, the agent is started by init and the tracker
\* waits long enough, the scripts keep Recovery's promise: the agent starts with
\* the partition's XML or the factory one, and the only write to the partition
\* that is not the operator's puts the factory XML in the place of one that fails.
\* While the system goes down, no XML is in use.
InUse == IF rc \in Shutdown THEN NoAgent ELSE agent

Abstract == INSTANCE Recovery WITH
    xml <- mnt.xml, safe <- disk.xml, pending <- "xml" \in dirty, using <- InUse

RecoverySpec == Abstract!Spec

=============================================================================
