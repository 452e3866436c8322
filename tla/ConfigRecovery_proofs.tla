------------------------ MODULE ConfigRecovery_proofs ------------------------
(* What holds of ConfigRecovery for every set of XMLs and trackers and every *)
(* number of power losses and operator actions.                              *)
EXTENDS ConfigRecovery, TLAPS

(* A write through /mnt leaves a partition with one file replaced.           *)
LEMMA WriteXmlTyped ==
    ASSUME TypeOK, NEW x \in Contents, WriteFile("xml", x)
    PROVE  disk' \in Partition /\ mnt' \in Partition /\ dirty' \subseteq {"xml", "md5"}
BY DEF WriteFile, TypeOK, Partition, store

LEMMA WriteSumTyped ==
    ASSUME TypeOK, NEW m \in Sums, WriteFile("md5", m)
    PROVE  disk' \in Partition /\ mnt' \in Partition /\ dirty' \subseteq {"xml", "md5"}
BY DEF WriteFile, TypeOK, Partition, store

(***************************************************************************)
(* The state stays within its types: no step of init, of a tracker, of the *)
(* operator or of the power supply leaves a control point undefined or     *)
(* puts into a file what is no XML or no checksum.                         *)
(***************************************************************************)
THEOREM TypeCorrect == Spec => []TypeOK
<1>1. Init => TypeOK
  <2> SUFFICES ASSUME Init PROVE TypeOK
    OBVIOUS
  <2>1. Bare(Factory) \in Sums
    BY DEF Bare, Sums, Contents
  <2>2. [xml : Custom \cup {Factory, Absent}, md5 : {Bare(Factory)}]
           \subseteq Partition
    BY <2>1 DEF Partition, Contents
  <2>3. disk \in Partition /\ mnt \in Partition
    BY <2>2 DEF Init
  <2>4. etc \in [xml : Contents, ro : Contents]
    BY DEF Init, Contents
  <2>5. trk \in [Trackers -> TrackerControl]
    BY DEF Init, TrackerControl
  <2>6. rc \in Control
    BY DEF Init, Control
  <2>7. /\ shell \in BOOLEAN /\ mounted \in BOOLEAN /\ dirty \subseteq {"xml", "md5"}
        /\ varlog \in {"tmp", "mnt"} /\ alarm \in BOOLEAN
        /\ agent \in Contents \cup {NoAgent} /\ ports \in BOOLEAN /\ request \in BOOLEAN
    BY DEF Init
  <2>8. restores \in 0..2 /\ cuts \in 0..MaxCuts /\ ops \in 0..MaxOps
    BY ConstantsAssumption DEF Init
  <2> QED
    BY <2>3, <2>4, <2>5, <2>6, <2>7, <2>8 DEF TypeOK
<1>2. TypeOK /\ [Next]_vars => TypeOK'
  <2> SUFFICES ASSUME TypeOK, [Next]_vars PROVE TypeOK'
    OBVIOUS
  <2> USE ConstantsAssumption DEF TypeOK, vars, store, boot, chip, hist
  <2>1. CASE PowerOn
    BY <2>1 DEF PowerOn, Control, Booting, Starting
  <2>2. CASE PowerLoss
    <3>1. TornSum \in Sums /\ Torn \in Contents
      BY DEF TornSum, Sums, Contents
    <3>2. Survivors(dirty) \subseteq Partition
      BY <3>1 DEF Survivors, Partition
    <3>3. disk' \in Partition /\ mnt' \in Partition
      BY <2>2, <3>2 DEF PowerLoss
    <3>4. etc' \in [xml : Contents, ro : Contents]
      BY <2>2 DEF PowerLoss, FreshRam, Contents
    <3>5. trk' \in [Trackers -> TrackerControl]
      BY <2>2 DEF PowerLoss, FreshRam, TrackerControl
    <3>6. /\ shell' \in BOOLEAN /\ mounted' \in BOOLEAN /\ dirty' \subseteq {"xml", "md5"}
          /\ varlog' \in {"tmp", "mnt"} /\ alarm' \in BOOLEAN
          /\ agent' \in Contents \cup {NoAgent} /\ ports' \in BOOLEAN
          /\ request' \in BOOLEAN /\ rc' \in Control
      BY <2>2 DEF PowerLoss, FreshRam, Control
    <3>7. restores' \in 0..2 /\ cuts' \in 0..MaxCuts /\ ops' \in 0..MaxOps
      BY <2>2 DEF PowerLoss
    <3> QED
      BY <3>3, <3>4, <3>5, <3>6, <3>7
  <2>3. CASE Writeback
    BY <2>3 DEF Writeback, Partition
  <2>4. CASE RcS
    <3> USE DEF Goto, After, Control, Booting, Starting
    <3>1. CASE Mount BY <3>1 DEF Mount
    <3>2. CASE Test BY <3>2 DEF Test
    <3>3. CASE Save BY <3>3 DEF Save, Contents
    <3>4. CASE Load BY <3>4 DEF Load, Partition
    <3>5. CASE Relink BY <3>5 DEF Relink
    <3>6. CASE Verify BY <3>6 DEF Verify
    <3>7. CASE Spawn BY <3>7 DEF Spawn, TrackerControl
    <3>8. CASE AgentStart BY <3>8 DEF AgentStart
    <3> QED BY <2>4, <3>1, <3>2, <3>3, <3>4, <3>5, <3>6, <3>7, <3>8 DEF RcS
  <2>5. CASE RcK
    <3> USE DEF Goto, After, Control, Booting, Starting, Shutdown, Stopping
    <3>1. CASE BeginShutdown BY <3>1 DEF BeginShutdown
    <3>2. CASE AgentStop BY <3>2 DEF AgentStop
    <3>3. CASE PartRelink BY <3>3 DEF PartRelink
    <3>4. CASE PartSync BY <3>4 DEF PartSync, FlushAll
    <3>5. CASE PartUmount BY <3>5 DEF PartUmount, TryUmount, FlushAll
    <3>6. CASE DriversStop BY <3>6 DEF DriversStop
    <3>7. CASE Restart BY <3>7 DEF Restart, FreshRam, Contents, TrackerControl
    <3> QED BY <2>5, <3>1, <3>2, <3>3, <3>4, <3>5, <3>6, <3>7 DEF RcK
  <2>6. CASE PortsUp
    BY <2>6 DEF PortsUp
  <2>7. ASSUME NEW t \in Trackers, Tracker(t) PROVE TypeOK'
    <3> USE DEF TrackerGoto, TrackerControl
    <3>1. CASE Expire(t) BY <3>1 DEF Expire
    <3>2. CASE Restore(t)
      <4>1. CASE mounted /\ etc.ro # Absent
        <5>1. PICK x \in Contents : WriteFile("xml", x)
          BY <3>2, <4>1 DEF Restore
        <5>2. disk' \in Partition /\ mnt' \in Partition /\ dirty' \subseteq {"xml", "md5"}
          BY <5>1, WriteXmlTyped
        <5> QED
          BY <3>2, <4>1, <5>2 DEF Restore
      <4>2. CASE ~(mounted /\ etc.ro # Absent)
        BY <3>2, <4>2 DEF Restore
      <4> QED
        BY <4>1, <4>2
    <3>3. CASE WriteMd5(t)
      <4>1. (IF etc.ro = Absent THEN TornSum ELSE Named(etc.ro)) \in Sums
        BY DEF Sums, Named, TornSum, Contents
      <4> QED
        BY <3>3, <4>1, WriteSumTyped DEF WriteMd5
    <3>4. CASE Sync(t) BY <3>4 DEF Sync, FlushAll
    <3>5. CASE Umount(t) BY <3>5 DEF Umount, TryUmount, FlushAll
    <3>6. CASE Reboot(t) BY <3>6 DEF Reboot
    <3> QED BY <2>7, <3>1, <3>2, <3>3, <3>4, <3>5, <3>6 DEF Tracker
  <2>8. CASE Operator
    <3>1. CASE EditXml
      BY <3>1 DEF EditXml, Operate, Partition, Sums, Bare, Contents
    <3>2. CASE AskReboot BY <3>2 DEF AskReboot, Operate
    <3>3. CASE StartAgentByHand BY <3>3 DEF StartAgentByHand, Operate
    <3>4. CASE RunS89part
      BY <3>4 DEF RunS89part, Operate, Control, Booting, Starting, Shutdown, Stopping
    <3> QED BY <2>8, <3>1, <3>2, <3>3, <3>4 DEF Operator
  <2>9. CASE UNCHANGED vars
    BY <2>9
  <2> QED
    BY <2>1, <2>2, <2>3, <2>4, <2>5, <2>6, <2>7, <2>8, <2>9 DEF Next
<1> QED
  BY <1>1, <1>2, PTL DEF Spec

-----------------------------------------------------------------------------
(***************************************************************************)
(* LogsHaveAHome.  It is not inductive: Relink turns /var/log to the       *)
(* partition long after Test found it mounted, and a tracker of an earlier *)
(* S89part may unmount it in between; and the unmount of S89part stop is   *)
(* harmless only because /var/log was turned back before.                  *)
(***************************************************************************)
Housed == mounted \/ request \/ \E t \in Trackers : trk[t] = "reboot"

LogsInv ==
    /\ varlog = "mnt" => Housed
    /\ rc \in {"save", "load", "relink"} => Housed
    /\ rc \in {"ksync", "kumount"} => varlog = "tmp"
    /\ rc \in {"off", "mount"} /\ ~shell => varlog = "tmp"

THEOREM LogsKept == Spec => []LogsHaveAHome
<1>1. Init => LogsInv
  BY DEF Init, LogsInv
<1>2. TypeOK /\ LogsInv /\ [Next]_vars => LogsInv'
  <2> SUFFICES ASSUME TypeOK, LogsInv, [Next]_vars PROVE LogsInv'
    OBVIOUS
  <2> USE DEF LogsInv, Housed, vars, store, boot, chip, hist
  <2>1. CASE PowerOn \/ PowerLoss \/ Writeback \/ PortsUp \/ UNCHANGED vars
    BY <2>1 DEF PowerOn, PowerLoss, FreshRam, Writeback, PortsUp
  <2>2. CASE RcS
    BY <2>2 DEF RcS, Goto, After, Mount, Test, Save, Load, Relink, Verify, Spawn,
                AgentStart, TypeOK
  <2>3. CASE RcK
    BY <2>3 DEF RcK, Goto, After, BeginShutdown, AgentStop, PartRelink, PartSync,
                PartUmount, TryUmount, FlushAll, DriversStop, Restart, FreshRam
  <2>4. ASSUME NEW t \in Trackers, Tracker(t) PROVE LogsInv'
    BY <2>4 DEF Tracker, TrackerGoto, Expire, Restore, WriteMd5, Sync, Umount,
                Reboot, TryUmount, FlushAll, TypeOK
  <2>5. CASE Operator
    BY <2>5 DEF Operator, Operate, EditXml, AskReboot, StartAgentByHand, RunS89part
  <2> QED
    BY <2>1, <2>2, <2>3, <2>4, <2>5 DEF Next
<1>3. LogsInv => LogsHaveAHome
  BY DEF LogsInv, LogsHaveAHome, Housed
<1> QED
  BY <1>1, <1>2, <1>3, TypeCorrect, PTL DEF Spec

-----------------------------------------------------------------------------
(***************************************************************************)
(* FallbackIsFactory, on a board where S89part is run by init alone.  Then *)
(* Save is taken once per boot, while /etc still is the initramfs's, and   *)
(* no tracker lives before it.                                             *)
(***************************************************************************)
SetAside ==
    /\ ~shell
    /\ rc \in Starting \cup {"off"} => \A t \in Trackers : trk[t] = "idle"
    /\ rc \in {"off", "mount", "test", "save"} => etc.xml = Factory
    /\ rc \in {"load", "relink", "verify", "spawn"} => etc.ro = Factory
    /\ \A t \in Trackers : trk[t] # "idle" => etc.ro = Factory

LEMMA SetAsideInit == Init => SetAside
BY DEF Init, SetAside

LEMMA SetAsideStep ==
    ASSUME ~ByHand, TypeOK, SetAside, [Next]_vars
    PROVE  SetAside'
<1> USE DEF SetAside, vars, store, boot, chip, hist, Starting
<1>1. CASE PowerOn \/ Writeback \/ PortsUp \/ UNCHANGED vars
  BY <1>1 DEF PowerOn, Writeback, PortsUp
<1>2. CASE PowerLoss
  BY <1>2 DEF PowerLoss, FreshRam
<1>3. CASE RcS
  <2>1. CASE Save
    BY <2>1, ConstantsAssumption DEF Save, Goto
  <2>2. CASE Load
    BY <2>2 DEF Load, Goto, TypeOK
  <2>3. CASE Spawn
    BY <2>3 DEF Spawn, After, TypeOK
  <2>4. CASE Test
    BY <2>4 DEF Test, After
  <2>5. CASE Mount
    BY <2>5 DEF Mount, Goto
  <2>6. CASE Relink
    BY <2>6 DEF Relink, Goto
  <2>7. CASE Verify
    BY <2>7 DEF Verify, Goto
  <2>8. CASE AgentStart
    BY <2>8 DEF AgentStart, Goto
  <2> QED
    BY <1>3, <2>1, <2>2, <2>3, <2>4, <2>5, <2>6, <2>7, <2>8 DEF RcS
<1>4. CASE RcK
  BY <1>4 DEF RcK, Goto, After, BeginShutdown, AgentStop, PartRelink, PartSync,
              PartUmount, DriversStop, Restart, FreshRam
<1>5. ASSUME NEW t \in Trackers, Tracker(t) PROVE SetAside'
  BY <1>5 DEF Tracker, TrackerGoto, Expire, Restore, WriteMd5, Sync, Umount,
              Reboot, TypeOK
<1>6. CASE Operator
  BY <1>6 DEF Operator, Operate, EditXml, AskReboot, StartAgentByHand, RunS89part
<1> QED
  BY <1>1, <1>2, <1>3, <1>4, <1>5, <1>6 DEF Next

(***************************************************************************)
(* Whatever a tracker restores is the initramfs's XML, as track_xml.sh     *)
(* says, provided nobody runs S89part a second time.                       *)
(***************************************************************************)
THEOREM FallbackKept ==
    ASSUME ~ByHand
    PROVE  Spec => []FallbackIsFactory
<1>1. SetAside => FallbackIsFactory
  BY DEF SetAside, FallbackIsFactory
<1> QED
  BY <1>1, SetAsideInit, SetAsideStep, TypeCorrect, PTL DEF Spec

-----------------------------------------------------------------------------
(***************************************************************************)
(* RestoreSticks.  The page cache and the eMMC differ in the XML only      *)
(* while it is dirty, and it is dirty only while the partition is mounted; *)
(* of the writers, Restore writes the factory XML and EditXml starts anew. *)
(***************************************************************************)
Cached ==
    /\ ~mounted => "xml" \notin dirty
    /\ "xml" \notin dirty => disk.xml = mnt.xml
    /\ restores > 0 => mnt.xml = Factory

LEMMA CachedInit == Init => Cached
BY DEF Init, Cached

LEMMA CachedStep ==
    ASSUME TypeOK, SetAside, Cached, [Next]_vars
    PROVE  Cached'
<1> USE DEF Cached, vars, store, boot, chip, hist
<1>1. CASE PowerOn \/ PortsUp \/ UNCHANGED vars
  BY <1>1 DEF PowerOn, PortsUp
<1>2. CASE PowerLoss
  BY <1>2 DEF PowerLoss, FreshRam
<1>3. CASE Writeback
  BY <1>3 DEF Writeback, TypeOK, Partition
<1>4. CASE RcS
  <2>1. CASE Mount \/ Test \/ Save \/ Load \/ Relink \/ Spawn
    BY <2>1 DEF Mount, Test, Save, Load, Relink, Spawn, TypeOK
  <2>2. CASE Verify
    BY <2>2 DEF Verify
  <2>3. CASE AgentStart
    BY <2>3 DEF AgentStart
  <2> QED
    BY <1>4, <2>1, <2>2, <2>3 DEF RcS
<1>5. CASE RcK
  BY <1>5 DEF RcK, BeginShutdown, AgentStop, PartRelink, PartSync, PartUmount,
              TryUmount, FlushAll, DriversStop, Restart, FreshRam
<1>6. ASSUME NEW t \in Trackers, Tracker(t) PROVE Cached'
  <2>1. CASE Restore(t)
    <3>1. etc.ro = Factory
      BY <2>1 DEF SetAside, Restore, TrackerGoto
    <3> QED
      BY <2>1, <3>1 DEF Restore, WriteFile, TypeOK, Partition
  <2>2. CASE WriteMd5(t)
    BY <2>2 DEF WriteMd5, WriteFile, TypeOK, Partition
  <2>3. CASE Expire(t) \/ Sync(t) \/ Umount(t) \/ Reboot(t)
    BY <2>3 DEF Expire, Sync, Umount, Reboot, TryUmount, FlushAll
  <2> QED
    BY <1>6, <2>1, <2>2, <2>3 DEF Tracker
<1>7. CASE Operator
  BY <1>7 DEF Operator, Operate, EditXml, AskReboot, StartAgentByHand, RunS89part
<1> QED
  BY <1>1, <1>2, <1>3, <1>4, <1>5, <1>6, <1>7 DEF Next

(***************************************************************************)
(* What track_xml.sh restored is on the eMMC whenever the partition is not *)
(* mounted, after any interleaving of the tracker with rcK and with the    *)
(* page cache, until the operator writes or the power fails.               *)
(***************************************************************************)
THEOREM RestoreKept ==
    ASSUME ~ByHand
    PROVE  Spec => []RestoreSticks
<1>1. Cached => RestoreSticks
  BY DEF Cached, RestoreSticks
<1> QED
  BY <1>1, CachedInit, CachedStep, SetAsideInit, SetAsideStep, TypeCorrect, PTL
     DEF Spec

-----------------------------------------------------------------------------
(***************************************************************************)
(* A boot that is given enough time.  One tracker lives per boot; it does  *)
(* not act before the agent runs with the XML in /etc; it goes on to write *)
(* only if that XML does not work; and once an XML was restored, a tracker *)
(* is found asleep only in a boot that runs with the factory XML.          *)
(***************************************************************************)
Restored == restores > 0

CalmBoot ==
    /\ \A t, u \in Trackers : trk[t] # "idle" /\ trk[u] # "idle" => t = u
    /\ rc \in Starting \cup {"off"} => ~request
    /\ rc \in {"off", "agent"} \cup Starting =>
          \A t \in Trackers : trk[t] \in {"idle", "sleep"}
    /\ rc = "up" => agent = etc.xml
    /\ rc \notin Shutdown =>
          \A t \in Trackers : trk[t] = "restore" => etc.xml \notin Works

NoSecondRestore ==
    /\ restores <= 1
    /\ Restored /\ rc \in {"save", "load"} => mounted
    /\ Restored /\ rc \in {"relink", "verify", "spawn"} => etc.xml = Factory
    /\ Restored => \A t \in Trackers :
          /\ trk[t] # "restore"
          /\ trk[t] = "sleep" =>
                rc \in {"agent", "up"} /\ ~request /\ etc.xml = Factory

LEMMA CalmBootStep ==
    ASSUME ~ByHand, AutoStart, Timely, TypeOK, SetAside, CalmBoot, [Next]_vars
    PROVE  CalmBoot'
<1> USE DEF CalmBoot, vars, store, boot, chip, hist, Starting
<1>1. CASE PowerOn \/ Writeback \/ PortsUp \/ UNCHANGED vars
  BY <1>1 DEF PowerOn, Writeback, PortsUp, Shutdown, Stopping
<1>2. CASE PowerLoss
  BY <1>2 DEF PowerLoss, FreshRam
<1>3. CASE RcS
  <2> USE DEF Goto, After, Shutdown, Stopping
  <2>1. CASE Mount BY <2>1 DEF Mount
  <2>2. CASE Test BY <2>2 DEF Test, SetAside
  <2>3. CASE Save BY <2>3 DEF Save, SetAside
  <2>4. CASE Load BY <2>4 DEF Load, SetAside
  <2>5. CASE Relink BY <2>5 DEF Relink
  <2>6. CASE Verify BY <2>6 DEF Verify
  <2>7. CASE Spawn BY <2>7 DEF Spawn, SetAside, TypeOK
  <2>8. CASE AgentStart BY <2>8 DEF AgentStart
  <2> QED
    BY <1>3, <2>1, <2>2, <2>3, <2>4, <2>5, <2>6, <2>7, <2>8 DEF RcS
<1>4. CASE RcK
  <2>1. CASE Restart
    BY <2>1 DEF Restart, FreshRam, Goto
  <2>2. CASE BeginShutdown \/ AgentStop \/ PartRelink \/ PartSync \/ PartUmount
               \/ DriversStop
    BY <2>2 DEF BeginShutdown, AgentStop, PartRelink, PartSync, PartUmount,
                DriversStop, Goto, After, SetAside, Shutdown, Stopping
  <2> QED
    BY <1>4, <2>1, <2>2 DEF RcK
<1>5. ASSUME NEW t \in Trackers, Tracker(t) PROVE CalmBoot'
  <2>1. CASE Expire(t)
    <3>1. trk[t] = "sleep" /\ trk' = [trk EXCEPT ![t] = IF ports THEN "done" ELSE "restore"]
      BY <2>1 DEF Expire, TrackerGoto
    <3>2. rc \notin Booting /\ (rc = "up" /\ ~ports => etc.xml \notin Works)
      BY <2>1 DEF Expire, MinuteOver
    <3>3. \A u \in Trackers : u # t => trk'[u] = trk[u]
      BY <3>1 DEF TypeOK
    <3>4. rc # "off"
      BY <3>1 DEF SetAside
    <3>5. trk'[t] \in {"done", "restore"} /\ (trk'[t] = "restore" => ~ports)
      BY <3>1 DEF TypeOK
    <3> QED
      BY <2>1, <3>1, <3>2, <3>3, <3>4, <3>5
         DEF Expire, TypeOK, Booting, Control
  <2> USE DEF TrackerGoto, TypeOK
  <2>2. CASE Restore(t) BY <2>2 DEF Restore
  <2>3. CASE WriteMd5(t) BY <2>3 DEF WriteMd5
  <2>4. CASE Sync(t) BY <2>4 DEF Sync
  <2>5. CASE Umount(t) BY <2>5 DEF Umount
  <2>6. CASE Reboot(t) BY <2>6 DEF Reboot
  <2> QED
    BY <1>5, <2>1, <2>2, <2>3, <2>4, <2>5, <2>6 DEF Tracker
<1>6. CASE Operator
  BY <1>6 DEF Operator, Operate, EditXml, AskReboot, StartAgentByHand, RunS89part
<1> QED
  BY <1>1, <1>2, <1>3, <1>4, <1>5, <1>6 DEF Next

LEMMA NoSecondRestoreStep ==
    ASSUME ~ByHand, AutoStart, Timely, Factory \in Works, TypeOK, SetAside, Cached,
           CalmBoot, NoSecondRestore, [Next]_vars
    PROVE  NoSecondRestore'
<1> USE DEF NoSecondRestore, Restored, vars, store, boot, chip, hist
<1>1. CASE PowerOn \/ Writeback \/ PortsUp \/ UNCHANGED vars
  BY <1>1 DEF PowerOn, Writeback, PortsUp
<1>2. CASE PowerLoss
  BY <1>2 DEF PowerLoss
<1>3. CASE RcS
  <2> USE DEF Goto, After, SetAside, Starting
  <2>1. CASE Mount BY <2>1 DEF Mount
  <2>2. CASE Test BY <2>2 DEF Test
  <2>3. CASE Save BY <2>3 DEF Save
  <2>4. CASE Load BY <2>4, ConstantsAssumption DEF Load, Cached, TypeOK
  <2>5. CASE Relink BY <2>5 DEF Relink
  <2>6. CASE Verify BY <2>6 DEF Verify
  <2>7. CASE Spawn BY <2>7 DEF Spawn, CalmBoot, TypeOK
  <2>8. CASE AgentStart BY <2>8 DEF AgentStart
  <2> QED
    BY <1>3, <2>1, <2>2, <2>3, <2>4, <2>5, <2>6, <2>7, <2>8 DEF RcS
<1>4. CASE RcK
  BY <1>4 DEF RcK, BeginShutdown, AgentStop, PartRelink, PartSync, PartUmount,
              DriversStop, Restart, FreshRam, Goto, After, SetAside
<1>5. ASSUME NEW t \in Trackers, Tracker(t) PROVE NoSecondRestore'
  <2>1. CASE Expire(t)
    BY <2>1 DEF Expire, MinuteOver, TrackerGoto, TypeOK, Booting, CalmBoot
  <2>2. CASE Restore(t)
    <3>1. \A u \in Trackers : u # t => trk[u] = "idle" /\ trk'[u] = "idle"
      BY <2>2 DEF Restore, TrackerGoto, TypeOK, CalmBoot
    <3>2. restores = 0 /\ restores' \in 0..1 /\ trk'[t] = "md5"
      BY <2>2 DEF Restore, TrackerGoto, TypeOK
    <3>3. rc \notin Starting
      BY <2>2 DEF Restore, TrackerGoto, CalmBoot
    <3> QED
      BY <2>2, <3>1, <3>2, <3>3 DEF Restore, Starting
  <2>3. CASE Reboot(t)
    BY <2>3 DEF Reboot, TrackerGoto, TypeOK, CalmBoot
  <2>4. CASE WriteMd5(t)
    BY <2>4 DEF WriteMd5, TrackerGoto, TypeOK
  <2>5. CASE Sync(t)
    BY <2>5 DEF Sync, TrackerGoto, TypeOK
  <2>6. CASE Umount(t)
    <3>1. rc \notin Starting
      BY <2>6 DEF Umount, TrackerGoto, CalmBoot
    <3> QED
      BY <2>6, <3>1 DEF Umount, TrackerGoto, TypeOK, Starting
  <2> QED
    BY <1>5, <2>1, <2>2, <2>3, <2>4, <2>5, <2>6 DEF Tracker
<1>6. CASE Operator
  BY <1>6 DEF Operator, Operate, EditXml, AskReboot, StartAgentByHand, RunS89part
<1> QED
  BY <1>1, <1>2, <1>3, <1>4, <1>5, <1>6 DEF Next

(***************************************************************************)
(* track_xml.sh does not reboot the board for ever: if the factory XML     *)
(* works, it restores once and never again until someone interferes.       *)
(***************************************************************************)
THEOREM OneRestoreIsEnough ==
    ASSUME ~ByHand, AutoStart, Timely, Factory \in Works
    PROVE  Spec => []AtMostOneRestore
<1>1. Init => CalmBoot /\ NoSecondRestore
  BY DEF Init, CalmBoot, NoSecondRestore, Restored, Starting, Shutdown, Stopping
<1>2. NoSecondRestore => AtMostOneRestore
  BY DEF NoSecondRestore, AtMostOneRestore
<1> QED
  BY <1>1, <1>2, CalmBootStep, NoSecondRestoreStep, CachedInit, CachedStep,
     SetAsideInit, SetAsideStep, TypeCorrect, PTL DEF Spec

(***************************************************************************)
(* A working XML is safe from track_xml.sh while the system is up: a step  *)
(* changes it only if the operator or a power loss takes it.               *)
(***************************************************************************)
THEOREM WorkingXmlKept ==
    ASSUME ~ByHand, AutoStart, Timely
    PROVE  Spec => LiveConfigKept
<1>1. Init => CalmBoot
  BY DEF Init, CalmBoot, Starting, Shutdown, Stopping
<1>2. TypeOK /\ CalmBoot /\ [Next]_vars => [~WorkingXmlTakenAway]_mnt
  <2> SUFFICES ASSUME TypeOK, CalmBoot, Next, WorkingXmlTakenAway PROVE FALSE
    BY DEF vars, store, WorkingXmlTakenAway
  <2> USE DEF WorkingXmlTakenAway, vars, store, boot, chip, hist
  <2>1. CASE PowerOn \/ PowerLoss \/ Writeback \/ PortsUp
    BY <2>1 DEF PowerOn, PowerLoss, Writeback, PortsUp
  <2>2. CASE RcS
    BY <2>2 DEF RcS, Mount, Test, Save, Load, Relink, Verify, Spawn, AgentStart
  <2>3. CASE RcK
    BY <2>3 DEF RcK, BeginShutdown, AgentStop, PartRelink, PartSync, PartUmount,
                TryUmount, FlushAll, DriversStop, Restart
  <2>4. ASSUME NEW t \in Trackers, Tracker(t) PROVE FALSE
    <3>1. CASE Restore(t)
      BY <3>1 DEF Restore, TrackerGoto, CalmBoot
    <3>2. CASE WriteMd5(t)
      BY <3>2 DEF WriteMd5, WriteFile, TypeOK, Partition
    <3>3. CASE Expire(t) \/ Sync(t) \/ Umount(t) \/ Reboot(t)
      BY <3>3 DEF Expire, Sync, Umount, TryUmount, FlushAll, Reboot
    <3> QED
      BY <2>4, <3>1, <3>2, <3>3 DEF Tracker
  <2>5. CASE Operator
    BY <2>5 DEF Operator, Operate, EditXml, AskReboot, StartAgentByHand, RunS89part,
                TypeOK
  <2> QED
    BY <2>1, <2>2, <2>3, <2>4, <2>5 DEF Next
<1> QED
  BY <1>1, <1>2, CalmBootStep, SetAsideInit, SetAsideStep, TypeCorrect, PTL
     DEF Spec, LiveConfigKept

-----------------------------------------------------------------------------
(***************************************************************************)
(* The refinement.  No agent runs before S90agent; from Test, which sees   *)
(* the partition's XML, to S90agent the partition stays mounted and its    *)
(* XML the same, so what the agent is started with is that XML or, where   *)
(* Test did not find one, the initramfs's.                                 *)
(***************************************************************************)
BootInv ==
    /\ rc \in Booting \cup {"off"} => agent = NoAgent
    /\ rc \in {"save", "load"} => mounted /\ mnt.xml # Absent
    /\ rc \in {"relink", "verify", "spawn"} => etc.xml = mnt.xml
    /\ rc = "agent" => etc.xml \in {mnt.xml, Factory}

\* No tracker acts during a boot.
LEMMA TrackersAsleep ==
    ASSUME Timely, TypeOK, SetAside, CalmBoot, NEW t \in Trackers, Tracker(t)
    PROVE  rc \notin Booting \cup {"off"}
<1>1. CASE Expire(t)
  BY <1>1 DEF Expire, MinuteOver, TrackerGoto, CalmBoot, Booting, SetAside
<1>2. CASE ~Expire(t)
  BY <1>2 DEF Tracker, Restore, WriteMd5, Sync, Umount, Reboot, TrackerGoto, CalmBoot,
              Booting
<1> QED
  BY <1>1, <1>2

LEMMA BootInvStep ==
    ASSUME ~ByHand, Timely, TypeOK, SetAside, CalmBoot, BootInv, [Next]_vars
    PROVE  BootInv'
<1> USE DEF BootInv, vars, store, boot, chip, hist, Booting, Starting
<1>1. CASE PowerOn \/ PortsUp \/ UNCHANGED vars
  BY <1>1 DEF PowerOn, PortsUp
<1>2. CASE PowerLoss
  BY <1>2 DEF PowerLoss, FreshRam
<1>3. CASE Writeback
  BY <1>3 DEF Writeback
<1>4. CASE RcS
  <2> USE DEF Goto, After, SetAside
  <2>1. CASE Mount BY <2>1 DEF Mount
  <2>2. CASE Test BY <2>2 DEF Test
  <2>3. CASE Save BY <2>3 DEF Save
  <2>4. CASE Load BY <2>4 DEF Load, TypeOK
  <2>5. CASE Relink BY <2>5 DEF Relink
  <2>6. CASE Verify BY <2>6 DEF Verify
  <2>7. CASE Spawn BY <2>7 DEF Spawn
  <2>8. CASE AgentStart BY <2>8 DEF AgentStart
  <2> QED
    BY <1>4, <2>1, <2>2, <2>3, <2>4, <2>5, <2>6, <2>7, <2>8 DEF RcS
<1>5. CASE RcK
  BY <1>5 DEF RcK, Goto, After, BeginShutdown, AgentStop, PartRelink, PartSync,
              PartUmount, DriversStop, Restart, FreshRam, SetAside
<1>6. ASSUME NEW t \in Trackers, Tracker(t) PROVE BootInv'
  <2>1. rc \notin Booting \cup {"off"} /\ rc' = rc
    BY <1>6, TrackersAsleep DEF Tracker, Expire, Restore, WriteMd5, Sync, Umount, Reboot
  <2> QED
    BY <2>1
<1>7. CASE Operator
  BY <1>7 DEF Operator, Operate, EditXml, AskReboot, StartAgentByHand, RunS89part
<1> QED
  BY <1>1, <1>2, <1>3, <1>4, <1>5, <1>6, <1>7 DEF Next

LEMMA RecoveryStep ==
    ASSUME ~ByHand, AutoStart, Timely, TypeOK, SetAside, CalmBoot, BootInv, [Next]_vars
    PROVE  [Abstract!Next]_(Abstract!vars)
<1> DEFINE Quiet == /\ mnt'.xml = mnt.xml /\ disk'.xml = disk.xml
                    /\ ("xml" \in dirty') = ("xml" \in dirty)
           Flushed == /\ mnt'.xml = mnt.xml /\ disk'.xml = mnt.xml
                      /\ "xml" \notin dirty'
<1>a. ASSUME Quiet, InUse' = InUse PROVE UNCHANGED Abstract!vars
  BY <1>a DEF Abstract!vars
<1>b. ASSUME Flushed, InUse' = InUse PROVE Abstract!Next
  BY <1>b DEF Abstract!Next, Abstract!Flush
<1> USE DEF vars, store, boot, chip, hist
<1>1. CASE PowerOn \/ PortsUp \/ UNCHANGED vars
  <2>1. Quiet /\ InUse' = InUse
    BY <1>1 DEF PowerOn, PortsUp, InUse, Shutdown, Stopping
  <2> QED
    BY <1>a, <2>1
<1>2. CASE PowerLoss
  <2>1. InUse' = NoAgent
    BY <1>2 DEF PowerLoss, FreshRam, InUse
  <2>2. /\ mnt' = disk' /\ dirty' = {}
        /\ disk'.xml \in {disk.xml} \cup (IF "xml" \in dirty THEN {Torn} ELSE {})
    BY <1>2 DEF PowerLoss, FreshRam, Survivors
  <2>3. Abstract!Cut
    BY <2>1, <2>2 DEF Abstract!Cut
  <2> QED
    BY <2>3 DEF Abstract!Next
<1>3. CASE Writeback
  <2>1. InUse' = InUse
    BY <1>3 DEF Writeback, InUse
  <2>2. PICK f \in dirty : disk' = [disk EXCEPT ![f] = mnt[f]] /\ dirty' = dirty \ {f}
                             /\ mnt' = mnt
    BY <1>3 DEF Writeback
  <2>3. CASE f = "xml"
    <3>1. Flushed
      BY <2>2, <2>3 DEF TypeOK, Partition
    <3> QED
      BY <1>b, <2>1, <3>1
  <2>4. CASE f # "xml"
    <3>1. Quiet
      BY <2>2, <2>4 DEF TypeOK, Partition
    <3> QED
      BY <1>a, <2>1, <3>1
  <2> QED
    BY <2>3, <2>4
<1>4. CASE RcS
  <2>1. CASE AgentStart
    <3>1. InUse = NoAgent /\ InUse' = etc.xml /\ etc.xml \in {mnt.xml, Factory}
      BY <2>1 DEF AgentStart, Goto, BootInv, InUse, Booting, Shutdown, Stopping
    <3>2. Abstract!Start
      BY <2>1, <3>1 DEF AgentStart, Abstract!Start
    <3> QED
      BY <3>2 DEF Abstract!Next
  <2>2. CASE ~AgentStart
    <3>1. store' = store /\ agent' = agent
      BY <1>4, <2>2 DEF RcS, Mount, Test, Save, Load, Relink, Verify, Spawn
    <3>2. rc \notin Shutdown /\ rc' \notin Shutdown
      BY <1>4, <2>2 DEF RcS, Mount, Test, Save, Load, Relink, Verify, Spawn, Goto, After,
                        SetAside, Shutdown, Stopping
    <3>3. Quiet /\ InUse' = InUse
      BY <3>1, <3>2 DEF InUse
    <3> QED
      BY <1>a, <3>3
  <2> QED
    BY <2>1, <2>2
<1>5. CASE RcK
  <2>1. CASE BeginShutdown
    <3>1. InUse = etc.xml /\ InUse' = NoAgent
      BY <2>1 DEF BeginShutdown, Goto, InUse, CalmBoot, Shutdown, Stopping
    <3>2. etc.xml # NoAgent
      BY ConstantsAssumption DEF TypeOK, Contents
    <3>3. Abstract!Stop
      BY <2>1, <3>1, <3>2 DEF BeginShutdown, Abstract!Stop
    <3> QED
      BY <3>3 DEF Abstract!Next
  <2>2. CASE Restart
    <3>1. Flushed /\ InUse' = InUse
      BY <2>2 DEF Restart, FreshRam, Goto, InUse, Shutdown
    <3> QED
      BY <1>b, <3>1
  <2>3. CASE AgentStop \/ PartRelink \/ PartSync \/ PartUmount \/ DriversStop
    <3>1. InUse' = InUse
      BY <2>3 DEF AgentStop, PartRelink, PartSync, PartUmount, DriversStop, Goto, After,
                  SetAside, InUse, Shutdown, Stopping
    <3>2. Quiet \/ Flushed
      BY <2>3 DEF AgentStop, PartRelink, PartSync, PartUmount, DriversStop, FlushAll,
                  TryUmount
    <3> QED
      BY <1>a, <1>b, <3>1, <3>2
  <2> QED
    BY <1>5, <2>1, <2>2, <2>3 DEF RcK
<1>6. ASSUME NEW t \in Trackers, Tracker(t)
      PROVE  Abstract!Next \/ UNCHANGED Abstract!vars
  <2>1. InUse' = InUse
    BY <1>6 DEF Tracker, Expire, Restore, WriteMd5, Sync, Umount, Reboot, InUse
  <2>2. CASE Restore(t) /\ mounted
    <3>1. etc.ro = Factory
      BY <2>2 DEF SetAside, Restore, TrackerGoto
    <3>2. /\ mnt'.xml = Factory /\ disk'.xml = disk.xml
          /\ "xml" \in dirty'
      BY <2>2, <3>1, ConstantsAssumption DEF Restore, WriteFile, TypeOK, Partition
    <3>3. InUse \notin Works
      <4>1. rc \notin Booting \cup {"off"}
        BY <1>6, TrackersAsleep
      <4>2. CASE rc \in Shutdown
        BY <4>2, ConstantsAssumption DEF InUse
      <4>3. CASE rc = "up"
        BY <2>2, <4>3 DEF InUse, CalmBoot, Restore, TrackerGoto, Shutdown, Stopping
      <4> QED
        BY <4>1, <4>2, <4>3 DEF TypeOK, Control
    <3>4. Abstract!Heal
      BY <2>1, <3>2, <3>3 DEF Abstract!Heal
    <3> QED
      BY <3>4 DEF Abstract!Next
  <2>3. CASE ~(Restore(t) /\ mounted)
    <3>1. CASE WriteMd5(t)
      <4>1. Quiet
        BY <3>1 DEF WriteMd5, WriteFile, TypeOK, Partition
      <4> QED
        BY <1>a, <2>1, <4>1
    <3>2. CASE ~WriteMd5(t)
      <4>1. Quiet \/ Flushed
        BY <1>6, <2>3, <3>2 DEF Tracker, Expire, Restore, Sync, Umount, Reboot, FlushAll,
                                TryUmount
      <4> QED
        BY <1>a, <1>b, <2>1, <4>1
    <3> QED
      BY <3>1, <3>2
  <2> QED
    BY <2>2, <2>3
<1>7. CASE Operator
  <2>1. rc = "up" /\ rc' = "up" /\ agent # NoAgent /\ InUse = agent /\ ~StartAgentByHand
    BY <1>7, ConstantsAssumption
       DEF Operator, Operate, EditXml, AskReboot, StartAgentByHand, RunS89part, CalmBoot,
           TypeOK, Contents, InUse, Shutdown, Stopping
  <2>2. InUse' = InUse
    BY <1>7, <2>1 DEF Operator, EditXml, AskReboot, RunS89part, InUse
  <2>3. CASE EditXml
    <3>1. mnt'.xml \in Custom \cup {Factory, Absent} /\ "xml" \in dirty' /\ disk' = disk
      BY <2>3 DEF EditXml
    <3>2. Abstract!Edit
      BY <2>1, <2>2, <3>1 DEF Abstract!Edit
    <3> QED
      BY <3>2 DEF Abstract!Next
  <2>4. CASE AskReboot
    BY <2>2, <2>4, <1>a DEF AskReboot
  <2> QED
    BY <1>7, <2>1, <2>3, <2>4 DEF Operator, RunS89part
<1> QED
  BY <1>1, <1>2, <1>3, <1>4, <1>5, <1>6, <1>7 DEF Next

(***************************************************************************)
(* S89part, track_xml.sh, the agent's start and rcK together implement     *)
(* Recovery: whatever the order of their steps, the page cache's, the      *)
(* operator's and the losses of power, the agent starts with the XML that  *)
(* is stored or the factory one, and an operator's XML that works is not   *)
(* replaced.                                                               *)
(***************************************************************************)
THEOREM RecoveryImplemented ==
    ASSUME ~ByHand, AutoStart, Timely
    PROVE  Spec => RecoverySpec
<1>1. Init => CalmBoot /\ BootInv
  BY DEF Init, CalmBoot, BootInv, Starting, Shutdown, Stopping
<1>2. Init => Abstract!Init
  BY DEF Init, Abstract!Init, InUse
<1> QED
  BY <1>1, <1>2, BootInvStep, RecoveryStep, CalmBootStep, SetAsideInit, SetAsideStep,
     TypeCorrect, PTL DEF Spec, RecoverySpec, Abstract!Spec
=============================================================================
