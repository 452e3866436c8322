-------------------------- MODULE FwTracker_proofs --------------------------
(* What holds of the ring of dumps for every number of directories, of      *)
(* scripts, of starts of the firmware and of losses of power.               *)
EXTENDS FwTracker, TLAPS

(* The number after the one in ri names a directory of the ring.            *)
LEMMA NextIdxType ==
    ASSUME NEW i \in Ring \cup {Absent, Empty}
    PROVE  NextIdx(i) \in Ring
BY RingAssumption DEF NextIdx, Ring, Absent, Empty

(***************************************************************************)
(* The script's and the board's state keep their types; in particular ri   *)
(* and every $ridx stay within the ring.                                   *)
(***************************************************************************)
THEOREM TypeCorrect == Spec => []TypeOK
<1> USE RingAssumption, BoundsAssumption DEF TypeOK
<1>1. Init => TypeOK
  BY DEF Init, None, NoDump, Dumps, Stages, Ring
<1>2. TypeOK /\ [Next]_vars => TypeOK'
  <2> SUFFICES ASSUME TypeOK, [Next]_vars PROVE TypeOK'
    OBVIOUS
  <2>1. CASE Machine
    <3> USE DEF locals, ring, hist
    <3>1. CASE FwStart
      BY <3>1 DEF FwStart, Lives
    <3>2. CASE FwComplaint
      BY <3>2 DEF FwComplaint
    <3>3. CASE FwExit \/ FwCrash
      BY <3>3 DEF FwExit, FwCrash
    <3>4. CASE FwGone
      BY <3>4 DEF FwGone
    <3> QED
      BY <2>1, <3>1, <3>2, <3>3, <3>4 DEF Machine
  <2>2. CASE Writeback
    BY <2>2 DEF Writeback, machine, locals, hist
  <2>3. CASE PowerLoss
    BY <2>3 DEF PowerLoss, None, NoDump, Dumps, Stages, Ring
  <2>4. ASSUME NEW t \in Trackers, TrackerStart(t) PROVE TypeOK'
    BY <2>4 DEF TrackerStart, Goto, machine, ring, hist, Stages
  <2>5. ASSUME NEW t \in Trackers, Watch(t) \/ FindCore(t) PROVE TypeOK'
    BY <2>5 DEF Watch, FindCore, Goto, machine, ring, hist, Stages
  <2>6. ASSUME NEW t \in Trackers, NEW m \in Stages, NEW bad \in Stages,
               NEW good \in Stages, Look(t, m, bad, good)
        PROVE  TypeOK'
    BY <2>6 DEF Look, Goto, stackbacktrace, machine, ring, hist, None
  <2>7. ASSUME NEW t \in Trackers, NEW from \in Stages, NEW to \in Stages,
               Kill(t, from, to)
        PROVE  TypeOK'
    BY <2>7 DEF Kill, Goto, Exists, ring
  <2>8. ASSUME NEW t \in Trackers, Pack(t) PROVE TypeOK'
    BY <2>8 DEF Pack, Goto, ring, hist, Stages, Dumps, None
  <2>9. ASSUME NEW t \in Trackers, ReadIndex(t) PROVE TypeOK'
    BY <2>9, NextIdxType DEF ReadIndex, Goto, machine, ring, hist, Stages
  <2>10. ASSUME NEW t \in Trackers, WriteIndex(t) PROVE TypeOK'
    BY <2>10 DEF WriteIndex, Goto, machine, hist, Stages
  <2>11. ASSUME NEW t \in Trackers, Clean(t) PROVE TypeOK'
    BY <2>11 DEF Clean, Goto, machine, hist, Stages
  <2>12. ASSUME NEW t \in Trackers, Keep(t) PROVE TypeOK'
    BY <2>12 DEF Keep, Goto, machine, Stages
  <2>13. CASE UNCHANGED vars
    BY <2>13 DEF vars, machine, locals, ring, hist
  <2>14. {"timedout", "kill1", "stuck", "kill2", "watch"} \subseteq Stages
    BY DEF Stages
  <2> QED
    BY <2>1, <2>2, <2>3, <2>4, <2>5, <2>6, <2>7, <2>8, <2>9, <2>10, <2>11, <2>12,
       <2>13, <2>14 DEF Next, Script
<1> QED
  BY <1>1, <1>2, PTL DEF Spec
-----------------------------------------------------------------------------
(***************************************************************************)
(* RingKeepsLatest, for one firmware and one script at a time.             *)
(*                                                                         *)
(* The invariant has to say how the ring is written, not only what is in   *)
(* it: ri is the directory of the last dump until the next number is       *)
(* written, and dumps less than N apart are in directories that many steps *)
(* apart on the circle, hence in different ones.                           *)
(***************************************************************************)
Solo == \A t, u \in Trackers : Busy(t) /\ Busy(u) => t = u

Saving(t) == pc[t] \in {"clean", "keep"}

Last == saved[Len(saved)].at

Indices ==
    /\ \A t \in Trackers : pc[t] = "write" => idx[t] = NextIdx(ri)
    /\ \A t \in Trackers : Saving(t) => ri = idx[t]
    /\ \A t \in Trackers : Saving(t) /\ saved # <<>> => idx[t] = NextIdx(Last)
    /\ (\A t \in Trackers : ~Saving(t)) /\ saved # <<>> => ri = Last

Apart(i, j, d) == j = i + d \/ j = i + d - N
Circle ==
    \A k, m \in DOMAIN saved :
        k <= m /\ m - k < N => Apart(saved[k].at, saved[m].at, m - k)

Cleaned == \A t \in Trackers : pc[t] = "keep" => slot[idx[t]] = {}

RingInv == TypeOK /\ Solo /\ Indices /\ Circle /\ Cleaned /\ RingKeepsLatest

(* The history is a sequence whose entries name directories.                *)
LEMMA SavedTyped ==
    ASSUME TypeOK
    PROVE  /\ Len(saved) \in Nat /\ DOMAIN saved = 1..Len(saved)
           /\ saved # <<>> <=> Len(saved) > 0
           /\ \A k \in 1..Len(saved) : saved[k].at \in Ring
           /\ saved # <<>> => Last \in Ring
<1> DEFINE Entry == [dump : Dumps, at : Ring]
<1>1. saved \in Seq(Entry)
  BY DEF TypeOK
<1>2. \A e \in Entry : e.at \in Ring
  OBVIOUS
<1> HIDE DEF Entry
<1>3. /\ Len(saved) \in Nat /\ DOMAIN saved = 1..Len(saved)
      /\ saved # <<>> <=> Len(saved) > 0
      /\ \A k \in 1..Len(saved) : saved[k] \in Entry
  BY <1>1
<1> QED
  BY <1>2, <1>3 DEF Last

(* The next directory is none of the last N - 1.                            *)
LEMMA NextIsFree ==
    ASSUME TypeOK, Circle, NEW k \in DOMAIN saved, saved # <<>>,
           Len(saved) - k < N - 1
    PROVE  saved[k].at # NextIdx(Last)
<1>1. /\ Len(saved) \in Nat \ {0} /\ Len(saved) \in DOMAIN saved
      /\ k \in 1..Len(saved)
  BY SavedTyped
<1>2. saved[k].at \in 1..N /\ Last \in 1..N
  BY <1>1, SavedTyped DEF Ring
<1>3. Apart(saved[k].at, Last, Len(saved) - k)
  BY <1>1, RingAssumption DEF Circle, Last
<1> QED
  BY <1>1, <1>2, <1>3, RingAssumption, SMTT(30) DEF Apart, NextIdx

(* One step further on the circle.                                          *)
LEMMA NextIsApart ==
    ASSUME NEW i \in Ring, NEW j \in Ring, NEW d \in Nat, d + 1 < N, Apart(i, j, d)
    PROVE  Apart(i, NextIdx(j), d + 1)
BY RingAssumption DEF Apart, NextIdx, Ring

(* A step that leaves the ring and the writers' stages alone.               *)
LEMMA Elsewhere ==
    ASSUME RingInv, TypeOK', UNCHANGED <<idx, ri, slot, saved>>, Solo',
           \A t \in Trackers : pc'[t] = pc[t]
               \/ {pc[t], pc'[t]} \cap {"write", "clean", "keep"} = {}
    PROVE  RingInv'
<1>1. \A t \in Trackers : /\ pc'[t] = "write" <=> pc[t] = "write"
                          /\ pc'[t] = "keep" <=> pc[t] = "keep"
                          /\ pc'[t] = "clean" <=> pc[t] = "clean"
  OBVIOUS
<1>2. Indices'
  BY <1>1 DEF RingInv, Indices, Saving, Last
<1>3. Circle' /\ Cleaned'
  BY <1>1 DEF RingInv, Circle, Cleaned
<1>4. RingKeepsLatest'
  BY <1>1 DEF RingInv, RingKeepsLatest
<1> QED
  BY <1>2, <1>3, <1>4 DEF RingInv

LEMMA ReadStep ==
    ASSUME RingInv, TypeOK', NEW t \in Trackers, ReadIndex(t)
    PROVE  RingInv'
<1>1. /\ pc[t] = "read" /\ pc' = [pc EXCEPT ![t] = "write"]
      /\ idx' = [idx EXCEPT ![t] = NextIdx(ri)]
      /\ ri' = ri /\ slot' = slot /\ saved' = saved
  BY DEF ReadIndex, Goto, ring, hist
<1>2. \A u \in Trackers : u # t => pc[u] = "idle" /\ pc'[u] = "idle"
  BY <1>1 DEF RingInv, Solo, Busy, TypeOK
<1>3. pc'[t] = "write" /\ idx'[t] = NextIdx(ri)
  BY <1>1 DEF RingInv, TypeOK
<1>4. Solo' /\ Cleaned'
  BY <1>2, <1>3 DEF Solo, Busy, Cleaned
<1>5. Indices'
  BY <1>1, <1>2, <1>3 DEF RingInv, Indices, Saving, Last
<1>6. Circle'
  BY <1>1 DEF RingInv, Circle
<1>7. RingKeepsLatest'
  BY <1>1, <1>2, <1>3 DEF RingInv, RingKeepsLatest
<1> QED
  BY <1>4, <1>5, <1>6, <1>7 DEF RingInv

LEMMA WriteStep ==
    ASSUME RingInv, TypeOK', NEW t \in Trackers, WriteIndex(t)
    PROVE  RingInv'
<1>1. /\ pc[t] = "write" /\ pc' = [pc EXCEPT ![t] = "clean"]
      /\ ri' = idx[t] /\ idx' = idx /\ slot' = slot /\ saved' = saved
  BY DEF WriteIndex, Goto, hist
<1>2. \A u \in Trackers : u # t => pc[u] = "idle" /\ pc'[u] = "idle"
  BY <1>1 DEF RingInv, Solo, Busy, TypeOK
<1>3. pc'[t] = "clean"
  BY <1>1 DEF RingInv, TypeOK
<1>4. Solo' /\ Cleaned'
  BY <1>2, <1>3 DEF Solo, Busy, Cleaned
<1>5. \A u \in Trackers : ~Saving(u)
  BY <1>1, <1>2 DEF Saving
<1>6. saved # <<>> => idx[t] = NextIdx(Last)
  BY <1>1, <1>5 DEF RingInv, Indices
<1>7. Indices'
  BY <1>1, <1>2, <1>3, <1>6 DEF Indices, Saving, Last
<1>8. Circle'
  BY <1>1 DEF RingInv, Circle
<1>9. RingKeepsLatest'
  BY <1>1, <1>2, <1>3 DEF RingInv, RingKeepsLatest
<1> QED
  BY <1>4, <1>7, <1>8, <1>9 DEF RingInv

LEMMA CleanStep ==
    ASSUME RingInv, TypeOK', NEW t \in Trackers, Clean(t)
    PROVE  RingInv'
<1>1. /\ pc[t] = "clean" /\ pc' = [pc EXCEPT ![t] = "keep"]
      /\ slot' = [slot EXCEPT ![idx[t]] = {}]
      /\ ri' = ri /\ idx' = idx /\ saved' = saved
  BY DEF Clean, Goto, hist
<1>2. \A u \in Trackers : u # t => pc[u] = "idle" /\ pc'[u] = "idle"
  BY <1>1 DEF RingInv, Solo, Busy, TypeOK
<1>3. pc'[t] = "keep" /\ slot'[idx[t]] = {}
  BY <1>1 DEF RingInv, TypeOK
<1>4. Solo' /\ Cleaned'
  BY <1>1, <1>2, <1>3 DEF Solo, Busy, Cleaned
<1>5. Indices'
  BY <1>1, <1>2, <1>3 DEF RingInv, Indices, Saving, Last
<1>6. Circle'
  BY <1>1 DEF RingInv, Circle
<1>7. RingKeepsLatest'
  <2>1. ASSUME NEW k \in DOMAIN saved, Len(saved) - k < N - 1
        PROVE  slot'[saved[k].at] = {saved[k].dump}
    <3>1. saved # <<>>
      BY <2>1, SavedTyped DEF RingInv
    <3>2. saved[k].at # idx[t] /\ saved[k].at \in Ring
      <4>1. idx[t] = NextIdx(Last)
        BY <1>1, <3>1 DEF RingInv, Indices, Saving
      <4> QED
        BY <2>1, <3>1, <4>1, NextIsFree, SavedTyped DEF RingInv
    <3>3. slot[saved[k].at] = {saved[k].dump}
      <4>1. ~ \E u \in Trackers : pc[u] = "keep"
        BY <1>1, <1>2
      <4>2. Len(saved) - k < N
        BY <2>1, RingAssumption DEF RingInv, TypeOK
      <4> QED
        BY <4>1, <4>2 DEF RingInv, RingKeepsLatest
    <3> QED
      BY <1>1, <3>2, <3>3 DEF RingInv, TypeOK
  <2> QED
    BY <1>1, <1>3, <2>1 DEF RingKeepsLatest
<1> QED
  BY <1>4, <1>5, <1>6, <1>7 DEF RingInv

LEMMA KeepStep ==
    ASSUME RingInv, TypeOK', NEW t \in Trackers, Keep(t)
    PROVE  RingInv'
<1> DEFINE n == Len(saved)
           new == [dump |-> dump[t], at |-> idx[t]]
<1>1. /\ pc[t] = "keep" /\ pc' = [pc EXCEPT ![t] = "idle"]
      /\ slot' = [slot EXCEPT ![idx[t]] = @ \cup {dump[t]}]
      /\ saved' = Append(saved, new)
      /\ ri' = ri /\ idx' = idx
  BY DEF Keep, Goto
<1>2. \A u \in Trackers : pc'[u] = "idle"
  BY <1>1 DEF RingInv, Solo, Busy, TypeOK
<1>3. /\ n \in Nat /\ DOMAIN saved = 1..n /\ DOMAIN saved' = 1..(n + 1)
      /\ Len(saved') = n + 1
      /\ saved'[n + 1] = new
      /\ \A k \in 1..n : saved'[k] = saved[k]
  BY <1>1 DEF RingInv, TypeOK
<1>4. /\ ri = idx[t] /\ (n > 0 => idx[t] = NextIdx(Last))
      /\ idx[t] \in Ring
  BY <1>1, <1>3 DEF RingInv, Indices, Saving, TypeOK
<1>5. Solo' /\ Cleaned'
  BY <1>2 DEF Solo, Busy, Cleaned
<1>6. Indices'
  <2>1. Last' = idx[t]
    BY <1>3 DEF Last
  <2> QED
    BY <1>1, <1>2, <1>4, <2>1 DEF Indices, Saving
<1>7. Circle'
  <2>1. \A k \in 1..n : saved[k].at \in Ring
    BY <1>3, SavedTyped DEF RingInv
  <2>2. ASSUME NEW k \in 1..n, n + 1 - k < N
        PROVE  Apart(saved[k].at, idx[t], n + 1 - k)
    <3>1. Apart(saved[k].at, Last, n - k)
      BY <1>3, <2>2, RingAssumption DEF RingInv, Circle, Last
    <3>2. Apart(saved[k].at, NextIdx(Last), (n - k) + 1)
      BY <1>3, <2>1, <2>2, <3>1, NextIsApart, RingAssumption DEF Last
    <3>3. n > 0 /\ (n - k) + 1 = n + 1 - k
      BY <1>3
    <3> QED
      BY <1>4, <3>2, <3>3
  <2>3. Apart(idx[t], idx[t], 0)
    BY <1>4, RingAssumption DEF Apart, Ring
  <2>4. ASSUME NEW k \in 1..(n + 1), NEW m \in 1..(n + 1), k <= m, m - k < N
        PROVE  Apart(saved'[k].at, saved'[m].at, m - k)
    <3>1. CASE m \in 1..n
      BY <1>3, <2>4, <3>1, SMTT(30) DEF RingInv, Circle
    <3>2. CASE m = n + 1 /\ k \in 1..n
      BY <1>3, <2>2, <2>4, <3>2
    <3>3. CASE m = n + 1 /\ k = n + 1
      BY <1>3, <2>3, <3>3
    <3> QED
      BY <1>3, <2>4, <3>1, <3>2, <3>3
  <2> QED
    BY <1>3, <2>4 DEF Circle, Apart
<1>8. RingKeepsLatest'
  <2>1. slot'[idx[t]] = {dump[t]}
    BY <1>1, <1>4 DEF RingInv, Cleaned, TypeOK
  <2>2. ASSUME NEW k \in 1..n, n + 1 - k < N
        PROVE  slot'[saved[k].at] = {saved[k].dump}
    <3>1. Len(saved) - k < N - 1 /\ k \in DOMAIN saved /\ saved # <<>>
      BY <1>3, <2>2, RingAssumption, SavedTyped DEF RingInv
    <3>2. saved[k].at # idx[t] /\ saved[k].at \in Ring
      BY <1>3, <1>4, <2>2, <3>1, NextIsFree, SavedTyped DEF RingInv
    <3>3. slot[saved[k].at] = {saved[k].dump}
      BY <1>1, <3>1 DEF RingInv, RingKeepsLatest
    <3> QED
      BY <1>1, <3>2, <3>3 DEF RingInv, TypeOK
  <2>3. ASSUME NEW k \in 1..(n + 1), n + 1 - k < N
        PROVE  slot'[saved'[k].at] = {saved'[k].dump}
    <3>1. CASE k \in 1..n
      BY <1>3, <2>2, <2>3, <3>1
    <3>2. CASE k = n + 1
      BY <1>3, <2>1, <3>2
    <3> QED
      BY <1>3, <2>3, <3>1, <3>2
  <2>4. ~ \E u \in Trackers : pc'[u] = "keep"
    BY <1>2
  <2> HIDE DEF n, new
  <2>5. \A k \in DOMAIN saved' :
          Len(saved') - k < N => slot'[saved'[k].at] = {saved'[k].dump}
    <3>1. n \in Nat /\ DOMAIN saved' = 1..(n + 1) /\ Len(saved') = n + 1
      BY <1>3
    <3>2. ASSUME NEW k \in DOMAIN saved', Len(saved') - k < N
          PROVE  slot'[saved'[k].at] = {saved'[k].dump}
      <4>1. k \in 1..(n + 1) /\ n + 1 - k < N
        BY <3>1, <3>2, RingAssumption
      <4> QED
        BY <2>3, <4>1, Zenon
    <3> QED
      BY <3>2, Zenon
  <2>6. RingKeepsLatest' <=> \A k \in DOMAIN saved' :
          Len(saved') - k < (IF \E u \in Trackers : pc'[u] = "keep" THEN N - 1 ELSE N)
             => slot'[saved'[k].at] = {saved'[k].dump}
    BY DEF RingKeepsLatest
  <2> QED
    BY <2>4, <2>5, <2>6
<1> QED
  BY <1>5, <1>6, <1>7, <1>8 DEF RingInv

LEMMA PowerLossStep ==
    ASSUME TypeOK', PowerLoss
    PROVE  RingInv'
<1>1. saved' = <<>> /\ \A t \in Trackers : pc'[t] = "idle"
  BY DEF PowerLoss
<1> QED
  BY <1>1 DEF RingInv, Solo, Busy, Indices, Saving, Circle, Cleaned, RingKeepsLatest

(***************************************************************************)
(* Without overlapping scripts the ring keeps the last N dumps, for every  *)
(* N, however ri was left by earlier lives of the board.                   *)
(***************************************************************************)
THEOREM RingKept ==
    ASSUME ~Overlap
    PROVE  Spec => []RingKeepsLatest
<1>1. Init => Solo /\ Indices /\ Circle /\ Cleaned /\ RingKeepsLatest
  BY DEF Init, Solo, Busy, Indices, Saving, Circle, Cleaned, RingKeepsLatest
<1>2. RingInv /\ TypeOK' /\ [Next]_vars => RingInv'
  <2> SUFFICES ASSUME RingInv, TypeOK', [Next]_vars PROVE RingInv'
    OBVIOUS
  <2> DEFINE Quiet == \A t \in Trackers : pc'[t] = pc[t]
               \/ {pc[t], pc'[t]} \cap {"write", "clean", "keep"} = {}
             Elsewhen == Stages \ {"write", "clean", "keep"}
  <2>1. CASE Machine \/ Writeback \/ UNCHANGED vars
    <3>1. UNCHANGED <<pc, idx, ri, slot, saved>>
      BY <2>1 DEF Machine, FwStart, FwComplaint, FwExit, FwCrash, FwGone, Writeback,
                  vars, locals, ring, hist
    <3>2. Solo'
      BY <3>1 DEF RingInv, Solo, Busy
    <3> QED
      BY <3>1, <3>2, Elsewhere
  <2>2. CASE PowerLoss
    BY <2>2, PowerLossStep
  <2>3. ASSUME NEW t \in Trackers, TrackerStart(t) PROVE RingInv'
    <3>1. /\ ~AtWork /\ pc[t] = "idle" /\ pc' = [pc EXCEPT ![t] = "watch"]
          /\ UNCHANGED <<idx, ri, slot, saved>>
      BY <2>3 DEF TrackerStart, Goto, ring, hist
    <3>2. \A u \in Trackers : pc'[u] = "idle" \/ u = t
      BY <3>1 DEF AtWork, Busy, RingInv, TypeOK
    <3>3. Solo'
      BY <3>2 DEF Solo, Busy
    <3>4. Quiet
      BY <3>1 DEF RingInv, TypeOK
    <3> QED
      BY <3>1, <3>3, <3>4, Elsewhere
  <2>4. ASSUME NEW t \in Trackers, NEW from \in Elsewhen \ {"idle"},
               NEW to \in Elsewhen, Goto(t, from, to),
               UNCHANGED <<idx, ri, slot, saved>>
        PROVE  RingInv'
    <3>1. \A u \in Trackers : u # t => pc'[u] = pc[u]
      BY <2>4 DEF Goto, RingInv, TypeOK
    <3>2. pc[t] = from /\ pc'[t] = to
      BY <2>4 DEF Goto, RingInv, TypeOK
    <3>3. Quiet
      BY <3>1, <3>2
    <3>4. Solo'
      BY <3>1, <3>2 DEF RingInv, Solo, Busy
    <3> QED
      BY <2>4, <3>3, <3>4, Elsewhere
  <2>5. ASSUME NEW t \in Trackers, Watch(t) PROVE RingInv'
    <3>1. Goto(t, "watch", IF Exists(pid[t]) THEN "timedout" ELSE "core")
      BY <2>5 DEF Watch
    <3> QED
      BY <2>4, <2>5, <3>1 DEF Watch, ring, hist, Stages
  <2>6. ASSUME NEW t \in Trackers, NEW m \in {"timedout", "stuck"},
               NEW bad \in {"kill1", "kill2"}, NEW good \in {"stuck", "watch"},
               Look(t, m, bad, good)
        PROVE  RingInv'
    <3>1. Goto(t, m, IF m \in dmesg THEN bad ELSE good)
      BY <2>6 DEF Look
    <3> QED
      BY <2>4, <2>6, <3>1 DEF Look, ring, hist, Stages
  <2>7. ASSUME NEW t \in Trackers, NEW from \in {"kill1", "kill2"},
               NEW to \in {"stuck", "watch"}, Kill(t, from, to)
        PROVE  RingInv'
    <3>1. Goto(t, from, to)
      BY <2>7 DEF Kill
    <3> QED
      BY <2>4, <2>7, <3>1 DEF Kill, ring, Stages
  <2>8. ASSUME NEW t \in Trackers, FindCore(t) PROVE RingInv'
    <3>1. Goto(t, "core", IF core = None THEN "idle" ELSE "pack")
      BY <2>8 DEF FindCore
    <3> QED
      BY <2>4, <2>8, <3>1 DEF FindCore, ring, hist, Stages
  <2>9. ASSUME NEW t \in Trackers, Pack(t) PROVE RingInv'
    <3>1. Goto(t, "pack", "read")
      BY <2>9 DEF Pack
    <3> QED
      BY <2>4, <2>9, <3>1 DEF Pack, ring, hist, Stages
  <2> QED
    BY <2>1, <2>2, <2>3, <2>5, <2>6, <2>7, <2>8, <2>9, ReadStep, WriteStep,
       CleanStep, KeepStep DEF Next, Script
<1> QED
  BY <1>1, <1>2, TypeCorrect, PTL DEF Spec, RingInv
=============================================================================
