--------------------------- MODULE Services_proofs ---------------------------
(***************************************************************************)
(* Proofs about Services, for all services, modules and agents.            *)
(***************************************************************************)
EXTENDS Services, SequenceTheorems, TLAPS

\* The scripts are sequences of commands.
LEMMA EachType ==
    ASSUME NEW what \in {"modprobe", "rmmod"}, NEW seq \in Seq(Modules)
    PROVE  /\ Each(what, seq) \in Seq(Commands)
           /\ Len(Each(what, seq)) = Len(seq)
           /\ \A i \in 1..Len(seq) : Each(what, seq)[i] = On(what, seq[i])
BY DEF Each, On, Commands

\* Len, elements of a concatenation and of a tail of jobs.
LEMMA Cat ==
    ASSUME NEW s \in Seq(Commands), NEW t \in Seq(Commands)
    PROVE  /\ s \o t \in Seq(Commands)
           /\ Len(s \o t) = Len(s) + Len(t)
           /\ \A i \in 1..Len(s) : (s \o t)[i] = s[i]
           /\ \A i \in Len(s) + 1..Len(s) + Len(t) : (s \o t)[i] = t[i - Len(s)]
<1>1. /\ s \o t \in Seq(Commands)
      /\ Len(s \o t) = Len(s) + Len(t)
      /\ \A i \in 1..Len(s) + Len(t) :
            (s \o t)[i] = IF i <= Len(s) THEN s[i] ELSE t[i - Len(s)]
  BY ConcatProperties
<1> QED
  BY <1>1

LEMMA Join ==
    ASSUME NEW s \in Seq(Commands), NEW t \in Seq(Commands), NEW u \in Seq(Commands),
           Len(u) = Len(s) + Len(t),
           \A i \in 1..Len(s) : u[i] = s[i],
           \A i \in Len(s) + 1..Len(s) + Len(t) : u[i] = t[i - Len(s)]
    PROVE  s \o t = u
<1>1. Len(s \o t) = Len(u) /\ s \o t \in Seq(Commands)
  BY Cat
<1>2. ASSUME NEW i \in 1..Len(s \o t) PROVE (s \o t)[i] = u[i]
  <2>1. CASE i \in 1..Len(s)
    BY <2>1, Cat
  <2>2. CASE i \in Len(s) + 1..Len(s) + Len(t)
    BY <2>2, Cat
  <2> QED
    BY <1>1, <2>1, <2>2
<1> QED
  BY <1>1, <1>2, SeqEqual

LEMMA Rest ==
    ASSUME NEW s \in Seq(Commands), s # <<>>
    PROVE  /\ Tail(s) \in Seq(Commands)
           /\ Len(Tail(s)) = Len(s) - 1
           /\ \A i \in 1..Len(Tail(s)) : Tail(s)[i] = s[i + 1]
BY HeadTailProperties

LEMMA DoType ==
    \A what \in {"spawn", "exec", "sleep", "term"} : Do(what) \in Commands
BY DEF Do, Commands

LEMMA ScriptsType ==
    /\ start \in [Services \cup {Agent} -> Seq(Commands)]
    /\ stop \in [Services \cup {Agent} -> Seq(Commands)]
    /\ restart \in [Services \cup {Agent} -> Seq(Commands)]
<1>1. ASSUME NEW s \in Services PROVE /\ Each("modprobe", Load[s]) \in Seq(Commands)
                                      /\ Each("rmmod", Unload[s]) \in Seq(Commands)
  BY EachType, ServicesAssumption
<1>2. start \in [Services \cup {Agent} -> Seq(Commands)]
  BY <1>1, DoType DEF start
<1>3. stop \in [Services \cup {Agent} -> Seq(Commands)]
  BY <1>1, DoType DEF stop
<1>4. ASSUME NEW s \in Services \cup {Agent}
      PROVE  stop[s] \o <<Do("sleep")>> \o start[s] \in Seq(Commands)
  BY <1>2, <1>3, DoType
<1> QED
  BY <1>2, <1>3, <1>4 DEF restart

LEMMA TypeInit == Init => TypeOK
<1> SUFFICES ASSUME Init PROVE TypeOK
  OBVIOUS
<1>1. job \in [Procs -> Seq(Commands)] /\ turn \in 0..Len(Order)
  BY ServicesAssumption DEF Init
<1>2. doing \in [Shells -> (Services \cup {Agent}) \X {"start", "stop", "restart"}]
  BY DEF Init
<1> QED
  BY <1>1, <1>2 DEF Init, TypeOK, Alive

\* The head of a job is a command, the tail a job.
LEMMA StepType ==
    ASSUME TypeOK, NEW p \in Procs, job[p] # <<>>
    PROVE  /\ Head(job[p]) \in Commands
           /\ Tail(job[p]) \in Seq(Commands)
BY DEF TypeOK

LEMMA ArgType ==
    ASSUME TypeOK, NEW p \in Procs, Runs(p, "modprobe") \/ Runs(p, "rmmod")
    PROVE  Arg(p) \in Modules
BY StepType DEF Runs, Arg, Commands

LEMMA TypeStep == TypeOK /\ [Next]_vars => TypeOK'
<1> SUFFICES ASSUME TypeOK, [Next]_vars PROVE TypeOK'
  OBVIOUS
<1> USE ServicesAssumption DEF TypeOK
<1>1. ASSUME NEW p \in Procs, Modprobe(p) PROVE TypeOK'
  <2>1. Arg(p) \in Modules /\ Deps[Arg(p)] \subseteq Modules
    BY <1>1, ArgType DEF Modprobe
  <2>2. job' \in [Procs -> Seq(Commands)]
    BY <1>1, StepType DEF Modprobe, Step, Runs
  <2>3. loaded \subseteq loaded' /\ loaded' \subseteq Modules
    BY <1>1, <2>1 DEF Modprobe
  <2>4. excused' \in [Shells -> SUBSET Modules]
    BY <1>1, <2>1 DEF Modprobe
  <2> QED
    BY <1>1, <2>2, <2>3, <2>4 DEF Modprobe, Alive
<1>2. ASSUME NEW p \in Procs, Rmmod(p) PROVE TypeOK'
  <2>1. job' \in [Procs -> Seq(Commands)] /\ loaded' \subseteq Modules
    BY <1>2, StepType DEF Rmmod, Step, Runs
  <2>2. ASSUME NEW a \in Agents, Alive(a) PROVE holds[a] \subseteq loaded'
    BY <1>2, <2>2 DEF Rmmod, InUse, Open
  <2>3. hindered' \in BOOLEAN
    BY <1>2 DEF Rmmod
  <2>4. excused' \in [Shells -> SUBSET Modules]
    <3>1. Arg(p) \in Modules
      BY <1>2, ArgType DEF Rmmod
    <3>2. excused' = excused \/ Unloaded(p, Arg(p))
      BY <1>2 DEF Rmmod
    <3> QED
      BY <3>1, <3>2 DEF Unloaded
  <2>5. UNCHANGED <<phase, turn, doing, agent, holds, quiet, raced, hampered>>
    BY <1>2 DEF Rmmod
  <2>6. \A a \in Agents : IF Alive(a)' THEN holds'[a] \subseteq loaded' \cap Uses
                                       ELSE holds'[a] = {}
    BY <2>2, <2>5 DEF Alive
  <2> QED
    BY <2>1, <2>3, <2>4, <2>5, <2>6
<1>3. ASSUME NEW p \in Procs, Spawn(p) PROVE TypeOK'
  <2>1. [job[p] EXCEPT ![1] = Do("exec")] \in Seq(Commands)
    BY <1>3, DoType DEF Spawn, Runs
  <2>2. job' \in [Procs -> Seq(Commands)]
    BY <1>3, <2>1, StepType DEF Spawn, Step, Runs
  <2>3. raced' \in BOOLEAN
    BY <1>3 DEF Spawn, Look
  <2>4. UNCHANGED <<phase, turn, doing, loaded, agent, holds, quiet, hindered, hampered,
                    excused>>
    BY <1>3 DEF Spawn
  <2> QED
    BY <2>2, <2>3, <2>4 DEF Alive
<1>4. ASSUME NEW p \in Procs, Exec(p) PROVE TypeOK'
  BY <1>4, StepType DEF Exec, Step, Alive, Runs, history
<1>5. ASSUME NEW p \in Procs, Term(p) PROVE TypeOK'
  BY <1>5, StepType DEF Term, Step, Alive, Runs
<1>6. ASSUME NEW p \in Procs, Sleep(p) PROVE TypeOK'
  BY <1>6, StepType DEF Sleep, Step, Alive, Runs
<1>7. CASE RcStart \/ RcStop
  BY <1>7, ScriptsType DEF RcStart, RcStop, Alive, Procs, history
<1>8. CASE BootDone \/ Shutdown
  BY <1>8 DEF BootDone, Shutdown, Alive, history
<1>9. CASE Reboot
  <2>1. job' \in [Procs -> Seq(Commands)] /\ turn' \in 0..Len(Order)
    BY <1>9 DEF Reboot, Booted
  <2>2. doing' \in [Shells -> (Services \cup {Agent}) \X {"start", "stop", "restart"}]
    BY <1>9 DEF Reboot, Booted
  <2> QED
    BY <1>9, <2>1, <2>2 DEF Reboot, Booted, Alive
<1>10. ASSUME NEW s \in Shells, RunScript(s) PROVE TypeOK'
  <2>1. job' \in [Procs -> Seq(Commands)]
    <3>1. PICK v \in Services \cup {Agent} :
               \/ job' = [job EXCEPT ![s] = start[v]]
               \/ job' = [job EXCEPT ![s] = stop[v]]
               \/ job' = [job EXCEPT ![s] = restart[v]]
      BY <1>10 DEF RunScript
    <3>2. /\ start[v] \in Seq(Commands)
          /\ stop[v] \in Seq(Commands)
          /\ restart[v] \in Seq(Commands)
      BY ScriptsType
    <3> QED
      BY <3>1, <3>2 DEF Procs
  <2>2. doing' \in [Shells -> (Services \cup {Agent}) \X {"start", "stop", "restart"}]
    <3> PICK v \in Services \cup {Agent}, verb \in {"start", "stop", "restart"} :
               doing' = [doing EXCEPT ![s] = <<v, verb>>]
      BY <1>10 DEF RunScript
    <3> QED
      OBVIOUS
  <2>3. /\ quiet' \in BOOLEAN /\ hampered' \in [Shells -> BOOLEAN]
        /\ excused' \in [Shells -> SUBSET Modules]
    BY <1>10 DEF RunScript, Given
  <2>4. UNCHANGED <<phase, turn, loaded, agent, holds, hindered, raced>>
    BY <1>10 DEF RunScript
  <2> QED
    BY <2>1, <2>2, <2>3, <2>4 DEF Alive
<1>11. ASSUME NEW s \in Shells, StartByHand(s) PROVE TypeOK'
  <2>1. job' \in [Procs -> Seq(Commands)]
    BY <1>11, DoType DEF StartByHand, Procs
  <2>2. /\ quiet' \in BOOLEAN /\ hampered' \in [Shells -> BOOLEAN]
        /\ excused' \in [Shells -> SUBSET Modules] /\ raced' \in BOOLEAN
    BY <1>11 DEF StartByHand, Given, Look
  <2> QED
    BY <1>11, <2>1, <2>2 DEF StartByHand, Alive
<1>12. ASSUME NEW a \in Agents, NEW m \in Modules, OpenDevice(a, m) PROVE TypeOK'
  BY <1>12 DEF OpenDevice, Alive, history
<1>13. ASSUME NEW a \in Agents, End(a) PROVE TypeOK'
  BY <1>13 DEF End, Alive, history
<1>14. CASE UNCHANGED vars
  BY <1>14 DEF vars, Alive, history
<1> QED
  BY <1>1, <1>2, <1>3, <1>4, <1>5, <1>6, <1>7, <1>8, <1>9, <1>10, <1>11, <1>12, <1>13,
     <1>14 DEF Next, Command

\* The variables keep their types; no process has a module open that is not loaded.
THEOREM TypeCorrect == Spec => []TypeOK
BY TypeInit, TypeStep, PTL DEF Spec

-----------------------------------------------------------------------------
\* A restart is a stop, a sleep and a start.
LEMMA RestartShape ==
    ASSUME NEW v \in Services \cup {Agent}
    PROVE  /\ Len(restart[v]) = Len(stop[v]) + 1 + Len(start[v])
           /\ \A i \in 1..Len(stop[v]) : restart[v][i] = stop[v][i]
           /\ restart[v][Len(stop[v]) + 1].do = "sleep"
           /\ \A i \in 1..Len(restart[v]) :
                i - (Len(stop[v]) + 1) \in 1..Len(start[v]) =>
                    restart[v][i] = start[v][i - (Len(stop[v]) + 1)]
           /\ \A i \in 1..Len(restart[v]) : \/ i \in 1..Len(stop[v])
                                           \/ i = Len(stop[v]) + 1
                                           \/ i - (Len(stop[v]) + 1) \in 1..Len(start[v])
<1> DEFINE pause == <<Do("sleep")>>
<1>1. /\ start[v] \in Seq(Commands) /\ stop[v] \in Seq(Commands)
      /\ pause \in Seq(Commands) /\ Len(pause) = 1 /\ pause[1].do = "sleep"
  BY ScriptsType, DoType DEF Do
<1>2. restart[v] = (stop[v] \o pause) \o start[v]
  BY DEF restart
<1> HIDE DEF pause
<1> DEFINE front == stop[v] \o pause
<1>3. /\ front \in Seq(Commands) /\ Len(front) = Len(stop[v]) + 1
      /\ \A i \in 1..Len(stop[v]) : front[i] = stop[v][i]
      /\ front[Len(stop[v]) + 1] = pause[1]
  BY <1>1, Cat
<1>4. restart[v] = front \o start[v]
  BY <1>2
<1> HIDE DEF front
<1>5. /\ Len(front \o start[v]) = Len(front) + Len(start[v])
      /\ \A i \in 1..Len(front) : (front \o start[v])[i] = front[i]
      /\ \A i \in Len(front) + 1..Len(front) + Len(start[v]) :
            (front \o start[v])[i] = start[v][i - Len(front)]
  BY <1>1, <1>3, Cat
<1>6. /\ Len(restart[v]) = Len(front) + Len(start[v])
      /\ \A i \in 1..Len(front) : restart[v][i] = front[i]
      /\ \A i \in Len(front) + 1..Len(restart[v]) : restart[v][i] = start[v][i - Len(front)]
  BY <1>4, <1>5
<1>7. Len(front) \in Nat /\ Len(stop[v]) \in Nat /\ Len(start[v]) \in Nat
  BY <1>1, <1>3
<1>8. ASSUME NEW i \in 1..Len(restart[v]), i - (Len(stop[v]) + 1) \in 1..Len(start[v])
      PROVE  restart[v][i] = start[v][i - (Len(stop[v]) + 1)]
  <2>1. Len(stop[v]) + 1 = Len(front)
    BY <1>3
  <2>2. i - Len(front) \in 1..Len(start[v])
    BY <1>8, <2>1
  <2>3. i \in Len(front) + 1..Len(restart[v])
    BY <2>2, <1>6, <1>7
  <2> QED
    BY <2>1, <2>3, <1>6
<1>9. Len(restart[v]) = Len(stop[v]) + 1 + Len(start[v])
  BY <1>3, <1>6, <1>7
<1>10. \A i \in 1..Len(stop[v]) : restart[v][i] = stop[v][i]
  BY <1>3, <1>6, <1>7
<1>11. restart[v][Len(stop[v]) + 1].do = "sleep"
  <2>1. Len(stop[v]) + 1 \in 1..Len(front)
    BY <1>3, <1>7
  <2>2. restart[v][Len(stop[v]) + 1] = pause[1]
    BY <2>1, <1>3, <1>6
  <2> QED
    BY <2>2, <1>1
<1>12. \A i \in 1..Len(restart[v]) : \/ i \in 1..Len(stop[v])
                                     \/ i = Len(stop[v]) + 1
                                     \/ i - (Len(stop[v]) + 1) \in 1..Len(start[v])
  <2> DEFINE x == Len(stop[v])
  <2> DEFINE y == Len(start[v])
  <2> DEFINE z == Len(restart[v])
  <2>1. x \in Nat /\ y \in Nat /\ z = x + 1 + y
    BY <1>7, <1>9
  <2> HIDE DEF x, y, z
  <2>2. \A i \in 1..z : i \in 1..x \/ i = x + 1 \/ i - (x + 1) \in 1..y
    BY <2>1
  <2> QED
    BY <2>2 DEF x, y, z
<1> QED
  BY <1>8, <1>9, <1>10, <1>11, <1>12

\* What the commands of the scripts can be.
LEMMA ScriptCommands ==
    ASSUME NEW v \in Services \cup {Agent}
    PROVE  /\ \A i \in 1..Len(start[v]) : start[v][i].do \in {"modprobe", "spawn", "sleep"}
           /\ \A i \in 1..Len(stop[v]) : stop[v][i].do \in {"rmmod", "term"}
           /\ \A i \in 1..Len(restart[v]) : restart[v][i].do # "exec"
<1>1. \A i \in 1..Len(start[v]) : start[v][i].do \in {"modprobe", "spawn", "sleep"}
  <2>1. CASE v = Agent
    BY <2>1 DEF start, Do
  <2>2. CASE v # Agent
    <3>1. v \in Services /\ start[v] = Each("modprobe", Load[v])
      BY <2>2 DEF start
    <3>2. Load[v] \in Seq(Modules)
      BY <3>1, ServicesAssumption
    <3>3. \A m : On("modprobe", m).do = "modprobe"
      BY DEF On
    <3>4. \A i \in 1..Len(start[v]) : start[v][i] = On("modprobe", Load[v][i])
      BY <3>1, <3>2 DEF Each
    <3> QED
      BY <3>3, <3>4, Zenon
  <2> QED
    BY <2>1, <2>2
<1>2. \A i \in 1..Len(stop[v]) : stop[v][i].do \in {"rmmod", "term"}
  <2>1. CASE v = Agent
    BY <2>1 DEF stop, Do
  <2>2. CASE v # Agent
    <3>1. v \in Services /\ stop[v] = Each("rmmod", Unload[v])
      BY <2>2 DEF stop
    <3>2. Unload[v] \in Seq(Modules)
      BY <3>1, ServicesAssumption
    <3>3. \A m : On("rmmod", m).do = "rmmod"
      BY DEF On
    <3>4. \A i \in 1..Len(stop[v]) : stop[v][i] = On("rmmod", Unload[v][i])
      BY <3>1, <3>2 DEF Each
    <3> QED
      BY <3>3, <3>4, Zenon
  <2> QED
    BY <2>1, <2>2
<1>3. \A i \in 1..Len(restart[v]) : restart[v][i].do # "exec"
  <2>1. ASSUME NEW i \in 1..Len(restart[v]) PROVE restart[v][i].do # "exec"
    <3>1. CASE i \in 1..Len(stop[v])
      BY <3>1, <1>2, RestartShape
    <3>2. CASE i = Len(stop[v]) + 1
      BY <3>2, RestartShape
    <3>3. CASE i - (Len(stop[v]) + 1) \in 1..Len(start[v])
      <4>1. restart[v][i] = start[v][i - (Len(stop[v]) + 1)]
        BY <3>3, RestartShape
      <4> QED
        BY <3>3, <4>1, <1>1
    <3> QED
      BY <3>1, <3>2, <3>3, RestartShape
  <2> QED
    BY <2>1
<1> QED
  BY <1>1, <1>2, <1>3

May(p, what) == \E i \in 1..Len(job[p]) : job[p][i].do = what

\* Unless two looks have crossed, one process at most has found no agent and is yet
\* to start one, and until it does there is none.
OneInv ==
    /\ OneAgent
    /\ ~raced => \A p \in Procs : Runs(p, "exec") =>
          /\ \A a \in Agents : ~Alive(a)
          /\ \A q \in Procs : Runs(q, "exec") => q = p
    /\ \A p \in Procs : \A i \in 2..Len(job[p]) : job[p][i].do # "exec"

\* A step of p leaves what is left of its job, and the others' jobs.
LEMMA StepJob ==
    ASSUME TypeOK, NEW p \in Procs, job[p] # <<>>, Step(p)
    PROVE  /\ \A q \in Procs \ {p} : job'[q] = job[q]
           /\ Len(job'[p]) = Len(job[p]) - 1
           /\ \A i \in 1..Len(job'[p]) : job'[p][i] = job[p][i + 1]
<1>1. job[p] \in Seq(Commands) /\ job' = [job EXCEPT ![p] = Tail(job[p])]
  BY DEF TypeOK, Step
<1>2. job'[p] = Tail(job[p]) /\ \A q \in Procs \ {p} : job'[q] = job[q]
  BY <1>1 DEF TypeOK
<1> QED
  BY <1>1, <1>2, Rest, ZenonT(40)

\* After a step of p, it is not about to start an agent, and another one only if it
\* was before.
LEMMA StepExec ==
    ASSUME TypeOK, OneInv, NEW p \in Procs, job[p] # <<>>, Step(p)
    PROVE  /\ \A q \in Procs : Runs(q, "exec")' => q # p /\ Runs(q, "exec")
           /\ \A q \in Procs : \A i \in 2..Len(job'[q]) : job'[q][i].do # "exec"
<1>1. /\ \A q \in Procs \ {p} : job'[q] = job[q]
      /\ Len(job'[p]) = Len(job[p]) - 1
      /\ \A i \in 1..Len(job'[p]) : job'[p][i] = job[p][i + 1]
  BY StepJob
<1>2. job[p] \in Seq(Commands) /\ job'[p] \in Seq(Commands)
  BY StepType DEF TypeOK, Step
<1>3. ASSUME NEW q \in Procs, Runs(q, "exec")' PROVE q # p /\ Runs(q, "exec")
  <2>1. CASE q = p
    <3>1. job'[p] # <<>> /\ job'[p][1].do = "exec"
      BY <2>1, <1>2, <1>3 DEF Runs
    <3>2. 1 \in 1..Len(job'[p]) /\ 2 \in 2..Len(job[p]) /\ job'[p][1] = job[p][2]
      BY <3>1, <1>1, <1>2
    <3> QED
      BY <3>1, <3>2 DEF OneInv
  <2>2. CASE q # p
    BY <2>2, <1>1, <1>3 DEF Runs
  <2> QED
    BY <2>1, <2>2
<1>4. ASSUME NEW q \in Procs, NEW i \in 2..Len(job'[q]) PROVE job'[q][i].do # "exec"
  <2>1. CASE q = p
    <3>1. i \in 1..Len(job'[p]) /\ i + 1 \in 2..Len(job[p])
      BY <2>1, <1>1, <1>2
    <3> QED
      BY <2>1, <3>1, <1>1 DEF OneInv
  <2>2. CASE q # p
    BY <2>2, <1>1 DEF OneInv
  <2> QED
    BY <2>1, <2>2
<1> QED
  BY <1>3, <1>4

\* A script that is begun starts no agent without a look.
LEMMA BegunExec ==
    ASSUME TypeOK, TypeOK', OneInv, NEW p \in Procs, NEW v \in Services \cup {Agent},
           job'[p] \in {start[v], stop[v], restart[v]},
           \A q \in Procs \ {p} : job'[q] = job[q]
    PROVE  /\ \A q \in Procs : Runs(q, "exec")' => q # p /\ Runs(q, "exec")
           /\ \A q \in Procs : \A i \in 2..Len(job'[q]) : job'[q][i].do # "exec"
<1>1. job'[p] \in Seq(Commands)
  BY DEF TypeOK
<1>2. \A i \in 1..Len(job'[p]) : job'[p][i].do # "exec"
  BY ScriptCommands
<1>3. ASSUME job'[p] # <<>> PROVE 1 \in 1..Len(job'[p]) /\ Head(job'[p]) = job'[p][1]
  BY <1>1, <1>3
<1>4. ~Runs(p, "exec")'
  BY <1>2, <1>3 DEF Runs
<1>5. \A i \in 2..Len(job'[p]) : i \in 1..Len(job'[p])
  BY <1>1
<1> QED
  BY <1>2, <1>4, <1>5 DEF OneInv, Runs

LEMMA OneStep == TypeOK /\ OneInv /\ [Next]_vars => OneInv'
<1> SUFFICES ASSUME TypeOK, OneInv, [Next]_vars PROVE OneInv'
  OBVIOUS
<1>t. job \in [Procs -> Seq(Commands)] /\ TypeOK'
  BY TypeStep DEF TypeOK
<1>1. ASSUME NEW p \in Procs, Modprobe(p) \/ Rmmod(p) \/ Sleep(p) PROVE OneInv'
  <2>1. job[p] # <<>> /\ Step(p) /\ UNCHANGED <<agent, raced>>
    BY <1>1 DEF Modprobe, Rmmod, Sleep, Runs
  <2> QED
    BY <2>1, StepExec DEF OneInv, OneAgent, Alive
<1>2. ASSUME NEW p \in Procs, Term(p) PROVE OneInv'
  <2>1. job[p] # <<>> /\ Step(p) /\ UNCHANGED raced
    BY <1>2 DEF Term, Runs
  <2>2. \A a \in Agents : Alive(a)' <=> Alive(a)
    BY <1>2 DEF Term, Alive
  <2> QED
    BY <2>1, <2>2, StepExec DEF OneInv, OneAgent
<1>3. ASSUME NEW p \in Procs, Exec(p) PROVE OneInv'
  <2>1. job[p] # <<>> /\ Step(p) /\ UNCHANGED raced /\ Runs(p, "exec")
    BY <1>3 DEF Exec, Runs, history
  <2>2. PICK a \in Agents : agent' = [agent EXCEPT ![a] = "up"]
    BY <1>3 DEF Exec
  <2>3. ~raced => \A b \in Agents : ~Alive(b)
    BY <2>1 DEF OneInv
  <2>4. OneAgent'
    BY <2>1, <2>2, <2>3 DEF OneAgent, Alive, TypeOK
  <2>5. ~raced => \A q \in Procs : ~Runs(q, "exec")'
    BY <2>1, StepExec DEF OneInv
  <2> QED
    BY <2>1, <2>4, <2>5, StepExec DEF OneInv
\* The two looks.
<1>l. ASSUME NEW p \in Procs, \A a \in Agents : ~Alive(a), Look(p), UNCHANGED agent,
             \A q \in Procs \ {p} : job'[q] = job[q],
             \A i \in 2..Len(job'[p]) : job'[p][i].do # "exec"
      PROVE  OneInv'
  <2>1. \A q \in Procs \ {p} : Runs(q, "exec")' <=> Runs(q, "exec")
    BY <1>l DEF Runs
  <2>2. ~raced' => \A q \in Procs : Runs(q, "exec")' => q = p
    BY <2>1, <1>l DEF Look
  <2>3. \A q \in Procs : \A i \in 2..Len(job'[q]) : job'[q][i].do # "exec"
    BY <1>l DEF OneInv
  <2>4. \A a \in Agents : ~Alive(a)'
    BY <1>l DEF Alive
  <2> QED
    BY <2>2, <2>3, <2>4 DEF OneInv, OneAgent
<1>4. ASSUME NEW p \in Procs, Spawn(p) PROVE OneInv'
  <2>1. job[p] # <<>> /\ Runs(p, "spawn") /\ UNCHANGED agent
    BY <1>4 DEF Spawn, Runs
  <2>2. CASE \E a \in Agents : Alive(a)
    <3>1. Step(p) /\ UNCHANGED raced
      BY <1>4, <2>2 DEF Spawn
    <3> QED
      BY <2>1, <3>1, StepExec DEF OneInv, OneAgent, Alive
  <2>3. CASE ~\E a \in Agents : Alive(a)
    <3>1. job' = [job EXCEPT ![p] = [job[p] EXCEPT ![1] = Do("exec")]] /\ Look(p)
      BY <1>4, <2>3 DEF Spawn
    <3>2. job[p] \in Seq(Commands)
      BY <1>t
    <3>3. /\ \A q \in Procs \ {p} : job'[q] = job[q]
          /\ \A i \in 2..Len(job'[p]) : job'[p][i] = job[p][i] /\ i \in 2..Len(job[p])
      BY <3>1, <3>2, <1>t
    <3>4. \A i \in 2..Len(job'[p]) : job'[p][i].do # "exec"
      BY <3>3 DEF OneInv
    <3> QED
      BY <2>1, <2>3, <3>1, <3>3, <3>4, <1>l
  <2> QED
    BY <2>2, <2>3
<1>5. CASE RcStart \/ RcStop
  <2>1. PICK v \in Services \cup {Agent} : job' \in {[job EXCEPT ![Rc] = start[v]],
                                                    [job EXCEPT ![Rc] = stop[v]]}
    <3>1. CASE RcStart
      <4>1. Order[turn + 1] \in Services \cup {Agent}
        BY <3>1, ServicesAssumption DEF RcStart, TypeOK
      <4> QED
        BY <3>1, <4>1 DEF RcStart
    <3>2. CASE RcStop
      <4>1. Order[turn] \in Services \cup {Agent}
        BY <3>2, ServicesAssumption DEF RcStop, TypeOK
      <4> QED
        BY <3>2, <4>1 DEF RcStop
    <3> QED
      BY <1>5, <3>1, <3>2
  <2>2. /\ Rc \in Procs /\ job'[Rc] \in {start[v], stop[v], restart[v]}
        /\ \A q \in Procs \ {Rc} : job'[q] = job[q]
    BY <2>1, <1>t DEF Procs
  <2>3. UNCHANGED <<agent, raced>>
    BY <1>5 DEF RcStart, RcStop, history
  <2> QED
    BY <2>2, <2>3, <1>t, BegunExec DEF OneInv, OneAgent, Alive
<1>6. CASE BootDone \/ Shutdown
  <2>1. UNCHANGED <<job, agent, raced>>
    BY <1>6 DEF BootDone, Shutdown, history
  <2> QED
    BY <2>1 DEF OneInv, OneAgent, Alive, Runs
<1>7. CASE Reboot
  <2>1. \A p \in Procs : job'[p] = <<>>
    BY <1>7 DEF Reboot, Booted
  <2>2. \A a \in Agents : ~Alive(a)'
    BY <1>7 DEF Reboot, Booted, Alive
  <2> QED
    BY <2>1, <2>2 DEF OneInv, OneAgent, Runs
<1>8. ASSUME NEW s \in Shells, RunScript(s) PROVE OneInv'
  <2>1. /\ s \in Procs /\ UNCHANGED <<agent, raced>>
        /\ \A q \in Procs \ {s} : job'[q] = job[q]
    BY <1>8, <1>t DEF RunScript, Procs
  <2>2. PICK v \in Services \cup {Agent} : job'[s] \in {start[v], stop[v], restart[v]}
    BY <1>8, <2>1, <1>t DEF RunScript
  <2> QED
    BY <2>1, <2>2, <1>t, BegunExec DEF OneInv, OneAgent, Alive
<1>9. ASSUME NEW s \in Shells, StartByHand(s) PROVE OneInv'
  <2>1. /\ s \in Procs /\ UNCHANGED agent /\ Look(s)
        /\ \A a \in Agents : ~Alive(a)
        /\ \A q \in Procs \ {s} : job'[q] = job[q]
        /\ job'[s] = <<Do("exec")>>
    BY <1>9, <1>t DEF StartByHand, Procs
  <2>2. \A i \in 2..Len(job'[s]) : job'[s][i].do # "exec"
    BY <2>1
  <2> QED
    BY <2>1, <2>2, <1>l
<1>10. ASSUME NEW a \in Agents, NEW m \in Modules, OpenDevice(a, m) PROVE OneInv'
  BY <1>10 DEF OpenDevice, OneInv, OneAgent, Alive, Runs, history
<1>11. ASSUME NEW a \in Agents, End(a) PROVE OneInv'
  <2>1. \A b \in Agents : Alive(b)' => Alive(b)
    BY <1>11 DEF End, Alive, TypeOK
  <2>2. UNCHANGED <<job, raced>>
    BY <1>11 DEF End, history
  <2> QED
    BY <2>1, <2>2 DEF OneInv, OneAgent, Runs
<1>12. CASE UNCHANGED vars
  BY <1>12 DEF vars, OneInv, OneAgent, Alive, Runs, history
<1> QED
  BY <1>1, <1>2, <1>3, <1>4, <1>5, <1>6, <1>7, <1>8, <1>9, <1>10, <1>11, <1>12
     DEF Next, Command

\* However rcS, rcK and the scripts of any number of shells interleave and however
\* long an agent takes to end, there is one agent at most unless two processes had
\* found none at the same time.
THEOREM OneAgentKept == Spec => []OneAgent
<1>1. Init => OneInv
  BY DEF Init, OneInv, OneAgent, Alive, Runs, Procs
<1>2. TypeOK /\ OneInv /\ [Next]_vars => OneInv'
  BY OneStep
<1>3. OneInv => OneAgent
  BY DEF OneInv
<1> QED
  BY <1>1, <1>2, <1>3, TypeCorrect, PTL DEF Spec

-----------------------------------------------------------------------------
\* What is left of "S90agent restart" after 0, 1, ... commands.
Left(n) ==
    CASE n = 0 -> <<Do("term"), Do("sleep"), Do("spawn"), Do("sleep")>>
      [] n = 1 -> <<Do("sleep"), Do("spawn"), Do("sleep")>>
      [] n = 2 -> <<Do("spawn"), Do("sleep")>>
      [] n = 3 -> <<Do("sleep")>>
      [] n = 4 -> <<>>
Starting == <<Do("exec"), Do("sleep")>>

LEMMA RestartJob ==
    ASSUME AutoStart
    PROVE  restart[Agent] = Left(0)
<1>1. start[Agent] = <<Do("spawn"), Do("sleep")>> /\ stop[Agent] = <<Do("term")>>
  BY DEF start, stop
<1>2. restart[Agent] = stop[Agent] \o <<Do("sleep")>> \o start[Agent]
  BY DEF restart
<1>3. ASSUME NEW a \in Commands, NEW b \in Commands, NEW c \in Commands
      PROVE  (<<a>> \o <<b>>) \o <<c, b>> = <<a, b, c, b>>
  <2>1. /\ <<a>> \in Seq(Commands) /\ <<b>> \in Seq(Commands)
        /\ <<a, b>> \in Seq(Commands) /\ <<c, b>> \in Seq(Commands)
        /\ <<a, b, c, b>> \in Seq(Commands)
    OBVIOUS
  <2>2. <<a>> \o <<b>> = <<a, b>>
    <3>1. /\ Len(<<a, b>>) = Len(<<a>>) + Len(<<b>>)
          /\ \A i \in 1..Len(<<a>>) : <<a, b>>[i] = <<a>>[i]
          /\ \A i \in Len(<<a>>) + 1..Len(<<a>>) + Len(<<b>>) :
                <<a, b>>[i] = <<b>>[i - Len(<<a>>)]
      <4> DEFINE one == <<a>> more == <<b>> all == <<a, b>>
      <4>1. /\ Len(one) = 1 /\ one[1] = a /\ Len(more) = 1 /\ more[1] = b
            /\ Len(all) = 2 /\ all[1] = a /\ all[2] = b
        OBVIOUS
      <4> HIDE DEF one, more, all
      <4>2. /\ Len(all) = Len(one) + Len(more)
            /\ \A i \in 1..Len(one) : all[i] = one[i]
            /\ \A i \in Len(one) + 1..Len(one) + Len(more) : all[i] = more[i - Len(one)]
        BY <4>1
      <4> QED
        BY <4>2 DEF one, more, all
    <3> QED
      BY <2>1, <3>1, Join
  <2>3. <<a, b>> \o <<c, b>> = <<a, b, c, b>>
    <3>1. /\ Len(<<a, b, c, b>>) = Len(<<a, b>>) + Len(<<c, b>>)
          /\ \A i \in 1..Len(<<a, b>>) : <<a, b, c, b>>[i] = <<a, b>>[i]
          /\ \A i \in Len(<<a, b>>) + 1..Len(<<a, b>>) + Len(<<c, b>>) :
                <<a, b, c, b>>[i] = <<c, b>>[i - Len(<<a, b>>)]
      <4> DEFINE two == <<a, b>> more == <<c, b>> all == <<a, b, c, b>>
      <4>1. /\ Len(two) = 2 /\ two[1] = a /\ two[2] = b
            /\ Len(more) = 2 /\ more[1] = c /\ more[2] = b
            /\ Len(all) = 4 /\ all[1] = a /\ all[2] = b /\ all[3] = c /\ all[4] = b
        OBVIOUS
      <4> HIDE DEF two, more, all
      <4>2. /\ Len(all) = Len(two) + Len(more)
            /\ \A i \in 1..Len(two) : all[i] = two[i]
            /\ \A i \in Len(two) + 1..Len(two) + Len(more) : all[i] = more[i - Len(two)]
        <5>1. /\ \A i \in 1..2 : i \in {1, 2}
              /\ \A i \in 3..4 : i \in {3, 4} /\ i - 2 \in {1, 2}
          OBVIOUS
        <5> QED
          BY <4>1, <5>1
      <4> QED
        BY <4>2 DEF two, more, all
    <3> QED
      BY <2>1, <3>1, Join
  <2> QED
    BY <2>2, <2>3
<1>4. restart[Agent] = <<Do("term"), Do("sleep"), Do("spawn"), Do("sleep")>>
  BY <1>1, <1>2, <1>3, DoType
<1> QED
  BY <1>4 DEF Left

LEMMA LeftTails ==
    /\ \A n \in 0..3 : Left(n) # <<>> /\ Tail(Left(n)) = Left(n + 1)
    /\ Head(Left(0)).do = "term"
    /\ Head(Left(1)).do = "sleep"
    /\ Head(Left(2)).do = "spawn"
    /\ Head(Left(3)).do = "sleep"
    /\ Head(Starting).do = "exec" /\ Tail(Starting) = Left(3)
    /\ [Left(2) EXCEPT ![1] = Do("exec")] = Starting
BY DEF Left, Starting, Do

SomeUp  == \E a \in Agents : agent[a] = "up"
NoDying == \A a \in Agents : agent[a] # "dying"

\* A restart of the agent up to its n-th command: by the time start looks for an
\* agent no old one is left, and what it finds, or starts, is up.
Restarting(s) ==
    \/ job[s] = Left(0) \/ job[s] = Left(1)
    \/ job[s] = Left(2) /\ NoDying
    \/ job[s] = Starting
    \/ job[s] \in {Left(3), Left(4)} /\ SomeUp

RestartInv == \A s \in Shells : Restarts(s) /\ ~hampered[s] => Restarting(s)

\* What another process does while the restart of s goes on unhampered.
LEMMA RestartOther ==
    ASSUME TypeOK, NEW s \in Shells, NEW p \in Procs \ {s}, Command(p),
           Restarts(s), ~hampered'[s]
    PROVE  /\ ~hampered[s] /\ job'[s] = job[s]
           /\ NoDying => NoDying'
           /\ SomeUp => SomeUp'
<1>1. /\ job \in [Procs -> Seq(Commands)] /\ s \in Procs
      /\ agent \in [Agents -> {"none", "up", "dying"}]
  BY DEF TypeOK, Procs
<1>2. CASE Term(p)
  <2>1. ~hampered[s] /\ \A a \in Agents : agent[a] # "up"
    BY <1>2 DEF Term
  <2>2. job'[s] = job[s]
    BY <1>1, <1>2 DEF Term, Step
  <2>3. NoDying => NoDying'
    BY <1>1, <1>2, <2>1 DEF Term, NoDying, Alive
  <2> QED
    BY <2>1, <2>2, <2>3 DEF SomeUp
<1>3. CASE Exec(p)
  <2>1. PICK a \in Agents : ~Alive(a) /\ agent' = [agent EXCEPT ![a] = "up"]
    BY <1>3 DEF Exec
  <2>2. ~hampered[s] /\ job'[s] = job[s]
    BY <1>1, <1>3 DEF Exec, Step, history
  <2> QED
    BY <1>1, <2>1, <2>2 DEF NoDying, SomeUp
<1>4. CASE Modprobe(p) \/ Rmmod(p) \/ Spawn(p) \/ Sleep(p)
  <2>1. UNCHANGED agent /\ ~hampered[s]
    BY <1>4 DEF Modprobe, Rmmod, Spawn, Sleep
  <2>2. job'[s] = job[s]
    BY <1>1, <1>4 DEF Modprobe, Rmmod, Spawn, Sleep, Step
  <2> QED
    BY <2>1, <2>2 DEF NoDying, SomeUp
<1> QED
  BY <1>2, <1>3, <1>4 DEF Command

\* A command of the restart itself.
LEMMA RestartOwn ==
    ASSUME TypeOK, NEW s \in Shells, Command(s), Restarts(s), ~hampered'[s],
           ~hampered[s] => Restarting(s)
    PROVE  Restarting(s)'
<1>t. /\ s \in Procs /\ job \in [Procs -> Seq(Commands)]
      /\ agent \in [Agents -> {"none", "up", "dying"}]
  BY DEF TypeOK, Procs
<1>1. job[s] # <<>>
  BY DEF Command, Modprobe, Rmmod, Spawn, Exec, Term, Sleep, Runs
<1>2. ~hampered[s]
  BY DEF Command, Modprobe, Rmmod, Spawn, Exec, Term, Sleep, history
<1>3. Restarting(s)
  BY <1>2
<1>4. CASE job[s] = Left(0)
  <2>1. Step(s)
    BY <1>4, LeftTails DEF Command, Modprobe, Rmmod, Spawn, Exec, Term, Sleep, Runs
  <2>2. job'[s] = Left(1)
    BY <2>1, <1>4, <1>t, LeftTails DEF Step
  <2> QED
    BY <2>2 DEF Restarting
<1>5. CASE job[s] = Left(1)
  <2>1. Sleep(s)
    BY <1>5, LeftTails DEF Command, Modprobe, Rmmod, Spawn, Exec, Term, Runs
  <2>2. job'[s] = Left(2)
    BY <2>1, <1>5, <1>t, LeftTails DEF Sleep, Step
  <2>3. NoDying'
    BY <2>1 DEF Sleep, NoDying
  <2> QED
    BY <2>2, <2>3 DEF Restarting
<1>6. CASE job[s] = Left(2) /\ NoDying
  <2>1. Spawn(s)
    BY <1>6, LeftTails DEF Command, Modprobe, Rmmod, Exec, Term, Sleep, Runs
  <2>2. CASE \E a \in Agents : Alive(a)
    <3>1. SomeUp'
      BY <2>1, <2>2, <1>6, <1>t DEF Spawn, NoDying, SomeUp, Alive
    <3>2. Step(s)
      BY <2>1, <2>2 DEF Spawn
    <3>3. job'[s] = Left(3)
      BY <3>2, <1>6, <1>t, LeftTails DEF Step
    <3> QED
      BY <3>1, <3>3 DEF Restarting
  <2>3. CASE ~\E a \in Agents : Alive(a)
    <3>1. job' = [job EXCEPT ![s] = [job[s] EXCEPT ![1] = Do("exec")]]
      BY <2>1, <2>3 DEF Spawn
    <3>2. job'[s] = Starting
      BY <3>1, <1>6, <1>t, LeftTails
    <3> QED
      BY <3>2 DEF Restarting
  <2> QED
    BY <2>2, <2>3
<1>7. CASE job[s] = Starting
  <2>1. Exec(s)
    BY <1>7, LeftTails DEF Command, Modprobe, Rmmod, Spawn, Term, Sleep, Runs
  <2>2. SomeUp'
    BY <2>1, <1>t DEF Exec, SomeUp
  <2>3. job'[s] = Left(3)
    BY <2>1, <1>7, <1>t, LeftTails DEF Exec, Step
  <2> QED
    BY <2>2, <2>3 DEF Restarting
<1>8. CASE job[s] = Left(3) /\ SomeUp
  <2>1. Sleep(s)
    BY <1>8, LeftTails DEF Command, Modprobe, Rmmod, Spawn, Exec, Term, Runs
  <2>2. job'[s] = Left(4) /\ SomeUp'
    BY <2>1, <1>8, <1>t, LeftTails DEF Sleep, Step, SomeUp
  <2> QED
    BY <2>2 DEF Restarting
<1>9. job[s] # Left(4)
  BY <1>1 DEF Left
<1> QED
  BY <1>3, <1>4, <1>5, <1>6, <1>7, <1>8, <1>9 DEF Restarting

LEMMA RestartStep ==
    ASSUME AutoStart, TypeOK, RestartInv, [Next]_vars
    PROVE  RestartInv'
<1> SUFFICES ASSUME NEW s \in Shells, Restarts(s)', ~hampered'[s] PROVE Restarting(s)'
  BY DEF RestartInv
<1>t. /\ s \in Procs /\ s # Rc /\ job \in [Procs -> Seq(Commands)]
      /\ doing \in [Shells -> (Services \cup {Agent}) \X {"start", "stop", "restart"}]
      /\ agent \in [Agents -> {"none", "up", "dying"}]
      /\ hampered \in [Shells -> BOOLEAN]
  BY ServicesAssumption DEF TypeOK, Procs
<1>1. ASSUME NEW p \in Procs, Command(p) PROVE Restarting(s)'
  <2>1. Restarts(s)
    BY <1>1 DEF Restarts, Command, Modprobe, Rmmod, Spawn, Exec, Term, Sleep
  <2>2. CASE p = s
    BY <2>1, <2>2, <1>1, RestartOwn DEF RestartInv
  <2>3. CASE p # s
    <3>1. /\ ~hampered[s] /\ job'[s] = job[s]
          /\ NoDying => NoDying'
          /\ SomeUp => SomeUp'
      BY <2>1, <2>3, <1>1, RestartOther
    <3> QED
      BY <2>1, <3>1 DEF RestartInv, Restarting
  <2> QED
    BY <2>2, <2>3
<1>2. CASE RcStart \/ BootDone \/ Shutdown \/ RcStop
  <2>1. UNCHANGED <<doing, agent, hampered>>
    BY <1>2 DEF RcStart, BootDone, Shutdown, RcStop, history
  <2>2. job'[s] = job[s]
    BY <1>2, <1>t DEF RcStart, BootDone, Shutdown, RcStop
  <2> QED
    BY <2>1, <2>2 DEF RestartInv, Restarts, Restarting, NoDying, SomeUp
<1>3. CASE Reboot
  <2>1. doing'[s] = <<Agent, "stop">>
    BY <1>3 DEF Reboot, Booted
  <2> QED
    BY <2>1 DEF Restarts
<1>4. ASSUME NEW sh \in Shells, RunScript(sh) PROVE Restarting(s)'
  <2>1. PICK v \in Services \cup {Agent}, verb \in {"start", "stop", "restart"} :
          /\ doing' = [doing EXCEPT ![sh] = <<v, verb>>]
          /\ verb = "restart" => job' = [job EXCEPT ![sh] = restart[v]]
    BY <1>4 DEF RunScript
  <2>2. CASE sh = s
    <3>1. v = Agent /\ verb = "restart"
      BY <2>1, <2>2, <1>t DEF Restarts
    <3>2. job'[s] = Left(0)
      BY <2>1, <2>2, <3>1, <1>t, RestartJob
    <3> QED
      BY <3>2 DEF Restarting
  <2>3. CASE sh # s
    <3>1. UNCHANGED agent /\ doing'[s] = doing[s] /\ hampered'[s] = hampered[s]
      BY <1>4, <2>1, <2>3, <1>t DEF RunScript, Given
    <3>2. job'[s] = job[s]
      BY <1>4, <2>3, <1>t DEF RunScript
    <3> QED
      BY <3>1, <3>2 DEF RestartInv, Restarts, Restarting, NoDying, SomeUp
  <2> QED
    BY <2>2, <2>3
<1>5. ASSUME NEW sh \in Shells, StartByHand(sh) PROVE Restarting(s)'
  <2>1. CASE sh = s
    <3>1. doing'[s] = <<Agent, "start">>
      BY <1>5, <2>1, <1>t DEF StartByHand
    <3> QED
      BY <3>1 DEF Restarts
  <2>2. CASE sh # s
    <3>1. /\ UNCHANGED agent /\ doing'[s] = doing[s] /\ hampered'[s] = hampered[s]
          /\ job'[s] = job[s]
      BY <1>5, <2>2, <1>t DEF StartByHand, Given
    <3> QED
      BY <3>1 DEF RestartInv, Restarts, Restarting, NoDying, SomeUp
  <2> QED
    BY <2>1, <2>2
<1>6. ASSUME NEW a \in Agents, NEW m \in Modules, OpenDevice(a, m) PROVE Restarting(s)'
  BY <1>6 DEF OpenDevice, RestartInv, Restarts, Restarting, NoDying, SomeUp, history
<1>7. ASSUME NEW a \in Agents, End(a) PROVE Restarting(s)'
  <2>1. (SomeUp => SomeUp') /\ (NoDying => NoDying')
    BY <1>7, <1>t DEF End, SomeUp, NoDying
  <2>2. UNCHANGED <<job, doing, hampered>>
    BY <1>7 DEF End, history
  <2> QED
    BY <2>1, <2>2 DEF RestartInv, Restarts, Restarting
<1>8. CASE UNCHANGED vars
  BY <1>8 DEF vars, history, RestartInv, Restarts, Restarting, NoDying, SomeUp
<1> QED
  BY <1>1, <1>2, <1>3, <1>4, <1>5, <1>6, <1>7, <1>8 DEF Next

\* When "S90agent restart" is over, an agent is up, unless the second between stop and
\* start was too short for the old agent or another process signalled one: whatever
\* else any number of shells, rcS and rcK do meanwhile.
THEOREM RestartWorks == Spec => []RestartLeavesAgent
<1>1. CASE AutoStart
  <2>1. Init => RestartInv
    BY DEF Init, RestartInv, Restarts
  <2>2. TypeOK /\ RestartInv /\ [Next]_vars => RestartInv'
    BY <1>1, RestartStep
  <2>3. RestartInv => RestartLeavesAgent
    <3> SUFFICES ASSUME RestartInv, NEW s \in Shells, Idle(s), Restarts(s), ~hampered[s]
                 PROVE  SomeUp
      BY DEF RestartLeavesAgent, SomeUp
    <3>1. Restarting(s) /\ job[s] = <<>>
      BY DEF RestartInv, Idle
    <3> QED
      BY <3>1, LeftTails DEF Restarting, Left, Starting
  <2> QED
    BY <2>1, <2>2, <2>3, TypeCorrect, PTL DEF Spec
<1>2. CASE ~AutoStart
  <2>1. RestartLeavesAgent
    BY <1>2 DEF RestartLeavesAgent
  <2> QED
    BY <2>1, PTL
<1> QED
  BY <1>1, <1>2

-----------------------------------------------------------------------------
\* Every driver that a start or restart is to load is loaded or excused, with no rmmod
\* left to run, or its modprobe is yet to come; and no rmmod comes after a modprobe.
ToLoad(s, m) == \E k \in 1..Len(job[s]) : job[s][k] = On("modprobe", m)
Ordered(s)   == \A k, l \in 1..Len(job[s]) :
                    k < l /\ job[s][k].do = "modprobe" => job[s][l].do # "rmmod"
Coming(s, v) ==
    /\ Ordered(s)
    /\ \A i \in 1..Len(Load[v]) :
          \/ ToLoad(s, Load[v][i])
          \/ Load[v][i] \in loaded \cup excused[s] /\ ~May(s, "rmmod")
DriversInv ==
    \A s \in Shells, v \in Services :
        doing[s] \in {<<v, "start">>, <<v, "restart">>} => Coming(s, v)

\* What a start, and what a restart, has to do for a driver service.
LEMMA DriverScripts ==
    ASSUME NEW v \in Services
    PROVE  /\ start[v] \in Seq(Commands) /\ Len(start[v]) = Len(Load[v])
           /\ \A i \in 1..Len(Load[v]) : start[v][i] = On("modprobe", Load[v][i])
           /\ \A i \in 1..Len(Load[v]) :
                \E k \in 1..Len(restart[v]) : restart[v][k] = On("modprobe", Load[v][i])
           /\ \A k, l \in 1..Len(start[v]) : start[v][l].do # "rmmod"
           /\ \A k, l \in 1..Len(restart[v]) :
                k < l /\ restart[v][k].do = "modprobe" => restart[v][l].do # "rmmod"
<1>1. start[v] = Each("modprobe", Load[v]) /\ Load[v] \in Seq(Modules)
  BY ServicesAssumption DEF start
<1>2. /\ start[v] \in Seq(Commands) /\ Len(start[v]) = Len(Load[v])
      /\ \A i \in 1..Len(Load[v]) : start[v][i] = On("modprobe", Load[v][i])
  BY <1>1, EachType
<1>3. v \in Services \cup {Agent} /\ Len(stop[v]) \in Nat /\ Len(start[v]) \in Nat
  BY ScriptsType
<1>4. ASSUME NEW i \in 1..Len(Load[v])
      PROVE  \E k \in 1..Len(restart[v]) : restart[v][k] = On("modprobe", Load[v][i])
  <2> DEFINE k == Len(stop[v]) + 1 + i
  <2>1. k \in 1..Len(restart[v]) /\ k - (Len(stop[v]) + 1) = i
    <3> DEFINE x == Len(stop[v])
    <3> DEFINE y == Len(start[v])
    <3> DEFINE z == Len(restart[v])
    <3>1. x \in Nat /\ y \in Nat /\ z = x + 1 + y /\ i \in 1..y
      BY <1>2, <1>3, RestartShape
    <3> HIDE DEF x, y, z
    <3>2. x + 1 + i \in 1..z /\ x + 1 + i - (x + 1) = i
      BY <3>1
    <3> QED
      BY <3>2 DEF x, y, z
  <2>2. restart[v][k] = start[v][i]
    <3>1. k - (Len(stop[v]) + 1) \in 1..Len(start[v])
      BY <2>1, <1>2
    <3>2. restart[v][k] = start[v][k - (Len(stop[v]) + 1)]
      BY <2>1, <3>1, <1>3, RestartShape
    <3> QED
      BY <2>1, <3>2
  <2> QED
    BY <2>1, <2>2, <1>2
<1>5. \A l \in 1..Len(start[v]) : start[v][l].do # "rmmod"
  BY <1>3, ScriptCommands
<1>6. ASSUME NEW k \in 1..Len(restart[v]), NEW l \in 1..Len(restart[v]),
             k < l, restart[v][k].do = "modprobe"
      PROVE  restart[v][l].do # "rmmod"
  <2>1. k \notin 1..Len(stop[v])
    BY <1>3, <1>6, RestartShape, ScriptCommands, ZenonT(40)
  <2>2. l # Len(stop[v]) + 1 /\ l \notin 1..Len(stop[v])
    BY <2>1, <1>3, <1>6
  <2>3. l - (Len(stop[v]) + 1) \in 1..Len(start[v])
    BY <2>2, <1>3, RestartShape
  <2>4. restart[v][l] = start[v][l - (Len(stop[v]) + 1)]
    BY <2>3, <1>3, RestartShape
  <2> QED
    BY <2>3, <2>4, <1>5
<1> QED
  BY <1>2, <1>4, <1>5, <1>6

\* A command of the script itself: what it is to load comes nearer, or is there.
LEMMA DriversOwn ==
    ASSUME TypeOK, TypeOK', NEW s \in Shells, NEW v \in Services, Command(s), Coming(s, v)
    PROVE  Coming(s, v)'
<1>t. s \in Procs /\ job \in [Procs -> Seq(Commands)] /\ job'[s] \in Seq(Commands)
  BY DEF TypeOK, Procs
<1>1. job[s] # <<>>
  BY DEF Command, Modprobe, Rmmod, Spawn, Exec, Term, Sleep, Runs
<1>2. /\ job[s] \in Seq(Commands) /\ 1 \in 1..Len(job[s])
      /\ Head(job[s]) = job[s][1] /\ Len(job[s]) \in Nat /\ Len(job'[s]) \in Nat
  BY <1>1, <1>t
<1>3. CASE Step(s)
  <2>1. /\ Len(job'[s]) = Len(job[s]) - 1
        /\ \A i \in 1..Len(job'[s]) : job'[s][i] = job[s][i + 1]
    BY <1>1, <1>3, <1>t, StepJob
  <2>2. \A i \in 1..Len(job'[s]) : i + 1 \in 1..Len(job[s]) /\ 1 < i + 1
    BY <2>1, <1>2
  <2>3. Ordered(s)'
    <3>1. ASSUME NEW k \in 1..Len(job'[s]), NEW l \in 1..Len(job'[s]), k < l,
                 job'[s][k].do = "modprobe"
          PROVE  job'[s][l].do # "rmmod"
      <4>1. k + 1 < l + 1
        BY <3>1
      <4> QED
        BY <3>1, <4>1, <2>1, <2>2 DEF Ordered, Coming
    <3> QED
      BY <3>1 DEF Ordered
  <2>4. May(s, "rmmod")' => May(s, "rmmod")
    BY <2>1, <2>2 DEF May
  <2>5. \A m : ToLoad(s, m) => ToLoad(s, m)' \/ job[s][1] = On("modprobe", m)
    <3>1. ASSUME NEW m, NEW k \in 1..Len(job[s]), job[s][k] = On("modprobe", m), k # 1
          PROVE  ToLoad(s, m)'
      <4>1. k - 1 \in 1..Len(job'[s]) /\ (k - 1) + 1 = k
        BY <3>1, <2>1, <1>2
      <4>2. job'[s][k - 1] = On("modprobe", m)
        BY <4>1, <3>1, <2>1
      <4> QED
        BY <4>1, <4>2 DEF ToLoad
    <3> QED
      BY <3>1 DEF ToLoad
  <2>6. CASE Modprobe(s)
    <3>1. /\ loaded \cup excused[s] \cup {Arg(s)} \subseteq loaded' \cup excused'[s]
          /\ job[s][1].do = "modprobe"
      BY <2>6, <1>2 DEF Modprobe, Runs
    <3>2. ~May(s, "rmmod")'
      BY <3>1, <2>1, <2>2, <1>2 DEF May, Ordered, Coming
    <3>3. \A m : job[s][1] = On("modprobe", m) => m \in loaded' \cup excused'[s]
      BY <3>1, <1>2 DEF Arg, On
    <3> QED
      BY <3>1, <3>2, <3>3, <2>3, <2>5 DEF Coming
  <2>7. CASE ~Modprobe(s)
    <3>1. job[s][1].do # "modprobe"
      BY <2>7, <1>2 DEF Command, Modprobe, Rmmod, Spawn, Exec, Term, Sleep, Runs
    <3>2. \A m : job[s][1] # On("modprobe", m)
      BY <3>1 DEF On
    <3>3. UNCHANGED <<loaded, excused>> \/ May(s, "rmmod")
      BY <2>7, <1>2 DEF Command, Rmmod, Spawn, Exec, Term, Sleep, Runs, May, history
    <3> QED
      BY <3>2, <3>3, <2>3, <2>4, <2>5 DEF Coming
  <2> QED
    BY <2>6, <2>7
<1>4. CASE ~Step(s)
  <2>1. /\ job' = [job EXCEPT ![s] = [job[s] EXCEPT ![1] = Do("exec")]]
        /\ job[s][1].do = "spawn" /\ UNCHANGED <<loaded, excused>>
    BY <1>2, <1>4 DEF Command, Modprobe, Rmmod, Spawn, Exec, Term, Sleep, Runs
  <2>2. /\ Len(job'[s]) = Len(job[s]) /\ job'[s][1] = Do("exec")
        /\ \A i \in 1..Len(job[s]) : i # 1 => job'[s][i] = job[s][i]
    BY <2>1, <1>2, <1>t
  <2>3. job'[s][1].do = "exec"
    BY <2>2 DEF Do
  <2>4. Ordered(s)'
    BY <2>1, <2>2, <2>3 DEF Ordered, Coming
  <2>5. May(s, "rmmod")' => May(s, "rmmod")
    BY <2>2, <2>3 DEF May
  <2>6. \A m : job[s][1] # On("modprobe", m)
    BY <2>1 DEF On
  <2>7. \A m : ToLoad(s, m) => ToLoad(s, m)'
    BY <2>2, <2>6 DEF ToLoad
  <2> QED
    BY <2>1, <2>4, <2>5, <2>7 DEF Coming
<1> QED
  BY <1>3, <1>4

\* A command of another process leaves the script as it is; what it unloads is excused.
LEMMA DriversOther ==
    ASSUME TypeOK, NEW s \in Shells, NEW v \in Services, NEW p \in Procs \ {s}, Command(p),
           doing[s] \in {<<v, "start">>, <<v, "restart">>}, Coming(s, v)
    PROVE  Coming(s, v)'
<1>1. s \in Procs /\ job \in [Procs -> Seq(Commands)]
  BY DEF TypeOK, Procs
<1>2. job'[s] = job[s]
  BY <1>1 DEF Command, Modprobe, Rmmod, Spawn, Exec, Term, Sleep, Step
<1>3. loaded \cup excused[s] \subseteq loaded' \cup excused'[s]
  <2>1. CASE Modprobe(p)
    BY <2>1 DEF Modprobe
  <2>2. CASE Rmmod(p)
    <3>1. Drives(s)
      BY DEF Drives
    <3> QED
      BY <2>2, <3>1 DEF Rmmod, Unloaded
  <2>3. CASE Spawn(p) \/ Exec(p) \/ Term(p) \/ Sleep(p)
    BY <2>3 DEF Spawn, Exec, Term, Sleep, history
  <2> QED
    BY <2>1, <2>2, <2>3 DEF Command
<1> QED
  BY <1>2, <1>3 DEF Coming, Ordered, ToLoad, May

LEMMA DriversStep ==
    ASSUME TypeOK, DriversInv, [Next]_vars
    PROVE  DriversInv'
<1> SUFFICES ASSUME NEW s \in Shells, NEW v \in Services,
                    doing'[s] \in {<<v, "start">>, <<v, "restart">>}
             PROVE  Coming(s, v)'
  BY DEF DriversInv
<1>t. /\ s \in Procs /\ s # Rc /\ job \in [Procs -> Seq(Commands)]
      /\ doing \in [Shells -> (Services \cup {Agent}) \X {"start", "stop", "restart"}]
      /\ excused \in [Shells -> SUBSET Modules]
      /\ TypeOK'
  BY TypeStep, ServicesAssumption DEF TypeOK, Procs
<1>1. ASSUME NEW p \in Procs, Command(p) PROVE Coming(s, v)'
  <2>1. doing' = doing
    BY <1>1 DEF Command, Modprobe, Rmmod, Spawn, Exec, Term, Sleep
  <2>2. Coming(s, v) /\ doing[s] \in {<<v, "start">>, <<v, "restart">>}
    BY <2>1 DEF DriversInv
  <2>3. CASE p = s
    BY <2>2, <2>3, <1>1, <1>t, DriversOwn
  <2>4. CASE p # s
    BY <2>2, <2>4, <1>1, DriversOther
  <2> QED
    BY <2>3, <2>4
<1>2. CASE RcStart \/ BootDone \/ Shutdown \/ RcStop
  <2>1. UNCHANGED <<doing, loaded, excused>>
    BY <1>2 DEF RcStart, BootDone, Shutdown, RcStop, history
  <2>2. job'[s] = job[s]
    BY <1>2, <1>t DEF RcStart, BootDone, Shutdown, RcStop
  <2> QED
    BY <2>1, <2>2 DEF DriversInv, Coming, Ordered, ToLoad, May
<1>3. CASE Reboot
  <2>1. doing'[s] = <<Agent, "stop">>
    BY <1>3 DEF Reboot, Booted
  <2> QED
    BY <2>1
<1>4. ASSUME NEW sh \in Shells, RunScript(sh) \/ StartByHand(sh), sh # s
      PROVE  Coming(s, v)'
  <2>1. UNCHANGED loaded /\ excused'[s] = excused[s] /\ doing'[s] = doing[s]
    BY <1>4, <1>t DEF RunScript, StartByHand, Given
  <2>2. job'[s] = job[s]
    BY <1>4, <1>t DEF RunScript, StartByHand
  <2> QED
    BY <2>1, <2>2 DEF DriversInv, Coming, Ordered, ToLoad, May
<1>5. ASSUME RunScript(s) PROVE Coming(s, v)'
  <2>1. PICK w \in Services \cup {Agent}, verb \in {"start", "stop", "restart"} :
          /\ doing' = [doing EXCEPT ![s] = <<w, verb>>]
          /\ verb = "start" => job' = [job EXCEPT ![s] = start[w]]
          /\ verb = "restart" => job' = [job EXCEPT ![s] = restart[w]]
    BY <1>5 DEF RunScript
  <2>2. w = v /\ verb \in {"start", "restart"}
    BY <2>1, <1>t
  <2>3. job'[s] = start[v] \/ job'[s] = restart[v]
    BY <2>1, <2>2, <1>t
  <2>4. CASE job'[s] = start[v]
    <3>1. Ordered(s)'
      BY <2>4, DriverScripts DEF Ordered
    <3>2. \A i \in 1..Len(Load[v]) : ToLoad(s, Load[v][i])'
      BY <2>4, DriverScripts DEF ToLoad
    <3> QED
      BY <3>1, <3>2 DEF Coming
  <2>5. CASE job'[s] = restart[v]
    <3>1. Ordered(s)'
      BY <2>5, DriverScripts DEF Ordered
    <3>2. \A i \in 1..Len(Load[v]) : ToLoad(s, Load[v][i])'
      BY <2>5, DriverScripts DEF ToLoad
    <3> QED
      BY <3>1, <3>2 DEF Coming
  <2> QED
    BY <2>3, <2>4, <2>5
<1>6. ASSUME StartByHand(s) PROVE Coming(s, v)'
  <2>1. doing' = [doing EXCEPT ![s] = <<Agent, "start">>]
    BY <1>6 DEF StartByHand
  <2> QED
    BY <2>1, <1>t, ServicesAssumption
<1>7. CASE (\E a \in Agents : End(a) \/ \E m \in Modules : OpenDevice(a, m)) \/ UNCHANGED vars
  <2>1. UNCHANGED <<job, doing, loaded, excused>>
    BY <1>7 DEF End, OpenDevice, vars, history
  <2> QED
    BY <2>1 DEF DriversInv, Coming, Ordered, ToLoad, May
<1> QED
  BY <1>1, <1>2, <1>3, <1>4, <1>5, <1>6, <1>7 DEF Next

\* After the start or restart of a driver service its drivers are loaded, whatever the
\* stop before it could not unload, but for those whose modprobe failed or which
\* another process, of any number, has unloaded.
THEOREM DriversReturn == Spec => []DriversBack
<1>1. Init => DriversInv
  BY ServicesAssumption DEF Init, DriversInv
<1>2. TypeOK /\ DriversInv /\ [Next]_vars => DriversInv'
  BY DriversStep
<1>3. DriversInv => DriversBack
  BY DEF DriversInv, DriversBack, Coming, Idle, ToLoad
<1> QED
  BY <1>1, <1>2, <1>3, TypeCorrect, PTL DEF Spec

-----------------------------------------------------------------------------
\* The modules that rcK unloads.
Unloads(cmds, m) == \E i \in 1..Len(cmds) : cmds[i] = On("rmmod", m)
Removed == {m \in Modules : \E k \in 1..Len(Order) : Unloads(stop[Order[k]], m)}

\* The scripts' orders fit the modules, as those of the boards with a trampoline do
\* (MCServices): rcK unloads all that is ever loaded, a module before those that it
\* needs, and the agent's modules need no others.
OrderlyUnload ==
    /\ \A v \in Services : \A i \in 1..Len(Load[v]) :
          {Load[v][i]} \cup Deps[Load[v][i]] \subseteq Removed
    /\ \A k \in 1..Len(Order) : \A i \in 1..Len(stop[Order[k]]) : \A m, n \in Modules :
          stop[Order[k]][i] = On("rmmod", m) /\ m \in Deps[n] =>
             /\ \A j \in i..Len(stop[Order[k]]) : stop[Order[k]][j] # On("rmmod", n)
             /\ \A l \in 1..k - 1 : ~Unloads(stop[Order[l]], n)
    /\ \A n \in Uses : Deps[n] \subseteq Uses

\* rcK works through the stop scripts: what is loaded it will unload, or the agent had it
\* open, or needed by what the agent had open.
ToUnload(m) == \/ Unloads(job[Rc], m)
               \/ \E k \in 1..turn : Unloads(stop[Order[k]], m)

\* What init has yet to run of the script it stops.
Stopping ==
    \/ job[Rc] = <<>>
    \/ /\ turn < Len(Order)
       /\ \E d \in Nat : \A i \in 1..Len(job[Rc]) :
             /\ i + d \in 1..Len(stop[Order[turn + 1]])
             /\ job[Rc][i] = stop[Order[turn + 1]][i + d]

Kept(m) == hindered /\ m \in Uses

\* A command loads nothing that rcK does not unload.
Loads(c) == c.do = "modprobe" => {c.on} \cup Deps[c.on] \subseteq Removed

DownInv ==
    /\ loaded \subseteq Removed
    /\ \A p \in Procs : \A i \in 1..Len(job[p]) : Loads(job[p][i])
    /\ phase = "up" => Idle(Rc) /\ turn = Len(Order)
    /\ phase = "down" => Stopping
    /\ phase = "down" /\ quiet => /\ \A s \in Shells : Idle(s)
                                  /\ \A m \in loaded : ToUnload(m) \/ Kept(m)

\* What the scripts load.
LEMMA ScriptsLoad ==
    ASSUME OrderlyUnload, NEW v \in Services \cup {Agent}
    PROVE  /\ \A i \in 1..Len(start[v]) : Loads(start[v][i])
           /\ \A i \in 1..Len(stop[v]) : Loads(stop[v][i])
           /\ \A i \in 1..Len(restart[v]) : Loads(restart[v][i])
<1>1. ASSUME NEW i \in 1..Len(start[v]) PROVE Loads(start[v][i])
  <2>1. CASE v = Agent
    <3>1. start[v] = <<>> \/ start[v] = <<Do("spawn"), Do("sleep")>>
      BY <2>1 DEF start
    <3>2. start[v][i].do \in {"spawn", "sleep"}
      BY <3>1, <1>1 DEF Do
    <3> QED
      BY <3>2 DEF Loads
  <2>2. CASE v \in Services
    <3>1. i \in 1..Len(Load[v]) /\ start[v][i] = On("modprobe", Load[v][i])
      BY <2>2, <1>1, DriverScripts
    <3> QED
      BY <3>1, <2>2 DEF OrderlyUnload, Loads, On
  <2> QED
    BY <2>1, <2>2
<1>2. ASSUME NEW i \in 1..Len(stop[v]) PROVE Loads(stop[v][i])
  BY <1>2, ScriptCommands DEF Loads
<1>3. ASSUME NEW i \in 1..Len(restart[v]) PROVE Loads(restart[v][i])
  <2>1. start[v] \in Seq(Commands) /\ stop[v] \in Seq(Commands)
    BY ScriptsType
  <2>2. \/ i \in 1..Len(stop[v])
        \/ i = Len(stop[v]) + 1
        \/ i - (Len(stop[v]) + 1) \in 1..Len(start[v])
    BY <1>3, <2>1, RestartShape
  <2>3. CASE i \in 1..Len(stop[v])
    BY <2>3, <1>2, RestartShape
  <2>4. CASE i = Len(stop[v]) + 1
    BY <2>4, RestartShape DEF Loads
  <2>5. CASE i - (Len(stop[v]) + 1) \in 1..Len(start[v])
    BY <2>5, <1>1, <1>3, RestartShape
  <2> QED
    BY <2>2, <2>3, <2>4, <2>5
<1> QED
  BY <1>1, <1>2, <1>3

\* After a command of init, its script is one command further.
LEMMA StoppingStep ==
    ASSUME TypeOK, Stopping, job[Rc] # <<>>, Step(Rc), UNCHANGED turn
    PROVE  Stopping'
<1>1. /\ Len(job'[Rc]) = Len(job[Rc]) - 1
      /\ \A i \in 1..Len(job'[Rc]) : job'[Rc][i] = job[Rc][i + 1]
  BY StepJob DEF Procs
<1>2. job[Rc] \in Seq(Commands)
  BY DEF TypeOK, Procs
<1>3. PICK d \in Nat : \A i \in 1..Len(job[Rc]) :
             /\ i + d \in 1..Len(stop[Order[turn + 1]])
             /\ job[Rc][i] = stop[Order[turn + 1]][i + d]
  BY DEF Stopping
<1>4. \A i \in 1..Len(job'[Rc]) :
             /\ i + (d + 1) \in 1..Len(stop[Order[turn + 1]])
             /\ job'[Rc][i] = stop[Order[turn + 1]][i + (d + 1)]
  <2> SUFFICES ASSUME NEW i \in 1..Len(job'[Rc])
               PROVE  /\ i + (d + 1) \in 1..Len(stop[Order[turn + 1]])
                      /\ job'[Rc][i] = stop[Order[turn + 1]][i + (d + 1)]
    OBVIOUS
  <2>1. i + 1 \in 1..Len(job[Rc]) /\ i + (d + 1) = (i + 1) + d
    BY <1>1, <1>2
  <2> QED
    BY <2>1, <1>1, <1>3
<1>5. turn' < Len(Order)
  BY DEF Stopping
<1>6. d + 1 \in Nat
  OBVIOUS
<1> QED
  BY <1>4, <1>5, <1>6 DEF Stopping

\* What init unloads now is needed by nothing that it has yet to unload.
LEMMA UsersFirst ==
    ASSUME OrderlyUnload, TypeOK, Stopping, NEW m \in Modules, NEW n \in Modules,
           job[Rc] # <<>>, Head(job[Rc]) = On("rmmod", m), m \in Deps[n]
    PROVE  ~ToUnload(n)
<1> DEFINE k == turn + 1
<1>1. job[Rc] \in Seq(Commands) /\ turn \in 0..Len(Order) /\ Len(Order) \in Nat
  BY ServicesAssumption DEF TypeOK, Procs
<1>2. turn < Len(Order) /\ k \in 1..Len(Order)
  BY <1>1 DEF Stopping
<1>3. PICK d \in Nat : \A i \in 1..Len(job[Rc]) :
             /\ i + d \in 1..Len(stop[Order[k]])
             /\ job[Rc][i] = stop[Order[k]][i + d]
  BY DEF Stopping
<1>4. 1 \in 1..Len(job[Rc]) /\ Head(job[Rc]) = job[Rc][1]
  BY <1>1
<1>5. 1 + d \in 1..Len(stop[Order[k]]) /\ stop[Order[k]][1 + d] = On("rmmod", m)
  BY <1>3, <1>4
<1>6. /\ \A j \in 1 + d..Len(stop[Order[k]]) : stop[Order[k]][j] # On("rmmod", n)
      /\ \A l \in 1..k - 1 : ~Unloads(stop[Order[l]], n)
  BY <1>2, <1>5 DEF OrderlyUnload
<1>7. ASSUME NEW i \in 1..Len(job[Rc]) PROVE job[Rc][i] # On("rmmod", n)
  <2>1. i + d \in 1 + d..Len(stop[Order[k]])
    BY <1>3, <1>1
  <2> QED
    BY <2>1, <1>3, <1>6
<1>8. k - 1 = turn
  BY <1>1
<1> QED
  BY <1>6, <1>7, <1>8 DEF ToUnload, Unloads

\* A command of a process leaves all other commands to be run.
LEMMA CommandStep ==
    ASSUME OrderlyUnload, TypeOK, DownInv, NEW p \in Procs, job[p] # <<>>, Step(p),
           UNCHANGED <<phase, turn>>
    PROVE  /\ \A q \in Procs : \A i \in 1..Len(job'[q]) : Loads(job'[q][i])
           /\ phase = "up" => Idle(Rc)' /\ turn = Len(Order)
           /\ phase = "down" => Stopping'
           /\ phase = "down" /\ quiet => p = Rc /\ \A s \in Shells : Idle(s)'
<1>1. /\ \A q \in Procs \ {p} : job'[q] = job[q]
      /\ Len(job'[p]) = Len(job[p]) - 1
      /\ \A i \in 1..Len(job'[p]) : job'[p][i] = job[p][i + 1]
  BY StepJob
<1>2. job[p] \in Seq(Commands)
  BY DEF TypeOK
<1>3. ASSUME NEW q \in Procs, NEW i \in 1..Len(job'[q]) PROVE Loads(job'[q][i])
  <2>1. CASE q = p
    <3>1. i + 1 \in 1..Len(job[p]) /\ job'[p][i] = job[p][i + 1]
      BY <2>1, <1>1, <1>2
    <3> QED
      BY <3>1, <2>1 DEF DownInv
  <2>2. CASE q # p
    BY <2>2, <1>1 DEF DownInv
  <2> QED
    BY <2>1, <2>2
<1>4. phase = "up" => Idle(Rc)' /\ turn = Len(Order)
  BY <1>1 DEF DownInv, Idle, Procs
<1>5. ASSUME phase = "down" PROVE Stopping'
  <2>1. CASE p = Rc
    BY <2>1, <1>5, StoppingStep DEF DownInv
  <2>2. CASE p # Rc
    <3>1. job'[Rc] = job[Rc] /\ turn' = turn
      BY <2>2, <1>1 DEF Procs
    <3> QED
      BY <3>1, <1>5 DEF DownInv, Stopping
  <2> QED
    BY <2>1, <2>2
<1>6. ASSUME phase = "down", quiet PROVE p = Rc /\ \A s \in Shells : Idle(s)'
  <2>1. \A s \in Shells : Idle(s)
    BY <1>6 DEF DownInv
  <2>2. p = Rc
    BY <2>1 DEF Idle, Procs
  <2>3. \A s \in Shells : s \in Procs \ {p}
    BY <2>2, ServicesAssumption DEF Procs
  <2> QED
    BY <2>1, <2>2, <2>3, <1>1 DEF Idle
<1> QED
  BY <1>3, <1>4, <1>5, <1>6

\* A command of init other than the one that unloads m leaves m to be unloaded.
LEMMA StillToUnload ==
    ASSUME TypeOK, NEW m, job[Rc] # <<>>, Step(Rc), UNCHANGED turn,
           Head(job[Rc]) # On("rmmod", m), ToUnload(m)
    PROVE  ToUnload(m)'
<1>1. /\ Len(job'[Rc]) = Len(job[Rc]) - 1
      /\ \A i \in 1..Len(job'[Rc]) : job'[Rc][i] = job[Rc][i + 1]
  BY StepJob DEF Procs
<1>2. job[Rc] \in Seq(Commands)
  BY DEF TypeOK, Procs
<1>3. ASSUME Unloads(job[Rc], m) PROVE Unloads(job'[Rc], m)
  <2>1. PICK i \in 1..Len(job[Rc]) : job[Rc][i] = On("rmmod", m)
    BY <1>3 DEF Unloads
  <2>2. i # 1
    BY <2>1, <1>2
  <2>3. i - 1 \in 1..Len(job'[Rc]) /\ job'[Rc][i - 1] = job[Rc][i]
    <3>1. i - 1 \in 1..Len(job'[Rc]) /\ (i - 1) + 1 = i
      BY <2>2, <1>1, <1>2
    <3> QED
      BY <3>1, <1>1
  <2> QED
    BY <2>1, <2>3 DEF Unloads
<1> QED
  BY <1>3 DEF ToUnload

LEMMA DownStep ==
    ASSUME OrderlyUnload, TypeOK, DownInv, [Next]_vars
    PROVE  DownInv'
<1>1. ASSUME NEW p \in Procs, Modprobe(p) PROVE DownInv'
  <2>1. job[p] # <<>> /\ Step(p) /\ UNCHANGED <<phase, turn, quiet, hindered>>
    BY <1>1 DEF Modprobe, Runs
  <2>2. Head(job[p]) = job[p][1] /\ 1 \in 1..Len(job[p])
    BY <2>1 DEF TypeOK
  <2>3. Loads(Head(job[p])) /\ Head(job[p]).do = "modprobe"
    BY <1>1, <2>2 DEF DownInv, Modprobe, Runs
  <2>4. loaded' \subseteq Removed
    <3>1. {Arg(p)} \cup Deps[Arg(p)] \subseteq Removed /\ loaded \subseteq Removed
      BY <2>3 DEF DownInv, Loads, Arg
    <3> QED
      BY <1>1, <3>1 DEF Modprobe
  <2>5. ~(phase = "down" /\ quiet)
    <3> SUFFICES ASSUME phase = "down", quiet PROVE FALSE
      OBVIOUS
    <3>1. p = Rc
      BY <2>1, CommandStep
    <3>2. Stopping /\ turn \in 0..Len(Order) /\ Order \in Seq(Services \cup {Agent})
      BY ServicesAssumption DEF DownInv, TypeOK
    <3>3. PICK d \in Nat : \A i \in 1..Len(job[Rc]) :
             /\ i + d \in 1..Len(stop[Order[turn + 1]])
             /\ job[Rc][i] = stop[Order[turn + 1]][i + d]
      BY <3>1, <3>2, <2>1 DEF Stopping
    <3>4. Order[turn + 1] \in Services \cup {Agent}
      BY <3>1, <3>2, <2>1 DEF Stopping
    <3>5. job[Rc][1].do \in {"rmmod", "term"}
      BY <3>1, <3>3, <3>4, <2>2, ScriptCommands
    <3> QED
      BY <3>1, <3>5, <2>2, <2>3
  <2> QED
    BY <2>1, <2>4, <2>5, CommandStep DEF DownInv
<1>2. ASSUME NEW p \in Procs, Rmmod(p) PROVE DownInv'
  <2> DEFINE x == Arg(p)
  <2>1. job[p] # <<>> /\ Step(p) /\ UNCHANGED <<phase, turn, quiet>>
    BY <1>2 DEF Rmmod, Runs
  <2>2. x \in Modules /\ Head(job[p]) = On("rmmod", x)
    <3>1. x \in Modules /\ Head(job[p]) \in Commands /\ Head(job[p]).do = "rmmod"
      BY <1>2, <2>1, ArgType, StepType DEF Rmmod, Runs
    <3> QED
      BY <3>1 DEF Commands, On, Arg
  <2>3. loaded' \subseteq loaded
    BY <1>2 DEF Rmmod
  <2>4. ASSUME phase = "down", quiet, NEW m \in loaded' PROVE ToUnload(m)' \/ Kept(m)'
    <3>1. p = Rc /\ (ToUnload(m) \/ Kept(m)) /\ m \in Modules
      BY <2>1, <2>3, <2>4, CommandStep DEF DownInv, TypeOK
    <3>2. CASE Kept(m)
      BY <3>2, <1>2 DEF Kept, Rmmod
    <3>3. CASE ToUnload(m) /\ m # x
      <4>1. On("rmmod", x) # On("rmmod", m)
        BY <3>3 DEF On
      <4>2. job[Rc] # <<>> /\ Step(Rc) /\ UNCHANGED turn /\ Head(job[Rc]) # On("rmmod", m)
        BY <4>1, <3>1, <2>1, <2>2
      <4> QED
        BY <4>2, <3>3, StillToUnload
    <3>4. CASE m = x
      <4>1. InUse(m)
        BY <3>4, <1>2, <2>4 DEF Rmmod
      <4>2. CASE Open(m)
        <5>1. PICK a \in Agents : m \in holds[a]
          BY <4>2 DEF Open
        <5>2. m \in Uses
          BY <5>1 DEF TypeOK
        <5> QED
          BY <5>2, <4>2, <3>1, <3>4, <1>2 DEF Rmmod, Kept
      <4>3. CASE \E n \in loaded : m \in Deps[n]
        <5>1. PICK n \in loaded : m \in Deps[n]
          BY <4>3
        <5>2. n \in Modules /\ Stopping
          BY <2>4 DEF TypeOK, DownInv
        <5>3. ~ToUnload(n)
          BY <5>1, <5>2, <3>1, <3>4, <2>1, <2>2, UsersFirst
        <5>4. Kept(n)
          BY <5>3, <2>4 DEF DownInv
        <5>5. m \in Uses
          BY <5>1, <5>4 DEF Kept, OrderlyUnload
        <5> QED
          BY <5>4, <5>5, <1>2 DEF Kept, Rmmod
      <4> QED
        BY <4>1, <4>2, <4>3 DEF InUse
    <3> QED
      BY <3>1, <3>2, <3>3, <3>4
  <2> QED
    BY <2>1, <2>3, <2>4, CommandStep DEF DownInv
<1>3. ASSUME NEW p \in Procs, Exec(p) \/ Term(p) \/ Sleep(p) PROVE DownInv'
  <2>1. job[p] # <<>> /\ Step(p) /\ UNCHANGED <<phase, turn, quiet, loaded, hindered>>
    BY <1>3 DEF Exec, Term, Sleep, Runs, history
  <2>2. Head(job[p]).do # "rmmod"
    BY <1>3 DEF Exec, Term, Sleep, Runs
  <2>3. ASSUME phase = "down", quiet, NEW m \in loaded' PROVE ToUnload(m)' \/ Kept(m)'
    <3>1. p = Rc /\ (ToUnload(m) \/ Kept(m)) /\ Head(job[p]) # On("rmmod", m)
      BY <2>1, <2>2, <2>3, CommandStep DEF DownInv, On
    <3> QED
      BY <3>1, <2>1, StillToUnload DEF Kept
  <2> QED
    BY <2>1, <2>3, CommandStep DEF DownInv
<1>4. ASSUME NEW p \in Procs, Spawn(p) PROVE DownInv'
  <2>1. job[p] # <<>> /\ UNCHANGED <<phase, turn, quiet, loaded, hindered>>
    BY <1>4 DEF Spawn, Runs
  <2>2. CASE Step(p)
    <3>1. Head(job[p]).do # "rmmod"
      BY <1>4 DEF Spawn, Runs
    <3>2. ASSUME phase = "down", quiet, NEW m \in loaded' PROVE ToUnload(m)' \/ Kept(m)'
      <4>1. p = Rc /\ (ToUnload(m) \/ Kept(m)) /\ Head(job[p]) # On("rmmod", m)
        BY <2>1, <2>2, <3>1, <3>2, CommandStep DEF DownInv, On
      <4> QED
        BY <4>1, <2>1, <2>2, StillToUnload DEF Kept
    <3> QED
      BY <2>1, <2>2, <3>2, CommandStep DEF DownInv
  <2>3. CASE job' = [job EXCEPT ![p][1] = Do("exec")]
    <3>1. job \in [Procs -> Seq(Commands)] /\ 1 \in 1..Len(job[p])
      BY <2>1 DEF TypeOK
    <3>2. /\ \A q \in Procs \ {p} : job'[q] = job[q]
          /\ job'[p] = [job[p] EXCEPT ![1] = Do("exec")]
      BY <3>1, <2>3
    <3>3. /\ Len(job'[p]) = Len(job[p]) /\ job'[p][1] = Do("exec")
          /\ \A i \in 2..Len(job[p]) : job'[p][i] = job[p][i]
      BY <3>1, <3>2
    <3>4. ASSUME NEW q \in Procs, NEW i \in 1..Len(job'[q]) PROVE Loads(job'[q][i])
      <4>1. CASE q = p /\ i = 1
        BY <4>1, <3>3 DEF Do, Loads
      <4>2. CASE q = p /\ i # 1
        <5>1. i \in 2..Len(job[p]) /\ i \in 1..Len(job[p])
          BY <4>2, <3>3, <3>1
        <5> QED
          BY <5>1, <4>2, <3>3 DEF DownInv
      <4>3. CASE q # p
        BY <4>3, <3>2 DEF DownInv
      <4> QED
        BY <4>1, <4>2, <4>3
    <3>5. phase \in {"up", "down"} => p # Rc
      <4>1. CASE phase = "up"
        BY <4>1, <2>1 DEF DownInv, Idle
      <4>2. CASE phase = "down"
        <5> SUFFICES ASSUME p = Rc PROVE FALSE
          OBVIOUS
        <5>1. Head(job[Rc]) = job[Rc][1] /\ Head(job[Rc]).do = "spawn"
          BY <1>4, <3>1 DEF Spawn, Runs
        <5>2. Stopping /\ turn \in 0..Len(Order) /\ Order \in Seq(Services \cup {Agent})
          BY <4>2, ServicesAssumption DEF DownInv, TypeOK
        <5>3. PICK d \in Nat : \A i \in 1..Len(job[Rc]) :
                 /\ i + d \in 1..Len(stop[Order[turn + 1]])
                 /\ job[Rc][i] = stop[Order[turn + 1]][i + d]
          BY <5>2, <2>1 DEF Stopping
        <5>4. Order[turn + 1] \in Services \cup {Agent}
          BY <5>2, <2>1 DEF Stopping
        <5>5. job[Rc][1].do \in {"rmmod", "term"}
          BY <5>3, <5>4, <3>1, ScriptCommands
        <5> QED
          BY <5>1, <5>5
      <4> QED
        BY <4>1, <4>2
    <3>6. ~(phase = "down" /\ quiet)
      BY <3>5, <2>1 DEF DownInv, Idle, Procs
    <3>7. phase \in {"up", "down"} => job'[Rc] = job[Rc]
      BY <3>5, <3>2 DEF Procs
    <3> QED
      BY <2>1, <3>4, <3>6, <3>7 DEF DownInv, Idle, Stopping
  <2> QED
    BY <2>2, <2>3, <1>4 DEF Spawn
<1>5. ASSUME RcStart PROVE DownInv'
  <2>1. /\ Order[turn + 1] \in Services \cup {Agent}
        /\ job' = [job EXCEPT ![Rc] = start[Order[turn + 1]]]
    BY <1>5, ServicesAssumption DEF RcStart, TypeOK
  <2>2. job \in [Procs -> Seq(Commands)] /\ Rc \in Procs
    BY DEF TypeOK, Procs
  <2>3. \A q \in Procs : \A i \in 1..Len(job'[q]) : Loads(job'[q][i])
    BY <2>1, <2>2, ScriptsLoad DEF DownInv
  <2> QED
    BY <1>5, <2>3 DEF RcStart, DownInv, history
<1>6. CASE BootDone
  BY <1>6 DEF BootDone, DownInv, Idle, history
<1>7. ASSUME Shutdown PROVE DownInv'
  <2>1. Idle(Rc) /\ turn = Len(Order) /\ UNCHANGED <<job, turn, loaded, hindered>>
    BY <1>7 DEF Shutdown, DownInv
  <2>2. \A m \in loaded : ToUnload(m)'
    BY <2>1 DEF DownInv, Removed, ToUnload
  <2> QED
    BY <1>7, <2>1, <2>2 DEF Shutdown, DownInv, Idle, Stopping
<1>8. ASSUME RcStop PROVE DownInv'
  <2>1. /\ turn \in 1..Len(Order) /\ Order[turn] \in Services \cup {Agent}
        /\ job[Rc] = <<>> /\ turn' = turn - 1 /\ phase = "down"
        /\ UNCHANGED <<phase, quiet, loaded, hindered>>
    BY <1>8, ServicesAssumption DEF RcStop, TypeOK, Idle, history
  <2>2. job \in [Procs -> Seq(Commands)] /\ Rc \in Procs
    BY DEF TypeOK, Procs
  <2>3. job'[Rc] = stop[Order[turn]] /\ \A s \in Procs \ {Rc} : job'[s] = job[s]
    BY <1>8, <2>2 DEF RcStop
  <2>4. \A q \in Procs : \A i \in 1..Len(job'[q]) : Loads(job'[q][i])
    BY <2>1, <2>3, ScriptsLoad DEF DownInv
  <2>5. Stopping'
    <3>1. turn' < Len(Order) /\ turn' + 1 = turn
      BY <2>1, ServicesAssumption
    <3>2. stop[Order[turn]] \in Seq(Commands)
      BY <2>1, ScriptsType
    <3>3. \A i \in 1..Len(job'[Rc]) :
             /\ i + 0 \in 1..Len(stop[Order[turn' + 1]])
             /\ job'[Rc][i] = stop[Order[turn' + 1]][i + 0]
      BY <3>1, <3>2, <2>3
    <3> QED
      BY <3>1, <3>3 DEF Stopping
  <2>6. ASSUME NEW m, ToUnload(m) PROVE ToUnload(m)'
    <3>1. ~Unloads(job[Rc], m)
      BY <2>1 DEF Unloads
    <3>2. PICK k \in 1..turn : Unloads(stop[Order[k]], m)
      BY <3>1, <2>6 DEF ToUnload
    <3>3. k = turn \/ k \in 1..turn'
      BY <2>1, <3>2
    <3> QED
      BY <3>2, <3>3, <2>3 DEF ToUnload
  <2>7. \A s \in Shells : Idle(s) => Idle(s)'
    BY <2>3, ServicesAssumption DEF Idle, Procs
  <2> QED
    BY <2>1, <2>4, <2>5, <2>6, <2>7 DEF DownInv, Kept
<1>9. CASE Reboot
  BY <1>9 DEF Reboot, Booted, DownInv
<1>10. ASSUME NEW s \in Shells, RunScript(s) \/ StartByHand(s) PROVE DownInv'
  <2>1. /\ UNCHANGED <<phase, turn, loaded>>
        /\ quiet' = (phase # "down")
    BY <1>10 DEF RunScript, StartByHand, Given
  <2>2. job \in [Procs -> Seq(Commands)] /\ s \in Procs /\ Rc \in Procs /\ s # Rc
    BY ServicesAssumption DEF TypeOK, Procs
  <2>3. PICK c : job' = [job EXCEPT ![s] = c] /\ \A i \in 1..Len(c) : Loads(c[i])
    <3>1. CASE RunScript(s)
      BY <3>1, ScriptsLoad DEF RunScript
    <3>2. CASE StartByHand(s)
      <4>1. \A i \in 1..Len(<<Do("exec")>>) : Loads(<<Do("exec")>>[i])
        BY DEF Do, Loads
      <4> QED
        BY <3>2, <4>1 DEF StartByHand
    <3> QED
      BY <1>10, <3>1, <3>2
  <2>4. job'[Rc] = job[Rc] /\ \A q \in Procs : \A i \in 1..Len(job'[q]) : Loads(job'[q][i])
    BY <2>2, <2>3 DEF DownInv
  <2> QED
    BY <2>1, <2>4 DEF DownInv, Idle, Stopping
<1>11. ASSUME NEW a \in Agents, NEW m \in Modules, OpenDevice(a, m) PROVE DownInv'
  BY <1>11 DEF OpenDevice, DownInv, Idle, Stopping, ToUnload, Kept, history
<1>12. CASE UNCHANGED vars
  BY <1>12 DEF vars, DownInv, Idle, Stopping, ToUnload, Kept, history
<1>13. ASSUME NEW a \in Agents, End(a) PROVE DownInv'
  BY <1>13 DEF End, DownInv, Idle, Stopping, ToUnload, Kept, history
<1> QED
  BY <1>1, <1>2, <1>3, <1>4, <1>5, <1>6, <1>7, <1>8, <1>9, <1>10, <1>11, <1>12, <1>13
     DEF Next, Command

\* rcK, if no shell interferes, leaves no module loaded but those that the agent has kept
\* open: for all scripts whose orders fit the modules, and however slowly the agent ends.
THEOREM NothingIsLeft == ASSUME OrderlyUnload PROVE Spec => []NothingLeftBehind
<1>1. Init => DownInv
  BY DEF Init, DownInv, Procs
<1>2. TypeOK /\ DownInv /\ [Next]_vars => DownInv'
  BY DownStep
<1>3. DownInv => NothingLeftBehind
  <2> SUFFICES ASSUME DownInv, phase = "down", Idle(Rc), turn = 0, quiet
               PROVE  loaded = {} \/ (hindered /\ loaded \subseteq Uses)
    BY DEF NothingLeftBehind
  <2>1. \A m \in loaded : ~ToUnload(m)
    BY DEF ToUnload, Unloads, Idle
  <2>2. \A m \in loaded : Kept(m)
    BY <2>1 DEF DownInv
  <2> QED
    BY <2>2 DEF Kept
<1> QED
  BY <1>1, <1>2, <1>3, TypeCorrect, PTL DEF Spec
=============================================================================
