------------------------------ MODULE Services ------------------------------
(***************************************************************************)
(* The service scripts of a switch: S69cpss-drivers, S70platform-drivers,  *)
(* S70prestera-swdev-drivers and S90agent.                                 *)
(*                                                                         *)
(* rcS runs them in this order with start, rcK in reverse with stop, and   *)
(* operators run any of them with start, stop or restart from their shells *)
(* (the console's and those of sshd, which is up before the first of       *)
(* them), also while rcS or rcK works.  They are sequences of commands     *)
(* whose failures are reported and ignored.  The commands do not wait for  *)
(* what they ask: a signalled agent takes its time to end, longer than the *)
(* second that restart gives it perhaps, and keeps drivers in use, which   *)
(* rmmod then refuses to unload; start-stop-daemon starts no agent as long *)
(* as it finds one, also one that is about to end, and it looks first and  *)
(* starts later.                                                           *)
(***************************************************************************)
EXTENDS Naturals, Sequences

CONSTANTS
    Rc,          \* init, as the process that runs rcS and rcK
    Shells,      \* the operators' shells
    Agents,      \* sw-agentd processes
    Modules,     \* the kernel modules the scripts load or unload
    Deps,        \* Deps[m]: the modules that m needs
    Uses,        \* the modules whose devices sw-agentd opens
    Load,        \* Load[s]: what driver service s loads, in order
    Unload,      \* Unload[s]: what it unloads, in order
    Order,       \* the services in the order of rcS
    AutoStart    \* the kernel command line lacks agentAutoStart=0

Procs == Shells \cup {Rc}

\* The commands of the scripts.  "exec" is the second half of "spawn".
Do(what)     == [do |-> what, on |-> Rc]
On(what, m)  == [do |-> what, on |-> m]
Commands     == [do : {"spawn", "exec", "sleep", "term"}, on : {Rc}]
                    \cup [do : {"modprobe", "rmmod"}, on : Modules]

Services == DOMAIN Load
Agent    == "agent"

ASSUME ServicesAssumption ==
    /\ Rc \notin Shells
    /\ Deps \in [Modules -> SUBSET Modules] /\ Uses \subseteq Modules
    /\ Agent \notin Services
    /\ Load \in [Services -> Seq(Modules)] /\ Unload \in [Services -> Seq(Modules)]
    /\ Order \in Seq(Services \cup {Agent})
    /\ AutoStart \in BOOLEAN

VARIABLES
    phase,    \* of init: rcS, up or rcK
    turn,     \* the services rcS has started, or rcK has not stopped yet
    job,      \* the commands each process has yet to run
    doing,    \* the script and the argument each shell was given last
    loaded,   \* the loaded kernel modules
    agent,    \* each sw-agentd process: none, up or dying
    holds,    \* the modules each of them has open
    quiet,    \* history: no shell has run a script since rcK began
    hindered, \* history: an rmmod of rcK was refused for the agent's sake
    raced,    \* history: of the processes that found no agent since the last
              \* one was gone, two were yet to start theirs at the same time
    hampered, \* history: since the shell was given the agent's restart, another
              \* process signalled an agent or a sleep of it was too short
    excused   \* history: of the drivers that the script of the shell loads, those
              \* whose modprobe failed or which another process has unloaded since

history == <<quiet, hindered, raced, hampered, excused>>
vars == <<phase, turn, job, doing, loaded, agent, holds, history>>

-----------------------------------------------------------------------------
(* The scripts.                                                            *)

Each(what, seq) == [i \in 1..Len(seq) |-> On(what, seq[i])]

start == [s \in Services \cup {Agent} |->
    IF s # Agent THEN Each("modprobe", Load[s])
    ELSE IF AutoStart THEN <<Do("spawn"), Do("sleep")>> ELSE <<>>]

\* Mutant of stop: the drivers are unloaded in the opposite order.
stopBackwards == [s \in Services \cup {Agent} |->
    IF s # Agent
    THEN [i \in 1..Len(Unload[s]) |-> On("rmmod", Unload[s][Len(Unload[s]) + 1 - i])]
    ELSE <<Do("term")>>]

stop == [s \in Services \cup {Agent} |->
    IF s # Agent THEN Each("rmmod", Unload[s]) ELSE <<Do("term")>>]

\* Mutant of restart: no time for the old one to end.
restartAtOnce == [s \in Services \cup {Agent} |-> stop[s] \o start[s]]

restart == [s \in Services \cup {Agent} |->
    stop[s] \o <<Do("sleep")>> \o start[s]]

-----------------------------------------------------------------------------
Idle(p)  == job[p] = <<>>
Alive(a) == agent[a] # "none"

Booted ==
    /\ phase' = "boot" /\ turn' = 0
    /\ job' = [p \in Procs |-> <<>>]
    /\ doing' = [s \in Shells |-> <<Agent, "stop">>]
    /\ loaded' = {} /\ agent' = [a \in Agents |-> "none"]
    /\ holds' = [a \in Agents |-> {}]
    /\ quiet' = TRUE /\ hindered' = FALSE /\ raced' = FALSE
    /\ hampered' = [s \in Shells |-> FALSE]
    /\ excused' = [s \in Shells |-> {}]

Init ==
    /\ phase = "boot" /\ turn = 0
    /\ job = [p \in Procs |-> <<>>]
    /\ doing = [s \in Shells |-> <<Agent, "stop">>]
    /\ loaded = {} /\ agent = [a \in Agents |-> "none"]
    /\ holds = [a \in Agents |-> {}]
    /\ quiet = TRUE /\ hindered = FALSE /\ raced = FALSE
    /\ hampered = [s \in Shells |-> FALSE]
    /\ excused = [s \in Shells |-> {}]

\* The next command of p is this one.
Runs(p, what) == job[p] # <<>> /\ Head(job[p]).do = what
Arg(p) == Head(job[p]).on
Step(p) == job' = [job EXCEPT ![p] = Tail(@)]

\* modprobe loads what the module needs, too, or reports that it failed, perhaps
\* after some of that.  It has nothing to do for a module that is loaded.
Modprobe(p) ==
    LET m == Arg(p) IN
    /\ Runs(p, "modprobe") /\ Step(p)
    /\ \/ /\ loaded' = loaded \cup {m} \cup Deps[m]
          /\ excused' = [s \in Shells |-> IF s = p THEN excused[s] \ {m}
                                                  ELSE excused[s]]
       \/ /\ m \notin loaded
          /\ \E D \in SUBSET Deps[m] : loaded' = loaded \cup D
          /\ excused' = [s \in Shells |-> IF s = p THEN excused[s] \cup {m}
                                                  ELSE excused[s]]
    /\ UNCHANGED <<phase, turn, doing, agent, holds, quiet, hindered, raced, hampered>>

\* A module in use is one that a process has open or a loaded module needs.
Open(m)   == \E a \in Agents : m \in holds[a]
InUse(m)  == Open(m) \/ \E n \in loaded : m \in Deps[n]

\* What the history variables look at: a restart of the agent, a driver's script
\* that loads, and a module that another process takes away from the latter.
Restarts(s) == doing[s] = <<Agent, "restart">>
Drives(s)   == doing[s][1] \in Services /\ doing[s][2] # "stop"
Unloaded(p, m) ==
    excused' = [s \in Shells |->
        IF s # p /\ Drives(s) /\ m \in loaded THEN excused[s] \cup {m} ELSE excused[s]]

\* Mutant of Rmmod: a refusal ends the script.
RmmodOrExit(p) ==
    /\ Runs(p, "rmmod")
    /\ IF InUse(Arg(p))
       THEN job' = [job EXCEPT ![p] = <<>>] /\ UNCHANGED <<loaded, excused>>
       ELSE Step(p) /\ loaded' = loaded \ {Arg(p)} /\ Unloaded(p, Arg(p))
    /\ hindered' = (hindered \/ (p = Rc /\ Open(Arg(p))))
    /\ UNCHANGED <<phase, turn, doing, agent, holds, quiet, raced, hampered>>

\* Mutant of Rmmod: rmmod -f.
RmmodForced(p) ==
    /\ Runs(p, "rmmod") /\ Step(p)
    /\ loaded' = loaded \ {Arg(p)} /\ Unloaded(p, Arg(p))
    /\ UNCHANGED <<phase, turn, doing, agent, holds, quiet, hindered, raced, hampered>>

\* rmmod, or its refusal; the script goes on either way.
Rmmod(p) ==
    /\ Runs(p, "rmmod") /\ Step(p)
    /\ IF InUse(Arg(p)) THEN UNCHANGED <<loaded, excused>>
       ELSE loaded' = loaded \ {Arg(p)} /\ Unloaded(p, Arg(p))
    /\ hindered' = (hindered \/ (p = Rc /\ Open(Arg(p))))
    /\ UNCHANGED <<phase, turn, doing, agent, holds, quiet, raced, hampered>>

\* p has found no agent; another process, too, that has not started its own yet.
Look(p) == raced' = \E q \in Procs \ {p} : Runs(q, "exec")

\* Mutant of Spawn: an agent that is about to end is not counted.
SpawnBesideDying(p) ==
    /\ Runs(p, "spawn")
    /\ IF \E a \in Agents : agent[a] = "up" THEN Step(p) /\ UNCHANGED raced
       ELSE job' = [job EXCEPT ![p][1] = Do("exec")] /\ Look(p)
    /\ UNCHANGED <<phase, turn, doing, loaded, agent, holds, quiet, hindered,
                   hampered, excused>>

\* start-stop-daemon -S looks for a process of sw-agentd ...
Spawn(p) ==
    /\ Runs(p, "spawn")
    /\ IF \E a \in Agents : Alive(a) THEN Step(p) /\ UNCHANGED raced
       ELSE job' = [job EXCEPT ![p][1] = Do("exec")] /\ Look(p)
    /\ UNCHANGED <<phase, turn, doing, loaded, agent, holds, quiet, hindered,
                   hampered, excused>>

\* ... and becomes one if there is none.
Exec(p) ==
    /\ Runs(p, "exec") /\ Step(p)
    /\ \E a \in Agents :
        /\ ~Alive(a)
        /\ agent' = [agent EXCEPT ![a] = "up"]
    /\ UNCHANGED <<phase, turn, doing, loaded, holds, history>>

\* start-stop-daemon -K signals every sw-agentd.
Term(p) ==
    /\ Runs(p, "term") /\ Step(p)
    /\ agent' = [a \in Agents |-> IF Alive(a) THEN "dying" ELSE "none"]
    /\ hampered' = [s \in Shells |->
           hampered[s] \/ (s # p /\ Restarts(s) /\ \E a \in Agents : agent[a] = "up")]
    /\ UNCHANGED <<phase, turn, doing, loaded, holds, quiet, hindered, raced, excused>>

\* sleep 1, which an agent that was signalled may need more than.
Sleep(p) ==
    /\ Runs(p, "sleep") /\ Step(p)
    /\ hampered' = [s \in Shells |->
           hampered[s] \/ (s = p /\ Restarts(s) /\ \E a \in Agents : agent[a] = "dying")]
    /\ UNCHANGED <<phase, turn, doing, loaded, agent, holds, quiet, hindered, raced,
                   excused>>

Command(p) == \/ Modprobe(p) \/ Rmmod(p) \/ Spawn(p) \/ Exec(p) \/ Term(p)
              \/ Sleep(p)

-----------------------------------------------------------------------------
(* init and the operator.                                                  *)

\* rcS starts the next service when the script before it has ended.
RcStart ==
    /\ phase = "boot" /\ Idle(Rc) /\ turn < Len(Order)
    /\ job' = [job EXCEPT ![Rc] = start[Order[turn + 1]]] /\ turn' = turn + 1
    /\ UNCHANGED <<phase, doing, loaded, agent, holds, history>>

BootDone ==
    /\ phase = "boot" /\ Idle(Rc) /\ turn = Len(Order)
    /\ phase' = "up"
    /\ UNCHANGED <<turn, job, doing, loaded, agent, holds, history>>

Shutdown ==
    /\ phase = "up" /\ phase' = "down"
    /\ quiet' = \A s \in Shells : Idle(s)
    /\ UNCHANGED <<turn, job, doing, loaded, agent, holds, hindered, raced, hampered,
                   excused>>

\* rcK stops them in the opposite order.
RcStop ==
    /\ phase = "down" /\ Idle(Rc) /\ turn > 0
    /\ job' = [job EXCEPT ![Rc] = stop[Order[turn]]] /\ turn' = turn - 1
    /\ UNCHANGED <<phase, doing, loaded, agent, holds, history>>

\* Processes are killed, and the board starts again.
Reboot == phase = "down" /\ Idle(Rc) /\ turn = 0 /\ Booted

\* A shell turns to its next script.
Given(s) ==
    /\ quiet' = (phase # "down")
    /\ hampered' = [hampered EXCEPT ![s] = FALSE]
    /\ excused' = [excused EXCEPT ![s] = {}]

\* Shells are there before rcS comes to the services (sshd's; the console's when it
\* is over), until init kills them after rcK.
RunScript(s) ==
    /\ Idle(s)
    /\ \E v \in Services \cup {Agent} :
        \/ job' = [job EXCEPT ![s] = start[v]]
           /\ doing' = [doing EXCEPT ![s] = <<v, "start">>]
        \/ job' = [job EXCEPT ![s] = stop[v]]
           /\ doing' = [doing EXCEPT ![s] = <<v, "stop">>]
        \/ job' = [job EXCEPT ![s] = restart[v]]
           /\ doing' = [doing EXCEPT ![s] = <<v, "restart">>]
    /\ Given(s)
    /\ UNCHANGED <<phase, turn, loaded, agent, holds, hindered, raced>>

\* What the message of the debug mode asks for, of an operator who looks first.
StartByHand(s) ==
    /\ Idle(s)
    /\ \A a \in Agents : ~Alive(a)
    /\ job' = [job EXCEPT ![s] = <<Do("exec")>>] /\ Look(s)
    /\ doing' = [doing EXCEPT ![s] = <<Agent, "start">>]
    /\ Given(s)
    /\ UNCHANGED <<phase, turn, loaded, agent, holds, hindered>>

-----------------------------------------------------------------------------
(* sw-agentd, as the scripts and the kernel see it.                        *)

OpenDevice(a, m) ==
    /\ agent[a] = "up" /\ m \in loaded \cap Uses
    /\ holds' = [holds EXCEPT ![a] = @ \cup {m}]
    /\ UNCHANGED <<phase, turn, job, doing, loaded, agent, history>>

End(a) ==
    /\ agent[a] = "dying"
    /\ agent' = [agent EXCEPT ![a] = "none"]
    /\ holds' = [holds EXCEPT ![a] = {}]
    /\ UNCHANGED <<phase, turn, job, doing, loaded, history>>

Next ==
    \/ \E p \in Procs : Command(p)
    \/ RcStart \/ BootDone \/ Shutdown \/ RcStop \/ Reboot
    \/ \E s \in Shells : RunScript(s) \/ StartByHand(s)
    \/ \E a \in Agents : End(a) \/ \E m \in Modules : OpenDevice(a, m)

Spec == Init /\ [][Next]_vars

-----------------------------------------------------------------------------
TypeOK ==
    /\ phase \in {"boot", "up", "down"} /\ turn \in 0..Len(Order)
    /\ job \in [Procs -> Seq(Commands)]
    /\ doing \in [Shells -> (Services \cup {Agent}) \X {"start", "stop", "restart"}]
    /\ loaded \subseteq Modules
    /\ agent \in [Agents -> {"none", "up", "dying"}]
    /\ holds \in [Agents -> SUBSET Modules]
    /\ \A a \in Agents : IF Alive(a) THEN holds[a] \subseteq loaded \cap Uses
                                     ELSE holds[a] = {}
    /\ quiet \in BOOLEAN /\ hindered \in BOOLEAN /\ raced \in BOOLEAN
    /\ hampered \in [Shells -> BOOLEAN] /\ excused \in [Shells -> SUBSET Modules]

\* There is more than one agent only after two processes, rcS among them, had found
\* none at the same time: looking and starting in two steps is what makes two, never
\* a restart that does not wait for the old one, nor a start beside a dying one.
OneAgent ==
    ~raced => \A a, b \in Agents : Alive(a) /\ Alive(b) => a = b

\* With autostart, "S90agent restart" leaves a running agent at any time, unless an
\* agent took longer than a sleep of the script to end or another process signalled
\* one meanwhile: stop's signal and start's search do not get in each other's way.
RestartLeavesAgent ==
    AutoStart => \A s \in Shells :
        Idle(s) /\ Restarts(s) /\ ~hampered[s] =>
            \E a \in Agents : agent[a] = "up"

\* The start or restart of a driver service ends with its drivers loaded but for
\* those whose modprobe said FAIL and those that another process has unloaded, also
\* when the stop before it was refused half-way for the agent's sake.
DriversBack ==
    \A s \in Shells, v \in Services :
        Idle(s) /\ doing[s] \in {<<v, "start">>, <<v, "restart">>} =>
            \A i \in 1..Len(Load[v]) : Load[v][i] \in loaded \cup excused[s]

\* rcK, undisturbed by a shell, leaves no driver loaded; if the agent was in the way,
\* none but those that the agent opens.
NothingLeftBehind ==
    phase = "down" /\ Idle(Rc) /\ turn = 0 /\ quiet =>
        loaded = {} \/ (hindered /\ loaded \subseteq Uses)
=============================================================================
