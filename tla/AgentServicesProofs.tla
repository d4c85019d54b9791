-------------------------- MODULE AgentServicesProofs --------------------------
(***************************************************************************)
(* Proofs about AgentServices for any number of microservices, connections,*)
(* faults and lives of the agent: type correctness, that a service has one *)
(* watcher and keeps it, that it is heard over one connection only, and    *)
(* that the first agent process talks to the processes it started.         *)
(***************************************************************************)
EXTENDS AgentServices, FiniteSetTheorems, TLAPS

-----------------------------------------------------------------------------
(* The inductive invariant.                                                 *)

\* Which phases a task goes through, and that those of connections not yet made
\* have not started.
Shape ==
    /\ \A m \in Ms : task[m] \in {"idle", "dial", "hello", "done", "failed", "dead"}
    /\ \A k \in Conns : task[k] \in {"idle", "watching", "kill", "start", "dial", "hello",
                                     "done", "failed", "lost", "dead"}
    /\ task[Recoverer] \in {"idle", "next", "dial", "hello", "done", "dead"}
    /\ task[Recoverer] \in {"dial", "hello"} => cur \in Ms
    /\ \A k \in Conns : k > made => task[k] = "idle"

\* While the agent is dead, and until the new one is asked to recover, nothing
\* goes on.
Quiet ==
    ~alive \/ (lives > 1 /\ task[Recoverer] = "idle") =>
        open = {} /\ \A t \in Tasks : task[t] \in Over \cup {"dead"}

\* What the controller has recorded was created; what was not yet asked for has
\* no connection.
Settled ==
    /\ \A m \in known \cup todo : task[m] = "done"
    /\ cur \in Ms => task[cur] = "done"
    /\ \A m \in Ms : task[m] = "idle" => \A k \in Conns : of[k] # m

\* A task that says HELLO does so over a connection that is watched, and alone.
Greeting ==
    /\ \A t \in Tasks :
        task[t] = "hello" => /\ link[t] \in 1..made /\ of[link[t]] = For(t)
                             /\ task[link[t]] = "watching"
    /\ \A s, t \in Tasks :
        task[s] = "hello" /\ task[t] = "hello" /\ link[s] = link[t] => s = t

\* A service is in the hands of one task: the one that will dial, or the watcher
\* of its connection.  One that is still to be recovered is in nobody's.
Drives(t) == task[t] \in {"watching", "kill", "start", "dial"}

OneDriver ==
    /\ \A s, t \in Tasks : Drives(s) /\ Drives(t) /\ For(s) = For(t) => s = t
    /\ \A m \in todo : /\ \A t \in Tasks : Drives(t) => For(t) # m
                       /\ \A k \in open : of[k] # m

\* While a service is connected to anew, nothing is heard of it.
Silent ==
    \A t \in Tasks : task[t] \in {"start", "dial", "hello"} =>
        \A k \in open \cap saved : of[k] # For(t)

\* A task that will connect has a process to enter.
HasProcess ==
    /\ \A m \in Ms : task[m] \in {"dial", "hello"} => proc[m] # None
    /\ \A k \in Conns : task[k] \in {"start", "dial", "hello"} => proc[of[k]] # None

IInv ==
    /\ TypeOK /\ Shape /\ Quiet /\ Settled /\ Greeting /\ OneDriver /\ Silent
    /\ CurrentOnly /\ HasProcess /\ KeepsWatch

-----------------------------------------------------------------------------
(* Names and types.                                                         *)

LEMMA Names ==
    /\ \A m \in Ms : m \in Tasks /\ m \in Processes /\ m \notin Conns /\ m # Recoverer /\ m # None
    /\ \A k \in Conns : k \in Tasks /\ k \in Processes /\ k \notin Ms /\ k # Recoverer /\ k # None
    /\ Recoverer \in Tasks /\ Recoverer \notin Ms /\ Recoverer \notin Conns
    /\ \A t \in Tasks : t \in Ms \/ t \in Conns \/ t = Recoverer
    /\ \A p \in Processes : p \in Ms \/ p \in Conns
    /\ None \notin Ms /\ None \notin Processes /\ None # Recoverer
BY AgentAssumption DEF Tasks, Processes

LEMMA ForIs ==
    /\ \A m \in Ms : For(m) = m /\ For(m)' = m
    /\ \A k \in Conns : For(k) = of[k] /\ For(k)' = of'[k]
    /\ For(Recoverer) = cur /\ For(Recoverer)' = cur'
BY Names DEF For

LEMMA ConnNumbers ==
    ASSUME TypeOK
    PROVE  /\ made \in Nat /\ MaxConns \in Nat /\ made <= MaxConns
           /\ 1..made \subseteq Conns
           /\ made < MaxConns => /\ made + 1 \in Conns /\ made + 1 \in 0..MaxConns
                                /\ 0..made \subseteq 0..made + 1 /\ 1..made \subseteq 1..made + 1
<1>1. MaxConns \in Nat /\ made \in 0..MaxConns
    BY AgentAssumption DEF TypeOK
<1> QED BY <1>1 DEF Conns

LEMMA FaultType == TypeOK /\ Fault => faults' \in 0..MaxFaults
<1> SUFFICES ASSUME TypeOK, Fault PROVE faults' \in 0..MaxFaults
    OBVIOUS
<1>1. MaxFaults \in Nat /\ faults \in 0..MaxFaults
    BY AgentAssumption DEF TypeOK
<1> QED BY <1>1 DEF Fault

LEMMA NextPort == TypeOK => (count + 1) % PortSpace \in Ports
<1> SUFFICES ASSUME TypeOK PROVE (count + 1) % PortSpace \in Ports
    OBVIOUS
<1>1. PortSpace \in Nat \ {0} /\ count \in 0..PortSpace - 1
    BY AgentAssumption DEF TypeOK, Ports
<1> QED BY <1>1 DEF Ports

\* The service of a task that is at work is one of Ms.
LEMMA ForType ==
    ASSUME TypeOK, Shape, NEW t \in Tasks, task[t] \in {"watching", "kill", "start", "dial", "hello"}
    PROVE  For(t) \in Ms
<1>1. CASE t \in Ms
    BY <1>1, ForIs
<1>2. CASE t \in Conns
    <2>1. t <= made
        BY <1>2, ConnNumbers DEF Shape, Conns
    <2>2. of[t] \in Ms \cup {None} /\ of[t] # None
        BY <1>2, <2>1 DEF TypeOK
    <2> QED BY <1>2, <2>2, ForIs
<1>3. CASE t = Recoverer
    BY <1>3, ForIs DEF Shape
<1> QED BY <1>1, <1>2, <1>3, Names

LEMMA TaskAt ==
    ASSUME TypeOK, NEW t \in Tasks, NEW x, task' = [task EXCEPT ![t] = x]
    PROVE  \A s \in Tasks : task'[s] = IF s = t THEN x ELSE task[s]
<1>1. task \in [Tasks -> Phases]
    BY DEF TypeOK
<1> QED BY <1>1

LEMMA TaskType ==
    ASSUME TypeOK, NEW t \in Tasks, NEW x \in Phases, task' = [task EXCEPT ![t] = x]
    PROVE  task' \in [Tasks -> Phases]
<1>1. task \in [Tasks -> Phases]
    BY DEF TypeOK
<1> QED BY <1>1

ProcessStates == {"none", "starting", "up", "dying", "gone"}

LEMMA KilledType == ASSUME TypeOK, NEW p \in Processes PROVE Killed(p) \in ProcessStates
BY DEF TypeOK, Killed, ProcessStates

-----------------------------------------------------------------------------
(* Type correctness.                                                        *)

LEMMA CreateType == ASSUME TypeOK, NEW m \in Ms, Create(m) PROVE TypeOK'
<1>1. count' \in Ports /\ port' \in [Ms -> Ports \cup {None}]
    <2>1. count \in Ports /\ port \in [Ms -> Ports \cup {None}]
        BY DEF TypeOK
    <2> QED BY <2>1, NextPort DEF Create
<1>2. task' \in [Tasks -> Phases]
    <2>1. task' = [task EXCEPT ![m] = "dial"] \/ task' = [task EXCEPT ![m] = "failed"]
        BY DEF Create
    <2> QED BY <2>1, TaskType, Names DEF Phases, Over
<1>3. process' \in [Processes -> ProcessStates] /\ proc' \in [Ms -> Ms \cup {None}]
    BY DEF Create, TypeOK, ProcessStates
<1>4. faults' \in 0..MaxFaults
    BY FaultType DEF Create, TypeOK
<1> QED BY <1>1, <1>2, <1>3, <1>4 DEF Create, TypeOK, ProcessStates, connVars, recoverVars

LEMMA DialType == ASSUME TypeOK, Shape, NEW t \in Tasks, Dial(t) PROVE TypeOK'
<1> DEFINE k == made + 1
           m == For(t)
<1>1. k \in Conns /\ made \in Nat /\ k \in 0..MaxConns /\ m \in Ms
    BY ConnNumbers, ForType DEF Dial
<1>2. PICK p \in Processes : peer' = [peer EXCEPT ![k] = p]
    BY DEF Dial
<1>3. /\ made' = k /\ of' = [of EXCEPT ![k] = m] /\ open' = open \cup {k}
      /\ fresh' = [fresh EXCEPT ![m] = TRUE]
      /\ task' = [task EXCEPT ![t] = "hello", ![k] = "watching"]
      /\ link' = [link EXCEPT ![t] = k]
    BY DEF Dial
<1> HIDE DEF m
<1>4. made' \in 0..MaxConns /\ of' \in [Conns -> Ms \cup {None}] /\ open' \subseteq 1..made'
    <2>1. of \in [Conns -> Ms \cup {None}] /\ open \subseteq 1..made
        BY DEF TypeOK
    <2> QED BY <1>1, <1>3, <2>1
<1>5. peer' \in [Conns -> Processes \cup {None}]
    BY <1>2 DEF TypeOK
<1>6. \A l \in Conns : (l <= made' <=> of'[l] # None) /\ (l <= made' <=> peer'[l] # None)
    <2> SUFFICES ASSUME NEW l \in Conns
                 PROVE  (l <= made' <=> of'[l] # None) /\ (l <= made' <=> peer'[l] # None)
        OBVIOUS
    <2>0. of \in [Conns -> Ms \cup {None}] /\ peer \in [Conns -> Processes \cup {None}]
        BY DEF TypeOK
    <2>1. (l <= made <=> of[l] # None) /\ (l <= made <=> peer[l] # None) /\ l \in Nat
        BY DEF TypeOK, Conns
    <2>2. m # None /\ p # None
        BY <1>1, Names
    <2>3. CASE l = k
        BY <1>1, <1>2, <1>3, <2>0, <2>1, <2>2, <2>3
    <2>4. CASE l # k
        <3>1. of'[l] = of[l] /\ peer'[l] = peer[l]
            BY <1>2, <1>3, <2>0, <2>4
        <3>2. l <= made + 1 <=> l <= made
            BY <1>1, <2>1, <2>4
        <3> QED BY <1>3, <2>1, <3>1, <3>2
    <2> QED BY <2>3, <2>4
<1>7. task' \in [Tasks -> Phases] /\ fresh' \in [Ms -> BOOLEAN]
    <2>1. task \in [Tasks -> Phases] /\ fresh \in [Ms -> BOOLEAN]
        BY DEF TypeOK
    <2> QED BY <1>3, <2>1 DEF Phases
<1>8. link' \in [Tasks -> 0..made']
    <2>1. link \in [Tasks -> 0..made]
        BY DEF TypeOK
    <2> QED BY <1>1, <1>3, <2>1
<1>9. saved' \subseteq 1..made' /\ msConn' \in [Ms -> 0..made']
    <2>1. saved \subseteq 1..made /\ msConn \in [Ms -> 0..made] /\ UNCHANGED <<saved, msConn>>
        BY DEF TypeOK, Dial
    <2> QED BY <1>1, <1>3, <2>1
<1>10. UNCHANGED <<nodeVars, proc, recoverVars, process, faults>>
    BY DEF Dial
<1> QED BY <1>4, <1>5, <1>6, <1>7, <1>8, <1>9, <1>10 DEF TypeOK, nodeVars, recoverVars

LEMMA HelloType == ASSUME TypeOK, Shape, Greeting, NEW t \in Tasks, Hello(t) PROVE TypeOK'
<1>1. task[t] = "hello" /\ link[t] \in 1..made /\ For(t) \in Ms
    BY ForType DEF Greeting, Hello
<1>2. task' \in [Tasks -> Phases]
    <2>1. task' = [task EXCEPT ![t] = IF t = Recoverer THEN "next" ELSE "done"]
        BY DEF Hello
    <2> QED BY <2>1, TaskType DEF Phases, Over
<1>3. saved' \subseteq 1..made /\ msConn' \in [Ms -> 0..made] /\ fresh' \in [Ms -> BOOLEAN]
    <2>1. saved \subseteq 1..made /\ msConn \in [Ms -> 0..made] /\ fresh \in [Ms -> BOOLEAN]
        BY DEF TypeOK
    <2>2. /\ saved' = saved \cup {link[t]} /\ msConn' = [msConn EXCEPT ![For(t)] = link[t]]
          /\ fresh' = [fresh EXCEPT ![For(t)] = TRUE]
        BY DEF Hello
    <2>3. link[t] \in 0..made
        BY <1>1, ConnNumbers
    <2> QED BY <1>1, <2>1, <2>2, <2>3
<1>4. proc' \in [Ms -> Ms \cup {None}]
    BY <1>1 DEF Hello, TypeOK
<1> QED BY <1>2, <1>3, <1>4 DEF Hello, TypeOK, nodeVars, connVars, recoverVars

LEMMA GivesUpType ==
    ASSUME TypeOK, NEW t \in Tasks, NEW x \in {"failed", "lost"}, GivesUp(t, x)
    PROVE  task' \in [Tasks -> Phases] /\ todo' \subseteq todo
<1>1. \E y \in {"next", x} : task' = [task EXCEPT ![t] = y]
    BY DEF GivesUp
<1> QED BY <1>1, TaskType DEF GivesUp, Phases, Over

LEMMA ConnectType ==
    ASSUME TypeOK, NEW t \in Tasks, DialFails(t) \/ HelloFails(t)
    PROVE  TypeOK'
<1>1. task' \in [Tasks -> Phases] /\ todo' \subseteq todo
    BY GivesUpType DEF DialFails, HelloFails
<1>2. faults' \in 0..MaxFaults
    BY FaultType DEF DialFails, HelloFails, TypeOK
<1> QED BY <1>1, <1>2 DEF DialFails, HelloFails, TypeOK, nodeVars, connVars, agentVars

LEMMA DiesType == ASSUME TypeOK, Dies PROVE
    /\ alive' \in BOOLEAN /\ task' \in [Tasks -> Phases] /\ link' \in [Tasks -> 0..made]
    /\ open' = {} /\ count' \in Ports /\ saved' = {} /\ msConn' \in [Ms -> 0..made]
    /\ proc' \in [Ms -> Ms \cup {None}] /\ fresh' \in [Ms -> BOOLEAN] /\ todo' = {} /\ cur' = None
<1>1. task' \in [Tasks -> Phases]
    BY DEF Dies, TypeOK, Phases
<1>2. 0 \in 0..made /\ 0 \in Ports
    BY ConnNumbers, AgentAssumption DEF Ports
<1> QED BY <1>1, <1>2 DEF Dies

LEMMA RestartType ==
    ASSUME TypeOK, Shape, NEW k \in Conns, Restarts(k)
    PROVE  TypeOK'
<1> USE DEF nodeVars, connVars, agentVars, recoverVars
<1>t. k \in Tasks
    BY Names
<1>1. CASE WatchFires(k)
    <2>1. task' \in [Tasks -> Phases]
        BY <1>1, <1>t, TaskType DEF WatchFires, Phases
    <2> QED BY <1>1, <2>1 DEF WatchFires, TypeOK
<1>2. CASE Kill(k)
    <2>1. task' \in [Tasks -> Phases]
        BY <1>2, <1>t, TaskType DEF Kill, Phases
    <2>2. of[k] \in Ms
        BY <1>2, <1>t, ForType, ForIs DEF Kill
    <2>3. proc[of[k]] \in Processes
        BY <1>2, <2>2, Names DEF Kill, TypeOK
    <2>4. process' \in [Processes -> ProcessStates]
        <3>1. process \in [Processes -> ProcessStates]
            BY DEF TypeOK, ProcessStates
        <3> QED BY <1>2, <2>3, <3>1, KilledType DEF Kill
    <2> QED BY <1>2, <2>1, <2>4 DEF Kill, TypeOK, ProcessStates
<1>3. CASE Panics(k)
    <2>2. of[k] \in Ms
        BY <1>3, <1>t, ForType, ForIs DEF Panics
    <2>4. process' \in [Processes -> ProcessStates]
        <3>1. process \in [Processes -> ProcessStates]
            BY DEF TypeOK, ProcessStates
        <3>2. CASE proc[of[k]] = None
            BY <1>3, <3>1, <3>2 DEF Panics
        <3>3. CASE proc[of[k]] # None
            <4>1. proc[of[k]] \in Processes
                BY <2>2, <3>3, Names DEF TypeOK
            <4> QED BY <1>3, <3>1, <3>3, <4>1, KilledType DEF Panics
        <3> QED BY <3>2, <3>3
    <2> QED BY <1>3, <2>4, DiesType DEF Panics, Dies, TypeOK, ProcessStates
<1>4. CASE Start(k)
    <2>1. task' \in [Tasks -> Phases]
        BY <1>4, <1>t, TaskType DEF Start, Phases
    <2>2. process' \in [Processes -> ProcessStates]
        BY <1>4, Names DEF Start, TypeOK, ProcessStates
    <2>3. faults' \in 0..MaxFaults
        BY <1>4, FaultType DEF Start, TypeOK
    <2> QED BY <1>4, <2>1, <2>2, <2>3 DEF Start, TypeOK, ProcessStates
<1> QED BY <1>1, <1>2, <1>3, <1>4 DEF Restarts

LEMMA OutsideType ==
    ASSUME TypeOK,
           \/ \E m \in Ms : GoesStale(m) \/ Records(m)
           \/ \E k \in Conns : Beat(k)
           \/ \E p \in Processes : Runs(p) \/ Crash(p)
    PROVE  TypeOK'
<1> USE DEF nodeVars, connVars, agentVars, recoverVars
<1>1. ASSUME NEW m \in Ms, GoesStale(m) PROVE TypeOK'
    <2>1. fresh' \in [Ms -> BOOLEAN]
        BY <1>1 DEF GoesStale, TypeOK
    <2>2. faults' \in 0..MaxFaults
        BY <1>1, FaultType DEF GoesStale, TypeOK
    <2> QED BY <1>1, <2>1, <2>2 DEF GoesStale, TypeOK
<1>2. ASSUME NEW m \in Ms, Records(m) PROVE TypeOK'
    BY <1>2 DEF Records, TypeOK
<1>3. ASSUME NEW k \in Conns, Beat(k) PROVE TypeOK'
    <2>1. fresh' \in [Ms -> BOOLEAN]
        BY <1>3 DEF Beat, TypeOK
    <2> QED BY <1>3, <2>1 DEF Beat, TypeOK
<1>4. ASSUME NEW p \in Processes, Runs(p) \/ Crash(p) PROVE TypeOK'
    <2>1. process' \in [Processes -> ProcessStates]
        <3>1. process \in [Processes -> ProcessStates]
            BY DEF TypeOK, ProcessStates
        <3>2. \E x \in ProcessStates : process' = [process EXCEPT ![p] = x]
            BY <1>4 DEF Runs, Bind, Exits, Crash, ProcessStates
        <3> QED BY <3>1, <3>2
    <2>2. faults' \in 0..MaxFaults
        BY <1>4, FaultType DEF Runs, Bind, Exits, Crash, TypeOK
    <2>3. UNCHANGED <<nodeVars, task, connVars, agentVars, recoverVars>>
        BY <1>4 DEF Runs, Bind, Exits, Crash
    <2> QED BY <2>1, <2>2, <2>3 DEF TypeOK, ProcessStates
<1> QED BY <1>1, <1>2, <1>3, <1>4

LEMMA LifeType ==
    ASSUME TypeOK, AgentDies \/ AgentStarts \/ AsksRecover \/ RecoverNext
    PROVE  TypeOK'
<1> USE DEF nodeVars, connVars, agentVars, recoverVars
<1>1. CASE AgentDies
    BY <1>1, DiesType DEF AgentDies, Dies, TypeOK
<1>2. CASE AgentStarts
    <2>1. lives' \in 1..MaxLives
        <3>1. MaxLives \in Nat /\ lives \in 1..MaxLives
            BY AgentAssumption DEF TypeOK
        <3> QED BY <1>2, <3>1 DEF AgentStarts
    <2>2. task' \in [Tasks -> Phases]
        BY <1>2, TaskType, Names DEF AgentStarts, Phases, Over
    <2> QED BY <1>2, <2>1, <2>2 DEF AgentStarts, TypeOK
<1>3. CASE AsksRecover
    <2>1. task' \in [Tasks -> Phases]
        BY <1>3, TaskType, Names DEF AsksRecover, Phases
    <2> QED BY <1>3, <2>1 DEF AsksRecover, TypeOK
<1>4. CASE RecoverNext
    <2>1. task' \in [Tasks -> Phases]
        BY <1>4, TaskType, Names DEF RecoverNext, Phases, Over
    <2>2. todo' \subseteq Ms /\ cur' \in Ms \cup {None}
        BY <1>4 DEF RecoverNext, TypeOK
    <2> QED BY <1>4, <2>1, <2>2 DEF RecoverNext, TypeOK
<1> QED BY <1>1, <1>2, <1>3, <1>4

LEMMA TypeStep == IInv /\ [Next]_vars => TypeOK'
<1> SUFFICES ASSUME IInv, [Next]_vars PROVE TypeOK'
    OBVIOUS
<1>0. TypeOK /\ Shape /\ Greeting
    BY DEF IInv
<1>1. CASE UNCHANGED vars
    BY <1>0, <1>1 DEF TypeOK, vars, nodeVars, connVars, agentVars, recoverVars
<1>2. CASE Next
    BY <1>0, <1>2, CreateType, DialType, HelloType, ConnectType, RestartType, OutsideType,
       LifeType DEF Next, Connects
<1> QED BY <1>1, <1>2

-----------------------------------------------------------------------------
(* The rest of the invariant, action by action.                             *)

Rest == /\ Shape /\ Quiet /\ Settled /\ Greeting /\ OneDriver /\ Silent
        /\ CurrentOnly /\ HasProcess /\ KeepsWatch

LEMMA SameFor ==
    ASSUME UNCHANGED <<of, cur>>
    PROVE  \A t \in Tasks : For(t)' = For(t)
BY Names, ForIs

\* Whatever only the processes and the heartbeats see.
LEMMA OutsideRest ==
    ASSUME IInv,
           UNCHANGED <<alive, lives, known, task, link, made, of, open, saved, msConn, proc,
                       todo, cur>>
    PROVE  Rest'
<1>f. \A t \in Tasks : For(t)' = For(t)
    BY SameFor
<1>1. Shape' /\ Quiet' /\ Settled' /\ HasProcess'
    BY DEF IInv, Shape, Quiet, Settled, HasProcess
<1>2. Greeting' /\ OneDriver' /\ Silent'
    BY <1>f DEF IInv, Greeting, OneDriver, Drives, Silent
<1>3. CurrentOnly' /\ KeepsWatch'
    BY DEF IInv, CurrentOnly, KeepsWatch, Lost, Supervises
<1> QED BY <1>1, <1>2, <1>3 DEF Rest

LEMMA CreateRest == ASSUME IInv, NEW m \in Ms, Create(m) PROVE Rest'
<1>1. /\ alive /\ (lives > 1 => task[Recoverer] # "idle") /\ task[m] = "idle"
      /\ UNCHANGED <<alive, lives, known, link, made, of, open, saved, msConn, todo, cur>>
    BY DEF Create, MayCreate, connVars, recoverVars
<1>2. PICK x \in {"dial", "failed"} :
        /\ task' = [task EXCEPT ![m] = x]
        /\ x = "dial" => proc' = [proc EXCEPT ![m] = m]
        /\ x = "failed" => proc' = proc
    BY DEF Create
<1>3. \A s \in Tasks : task'[s] = IF s = m THEN x ELSE task[s]
    BY <1>2, TaskAt, Names DEF IInv
<1>4. \A n \in Ms : proc'[n] # None <=> proc[n] # None \/ (n = m /\ x = "dial")
    <2>1. proc \in [Ms -> Ms \cup {None}]
        BY DEF IInv, TypeOK
    <2> QED BY <1>2, <2>1, Names
<1>f. \A t \in Tasks : For(t)' = For(t)
    BY <1>1, SameFor
<1>m. m \notin known \cup todo /\ cur # m /\ \A k \in Conns : of[k] # m
    BY <1>1 DEF IInv, Settled
<1>5. Shape' /\ Quiet'
    BY <1>1, <1>3, Names DEF IInv, Shape, Quiet
<1>6. Settled'
    <2>1. known \cup todo \subseteq Ms
        BY DEF IInv, TypeOK
    <2> QED BY <1>1, <1>3, <1>m, <2>1, Names DEF IInv, Settled
<1>7. Greeting'
    <2>1. \A l \in 1..made : l \in Conns
        BY ConnNumbers DEF IInv
    <2> QED BY <1>1, <1>3, <1>f, <2>1, Names DEF IInv, Greeting
<1>8. OneDriver'
    <2>1. \A s \in Tasks : For(s) = m => s = m \/ ~Drives(s)
        BY <1>m, ForIs, Names DEF IInv, Shape
    <2>2. \A s \in Tasks : s # m => (Drives(s)' <=> Drives(s))
        BY <1>3 DEF Drives
    <2>3. For(m) = m
        BY ForIs
    <2>4. \A s, t \in Tasks : Drives(s)' /\ Drives(t)' /\ For(s)' = For(t)' => s = t
        BY <1>f, <2>1, <2>2, <2>3 DEF IInv, OneDriver
    <2>5. \A n \in todo' : \A t \in Tasks : Drives(t)' => For(t)' # n
        BY <1>1, <1>f, <1>m, <2>2, <2>3 DEF IInv, OneDriver
    <2> QED BY <1>1, <2>4, <2>5 DEF IInv, OneDriver
<1>9. Silent'
    <2>1. \A l \in open \cap saved : l \in Conns
        BY ConnNumbers DEF IInv, TypeOK
    <2>2. For(m) = m
        BY ForIs
    <2> QED BY <1>1, <1>3, <1>f, <1>m, <2>1, <2>2 DEF IInv, Silent
<1>10. HasProcess'
    <2>1. \A k \in Conns : k \in Tasks /\ task'[k] = task[k]
        BY <1>3, Names
    <2>2. \A k \in Conns : task[k] \in {"start", "dial", "hello"} => of[k] \in Ms
        BY ForType, ForIs, Names DEF IInv
    <2> QED BY <1>1, <1>2, <1>3, <1>4, <2>1, <2>2, Names DEF IInv, HasProcess
<1>11. CurrentOnly' /\ KeepsWatch'
    <2>1. \A k \in Conns : task'[k] = task[k]
        BY <1>3, Names
    <2> QED BY <1>1, <1>4, <2>1 DEF IInv, CurrentOnly, KeepsWatch, Lost, Supervises
<1> QED BY <1>5, <1>6, <1>7, <1>8, <1>9, <1>10, <1>11 DEF Rest

LEMMA DialRest == ASSUME IInv, NEW t \in Tasks, Dial(t) PROVE Rest'
<1>k. PICK k : k = made + 1
    OBVIOUS
<1>m. PICK m : m = For(t)
    OBVIOUS
<1>0. TypeOK /\ Shape /\ Quiet /\ Settled /\ Greeting /\ OneDriver /\ Silent /\ CurrentOnly
      /\ HasProcess /\ KeepsWatch
    BY DEF IInv
<1>e. /\ of' = [of EXCEPT ![k] = m] /\ link' = [link EXCEPT ![t] = k]
      /\ task' = [task EXCEPT ![t] = "hello", ![k] = "watching"]
    BY <1>k, <1>m DEF Dial
<1>1. /\ task[t] = "dial" /\ made' = k /\ open' = open \cup {k}
      /\ UNCHANGED <<alive, lives, known, saved, msConn, proc, todo, cur>>
    BY <1>k DEF Dial, nodeVars, recoverVars
<1>2. k \in Conns /\ made \in Nat /\ made < MaxConns /\ MaxConns \in Nat /\ m \in Ms
    BY <1>0, <1>k, <1>m, ConnNumbers, ForType DEF Dial
<1>t. task[t] = "dial"
    BY DEF Dial
<1>3. task[k] = "idle" /\ k \in Tasks /\ k # t
    <2>1. k > made
        BY <1>2, <1>k
    <2> QED BY <1>0, <1>2, <1>t, <2>1, Names DEF Shape
<1>4. \A s \in Tasks : task'[s] = IF s = t THEN "hello" ELSE IF s = k THEN "watching" ELSE task[s]
    <2>1. task \in [Tasks -> Phases]
        BY <1>0 DEF TypeOK
    <2> QED BY <1>e, <1>3, <2>1
<1>5. \A l \in Conns : of'[l] = IF l = k THEN m ELSE of[l]
    <2>1. of \in [Conns -> Ms \cup {None}]
        BY <1>0 DEF TypeOK
    <2> QED BY <1>e, <2>1
<1>6. \A s \in Tasks : link'[s] = IF s = t THEN k ELSE link[s]
    <2>1. link \in [Tasks -> 0..made]
        BY <1>0 DEF TypeOK
    <2> QED BY <1>e, <2>1
<1>f. For(k)' = m /\ \A s \in Tasks : s # k => For(s)' = For(s)
    <2>1. For(k)' = m
        BY <1>2, <1>5, ForIs
    <2>2. ASSUME NEW s \in Tasks, s # k PROVE For(s)' = For(s)
        <3>1. CASE s \in Conns
            BY <1>5, <2>2, <3>1, ForIs
        <3>2. CASE s \in Ms \/ s = Recoverer
            BY <1>1, <3>2, ForIs
        <3> QED BY <3>1, <3>2, Names
    <2> QED BY <2>1, <2>2
<1>7. \A l : l \in 1..made => l \in Conns /\ l \in Tasks /\ l # k
    BY <1>0, <1>2, ConnNumbers, Names, <1>k
<1>s. saved \subseteq 1..made /\ open \subseteq 1..made /\ known \cup todo \subseteq Ms
    BY <1>0 DEF TypeOK
<1>8. Shape'
    <2>1. \A l \in Conns : l > k => l > made /\ l # k /\ l # t
        <3>1. \A l \in Conns : l > made => l # t
            BY <1>0, <1>1 DEF Shape
        <3> QED BY <1>2, <1>k, <3>1 DEF Conns
    <2>2. \A n \in Ms : task'[n] \in {"idle", "dial", "hello", "done", "failed", "dead"}
        BY <1>0, <1>2, <1>4, Names DEF Shape
    <2>3. \A l \in Conns : task'[l] \in {"idle", "watching", "kill", "start", "dial", "hello",
                                       "done", "failed", "lost", "dead"}
        BY <1>0, <1>4, Names DEF Shape
    <2>4. /\ task'[Recoverer] \in {"idle", "next", "dial", "hello", "done", "dead"}
          /\ task'[Recoverer] \in {"dial", "hello"} => cur' \in Ms
        BY <1>0, <1>1, <1>2, <1>t, <1>4, Names DEF Shape
    <2>5. \A l \in Conns : l > made' => task'[l] = "idle"
        BY <1>0, <1>1, <1>4, <2>1, Names DEF Shape
    <2> QED BY <2>2, <2>3, <2>4, <2>5 DEF Shape
<1>9. Quiet'
    <2>1. alive /\ ~(lives > 1 /\ task[Recoverer] = "idle")
        BY <1>0, <1>1 DEF Quiet, Over
    <2> QED BY <1>1, <1>2, <1>4, <2>1, Names DEF Quiet
<1>10. Settled'
    <2>1. \A n \in Ms : n \in Tasks /\ n # k
        BY <1>2, Names
    <2>2. \A n \in known \cup todo : task'[n] = "done"
        BY <1>0, <1>1, <1>4, <1>s, <2>1 DEF Settled
    <2>3. cur \in Ms => task'[cur] = "done"
        BY <1>0, <1>1, <1>4, <2>1 DEF Settled
    <2>4. task[m] # "idle"
        <3>1. CASE t \in Ms
            BY <1>1, <3>1, ForIs, <1>m
        <3>2. CASE t \in Conns
            BY <1>0, <1>2, <3>2, ForIs, <1>m DEF Settled
        <3>3. CASE t = Recoverer
            BY <1>0, <1>2, <3>3, ForIs, <1>m DEF Settled
        <3> QED BY <3>1, <3>2, <3>3, Names
    <2>5. \A n \in Ms : task'[n] = "idle" => \A l \in Conns : of'[l] # n
        BY <1>0, <1>4, <1>5, <2>1, <2>4 DEF Settled
    <2> QED BY <1>1, <2>2, <2>3, <2>5 DEF Settled
<1>11. Greeting'
    <2>1. ASSUME NEW s \in Tasks, task'[s] = "hello"
          PROVE  /\ link'[s] \in 1..made' /\ of'[link'[s]] = For(s)'
                 /\ task'[link'[s]] = "watching" /\ (s # t => link'[s] # k)
        <3>1. CASE s = t
            <4>1. k \in 1..k
                BY <1>2, <1>k
            <4>2. link'[s] = k /\ of'[k] = m /\ For(s)' = m /\ task'[k] = "watching"
                BY <1>2, <1>3, <1>4, <1>5, <1>6, <1>f, <3>1, <1>m
            <4> QED BY <1>1, <3>1, <4>1, <4>2
        <3>2. CASE s # t
            <4>1. task[s] = "hello" /\ s # k /\ link'[s] = link[s]
                BY <1>3, <1>4, <1>6, <2>1, <3>2
            <4>2. link[s] \in 1..made /\ of[link[s]] = For(s) /\ task[link[s]] = "watching"
                BY <1>0, <4>1 DEF Greeting
            <4>3. link[s] \in Conns /\ link[s] \in Tasks /\ link[s] # k /\ link[s] # t
                BY <1>1, <1>7, <4>2
            <4>4. link[s] \in 1..k
                BY <1>2, <4>2, <1>k
            <4> QED BY <1>1, <1>4, <1>5, <1>f, <3>2, <4>1, <4>2, <4>3, <4>4
        <3> QED BY <3>1, <3>2
    <2>2. \A r, s \in Tasks :
            task'[r] = "hello" /\ task'[s] = "hello" /\ link'[r] = link'[s] => r = s
        <3> SUFFICES ASSUME NEW r \in Tasks, NEW s \in Tasks,
                            task'[r] = "hello", task'[s] = "hello", link'[r] = link'[s], r # s
                     PROVE  FALSE
            OBVIOUS
        <3>1. r # t /\ s # t
            BY <1>6, <2>1
        <3>2. task[r] = "hello" /\ task[s] = "hello" /\ link[r] = link[s]
            BY <1>4, <1>6, <3>1
        <3> QED BY <1>0, <3>2 DEF Greeting
    <2> QED BY <2>1, <2>2 DEF Greeting
<1>12. OneDriver'
    <2>1. \A s \in Tasks : Drives(s)' <=> s = k \/ (s # t /\ Drives(s))
        BY <1>3, <1>4 DEF Drives
    <2>2. \A s \in Tasks : s # t /\ Drives(s) => For(s) # m
        BY <1>0, <1>1, <1>m DEF OneDriver, Drives
    <2>3. \A r, s \in Tasks : Drives(r)' /\ Drives(s)' /\ For(r)' = For(s)' => r = s
        BY <1>0, <1>f, <2>1, <2>2 DEF OneDriver
    <2>4. m \notin todo
        BY <1>0, <1>1, <1>m DEF OneDriver, Drives
    <2>5. \A n \in todo' : /\ \A s \in Tasks : Drives(s)' => For(s)' # n
                         /\ \A l \in open' : of'[l] # n
        BY <1>0, <1>1, <1>2, <1>5, <1>7, <1>f, <1>s, <2>1, <2>4 DEF OneDriver
    <2> QED BY <2>3, <2>5 DEF OneDriver
<1>13. open' \cap saved' = open \cap saved /\ \A l \in open \cap saved : of'[l] = of[l]
    BY <1>1, <1>5, <1>7, <1>s
<1>14. Silent' /\ CurrentOnly'
    <2>1. \A s \in Tasks : task'[s] \in {"start", "dial", "hello"} =>
                            task[s] \in {"start", "dial", "hello"} /\ s # k
        BY <1>3, <1>t, <1>4
    <2> QED BY <1>0, <1>1, <1>13, <1>f, <2>1 DEF Silent, CurrentOnly
<1>15. HasProcess'
    <2>1. \A n \in Ms : task'[n] \in {"dial", "hello"} => task[n] \in {"dial", "hello"}
        BY <1>1, <1>2, <1>4, Names
    <2>2. \A l \in Conns : task'[l] \in {"start", "dial", "hello"} =>
                            task[l] \in {"start", "dial", "hello"} /\ of'[l] = of[l]
        BY <1>3, <1>t, <1>4, <1>5, Names
    <2> QED BY <1>0, <1>1, <2>1, <2>2 DEF HasProcess
<1>16. KeepsWatch'
    <2> SUFFICES ASSUME NEW n \in Ms, msConn[n] # 0
                 PROVE  proc[n] # None /\ (Lost(n)' \/ \E l \in Conns : of'[l] = n /\ Supervises(l)')
        BY <1>1 DEF KeepsWatch
    <2>1. proc[n] # None /\ (Lost(n) \/ \E l \in Conns : of[l] = n /\ Supervises(l))
        BY <1>0 DEF KeepsWatch
    <2>2. CASE Lost(n)
        <3>1. PICK l \in Conns : of[l] = n /\ task[l] = "lost"
            BY <2>2 DEF Lost
        <3>2. of'[l] = n /\ task'[l] = "lost"
            BY <1>1, <1>3, <1>4, <1>5, <3>1, Names
        <3> QED BY <2>1, <3>2 DEF Lost
    <2>3. ASSUME NEW l \in Conns, of[l] = n, Supervises(l) PROVE \E j \in Conns : of'[j] = n /\ Supervises(j)'
        <3>1. CASE l = t
            <4>1. of'[k] = n /\ task'[k] = "watching"
                BY <1>2, <1>3, <1>4, <1>5, <2>3, <3>1, ForIs, <1>m
            <4> QED BY <1>2, <4>1 DEF Supervises
        <3>2. CASE l # t
            <4>1. l # k /\ of'[l] = n /\ task'[l] = task[l]
                BY <1>3, <1>4, <1>5, <2>3, <3>2, Names DEF Supervises
            <4> QED BY <2>3, <4>1 DEF Supervises
        <3> QED BY <3>1, <3>2
    <2> QED BY <2>1, <2>2, <2>3
<1> QED BY <1>8, <1>9, <1>10, <1>11, <1>12, <1>14, <1>15, <1>16 DEF Rest

\* A step of one task that makes no connection and enters none: it gives up,
\* goes from watching to the restart, or starts a process.
LEMMA MoveRest ==
    ASSUME IInv, NEW t \in Tasks, NEW x,
           task' = [task EXCEPT ![t] = x],
           UNCHANGED <<alive, lives, known, link, made, of, open, saved, msConn, proc, cur>>,
           todo' \subseteq todo,
           t \in Ms => x = "failed" /\ task[t] \in {"dial", "hello"},
           t = Recoverer => x \in {"next", "done"} /\ task[t] \in {"dial", "hello", "next"},
           t \in Conns => \/ x = "kill" /\ task[t] = "watching"
                             /\ \A s \in Tasks : ~(task[s] = "hello" /\ link[s] = t)
                          \/ x = "dial" /\ task[t] = "start"
                          \/ x = "lost" /\ task[t] \in {"start", "dial"}
                          \/ x = "failed" /\ task[t] = "hello"
    PROVE  Rest'
<1>0. TypeOK /\ Shape /\ Quiet /\ Settled /\ Greeting /\ OneDriver /\ Silent /\ CurrentOnly
      /\ HasProcess /\ KeepsWatch
    BY DEF IInv
<1>1. \A s \in Tasks : task'[s] = IF s = t THEN x ELSE task[s]
    BY <1>0, TaskAt
<1>2. /\ x \in {"failed", "next", "done", "kill", "dial", "lost"}
      /\ task[t] \in {"dial", "hello", "next", "watching", "start"}
    BY Names
<1>f. \A s \in Tasks : For(s)' = For(s)
    BY SameFor
<1>s. known \cup todo \subseteq Ms /\ todo' \subseteq todo
    BY <1>0 DEF TypeOK
<1>3. Shape'
    <2>1. \A n \in Ms : task'[n] \in {"idle", "dial", "hello", "done", "failed", "dead"}
        BY <1>0, <1>1, Names DEF Shape
    <2>2. \A l \in Conns : task'[l] \in {"idle", "watching", "kill", "start", "dial", "hello",
                                       "done", "failed", "lost", "dead"}
        BY <1>0, <1>1, Names DEF Shape
    <2>3. /\ task'[Recoverer] \in {"idle", "next", "dial", "hello", "done", "dead"}
          /\ task'[Recoverer] \in {"dial", "hello"} => cur' \in Ms
        BY <1>0, <1>1, Names DEF Shape
    <2>4. \A l \in Conns : l > made' => task'[l] = "idle"
        BY <1>0, <1>1, <1>2, Names DEF Shape
    <2> QED BY <2>1, <2>2, <2>3, <2>4 DEF Shape
<1>4. Quiet'
    <2>1. alive /\ ~(lives > 1 /\ task[Recoverer] = "idle")
        BY <1>0, <1>2 DEF Quiet, Over
    <2>2. task'[Recoverer] = "idle" => task[Recoverer] = "idle"
        BY <1>1, <1>2, Names
    <2> QED BY <2>1, <2>2 DEF Quiet
<1>5. Settled'
    <2>1. \A n \in Ms : n \in Tasks
        BY Names
    <2>2. \A n \in Ms : task[n] = "done" => task'[n] = "done"
        BY <1>1, <1>2, <2>1
    <2>3. \A n \in Ms : task'[n] = "idle" => task[n] = "idle"
        BY <1>1, <1>2, <2>1
    <2> QED BY <1>0, <1>s, <2>2, <2>3 DEF Settled
<1>6. Greeting'
    <2>1. \A s \in Tasks : task'[s] = "hello" => task[s] = "hello"
        BY <1>1, <1>2
    <2>2. ASSUME NEW s \in Tasks, task[s] = "hello" PROVE task'[link[s]] = "watching"
        <3>1. link[s] \in 1..made /\ task[link[s]] = "watching"
            BY <1>0, <2>2 DEF Greeting
        <3>2. link[s] \in Conns /\ link[s] \in Tasks
            BY <1>0, <3>1, ConnNumbers, Names
        <3>3. link[s] # t
            BY <2>2, <3>1, <3>2
        <3> QED BY <1>1, <3>1, <3>2, <3>3
    <2> QED BY <1>0, <1>f, <2>1, <2>2 DEF Greeting
<1>7. OneDriver'
    <2>1. \A s \in Tasks : Drives(s)' => Drives(s)
        BY <1>1, Names DEF Drives
    <2> QED BY <1>0, <1>f, <1>s, <2>1 DEF OneDriver
<1>8. Silent' /\ CurrentOnly'
    <2>1. \A s \in Tasks : task'[s] \in {"start", "dial", "hello"} =>
                            task[s] \in {"start", "dial", "hello"}
        BY <1>1, Names
    <2> QED BY <1>0, <1>f, <2>1 DEF Silent, CurrentOnly
<1>9. HasProcess'
    <2>1. \A n \in Ms : task'[n] \in {"dial", "hello"} => task[n] \in {"dial", "hello"}
        BY <1>1, Names
    <2>2. \A l \in Conns : task'[l] \in {"start", "dial", "hello"} =>
                            task[l] \in {"start", "dial", "hello"}
        BY <1>1, Names
    <2> QED BY <1>0, <2>1, <2>2 DEF HasProcess
<1>10. KeepsWatch'
    <2>1. \A l \in Conns : Supervises(l) => Supervises(l)' \/ task'[l] = "lost"
        BY <1>1, Names DEF Supervises
    <2>2. \A l \in Conns : task[l] = "lost" => task'[l] = "lost"
        BY <1>1, <1>2, Names
    <2> QED BY <1>0, <2>1, <2>2 DEF KeepsWatch, Lost
<1> QED BY <1>3, <1>4, <1>5, <1>6, <1>7, <1>8, <1>9, <1>10 DEF Rest

LEMMA GivesUpRest == ASSUME IInv, NEW t \in Tasks, DialFails(t) \/ HelloFails(t) PROVE Rest'
<1>1. PICK x : /\ GivesUp(t, x)
               /\ \/ task[t] = "dial" /\ x = IF t \in Ms THEN "failed" ELSE "lost"
                  \/ task[t] = "hello" /\ x = "failed"
    BY DEF DialFails, HelloFails
<1>2. UNCHANGED <<alive, lives, known, link, made, of, open, saved, msConn, proc, cur>>
    BY DEF DialFails, HelloFails, nodeVars, connVars, agentVars
<1>3. PICK y : /\ task' = [task EXCEPT ![t] = y]
               /\ y = IF t = Recoverer THEN "next" ELSE x
    BY <1>1 DEF GivesUp
<1>4. todo' \subseteq todo
    BY <1>1 DEF GivesUp
<1>5. t \in Ms => y = "failed" /\ task[t] \in {"dial", "hello"}
    BY <1>1, <1>3, Names
<1>6. t = Recoverer => y \in {"next", "done"} /\ task[t] \in {"dial", "hello", "next"}
    BY <1>1, <1>3
<1>7. t \in Conns => \/ y = "lost" /\ task[t] \in {"start", "dial"}
                     \/ y = "failed" /\ task[t] = "hello"
    BY <1>1, <1>3, Names
<1> QED BY <1>2, <1>3, <1>4, <1>5, <1>6, <1>7, MoveRest

LEMMA WatchFiresRest == ASSUME IInv, NEW k \in Conns, WatchFires(k) PROVE Rest'
<1>1. task' = [task EXCEPT ![k] = "kill"] /\ task[k] = "watching"
      /\ \A s \in Tasks : ~(task[s] = "hello" /\ link[s] = k)
    BY DEF WatchFires
<1>2. UNCHANGED <<alive, lives, known, link, made, of, open, saved, msConn, proc, cur, todo>>
    BY DEF WatchFires, nodeVars, connVars, agentVars, recoverVars
<1>3. k \in Tasks /\ k \notin Ms /\ k # Recoverer
    BY Names
<1> QED BY <1>1, <1>2, <1>3, MoveRest

LEMMA StartRest == ASSUME IInv, NEW k \in Conns, Start(k) PROVE Rest'
<1>1. PICK x \in {"dial", "lost"} : task' = [task EXCEPT ![k] = x]
    BY DEF Start
<1>2. task[k] = "start"
      /\ UNCHANGED <<alive, lives, known, link, made, of, open, saved, msConn, proc, cur, todo>>
    BY DEF Start, nodeVars, connVars, agentVars, recoverVars
<1>3. k \in Tasks /\ k \notin Ms /\ k # Recoverer
    BY Names
<1> QED BY <1>1, <1>2, <1>3, MoveRest

LEMMA HelloRest == ASSUME IInv, NEW t \in Tasks, Hello(t) PROVE Rest'
<1>0. TypeOK /\ Shape /\ Quiet /\ Settled /\ Greeting /\ OneDriver /\ Silent /\ CurrentOnly
      /\ HasProcess /\ KeepsWatch
    BY DEF IInv
<1>t. task[t] = "hello"
    BY DEF Hello
<1>k. PICK k : k = link[t]
    OBVIOUS
<1>m. PICK m : m = For(t)
    OBVIOUS
<1>1. k \in 1..made /\ k \in Conns /\ k \in Tasks /\ of[k] = m /\ task[k] = "watching" /\ m \in Ms
      /\ For(k) = m
    <2>1. k \in 1..made /\ of[k] = m /\ task[k] = "watching"
        BY <1>0, <1>t, <1>k, <1>m DEF Greeting
    <2>2. k \in Conns /\ m \in Ms
        BY <1>0, <1>t, <1>m, <2>1, ConnNumbers, ForType
    <2> QED BY <2>1, <2>2, ForIs, Names
<1>2. PICK x : x = IF t = Recoverer THEN "next" ELSE "done"
    OBVIOUS
<1>3. /\ UNCHANGED <<alive, lives, known, link, made, of, open, todo, cur>>
      /\ saved' = saved \cup {k}
      /\ msConn' = [msConn EXCEPT ![m] = k]
      /\ task' = [task EXCEPT ![t] = x]
      /\ proc' = IF t = Recoverer THEN [proc EXCEPT ![m] = m] ELSE proc
    BY <1>k, <1>m, <1>2 DEF Hello, nodeVars, connVars, recoverVars
<1>4. \A s \in Tasks : task'[s] = IF s = t THEN x ELSE task[s]
    BY <1>0, <1>3, TaskAt
<1>5. \A n \in Ms : msConn'[n] = IF n = m THEN k ELSE msConn[n]
    <2>1. msConn \in [Ms -> 0..made]
        BY <1>0 DEF TypeOK
    <2> QED BY <1>3, <2>1
<1>6. \A n \in Ms : proc[n] # None => proc'[n] # None
    <2>1. proc \in [Ms -> Ms \cup {None}]
        BY <1>0 DEF TypeOK
    <2> QED BY <1>3, <2>1, Names
<1>7. proc'[m] # None
    <2>1. CASE t \in Ms
        BY <1>0, <1>1, <1>t, <1>m, <1>6, <2>1, ForIs DEF HasProcess
    <2>2. CASE t \in Conns
        BY <1>0, <1>1, <1>t, <1>m, <1>6, <2>2, ForIs DEF HasProcess
    <2>3. CASE t = Recoverer
        <3>1. proc \in [Ms -> Ms \cup {None}]
            BY <1>0 DEF TypeOK
        <3> QED BY <1>1, <1>3, <2>3, <3>1, Names
    <2> QED BY <2>1, <2>2, <2>3, Names
<1>f. \A s \in Tasks : For(s)' = For(s)
    BY <1>3, SameFor
<1>8. Shape'
    <2>1. \A n \in Ms : task'[n] \in {"idle", "dial", "hello", "done", "failed", "dead"}
        BY <1>0, <1>2, <1>4, Names DEF Shape
    <2>2. \A l \in Conns : task'[l] \in {"idle", "watching", "kill", "start", "dial", "hello",
                                       "done", "failed", "lost", "dead"}
        BY <1>0, <1>2, <1>4, Names DEF Shape
    <2>3. /\ task'[Recoverer] \in {"idle", "next", "dial", "hello", "done", "dead"}
          /\ task'[Recoverer] \in {"dial", "hello"} => cur' \in Ms
        BY <1>0, <1>2, <1>3, <1>4, Names DEF Shape
    <2>4. \A l \in Conns : l > made' => task'[l] = "idle"
        BY <1>0, <1>3, <1>t, <1>4, Names DEF Shape
    <2> QED BY <2>1, <2>2, <2>3, <2>4 DEF Shape
<1>9. Quiet'
    <2>1. alive /\ ~(lives > 1 /\ task[Recoverer] = "idle")
        BY <1>0, <1>t DEF Quiet, Over
    <2>2. task'[Recoverer] = "idle" => task[Recoverer] = "idle"
        BY <1>2, <1>4, Names
    <2> QED BY <1>3, <2>1, <2>2 DEF Quiet
<1>10. Settled'
    <2>1. known \cup todo \subseteq Ms /\ \A n \in Ms : n \in Tasks
        BY <1>0, Names DEF TypeOK
    <2>2. \A n \in Ms : /\ task[n] = "done" => task'[n] = "done"
                        /\ task'[n] = "idle" => task[n] = "idle"
        BY <1>2, <1>t, <1>4, <2>1
    <2> QED BY <1>0, <1>3, <2>1, <2>2 DEF Settled
<1>11. Greeting'
    <2>1. \A s \in Tasks : task'[s] = "hello" => task[s] = "hello"
        BY <1>2, <1>4
    <2>2. ASSUME NEW s \in Tasks, task[s] = "hello" PROVE task'[link[s]] = "watching"
        <3>1. link[s] \in 1..made /\ task[link[s]] = "watching"
            BY <1>0, <2>2 DEF Greeting
        <3>2. link[s] \in Tasks
            BY <1>0, <3>1, ConnNumbers, Names
        <3> QED BY <1>t, <1>4, <3>1, <3>2
    <2> QED BY <1>0, <1>3, <1>f, <2>1, <2>2 DEF Greeting
<1>12. OneDriver'
    <2>1. \A s \in Tasks : Drives(s)' <=> Drives(s)
        BY <1>2, <1>t, <1>4 DEF Drives
    <2> QED BY <1>0, <1>3, <1>f, <2>1 DEF OneDriver
<1>13. Silent'
    <2> SUFFICES ASSUME NEW s \in Tasks, task'[s] \in {"start", "dial", "hello"},
                        NEW l \in open \cap (saved \cup {k})
                 PROVE  of[l] # For(s)
        BY <1>3, <1>f DEF Silent
    <2>1. s # t /\ task[s] \in {"start", "dial", "hello"}
        BY <1>2, <1>4
    <2>2. CASE l \in saved
        BY <1>0, <2>1, <2>2 DEF Silent
    <2>3. CASE l = k
        <3>1. Drives(k)
            BY <1>1 DEF Drives
        <3>2. CASE task[s] \in {"start", "dial"}
            <4>1. Drives(s) /\ s # k
                BY <1>1, <3>2 DEF Drives
            <4> QED BY <1>0, <1>1, <2>3, <3>1, <4>1 DEF OneDriver
        <3>3. CASE task[s] = "hello"
            <4>1. /\ link[s] \in 1..made /\ of[link[s]] = For(s) /\ task[link[s]] = "watching"
                  /\ link[s] # k
                BY <1>0, <1>t, <1>k, <2>1, <3>3 DEF Greeting
            <4>2. link[s] \in Conns /\ link[s] \in Tasks
                BY <1>0, <4>1, ConnNumbers, Names
            <4>3. Drives(link[s]) /\ For(link[s]) = For(s)
                BY <4>1, <4>2, ForIs DEF Drives
            <4> QED BY <1>0, <1>1, <2>3, <3>1, <4>1, <4>2, <4>3 DEF OneDriver
        <3> QED BY <2>1, <3>2, <3>3
    <2> QED BY <2>2, <2>3
<1>14. CurrentOnly'
    <2> SUFFICES ASSUME NEW l \in open \cap (saved \cup {k}) PROVE msConn'[of[l]] = l
        BY <1>3 DEF CurrentOnly
    <2>1. CASE l = k
        BY <1>1, <1>5, <2>1
    <2>2. CASE l \in saved
        <3>1. of[l] # m /\ msConn[of[l]] = l
            BY <1>0, <1>t, <1>m, <2>2 DEF Silent, CurrentOnly
        <3>2. of[l] \in Ms
            <4>1. l \in Conns /\ l <= made
                BY <1>0, <2>2, ConnNumbers DEF TypeOK
            <4> QED BY <1>0, <4>1 DEF TypeOK
        <3> QED BY <1>5, <3>1, <3>2
    <2> QED BY <2>1, <2>2
<1>15. HasProcess'
    <2>1. \A n \in Ms : task'[n] \in {"dial", "hello"} => task[n] \in {"dial", "hello"}
        BY <1>2, <1>4, Names
    <2>2. \A l \in Conns : task'[l] \in {"start", "dial", "hello"} =>
                            task[l] \in {"start", "dial", "hello"} /\ of[l] \in Ms
        BY <1>0, <1>2, <1>4, ForType, ForIs, Names
    <2> QED BY <1>0, <1>3, <1>6, <2>1, <2>2 DEF HasProcess
<1>16. KeepsWatch'
    <2>1. \A l \in Conns : /\ Supervises(l) => Supervises(l)'
                           /\ task[l] = "lost" => task'[l] = "lost"
        BY <1>t, <1>4, Names DEF Supervises
    <2>2. ASSUME NEW n \in Ms, n # m, msConn'[n] # 0
          PROVE  proc'[n] # None /\ (Lost(n)' \/ \E l \in Conns : of'[l] = n /\ Supervises(l)')
        BY <1>0, <1>3, <1>5, <1>6, <2>1, <2>2 DEF KeepsWatch, Lost
    <2>3. Supervises(k)
        BY <1>1 DEF Supervises
    <2>4. proc'[m] # None /\ \E l \in Conns : of'[l] = m /\ Supervises(l)'
        BY <1>1, <1>3, <1>7, <2>1, <2>3
    <2> QED BY <2>2, <2>4 DEF KeepsWatch
<1> QED BY <1>8, <1>9, <1>10, <1>11, <1>12, <1>13, <1>14, <1>15, <1>16 DEF Rest

LEMMA KillRest == ASSUME IInv, NEW k \in Conns, Kill(k) PROVE Rest'
<1>0. TypeOK /\ Shape /\ Quiet /\ Settled /\ Greeting /\ OneDriver /\ Silent /\ CurrentOnly
      /\ HasProcess /\ KeepsWatch
    BY DEF IInv
<1>1. /\ UNCHANGED <<alive, lives, known, link, made, of, saved, msConn, proc, todo, cur>>
      /\ task[k] = "kill" /\ proc[of[k]] # None
      /\ open' = open \ {msConn[of[k]]}
      /\ task' = [task EXCEPT ![k] = "start"]
    BY DEF Kill, nodeVars, agentVars, recoverVars
<1>2. k \in Tasks /\ k \notin Ms /\ k # Recoverer /\ For(k) = of[k]
    BY Names, ForIs
<1>3. \A s \in Tasks : task'[s] = IF s = k THEN "start" ELSE task[s]
    <2>1. task \in [Tasks -> Phases]
        BY <1>0 DEF TypeOK
    <2> QED BY <1>1, <1>2, <2>1
<1>f. \A s \in Tasks : For(s)' = For(s)
    BY <1>1, SameFor
<1>4. Shape'
    <2>1. k <= made
        BY <1>0, <1>1, ConnNumbers DEF Shape, Conns
    <2> QED BY <1>0, <1>1, <1>2, <1>3, <2>1, Names DEF Shape
<1>5. Quiet' /\ Settled'
    <2>1. alive /\ ~(lives > 1 /\ task[Recoverer] = "idle")
        BY <1>0, <1>1, <1>2 DEF Quiet, Over
    <2>2. known \cup todo \subseteq Ms /\ \A n \in Ms : n \in Tasks
        BY <1>0, Names DEF TypeOK
    <2> QED BY <1>0, <1>1, <1>2, <1>3, <2>1, <2>2, Names DEF Quiet, Settled
<1>6. Greeting'
    <2>1. \A s \in Tasks : task'[s] = "hello" => task[s] = "hello"
        BY <1>3
    <2>2. ASSUME NEW s \in Tasks, task[s] = "hello" PROVE task'[link[s]] = "watching"
        <3>1. link[s] \in 1..made /\ task[link[s]] = "watching"
            BY <1>0, <2>2 DEF Greeting
        <3>2. link[s] \in Tasks
            BY <1>0, <3>1, ConnNumbers, Names
        <3> QED BY <1>1, <1>3, <3>1, <3>2
    <2> QED BY <1>0, <1>1, <1>f, <2>1, <2>2 DEF Greeting
<1>7. OneDriver'
    <2>1. \A s \in Tasks : Drives(s)' <=> Drives(s)
        BY <1>1, <1>3 DEF Drives
    <2> QED BY <1>0, <1>1, <1>f, <2>1 DEF OneDriver
<1>8. Silent' /\ CurrentOnly'
    <2>1. ASSUME NEW s \in Tasks, task'[s] \in {"start", "dial", "hello"},
                 NEW l \in open' \cap saved'
          PROVE  of'[l] # For(s)'
        <3>1. CASE s = k
            BY <1>0, <1>1, <1>2, <1>f, <2>1, <3>1 DEF CurrentOnly
        <3>2. CASE s # k
            BY <1>0, <1>1, <1>3, <1>f, <2>1, <3>2 DEF Silent
        <3> QED BY <3>1, <3>2
    <2> QED BY <1>0, <1>1, <2>1 DEF Silent, CurrentOnly
<1>9. HasProcess'
    BY <1>0, <1>1, <1>3, Names DEF HasProcess
<1>10. KeepsWatch'
    <2>1. \A l \in Conns : /\ Supervises(l) => Supervises(l)'
                           /\ task[l] = "lost" => task'[l] = "lost"
        BY <1>1, <1>3, Names DEF Supervises
    <2> QED BY <1>0, <1>1, <2>1 DEF KeepsWatch, Lost
<1> QED BY <1>4, <1>5, <1>6, <1>7, <1>8, <1>9, <1>10 DEF Rest

\* Nothing that the invariant speaks of goes on in a dead agent.
LEMMA DiesRest == ASSUME IInv, Dies PROVE Rest'
<1>0. TypeOK /\ Shape /\ Settled
    BY DEF IInv
<1>1. \A t \in Tasks : task'[t] = IF task[t] \in Over THEN task[t] ELSE "dead"
    BY DEF Dies
<1>2. /\ ~alive' /\ open' = {} /\ todo' = {} /\ cur' = None
      /\ msConn' = [m \in Ms |-> 0]
      /\ UNCHANGED <<known, made, of>>
    BY DEF Dies
<1>3. \A t \in Tasks : task'[t] \in Over \cup {"dead"} /\ ~Drives(t)'
    BY <1>1 DEF Over, Drives
<1>4. Shape'
    <2>1. \A m \in Ms : task'[m] \in {"idle", "done", "failed", "dead"}
        BY <1>3, Names DEF Over
    <2>2. \A k \in Conns : task'[k] \in {"idle", "done", "failed", "dead"}
        BY <1>3, Names DEF Over
    <2>3. task'[Recoverer] \in {"idle", "done", "dead"}
        BY <1>0, <1>1, Names DEF Over, Shape
    <2>4. \A k \in Conns : k > made' => task'[k] = "idle"
        BY <1>0, <1>1, <1>2, Names DEF Over, Shape
    <2> QED BY <2>1, <2>2, <2>3, <2>4 DEF Shape
<1>5. Quiet'
    BY <1>2, <1>3 DEF Quiet
<1>6. Settled'
    <2>1. known \subseteq Ms /\ None \notin Ms /\ \A n \in Ms : n \in Tasks
        BY <1>0, Names DEF TypeOK
    <2>2. \A n \in Ms : /\ task[n] = "done" => task'[n] = "done"
                        /\ task'[n] = "idle" => task[n] = "idle"
        BY <1>1, <2>1 DEF Over
    <2> QED BY <1>0, <1>2, <2>1, <2>2 DEF Settled
<1>7. Greeting' /\ Silent' /\ CurrentOnly'
    BY <1>2, <1>3 DEF Greeting, Silent, CurrentOnly, Over
<1>8. OneDriver' /\ HasProcess'
    BY <1>2, <1>3, Names DEF OneDriver, HasProcess, Over
<1>9. KeepsWatch'
    BY <1>2 DEF KeepsWatch
<1> QED BY <1>4, <1>5, <1>6, <1>7, <1>8, <1>9 DEF Rest

LEMMA RecordsRest == ASSUME IInv, NEW m \in Ms, Records(m) PROVE Rest'
<1>1. /\ UNCHANGED <<alive, lives, task, link, made, of, open, saved, msConn, proc, todo, cur>>
      /\ task[m] = "done" /\ known' = known \cup {m}
    BY DEF Records, connVars, agentVars, recoverVars
<1>f. \A t \in Tasks : For(t)' = For(t)
    BY <1>1, SameFor
<1>2. Shape' /\ Quiet' /\ Settled' /\ HasProcess'
    BY <1>1 DEF IInv, Shape, Quiet, Settled, HasProcess
<1>3. Greeting' /\ OneDriver' /\ Silent'
    BY <1>1, <1>f DEF IInv, Greeting, OneDriver, Drives, Silent
<1>4. CurrentOnly' /\ KeepsWatch'
    BY <1>1 DEF IInv, CurrentOnly, KeepsWatch, Lost, Supervises
<1> QED BY <1>2, <1>3, <1>4 DEF Rest

\* The agent starts, or is asked to recover: nothing goes on in it yet.
LEMMA QuietRest == ASSUME IInv, AgentStarts \/ AsksRecover PROVE Rest'
<1>0. TypeOK /\ Shape /\ Settled /\ HasProcess /\ KeepsWatch
    BY DEF IInv
<1>1. open = {} /\ \A t \in Tasks : task[t] \in Over \cup {"dead"}
    BY DEF IInv, Quiet, AgentStarts, AsksRecover
<1>2. PICK x \in {"idle", "next"} :
        /\ task' = [task EXCEPT ![Recoverer] = x]
        /\ x = "idle" => lives' > 1
        /\ x = "next" => alive' /\ lives' > 1
    <2>1. CASE AgentStarts
        <3>1. lives' > 1
            BY <2>1, <1>0, AgentAssumption DEF AgentStarts, TypeOK
        <3> QED BY <2>1, <3>1 DEF AgentStarts
    <2>2. CASE AsksRecover
        BY <2>2 DEF AsksRecover, nodeVars
    <2> QED BY <2>1, <2>2
<1>3. /\ UNCHANGED <<known, link, made, of, open, saved, msConn, proc, cur>>
      /\ todo' \subseteq known \cup todo
    BY DEF AgentStarts, AsksRecover, nodeVars, connVars, agentVars, recoverVars
<1>4. \A t \in Tasks : task'[t] = IF t = Recoverer THEN x ELSE task[t]
    BY <1>0, <1>2, TaskAt, Names
<1>5. \A t \in Tasks : task'[t] \notin {"watching", "kill", "start", "dial", "hello"} /\ ~Drives(t)'
    BY <1>1, <1>4 DEF Over, Drives
<1>6. Shape'
    BY <1>0, <1>3, <1>4, Names DEF Shape
<1>7. Quiet'
    <2>1. CASE x = "idle"
        BY <1>1, <1>3, <1>4, <2>1 DEF Quiet, Over
    <2>2. CASE x = "next"
        BY <1>2, <1>4, <2>2, Names DEF Quiet
    <2> QED BY <2>1, <2>2
<1>8. Settled'
    <2>1. known \cup todo \subseteq Ms /\ \A n \in Ms : n \in Tasks /\ n # Recoverer
        BY <1>0, Names DEF TypeOK
    <2> QED BY <1>0, <1>3, <1>4, <2>1 DEF Settled
<1>9. Greeting' /\ Silent' /\ CurrentOnly'
    BY <1>1, <1>3, <1>5 DEF Greeting, Silent, CurrentOnly
<1>10. OneDriver'
    BY <1>1, <1>3, <1>5 DEF OneDriver
<1>11. HasProcess' /\ KeepsWatch'
    <2>1. \A l \in Conns : task'[l] = task[l]
        BY <1>4, Names
    <2> QED BY <1>0, <1>3, <1>5, <2>1, Names DEF HasProcess, KeepsWatch, Lost, Supervises
<1> QED BY <1>6, <1>7, <1>8, <1>9, <1>10, <1>11 DEF Rest

LEMMA RecoverNextRest == ASSUME IInv, RecoverNext PROVE Rest'
<1>0. TypeOK /\ Shape /\ Quiet /\ Settled /\ Greeting /\ OneDriver /\ Silent /\ CurrentOnly
      /\ HasProcess /\ KeepsWatch
    BY DEF IInv
<1>1. /\ UNCHANGED <<alive, lives, known, link, made, of, open, saved, msConn, proc>>
      /\ task[Recoverer] = "next"
    BY DEF RecoverNext, nodeVars, connVars, agentVars
<1>2. CASE task' = [task EXCEPT ![Recoverer] = "done"] /\ UNCHANGED <<todo, cur>>
    BY <1>1, <1>2, MoveRest, Names
<1>3. ASSUME NEW m \in todo, cur' = m, todo' = todo \ {m},
             task' = [task EXCEPT ![Recoverer] = "dial"]
      PROVE  Rest'
    <2>1. \A s \in Tasks : task'[s] = IF s = Recoverer THEN "dial" ELSE task[s]
        BY <1>0, <1>3, TaskAt, Names
    <2>2. m \in Ms /\ task[m] = "done" /\ m # Recoverer
        BY <1>0, <1>3, Names DEF TypeOK, Settled
    <2>f. For(Recoverer)' = m /\ \A s \in Tasks : s # Recoverer => For(s)' = For(s)
        <3>1. For(Recoverer)' = m
            BY <1>3, ForIs
        <3> QED BY <1>1, <3>1, Names, ForIs
    <2>3. Shape'
        BY <1>0, <1>1, <1>3, <2>1, <2>2, Names DEF Shape
    <2>4. Quiet'
        <3>1. alive /\ ~(lives > 1 /\ task[Recoverer] = "idle")
            BY <1>0, <1>1, Names DEF Quiet, Over
        <3> QED BY <1>1, <2>1, <3>1, Names DEF Quiet
    <2>5. Settled'
        <3>1. known \cup todo \subseteq Ms /\ \A n \in Ms : n \in Tasks /\ n # Recoverer
            BY <1>0, Names DEF TypeOK
        <3> QED BY <1>0, <1>1, <1>3, <2>1, <2>2, <3>1 DEF Settled
    <2>6. Greeting'
        <3>1. \A s \in Tasks : task'[s] = "hello" => task[s] = "hello" /\ s # Recoverer
            BY <2>1
        <3>2. ASSUME NEW s \in Tasks, task[s] = "hello" PROVE task'[link[s]] = "watching"
            <4>1. link[s] \in 1..made /\ task[link[s]] = "watching"
                BY <1>0, <3>2 DEF Greeting
            <4>2. link[s] \in Tasks
                BY <1>0, <4>1, ConnNumbers, Names
            <4> QED BY <1>1, <2>1, <4>1, <4>2
        <3> QED BY <1>0, <1>1, <2>f, <3>1, <3>2 DEF Greeting
    <2>7. OneDriver'
        <3>1. \A s \in Tasks : s # Recoverer => (Drives(s)' <=> Drives(s))
            BY <2>1 DEF Drives
        <3>2. \A s \in Tasks : s # Recoverer /\ Drives(s)' => For(s)' # m
            BY <1>0, <2>f, <3>1 DEF OneDriver
        <3>3. \A r, s \in Tasks : Drives(r)' /\ Drives(s)' /\ For(r)' = For(s)' => r = s
            BY <1>0, <2>f, <3>1, <3>2 DEF OneDriver
        <3>4. \A n \in todo' : /\ \A s \in Tasks : Drives(s)' => For(s)' # n
                             /\ \A l \in open' : of'[l] # n
            BY <1>0, <1>1, <1>3, <2>f, <3>1 DEF OneDriver
        <3> QED BY <3>3, <3>4 DEF OneDriver
    <2>8. Silent' /\ CurrentOnly'
        <3>1. \A l \in open : of[l] # m
            BY <1>0 DEF OneDriver
        <3> QED BY <1>0, <1>1, <2>1, <2>f, <3>1 DEF Silent, CurrentOnly
    <2>9. HasProcess' /\ KeepsWatch'
        <3>1. \A n \in Ms : task'[n] = task[n]
            BY <2>1, Names
        <3>2. \A l \in Conns : task'[l] = task[l]
            BY <2>1, Names
        <3> QED BY <1>0, <1>1, <3>1, <3>2 DEF HasProcess, KeepsWatch, Lost, Supervises
    <2> QED BY <2>3, <2>4, <2>5, <2>6, <2>7, <2>8, <2>9 DEF Rest
<1> QED BY <1>2, <1>3 DEF RecoverNext, recoverVars

LEMMA RestStep == IInv /\ [Next]_vars => Rest'
<1> SUFFICES ASSUME IInv, [Next]_vars PROVE Rest'
    OBVIOUS
<1> USE DEF nodeVars, connVars, agentVars, recoverVars
<1>1. CASE UNCHANGED vars
    BY <1>1, OutsideRest DEF vars
<1>2. ASSUME NEW m \in Ms, Create(m) \/ GoesStale(m) \/ Records(m) PROVE Rest'
    BY <1>2, CreateRest, OutsideRest, RecordsRest DEF GoesStale
<1>3. ASSUME NEW t \in Tasks, Connects(t) PROVE Rest'
    BY <1>3, DialRest, GivesUpRest, HelloRest DEF Connects
<1>4. ASSUME NEW k \in Conns, Restarts(k) PROVE Rest'
    BY <1>4, WatchFiresRest, KillRest, StartRest, DiesRest DEF Restarts, Panics
<1>5. ASSUME NEW k \in Conns, Beat(k) PROVE Rest'
    BY <1>5, OutsideRest DEF Beat
<1>6. ASSUME NEW p \in Processes, Runs(p) \/ Crash(p) PROVE Rest'
    BY <1>6, OutsideRest DEF Runs, Bind, Exits, Crash
<1>7. CASE AgentDies \/ AgentStarts \/ AsksRecover \/ RecoverNext
    BY <1>7, DiesRest, QuietRest, RecoverNextRest DEF AgentDies
<1> QED BY <1>1, <1>2, <1>3, <1>4, <1>5, <1>6, <1>7 DEF Next

LEMMA InitHolds == Init => IInv
<1> SUFFICES ASSUME Init PROVE IInv
    OBVIOUS
<1>1. TypeOK
    <2>1. lives \in 1..MaxLives /\ made \in 0..MaxConns /\ faults \in 0..MaxFaults /\ count \in Ports
        BY AgentAssumption DEF Init, Ports
    <2>2. /\ port \in [Ms -> Ports \cup {None}] /\ task \in [Tasks -> Phases]
          /\ link \in [Tasks -> 0..made] /\ msConn \in [Ms -> 0..made]
          /\ fresh \in [Ms -> BOOLEAN] /\ proc \in [Ms -> Ms \cup {None}]
          /\ process \in [Processes -> {"none", "starting", "up", "dying", "gone"}]
        BY DEF Init, Phases, Over
    <2>3. /\ of \in [Conns -> Ms \cup {None}] /\ peer \in [Conns -> Processes \cup {None}]
          /\ \A k \in Conns : of[k] = None /\ peer[k] = None /\ ~(k <= made)
        BY DEF Init, Conns
    <2> QED BY <2>1, <2>2, <2>3 DEF Init, TypeOK
<1>2. \A t \in Tasks : task[t] = "idle"
    BY DEF Init
<1>3. Shape /\ Quiet /\ Settled
    BY <1>2, Names DEF Init, Shape, Quiet, Settled, Over
<1>4. Greeting /\ OneDriver /\ Silent
    BY <1>2 DEF Init, Greeting, OneDriver, Drives, Silent
<1>5. CurrentOnly /\ HasProcess /\ KeepsWatch
    BY <1>2, Names DEF Init, CurrentOnly, HasProcess, KeepsWatch
<1> QED BY <1>1, <1>3, <1>4, <1>5 DEF IInv

LEMMA Invariant == Spec => []IInv
<1>1. IInv /\ [Next]_vars => IInv'
    BY TypeStep, RestStep DEF Rest, IInv
<1> QED BY InitHolds, <1>1, PTL DEF Spec

\* Every step keeps the types: the bookkeeping of connections and processes
\* stays within its bounds, and nextPortCount within uint16.
THEOREM TypeCorrect == Spec => []TypeOK
<1>1. IInv => TypeOK
    BY DEF IInv
<1> QED BY Invariant, <1>1, PTL

\* A service is watched or restarted once at a time: whoever connects to it
\* anew has its hands on it until the new connection has its watcher, and the
\* restarted agent recovers only what nothing else in it works on.
THEOREM WatchedOnce == Spec => []OneWatcher
<1>1. IInv => OneWatcher
    <2> SUFFICES ASSUME IInv, NEW k \in Conns, NEW l \in Conns,
                        Supervises(k), Supervises(l), of[k] = of[l]
                 PROVE  k = l
        BY DEF OneWatcher
    <2>1. Drives(k) /\ Drives(l) /\ For(k) = For(l) /\ k \in Tasks /\ l \in Tasks
        BY ForIs, Names DEF Supervises, Drives
    <2> QED BY <2>1 DEF IInv, OneDriver
<1> QED BY Invariant, <1>1, PTL

\* A service is heard over the connection in msConn alone: when a HELLO is
\* answered no older connection to the service is open and known any more.
THEOREM HeardOnce == Spec => []CurrentOnly
<1>1. IInv => CurrentOnly
    BY DEF IInv
<1> QED BY Invariant, <1>1, PTL

\* A service in msConn keeps its watcher and the process it is to kill, but for
\* a restart that could not start or reach its process.
THEOREM WatchStays == Spec => []KeepsWatch
<1>1. IInv => KeepsWatch
    BY DEF IInv
<1> QED BY Invariant, <1>1, PTL

-----------------------------------------------------------------------------
(* The ports of the first agent process.                                    *)

Asked == {m \in Ms : task[m] # "idle"}

\* As many ports are given out as services were asked for, each to one of them,
\* and every process was started for one of them.
Numbered ==
    lives = 1 =>
        /\ alive => count = Cardinality(Asked) % PortSpace
        /\ \A m \in Asked : port[m] \in 0..Cardinality(Asked) - 1
        /\ \A m, n \in Asked : port[m] = port[n] => m = n
        /\ \A p \in Processes : process[p] # "none" => For(p) \in Asked

LEMMA AskedSize ==
    /\ \A m \in Ms \ Asked :
          Cardinality(Asked) + 1 <= PortSpace /\ Cardinality(Asked \cup {m}) = Cardinality(Asked) + 1
    /\ IsFiniteSet(Asked) /\ Cardinality(Asked) \in Nat
<1>0. IsFiniteSet(Ms) /\ Cardinality(Ms) <= PortSpace /\ PortSpace \in Nat
    BY AgentAssumption
<1>1. IsFiniteSet(Asked) /\ Cardinality(Asked) \in Nat /\ Cardinality(Ms) \in Nat
    BY <1>0, FS_Subset, FS_CardinalityType DEF Asked
<1>2. ASSUME NEW m \in Ms \ Asked
      PROVE  Cardinality(Asked) + 1 <= PortSpace /\ Cardinality(Asked \cup {m}) = Cardinality(Asked) + 1
    <2>1. Cardinality(Asked \cup {m}) = Cardinality(Asked) + 1
        BY <1>1, <1>2, FS_AddElement
    <2>2. Asked \cup {m} \in SUBSET Ms
        BY DEF Asked
    <2>3. Cardinality(Asked \cup {m}) <= Cardinality(Ms)
        BY <1>0, <2>2, FS_Subset
    <2> QED BY <1>0, <1>1, <2>1, <2>3
<1> QED BY <1>1, <1>2

LEMMA SmallMod == ASSUME NEW c \in Nat, NEW n \in Nat, c < n PROVE c % n = c
OBVIOUS

\* The service that a process was started for does not change.
LEMMA ForProcess ==
    /\ \A m \in Ms : For(m) = m /\ For(m)' = m
    /\ \A k \in Conns : For(k) = of[k] /\ For(k)' = of'[k]
    /\ \A p \in Processes : p \in Ms \/ p \in Conns
BY ForIs, Names

\* What all steps but Create, Dial and AgentStarts leave as it is.
Steady ==
    /\ UNCHANGED <<port, lives, of, peer>> /\ open' \subseteq open
    /\ alive' => alive /\ count' = count
    /\ \A m \in Ms : task'[m] = "idle" <=> task[m] = "idle"
    /\ \A p \in Processes : process'[p] # "none" =>
          process[p] # "none" \/ (p \in Conns /\ task[p] = "start")

LEMMA SteadyTask ==
    ASSUME TypeOK, NEW t \in Tasks, NEW x, task' = [task EXCEPT ![t] = x],
           t \in Ms => x # "idle" /\ task[t] # "idle"
    PROVE  \A m \in Ms : task'[m] = "idle" <=> task[m] = "idle"
BY TaskAt, Names

LEMMA SteadyProcess ==
    ASSUME TypeOK, NEW q \in Processes, NEW x, process' = [process EXCEPT ![q] = x],
           process[q] = "none" => x = "none" \/ (q \in Conns /\ task[q] = "start")
    PROVE  \A p \in Processes : process'[p] # "none" =>
              process[p] # "none" \/ (p \in Conns /\ task[p] = "start")
<1>1. process \in [Processes -> {"none", "starting", "up", "dying", "gone"}]
    BY DEF TypeOK
<1> QED BY <1>1

LEMMA SteadyDies ==
    ASSUME IInv, Dies
    PROVE  /\ UNCHANGED <<port, lives, of, peer>> /\ open' \subseteq open /\ ~alive'
           /\ \A m \in Ms : task'[m] = "idle" <=> task[m] = "idle"
BY Names DEF Dies, Over

LEMMA SteadyStep ==
    ASSUME IInv,
           \/ UNCHANGED vars
           \/ \E m \in Ms : GoesStale(m) \/ Records(m)
           \/ \E t \in Tasks : DialFails(t) \/ Hello(t) \/ HelloFails(t)
           \/ \E k \in Conns : Restarts(k) \/ Beat(k)
           \/ \E p \in Processes : Runs(p) \/ Crash(p)
           \/ AgentDies \/ AsksRecover \/ RecoverNext
    PROVE  Steady
<1>0. TypeOK /\ Shape
    BY DEF IInv
<1> USE DEF nodeVars, connVars, agentVars, recoverVars
<1>1. CASE UNCHANGED vars
    BY <1>1 DEF vars, Steady
<1>2. ASSUME NEW m \in Ms, GoesStale(m) \/ Records(m) PROVE Steady
    BY <1>2 DEF GoesStale, Records, Steady
<1>3. ASSUME NEW t \in Tasks, DialFails(t) \/ Hello(t) \/ HelloFails(t) PROVE Steady
    <2>1. \E x \in {"next", "done", "failed", "lost"} : task' = [task EXCEPT ![t] = x]
        BY <1>3 DEF DialFails, Hello, HelloFails, GivesUp
    <2>2. task[t] \in {"dial", "hello"}
        BY <1>3 DEF DialFails, Hello, HelloFails
    <2>3. \A m \in Ms : task'[m] = "idle" <=> task[m] = "idle"
        BY <1>0, <2>1, <2>2, SteadyTask
    <2> QED BY <1>3, <2>3 DEF DialFails, Hello, HelloFails, Steady
<1>4. ASSUME NEW k \in Conns, WatchFires(k) \/ Start(k) PROVE Steady
    <2>1. \E x : task' = [task EXCEPT ![k] = x]
        BY <1>4 DEF WatchFires, Start
    <2>2. \A m \in Ms : task'[m] = "idle" <=> task[m] = "idle"
        BY <1>0, <2>1, SteadyTask, Names
    <2>3. \A p \in Processes : process'[p] # "none" =>
              process[p] # "none" \/ (p \in Conns /\ task[p] = "start")
        <3>1. CASE process' = process
            BY <3>1
        <3>2. CASE process' # process
            <4>1. process' = [process EXCEPT ![k] = "starting"] /\ task[k] = "start"
                BY <1>4, <3>2 DEF WatchFires, Start
            <4> QED BY <1>0, <4>1, SteadyProcess, Names
        <3> QED BY <3>1, <3>2
    <2> QED BY <1>4, <2>2, <2>3 DEF WatchFires, Start, Steady
<1>5. ASSUME NEW k \in Conns, Kill(k) \/ Panics(k) PROVE Steady
    <2>1. of[k] \in Ms
        <3>1. task[k] = "kill"
            BY <1>5 DEF Kill, Panics
        <3> QED BY <1>0, <3>1, ForType, ForIs, Names
    <2>2. \A p \in Processes : process'[p] # "none" =>
              process[p] # "none" \/ (p \in Conns /\ task[p] = "start")
        <3>1. CASE process' = process
            BY <3>1
        <3>2. CASE process' # process
            <4>1. proc[of[k]] \in Processes
                BY <1>0, <1>5, <2>1, <3>2, Names DEF Kill, Panics, TypeOK
            <4>2. process' = [process EXCEPT ![proc[of[k]]] = Killed(proc[of[k]])]
                BY <1>5, <3>2 DEF Kill, Panics
            <4>3. process[proc[of[k]]] = "none" => Killed(proc[of[k]]) = "none"
                BY DEF Killed
            <4> QED BY <1>0, <4>1, <4>2, <4>3, SteadyProcess
        <3> QED BY <3>1, <3>2
    <2>3. CASE Kill(k)
        <3>1. \A m \in Ms : task'[m] = "idle" <=> task[m] = "idle"
            BY <1>0, <2>3, SteadyTask, Names DEF Kill
        <3> QED BY <2>2, <2>3, <3>1 DEF Kill, Steady
    <2>4. CASE Panics(k)
        BY <2>2, <2>4, SteadyDies DEF Panics, Steady
    <2> QED BY <1>5, <2>3, <2>4
<1>6. ASSUME NEW k \in Conns, Beat(k) PROVE Steady
    BY <1>6 DEF Beat, Steady
<1>7. ASSUME NEW p \in Processes, Runs(p) \/ Crash(p) PROVE Steady
    <2>1. (\E x : process' = [process EXCEPT ![p] = x]) /\ process[p] # "none"
        BY <1>7 DEF Runs, Bind, Exits, Crash, Live
    <2>2. \A q \in Processes : process'[q] # "none" =>
              process[q] # "none" \/ (q \in Conns /\ task[q] = "start")
        BY <1>0, <2>1, SteadyProcess
    <2> QED BY <1>7, <2>2 DEF Runs, Bind, Exits, Crash, Steady
<1>8. CASE AgentDies
    BY <1>8, SteadyDies DEF AgentDies, Steady
<1>9. CASE AsksRecover \/ RecoverNext
    <2>1. \E x : task' = [task EXCEPT ![Recoverer] = x]
        BY <1>9 DEF AsksRecover, RecoverNext
    <2>2. \A m \in Ms : task'[m] = "idle" <=> task[m] = "idle"
        BY <1>0, <2>1, SteadyTask, Names
    <2> QED BY <1>9, <2>2 DEF AsksRecover, RecoverNext, Steady
<1> QED BY <1>1, <1>2, <1>3, <1>4, <1>5, <1>6, <1>7, <1>8, <1>9 DEF Restarts

LEMMA SteadyKeeps ==
    ASSUME IInv, Numbered, OwnProcess, Steady
    PROVE  Numbered' /\ OwnProcess'
<1>1. Asked' = Asked
    BY DEF Steady, Asked
<1>2. \A p \in Processes : For(p)' = For(p)
    BY ForProcess DEF Steady
<1>3. \A k \in Conns : task[k] = "start" => For(k) \in Asked
    <2> SUFFICES ASSUME NEW k \in Conns, task[k] = "start" PROVE For(k) \in Asked
        OBVIOUS
    <2>1. For(k) \in Ms /\ For(k) = of[k]
        BY ForType, ForIs, Names DEF IInv
    <2> QED BY <2>1 DEF IInv, Settled, Asked
<1>4. \A k \in open : peer[k] \in Processes
    <2>1. \A k \in open : k \in Conns /\ k <= made
        BY ConnNumbers DEF IInv, TypeOK
    <2> QED BY <2>1 DEF IInv, TypeOK
<1>5. Numbered'
    BY <1>1, <1>2, <1>3 DEF Steady, Numbered
<1>6. OwnProcess'
    BY <1>2, <1>4 DEF Steady, OwnProcess
<1> QED BY <1>5, <1>6

LEMMA CreateKeeps ==
    ASSUME IInv, Numbered, OwnProcess, lives = 1, NEW m \in Ms, Create(m)
    PROVE  Numbered' /\ OwnProcess'
<1>0. TypeOK /\ Settled
    BY DEF IInv
<1>c. PICK c : c = Cardinality(Asked)
    OBVIOUS
<1>1. /\ alive /\ task[m] = "idle" /\ count' = (count + 1) % PortSpace
      /\ port' = [port EXCEPT ![m] = count]
      /\ UNCHANGED <<alive, lives, of, peer, open, cur>>
    BY DEF Create, MayCreate, connVars, recoverVars
<1>2. PICK x \in {"dial", "failed"} : task' = [task EXCEPT ![m] = x]
    BY DEF Create
<1>3. Asked' = Asked \cup {m} /\ m \notin Asked
    <2>1. \A n \in Ms : task'[n] = IF n = m THEN x ELSE task[n]
        BY <1>0, <1>2, TaskAt, Names
    <2> QED BY <1>1, <2>1 DEF Asked
<1>4. c \in Nat /\ c + 1 <= PortSpace /\ Cardinality(Asked') = c + 1 /\ PortSpace \in Nat \ {0}
    BY <1>3, <1>c, AskedSize, AgentAssumption
<1>5. count = c
    <2>1. count = c % PortSpace
        BY <1>1, <1>c DEF Numbered
    <2> QED BY <1>4, <2>1, SmallMod
<1>6. \A n \in Ms : port'[n] = IF n = m THEN c ELSE port[n]
    <2>1. port \in [Ms -> Ports \cup {None}]
        BY <1>0 DEF TypeOK
    <2> QED BY <1>1, <1>5, <2>1
<1>7. \A n \in Asked : n # m /\ port[n] \in 0..c - 1 /\ n \in Ms
    BY <1>3, <1>c DEF Numbered, Asked
<1>8. \A n \in Asked' : port'[n] \in 0..c
    BY <1>3, <1>4, <1>6, <1>7
<1>9. \A n, o \in Asked' : port'[n] = port'[o] => n = o
    <2>1. \A n, o \in Asked : port[n] = port[o] => n = o
        BY DEF Numbered
    <2>2. \A n \in Asked : port[n] # c
        BY <1>4, <1>7
    <2> QED BY <1>3, <1>6, <1>7, <2>1, <2>2
<1>f. \A p \in Processes : For(p)' = For(p)
    BY <1>1, ForProcess
<1>10. \A p \in Processes : process'[p] # "none" => For(p)' \in Asked'
    <2> SUFFICES ASSUME NEW p \in Processes, process'[p] # "none" PROVE For(p)' \in Asked'
        OBVIOUS
    <2>1. CASE p = m
        BY <1>3, <2>1, ForProcess
    <2>2. CASE p # m
        <3>1. process'[p] = process[p]
            BY <1>0, <2>2, Names DEF Create, TypeOK
        <3> QED BY <1>3, <1>f, <3>1 DEF Numbered
    <2> QED BY <2>1, <2>2
<1>11. Numbered'
    <2>1. Cardinality(Asked)' = c + 1 /\ (c + 1) - 1 = c
        BY <1>4
    <2> QED BY <1>1, <1>5, <1>8, <1>9, <1>10, <2>1 DEF Numbered
<1>12. OwnProcess'
    <2>1. \A k \in open : peer[k] \in Processes
        <3>1. \A k \in open : k \in Conns /\ k <= made
            BY <1>0, ConnNumbers DEF TypeOK
        <3> QED BY <1>0, <3>1 DEF TypeOK
    <2> QED BY <1>1, <1>f, <2>1 DEF OwnProcess
<1> QED BY <1>11, <1>12

LEMMA DialKeeps ==
    ASSUME IInv, Numbered, OwnProcess, lives = 1, NEW t \in Tasks, Dial(t)
    PROVE  Numbered' /\ OwnProcess'
<1>0. TypeOK /\ Shape /\ Settled
    BY DEF IInv
<1>k. PICK k : k = made + 1
    OBVIOUS
<1>m. PICK m : m = For(t)
    OBVIOUS
<1>t. task[t] = "dial"
    BY DEF Dial
<1>1. /\ of' = [of EXCEPT ![k] = m] /\ open' = open \cup {k}
      /\ task' = [task EXCEPT ![t] = "hello", ![k] = "watching"]
      /\ UNCHANGED <<alive, lives, count, port, process, cur>>
    BY <1>k, <1>m DEF Dial, nodeVars, recoverVars
<1>2. PICK p \in Processes : Reaches(m, p) /\ peer' = [peer EXCEPT ![k] = p]
    BY <1>k, <1>m DEF Dial
<1>3. k \in Conns /\ m \in Ms /\ ~(k <= made) /\ made \in Nat
    BY <1>0, <1>t, <1>k, <1>m, ConnNumbers, ForType DEF Dial
<1>4. of[k] = None /\ \A l \in Conns : /\ of'[l] = IF l = k THEN m ELSE of[l]
                                       /\ peer'[l] = IF l = k THEN p ELSE peer[l]
    <2>1. of \in [Conns -> Ms \cup {None}] /\ peer \in [Conns -> Processes \cup {None}]
        BY <1>0 DEF TypeOK
    <2>2. of[k] = None
        BY <1>0, <1>3 DEF TypeOK
    <2> QED BY <1>1, <1>2, <2>1, <2>2
<1>5. m \in Asked
    <2>1. CASE t \in Ms
        BY <1>t, <1>m, <2>1, ForIs DEF Asked
    <2>2. CASE t \in Conns
        BY <1>0, <1>3, <1>m, <2>2, ForIs DEF Settled, Asked
    <2>3. CASE t = Recoverer
        BY <1>0, <1>3, <1>m, <2>3, ForIs DEF Settled, Asked
    <2> QED BY <2>1, <2>2, <2>3, Names
<1>6. Asked' = Asked
    <2>1. \A n \in Ms : task'[n] = IF n = t THEN "hello" ELSE task[n]
        <3>1. task \in [Tasks -> Phases]
            BY <1>0 DEF TypeOK
        <3> QED BY <1>1, <1>3, <3>1, Names
    <2>2. \A n \in Ms : task'[n] = "idle" <=> task[n] = "idle"
        BY <1>t, <2>1
    <2> QED BY <2>2 DEF Asked
<1>7. \A q \in Processes : For(q) \in Ms => For(q)' = For(q)
    <2> SUFFICES ASSUME NEW q \in Processes, For(q) \in Ms PROVE For(q)' = For(q)
        OBVIOUS
    <2>1. q # k
        BY <1>3, <1>4, ForIs, Names
    <2> QED BY <1>4, <2>1, ForProcess
<1>8. \A q \in Processes : process[q] # "none" => For(q) \in Asked
    BY DEF Numbered
<1>9. Numbered'
    <2>1. \A q \in Processes : process'[q] # "none" => For(q)' \in Asked'
        <3>1. Asked \subseteq Ms
            BY DEF Asked
        <3> QED BY <1>1, <1>6, <1>7, <1>8, <3>1
    <2> QED BY <1>1, <1>6, <2>1 DEF Numbered
<1>10. For(p)' = m /\ m = IF p \in Ms THEN p ELSE of'[p]
    <2>1. For(p) \in Asked /\ port[For(p)] = port[m]
        BY <1>2, <1>8 DEF Reaches, Listens
    <2>2. For(p) = m
        BY <1>5, <2>1 DEF Numbered
    <2>3. For(p)' = m
        BY <1>3, <1>7, <2>2
    <2> QED BY <2>3, ForProcess
<1>11. OwnProcess'
    <2> SUFFICES ASSUME NEW l \in open \cup {k} PROVE For(peer[l])' = of'[l]
        BY <1>1 DEF OwnProcess
    <2>1. CASE l = k
        <3>1. peer'[l] = p /\ of'[l] = m
            BY <1>3, <1>4, <2>1
        <3> QED BY <1>10, <3>1
    <2>2. CASE l # k
        <3>1. l \in Conns /\ l <= made
            BY <1>0, <2>2, ConnNumbers DEF TypeOK
        <3>2. of[l] \in Ms /\ peer[l] \in Processes
            BY <1>0, <3>1 DEF TypeOK
        <3>3. PICK q : q = peer[l]
            OBVIOUS
        <3>4. For(q) = of[l]
            BY <2>2, <3>3 DEF OwnProcess
        <3>5. For(q)' = of[l] /\ peer'[l] = q /\ of'[l] = of[l]
            BY <1>4, <1>7, <2>2, <3>1, <3>2, <3>3, <3>4
        <3> QED BY <3>5
    <2> QED BY <2>1, <2>2
<1> QED BY <1>9, <1>11

LEMMA NumberedInit == Init => Numbered /\ OwnProcess
<1> SUFFICES ASSUME Init PROVE Numbered /\ OwnProcess
    OBVIOUS
<1>1. Asked = {}
    BY Names DEF Init, Asked
<1>2. 0 % PortSpace = 0
    BY SmallMod, AgentAssumption
<1>3. Cardinality(Asked) = 0
    BY <1>1, FS_EmptySet
<1> QED BY <1>1, <1>2, <1>3 DEF Init, Numbered, OwnProcess

LEMMA NumberedStep == IInv /\ Numbered /\ OwnProcess /\ [Next]_vars => Numbered' /\ OwnProcess'
<1> SUFFICES ASSUME IInv, Numbered, OwnProcess, [Next]_vars PROVE Numbered' /\ OwnProcess'
    OBVIOUS
<1>1. CASE lives # 1
    <2>1. lives' # 1
        <3>1. lives \in 1..MaxLives /\ MaxLives \in Nat
            BY AgentAssumption DEF IInv, TypeOK
        <3>2. lives' = lives \/ lives' = lives + 1
            BY DEF Next, vars, nodeVars, connVars, agentVars, recoverVars, Create, GoesStale, Records,
                   Connects, Dial, DialFails, Hello, HelloFails, Restarts, WatchFires, Kill, Panics,
                   Start, Beat, Runs, Bind, Exits, Crash, AgentDies, Dies, AgentStarts, AsksRecover,
                   RecoverNext
        <3> QED BY <1>1, <3>1, <3>2
    <2> QED BY <2>1 DEF Numbered, OwnProcess
<1>2. ASSUME lives = 1, NEW m \in Ms, Create(m) PROVE Numbered' /\ OwnProcess'
    BY <1>2, CreateKeeps
<1>3. ASSUME lives = 1, NEW t \in Tasks, Dial(t) PROVE Numbered' /\ OwnProcess'
    BY <1>3, DialKeeps
<1>4. ASSUME lives = 1, AgentStarts PROVE Numbered' /\ OwnProcess'
    <2>1. lives' # 1
        BY <1>4 DEF AgentStarts
    <2> QED BY <2>1 DEF Numbered, OwnProcess
<1> QED BY <1>1, <1>2, <1>3, <1>4, SteadyStep, SteadyKeeps DEF Next, Connects

\* The first agent process talks to the service it means to: the numbers that
\* GetNextPort gives out differ as long as there are no more services than
\* ports, and what listens on a port was started for the service it belongs to.
THEOREM TalksToItsOwn == Spec => []OwnProcess
<1>1. Init => IInv /\ Numbered /\ OwnProcess
    BY InitHolds, NumberedInit
<1>2. (IInv /\ Numbered /\ OwnProcess) /\ [Next]_vars => (IInv /\ Numbered /\ OwnProcess)'
    BY TypeStep, RestStep, NumberedStep DEF Rest, IInv
<1> QED BY <1>1, <1>2, PTL DEF Spec
=============================================================================
