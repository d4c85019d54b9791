---------------------------- MODULE AgentServices ----------------------------
(***************************************************************************)
(* internal/agent/agent.go: how an agent creates the microservices that    *)
(* the controller asks for, watches their heartbeats, restarts them, and   *)
(* finds them again when it was itself restarted.                          *)
(*                                                                         *)
(* A member m of Ms is a CREATE request, the MsInfo made for it and the    *)
(* microservice that this stands for.  Goroutines are tasks: task m is     *)
(* handleCreate for m; task k, k the number of a connection, is the        *)
(* watchMsHealth that connectToMicroservice starts with it and the         *)
(* restartMs that one turns into; task Recoverer is handleRecover.  The    *)
(* tasks of Ms and Conns start at most one process, which has their name.  *)
(***************************************************************************)
EXTENDS Integers, FiniteSets

CONSTANTS
    Ms,             \* the microservices that are asked for
    Pings,          \* those of type "ping"; the others are of type "idle"
    None,           \* nil
    Recoverer,      \* the task of handleRecover
    PortSpace,      \* how many ports a uint16 counts: 2^16
    MaxConns,       \* bound: connections to microservices
    MaxFaults,      \* bound: microservices that do not start or die by
                    \* themselves, answers and heartbeats that are late
    MaxLives        \* bound: agent processes, one after the other

Conns == 1..MaxConns
Processes == Ms \cup Conns
Tasks == Processes \cup {Recoverer}
Ports == 0..PortSpace - 1

ASSUME AgentAssumption ==
    /\ {PortSpace, MaxLives} \subseteq Nat \ {0}
    /\ {MaxConns, MaxFaults} \subseteq Nat
    /\ IsFiniteSet(Ms) /\ Cardinality(Ms) <= PortSpace
    /\ Ms \cap Conns = {}
    /\ {Recoverer, None} \cap (Ms \cup Conns \cup Ports) = {}
    /\ Recoverer # None
    /\ Pings \subseteq Ms

VARIABLES
    alive,      \* the agent runs
    lives,      \* agent processes so far
    count,      \* Agent.nextPortCount
    port,       \* MsInfo.Port, counted from BASE_PORT_MS
    task,       \* task[t]: where task t is
    link,       \* link[t]: the connection task t made
    made,       \* connections made so far
    of,         \* of[k]: the MsInfo that connection k was made for
    peer,       \* peer[k]: the process at its other end
    open,       \* connections the agent has not closed
    saved,      \* keys of Agent.msInfo
    msConn,     \* Agent.msConn, 0 for no entry
    proc,       \* MsInfo.Process in the agent
    fresh,      \* MsInfo.LastHeartbeat is less than allowedDelay (7 s) ago
    todo, cur,  \* services handleRecover has still to visit, and visits
    known,      \* AgentInfo.Microservices in the controller
    process,    \* process[p]: state of the process that task p started
    faults      \* faults so far

nodeVars    == <<alive, lives, known, count, port>>
connVars    == <<link, made, of, peer, open>>
agentVars   == <<saved, msConn, proc, fresh>>
recoverVars == <<todo, cur>>
vars == <<nodeVars, task, connVars, agentVars, recoverVars, process, faults>>

-----------------------------------------------------------------------------
\* The microservice that task t, or the process it started, is for.
For(t) == CASE t \in Ms -> t [] t \in Conns -> of[t] [] OTHER -> cur

Type(m) == IF m \in Pings THEN "ping" ELSE "idle"

Live(p)    == process[p] \in {"starting", "up"}
Listens(p) == process[p] \in {"up", "dying"}

\* Somebody listens on the port of m: a Dial to it reaches p.
Reaches(m, p) == Listens(p) /\ port[For(p)] = port[m]

\* What Process.Kill makes of a process: SIGKILL, asynchronously.  The agent
\* waits for no child, so killing one that is gone succeeds and does nothing.
Killed(p) == CASE process[p] = "starting" -> "gone"
               [] process[p] = "up"       -> "dying"
               [] OTHER                   -> process[p]

\* Something goes wrong that the code must cope with.
Fault == faults < MaxFaults /\ faults' = faults + 1

\* Tasks that are over, or were never started.
Over == {"idle", "done", "failed"}

\* The watcher of a connection, and the restart until it has a new watcher.
Supervises(k) == task[k] \in {"watching", "kill", "start", "dial"}

Init ==
    /\ alive = TRUE /\ lives = 1 /\ known = {}
    /\ count = 0
    /\ port = [m \in Ms |-> None]
    /\ task = [t \in Tasks |-> "idle"]
    /\ link = [t \in Tasks |-> 0]
    /\ made = 0
    /\ of = [k \in Conns |-> None]
    /\ peer = [k \in Conns |-> None]
    /\ open = {}
    /\ saved = {}
    /\ msConn = [m \in Ms |-> 0]
    /\ proc = [m \in Ms |-> None]
    /\ fresh = [m \in Ms |-> FALSE]
    /\ todo = {} /\ cur = None
    /\ process = [p \in Processes |-> "none"]
    /\ faults = 0

-----------------------------------------------------------------------------
(* Mutants: the bugs the properties below are known to catch.               *)

\* nextPortCount is wider than the port it is added to.
CreateUnbounded(m) ==
    /\ alive /\ task[m] = "idle"
    /\ lives > 1 => task[Recoverer] # "idle"
    /\ count' = count + 1
    /\ port' = [port EXCEPT ![m] = count]
    /\ task' = [task EXCEPT ![m] = "dial"]
    /\ process' = [process EXCEPT ![m] = "starting"]
    /\ proc' = [proc EXCEPT ![m] = m]
    /\ UNCHANGED <<alive, lives, known, connVars, saved, msConn, fresh, recoverVars,
                   faults>>

\* Two calls of GetNextPort without the lock read the same count.
CreateUnlocked(m) ==
    /\ alive /\ task[m] = "idle"
    /\ lives > 1 => task[Recoverer] # "idle"
    /\ count' \in {count, (count + 1) % PortSpace}
    /\ port' = [port EXCEPT ![m] = count]
    /\ task' = [task EXCEPT ![m] = "dial"]
    /\ process' = [process EXCEPT ![m] = "starting"]
    /\ proc' = [proc EXCEPT ![m] = m]
    /\ UNCHANGED <<alive, lives, known, connVars, saved, msConn, fresh, recoverVars,
                   faults>>

\* handleCreate starts the watcher, instead of connectToMicroservice.
DialUnwatched(t) ==
    /\ task[t] = "dial"
    /\ made < MaxConns
    /\ \E p \in Processes : Reaches(For(t), p) /\ peer' = [peer EXCEPT ![made + 1] = p]
    /\ made' = made + 1
    /\ of' = [of EXCEPT ![made + 1] = For(t)]
    /\ open' = open \cup {made + 1}
    /\ fresh' = [fresh EXCEPT ![For(t)] = TRUE]
    /\ task' = [task EXCEPT ![t] = "hello",
                            ![made + 1] = IF t \in Ms THEN "watching" ELSE "done"]
    /\ link' = [link EXCEPT ![t] = made + 1]
    /\ UNCHANGED <<nodeVars, saved, msConn, proc, recoverVars, process, faults>>

\* A handshake that fails is tried again over a new connection.
HelloFailsRedialing(t) ==
    /\ task[t] = "hello"
    /\ process[peer[link[t]]] # "up"
    /\ task' = [task EXCEPT ![t] = "dial"]
    /\ UNCHANGED <<nodeVars, connVars, agentVars, recoverVars, process, faults>>

\* restartMs does not close the connection it replaces.
KillKeepsConn(k) ==
    /\ task[k] = "kill"
    /\ proc[of[k]] # None /\ msConn[of[k]] # 0
    /\ process' = [process EXCEPT ![proc[of[k]]] = Killed(proc[of[k]])]
    /\ task' = [task EXCEPT ![k] = "start"]
    /\ UNCHANGED <<nodeVars, connVars, agentVars, recoverVars, faults>>

\* restartMs returns on an error of Kill, as restartAgent does.
KillReturns(k) ==
    /\ task[k] = "kill"
    /\ proc[of[k]] # None /\ msConn[of[k]] # 0
    /\ process' = [process EXCEPT ![proc[of[k]]] = Killed(proc[of[k]])]
    /\ open' = open \ {msConn[of[k]]}
    /\ task' = [task EXCEPT ![k] = IF Live(proc[of[k]]) THEN "start" ELSE "done"]
    /\ UNCHANGED <<nodeVars, link, made, of, peer, agentVars, recoverVars, faults>>

-----------------------------------------------------------------------------
(* handleCreate, GetNextPort, createMicroservice                            *)

\* The agent that the controller restarted gets RECOVER before it gets CREATE:
\* createNewService wants a Healthy agent, and the first heartbeat is sent
\* five seconds after the HELLO that RECOVER follows.
MayCreate == alive /\ (lives > 1 => task[Recoverer] # "idle")

\* The next port, under the lock, and cmd.Start, which may fail.
Create(m) ==
    /\ MayCreate
    /\ task[m] = "idle"
    /\ count' = (count + 1) % PortSpace
    /\ port' = [port EXCEPT ![m] = count]
    /\ \/ /\ task' = [task EXCEPT ![m] = "dial"]
          /\ process' = [process EXCEPT ![m] = "starting"]
          /\ proc' = [proc EXCEPT ![m] = m]
          /\ UNCHANGED faults
       \/ /\ task' = [task EXCEPT ![m] = "failed"]
          /\ Fault
          /\ UNCHANGED <<proc, process>>
    /\ UNCHANGED <<alive, lives, known, connVars, saved, msConn, fresh, recoverVars>>

-----------------------------------------------------------------------------
(* connectToMicroservice, for handleCreate, restartMs and handleRecover     *)

\* net.Dial, once.  The receive loop and the watcher of the connection start.
Dial(t) ==
    /\ task[t] = "dial"
    /\ made < MaxConns
    /\ LET k == made + 1
           m == For(t)
       IN /\ \E p \in Processes :
                /\ Reaches(m, p)
                /\ peer' = [peer EXCEPT ![k] = p]
          /\ made' = k
          /\ of' = [of EXCEPT ![k] = m]
          /\ open' = open \cup {k}
          /\ fresh' = [fresh EXCEPT ![m] = TRUE]
          /\ task' = [task EXCEPT ![t] = "hello", ![k] = "watching"]
          /\ link' = [link EXCEPT ![t] = k]
    /\ UNCHANGED <<nodeVars, saved, msConn, proc, recoverVars, process, faults>>

\* Task t gives up.  handleCreate answers with an error, restartMs returns;
\* handleRecover leaves the list of the services of that type.
GivesUp(t, phase) ==
    IF t = Recoverer
    THEN /\ task' = [task EXCEPT ![t] = "next"]
         /\ todo' = {m \in todo : Type(m) # Type(cur)}
    ELSE /\ task' = [task EXCEPT ![t] = phase]
         /\ UNCHANGED todo

\* Nobody listens, or not yet: a restart that ends here leaves no watcher.
DialFails(t) ==
    /\ task[t] = "dial"
    /\ \A p \in Processes : ~Reaches(For(t), p)
    /\ GivesUp(t, IF t \in Ms THEN "failed" ELSE "lost")
    /\ UNCHANGED <<nodeVars, connVars, agentVars, cur, process, faults>>

\* The HELLO is answered: the connection is entered in both maps, and
\* handleRecover finds the process that was first started for the service.
Hello(t) ==
    /\ task[t] = "hello"
    /\ process[peer[link[t]]] = "up"
    /\ LET k == link[t]
           m == For(t)
       IN /\ saved' = saved \cup {k}
          /\ msConn' = [msConn EXCEPT ![m] = k]
          /\ fresh' = [fresh EXCEPT ![m] = TRUE]
          /\ proc' = IF t = Recoverer THEN [proc EXCEPT ![m] = m] ELSE proc
          /\ task' = [task EXCEPT ![t] = IF t = Recoverer THEN "next" ELSE "done"]
    /\ UNCHANGED <<nodeVars, connVars, recoverVars, process, faults>>

\* It is not, or not in five seconds: the connection stays open, with its
\* watcher and without an entry.
HelloFails(t) ==
    /\ task[t] = "hello"
    /\ IF process[peer[link[t]]] = "up" THEN Fault ELSE UNCHANGED faults
    /\ GivesUp(t, "failed")
    /\ UNCHANGED <<nodeVars, connVars, agentVars, cur, process>>

-----------------------------------------------------------------------------
(* watchMsHealth, restartMs                                                 *)

\* No heartbeat for seven seconds.  The HELLO over this connection is over by
\* then: it was sent after LastHeartbeat was set and takes five at most.
WatchFires(k) ==
    /\ task[k] = "watching"
    /\ ~fresh[of[k]]
    /\ \A t \in Tasks : ~(task[t] = "hello" /\ link[t] = k)
    /\ task' = [task EXCEPT ![k] = "kill"]
    /\ UNCHANGED <<nodeVars, connVars, agentVars, recoverVars, process, faults>>

\* ms.Process.Kill() and prevConn.Nc.Close(), whose errors are only logged.
Kill(k) ==
    LET m == of[k]
        p == proc[m]
    IN /\ task[k] = "kill"
       /\ p # None /\ msConn[m] # 0
       /\ process' = [process EXCEPT ![p] = Killed(p)]
       /\ open' = open \ {msConn[m]}
       /\ task' = [task EXCEPT ![k] = "start"]
       /\ UNCHANGED <<nodeVars, link, made, of, peer, agentVars, recoverVars, faults>>

\* cmd.Start, which may fail; the new process is not stored in ms.Process.
Start(k) ==
    /\ task[k] = "start"
    /\ \/ /\ task' = [task EXCEPT ![k] = "dial"]
          /\ process' = [process EXCEPT ![k] = "starting"]
          /\ UNCHANGED faults
       \/ /\ task' = [task EXCEPT ![k] = "lost"]
          /\ Fault
          /\ UNCHANGED process
    /\ UNCHANGED <<nodeVars, connVars, agentVars, recoverVars>>

-----------------------------------------------------------------------------
(* ReceiveHeartBeat                                                         *)

\* The other end of a connection that is in msInfo is up and sends heartbeats.
Beating(k) == k \in open \cap saved /\ process[peer[k]] = "up"

Beat(k) ==
    /\ Beating(k)
    /\ fresh' = [fresh EXCEPT ![of[k]] = TRUE]
    /\ UNCHANGED <<nodeVars, task, connVars, saved, msConn, proc, recoverVars,
                   process, faults>>

\* Seven seconds pass without a heartbeat.
GoesStale(m) ==
    /\ fresh[m]
    /\ IF \E k \in Conns : of[k] = m /\ Beating(k) THEN Fault ELSE UNCHANGED faults
    /\ fresh' = [fresh EXCEPT ![m] = FALSE]
    /\ UNCHANGED <<nodeVars, task, connVars, saved, msConn, proc, recoverVars,
                   process>>

-----------------------------------------------------------------------------
(* The death of the agent, its restart by the controller, handleRecover     *)

\* What is left of an agent process: its children go on; its goroutines, its
\* connections and what it stored do not.
Dies ==
    /\ alive' = FALSE
    /\ task' = [t \in Tasks |-> IF task[t] \in Over THEN task[t] ELSE "dead"]
    /\ link' = [t \in Tasks |-> 0]
    /\ open' = {}
    /\ count' = 0
    /\ saved' = {}
    /\ msConn' = [m \in Ms |-> 0]
    /\ proc' = [m \in Ms |-> None]
    /\ fresh' = [m \in Ms |-> FALSE]
    /\ todo' = {} /\ cur' = None
    /\ UNCHANGED <<lives, known, port, made, of, peer, faults>>

\* It crashes, or the controller kills it.
AgentDies ==
    /\ alive
    /\ lives < MaxLives
    /\ Dies
    /\ UNCHANGED process

\* restartMs for a service without ms.Process or prevConn: the watcher was
\* started before the handshake that would have entered them.
Panics(k) ==
    LET p == proc[of[k]]
    IN /\ task[k] = "kill"
       /\ p = None \/ msConn[of[k]] = 0
       /\ process' = IF p = None THEN process ELSE [process EXCEPT ![p] = Killed(p)]
       /\ Dies

\* restartAgent: NewAgent in a new process, with nextPortCount 0.
AgentStarts ==
    /\ ~alive
    /\ lives < MaxLives
    /\ alive' = TRUE
    /\ lives' = lives + 1
    /\ task' = [task EXCEPT ![Recoverer] = "idle"]
    /\ UNCHANGED <<known, count, port, connVars, agentVars, recoverVars, process,
                   faults>>

\* The controller enters a service whose CREATE was answered, after the load
\* balancer took it; the agent may have died meanwhile.
Records(m) ==
    /\ task[m] = "done"
    /\ m \notin known
    /\ known' = known \cup {m}
    /\ UNCHANGED <<alive, lives, count, port, task, connVars, agentVars,
                   recoverVars, process, faults>>

\* recoverConnections: RECOVER with the services the controller knows of.
AsksRecover ==
    /\ alive /\ lives > 1
    /\ task[Recoverer] = "idle"
    /\ todo' = known
    /\ task' = [task EXCEPT ![Recoverer] = "next"]
    /\ UNCHANGED <<nodeVars, connVars, agentVars, cur, process, faults>>

\* The next service of the loops, in no particular order, or the answer.
RecoverNext ==
    /\ task[Recoverer] = "next"
    /\ \/ \E m \in todo :
             /\ cur' = m
             /\ todo' = todo \ {m}
             /\ task' = [task EXCEPT ![Recoverer] = "dial"]
       \/ /\ todo = {}
          /\ task' = [task EXCEPT ![Recoverer] = "done"]
          /\ UNCHANGED recoverVars
    /\ UNCHANGED <<nodeVars, connVars, agentVars, process, faults>>

-----------------------------------------------------------------------------
(* Processes of microservices                                               *)

\* net.Listen of NewMicroservice; when it fails main goes on with nil, and
\* panics.
Bind(p) ==
    /\ process[p] = "starting"
    /\ process' = [process EXCEPT ![p] =
          IF \E q \in Processes : Reaches(For(p), q) THEN "gone" ELSE "up"]
    /\ UNCHANGED <<nodeVars, task, connVars, agentVars, recoverVars, faults>>

Exits(p) ==
    /\ process[p] = "dying"
    /\ process' = [process EXCEPT ![p] = "gone"]
    /\ UNCHANGED <<nodeVars, task, connVars, agentVars, recoverVars, faults>>

\* A process dies by itself, as one asked for an unknown type does at once.
Crash(p) ==
    /\ Live(p)
    /\ Fault
    /\ process' = [process EXCEPT ![p] = "gone"]
    /\ UNCHANGED <<nodeVars, task, connVars, agentVars, recoverVars>>

-----------------------------------------------------------------------------
Connects(t) == Dial(t) \/ DialFails(t) \/ Hello(t) \/ HelloFails(t)
Restarts(k) == WatchFires(k) \/ Kill(k) \/ Panics(k) \/ Start(k)
Runs(p)     == Bind(p) \/ Exits(p)

Next ==
    \/ \E m \in Ms : Create(m) \/ GoesStale(m) \/ Records(m)
    \/ \E t \in Tasks : Connects(t)
    \/ \E k \in Conns : Restarts(k) \/ Beat(k)
    \/ \E p \in Processes : Runs(p) \/ Crash(p)
    \/ AgentDies \/ AgentStarts \/ AsksRecover \/ RecoverNext

Spec == Init /\ [][Next]_vars

\* Goroutines that can run do, calls with a timeout end, a process that was
\* started binds its port or fails to, one that is up sends heartbeats, and a
\* service nobody hears of goes stale.
Fairness ==
    /\ \A t \in Tasks : WF_vars(Connects(t))
    /\ \A k \in Conns : WF_vars(Restarts(k)) /\ WF_vars(Beat(k))
    /\ \A p \in Processes : WF_vars(Runs(p))
    /\ \A m \in Ms : WF_vars(GoesStale(m))
    /\ WF_vars(RecoverNext)

FairSpec == Spec /\ Fairness
-----------------------------------------------------------------------------
Phases == Over \cup {"watching", "kill", "start", "dial", "hello", "next",
                     "lost", "dead"}

TypeOK ==
    /\ alive \in BOOLEAN
    /\ lives \in 1..MaxLives
    /\ known \subseteq Ms
    /\ count \in Ports
    /\ port \in [Ms -> Ports \cup {None}]
    /\ task \in [Tasks -> Phases]
    /\ link \in [Tasks -> 0..made]
    /\ made \in 0..MaxConns
    /\ of \in [Conns -> Ms \cup {None}]
    /\ peer \in [Conns -> Processes \cup {None}]
    /\ \A k \in Conns : k <= made <=> of[k] # None
    /\ \A k \in Conns : k <= made <=> peer[k] # None
    /\ saved \subseteq 1..made
    /\ open \subseteq 1..made
    /\ msConn \in [Ms -> 0..made]
    /\ proc \in [Ms -> Ms \cup {None}]
    /\ fresh \in [Ms -> BOOLEAN]
    /\ todo \subseteq Ms
    /\ cur \in Ms \cup {None}
    /\ process \in [Processes -> {"none", "starting", "up", "dying", "gone"}]
    /\ faults \in 0..MaxFaults

\* No service is watched or restarted twice at a time: two restarts of one
\* would kill its process and replace its connection under each other's hands
\* (connectToMicroservice starts a watcher for every connection, watchMsHealth
\* ends when it starts restartMs, handleRecover dials what the controller
\* listed, handleCreate goes on meanwhile).
OneWatcher ==
    \A k, l \in Conns :
        Supervises(k) /\ Supervises(l) /\ of[k] = of[l] => k = l

\* A restart of m ended before it had a connection (restartMs returns).
Lost(m) == \E k \in Conns : of[k] = m /\ task[k] = "lost"

\* A service in msConn is watched for as long as the agent lives, and its
\* watcher finds the process to kill: only a restart that could not start or
\* reach its process ends the watch, and the nil process that restartMs trips
\* over is only that of a service whose HELLO failed (connectToMicroservice
\* starts the watcher before the handshake, handleRecover looks for the process
\* after it).
KeepsWatch ==
    \A m \in Ms :
        msConn[m] # 0 =>
            /\ proc[m] # None
            /\ Lost(m) \/ \E k \in Conns : of[k] = m /\ Supervises(k)

\* The heartbeats of a service are those of the connection in msConn: an older
\* one that is still open and known would keep a service that is not served
\* from being restarted (restartMs closes prevConn before it makes another).
CurrentOnly ==
    \A k \in open \cap saved : msConn[of[k]] = k

\* The first agent process talks to the service it means to: what it reaches
\* on a port was started for that port (GetNextPort under RWmu; a restart uses
\* ms.Port again).
OwnProcess ==
    lives = 1 => \A k \in open : For(peer[k]) = of[k]

\* README.md has "port specified is base port that will be incremented with
\* each new instance (for now only for ms)": no two services that the
\* controller knows of share a port, and with it a process.  It does not hold:
\* the restarted agent counts from BASE_PORT_MS again.
PortsApart ==
    \A m, n \in known : port[m] = port[n] => m = n

\* The agent hears of m over the connection it keeps for it.
InService(m) == fresh[m] /\ Beating(msConn[m])

\* A service that is not heard of comes back, unless its restart was lost or
\* the agent died: a failed handshake leaves a watcher that tries again.
ComesBack ==
    \A m \in Ms :
        (alive /\ msConn[m] # 0 /\ ~fresh[m])
            ~> (InService(m) \/ Lost(m) \/ ~alive \/ made = MaxConns)
=============================================================================
