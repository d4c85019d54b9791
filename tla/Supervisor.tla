----------------------------- MODULE Supervisor -----------------------------
(***************************************************************************)
(* internal/controller/controller.go: how the controller creates agents    *)
(* and load balancers, watches their heartbeats and restarts them.  The    *)
(* code for the two kinds of node is the same up to names and messages; a  *)
(* member of Nodes is either.                                              *)
(*                                                                         *)
(* Goroutines are tasks.  Task n \in Nodes is createNewAgent or            *)
(* createNewLoadBalancer for n; task k, k the ID of a connection, is the   *)
(* watchHealth(k) that connectToAgent/LB starts and the restartAgent/Lb it *)
(* turns into.  A task starts at most one process, which has its name.     *)
(***************************************************************************)
EXTENDS Naturals, FiniteSets

CONSTANTS
    Nodes,          \* agents and load balancers
    NoNode,         \* no entry
    MaxConns,       \* bound: connections the controller makes
    MaxCrashes,     \* bound: processes that die by themselves
    EarlyCrash,     \* TRUE: a process may die before it is connected to
    PromptExit,     \* TRUE: a killed process gives its port free at once
    Slow,           \* TRUE: answers and heartbeats may be late
    Services        \* TRUE: the API asks for services meanwhile

Conns == 1..MaxConns
Tasks == Nodes \cup Conns

ASSUME SupervisorAssumption ==
    /\ MaxConns \in Nat
    /\ MaxCrashes \in Nat
    /\ Nodes \cap Conns = {}
    /\ NoNode \notin Nodes
    /\ {EarlyCrash, PromptExit, Slow, Services} \subseteq BOOLEAN

VARIABLES
    task,       \* task[t]: where task t is
    link,       \* link[t]: the connection task t made (conn in connectToLB)
    made,       \* how many connections have been made
    info,       \* agentsInfo/lbInfo: connection ID -> node
    conn,       \* agentsConn/lbConn: node -> connection ID, 0 for none
    open,       \* connections the controller has not closed
    peer,       \* peer[k]: the process at the other end of connection k
    proc,       \* AgentInfo/LBalancerInfo.Process
    process,    \* process[p]: state of the process task p started
    fresh,      \* LastHeartbeat is less than allowedDelay (6 s) ago
    status,     \* AgentInfo/LBalancerInfo.Status
    beats,      \* connections with a ReceiveHeartBeat goroutine under way
    leaked,     \* a read lock of Controller.mu is never given back
    recovered,  \* processes that got a RECOVER request
    crashes     \* how many processes died by themselves

taskVars == <<task, link>>
connVars == <<made, info, conn, open, peer>>
procVars == <<proc, process, crashes>>
beatVars == <<fresh, status, beats, leaked>>
vars == <<taskVars, connVars, procVars, beatVars, recovered>>

-----------------------------------------------------------------------------
\* The node that task t, and the process it started, are for.
For(t) == IF t \in Nodes THEN t ELSE info[t]

Live(p) == process[p] \in {"starting", "up"}

\* Process p holds the port of its node.
Listens(p) == process[p] \in {"up", "dying"}

\* What Kill makes of a process; a process that is gone is not waited for, so
\* Kill succeeds on it too.
Killed(p) == IF ~Live(p) THEN process[p]
             ELSE IF PromptExit THEN "gone" ELSE "dying"

\* Supervision of a node passes from the task that makes a connection to the
\* watcher of that connection.
Supervises(t) == task[t] \in {"watching", "kill", "close", "start", "dial"}

Init ==
    /\ task = [t \in Tasks |-> "idle"]
    /\ link = [t \in Tasks |-> 0]
    /\ made = 0
    /\ info = [k \in Conns |-> NoNode]
    /\ conn = [n \in Nodes |-> 0]
    /\ open = {}
    /\ peer = [k \in Conns |-> NoNode]
    /\ proc = [n \in Nodes |-> NoNode]
    /\ process = [t \in Tasks |-> "none"]
    /\ fresh = [n \in Nodes |-> FALSE]
    /\ status = [n \in Nodes |-> "Healthy"]
    /\ beats = {}
    /\ leaked = FALSE
    /\ recovered = {}
    /\ crashes = 0

-----------------------------------------------------------------------------
(* Mutants: the bugs the properties below are known to catch.               *)

\* connectToLB enters the connection in lbConn only: lbInfo, keyed by the ID
\* of the connection, has no entry for it.
DialUnregistered(t) ==
    /\ task[t] = "dial"
    /\ made < MaxConns
    /\ \E p \in Tasks :
          /\ For(p) = For(t) /\ Listens(p)
          /\ peer' = [peer EXCEPT ![made + 1] = p]
    /\ made' = made + 1
    /\ conn' = [conn EXCEPT ![For(t)] = made + 1]
    /\ open' = open \cup {made + 1}
    /\ fresh' = [fresh EXCEPT ![For(t)] = TRUE]
    /\ task' = [task EXCEPT ![t] = "hello", ![made + 1] = "watching"]
    /\ link' = [link EXCEPT ![t] = made + 1]
    /\ UNCHANGED <<info, procVars, status, beats, leaked, recovered>>

\* A restart leaves the connection that createNewLoadBalancer made in lbConn.
DialKeepsConn(t) ==
    /\ task[t] = "dial"
    /\ made < MaxConns
    /\ \E p \in Tasks :
          /\ For(p) = For(t) /\ Listens(p)
          /\ peer' = [peer EXCEPT ![made + 1] = p]
    /\ made' = made + 1
    /\ info' = [info EXCEPT ![made + 1] = For(t)]
    /\ conn' = IF t \in Nodes THEN [conn EXCEPT ![t] = made + 1] ELSE conn
    /\ open' = open \cup {made + 1}
    /\ fresh' = [fresh EXCEPT ![For(t)] = TRUE]
    /\ task' = [task EXCEPT ![t] = "hello", ![made + 1] = "watching"]
    /\ link' = [link EXCEPT ![t] = made + 1]
    /\ UNCHANGED <<procVars, status, beats, leaked, recovered>>

\* The watcher is started by createNewLoadBalancer instead of connectToLB.
DialUnwatched(t) ==
    /\ task[t] = "dial"
    /\ made < MaxConns
    /\ \E p \in Tasks :
          /\ For(p) = For(t) /\ Listens(p)
          /\ peer' = [peer EXCEPT ![made + 1] = p]
    /\ made' = made + 1
    /\ info' = [info EXCEPT ![made + 1] = For(t)]
    /\ conn' = [conn EXCEPT ![For(t)] = made + 1]
    /\ open' = open \cup {made + 1}
    /\ fresh' = [fresh EXCEPT ![For(t)] = TRUE]
    /\ task' = [task EXCEPT ![t] = "hello",
                            ![made + 1] = IF t \in Nodes THEN "watching" ELSE "done"]
    /\ link' = [link EXCEPT ![t] = made + 1]
    /\ UNCHANGED <<procVars, status, beats, leaked, recovered>>

\* A handshake that fails is tried again over a new connection.
HelloFailsRedialing(t) ==
    /\ task[t] = "hello"
    /\ Slow \/ process[peer[link[t]]] # "up"
    /\ task' = [task EXCEPT ![t] = "dial"]
    /\ UNCHANGED <<link, connVars, procVars, beatVars, recovered>>

\* restartLb does not store the new process.
StartKeepsProcess(k) ==
    /\ task[k] = "start"
    /\ task' = [task EXCEPT ![k] = "dial"]
    /\ process' = [process EXCEPT ![k] = "starting"]
    /\ UNCHANGED <<link, connVars, proc, crashes, beatVars, recovered>>

\* restartLb returns when the connection stands, without recoverConnections.
HelloWithoutRecover(t) ==
    /\ task[t] = "hello"
    /\ process[peer[link[t]]] = "up"
    /\ task' = [task EXCEPT ![t] = "done"]
    /\ UNCHANGED <<link, connVars, procVars, beatVars, recovered>>

-----------------------------------------------------------------------------
(* createNewAgent, createNewLoadBalancer                                    *)

\* cmd.Start and the new AgentInfo or LBalancerInfo.
Create(n) ==
    /\ task[n] = "idle"
    /\ task' = [task EXCEPT ![n] = "dial"]
    /\ process' = [process EXCEPT ![n] = "starting"]
    /\ proc' = [proc EXCEPT ![n] = n]
    /\ UNCHANGED <<link, connVars, crashes, beatVars, recovered>>

(* watchHealth *)

\* No heartbeat for more than six seconds.  The SendRequest(HELLO) of the task
\* that made the connection is over by then: it started after LastHeartbeat
\* was set and waits five seconds at most.
WatchFires(k) ==
    /\ task[k] = "watching"
    /\ ~fresh[info[k]]
    /\ \A t \in Tasks : ~(task[t] = "hello" /\ link[t] = k)
    /\ task' = [task EXCEPT ![k] = "kill"]
    /\ status' = [status EXCEPT ![info[k]] = "Unhealthy"]
    /\ UNCHANGED <<link, connVars, procVars, fresh, beats, leaked, recovered>>

(* restartAgent, restartLb *)

\* agent.Process.Kill()
Kill(k) ==
    /\ task[k] = "kill"
    /\ LET p == proc[info[k]] IN process' = [process EXCEPT ![p] = Killed(p)]
    /\ task' = [task EXCEPT ![k] = "close"]
    /\ UNCHANGED <<link, connVars, proc, crashes, beatVars, recovered>>

\* prevConn.Nc.Close(), of the connection the node has now.  Closing a
\* connection twice is an error and ends the restart.
Close(k) ==
    /\ task[k] = "close"
    /\ LET c == conn[info[k]]
       IN /\ task' = [task EXCEPT ![k] = IF c \in open THEN "start" ELSE "lost"]
          /\ open' = open \ {c}
    /\ UNCHANGED <<link, made, info, conn, peer, procVars, beatVars, recovered>>

\* cmd.Start() and agent.Process = cmd.Process.
Start(k) ==
    /\ task[k] = "start"
    /\ task' = [task EXCEPT ![k] = "dial"]
    /\ process' = [process EXCEPT ![k] = "starting"]
    /\ proc' = [proc EXCEPT ![info[k]] = k]
    /\ UNCHANGED <<link, connVars, crashes, beatVars, recovered>>

(* connectToAgent, connectToLB *)

\* TryToConnect succeeds: both maps get the connection, LastHeartbeat is set,
\* and the receive loop and the watcher of the connection start.
Dial(t) ==
    /\ task[t] = "dial"
    /\ made < MaxConns
    /\ LET k == made + 1
           n == For(t)
       IN /\ \E p \in Tasks :
                /\ For(p) = n /\ Listens(p)
                /\ peer' = [peer EXCEPT ![k] = p]
          /\ made' = k
          /\ info' = [info EXCEPT ![k] = n]
          /\ conn' = [conn EXCEPT ![n] = k]
          /\ open' = open \cup {k}
          /\ fresh' = [fresh EXCEPT ![n] = TRUE]
          /\ task' = [task EXCEPT ![t] = "hello", ![k] = "watching"]
          /\ link' = [link EXCEPT ![t] = k]
    /\ UNCHANGED <<procVars, status, beats, leaked, recovered>>

\* A process that was told to start is listening, or gone, before the ten
\* seconds of TryToConnect are over.  createNewAgent kills it then, and
\* restartAgent returns.
DialFails(t) ==
    /\ task[t] = "dial"
    /\ process[t] = "gone"
    /\ \A p \in Tasks : For(p) = For(t) => ~Listens(p)
    /\ task' = [task EXCEPT ![t] = "lost"]
    /\ UNCHANGED <<link, connVars, procVars, beatVars, recovered>>

\* The HELLO request is answered.  restartAgent goes on to recover.
Hello(t) ==
    /\ task[t] = "hello"
    /\ process[peer[link[t]]] = "up"
    /\ task' = [task EXCEPT ![t] = IF t \in Nodes THEN "done" ELSE "recover"]
    /\ UNCHANGED <<link, connVars, procVars, beatVars, recovered>>

\* It is not: createNewAgent kills the process, restartAgent returns.  The
\* entries of the maps and the watcher stay.
HelloFails(t) ==
    /\ task[t] = "hello"
    /\ Slow \/ process[peer[link[t]]] # "up"
    /\ task' = [task EXCEPT ![t] = "lost"]
    /\ process' = IF t \in Nodes THEN [process EXCEPT ![t] = Killed(t)] ELSE process
    /\ UNCHANGED <<link, connVars, proc, crashes, beatVars, recovered>>

\* recoverConnections over the connection the node has now; an error is only
\* logged.
Recover(k) ==
    /\ task[k] = "recover"
    /\ task' = [task EXCEPT ![k] = "done"]
    /\ LET p == peer[conn[info[k]]]
       IN \/ process[p] = "up" /\ recovered' = recovered \cup {p}
          \/ (Slow \/ process[p] # "up") /\ UNCHANGED recovered
    /\ UNCHANGED <<link, connVars, procVars, beatVars>>

-----------------------------------------------------------------------------
(* Heartbeats and the lock of the controller                                *)

\* A HEARTBEAT is read from connection k and handed to ReceiveHeartBeat.
Beat(k) ==
    /\ k \in open
    /\ process[peer[k]] = "up"
    /\ beats' = beats \cup {k}
    /\ UNCHANGED <<taskVars, connVars, procVars, fresh, status, leaked, recovered>>

\* updateAgentHeartbeat, updateLBHeartbeat: under Controller.mu.
HandleBeat(k) ==
    /\ k \in beats
    /\ ~leaked
    /\ beats' = beats \ {k}
    /\ fresh' = [fresh EXCEPT ![info[k]] = TRUE]
    /\ status' = [status EXCEPT ![info[k]] = "Healthy"]
    /\ UNCHANGED <<taskVars, connVars, procVars, leaked, recovered>>

\* Six seconds pass without a heartbeat being recorded.
GoesStale(n) ==
    /\ fresh[n]
    /\ Slow \/ leaked \/ process[peer[conn[n]]] # "up"
    /\ fresh' = [fresh EXCEPT ![n] = FALSE]
    /\ UNCHANGED <<taskVars, connVars, procVars, status, beats, leaked, recovered>>

\* createNewService finds a node that is Unhealthy and returns without
\* c.mu.RUnlock().
SelectsUnhealthy ==
    /\ Services
    /\ \E k \in Conns : info[k] # NoNode /\ status[info[k]] = "Unhealthy"
    /\ leaked' = TRUE
    /\ UNCHANGED <<taskVars, connVars, procVars, fresh, status, beats, recovered>>

-----------------------------------------------------------------------------
(* Processes                                                                *)

\* net.Listen of NewAgent or NewLoadBalancer.  When it fails, main goes on
\* with the nil node and panics.
Bind(p) ==
    /\ process[p] = "starting"
    /\ process' = [process EXCEPT ![p] =
          IF \E q \in Tasks : For(q) = For(p) /\ Listens(q) THEN "gone" ELSE "up"]
    /\ UNCHANGED <<taskVars, connVars, proc, crashes, beatVars, recovered>>

\* A killed process is gone, and its port free.
Exits(p) ==
    /\ process[p] = "dying"
    /\ process' = [process EXCEPT ![p] = "gone"]
    /\ UNCHANGED <<taskVars, connVars, proc, crashes, beatVars, recovered>>

\* A process dies by itself.
Crash(p) ==
    /\ Live(p)
    /\ crashes < MaxCrashes
    /\ EarlyCrash \/ \E k \in Conns : peer[k] = p
    /\ crashes' = crashes + 1
    /\ process' = [process EXCEPT ![p] = "gone"]
    /\ UNCHANGED <<taskVars, connVars, proc, beatVars, recovered>>

-----------------------------------------------------------------------------
\* What task t does once it runs.
Connects(t) == Dial(t) \/ DialFails(t) \/ Hello(t) \/ HelloFails(t)
Restarts(k) == WatchFires(k) \/ Kill(k) \/ Close(k) \/ Start(k) \/ Recover(k)
Runs(p)     == Bind(p) \/ Exits(p)

Next ==
    \/ \E n \in Nodes : Create(n) \/ GoesStale(n)
    \/ \E t \in Tasks : Connects(t) \/ Runs(t) \/ Crash(t)
    \/ \E k \in Conns : Restarts(k) \/ Beat(k) \/ HandleBeat(k)
    \/ SelectsUnhealthy

Spec == Init /\ [][Next]_vars

\* Goroutines that can run do, timeouts end, a process that was started binds
\* its port, one that is up sends a heartbeat every five seconds, and one that
\* is not goes stale.
Fairness ==
    /\ \A t \in Tasks : WF_vars(Connects(t)) /\ WF_vars(Runs(t))
    /\ \A k \in Conns : WF_vars(Restarts(k)) /\ WF_vars(Beat(k)) /\ WF_vars(HandleBeat(k))
    /\ \A n \in Nodes : WF_vars(GoesStale(n))

FairSpec == Spec /\ Fairness
-----------------------------------------------------------------------------
Phases == {"idle", "watching", "kill", "close", "start", "dial", "hello",
           "recover", "done", "lost"}

\* Every connection that was made has its entry in agentsInfo or lbInfo.
TypeOK ==
    /\ task \in [Tasks -> Phases]
    /\ link \in [Tasks -> 0..made]
    /\ made \in 0..MaxConns
    /\ info \in [Conns -> Nodes \cup {NoNode}]
    /\ \A k \in Conns : info[k] \in Nodes <=> k <= made
    /\ conn \in [Nodes -> 0..made]
    /\ open \subseteq 1..made
    /\ peer \in [Conns -> Tasks \cup {NoNode}]
    /\ proc \in [Nodes -> Tasks \cup {NoNode}]
    /\ process \in [Tasks -> {"none", "starting", "up", "dying", "gone"}]
    /\ fresh \in [Nodes -> BOOLEAN]
    /\ status \in [Nodes -> {"Healthy", "Unhealthy"}]
    /\ beats \subseteq 1..made
    /\ leaked \in BOOLEAN
    /\ recovered \subseteq Tasks
    /\ crashes \in 0..MaxCrashes

\* Nobody restarts a node while somebody else watches or restarts it: two
\* restarts would kill each other's processes and close each other's
\* connections (connectToLB starts a watcher, watchHealth returns when it
\* starts a restart, failed handshakes do neither).
OneSupervisor ==
    \A t, u \in Tasks :
        Supervises(t) /\ Supervises(u) /\ For(t) = For(u) => t = u

\* A restart closes the connection whose silence started it, and it is the
\* first to: prevConn.Nc.Close() never fails and the restart goes on.
ClosesOwnConnection ==
    \A k \in Conns : task[k] = "close" => conn[info[k]] = k /\ k \in open

\* A node that was connected to is watched or being restarted for as long as
\* its restarts come as far as a new connection (watchHealth returns with a
\* restart under way, connectToAgent/LB starts the next watcher before the
\* handshake): nothing else makes the controller forget it.
WatchedUnlessLost ==
    \A n \in Nodes :
        conn[n] # 0 => task[conn[n]] = "lost" \/ \E t \in Tasks : For(t) = n /\ Supervises(t)

\* The controller loses no process: one that is starting or up and was not
\* told to die is the one the next restart kills.
NoOrphans ==
    \A p \in Tasks : Live(p) => proc[For(p)] = p

\* Node n is in service: its process is connected and heard of.
Serving(n) ==
    /\ status[n] = "Healthy"
    /\ fresh[n]
    /\ conn[n] \in open
    /\ peer[conn[n]] = proc[n]
    /\ process[proc[n]] = "up"

\* A node found Unhealthy comes back into service: restartAgent/restartLb and
\* the watchers they start go on until it does.
HealsItself ==
    \A n \in Nodes : status[n] = "Unhealthy" ~> Serving(n)

\* A restarted node that serves has been told, or will be, which
\* microservices it had (recoverConnections).
ServedIsRecovered ==
    \A n \in Nodes :
        Serving(n) /\ proc[n] \notin Nodes ~> (proc[n] \in recovered \/ ~Serving(n))
=============================================================================
