-------------------------- MODULE SupervisorProofs --------------------------
(***************************************************************************)
(* Proofs about Supervisor for any number of nodes, connections and        *)
(* crashes, prompt or late answers and exits: type correctness, one        *)
(* supervisor per node, a restart closes its own connection, no process is *)
(* lost.                                                                   *)
(***************************************************************************)
EXTENDS Supervisor, TLAPS

\* Connections that were not made have no task and no process, and what a
\* task that ran is for is a node.
Unmade ==
    \A k \in Conns : k > made => task[k] = "idle" /\ process[k] = "none"

\* A node that was not created has no connection.
Uncreated ==
    \A n \in Nodes : task[n] = "idle" => \A k \in Conns : info[k] # n

\* The supervisor of a node works on its latest connection, which is open
\* until the supervisor closes it.
Latest ==
    \A k \in Conns : task[k] \in {"watching", "kill", "close"} =>
        conn[info[k]] = k /\ k \in open

\* From Kill to Start no process of the node is alive.
Stopped ==
    \A k \in Conns : task[k] \in {"close", "start"} =>
        \A p \in Tasks : For(p) = info[k] => ~Live(p)

\* A node that was connected to has a latest connection of its own.
Connected ==
    \A k \in Conns : info[k] \in Nodes =>
        /\ peer[k] \in Tasks
        /\ conn[info[k]] \in Conns
        /\ info[conn[info[k]]] = info[k]

IInv ==
    /\ TypeOK
    /\ Connected
    /\ Unmade
    /\ Uncreated
    /\ OneSupervisor
    /\ Latest
    /\ Stopped
    /\ NoOrphans

-----------------------------------------------------------------------------
LEMMA InitInv == Init => IInv
<1> SUFFICES ASSUME Init PROVE IInv
    OBVIOUS
<1> USE SupervisorAssumption DEF Init
<1>1. TypeOK
    <2>1. /\ made \in 0..MaxConns /\ crashes \in 0..MaxCrashes
          /\ \A k \in Conns : ~(k <= made)
        BY DEF Conns
    <2>2. /\ link \in [Tasks -> 0..made]
          /\ conn \in [Nodes -> 0..made]
        OBVIOUS
    <2> QED BY <2>1, <2>2 DEF TypeOK, Phases
<1>2. Unmade /\ Uncreated /\ Latest /\ Stopped
    BY DEF Unmade, Uncreated, Latest, Stopped, Tasks
<1>3. OneSupervisor /\ NoOrphans /\ Connected
    BY DEF OneSupervisor, Supervises, NoOrphans, Live, Connected
<1> QED BY <1>1, <1>2, <1>3 DEF IInv

LEMMA StaysConnected ==
    ASSUME IInv, UNCHANGED <<info, conn, peer>>
    PROVE  Connected'
BY DEF IInv, Connected

\* What a task that has run is for.
LEMMA Active ==
    ASSUME IInv, NEW t \in Tasks, task[t] # "idle" \/ process[t] # "none"
    PROVE  /\ For(t) \in Nodes
           /\ t \in Nodes => For(t) = t
           /\ t \notin Nodes => t \in Conns /\ t <= made /\ For(t) = info[t]
<1>1. CASE t \in Nodes BY <1>1 DEF For
<1>2. CASE t \notin Nodes
    <2>1. t \in Conns /\ ~(t > made)
        BY <1>2 DEF Tasks, IInv, Unmade
    <2>2. t <= made
        BY <2>1 DEF IInv, TypeOK, Conns
    <2> QED BY <1>2, <2>1, <2>2 DEF For, IInv, TypeOK
<1> QED BY <1>1, <1>2

\* Steps that leave the connections alone, start nothing, and let no task but
\* those that stop supervising, or start a process, change phase.
QuietStep ==
    /\ UNCHANGED <<connVars, proc>>
    /\ \A p \in Tasks : /\ process'[p] # process[p] => process[p] # "none"
                        /\ Live(p)' => Live(p)
    /\ \A t \in Tasks :
          task'[t] # task[t] =>
              /\ task[t] # "idle" /\ task'[t] # "idle"
              /\ ~(Supervises(t)')

LEMMA QuietInv ==
    ASSUME IInv, QuietStep, TypeOK'
    PROVE  IInv'
<1> USE DEF IInv, QuietStep, connVars
<1>1. Unmade'
    BY DEF Unmade, Tasks
<1>2. Uncreated'
    BY DEF Uncreated, Tasks
<1>3. \A t \in Tasks : Supervises(t)' => task'[t] = task[t] /\ Supervises(t)
    BY DEF Supervises
<1>4. \A t \in Tasks : For(t)' = For(t)
    BY DEF For
<1>5. OneSupervisor'
    BY <1>3, <1>4 DEF OneSupervisor
<1>6. \A k \in Conns : task'[k] \in {"watching", "kill", "close", "start"}
                       => task'[k] = task[k]
    BY <1>3 DEF Supervises, Tasks
<1>7. Latest'
    BY <1>6 DEF Latest
<1>8. Stopped'
    BY <1>4, <1>6 DEF Stopped
<1>9. NoOrphans'
    BY <1>4 DEF NoOrphans
<1>10. Connected'
    BY StaysConnected
<1> QED BY <1>1, <1>2, <1>5, <1>7, <1>8, <1>9, <1>10

-----------------------------------------------------------------------------
(* The steps of a restart.                                                  *)

\* A supervisor that goes on supervising, or stops, stays the only one.
LEMMA StaysAlone ==
    ASSUME IInv, NEW k \in Conns, Supervises(k), UNCHANGED info,
           \A t \in Tasks \ {k} : task'[t] = task[t]
    PROVE  OneSupervisor'
<1>1. \A t \in Tasks : Supervises(t)' => Supervises(t)
    BY DEF Supervises
<1>2. \A t \in Tasks : For(t)' = For(t)
    BY DEF For
<1> QED BY <1>1, <1>2 DEF IInv, OneSupervisor

LEMMA WatchFiresInv ==
    ASSUME IInv, NEW k \in Conns, WatchFires(k)
    PROVE  IInv'
<1> USE DEF WatchFires, connVars, procVars
<1>0. /\ TypeOK /\ k \in Tasks /\ Supervises(k)
      /\ task' = [task EXCEPT ![k] = "kill"]
      /\ UNCHANGED <<info, conn, open, proc, process, made>>
    BY DEF IInv, Supervises, Tasks
<1>t. DOMAIN task = Tasks
    BY <1>0 DEF TypeOK
<1>1. TypeOK'
    BY <1>0 DEF TypeOK, Phases
<1>2. OneSupervisor'
    BY <1>0, <1>t, StaysAlone
<1>3. Unmade' /\ Uncreated'
    BY <1>0, <1>t DEF IInv, Unmade, Uncreated, Tasks
<1>4. Latest'
    BY <1>0, <1>t DEF IInv, Latest, Tasks
<1>5. Stopped' /\ NoOrphans'
    BY <1>0, <1>t DEF IInv, Stopped, NoOrphans, For, Live, Tasks
<1>6. Connected'
    BY StaysConnected
<1> QED BY <1>1, <1>2, <1>3, <1>4, <1>5, <1>6 DEF IInv

\* Kill reaches the one process of the node that may be alive.
LEMMA KillInv ==
    ASSUME IInv, NEW k \in Conns, Kill(k)
    PROVE  IInv'
<1> DEFINE n == info[k]
<1>0. /\ TypeOK /\ k \in Tasks /\ Supervises(k)
      /\ task[k] = "kill"
      /\ task' = [task EXCEPT ![k] = "close"]
      /\ process' = [process EXCEPT ![proc[n]] = Killed(proc[n])]
      /\ UNCHANGED <<connVars, proc, link, crashes, beatVars, recovered>>
    BY DEF IInv, Supervises, Tasks, Kill
<1>t. DOMAIN task = Tasks /\ DOMAIN process = Tasks
    BY <1>0 DEF TypeOK
<1> USE DEF connVars, beatVars
<1>1. TypeOK'
    <2>1. task' \in [Tasks -> Phases]
        BY <1>0 DEF TypeOK, Phases
    <2>2. process' \in [Tasks -> {"none", "starting", "up", "dying", "gone"}]
        <3>1. CASE proc[n] \in Tasks
            <4>1. Killed(proc[n]) \in {"none", "starting", "up", "dying", "gone"}
                BY <1>0, <3>1 DEF TypeOK, Killed
            <4> QED BY <1>0, <4>1 DEF TypeOK
        <3>2. CASE proc[n] \notin Tasks
            BY <1>0, <3>2 DEF TypeOK
        <3> QED BY <3>1, <3>2
    <2> QED BY <1>0, <2>1, <2>2 DEF TypeOK
<1>2. OneSupervisor'
    BY <1>0, <1>t, StaysAlone
<1>3. \A p \in Tasks : /\ Live(p)' => Live(p) /\ p # proc[n]
                       /\ process[p] = "none" => process'[p] = "none"
    BY <1>0, <1>t DEF Live, Killed
<1>4. Unmade' /\ Uncreated'
    BY <1>0, <1>t, <1>3 DEF IInv, Unmade, Uncreated, Tasks
<1>5. Latest'
    BY <1>0, <1>t DEF IInv, Latest, Tasks
<1>6. \A p \in Tasks : For(p)' = For(p)
    BY <1>0 DEF For
<1>7. NoOrphans'
    BY <1>0, <1>3, <1>6 DEF IInv, NoOrphans
<1>8. Stopped'
    <2> SUFFICES ASSUME NEW j \in Conns, task'[j] \in {"close", "start"},
                        NEW p \in Tasks, For(p) = info[j], Live(p)'
                 PROVE  FALSE
        BY <1>0, <1>6 DEF Stopped
    <2>1. Live(p) /\ p # proc[n]
        BY <1>3
    <2>2. CASE j = k
        BY <2>1, <2>2 DEF IInv, NoOrphans
    <2>3. CASE j # k
        BY <1>0, <1>t, <2>1, <2>3 DEF IInv, Stopped, Tasks
    <2> QED BY <2>2, <2>3
<1>9. Connected'
    BY <1>0, StaysConnected
<1> QED BY <1>1, <1>2, <1>4, <1>5, <1>7, <1>8, <1>9 DEF IInv

LEMMA CloseInv ==
    ASSUME IInv, NEW k \in Conns, Close(k)
    PROVE  IInv'
<1>0. /\ TypeOK /\ k \in Tasks /\ Supervises(k) /\ task[k] = "close"
      /\ task' = [task EXCEPT ![k] = IF conn[info[k]] \in open THEN "start" ELSE "lost"]
      /\ open' = open \ {conn[info[k]]}
      /\ UNCHANGED <<link, made, info, conn, peer, procVars, beatVars, recovered>>
    BY DEF IInv, Supervises, Tasks, Close
<1>t. DOMAIN task = Tasks
    BY <1>0 DEF TypeOK
<1> USE DEF procVars, beatVars
<1>1. TypeOK'
    BY <1>0 DEF TypeOK, Phases
<1>2. OneSupervisor'
    BY <1>0, <1>t, StaysAlone
<1>3. Unmade' /\ Uncreated'
    BY <1>0, <1>t DEF IInv, Unmade, Uncreated, Tasks
<1>4. conn[info[k]] = k
    BY <1>0 DEF IInv, Latest
<1>5. \A j \in Conns : j # k => task'[j] = task[j]
    BY <1>0, <1>t DEF Tasks
<1>6. task'[k] \in {"start", "lost"}
    BY <1>0, <1>t
<1>7. Latest'
    BY <1>0, <1>4, <1>5, <1>6 DEF IInv, Latest
<1>8. Stopped'
    BY <1>0, <1>5 DEF IInv, Stopped, For, Live
<1>9. NoOrphans'
    BY <1>0 DEF IInv, NoOrphans, For, Live
<1>10. Connected'
    BY <1>0, StaysConnected
<1> QED BY <1>1, <1>2, <1>3, <1>7, <1>8, <1>9, <1>10 DEF IInv

\* Start makes the only process of the node that is alive.
LEMMA StartInv ==
    ASSUME IInv, NEW k \in Conns, Start(k)
    PROVE  IInv'
<1>0. /\ TypeOK /\ k \in Tasks /\ Supervises(k) /\ task[k] = "start"
      /\ task' = [task EXCEPT ![k] = "dial"]
      /\ process' = [process EXCEPT ![k] = "starting"]
      /\ proc' = [proc EXCEPT ![info[k]] = k]
      /\ UNCHANGED <<link, connVars, crashes, beatVars, recovered>>
    BY DEF IInv, Supervises, Tasks, Start
<1>a. For(k) = info[k] /\ info[k] \in Nodes /\ k <= made /\ k \notin Nodes
    <2>1. k \notin Nodes
        BY SupervisorAssumption
    <2> QED BY <1>0, <2>1, Active
<1>t. DOMAIN task = Tasks /\ DOMAIN process = Tasks /\ DOMAIN proc = Nodes
    BY <1>0 DEF TypeOK
<1> USE DEF connVars, beatVars
<1>1. TypeOK'
    BY <1>0, <1>a DEF TypeOK, Phases
<1>2. OneSupervisor'
    BY <1>0, <1>t, StaysAlone
<1>3. Unmade' /\ Uncreated'
    <2>1. ~(k > made)
        BY <1>0, <1>a DEF TypeOK, Conns
    <2> QED BY <1>0, <1>t, <2>1 DEF IInv, Unmade, Uncreated, Tasks
<1>4. Latest'
    BY <1>0, <1>t DEF IInv, Latest, Tasks
<1>5. \A p \in Tasks : /\ For(p)' = For(p)
                       /\ p # k => (Live(p)' <=> Live(p))
    BY <1>0, <1>t DEF For, Live
<1>6. \A p \in Tasks : For(p) = info[k] => ~Live(p)
    BY <1>0 DEF IInv, Stopped
<1>7. NoOrphans'
    <2> SUFFICES ASSUME NEW p \in Tasks, Live(p)' PROVE proc'[For(p)] = p
        BY <1>5 DEF NoOrphans
    <2>1. CASE p = k
        BY <1>0, <1>a, <1>t, <2>1
    <2>2. CASE p # k
        BY <1>0, <1>5, <1>6, <2>2 DEF IInv, NoOrphans
    <2> QED BY <2>1, <2>2
<1>8. Stopped'
    <2> SUFFICES ASSUME NEW j \in Conns, task'[j] \in {"close", "start"},
                        NEW p \in Tasks, For(p) = info[j], Live(p)'
                 PROVE  FALSE
        BY <1>0, <1>5 DEF Stopped
    <2>1. j # k /\ task[j] = task'[j] /\ j \in Tasks /\ j \notin Nodes
        BY <1>0, <1>t, SupervisorAssumption DEF Tasks
    <2>2. p # k
        BY <1>0, <1>a, <2>1 DEF IInv, OneSupervisor, Supervises, For
    <2> QED BY <1>5, <2>1, <2>2 DEF IInv, Stopped
<1>9. Connected'
    BY <1>0, StaysConnected
<1> QED BY <1>1, <1>2, <1>3, <1>4, <1>7, <1>8, <1>9 DEF IInv

-----------------------------------------------------------------------------
(* Creation and connection.                                                 *)

LEMMA CreateInv ==
    ASSUME IInv, NEW n \in Nodes, Create(n)
    PROVE  IInv'
<1>0. /\ TypeOK /\ n \in Tasks /\ task[n] = "idle"
      /\ task' = [task EXCEPT ![n] = "dial"]
      /\ process' = [process EXCEPT ![n] = "starting"]
      /\ proc' = [proc EXCEPT ![n] = n]
      /\ UNCHANGED <<link, connVars, crashes, beatVars, recovered>>
    BY DEF IInv, Tasks, Create
<1>t. DOMAIN task = Tasks /\ DOMAIN process = Tasks /\ DOMAIN proc = Nodes
    BY <1>0 DEF TypeOK
<1>n. n \notin Conns /\ \A k \in Conns : info[k] # n /\ k \in Tasks /\ k \notin Nodes
    BY <1>0, SupervisorAssumption DEF IInv, Uncreated, Tasks
<1> USE DEF connVars, beatVars
<1>1. TypeOK'
    BY <1>0 DEF TypeOK, Phases
<1>2. \A p \in Tasks \ {n} : /\ For(p) # n /\ task'[p] = task[p]
                             /\ Live(p)' <=> Live(p)
    BY <1>0, <1>t, <1>n DEF For, Tasks, Live
<1>3. \A p \in Tasks : For(p)' = For(p)
    BY <1>0 DEF For
<1>4. For(n) = n
    BY DEF For
<1>5. OneSupervisor'
    BY <1>2, <1>3, <1>4 DEF IInv, OneSupervisor, Supervises
<1>6. Unmade' /\ Uncreated'
    BY <1>0, <1>t, <1>n DEF IInv, Unmade, Uncreated, Tasks
<1>7. Latest'
    BY <1>0, <1>t, <1>n DEF IInv, Latest
<1>8. Stopped'
    <2>1. \A k \in Conns : task'[k] = task[k]
        BY <1>0, <1>t, <1>n
    <2> QED BY <1>0, <1>2, <1>3, <1>4, <1>n, <2>1 DEF IInv, Stopped
<1>9. NoOrphans'
    <2> SUFFICES ASSUME NEW p \in Tasks, Live(p)' PROVE proc'[For(p)] = p
        BY <1>3 DEF NoOrphans
    <2>1. CASE p = n
        BY <1>0, <1>4, <1>t, <2>1
    <2>2. CASE p # n
        BY <1>0, <1>2, <2>2 DEF IInv, NoOrphans
    <2> QED BY <2>1, <2>2
<1>10. Connected'
    BY <1>0, StaysConnected
<1> QED BY <1>1, <1>5, <1>6, <1>7, <1>8, <1>9, <1>10 DEF IInv

\* A connection is made: supervision passes to its watcher.
LEMMA DialInv ==
    ASSUME IInv, NEW t \in Tasks, Dial(t)
    PROVE  IInv'
<1> DEFINE n == For(t)
<1>0. /\ TypeOK /\ task[t] = "dial" /\ Supervises(t) /\ made < MaxConns
      /\ \E p \in Tasks : peer' = [peer EXCEPT ![made + 1] = p]
      /\ made' = made + 1
      /\ info' = [info EXCEPT ![made + 1] = n]
      /\ conn' = [conn EXCEPT ![n] = made + 1]
      /\ open' = open \cup {made + 1}
      /\ fresh' = [fresh EXCEPT ![n] = TRUE]
      /\ task' = [task EXCEPT ![t] = "hello", ![made + 1] = "watching"]
      /\ link' = [link EXCEPT ![t] = made + 1]
      /\ UNCHANGED <<procVars, status, beats, leaked, recovered>>
    BY DEF IInv, Supervises, Dial
<1>a. n \in Nodes /\ (t \in Nodes => n = t) /\ (t \notin Nodes => t \in Conns /\ n = info[t])
    BY <1>0, Active
<1>t. /\ DOMAIN task = Tasks /\ DOMAIN info = Conns /\ DOMAIN conn = Nodes
      /\ made \in Nat
    BY <1>0 DEF TypeOK
<1>k. PICK k : k = made + 1
    OBVIOUS
<1>m. /\ k \in Conns /\ k \in Tasks /\ k \notin Nodes
      /\ k > made /\ ~(k <= made)
      /\ \A j \in Conns : j > k => j > made
      /\ \A j \in 0..made : j \in 0..k /\ j # k
      /\ \A j \in Conns : j <= k <=> (j <= made \/ j = k)
    BY <1>0, <1>k, <1>t, SupervisorAssumption DEF Conns, Tasks
<1>i. task[k] = "idle" /\ process[k] = "none" /\ info[k] = NoNode /\ k # t
    BY <1>0, <1>m, SupervisorAssumption DEF IInv, Unmade, TypeOK
<1>s. /\ \A j \in Tasks : j # k /\ j # t => task'[j] = task[j]
      /\ task'[k] = "watching" /\ task'[t] = "hello"
      /\ \A j \in Conns : j # k => info'[j] = info[j]
      /\ info'[k] = n
      /\ conn'[n] = k
      /\ \A m \in Nodes : m # n => conn'[m] = conn[m]
      /\ process' = process /\ proc' = proc
    BY <1>0, <1>a, <1>k, <1>m, <1>i, <1>t DEF procVars
<1>1. TypeOK'
    <2>1. /\ task' \in [Tasks -> Phases]
          /\ fresh' \in [Nodes -> BOOLEAN]
          /\ peer' \in [Conns -> Tasks \cup {NoNode}]
          /\ info' \in [Conns -> Nodes \cup {NoNode}]
        BY <1>0, <1>a DEF TypeOK, Phases
    <2>2. made' \in 0..MaxConns /\ made' = k
        BY <1>0, <1>k, <1>t, SupervisorAssumption
    <2>3. link' \in [Tasks -> 0..k] /\ conn' \in [Nodes -> 0..k]
        <3>1. k \in 0..k
            BY <1>k, <1>t
        <3>2. link \in [Tasks -> 0..k] /\ conn \in [Nodes -> 0..k]
            BY <1>0, <1>m DEF TypeOK
        <3> QED BY <1>0, <1>k, <3>1, <3>2
    <2>4. \A j \in Conns : info'[j] \in Nodes <=> j <= k
        <3> SUFFICES ASSUME NEW j \in Conns PROVE info'[j] \in Nodes <=> j <= k
            OBVIOUS
        <3>1. CASE j = k BY <1>a, <1>m, <1>s, <3>1
        <3>2. CASE j # k BY <1>0, <1>m, <1>s, <3>2 DEF TypeOK
        <3> QED BY <3>1, <3>2
    <2>5. open' \subseteq 1..k /\ beats' \subseteq 1..k
        <3>1. 1..made \subseteq 1..k /\ k \in 1..k
            BY <1>k, <1>t
        <3> QED BY <1>0, <1>k, <3>1 DEF TypeOK
    <2> QED BY <1>0, <2>1, <2>2, <2>3, <2>4, <2>5 DEF TypeOK, procVars
<1>2. \A p \in Tasks \ {k} : For(p)' = For(p)
    BY <1>s DEF For, Tasks
<1>3. For(k)' = n
    BY <1>m, <1>s DEF For
<1>4. \A p \in Tasks \ {k} : Supervises(p)' => Supervises(p) /\ p # t /\ For(p) # n
    BY <1>0, <1>s DEF IInv, OneSupervisor, Supervises
<1>5. OneSupervisor'
    BY <1>2, <1>3, <1>4 DEF IInv, OneSupervisor
<1>6. Unmade'
    <2> SUFFICES ASSUME NEW j \in Conns, j > k
                 PROVE  task'[j] = "idle" /\ process'[j] = "none"
        BY <1>0, <1>k DEF Unmade
    <2>1. j > made /\ j \in Tasks /\ j # k
        BY <1>m, <1>k, <1>t DEF Tasks, Conns
    <2>2. task[j] = "idle" /\ process[j] = "none"
        BY <2>1 DEF IInv, Unmade
    <2>3. j # t
        BY <1>0, <2>2
    <2> QED BY <1>s, <2>1, <2>2, <2>3
<1>7. Uncreated'
    <2>1. task'[n] # "idle"
        <3>1. task[n] # "idle"
            BY <1>0, <1>a DEF IInv, Uncreated
        <3> QED BY <1>a, <1>s, <1>m, <3>1 DEF Tasks
    <2>2. \A m \in Nodes : task'[m] = "idle" => task[m] = "idle" /\ m # n
        BY <1>m, <1>s, <2>1 DEF Tasks
    <2> QED BY <1>s, <2>2 DEF IInv, Uncreated
<1>8. Latest'
    <2> SUFFICES ASSUME NEW j \in Conns, task'[j] \in {"watching", "kill", "close"}
                 PROVE  conn'[info'[j]] = j /\ j \in open'
        BY DEF Latest
    <2>1. CASE j = k BY <1>0, <1>k, <1>s, <2>1
    <2>2. CASE j # k
        <3>1. Supervises(j)' /\ j \in Tasks \ {k} /\ j \notin Nodes
            BY <2>2, SupervisorAssumption DEF Supervises, Tasks
        <3>2. Supervises(j) /\ j # t /\ For(j) # n
            BY <1>4, <3>1
        <3>3. info[j] # n /\ task[j] = task'[j] /\ info'[j] = info[j]
            BY <1>s, <2>2, <3>1, <3>2 DEF For
        <3>4. info[j] \in Nodes
            BY <3>1, <3>2, Active DEF Supervises
        <3> QED BY <1>0, <1>s, <3>3, <3>4 DEF IInv, Latest
    <2> QED BY <2>1, <2>2
<1>9. \A p \in Tasks : Live(p)' <=> Live(p) /\ p # k
    BY <1>i, <1>s DEF Live
<1>10. NoOrphans'
    BY <1>2, <1>9, <1>s DEF IInv, NoOrphans
<1>11. Stopped'
    <2> SUFFICES ASSUME NEW j \in Conns, task'[j] \in {"close", "start"},
                        NEW p \in Tasks, For(p)' = info'[j], Live(p)'
                 PROVE  FALSE
        BY DEF Stopped
    <2>1. j # k /\ j # t /\ j \in Tasks
        BY <1>s DEF Tasks
    <2> QED BY <1>2, <1>9, <1>s, <2>1 DEF IInv, Stopped
<1>12. Connected'
    <2> SUFFICES ASSUME NEW j \in Conns, info'[j] \in Nodes
                 PROVE  /\ peer'[j] \in Tasks
                        /\ conn'[info'[j]] \in Conns
                        /\ info'[conn'[info'[j]]] = info'[j]
        BY DEF Connected
    <2>1. PICK p \in Tasks : peer' = [peer EXCEPT ![k] = p]
        BY <1>0, <1>k
    <2>2. peer'[j] \in Tasks
        BY <1>0, <1>s, <2>1 DEF IInv, Connected, TypeOK
    <2>3. CASE info'[j] = n
        BY <1>m, <1>s, <2>2, <2>3
    <2>4. CASE info'[j] # n
        <3>1. j # k /\ info[j] = info'[j] /\ conn'[info[j]] = conn[info[j]]
            BY <1>s, <2>4
        <3>2. conn[info[j]] \in Conns /\ info[conn[info[j]]] = info[j]
            BY <3>1 DEF IInv, Connected
        <3>3. conn[info[j]] # k
            BY <1>i, <3>1, <3>2, SupervisorAssumption
        <3> QED BY <1>s, <2>2, <3>1, <3>2, <3>3
    <2> QED BY <2>3, <2>4
<1> QED BY <1>1, <1>5, <1>6, <1>7, <1>8, <1>10, <1>11, <1>12 DEF IInv

-----------------------------------------------------------------------------
(* Every other step changes no connection and makes no supervisor.          *)

LEMMA TaskQuiet ==
    ASSUME IInv, NEW t \in Tasks, DialFails(t) \/ Hello(t) \/ HelloFails(t)
    PROVE  IInv'
<1>0. TypeOK
    BY DEF IInv
<1>t. DOMAIN task = Tasks /\ DOMAIN process = Tasks
    BY <1>0 DEF TypeOK
<1> USE DEF connVars, procVars, beatVars
<1>1. CASE DialFails(t)
    <2>1. TypeOK'
        BY <1>0, <1>1 DEF DialFails, TypeOK, Phases
    <2>2. QuietStep
        BY <1>1, <1>t DEF DialFails, QuietStep, Supervises, Live
    <2> QED BY <2>1, <2>2, QuietInv
<1>2. CASE Hello(t)
    <2>1. TypeOK'
        BY <1>0, <1>2 DEF Hello, TypeOK, Phases
    <2>2. QuietStep
        BY <1>2, <1>t DEF Hello, QuietStep, Supervises, Live
    <2> QED BY <2>1, <2>2, QuietInv
<1>3. CASE HelloFails(t)
    <2>1. Killed(t) \in {"none", "starting", "up", "dying", "gone"}
        BY <1>0 DEF TypeOK, Killed
    <2>2. TypeOK'
        BY <1>0, <1>3, <2>1 DEF HelloFails, TypeOK, Phases
    <2>3. QuietStep
        BY <1>3, <1>t DEF HelloFails, QuietStep, Supervises, Live, Killed
    <2> QED BY <2>2, <2>3, QuietInv
<1> QED BY <1>1, <1>2, <1>3

LEMMA ProcessQuiet ==
    ASSUME IInv, NEW p \in Tasks, Runs(p) \/ Crash(p)
    PROVE  IInv'
<1>0. TypeOK
    BY DEF IInv
<1>t. DOMAIN task = Tasks /\ DOMAIN process = Tasks
    BY <1>0 DEF TypeOK
<1> USE DEF connVars, procVars, beatVars, taskVars
<1>1. CASE Bind(p)
    <2>1. TypeOK'
        BY <1>0, <1>1 DEF Bind, TypeOK
    <2>2. QuietStep
        BY <1>1, <1>t DEF Bind, QuietStep, Live
    <2> QED BY <2>1, <2>2, QuietInv
<1>2. CASE Exits(p)
    <2>1. TypeOK'
        BY <1>0, <1>2 DEF Exits, TypeOK
    <2>2. QuietStep
        BY <1>2, <1>t DEF Exits, QuietStep, Live
    <2> QED BY <2>1, <2>2, QuietInv
<1>3. CASE Crash(p)
    <2>1. crashes' \in 0..MaxCrashes
        <3>1. crashes \in 0..MaxCrashes /\ crashes < MaxCrashes /\ crashes' = crashes + 1
            BY <1>0, <1>3 DEF Crash, TypeOK
        <3> QED BY <3>1, SupervisorAssumption
    <2>2. TypeOK'
        BY <1>0, <1>3, <2>1 DEF Crash, TypeOK
    <2>3. QuietStep
        BY <1>3, <1>t DEF Crash, QuietStep, Live
    <2> QED BY <2>2, <2>3, QuietInv
<1> QED BY <1>1, <1>2, <1>3 DEF Runs

LEMMA BeatQuiet ==
    ASSUME IInv,
           \/ \E k \in Conns : Beat(k) \/ HandleBeat(k) \/ Recover(k)
           \/ \E n \in Nodes : GoesStale(n)
           \/ SelectsUnhealthy
    PROVE  IInv'
<1>0. TypeOK
    BY DEF IInv
<1>t. DOMAIN task = Tasks /\ DOMAIN process = Tasks
    BY <1>0 DEF TypeOK
<1> USE DEF connVars, procVars, beatVars, taskVars
<1>1. ASSUME NEW k \in Conns, Beat(k) PROVE IInv'
    <2>1. TypeOK'
        BY <1>0, <1>1 DEF Beat, TypeOK
    <2>2. QuietStep
        BY <1>1 DEF Beat, QuietStep, Live
    <2> QED BY <2>1, <2>2, QuietInv
<1>2. ASSUME NEW k \in Conns, HandleBeat(k) PROVE IInv'
    <2>1. TypeOK'
        BY <1>0, <1>2 DEF HandleBeat, TypeOK
    <2>2. QuietStep
        BY <1>2 DEF HandleBeat, QuietStep, Live
    <2> QED BY <2>1, <2>2, QuietInv
<1>3. ASSUME NEW k \in Conns, Recover(k) PROVE IInv'
    <2>1. k \in Tasks /\ k \notin Nodes
        BY SupervisorAssumption DEF Tasks
    <2>2. recovered' \subseteq Tasks
        <3>1. info[k] \in Nodes /\ k <= made
            BY <1>3, <2>1, Active DEF Recover
        <3>2. peer[conn[info[k]]] \in Tasks
            BY <3>1 DEF IInv, Connected
        <3> QED BY <1>0, <1>3, <3>2 DEF Recover, TypeOK
    <2>3. TypeOK'
        BY <1>0, <1>3, <2>2 DEF Recover, TypeOK, Phases
    <2>4. QuietStep
        BY <1>3, <1>t, <2>1 DEF Recover, QuietStep, Supervises, Live
    <2> QED BY <2>3, <2>4, QuietInv
<1>4. ASSUME NEW n \in Nodes, GoesStale(n) PROVE IInv'
    <2>1. TypeOK'
        BY <1>0, <1>4 DEF GoesStale, TypeOK
    <2>2. QuietStep
        BY <1>4 DEF GoesStale, QuietStep, Live
    <2> QED BY <2>1, <2>2, QuietInv
<1>5. CASE SelectsUnhealthy
    <2>1. TypeOK'
        BY <1>0, <1>5 DEF SelectsUnhealthy, TypeOK
    <2>2. QuietStep
        BY <1>5 DEF SelectsUnhealthy, QuietStep, Live
    <2> QED BY <2>1, <2>2, QuietInv
<1> QED BY <1>1, <1>2, <1>3, <1>4, <1>5

-----------------------------------------------------------------------------
LEMMA StepInv == IInv /\ [Next]_vars => IInv'
<1> SUFFICES ASSUME IInv, [Next]_vars PROVE IInv'
    OBVIOUS
<1>1. ASSUME NEW n \in Nodes, Create(n) PROVE IInv'
    BY <1>1, CreateInv
<1>2. ASSUME NEW t \in Tasks, Connects(t) PROVE IInv'
    BY <1>2, DialInv, TaskQuiet DEF Connects
<1>3. ASSUME NEW p \in Tasks, Runs(p) \/ Crash(p) PROVE IInv'
    BY <1>3, ProcessQuiet
<1>4. ASSUME NEW k \in Conns, WatchFires(k) \/ Kill(k) \/ Close(k) \/ Start(k)
      PROVE  IInv'
    BY <1>4, WatchFiresInv, KillInv, CloseInv, StartInv
<1>5. ASSUME \/ \E k \in Conns : Beat(k) \/ HandleBeat(k) \/ Recover(k)
             \/ \E n \in Nodes : GoesStale(n)
             \/ SelectsUnhealthy
      PROVE  IInv'
    BY <1>5, BeatQuiet
<1>6. CASE UNCHANGED vars
    BY <1>6 DEF vars, taskVars, connVars, procVars, beatVars, IInv, TypeOK, Connected,
                Unmade, Uncreated, OneSupervisor, Supervises, Latest, Stopped,
                NoOrphans, For, Live
<1> HIDE DEF IInv
<1> QED BY <1>1, <1>2, <1>3, <1>4, <1>5, <1>6 DEF Next, Restarts

\* The inductive invariant holds in every reachable state.
THEOREM Invariance == Spec => []IInv
<1>1. Init => IInv
    BY InitInv
<1>2. IInv /\ [Next]_vars => IInv'
    BY StepInv
<1> QED BY <1>1, <1>2, PTL DEF Spec

\* The tables of the controller keep their types, and every connection that
\* was made keeps its entry.
THEOREM TypeCorrect == Spec => []TypeOK
<1>1. IInv => TypeOK
    BY DEF IInv
<1> QED BY <1>1, Invariance, PTL

\* At most one goroutine watches or restarts a node, whatever is slow,
\* crashes or is killed, and however often.
THEOREM SupervisedByOne == Spec => []OneSupervisor
<1>1. IInv => OneSupervisor
    BY DEF IInv
<1> QED BY <1>1, Invariance, PTL

\* A restart closes the connection it was started for, which nobody closed
\* before: Nc.Close() never ends a restart.
THEOREM CloseSucceeds == Spec => []ClosesOwnConnection
<1>1. IInv => ClosesOwnConnection
    BY DEF IInv, Latest, ClosesOwnConnection
<1> QED BY <1>1, Invariance, PTL

\* Every process that is starting or up is the one its node has on record.
THEOREM NoneOrphaned == Spec => []NoOrphans
<1>1. IInv => NoOrphans
    BY DEF IInv
<1> QED BY <1>1, Invariance, PTL

-----------------------------------------------------------------------------
\* The watcher of the connection a node has now supervises it, or is lost.
LatestWatched ==
    \A n \in Nodes :
        conn[n] # 0 =>
            /\ conn[n] \in Conns /\ info[conn[n]] = n
            /\ task[conn[n]] = "lost" \/ Supervises(conn[n])

\* A step that makes no connection, and whose tasks stop supervising only when
\* they are lost.
LEMMA SameWatchers ==
    ASSUME LatestWatched, UNCHANGED <<info, conn>>,
           \A k \in Conns : task[k] = "lost" => task'[k] = "lost",
           \A k \in Conns : Supervises(k) => Supervises(k)' \/ task'[k] = "lost"
    PROVE  LatestWatched'
BY DEF LatestWatched

LEMMA DialWatched ==
    ASSUME IInv, LatestWatched, NEW t \in Tasks, Dial(t)
    PROVE  LatestWatched'
<1> DEFINE n == For(t)
           k == made + 1
<1>0. /\ TypeOK /\ task[t] = "dial" /\ made < MaxConns
      /\ info' = [info EXCEPT ![k] = n]
      /\ conn' = [conn EXCEPT ![n] = k]
      /\ task' = [task EXCEPT ![t] = "hello", ![k] = "watching"]
    BY DEF IInv, Dial
<1>1. n \in Nodes /\ (t \notin Nodes => t \in Conns /\ n = info[t])
    BY <1>0, Active
<1>2. k \in Conns /\ k \in Tasks /\ ~(k <= made)
    BY <1>0, SupervisorAssumption DEF TypeOK, Conns, Tasks
<1>3. DOMAIN task = Tasks /\ DOMAIN info = Conns /\ DOMAIN conn = Nodes
    BY <1>0 DEF TypeOK
<1>4. task'[k] = "watching" /\ info'[k] = n /\ conn'[n] = k
    BY <1>0, <1>1, <1>2, <1>3
<1> SUFFICES ASSUME NEW m \in Nodes, conn'[m] # 0
             PROVE  /\ conn'[m] \in Conns /\ info'[conn'[m]] = m
                    /\ task'[conn'[m]] = "lost" \/ Supervises(conn[m])'
    BY DEF LatestWatched
<1>5. CASE m = n
    BY <1>2, <1>4, <1>5 DEF Supervises
<1>6. CASE m # n
    <2>1. conn'[m] = conn[m]
        BY <1>0, <1>3, <1>6
    <2>2. conn[m] \in Conns /\ info[conn[m]] = m
        BY <2>1 DEF LatestWatched
    <2>3. conn[m] # k
        BY <1>0, <1>2, <2>2 DEF TypeOK
    <2>4. conn[m] # t
        BY <1>1, <1>6, <2>2, SupervisorAssumption
    <2>5. info'[conn[m]] = m /\ task'[conn[m]] = task[conn[m]]
        BY <1>0, <1>3, <2>2, <2>3, <2>4 DEF Tasks
    <2> QED BY <2>1, <2>2, <2>5 DEF LatestWatched, Supervises
<1> QED BY <1>5, <1>6

LEMMA StepWatched == IInv /\ LatestWatched /\ [Next]_vars => LatestWatched'
<1> SUFFICES ASSUME IInv, LatestWatched, [Next]_vars PROVE LatestWatched'
    OBVIOUS
<1>t. DOMAIN task = Tasks /\ \A k \in Conns : k \in Tasks /\ k \notin Nodes
    BY SupervisorAssumption DEF IInv, TypeOK, Tasks
<1> USE DEF connVars, procVars, beatVars, taskVars
<1>1. ASSUME NEW n \in Nodes, Create(n) PROVE LatestWatched'
    BY <1>1, <1>t, SameWatchers DEF Create, Supervises
<1>2. ASSUME NEW t \in Tasks, DialFails(t) \/ Hello(t) \/ HelloFails(t)
      PROVE  LatestWatched'
    BY <1>2, <1>t, SameWatchers DEF DialFails, Hello, HelloFails, Supervises
<1>3. ASSUME NEW p \in Tasks, Runs(p) \/ Crash(p) PROVE LatestWatched'
    BY <1>3, SameWatchers DEF Runs, Bind, Exits, Crash, Supervises
<1>4. ASSUME NEW k \in Conns, WatchFires(k) \/ Kill(k) \/ Close(k) \/ Start(k)
      PROVE  LatestWatched'
    BY <1>4, <1>t, SameWatchers DEF WatchFires, Kill, Close, Start, Supervises
<1>5. ASSUME NEW k \in Conns, Beat(k) \/ HandleBeat(k) \/ Recover(k)
      PROVE  LatestWatched'
    BY <1>5, <1>t, SameWatchers DEF Beat, HandleBeat, Recover, Supervises
<1>6. ASSUME SelectsUnhealthy \/ (\E n \in Nodes : GoesStale(n)) \/ UNCHANGED vars
      PROVE  LatestWatched'
    BY <1>6, SameWatchers DEF SelectsUnhealthy, GoesStale, vars, Supervises
<1>7. ASSUME NEW t \in Tasks, Dial(t) PROVE LatestWatched'
    BY <1>7, DialWatched
<1> QED BY <1>1, <1>2, <1>3, <1>4, <1>5, <1>6, <1>7 DEF Next, Connects, Restarts

\* A node the controller connected to is watched or being restarted, unless
\* its last restart failed before it had a connection.
THEOREM WatchIsKept == Spec => []WatchedUnlessLost
<1>1. Init => IInv /\ LatestWatched
    BY InitInv DEF Init, LatestWatched
<1>2. IInv /\ LatestWatched /\ [Next]_vars => (IInv /\ LatestWatched)'
    BY StepInv, StepWatched
<1>3. IInv /\ LatestWatched => WatchedUnlessLost
    <2>1. \A k \in Conns : k \in Tasks /\ For(k) = info[k]
        BY SupervisorAssumption DEF Tasks, For
    <2> QED BY <2>1 DEF LatestWatched, WatchedUnlessLost
<1> QED BY <1>1, <1>2, <1>3, PTL DEF Spec
=============================================================================
