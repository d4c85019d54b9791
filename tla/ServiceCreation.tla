--------------------------- MODULE ServiceCreation ---------------------------
(***************************************************************************)
(* How a service comes to exist when a client first asks for it: the API   *)
(* gateway asks the controller (api.go, findLbForRequest), the controller  *)
(* has its agent start a microservice and its load balancer connect to it  *)
(* (controller.go, createNewService), and what each of the four has stored *)
(* by then.  Before that, the gateway registers and gets the list of load  *)
(* balancers.  Afterwards nodes fail and are restarted.                    *)
(*                                                                         *)
(* There is one message node: an agent and a load balancer.  A member r of *)
(* Requests is a client's request with the goroutines that work for it,    *)
(* handleClient in the gateway and AsyncEvent in the controller, of which  *)
(* one always waits for the other; it also names the microservice that is  *)
(* started for it.                                                         *)
(***************************************************************************)
EXTENDS Naturals, Sequences, Functions

CONSTANTS
    Requests,   \* requests of clients
    Pings,      \* those of type "ping"; the others are of type "idle"
    MaxFaults   \* bound: nodes that fail, calls that fail or are late

ASSUME CreationAssumption ==
    /\ Pings \subseteq Requests
    /\ MaxFaults \in Nat

VARIABLES
    gate,       \* the gateway: "off", "syncing", "on", "dead"
    linked,     \* APIGateway.lbConn has a connection to the load balancer
    apiKnown,   \* types in Microservices of the gateway's copy of the LBalancerInfo
    req,        \* req[r]: where request r is
    ctl,        \* the controller runs
    lock,       \* Controller.mu: "free", "leaked" to a reader, "stuck" by a writer
    recorded,   \* recorded[t]: Controller.microservices[t], that of both nodes
    reply,      \* reply[r]: what handleCreate returned
    sent,       \* sent[r]: the types in the LBalancerInfo of the answer
    agent, lb,  \* entries of agentsInfo and lbInfo: "none" or their Status
    agentNode,  \* Agent.nodeID
    lbNode,     \* LBalancerInfo.NodeID
    atAgent,    \* atAgent[r]: the CREATE for r in the agent
    node,       \* node[r]: MsInfo.NodeID
    atLb,       \* atLb[r]: the UPDATE for r in the load balancer
    registered, \* LoadBalancer.msInfo
    recTodo,    \* services its handleRecover has still to visit
    missed,     \* history: types a restarted load balancer cannot have got back
    junk,       \* a late answer circulates as a CREATE request
    faults      \* faults so far

gateVars  == <<gate, linked, apiKnown>>
ctlVars   == <<ctl, lock, recorded>>
nodeVars  == <<agent, lb, agentNode, lbNode>>
agentVars == <<atAgent, node, junk>>
lbVars    == <<atLb, registered, recTodo, missed>>
vars == <<gateVars, req, ctlVars, reply, sent, nodeVars, agentVars, lbVars, faults>>

-----------------------------------------------------------------------------
Type(r)  == IF r \in Pings THEN "ping" ELSE "idle"
Types(S) == {Type(r) : r \in S}

\* The microservices the controller has recorded, and their types.
Recorded      == UNION {Range(recorded[t]) : t \in Types(Requests)}
RecordedTypes == {t \in Types(Requests) : recorded[t] # <<>>}

Fault == faults < MaxFaults /\ faults' = faults + 1

\* Request r moves on; handleCreate returns what for it; the answer is used.
Moves(r, to)     == req' = [req EXCEPT ![r] = to] /\ UNCHANGED reply
Returns(r, what) == /\ req' = [req EXCEPT ![r] = "reply"]
                    /\ reply' = [reply EXCEPT ![r] = what]
Ends(r, to)      == /\ req' = [req EXCEPT ![r] = to]
                    /\ reply' = [reply EXCEPT ![r] = "none"]
                    /\ sent' = [sent EXCEPT ![r] = {}]

Init ==
    /\ gate = "off" /\ linked = FALSE /\ apiKnown = {}
    /\ req = [r \in Requests |-> "idle"]
    /\ ctl = TRUE /\ lock = "free" /\ recorded = [t \in Types(Requests) |-> <<>>]
    /\ reply = [r \in Requests |-> "none"]
    /\ sent = [r \in Requests |-> {}]
    /\ agent = "none" /\ lb = "none" /\ agentNode = "" /\ lbNode = ""
    /\ atAgent = [r \in Requests |-> "none"]
    /\ node = [r \in Requests |-> ""]
    /\ junk = FALSE
    /\ atLb = [r \in Requests |-> "none"]
    /\ registered = {} /\ recTodo = {} /\ missed = {}
    /\ faults = 0

-----------------------------------------------------------------------------
(* Mutants: the bugs the properties below are known to catch.               *)

\* New nodes have the status Unknown.
MessageNodeUnknown(ok) ==
    \/ /\ ok /\ agent = "none"
       /\ agent' = "Unknown" /\ agentNode' = "id"
       /\ lb' = "Unknown" /\ lbNode' = "id"
       /\ UNCHANGED faults
    \/ ~ok /\ agent # "none" /\ UNCHANGED <<nodeVars, faults>>

\* handleCreate looks for the service under Controller.mu.
FindsLocking(r) ==
    /\ ctl /\ req[r] = "asked"
    /\ lock # "stuck"
    /\ LET known == recorded[Type(r)]
       IN \/ /\ known # <<>>
             /\ Returns(r, IF lb # "none" /\ node[Head(known)] = lbNode
                           THEN "update" ELSE "nil")
          \/ /\ known = <<>>
             /\ Moves(r, IF agent # "none" /\ lb # "none" THEN "select" ELSE "build")
    /\ UNCHANGED <<gateVars, ctlVars, sent, nodeVars, agentVars, lbVars, faults>>

\* SendRequest waits for the answer of an agent that is gone.
AgentTimesOutOnlyAlive(r) ==
    /\ ctl /\ req[r] = "agent"
    /\ atAgent[r] = "creating" /\ Fault
    /\ Returns(r, "error")
    /\ UNCHANGED <<gateVars, ctlVars, sent, nodeVars, agentVars, lbVars>>

\* The code of the answer of the load balancer is not looked at.
RecordsUnchecked(r) ==
    /\ ctl /\ req[r] = "lb"
    /\ atLb[r] \in {"ok", "error"}
    /\ lock = "free"
    /\ recorded' = [recorded EXCEPT ![Type(r)] = Append(@, r)]
    /\ Returns(r, "update")
    /\ UNCHANGED <<gateVars, ctl, lock, sent, nodeVars, agentVars, lbVars, faults>>

\* createMicroservice leaves NodeID out of the MsInfo.
AgentCreatesUnlabelled(r) ==
    /\ agent = "Healthy" /\ atAgent[r] = "creating"
    /\ atAgent' = [atAgent EXCEPT ![r] = "ok"]
    /\ junk' = (junk \/ req[r] # "agent")
    /\ UNCHANGED <<gateVars, req, ctlVars, reply, sent, nodeVars, node, lbVars, faults>>

\* A second microservice of a type is an error.
LbChecksRefusing(r) ==
    /\ lb = "Healthy" /\ atLb[r] = "check"
    /\ atLb' = [atLb EXCEPT ![r] =
                   IF Type(r) \in Types(registered) THEN "error" ELSE "connect"]
    /\ UNCHANGED <<gateVars, req, ctlVars, reply, sent, nodeVars, agentVars, registered,
                   recTodo, missed, faults>>

-----------------------------------------------------------------------------
(* createNewMessageNode                                                     *)

\* It succeeds, and both nodes get the ID; or it fails at the agent, which
\* leaves nothing that matters, or at the load balancer, which leaves the
\* agent and, when only the handshake failed, the load balancer it killed,
\* for its watcher to restart.  With an agent there, the port is taken: the
\* second agent is never heard of.
MessageNode(ok) ==
    \/ /\ ok /\ agent = "none"
       /\ agent' = "Healthy" /\ agentNode' = "id"
       /\ lb' = "Healthy" /\ lbNode' = "id"
       /\ UNCHANGED faults
    \/ /\ ~ok /\ agent = "none" /\ Fault
       /\ \/ UNCHANGED <<agent, agentNode, lb>>
          \/ /\ agent' = "Healthy" /\ agentNode' = "id"
             /\ lb' \in {"none", "Unhealthy"}
       /\ UNCHANGED lbNode
    \/ ~ok /\ agent # "none" /\ UNCHANGED <<nodeVars, faults>>

(* The gateway registers: handleConnection, RegisterToController,           *)
(* syncLoadBalancers                                                        *)

\* HELLO.  The controller makes a message node and sends its load balancers,
\* if it made any.
Registers ==
    /\ gate = "off"
    /\ gate' = "syncing"
    /\ \E ok \in BOOLEAN : MessageNode(ok)
    /\ UNCHANGED <<linked, apiKnown, req, ctlVars, reply, sent, agentVars, lbVars>>

\* The gateway dials CONNECTION_NUM connections, of which all may fail, and
\* accepts clients.
Syncs ==
    /\ gate = "syncing"
    /\ gate' = "on"
    /\ \/ linked' = (lb = "Healthy") /\ UNCHANGED faults
       \/ linked' = FALSE /\ lb = "Healthy" /\ Fault
    /\ UNCHANGED <<apiKnown, req, ctlVars, reply, sent, nodeVars, agentVars, lbVars>>

(* handleClient, findLbForRequest                                           *)

\* A request of a type the gateway knows goes to the load balancer; for
\* another one the controller is asked.
Asks(r) ==
    /\ gate = "on"
    /\ req[r] = "idle"
    /\ Moves(r, IF Type(r) \in apiKnown THEN "served" ELSE "asked")
    /\ UNCHANGED <<gateVars, ctlVars, sent, nodeVars, agentVars, lbVars, faults>>

\* The answer.  No load balancer: the client is sent away.  A nil one, or one
\* the gateway has no connection to, ends the gateway.  Otherwise its copy is
\* overwritten, with whatever the answer has, and the request goes there.
Learns(r) ==
    /\ gate = "on"
    /\ req[r] = "answered"
    /\ \/ /\ reply[r] = "error"
          /\ Ends(r, "closed")
          /\ UNCHANGED gateVars
       \/ /\ reply[r] = "update" /\ linked
          /\ apiKnown' = sent[r]
          /\ Ends(r, "served")
          /\ UNCHANGED <<gate, linked>>
       \/ /\ reply[r] = "nil" \/ (reply[r] = "update" /\ ~linked)
          /\ gate' = "dead"
          /\ UNCHANGED <<linked, apiKnown, req, reply, sent>>
    /\ UNCHANGED <<ctlVars, nodeVars, agentVars, lbVars, faults>>

-----------------------------------------------------------------------------
(* The controller: handleCreate, createNewService, AsyncEvent               *)

\* A service of the type exists: the load balancer of its node is the answer,
\* without any lock.  If none does, whether there are nodes is looked up under
\* a read lock.
Finds(r) ==
    /\ ctl /\ req[r] = "asked"
    /\ LET known == recorded[Type(r)]
       IN \/ /\ known # <<>>
             /\ Returns(r, IF lb # "none" /\ node[Head(known)] = lbNode
                           THEN "update" ELSE "nil")
          \/ /\ known = <<>> /\ lock # "stuck"
             /\ Moves(r, IF agent # "none" /\ lb # "none" THEN "select" ELSE "build")
    /\ UNCHANGED <<gateVars, ctlVars, sent, nodeVars, agentVars, lbVars, faults>>

\* There is no message node: it is made, and used.
Builds(r) ==
    /\ ctl /\ req[r] = "build"
    /\ lock # "stuck"
    /\ \/ /\ MessageNode(TRUE)
          /\ atAgent' = [atAgent EXCEPT ![r] = "creating"]
          /\ Moves(r, "agent")
       \/ /\ MessageNode(FALSE)
          /\ Returns(r, "error")
          /\ UNCHANGED atAgent
    /\ UNCHANGED <<gateVars, ctlVars, sent, node, junk, lbVars>>

\* Healthy nodes are chosen, and CREATE is sent to the agent.  At one that is
\* not the function returns without c.mu.RUnlock().
Selects(r) ==
    /\ ctl /\ req[r] = "select"
    /\ lock # "stuck"
    /\ IF agent = "Healthy" /\ lb = "Healthy"
       THEN /\ atAgent' = [atAgent EXCEPT ![r] = "creating"]
            /\ Moves(r, "agent")
            /\ UNCHANGED lock
       ELSE /\ Returns(r, "error")
            /\ lock' = "leaked"
            /\ UNCHANGED atAgent
    /\ UNCHANGED <<gateVars, ctl, recorded, sent, nodeVars, node, junk, lbVars, faults>>

\* The agent has answered: UPDATE is sent over the connection that was looked
\* up with the nodes.  After an error there is no MsInfo to send, and the
\* controller panics.
AgentAnswers(r) ==
    /\ ctl /\ req[r] = "agent"
    /\ lock = "free"
    /\ \/ /\ atAgent[r] = "ok"
          /\ atLb' = [atLb EXCEPT ![r] = IF @ = "lost" THEN @ ELSE "check"]
          /\ Moves(r, "lb")
          /\ UNCHANGED ctl
       \/ /\ atAgent[r] = "error"
          /\ ctl' = FALSE
          /\ UNCHANGED <<req, reply, atLb>>
    /\ UNCHANGED <<gateVars, lock, recorded, sent, nodeVars, agentVars,
                   registered, recTodo, missed, faults>>

\* It has not, in five seconds.
AgentTimesOut(r) ==
    /\ ctl /\ req[r] = "agent"
    /\ \/ atAgent[r] = "lost" /\ UNCHANGED faults
       \/ atAgent[r] = "creating" /\ Fault
    /\ Returns(r, "error")
    /\ UNCHANGED <<gateVars, ctlVars, sent, nodeVars, agentVars, lbVars>>

\* The load balancer has taken the service: it is entered with the controller
\* and both nodes.
Records(r) ==
    /\ ctl /\ req[r] = "lb"
    /\ atLb[r] = "ok"
    /\ lock = "free"
    /\ recorded' = [recorded EXCEPT ![Type(r)] = Append(@, r)]
    /\ Returns(r, "update")
    /\ UNCHANGED <<gateVars, ctl, lock, sent, nodeVars, agentVars, lbVars, faults>>

\* It has not.
LbRefuses(r) ==
    /\ ctl /\ req[r] = "lb"
    /\ atLb[r] = "error"
    /\ Returns(r, "error")
    /\ UNCHANGED <<gateVars, ctlVars, sent, nodeVars, agentVars, lbVars, faults>>

\* It has not answered in five seconds: connecting may take it ten.
LbTimesOut(r) ==
    /\ ctl /\ req[r] = "lb"
    /\ \/ atLb[r] = "lost" /\ UNCHANGED faults
       \/ atLb[r] \in {"check", "connect"} /\ Fault
    /\ Returns(r, "error")
    /\ UNCHANGED <<gateVars, ctlVars, sent, nodeVars, agentVars, lbVars>>

\* protocol.Send reads the LBalancerInfo when it encodes it.
Sends(r) ==
    /\ ctl /\ req[r] = "reply"
    /\ Moves(r, "answered")
    /\ sent' = [sent EXCEPT ![r] = RecordedTypes]
    /\ UNCHANGED <<gateVars, ctlVars, nodeVars, agentVars, lbVars, faults>>

\* A heartbeat, or anybody else who wants to write, comes upon the lock that
\* is not given back: from now on readers wait too.
WriterWaits ==
    /\ ctl /\ lock = "leaked"
    /\ lock' = "stuck"
    /\ UNCHANGED <<gateVars, req, ctl, recorded, reply, sent, nodeVars, agentVars, lbVars,
                   faults>>

\* A late answer to CREATE has no pending entry: AsyncEvent takes it for a
\* request, with its text as the type, and goes on as Selects does.  The agent
\* cannot start such a service, answers with an error, and the controller
\* panics.
TakesJunk ==
    LET chosen == agent = "Healthy" /\ lb = "Healthy"
    IN /\ ctl /\ junk
       /\ lock = "free" \/ (~chosen /\ lock = "leaked")
       /\ ctl' = ~chosen
       /\ lock' = IF chosen THEN lock ELSE "leaked"
       /\ UNCHANGED <<gateVars, req, recorded, reply, sent, nodeVars, agentVars, lbVars,
                      faults>>

-----------------------------------------------------------------------------
(* The agent and the load balancer                                          *)

\* handleCreate of the agent (AgentServices), and its answer.
AgentCreates(r) ==
    /\ agent = "Healthy" /\ atAgent[r] = "creating"
    /\ \/ /\ atAgent' = [atAgent EXCEPT ![r] = "ok"]
          /\ node' = [node EXCEPT ![r] = agentNode]
          /\ UNCHANGED faults
       \/ /\ atAgent' = [atAgent EXCEPT ![r] = "error"]
          /\ Fault
          /\ UNCHANGED node
    /\ junk' = (junk \/ req[r] # "agent")
    /\ UNCHANGED <<gateVars, req, ctlVars, reply, sent, nodeVars, lbVars>>

\* AsyncEvent of the load balancer, UPDATE: is the type known?
LbChecks(r) ==
    /\ lb = "Healthy" /\ atLb[r] = "check"
    /\ atLb' = [atLb EXCEPT ![r] = IF Type(r) \in Types(registered) THEN "ok" ELSE "connect"]
    /\ UNCHANGED <<gateVars, req, ctlVars, reply, sent, nodeVars, agentVars, registered,
                   recTodo, missed, faults>>

\* If it is not, connectToMicroservice.
LbConnects(r) ==
    /\ lb = "Healthy" /\ atLb[r] = "connect"
    /\ \/ /\ atLb' = [atLb EXCEPT ![r] = "ok"]
          /\ registered' = registered \cup {r}
          /\ UNCHANGED faults
       \/ /\ atLb' = [atLb EXCEPT ![r] = "error"]
          /\ Fault
          /\ UNCHANGED registered
    /\ UNCHANGED <<gateVars, req, ctlVars, reply, sent, nodeVars, agentVars, recTodo, missed>>

\* handleRecover: one service is connected to; after a failure the others of
\* its type are left out.
LbRecovers(r) ==
    /\ lb = "Healthy" /\ r \in recTodo
    /\ \/ /\ registered' = registered \cup {r}
          /\ recTodo' = recTodo \ {r}
          /\ UNCHANGED missed
       \/ /\ recTodo' = {s \in recTodo : Type(s) # Type(r)}
          /\ missed' = missed \cup {Type(r)}
          /\ UNCHANGED registered
    /\ UNCHANGED <<gateVars, req, ctlVars, reply, sent, nodeVars, agentVars, atLb, faults>>

\* watchHealth finds a node Unhealthy and restarts it (Supervisor): the agent
\* without its node ID, the load balancer without its microservices.
AgentFails ==
    /\ agent = "Healthy" /\ Fault
    /\ agent' = "Unhealthy" /\ agentNode' = "no-node-id-set"
    /\ atAgent' = [r \in Requests |-> IF atAgent[r] = "creating" THEN "lost" ELSE atAgent[r]]
    /\ UNCHANGED <<gateVars, req, ctlVars, reply, sent, lb, lbNode, node, junk, lbVars>>

LbFails ==
    /\ lb = "Healthy" /\ Fault
    /\ lb' = "Unhealthy"
    /\ registered' = {} /\ recTodo' = {}
    /\ atLb' = [r \in Requests |->
          IF atLb[r] \in {"check", "connect"} \/ req[r] = "agent" THEN "lost" ELSE atLb[r]]
    /\ missed' = missed \cup Types({r \in Requests : req[r] = "lb"})
    /\ UNCHANGED <<gateVars, req, ctlVars, reply, sent, agent, agentNode, lbNode, agentVars>>

\* The first heartbeat after the restart, for which the load balancer was told
\* the microservices the controller has recorded for it.
AgentReturns ==
    /\ ctl /\ lock = "free" /\ agent = "Unhealthy"
    /\ agent' = "Healthy"
    /\ UNCHANGED <<gateVars, req, ctlVars, reply, sent, lb, agentNode, lbNode, agentVars,
                   lbVars, faults>>

LbReturns ==
    /\ ctl /\ lock = "free" /\ lb = "Unhealthy"
    /\ lb' = "Healthy"
    /\ recTodo' = Recorded
    /\ UNCHANGED <<gateVars, req, ctlVars, reply, sent, agent, agentNode, lbNode, agentVars,
                   atLb, registered, missed, faults>>

-----------------------------------------------------------------------------
Handles(r)  == \/ Finds(r) \/ Builds(r) \/ Selects(r) \/ AgentAnswers(r) \/ AgentTimesOut(r)
               \/ Records(r) \/ LbRefuses(r) \/ LbTimesOut(r) \/ Sends(r)
Works(r)    == Learns(r) \/ Handles(r) \/ AgentCreates(r) \/ LbChecks(r) \/ LbConnects(r)
Fails       == AgentFails \/ LbFails
Returning   == AgentReturns \/ LbReturns

Next ==
    \/ Registers \/ Syncs \/ WriterWaits \/ TakesJunk \/ Fails \/ Returning
    \/ \E r \in Requests : Asks(r) \/ Works(r) \/ LbRecovers(r)

Spec == Init /\ [][Next]_vars

\* The goroutines that work for a request go on, and calls with a timeout end.
FairSpec == Spec /\ \A r \in Requests : WF_vars(Works(r))
-----------------------------------------------------------------------------
Phases == {"idle", "asked", "build", "select", "agent", "lb", "reply",
           "answered", "served", "closed"}
Status == {"none", "Healthy", "Unhealthy"}

TypeOK ==
    /\ gate \in {"off", "syncing", "on", "dead"}
    /\ linked \in BOOLEAN
    /\ apiKnown \subseteq Types(Requests)
    /\ req \in [Requests -> Phases]
    /\ ctl \in BOOLEAN
    /\ lock \in {"free", "leaked", "stuck"}
    /\ recorded \in [Types(Requests) -> Seq(Requests)]
    /\ reply \in [Requests -> {"none", "update", "nil", "error"}]
    /\ sent \in [Requests -> SUBSET Types(Requests)]
    /\ agent \in Status /\ lb \in Status
    /\ agentNode \in {"", "id", "no-node-id-set"}
    /\ lbNode \in {"", "id"}
    /\ atAgent \in [Requests -> {"none", "creating", "ok", "error", "lost"}]
    /\ node \in [Requests -> {"", "id", "no-node-id-set"}]
    /\ junk \in BOOLEAN
    /\ atLb \in [Requests -> {"none", "check", "connect", "ok", "error", "lost"}]
    /\ registered \subseteq Requests
    /\ recTodo \subseteq Requests
    /\ missed \subseteq Types(Requests)
    /\ faults \in 0..MaxFaults

\* The gateway passes on no request that the load balancer has no microservice
\* for: what it knows is registered there, once handleRecover is through, up
\* to types whose connection handleRecover could not make, or that were being
\* registered when the load balancer failed.
KnownIsServed ==
    lb = "Healthy" /\ recTodo = {} =>
        apiKnown \subseteq Types(registered) \cup missed

\* The system implements ServiceCatalog, whatever fails and however late the
\* answers are: a type is recorded after the load balancer answered SUCCESS for
\* it, and advertised after it was recorded (createNewService, AsyncEvent).
Catalog == INSTANCE ServiceCatalog WITH
    Kinds <- Types(Requests),
    confirmed <- Types({r \in Requests : atLb[r] = "ok"}),
    recorded <- RecordedTypes,
    advertised <- apiKnown

OffersConfirmed == Catalog!Spec

\* The gateway is brought down by an answer (a nil load balancer, or one
\* without connections) only after it found none to connect to, the agent was
\* restarted, or the first handshake of the load balancer failed.
GatewaySurvives ==
    gate = "dead" => ~linked \/ agentNode # "id" \/ lbNode = ""

\* While nothing fails, requests that come together, of one type or several,
\* are all served: nobody is sent away, nothing panics or blocks.
NothingFailsAlone ==
    faults = 0 =>
        /\ gate # "dead" /\ ctl /\ lock = "free" /\ ~junk
        /\ \A r \in Requests : req[r] # "closed"

\* A request for which the controller is asked ends: it goes to the load
\* balancer or its client is sent away, unless gateway or controller die or
\* the lock is not given back.
RequestEnds ==
    \A r \in Requests :
        req[r] = "asked" ~>
            (req[r] \in {"served", "closed"} \/ gate = "dead" \/ ~ctl \/ lock # "free")

\* A type that is recorded is served, whatever becomes of the lock and of the
\* gateway's copy, which an older answer may overwrite: handleCreate finds it
\* again without Controller.mu.
RecordedIsServed ==
    \A r \in Requests :
        (req[r] = "asked" /\ recorded[Type(r)] # <<>>) ~>
            (req[r] = "served" \/ gate = "dead" \/ ~ctl)
=============================================================================
