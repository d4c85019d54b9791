------------------------ MODULE ServiceCreationProofs ------------------------
(***************************************************************************)
(* Proofs about ServiceCreation for any number of requests, types and      *)
(* faults: type correctness, the refinement of ServiceCatalog, that what   *)
(* the gateway knows is registered, that only a broken message node brings *)
(* the gateway down, and that nothing dies or blocks by itself.            *)
(***************************************************************************)
EXTENDS ServiceCreation, TLAPS

-----------------------------------------------------------------------------
(* Types of requests.                                                       *)

LEMMA TypeOf == ASSUME NEW S, NEW r \in S PROVE Type(r) \in Types(S)
BY DEF Types

LEMMA TypeIn ==
    ASSUME NEW S, NEW t \in Types(S)
    PROVE  \E r \in S : t = Type(r)
BY DEF Types

LEMMA TypesOfUnion ==
    ASSUME NEW S, NEW R
    PROVE  Types(S \cup R) = Types(S) \cup Types(R)
BY DEF Types

LEMMA RangeOfSeq ==
    ASSUME NEW S, NEW s \in Seq(S)
    PROVE  /\ Range(s) \subseteq S
           /\ s # <<>> => Head(s) \in Range(s)
           /\ \A e \in S : Range(Append(s, e)) = Range(s) \cup {e}
<1>1. DOMAIN s = 1..Len(s) /\ Len(s) \in Nat /\ \A i \in 1..Len(s) : s[i] \in S
    OBVIOUS
<1>2. Range(s) \subseteq S
    BY <1>1 DEF Range
<1>3. s # <<>> => Head(s) \in Range(s)
    <2> SUFFICES ASSUME s # <<>> PROVE Head(s) \in Range(s)
        OBVIOUS
    <2>1. 1 \in 1..Len(s) /\ Head(s) = s[1]
        OBVIOUS
    <2> QED BY <1>1, <2>1 DEF Range
<1>4. ASSUME NEW e \in S PROVE Range(Append(s, e)) = Range(s) \cup {e}
    <2> DEFINE a == Append(s, e)
    <2>1. /\ DOMAIN a = 1..Len(s) + 1 /\ a[Len(s) + 1] = e
          /\ \A i \in 1..Len(s) : a[i] = s[i]
        OBVIOUS
    <2>2. 1..Len(s) + 1 = (1..Len(s)) \cup {Len(s) + 1}
        BY <1>1
    <2> HIDE DEF a
    <2>3. Range(a) = {a[i] : i \in 1..Len(s)} \cup {e}
        BY <2>1, <2>2 DEF Range
    <2>4. {a[i] : i \in 1..Len(s)} = Range(s)
        BY <1>1, <2>1 DEF Range
    <2> QED BY <2>3, <2>4 DEF a
<1> QED BY <1>2, <1>3, <1>4

LEMMA FaultType == TypeOK /\ Fault => faults' \in 0..MaxFaults
<1> SUFFICES ASSUME TypeOK, Fault PROVE faults' \in 0..MaxFaults
    OBVIOUS
<1>1. faults \in 0..MaxFaults
    BY DEF TypeOK
<1> QED BY <1>1, CreationAssumption DEF Fault

Replies == {"none", "update", "nil", "error"}
Calls   == {"none", "creating", "ok", "error", "lost"}
Updates == {"none", "check", "connect", "ok", "error", "lost"}

LEMMA RecordedIn ==
    ASSUME TypeOK
    PROVE  /\ Recorded \subseteq Requests
           /\ \A r : r \in Recorded <=> \E t \in Types(Requests) : r \in Range(recorded[t])
<1>1. \A t \in Types(Requests) : Range(recorded[t]) \subseteq Requests
    <2>1. \A t \in Types(Requests) : recorded[t] \in Seq(Requests)
        BY DEF TypeOK
    <2> QED BY <2>1, RangeOfSeq
<1>2. \A r : r \in Recorded <=> \E t \in Types(Requests) : r \in Range(recorded[t])
    BY Zenon DEF Recorded
<1> QED BY <1>1, <1>2

-----------------------------------------------------------------------------
(* Type correctness, by groups of variables.                                *)

GateT == gate \in {"off", "syncing", "on", "dead"} /\ linked \in BOOLEAN /\ apiKnown \subseteq Types(Requests)
CallT == req \in [Requests -> Phases] /\ reply \in [Requests -> Replies]
SentT == sent \in [Requests -> SUBSET Types(Requests)]
CtlT  == ctl \in BOOLEAN /\ lock \in {"free", "leaked", "stuck"}
FileT == recorded \in [Types(Requests) -> Seq(Requests)]
NodeT == /\ agent \in Status /\ lb \in Status
         /\ agentNode \in {"", "id", "no-node-id-set"} /\ lbNode \in {"", "id"}
AskT  == atAgent \in [Requests -> Calls]
MadeT == node \in [Requests -> {"", "id", "no-node-id-set"}] /\ junk \in BOOLEAN
LbT   == atLb \in [Requests -> Updates]
RegT  == registered \subseteq Requests /\ recTodo \subseteq Requests /\ missed \subseteq Types(Requests)
FaultsT == faults \in 0..MaxFaults

LEMMA Parts ==
    /\ TypeOK  <=> /\ GateT /\ CallT /\ SentT /\ CtlT /\ FileT /\ NodeT /\ AskT /\ MadeT
                   /\ LbT /\ RegT /\ FaultsT
    /\ TypeOK' <=> /\ GateT' /\ CallT' /\ SentT' /\ CtlT' /\ FileT' /\ NodeT' /\ AskT' /\ MadeT'
                   /\ LbT' /\ RegT' /\ FaultsT'
BY DEF TypeOK, GateT, CallT, SentT, CtlT, FileT, NodeT, AskT, MadeT, LbT, RegT, FaultsT,
       Replies, Calls, Updates

LEMMA Same ==
    ASSUME TypeOK
    PROVE  /\ UNCHANGED <<gate, linked, apiKnown>> => GateT'
           /\ UNCHANGED <<req, reply>> => CallT'
           /\ sent' = sent => SentT'
           /\ UNCHANGED <<ctl, lock>> => CtlT'
           /\ recorded' = recorded => FileT'
           /\ UNCHANGED <<agent, lb, agentNode, lbNode>> => NodeT'
           /\ atAgent' = atAgent => AskT'
           /\ UNCHANGED <<node, junk>> => MadeT'
           /\ atLb' = atLb => LbT'
           /\ UNCHANGED <<registered, recTodo, missed>> => RegT'
           /\ faults' = faults => FaultsT'
           /\ Fault => FaultsT'
<1>1. Fault => FaultsT'
    BY FaultType DEF FaultsT
<1> QED BY <1>1, Parts DEF GateT, CallT, SentT, CtlT, FileT, NodeT, AskT, MadeT, LbT, RegT, FaultsT

LEMMA CallTypes ==
    ASSUME TypeOK, NEW r \in Requests
    PROVE  /\ \A to \in Phases : Moves(r, to) => CallT'
           /\ \A what \in Replies : Returns(r, what) => CallT'
           /\ \A to \in Phases : Ends(r, to) => CallT' /\ SentT'
<1>1. CallT /\ SentT
    BY Parts
<1> QED BY <1>1 DEF Moves, Returns, Ends, CallT, SentT, Phases, Replies

LEMMA NodeTypes ==
    ASSUME TypeOK, NEW ok \in BOOLEAN, MessageNode(ok)
    PROVE  NodeT' /\ FaultsT'
<1>1. NodeT
    BY Parts
<1>2. NodeT'
    BY <1>1 DEF MessageNode, NodeT, Status, nodeVars
<1>3. FaultsT'
    BY Same DEF MessageNode
<1> QED BY <1>2, <1>3

LEMMA AskTypes ==
    ASSUME TypeOK, NEW r \in Requests, NEW x \in Calls, atAgent' = [atAgent EXCEPT ![r] = x]
    PROVE  AskT'
<1>1. AskT
    BY Parts
<1> QED BY <1>1 DEF AskT

LEMMA LbTypes ==
    ASSUME TypeOK, NEW r \in Requests, NEW x \in Updates, atLb' = [atLb EXCEPT ![r] = x]
    PROVE  LbT'
<1>1. LbT
    BY Parts
<1> QED BY <1>1 DEF LbT

LEMMA GatewayTypes ==
    ASSUME TypeOK,
           Registers \/ Syncs \/ \E r \in Requests : Asks(r) \/ Learns(r)
    PROVE  TypeOK'
<1>0. GateT
    BY Parts
<1> USE DEF nodeVars, ctlVars, gateVars, agentVars, lbVars
<1>1. CASE Registers
    <2>1. NodeT' /\ FaultsT'
        BY <1>1, NodeTypes DEF Registers
    <2>2. GateT'
        BY <1>0, <1>1 DEF Registers, GateT
    <2> QED BY <1>1, <2>1, <2>2, Same, Parts DEF Registers
<1>2. CASE Syncs
    <2>1. GateT'
        BY <1>0, <1>2 DEF Syncs, GateT
    <2>2. FaultsT'
        BY <1>2, Same DEF Syncs
    <2> QED BY <1>2, <2>1, <2>2, Same, Parts DEF Syncs
<1>3. ASSUME NEW r \in Requests, Asks(r) PROVE TypeOK'
    <2>1. CallT'
        BY <1>3, CallTypes DEF Asks, Phases
    <2> QED BY <1>3, <2>1, Same, Parts DEF Asks
<1>4. ASSUME NEW r \in Requests, Learns(r) PROVE TypeOK'
    <2>1. CallT' /\ SentT'
        BY <1>4, CallTypes, Same DEF Learns, Phases
    <2>2. GateT'
        <3>1. sent[r] \subseteq Types(Requests)
            BY DEF TypeOK
        <3> QED BY <1>0, <1>4, <3>1 DEF Learns, GateT
    <2> QED BY <1>4, <2>1, <2>2, Same, Parts DEF Learns
<1> QED BY <1>1, <1>2, <1>3, <1>4

LEMMA ControllerTypes ==
    ASSUME TypeOK,
           WriterWaits \/ TakesJunk \/ \E r \in Requests : Handles(r)
    PROVE  TypeOK'
<1>0. CtlT
    BY Parts
<1> USE DEF nodeVars, ctlVars, gateVars, agentVars, lbVars
<1>1. ASSUME NEW r \in Requests, Finds(r) PROVE TypeOK'
    <2>1. CallT'
        BY <1>1, CallTypes DEF Finds, Phases, Replies
    <2> QED BY <1>1, <2>1, Same, Parts DEF Finds
<1>2. ASSUME NEW r \in Requests, Builds(r) PROVE TypeOK'
    <2>1. NodeT' /\ FaultsT'
        BY <1>2, NodeTypes DEF Builds
    <2>2. CallT'
        BY <1>2, CallTypes DEF Builds, Phases, Replies
    <2>3. AskT'
        BY <1>2, AskTypes, Same DEF Builds, Calls
    <2> QED BY <1>2, <2>1, <2>2, <2>3, Same, Parts DEF Builds
<1>3. ASSUME NEW r \in Requests, Selects(r) PROVE TypeOK'
    <2>1. CallT'
        BY <1>3, CallTypes DEF Selects, Phases, Replies
    <2>2. AskT'
        BY <1>3, AskTypes, Same DEF Selects, Calls
    <2>3. CtlT'
        BY <1>0, <1>3 DEF Selects, CtlT
    <2> QED BY <1>3, <2>1, <2>2, <2>3, Same, Parts DEF Selects
<1>4. ASSUME NEW r \in Requests, AgentAnswers(r) PROVE TypeOK'
    <2>1. CallT'
        BY <1>4, CallTypes, Same DEF AgentAnswers, Phases
    <2>2. LbT'
        <3>1. LbT
            BY Parts
        <3> QED BY <1>4, <3>1 DEF AgentAnswers, LbT, Updates
    <2>3. CtlT'
        BY <1>0, <1>4 DEF AgentAnswers, CtlT
    <2> QED BY <1>4, <2>1, <2>2, <2>3, Same, Parts DEF AgentAnswers
<1>5. ASSUME NEW r \in Requests,
             AgentTimesOut(r) \/ LbRefuses(r) \/ LbTimesOut(r)
      PROVE  TypeOK'
    <2>1. CallT'
        BY <1>5, CallTypes DEF AgentTimesOut, LbRefuses, LbTimesOut, Replies
    <2>2. FaultsT'
        BY <1>5, Same DEF AgentTimesOut, LbRefuses, LbTimesOut
    <2> QED BY <1>5, <2>1, <2>2, Same, Parts DEF AgentTimesOut, LbRefuses, LbTimesOut
<1>6. ASSUME NEW r \in Requests, Records(r) PROVE TypeOK'
    <2>1. CallT'
        BY <1>6, CallTypes DEF Records, Replies
    <2>2. FileT'
        <3>1. recorded \in [Types(Requests) -> Seq(Requests)]
            BY DEF TypeOK
        <3>2. Append(recorded[Type(r)], r) \in Seq(Requests)
            BY <3>1, TypeOf
        <3> QED BY <1>6, <3>1, <3>2 DEF Records, FileT
    <2> QED BY <1>6, <2>1, <2>2, Same, Parts DEF Records
<1>7. ASSUME NEW r \in Requests, Sends(r) PROVE TypeOK'
    <2>1. CallT'
        BY <1>7, CallTypes DEF Sends, Phases
    <2>2. SentT'
        <3>1. RecordedTypes \subseteq Types(Requests) /\ SentT
            BY Parts DEF RecordedTypes
        <3> QED BY <1>7, <3>1 DEF Sends, SentT
    <2> QED BY <1>7, <2>1, <2>2, Same, Parts DEF Sends
<1>8. CASE WriterWaits \/ TakesJunk
    <2>1. CtlT'
        BY <1>0, <1>8 DEF WriterWaits, TakesJunk, CtlT
    <2> QED BY <1>8, <2>1, Same, Parts DEF WriterWaits, TakesJunk
<1> QED BY <1>1, <1>2, <1>3, <1>4, <1>5, <1>6, <1>7, <1>8 DEF Handles

LEMMA WorkerTypes ==
    ASSUME TypeOK,
           \/ Fails \/ Returning
           \/ \E r \in Requests : AgentCreates(r) \/ LbChecks(r) \/ LbConnects(r)
                                  \/ LbRecovers(r)
    PROVE  TypeOK'
<1>0. MadeT /\ NodeT /\ RegT /\ AskT /\ LbT
    BY Parts
<1> USE DEF nodeVars, ctlVars, gateVars, agentVars, lbVars
<1>1. ASSUME NEW r \in Requests, AgentCreates(r) PROVE TypeOK'
    <2>1. AskT'
        BY <1>1, AskTypes DEF AgentCreates, Calls
    <2>2. MadeT'
        <3>1. agentNode \in {"", "id", "no-node-id-set"}
            BY <1>0 DEF NodeT
        <3> QED BY <1>0, <1>1, <3>1 DEF AgentCreates, MadeT
    <2>3. FaultsT'
        BY <1>1, Same DEF AgentCreates
    <2> QED BY <1>1, <2>1, <2>2, <2>3, Same, Parts DEF AgentCreates
<1>2. ASSUME NEW r \in Requests, LbChecks(r) \/ LbConnects(r) PROVE TypeOK'
    <2>1. LbT'
        BY <1>2, LbTypes DEF LbChecks, LbConnects, Updates
    <2>2. RegT'
        BY <1>0, <1>2 DEF LbChecks, LbConnects, RegT
    <2>3. FaultsT'
        BY <1>2, Same DEF LbChecks, LbConnects
    <2> QED BY <1>2, <2>1, <2>2, <2>3, Same, Parts DEF LbChecks, LbConnects
<1>3. ASSUME NEW r \in Requests, LbRecovers(r) PROVE TypeOK'
    <2>1. RegT'
        BY <1>0, <1>3, TypeOf DEF LbRecovers, RegT
    <2> QED BY <1>3, <2>1, Same, Parts DEF LbRecovers
<1>4. CASE AgentFails
    <2>1. AskT'
        BY <1>0, <1>4 DEF AgentFails, AskT, Calls
    <2>2. NodeT'
        BY <1>0, <1>4 DEF AgentFails, NodeT, Status
    <2>3. FaultsT'
        BY <1>4, Same DEF AgentFails
    <2> QED BY <1>4, <2>1, <2>2, <2>3, Same, Parts DEF AgentFails
<1>5. CASE LbFails
    <2>1. LbT'
        BY <1>0, <1>5 DEF LbFails, LbT, Updates
    <2>2. NodeT'
        BY <1>0, <1>5 DEF LbFails, NodeT, Status
    <2>3. RegT'
        <3>1. Types({r \in Requests : req[r] = "lb"}) \subseteq Types(Requests)
            BY Zenon DEF Types
        <3> QED BY <1>0, <1>5, <3>1 DEF LbFails, RegT
    <2>4. FaultsT'
        BY <1>5, Same DEF LbFails
    <2> QED BY <1>5, <2>1, <2>2, <2>3, <2>4, Same, Parts DEF LbFails
<1>6. CASE AgentReturns
    <2>1. NodeT'
        BY <1>0, <1>6 DEF AgentReturns, NodeT, Status
    <2> QED BY <1>6, <2>1, Same, Parts DEF AgentReturns
<1>7. CASE LbReturns
    <2>1. NodeT'
        BY <1>0, <1>7 DEF LbReturns, NodeT, Status
    <2>2. RegT'
        BY <1>0, <1>7, RecordedIn DEF LbReturns, RegT
    <2> QED BY <1>7, <2>1, <2>2, Same, Parts DEF LbReturns
<1> QED BY <1>1, <1>2, <1>3, <1>4, <1>5, <1>6, <1>7 DEF Fails, Returning

LEMMA InitTypes == Init => TypeOK
<1> SUFFICES ASSUME Init PROVE TypeOK
    OBVIOUS
<1>1. recorded \in [Types(Requests) -> Seq(Requests)]
    <2>1. recorded = [t \in Types(Requests) |-> <<>>]
        BY Zenon DEF Init
    <2>2. <<>> \in Seq(Requests)
        OBVIOUS
    <2> QED BY <2>1, <2>2
<1>2. missed = {} /\ apiKnown = {} /\ faults = 0
    BY Zenon DEF Init
<1>3. faults \in 0..MaxFaults
    BY <1>2, CreationAssumption
<1> QED BY <1>1, <1>2, <1>3 DEF Init, TypeOK, Phases, Status

\* The steps of the gateway, the controller, the agent and the load balancer.
LEMMA Steps ==
    ASSUME Next
    PROVE  \/ Registers \/ Syncs
           \/ \E r \in Requests : Asks(r) \/ Learns(r)
           \/ WriterWaits \/ TakesJunk
           \/ \E r \in Requests : Handles(r)
           \/ Fails \/ Returning
           \/ \E r \in Requests : AgentCreates(r) \/ LbChecks(r) \/ LbConnects(r)
                                  \/ LbRecovers(r)
BY DEF Next, Works

LEMMA TypeStep == TypeOK /\ [Next]_vars => TypeOK'
<1> SUFFICES ASSUME TypeOK, [Next]_vars PROVE TypeOK'
    OBVIOUS
<1>1. CASE Next
    BY <1>1, Steps, GatewayTypes, ControllerTypes, WorkerTypes
<1>2. CASE UNCHANGED vars
    BY <1>2, Same, Parts DEF vars, gateVars, ctlVars, nodeVars, agentVars, lbVars
<1> QED BY <1>1, <1>2

\* Every variable of the gateway, the controller and both nodes keeps its type.
THEOREM TypeCorrect == Spec => []TypeOK
BY InitTypes, TypeStep, PTL DEF Spec

-----------------------------------------------------------------------------
(* How the phases of a request, of its CREATE and of its UPDATE change.     *)

ReqFlow(r) ==
    \/ req'[r] = req[r]
    \/ req[r] = "idle" /\ req'[r] \in {"served", "asked"}
    \/ req[r] = "asked" /\ req'[r] \in {"reply", "select", "build"}
    \/ req[r] \in {"build", "select"} /\ req'[r] \in {"agent", "reply"}
    \/ req[r] = "agent" /\ req'[r] = "lb" /\ atAgent[r] = "ok"
    \/ req[r] \in {"agent", "lb"} /\ req'[r] = "reply"
    \/ req[r] = "reply" /\ req'[r] = "answered"
    \/ req[r] = "answered" /\ req'[r] \in {"served", "closed"}

AgentFlow(r) ==
    \/ atAgent'[r] = atAgent[r] /\ node'[r] = node[r]
    \/ /\ req[r] \in {"build", "select"} /\ req'[r] = "agent"
       /\ atAgent'[r] = "creating" /\ node'[r] = node[r]
    \/ /\ atAgent[r] = "creating" /\ req'[r] = req[r]
       /\ \/ agent = "Healthy" /\ atAgent'[r] = "ok" /\ node'[r] = agentNode
          \/ atAgent'[r] \in {"error", "lost"} /\ node'[r] = node[r]

LbFlow(r) ==
    \/ atLb'[r] = atLb[r]
    \/ req[r] = "agent" /\ req'[r] = "lb" /\ atLb'[r] \in {"check", "lost"}
    \/ req'[r] = req[r] /\ atLb'[r] = "lost" /\ (req[r] = "agent" \/ atLb[r] \in {"check", "connect"})
    \/ /\ req'[r] = req[r] /\ atLb[r] \in {"check", "connect"}
       /\ \/ atLb'[r] \in {"connect", "error"}
          \/ atLb'[r] = "ok" /\ Type(r) \in Types(registered')

LEMMA MovesOne ==
    ASSUME TypeOK, NEW r \in Requests, NEW s \in Requests, NEW to, NEW what
    PROVE  /\ Moves(r, to)     => req'[s] = IF s = r THEN to ELSE req[s]
           /\ Returns(r, what) => req'[s] = IF s = r THEN "reply" ELSE req[s]
           /\ Ends(r, to)      => req'[s] = IF s = r THEN to ELSE req[s]
<1>1. req \in [Requests -> Phases]
    BY DEF TypeOK
<1> QED BY <1>1 DEF Moves, Returns, Ends

LEMMA FlowOfCalls ==
    ASSUME TypeOK, Next, NEW s \in Requests
    PROVE  ReqFlow(s) /\ AgentFlow(s) /\ LbFlow(s)
<1>0. /\ atAgent \in [Requests -> Calls] /\ atLb \in [Requests -> Updates]
      /\ node \in [Requests -> {"", "id", "no-node-id-set"}]
    BY DEF TypeOK, Calls, Updates
<1> USE DEF ctlVars, gateVars, agentVars, lbVars
<1>1. CASE Registers \/ Syncs \/ WriterWaits \/ TakesJunk \/ Returning
    BY <1>1 DEF Registers, Syncs, WriterWaits, TakesJunk, Returning, AgentReturns,
                LbReturns, ReqFlow, AgentFlow, LbFlow
<1>2. ASSUME NEW r \in Requests, Asks(r) \/ Learns(r) PROVE ReqFlow(s) /\ AgentFlow(s) /\ LbFlow(s)
    <2>1. ReqFlow(s)
        BY <1>2, MovesOne DEF Asks, Learns, ReqFlow
    <2> QED BY <1>2, <2>1 DEF Asks, Learns, AgentFlow, LbFlow
<1>3. ASSUME NEW r \in Requests, Finds(r) \/ Sends(r) \/ LbRecovers(r)
      PROVE  ReqFlow(s) /\ AgentFlow(s) /\ LbFlow(s)
    <2>1. ReqFlow(s)
        BY <1>3, MovesOne DEF Finds, Sends, LbRecovers, ReqFlow
    <2> QED BY <1>3, <2>1 DEF Finds, Sends, LbRecovers, AgentFlow, LbFlow
<1>4. ASSUME NEW r \in Requests, Builds(r) \/ Selects(r)
      PROVE  ReqFlow(s) /\ AgentFlow(s) /\ LbFlow(s)
    <2>1. \/ /\ req[r] \in {"build", "select"}
             /\ req'[s] = IF s = r THEN "agent" ELSE req[s]
             /\ atAgent' = [atAgent EXCEPT ![r] = "creating"]
          \/ /\ req[r] \in {"build", "select"}
             /\ req'[s] = IF s = r THEN "reply" ELSE req[s]
             /\ UNCHANGED atAgent
        BY <1>4, MovesOne DEF Builds, Selects
    <2>2. UNCHANGED <<node, atLb>>
        BY <1>4 DEF Builds, Selects
    <2> QED BY <1>0, <2>1, <2>2 DEF ReqFlow, AgentFlow, LbFlow
<1>5. ASSUME NEW r \in Requests, AgentAnswers(r) PROVE ReqFlow(s) /\ AgentFlow(s) /\ LbFlow(s)
    <2>1. \/ /\ req[r] = "agent" /\ atAgent[r] = "ok"
             /\ req'[s] = IF s = r THEN "lb" ELSE req[s]
             /\ atLb' = [atLb EXCEPT ![r] = IF @ = "lost" THEN @ ELSE "check"]
          \/ UNCHANGED <<req, atLb>>
        BY <1>5, MovesOne DEF AgentAnswers
    <2>2. UNCHANGED <<atAgent, node>>
        BY <1>5 DEF AgentAnswers
    <2> QED BY <1>0, <2>1, <2>2 DEF ReqFlow, AgentFlow, LbFlow
<1>6. ASSUME NEW r \in Requests,
             AgentTimesOut(r) \/ Records(r) \/ LbRefuses(r) \/ LbTimesOut(r)
      PROVE  ReqFlow(s) /\ AgentFlow(s) /\ LbFlow(s)
    <2>1. ReqFlow(s)
        BY <1>6, MovesOne DEF AgentTimesOut, Records, LbRefuses, LbTimesOut, ReqFlow
    <2>2. UNCHANGED <<atAgent, node, atLb>>
        BY <1>6 DEF AgentTimesOut, Records, LbRefuses, LbTimesOut
    <2> QED BY <2>1, <2>2 DEF AgentFlow, LbFlow
<1>7. ASSUME NEW r \in Requests, AgentCreates(r) PROVE ReqFlow(s) /\ AgentFlow(s) /\ LbFlow(s)
    <2>1. AgentFlow(s)
        BY <1>0, <1>7 DEF AgentCreates, AgentFlow
    <2> QED BY <1>7, <2>1 DEF AgentCreates, ReqFlow, LbFlow
<1>8. ASSUME NEW r \in Requests, LbChecks(r) \/ LbConnects(r)
      PROVE  ReqFlow(s) /\ AgentFlow(s) /\ LbFlow(s)
    <2>1. LbFlow(s)
        <3>1. CASE s = r
            <4>1. req'[r] = req[r] /\ atLb[r] \in {"check", "connect"}
                BY <1>8 DEF LbChecks, LbConnects
            <4>2. r \in registered' => Type(r) \in Types(registered')
                BY DEF Types
            <4>3. \/ atLb'[r] \in {"connect", "error"}
                  \/ atLb'[r] = "ok" /\ Type(r) \in Types(registered')
                BY <1>0, <1>8, <4>2 DEF LbChecks, LbConnects
            <4> QED BY <3>1, <4>1, <4>3 DEF LbFlow
        <3>2. CASE s # r
            BY <1>0, <1>8, <3>2 DEF LbChecks, LbConnects, LbFlow
        <3> QED BY <3>1, <3>2
    <2> QED BY <1>8, <2>1 DEF LbChecks, LbConnects, ReqFlow, AgentFlow
<1>9. CASE Fails
    BY <1>0, <1>9 DEF Fails, AgentFails, LbFails, ReqFlow, AgentFlow, LbFlow
<1> QED BY <1>1, <1>2, <1>3, <1>4, <1>5, <1>6, <1>7, <1>8, <1>9, Steps DEF Handles

\* What the controller has recorded, and what it has sent to the gateway.
FilesOne ==
    \E r \in Requests :
        /\ req[r] = "lb" /\ atLb[r] = "ok" /\ req'[r] = "reply"
        /\ recorded' = [recorded EXCEPT ![Type(r)] = Append(@, r)]
        /\ UNCHANGED <<registered, recTodo, missed, lb, apiKnown, sent, atLb, atAgent>>

SendsOne ==
    \E r \in Requests :
        /\ sent' = [sent EXCEPT ![r] = RecordedTypes]
        /\ UNCHANGED <<apiKnown, recorded, atLb>>

LearnsOne ==
    \E r \in Requests :
        /\ apiKnown' \in {apiKnown, sent[r]}
        /\ sent' \in {sent, [sent EXCEPT ![r] = {}]}
        /\ UNCHANGED <<recorded, atLb>>

LEMMA FlowOfRecords ==
    ASSUME TypeOK, Next
    PROVE  \/ UNCHANGED <<recorded, apiKnown, sent>>
           \/ FilesOne \/ SendsOne \/ LearnsOne
<1>0. req \in [Requests -> Phases]
    BY DEF TypeOK
<1> USE DEF ctlVars, gateVars, agentVars, lbVars, nodeVars
<1>1. CASE Registers \/ Syncs \/ WriterWaits \/ TakesJunk \/ Fails \/ Returning
    BY <1>1 DEF Registers, Syncs, WriterWaits, TakesJunk, Returning, AgentReturns,
                LbReturns, Fails, AgentFails, LbFails
<1>2. ASSUME NEW r \in Requests, Asks(r) PROVE UNCHANGED <<recorded, apiKnown, sent>>
    BY <1>2 DEF Asks
<1>3. ASSUME NEW r \in Requests, Learns(r) PROVE LearnsOne
    BY <1>3 DEF Learns, Ends, LearnsOne
<1>4. ASSUME NEW r \in Requests, Sends(r) PROVE SendsOne
    BY <1>4 DEF Sends, SendsOne
<1>5. ASSUME NEW r \in Requests, Records(r) PROVE FilesOne
    <2>1. req'[r] = "reply"
        BY <1>5, MovesOne DEF Records
    <2> QED BY <1>5, <2>1 DEF Records, FilesOne
<1>6. ASSUME NEW r \in Requests,
             \/ Finds(r) \/ Builds(r) \/ Selects(r) \/ AgentAnswers(r) \/ AgentTimesOut(r)
             \/ LbRefuses(r) \/ LbTimesOut(r)
      PROVE  UNCHANGED <<recorded, apiKnown, sent>>
    BY <1>6 DEF Finds, Builds, Selects, AgentAnswers, AgentTimesOut, LbRefuses, LbTimesOut
<1>7. ASSUME NEW r \in Requests,
             AgentCreates(r) \/ LbChecks(r) \/ LbConnects(r) \/ LbRecovers(r)
      PROVE  UNCHANGED <<recorded, apiKnown, sent>>
    BY <1>7 DEF AgentCreates, LbChecks, LbConnects, LbRecovers
<1> QED BY <1>1, <1>2, <1>3, <1>4, <1>5, <1>6, <1>7, Steps DEF Handles

LEMMA FiledBy ==
    ASSUME TypeOK, NEW r \in Requests,
           recorded' = [recorded EXCEPT ![Type(r)] = Append(@, r)]
    PROVE  /\ \A t \in Types(Requests) :
                Range(recorded'[t]) = IF t = Type(r) THEN Range(recorded[t]) \cup {r}
                                                     ELSE Range(recorded[t])
           /\ RecordedTypes' = RecordedTypes \cup {Type(r)}
<1>1. recorded \in [Types(Requests) -> Seq(Requests)] /\ Type(r) \in Types(Requests)
    BY TypeOf DEF TypeOK
<1>2. \A t \in Types(Requests) :
        recorded'[t] = IF t = Type(r) THEN Append(recorded[t], r) ELSE recorded[t]
    BY <1>1
<1>3. \A t \in Types(Requests) : recorded[t] \in Seq(Requests)
    BY <1>1
<1>4. \A t \in Types(Requests) :
        /\ Range(Append(recorded[t], r)) = Range(recorded[t]) \cup {r}
        /\ Append(recorded[t], r) # <<>>
    BY <1>3, RangeOfSeq
<1>5. RecordedTypes' = {t \in Types(Requests) : recorded'[t] # <<>>}
    BY DEF RecordedTypes, Types, Type
<1> QED BY <1>1, <1>2, <1>4, <1>5 DEF RecordedTypes

-----------------------------------------------------------------------------
(* The order of createNewService: UPDATE is sent when the agent has started *)
(* the microservice, and the service recorded when the load balancer has it. *)

Early == {"idle", "asked", "build", "select", "agent"}
Late  == {"reply", "answered", "served", "closed"}

InOrder ==
    /\ \A r \in Requests :
        /\ req[r] \in Early => atLb[r] \in {"none", "lost"}
        /\ req[r] = "lb" => atAgent[r] = "ok"
    /\ \A t \in Types(Requests) : \A r \in Range(recorded[t]) :
        /\ Type(r) = t
        /\ atLb[r] = "ok" /\ atAgent[r] = "ok" /\ req[r] \in Late

LEMMA OrderStep == TypeOK /\ InOrder /\ [Next]_vars => InOrder'
<1> SUFFICES ASSUME TypeOK, InOrder, [Next]_vars PROVE InOrder'
    OBVIOUS
<1>1. CASE UNCHANGED vars
    BY <1>1 DEF InOrder, vars, ctlVars, agentVars, lbVars
<1>2. CASE Next
    <2>1. ASSUME NEW r \in Requests
          PROVE  /\ req'[r] \in Early => atLb'[r] \in {"none", "lost"}
                 /\ req'[r] = "lb" => atAgent'[r] = "ok"
        <3>1. ReqFlow(r) /\ AgentFlow(r) /\ LbFlow(r)
            BY <1>2, FlowOfCalls
        <3>2. /\ req[r] \in Early => atLb[r] \in {"none", "lost"}
              /\ req[r] = "lb" => atAgent[r] = "ok"
            BY DEF InOrder
        <3> QED BY <3>1, <3>2 DEF ReqFlow, AgentFlow, LbFlow, Early
    <2>2. ASSUME NEW t \in Types(Requests), NEW r \in Requests, r \in Range(recorded[t])
          PROVE  Type(r) = t /\ atLb'[r] = "ok" /\ atAgent'[r] = "ok" /\ req'[r] \in Late
        <3>1. ReqFlow(r) /\ AgentFlow(r) /\ LbFlow(r)
            BY <1>2, FlowOfCalls
        <3>2. Type(r) = t /\ atLb[r] = "ok" /\ atAgent[r] = "ok" /\ req[r] \in Late
            BY <2>2 DEF InOrder
        <3> QED BY <3>1, <3>2 DEF ReqFlow, AgentFlow, LbFlow, Late
    <2>3. \A t \in Types(Requests) : Range(recorded[t]) \subseteq Requests
        BY RangeOfSeq DEF TypeOK
    <2>4. ASSUME NEW t \in Types(Requests), NEW r \in Range(recorded'[t])
          PROVE  Type(r) = t /\ atLb'[r] = "ok" /\ atAgent'[r] = "ok" /\ req'[r] \in Late
        <3>1. CASE recorded' = recorded
            BY <2>2, <2>3, <3>1
        <3>2. CASE FilesOne
            <4>1. PICK s \in Requests :
                    /\ req[s] = "lb" /\ atLb[s] = "ok" /\ req'[s] = "reply"
                    /\ recorded' = [recorded EXCEPT ![Type(s)] = Append(@, s)]
                    /\ UNCHANGED <<atLb, atAgent>>
                BY <3>2 DEF FilesOne
            <4>2. r \in Range(recorded[t]) \/ (r = s /\ t = Type(s))
                <5>1. Range(recorded'[t]) = IF t = Type(s) THEN Range(recorded[t]) \cup {s}
                                                           ELSE Range(recorded[t])
                    BY <4>1, FiledBy
                <5> QED BY <5>1
            <4>3. atAgent[s] = "ok"
                BY <4>1 DEF InOrder
            <4> QED BY <2>2, <2>3, <4>1, <4>2, <4>3 DEF Late
        <3> QED BY <1>2, <3>1, <3>2, FlowOfRecords DEF SendsOne, LearnsOne
    <2> QED BY <2>1, <2>4 DEF InOrder, Type
<1> QED BY <1>1, <1>2

LEMMA InitOrder == Init => InOrder
<1> SUFFICES ASSUME Init PROVE InOrder
    OBVIOUS
<1>1. /\ recorded = [t \in Types(Requests) |-> <<>>] /\ req = [r \in Requests |-> "idle"]
      /\ atLb = [r \in Requests |-> "none"]
    BY Zenon DEF Init
<1>2. Range(<<>>) = {}
    BY DEF Range
<1>3. \A t \in Types(Requests) : Range(recorded[t]) = {}
    BY <1>1, <1>2
<1> QED BY <1>1, <1>3 DEF InOrder

-----------------------------------------------------------------------------
(* The gateway learns of types that are recorded, and these were confirmed. *)

Told == apiKnown \subseteq RecordedTypes /\ \A r \in Requests : sent[r] \subseteq RecordedTypes

LEMMA RecordedGrow ==
    ASSUME TypeOK, FilesOne
    PROVE  \E r \in Requests : /\ atLb[r] = "ok" /\ RecordedTypes' = RecordedTypes \cup {Type(r)}
                              /\ UNCHANGED <<atLb, apiKnown, sent>>
BY FiledBy DEF FilesOne

LEMMA ToldStep == TypeOK /\ Told /\ [Next]_vars => Told'
<1> SUFFICES ASSUME TypeOK, Told, [Next]_vars PROVE Told'
    OBVIOUS
<1>0. sent \in [Requests -> SUBSET Types(Requests)]
    BY DEF TypeOK
<1>1. CASE UNCHANGED <<recorded, apiKnown, sent>>
    BY <1>1 DEF Told, RecordedTypes, Types, Type
<1>2. CASE FilesOne
    BY <1>2, RecordedGrow DEF Told
<1>3. CASE SendsOne
    <2>1. RecordedTypes' = RecordedTypes
        BY <1>3 DEF SendsOne, RecordedTypes, Types, Type
    <2> QED BY <1>0, <1>3, <2>1 DEF SendsOne, Told
<1>4. CASE LearnsOne
    <2>1. RecordedTypes' = RecordedTypes
        BY <1>4 DEF LearnsOne, RecordedTypes, Types, Type
    <2> QED BY <1>0, <1>4, <2>1 DEF LearnsOne, Told
<1> QED BY <1>1, <1>2, <1>3, <1>4, FlowOfRecords DEF vars, gateVars, ctlVars

LEMMA InitTold == Init => Told
BY Zenon DEF Init, Told

Confirmed == Types({r \in Requests : atLb[r] = "ok"})

\* A step confirms the types whose UPDATE is answered with it: those of one
\* request at most.
LEMMA ConfirmsOne ==
    ASSUME TypeOK, InOrder, Next
    PROVE  \/ Confirmed' = Confirmed
           \/ \E r \in Requests : Confirmed' = Confirmed \cup {Type(r)}
<1> DEFINE Oks == {r \in Requests : atLb[r] = "ok"}
<1>1. \A r \in Requests : atLb[r] = "ok" => atLb'[r] = "ok"
    <2> SUFFICES ASSUME NEW r \in Requests, atLb[r] = "ok" PROVE atLb'[r] = "ok"
        OBVIOUS
    <2>1. LbFlow(r)
        BY FlowOfCalls
    <2>2. req[r] \notin Early
        BY DEF InOrder
    <2> QED BY <2>1, <2>2 DEF LbFlow, Early
<1>2. \/ \A r \in Requests : atLb'[r] = "ok" => atLb[r] = "ok"
      \/ \E s \in Requests : atLb'[s] = "ok" /\ \A r \in Requests \ {s} : atLb'[r] = atLb[r]
    <2>0. atLb \in [Requests -> Updates]
        BY DEF TypeOK, Updates
    <2>1. CASE UNCHANGED atLb
        BY <2>1
    <2>2. CASE Fails
        BY <2>2 DEF Fails, AgentFails, LbFails, lbVars
    <2>3. ASSUME NEW r \in Requests, AgentAnswers(r) \/ LbChecks(r) \/ LbConnects(r)
          PROVE  \E x : atLb' = [atLb EXCEPT ![r] = x]
        BY <2>0, <2>3 DEF AgentAnswers, LbChecks, LbConnects
    <2>4. \/ UNCHANGED atLb \/ Fails
          \/ \E r \in Requests : AgentAnswers(r) \/ LbChecks(r) \/ LbConnects(r)
        <3>1. CASE Registers \/ Syncs \/ WriterWaits \/ TakesJunk \/ Returning
            BY <3>1 DEF Registers, Syncs, WriterWaits, TakesJunk, Returning, AgentReturns,
                        LbReturns, lbVars
        <3>2. ASSUME NEW r \in Requests,
                     \/ Asks(r) \/ Learns(r) \/ Finds(r) \/ Builds(r) \/ Selects(r)
                     \/ AgentTimesOut(r) \/ Records(r) \/ LbRefuses(r) \/ LbTimesOut(r)
                     \/ Sends(r) \/ AgentCreates(r) \/ LbRecovers(r)
              PROVE  UNCHANGED atLb
            BY <3>2 DEF Asks, Learns, Finds, Builds, Selects, AgentTimesOut, Records, LbRefuses,
                        LbTimesOut, Sends, AgentCreates, LbRecovers, lbVars
        <3> QED BY <3>1, <3>2, Steps DEF Handles
    <2> QED BY <2>0, <2>1, <2>2, <2>3, <2>4
<1>3. CASE \A r \in Requests : atLb'[r] = "ok" => atLb[r] = "ok"
    <2>1. Oks' = Oks
        BY <1>1, <1>3
    <2> QED BY <2>1 DEF Confirmed, Types, Type
<1>4. ASSUME NEW s \in Requests,
             atLb'[s] = "ok" /\ \A r \in Requests \ {s} : atLb'[r] = atLb[r]
      PROVE  Confirmed' = Confirmed \cup {Type(s)}
    <2>1. Oks' = Oks \cup {s}
        BY <1>1, <1>4
    <2>2. Confirmed' = {Type(r) : r \in Oks'} /\ Confirmed = {Type(r) : r \in Oks}
        BY DEF Confirmed, Types, Type
    <2> QED BY <2>1, <2>2
<1> QED BY <1>2, <1>3, <1>4

LEMMA CatalogInit == Init => Catalog!Init
<1> SUFFICES ASSUME Init PROVE Catalog!Init
    OBVIOUS
<1>1. recorded = [t \in Types(Requests) |-> <<>>] /\ atLb = [r \in Requests |-> "none"]
      /\ apiKnown = {}
    BY Zenon DEF Init
<1>2. {r \in Requests : atLb[r] = "ok"} = {}
    BY <1>1
<1>3. RecordedTypes = {}
    BY <1>1 DEF RecordedTypes
<1> QED BY <1>1, <1>2, <1>3 DEF Catalog!Init, Types

LEMMA CatalogStep ==
    TypeOK /\ InOrder /\ Told /\ [Next]_vars
        => [Catalog!Next]_(Catalog!catalogVars)
<1> SUFFICES ASSUME TypeOK, InOrder, Told, [Next]_vars
             PROVE  [Catalog!Next]_(Catalog!catalogVars)
    OBVIOUS
<1> USE DEF Catalog!Next, Catalog!catalogVars
<1>0. sent \in [Requests -> SUBSET Types(Requests)]
    BY DEF TypeOK
<1>1. CASE UNCHANGED vars
    BY <1>1 DEF vars, gateVars, ctlVars, lbVars, RecordedTypes, Types, Type
<1>2. CASE Next /\ UNCHANGED <<recorded, apiKnown, sent>>
    <2>1. RecordedTypes' = RecordedTypes
        BY <1>2 DEF RecordedTypes, Types, Type
    <2>2. CASE Confirmed' = Confirmed
        BY <1>2, <2>1, <2>2 DEF Confirmed
    <2>3. ASSUME NEW r \in Requests, Confirmed' = Confirmed \cup {Type(r)}
          PROVE  Catalog!Confirm(Type(r))
        BY <1>2, <2>1, <2>3 DEF Confirmed, Catalog!Confirm
    <2> QED BY <1>2, <2>2, <2>3, ConfirmsOne, TypeOf
<1>3. CASE FilesOne
    <2>1. PICK r \in Requests :
            /\ atLb[r] = "ok" /\ RecordedTypes' = RecordedTypes \cup {Type(r)}
            /\ UNCHANGED <<atLb, apiKnown, sent>>
        BY <1>3, RecordedGrow
    <2>2. Type(r) \in Confirmed /\ Confirmed' = Confirmed
        BY <2>1 DEF Confirmed, Types, Type
    <2>3. Catalog!Record(Type(r))
        BY <2>1, <2>2 DEF Catalog!Record, Confirmed
    <2> QED BY <2>3, TypeOf
<1>4. CASE SendsOne
    BY <1>4 DEF SendsOne, RecordedTypes, Types, Type
<1>5. CASE LearnsOne
    <2>1. PICK r \in Requests :
            apiKnown' \in {apiKnown, sent[r]} /\ UNCHANGED <<recorded, atLb>>
        BY <1>5 DEF LearnsOne
    <2>2. RecordedTypes' = RecordedTypes /\ Confirmed' = Confirmed
        BY <2>1 DEF RecordedTypes, Confirmed, Types, Type
    <2>3. CASE apiKnown' = apiKnown
        BY <2>2, <2>3 DEF Confirmed
    <2>4. CASE apiKnown' = sent[r]
        <3>1. sent[r] \in SUBSET Types(Requests) /\ sent[r] \subseteq RecordedTypes
            BY <1>0 DEF Told
        <3>2. Catalog!Advertise(sent[r])
            BY <2>2, <2>4, <3>1 DEF Catalog!Advertise, Confirmed
        <3> QED BY <3>1, <3>2
    <2> QED BY <2>1, <2>3, <2>4
<1> QED BY <1>1, <1>2, <1>3, <1>4, <1>5, FlowOfRecords

\* What the gateway offers was recorded by the controller, and what is recorded
\* was confirmed by the load balancer, for any number of requests and faults.
THEOREM CatalogKept == Spec => OffersConfirmed
<1>1. Init => TypeOK /\ InOrder /\ Told
    BY InitTypes, InitOrder, InitTold
<1>2. TypeOK /\ InOrder /\ Told /\ [Next]_vars => (TypeOK /\ InOrder /\ Told)'
    BY TypeStep, OrderStep, ToldStep
<1> QED BY <1>1, <1>2, CatalogInit, CatalogStep, PTL DEF Spec, OffersConfirmed, Catalog!Spec

-----------------------------------------------------------------------------
(* The message node.                                                        *)

\* A service of the node will not be found at its load balancer: the agent has
\* lost its node ID, or the load balancer never had one.
Broken == agent # "none" /\ (agentNode # "id" \/ lbNode = "")

NodesOK ==
    /\ agent = "none" => lb = "none" /\ lbNode = ""
    /\ lbNode = "id" => lb # "none"
    /\ lb # "Healthy" => recTodo = {}
    /\ \A r \in Requests : atAgent[r] = "ok" => agent # "none" /\ (node[r] = "id" \/ Broken)

NodeFlow ==
    \/ UNCHANGED nodeVars
    \/ agent = "none" /\ \E ok \in BOOLEAN : MessageNode(ok)
    \/ agent # "none" /\ agent' # "none" /\ agentNode' \in {agentNode, "no-node-id-set"}
       /\ UNCHANGED <<lb, lbNode>>
    \/ lb # "none" /\ lb' # "none" /\ UNCHANGED <<agent, agentNode, lbNode>>
       /\ (lb' = "Healthy" => LbReturns)

LEMMA FlowOfNodes == ASSUME TypeOK, Next PROVE NodeFlow
<1> USE DEF NodeFlow
<1>1. CASE Registers \/ \E r \in Requests : Builds(r)
    <2>1. PICK ok \in BOOLEAN : MessageNode(ok)
        BY <1>1 DEF Registers, Builds
    <2>2. agent # "none" => UNCHANGED nodeVars
        BY <2>1 DEF MessageNode
    <2> QED BY <2>1, <2>2
<1>2. CASE Fails \/ Returning
    BY <1>2 DEF Fails, AgentFails, LbFails, Returning, AgentReturns, LbReturns
<1>3. CASE Syncs \/ WriterWaits \/ TakesJunk
    BY <1>3 DEF Syncs, WriterWaits, TakesJunk
<1>4. ASSUME NEW r \in Requests,
             \/ Asks(r) \/ Learns(r) \/ Finds(r) \/ Selects(r) \/ AgentAnswers(r)
             \/ AgentTimesOut(r) \/ Records(r) \/ LbRefuses(r) \/ LbTimesOut(r) \/ Sends(r)
             \/ AgentCreates(r) \/ LbChecks(r) \/ LbConnects(r) \/ LbRecovers(r)
      PROVE  UNCHANGED nodeVars
    BY <1>4 DEF Asks, Learns, Finds, Selects, AgentAnswers, AgentTimesOut, Records, LbRefuses,
                LbTimesOut, Sends, AgentCreates, LbChecks, LbConnects, LbRecovers
<1> QED BY <1>1, <1>2, <1>3, <1>4, Steps DEF Handles

\* Once there is a message node, it stays, and so does what is wrong with it.
LEMMA BrokenStays ==
    ASSUME TypeOK, Next
    PROVE  /\ agent # "none" => agent' # "none"
           /\ Broken => Broken'
<1>1. NodeFlow
    BY FlowOfNodes
<1> QED BY <1>1 DEF NodeFlow, nodeVars, Broken

\* What happens to the list handleRecover works through.
LEMMA FlowOfRecovery ==
    ASSUME TypeOK, Next
    PROVE  \/ UNCHANGED recTodo \/ recTodo' = {}
           \/ lb = "Healthy" /\ UNCHANGED nodeVars
           \/ lb' = "Healthy"
<1> USE DEF lbVars
<1>1. CASE Registers \/ Syncs \/ WriterWaits \/ TakesJunk \/ Fails \/ Returning
    BY <1>1 DEF Registers, Syncs, WriterWaits, TakesJunk, Returning, AgentReturns,
                LbReturns, Fails, AgentFails, LbFails
<1>2. ASSUME NEW r \in Requests,
             \/ Asks(r) \/ Learns(r) \/ Finds(r) \/ Builds(r) \/ Selects(r) \/ AgentAnswers(r)
             \/ AgentTimesOut(r) \/ Records(r) \/ LbRefuses(r) \/ LbTimesOut(r) \/ Sends(r)
             \/ AgentCreates(r) \/ LbChecks(r) \/ LbConnects(r)
      PROVE  UNCHANGED recTodo
    BY <1>2 DEF Asks, Learns, Finds, Builds, Selects, AgentAnswers, AgentTimesOut, Records,
                LbRefuses, LbTimesOut, Sends, AgentCreates, LbChecks, LbConnects
<1>3. ASSUME NEW r \in Requests, LbRecovers(r)
      PROVE  lb = "Healthy" /\ UNCHANGED nodeVars
    BY <1>3 DEF LbRecovers
<1> QED BY <1>1, <1>2, <1>3, Steps DEF Handles

LEMMA LbOnlyFails ==
    ASSUME TypeOK, NodesOK, Next, lb = "Healthy", ~LbFails
    PROVE  lb' = "Healthy"
<1>0. agent # "none"
    BY DEF NodesOK
<1>1. CASE Registers \/ \E r \in Requests : Builds(r)
    BY <1>0, <1>1 DEF Registers, Builds, MessageNode, nodeVars
<1>2. CASE ~Registers /\ ~(\E r \in Requests : Builds(r))
    BY <1>2 DEF Next, Works, Handles, Syncs, WriterWaits, TakesJunk, Returning,
           AgentReturns, LbReturns, Fails, AgentFails, Asks, Learns, Finds, Selects,
           AgentAnswers, AgentTimesOut, Records, LbRefuses, LbTimesOut, Sends,
           AgentCreates, LbChecks, LbConnects, LbRecovers, nodeVars
<1> QED BY <1>1, <1>2

LEMMA NodesStep == TypeOK /\ NodesOK /\ [Next]_vars => NodesOK'
<1> SUFFICES ASSUME TypeOK, NodesOK, [Next]_vars PROVE NodesOK'
    OBVIOUS
<1>0. /\ agent \in Status /\ lb \in Status /\ lbNode \in {"", "id"}
      /\ agent = "none" => lb = "none" /\ lbNode = ""
      /\ lbNode = "id" => lb # "none"
      /\ lb # "Healthy" => recTodo = {}
    BY DEF TypeOK, NodesOK
<1>1. CASE UNCHANGED vars
    BY <1>1 DEF NodesOK, Broken, vars, nodeVars, agentVars, lbVars
<1>2. CASE Next
    <2>1. NodeFlow
        BY <1>2, FlowOfNodes
    <2>2. /\ agent' = "none" => lb' = "none" /\ lbNode' = ""
          /\ lbNode' = "id" => lb' # "none"
        BY <1>0, <2>1 DEF NodeFlow, MessageNode, nodeVars
    <2>3. lb' # "Healthy" => recTodo' = {}
        <3>1. lb' # "Healthy" => (UNCHANGED recTodo \/ recTodo' = {})
            BY <1>2, FlowOfRecovery DEF nodeVars
        <3>2. CASE LbFails
            BY <3>2 DEF LbFails
        <3>3. CASE ~LbFails
            <4>1. lb = "Healthy" => lb' = "Healthy"
                BY <1>0, <1>2, <2>1, <3>3, LbOnlyFails
            <4> QED BY <1>0, <3>1, <4>1
        <3> QED BY <3>2, <3>3
    <2>4. ASSUME NEW r \in Requests, atAgent'[r] = "ok"
          PROVE  agent' # "none" /\ (node'[r] = "id" \/ Broken')
        <3>1. AgentFlow(r)
            BY <1>2, FlowOfCalls
        <3>2. CASE atAgent[r] = "ok" /\ node'[r] = node[r]
            BY <1>2, <3>2, BrokenStays DEF NodesOK
        <3>3. CASE agent = "Healthy" /\ node'[r] = agentNode
            BY <1>2, <3>3, BrokenStays DEF Broken
        <3> QED BY <2>4, <3>1, <3>2, <3>3 DEF AgentFlow
    <2> QED BY <2>2, <2>3, <2>4 DEF NodesOK
<1> QED BY <1>1, <1>2

LEMMA InitNodes == Init => NodesOK
<1> SUFFICES ASSUME Init PROVE NodesOK
    OBVIOUS
<1>1. /\ agent = "none" /\ lb = "none" /\ lbNode = "" /\ recTodo = {}
      /\ atAgent = [r \in Requests |-> "none"]
    BY Zenon DEF Init
<1> QED BY <1>1 DEF NodesOK

-----------------------------------------------------------------------------
(* What the controller has recorded is registered with the load balancer,   *)
(* or about to be, or lost by handleRecover.                                *)

Has == Types(registered) \cup Types(recTodo) \cup missed

Registered ==
    /\ \A r \in Requests : req[r] = "lb" /\ atLb[r] = "ok" => Type(r) \in Has
    /\ lb = "Healthy" => RecordedTypes \subseteq Has

LEMMA HasGrows ==
    ASSUME TypeOK, NodesOK, Next, ~LbFails
    PROVE  /\ Has \subseteq Has'
           /\ Types(registered') \subseteq Has'
<1>0. Has' = Types(registered') \cup Types(recTodo') \cup missed'
    BY DEF Has, Types, Type
<1> USE DEF lbVars
<1>1. CASE UNCHANGED <<registered, recTodo, missed>>
    BY <1>0, <1>1 DEF Has
<1>2. ASSUME NEW r \in Requests, LbConnects(r) PROVE Has \subseteq Has'
    <2>1. /\ registered' \in {registered, registered \cup {r}}
          /\ recTodo' = recTodo /\ missed' = missed
        BY <1>2 DEF LbConnects
    <2> QED BY <1>0, <2>1, TypesOfUnion DEF Has
<1>3. ASSUME NEW r \in Requests, LbRecovers(r) PROVE Has \subseteq Has'
    <2>1. CASE registered' = registered \cup {r} /\ recTodo' = recTodo \ {r} /\ missed' = missed
        <3>1. Types(recTodo) \subseteq Types(recTodo') \cup {Type(r)} /\ Type(r) \in Types(registered')
            BY <2>1 DEF Types
        <3> QED BY <1>0, <2>1, <3>1, TypesOfUnion DEF Has
    <2>2. CASE /\ registered' = registered /\ missed' = missed \cup {Type(r)}
               /\ recTodo' = {s \in recTodo : Type(s) # Type(r)}
        <3>1. Types(recTodo) \subseteq Types(recTodo') \cup {Type(r)}
            BY <2>2 DEF Types
        <3> QED BY <1>0, <2>2, <3>1 DEF Has
    <2> QED BY <1>3, <2>1, <2>2 DEF LbRecovers
<1>4. CASE LbReturns
    <2>1. recTodo = {} /\ registered' = registered /\ missed' = missed
        BY <1>4 DEF LbReturns, NodesOK
    <2>2. Types(recTodo) = {}
        BY <2>1 DEF Types
    <2> QED BY <1>0, <2>1, <2>2 DEF Has
<1>5. \/ UNCHANGED <<registered, recTodo, missed>> \/ LbReturns
      \/ \E r \in Requests : LbConnects(r) \/ LbRecovers(r)
    <2>1. CASE Registers \/ Syncs \/ WriterWaits \/ TakesJunk \/ Fails \/ Returning
        BY <2>1 DEF Registers, Syncs, WriterWaits, TakesJunk, Fails, AgentFails, Returning,
                    AgentReturns
    <2>2. ASSUME NEW r \in Requests,
                 \/ Asks(r) \/ Learns(r) \/ Finds(r) \/ Builds(r) \/ Selects(r)
                 \/ AgentAnswers(r) \/ AgentTimesOut(r) \/ Records(r) \/ LbRefuses(r)
                 \/ LbTimesOut(r) \/ Sends(r) \/ AgentCreates(r) \/ LbChecks(r)
          PROVE  UNCHANGED <<registered, recTodo, missed>>
        BY <2>2 DEF Asks, Learns, Finds, Builds, Selects, AgentAnswers, AgentTimesOut, Records,
                    LbRefuses, LbTimesOut, Sends, AgentCreates, LbChecks
    <2> QED BY <2>1, <2>2, Steps DEF Handles
<1> QED BY <1>0, <1>1, <1>2, <1>3, <1>4, <1>5

LEMMA RecordedTypesAre ==
    ASSUME TypeOK, InOrder
    PROVE  /\ RecordedTypes \subseteq Types(Recorded)
           /\ (\A r \in Requests : atAgent[r] # "ok") => RecordedTypes = {}
<1> SUFFICES ASSUME NEW t \in Types(Requests), recorded[t] # <<>>
             PROVE  t \in Types(Recorded) /\ \E r \in Requests : atAgent[r] = "ok"
    BY DEF RecordedTypes
<1>1. recorded[t] \in Seq(Requests)
    BY DEF TypeOK
<1>2. Head(recorded[t]) \in Range(recorded[t])
    BY <1>1, RangeOfSeq
<1>3. PICK r \in Range(recorded[t]) : TRUE
    BY <1>2
<1>4. Type(r) = t /\ atAgent[r] = "ok"
    BY <1>3 DEF InOrder
<1>5. r \in Recorded /\ r \in Requests
    BY <1>1, <1>3, RecordedIn, RangeOfSeq
<1> QED BY <1>4, <1>5, TypeOf

LEMMA RegisteredStep ==
    TypeOK /\ InOrder /\ NodesOK /\ Registered /\ [Next]_vars => Registered'
<1> SUFFICES ASSUME TypeOK, InOrder, NodesOK, Registered, [Next]_vars PROVE Registered'
    OBVIOUS
<1>1. CASE UNCHANGED vars
    <2>1. RecordedTypes' = RecordedTypes /\ Has' = Has
        BY <1>1 DEF vars, ctlVars, lbVars, RecordedTypes, Has, Types, Type
    <2> QED BY <1>1, <2>1 DEF Registered, vars, lbVars, nodeVars, Type
<1>2. CASE LbFails
    <2>1. /\ lb' = "Unhealthy" /\ req' = req
          /\ missed' = missed \cup Types({r \in Requests : req[r] = "lb"})
        BY <1>2 DEF LbFails
    <2>2. \A r \in Requests : req[r] = "lb" => Type(r) \in missed'
        BY <2>1 DEF Types
    <2> QED BY <2>1, <2>2 DEF Registered, Has, Type
<1>3. CASE Next /\ ~LbFails
    <2>1. Has \subseteq Has' /\ Types(registered') \subseteq Has'
        BY <1>3, HasGrows
    <2>2. ASSUME NEW r \in Requests, req'[r] = "lb" /\ atLb'[r] = "ok" PROVE Type(r) \in Has'
        <3>1. ReqFlow(r) /\ LbFlow(r)
            BY <1>3, FlowOfCalls
        <3>2. req[r] = "agent" => atLb[r] # "ok"
            BY DEF InOrder, Early
        <3>3. (req[r] = "lb" /\ atLb[r] = "ok") \/ Type(r) \in Types(registered')
            BY <2>2, <3>1, <3>2 DEF ReqFlow, LbFlow
        <3> QED BY <2>1, <3>3 DEF Registered
    <2>3. ASSUME lb' = "Healthy" PROVE RecordedTypes' \subseteq Has'
        <3>1. CASE FilesOne
            <4>1. PICK r \in Requests :
                    /\ req[r] = "lb" /\ atLb[r] = "ok" /\ lb' = lb
                    /\ recorded' = [recorded EXCEPT ![Type(r)] = Append(@, r)]
                BY <3>1 DEF FilesOne
            <4>2. RecordedTypes' = RecordedTypes \cup {Type(r)}
                BY <4>1, FiledBy
            <4> QED BY <2>1, <2>3, <4>1, <4>2 DEF Registered
        <3>2. CASE recorded' = recorded
            <4>1. RecordedTypes' = RecordedTypes
                BY <3>2 DEF RecordedTypes, Types, Type
            <4>2. CASE lb = "Healthy"
                BY <2>1, <4>1, <4>2 DEF Registered
            <4>3. CASE LbReturns
                <5>1. recTodo' = Recorded
                    BY <4>3 DEF LbReturns
                <5>2. Types(Recorded) \subseteq Has'
                    BY <5>1 DEF Has, Types, Type
                <5> QED BY <4>1, <5>2, RecordedTypesAre
            <4>4. CASE agent = "none"
                <5>1. \A r \in Requests : atAgent[r] # "ok"
                    BY <4>4 DEF NodesOK
                <5> QED BY <4>1, <5>1, RecordedTypesAre
            <4>5. NodeFlow
                BY <1>3, FlowOfNodes
            <4> QED BY <2>3, <4>2, <4>3, <4>4, <4>5 DEF NodeFlow, nodeVars
        <3> QED BY <1>3, <3>1, <3>2, FlowOfRecords DEF SendsOne, LearnsOne
    <2> QED BY <2>2, <2>3 DEF Registered, Type
<1> QED BY <1>1, <1>2, <1>3

LEMMA InitRegistered == Init => Registered
<1> SUFFICES ASSUME Init PROVE Registered
    OBVIOUS
<1>1. lb = "none" /\ req = [r \in Requests |-> "idle"]
    BY Zenon DEF Init
<1> QED BY <1>1 DEF Registered

SInv == TypeOK /\ InOrder /\ Told /\ NodesOK /\ Registered

LEMMA SInvariance == Spec => []SInv
<1>1. Init => SInv
    BY InitTypes, InitOrder, InitTold, InitNodes, InitRegistered DEF SInv
<1>2. SInv /\ [Next]_vars => SInv'
    BY TypeStep, OrderStep, ToldStep, NodesStep, RegisteredStep DEF SInv
<1> QED BY <1>1, <1>2, PTL DEF Spec

\* The gateway passes on no request that the load balancer has no microservice
\* for, but for the types that a failure of the load balancer can lose.
THEOREM KnownServed == Spec => []KnownIsServed
<1>1. SInv => KnownIsServed
    <2> SUFFICES ASSUME SInv, lb = "Healthy", recTodo = {}
                 PROVE  apiKnown \subseteq Types(registered) \cup missed
        BY DEF KnownIsServed
    <2>1. apiKnown \subseteq RecordedTypes /\ RecordedTypes \subseteq Has
        BY DEF SInv, Told, Registered
    <2>2. Types(recTodo) = {}
        BY DEF Types
    <2> QED BY <2>1, <2>2 DEF Has
<1> QED BY <1>1, SInvariance, PTL

-----------------------------------------------------------------------------
(* What brings the gateway down.                                            *)

NilBroken ==
    /\ \A r \in Requests : reply[r] = "nil" => Broken
    /\ gate = "dead" => ~linked \/ Broken

LEMMA RepliesOne ==
    ASSUME TypeOK, NEW r \in Requests, NEW s \in Requests, NEW to, NEW what
    PROVE  /\ Moves(r, to)     => reply'[s] = reply[s]
           /\ Returns(r, what) => reply'[s] = IF s = r THEN what ELSE reply[s]
           /\ Ends(r, to)      => reply'[s] = IF s = r THEN "none" ELSE reply[s]
<1>1. reply \in [Requests -> Replies]
    BY DEF TypeOK, Replies
<1> QED BY <1>1 DEF Moves, Returns, Ends

\* handleCreate answers with a nil load balancer only for a service of a broken
\* message node.
LEMMA NilFound ==
    ASSUME TypeOK, InOrder, NodesOK, NEW t \in Types(Requests), recorded[t] # <<>>,
           lb = "none" \/ node[Head(recorded[t])] # lbNode
    PROVE  Broken
<1>1. recorded[t] \in Seq(Requests) /\ lbNode \in {"", "id"}
    BY DEF TypeOK
<1>2. PICK r \in Requests : r = Head(recorded[t]) /\ r \in Range(recorded[t])
    BY <1>1, RangeOfSeq
<1>3. atAgent[r] = "ok"
    BY <1>2 DEF InOrder
<1>4. agent # "none" /\ (node[r] = "id" \/ Broken)
    BY <1>3 DEF NodesOK
<1>5. lb = "none" => lbNode # "id"
    BY DEF NodesOK
<1> QED BY <1>1, <1>2, <1>4, <1>5 DEF Broken

LEMMA FlowOfReplies ==
    ASSUME TypeOK, InOrder, NodesOK, Next, NEW s \in Requests, reply'[s] = "nil"
    PROVE  reply[s] = "nil" \/ Broken
<1> USE DEF ctlVars, gateVars, agentVars, lbVars
<1>1. CASE Registers \/ Syncs \/ WriterWaits \/ TakesJunk \/ Fails \/ Returning
    BY <1>1 DEF Registers, Syncs, WriterWaits, TakesJunk, Returning, AgentReturns,
                LbReturns, Fails, AgentFails, LbFails
<1>2. ASSUME NEW r \in Requests, Finds(r) PROVE reply[s] = "nil" \/ Broken
    <2>1. CASE recorded[Type(r)] # <<>> /\ (lb = "none" \/ node[Head(recorded[Type(r)])] # lbNode)
        BY <2>1, NilFound, TypeOf
    <2>2. CASE Returns(r, "update") \/ Moves(r, "select") \/ Moves(r, "build")
        BY <2>2, RepliesOne
    <2> QED BY <1>2, <2>1, <2>2 DEF Finds
<1>3. ASSUME NEW r \in Requests,
             \/ Asks(r) \/ Learns(r) \/ Builds(r) \/ Selects(r) \/ AgentAnswers(r)
             \/ AgentTimesOut(r) \/ Records(r) \/ LbRefuses(r) \/ LbTimesOut(r) \/ Sends(r)
      PROVE  reply[s] = "nil"
    <2>1. CASE Asks(r) \/ Learns(r) \/ AgentAnswers(r) \/ Sends(r)
        BY <2>1, RepliesOne DEF Asks, Learns, AgentAnswers, Sends
    <2>2. CASE Builds(r) \/ Selects(r)
        <3>1. Moves(r, "agent") \/ Returns(r, "error")
            BY <2>2 DEF Builds, Selects
        <3> QED BY <3>1, RepliesOne
    <2>3. CASE AgentTimesOut(r) \/ Records(r) \/ LbRefuses(r) \/ LbTimesOut(r)
        BY <2>3, RepliesOne DEF AgentTimesOut, Records, LbRefuses, LbTimesOut
    <2> QED BY <1>3, <2>1, <2>2, <2>3
<1>4. ASSUME NEW r \in Requests,
             AgentCreates(r) \/ LbChecks(r) \/ LbConnects(r) \/ LbRecovers(r)
      PROVE  reply[s] = "nil"
    BY <1>4 DEF AgentCreates, LbChecks, LbConnects, LbRecovers
<1> QED BY <1>1, <1>2, <1>3, <1>4, Steps DEF Handles

LEMMA FlowOfGate ==
    ASSUME TypeOK, Next
    PROVE  \/ UNCHANGED <<gate, linked>>
           \/ gate' \in {"syncing", "on"}
           \/ gate' = "dead" /\ linked' = linked /\ (linked => \E r \in Requests : reply[r] = "nil")
<1>1. CASE Registers \/ Syncs
    BY <1>1 DEF Registers, Syncs
<1>2. CASE WriterWaits \/ TakesJunk \/ Fails \/ Returning
    BY <1>2 DEF WriterWaits, TakesJunk, Returning, AgentReturns, LbReturns, Fails,
                AgentFails, LbFails, gateVars
<1>3. ASSUME NEW r \in Requests, Learns(r)
      PROVE  \/ UNCHANGED <<gate, linked>>
             \/ gate' = "dead" /\ linked' = linked /\ (linked => reply[r] = "nil")
    BY <1>3 DEF Learns, gateVars
<1>4. ASSUME NEW r \in Requests,
             \/ Asks(r) \/ Handles(r)
             \/ AgentCreates(r) \/ LbChecks(r) \/ LbConnects(r) \/ LbRecovers(r)
      PROVE  UNCHANGED <<gate, linked>>
    BY <1>4 DEF Asks, Handles, Finds, Builds, Selects, AgentAnswers, AgentTimesOut, Records,
                LbRefuses, LbTimesOut, Sends, AgentCreates, LbChecks, LbConnects, LbRecovers,
                gateVars
<1> QED BY <1>1, <1>2, <1>3, <1>4, Steps

LEMMA NilStep == SInv /\ NilBroken /\ [Next]_vars => NilBroken'
<1> SUFFICES ASSUME SInv, NilBroken, [Next]_vars PROVE NilBroken'
    OBVIOUS
<1>0. TypeOK /\ InOrder /\ NodesOK
    BY DEF SInv
<1>1. CASE UNCHANGED vars
    BY <1>1 DEF NilBroken, Broken, vars, gateVars, nodeVars
<1>2. CASE Next
    <2>1. ASSUME NEW r \in Requests, reply'[r] = "nil" PROVE Broken'
        <3>1. reply[r] = "nil" \/ Broken
            BY <1>0, <1>2, <2>1, FlowOfReplies
        <3> QED BY <1>0, <1>2, <3>1, BrokenStays DEF NilBroken
    <2>2. gate' = "dead" => ~linked' \/ Broken'
        <3>1. Broken => Broken'
            BY <1>0, <1>2, BrokenStays
        <3> QED BY <1>0, <1>2, <3>1, FlowOfGate DEF NilBroken
    <2> QED BY <2>1, <2>2 DEF NilBroken
<1> QED BY <1>1, <1>2

LEMMA InitNil == Init => NilBroken
<1> SUFFICES ASSUME Init PROVE NilBroken
    OBVIOUS
<1>1. gate = "off" /\ linked = FALSE /\ reply = [r \in Requests |-> "none"]
    BY Zenon DEF Init
<1> QED BY <1>1 DEF NilBroken

\* An answer of the controller brings the gateway down only when it has no
\* connection to a load balancer, or the message node has lost the ID that
\* handleCreate looks for.
THEOREM SurvivesAnswers == Spec => []GatewaySurvives
<1>1. Init => NilBroken
    BY InitNil
<1>2. SInv /\ NilBroken /\ [Next]_vars => NilBroken'
    BY NilStep
<1>3. NilBroken => GatewaySurvives
    BY DEF NilBroken, Broken, GatewaySurvives
<1> QED BY <1>1, <1>2, <1>3, SInvariance, PTL DEF Spec

-----------------------------------------------------------------------------
(* Nothing fails by itself.                                                 *)

CalmGate ==
    /\ gate # "dead" /\ ctl /\ lock = "free" /\ ~junk
    /\ gate = "off" => agent = "none"
    /\ gate # "off" => /\ agent = "Healthy" /\ agentNode = "id"
                      /\ lb = "Healthy" /\ lbNode = "id"
    /\ gate = "on" => linked

CalmRequest(r) ==
    /\ req[r] # "idle" => gate = "on"
    /\ req[r] \notin {"build", "closed"}
    /\ reply[r] \in {"none", "update"}
    /\ atAgent[r] \in {"none", "creating", "ok"}
    /\ atAgent[r] = "creating" => req[r] = "agent"
    /\ atLb[r] \in {"none", "check", "connect", "ok"}

Calm == faults = 0 => CalmGate /\ \A r \in Requests : CalmRequest(r)

CalmNow == faults = 0 /\ CalmGate /\ \A r \in Requests : CalmRequest(r)

LEMMA FaultsNat == ASSUME TypeOK PROVE faults \in Nat
<1>1. faults \in 0..MaxFaults
    BY DEF TypeOK
<1> QED BY <1>1, CreationAssumption

LEMMA FaultCounts == ASSUME TypeOK, Fault PROVE faults' # 0
BY FaultsNat DEF Fault

LEMMA FaultsStay == ASSUME TypeOK, Next, faults' = 0 PROVE faults = 0
<1>1. ~Fault
    BY FaultCounts
<1>2. CASE Registers \/ Syncs
    BY <1>1, <1>2 DEF Registers, Syncs, MessageNode
<1>3. CASE WriterWaits \/ TakesJunk \/ Fails \/ Returning
    BY <1>1, <1>3 DEF WriterWaits, TakesJunk, Returning, AgentReturns, LbReturns, Fails,
                AgentFails, LbFails
<1>4. ASSUME NEW r \in Requests, Builds(r) PROVE faults' = faults
    BY <1>1, <1>4 DEF Builds, MessageNode
<1>5. ASSUME NEW r \in Requests,
             \/ Asks(r) \/ Learns(r) \/ Finds(r) \/ Selects(r) \/ AgentAnswers(r)
             \/ AgentTimesOut(r) \/ Records(r) \/ LbRefuses(r) \/ LbTimesOut(r) \/ Sends(r)
             \/ AgentCreates(r) \/ LbChecks(r) \/ LbConnects(r) \/ LbRecovers(r)
      PROVE  faults' = faults
    BY <1>1, <1>5 DEF Asks, Learns, Finds, Selects, AgentAnswers, AgentTimesOut, Records,
                LbRefuses, LbTimesOut, Sends, AgentCreates, LbChecks, LbConnects, LbRecovers
<1>6. faults' = faults
    BY <1>1, <1>2, <1>3, <1>4, <1>5, Steps DEF Handles, Registers, Syncs
<1> QED BY <1>6

\* While nothing fails, no answer is late, an error or nil, and nodes stay up.
LEMMA CalmGateway ==
    ASSUME TypeOK, NodesOK, CalmNow, faults' = 0,
           Registers \/ Syncs \/ \E r \in Requests : Asks(r) \/ Learns(r)
    PROVE  CalmGate' /\ \A s \in Requests : CalmRequest(s)'
<1>0. ~Fault
    BY FaultCounts
<1> USE DEF CalmGate, ctlVars, nodeVars, agentVars, lbVars
<1>1. CASE Registers
    <2>1. agent = "none" /\ gate' = "syncing" /\ gate = "off"
        BY <1>1 DEF Registers, CalmNow
    <2>2. MessageNode(TRUE)
        BY <1>0, <1>1, <2>1 DEF Registers, MessageNode
    <2>3. CalmGate'
        BY <1>1, <2>1, <2>2 DEF Registers, MessageNode, CalmNow
    <2>4. \A s \in Requests : CalmRequest(s)'
        BY <1>1, <2>1 DEF Registers, CalmNow, CalmRequest
    <2> QED BY <2>3, <2>4
<1>2. CASE Syncs
    <2>1. CalmGate'
        BY <1>0, <1>2 DEF Syncs, CalmNow
    <2>2. \A s \in Requests : CalmRequest(s)'
        BY <1>2 DEF Syncs, CalmNow, CalmRequest
    <2> QED BY <2>1, <2>2
<1>3. ASSUME NEW r \in Requests, Asks(r) PROVE CalmGate' /\ \A s \in Requests : CalmRequest(s)'
    <2>1. CalmGate'
        BY <1>3 DEF Asks, CalmNow, gateVars
    <2>2. ASSUME NEW s \in Requests PROVE CalmRequest(s)'
        <3>1. req'[s] \in {req[s], "served", "asked"} /\ gate = "on" /\ (s # r => req'[s] = req[s])
            BY <1>3, MovesOne DEF Asks
        <3>2. req[r] = "idle" /\ UNCHANGED <<gate, reply, atAgent, atLb>>
            BY <1>3 DEF Asks, Moves, gateVars
        <3> QED BY <3>1, <3>2 DEF CalmNow, CalmRequest
    <2> QED BY <2>1, <2>2
<1>4. ASSUME NEW r \in Requests, Learns(r) PROVE CalmGate' /\ \A s \in Requests : CalmRequest(s)'
    <2>1. gate = "on" /\ req[r] = "answered" /\ UNCHANGED <<gate, linked>> /\ Ends(r, "served")
        BY <1>4 DEF Learns, CalmNow, CalmRequest
    <2>2. CalmGate'
        BY <1>4, <2>1 DEF Learns, CalmNow
    <2>3. ASSUME NEW s \in Requests PROVE CalmRequest(s)'
        <3>1. /\ req'[s] = IF s = r THEN "served" ELSE req[s]
              /\ reply'[s] = IF s = r THEN "none" ELSE reply[s]
            BY <2>1, MovesOne, RepliesOne
        <3>2. UNCHANGED <<atAgent, atLb>>
            BY <1>4 DEF Learns
        <3> QED BY <2>1, <3>1, <3>2 DEF CalmNow, CalmRequest
    <2> QED BY <2>2, <2>3
<1> QED BY <1>1, <1>2, <1>3, <1>4

LEMMA CalmController ==
    ASSUME TypeOK, InOrder, NodesOK, CalmNow, faults' = 0,
           WriterWaits \/ TakesJunk \/ \E r \in Requests : Handles(r)
    PROVE  CalmGate' /\ \A s \in Requests : CalmRequest(s)'
<1>0. ~Fault
    BY FaultCounts
<1> USE DEF ctlVars, gateVars, nodeVars, agentVars, lbVars
<1>1. ~WriterWaits /\ ~TakesJunk
    BY DEF WriterWaits, TakesJunk, CalmNow, CalmGate
<1>2. PICK r \in Requests : Handles(r)
    BY <1>1
<1>a. /\ CalmRequest(r)
      /\ atAgent \in [Requests -> Calls] /\ atLb \in [Requests -> Updates]
    BY DEF CalmNow, TypeOK, Calls, Updates
<1>3. ~Builds(r) /\ ~AgentTimesOut(r) /\ ~LbRefuses(r) /\ ~LbTimesOut(r)
    BY <1>0, <1>a DEF CalmRequest, Builds, AgentTimesOut, LbRefuses, LbTimesOut
<1>4. gate = "on"
    BY <1>2, <1>3, <1>a DEF CalmRequest, Handles, Finds, Selects, AgentAnswers, Records, Sends
<1>5. CASE Finds(r)
    <2>1. recorded[Type(r)] # <<>> => lb # "none" /\ node[Head(recorded[Type(r)])] = lbNode
        BY <1>4, NilFound, TypeOf DEF CalmNow, CalmGate, Broken
    <2>2. Returns(r, "update") \/ Moves(r, "select")
        BY <1>4, <1>5, <2>1 DEF Finds, CalmNow, CalmGate
    <2>3. \A s \in Requests : CalmRequest(s)'
        <3> SUFFICES ASSUME NEW s \in Requests PROVE CalmRequest(s)'
            OBVIOUS
        <3>1. /\ req'[s] \in {req[s], "reply", "select"} /\ reply'[s] \in {reply[s], "update"}
              /\ s # r => req'[s] = req[s]
            BY <2>2, MovesOne, RepliesOne
        <3>2. req[r] = "asked" /\ UNCHANGED <<gate, atAgent, atLb>>
            BY <1>5 DEF Finds
        <3> QED BY <1>4, <3>1, <3>2 DEF CalmNow, CalmRequest
    <2> QED BY <1>5, <2>3 DEF Finds, CalmNow, CalmGate
<1>6. CASE Selects(r)
    <2>1. /\ atAgent' = [atAgent EXCEPT ![r] = "creating"] /\ Moves(r, "agent")
          /\ UNCHANGED <<lock, gate, atLb>>
        BY <1>4, <1>6 DEF Selects, CalmNow, CalmGate
    <2>2. ASSUME NEW s \in Requests PROVE CalmRequest(s)'
        <3>1. req'[s] = (IF s = r THEN "agent" ELSE req[s]) /\ reply'[s] = reply[s]
            BY <2>1, MovesOne, RepliesOne
        <3>2. atAgent'[s] = IF s = r THEN "creating" ELSE atAgent[s]
            BY <1>a, <2>1
        <3> QED BY <1>4, <2>1, <3>1, <3>2 DEF CalmNow, CalmRequest
    <2> QED BY <1>6, <2>1, <2>2 DEF Selects, CalmNow, CalmGate
<1>7. CASE AgentAnswers(r)
    <2>1. /\ atLb' = [atLb EXCEPT ![r] = IF @ = "lost" THEN @ ELSE "check"] /\ Moves(r, "lb")
          /\ atAgent[r] = "ok" /\ UNCHANGED <<ctl, gate, atAgent>>
        BY <1>7, <1>a DEF AgentAnswers, CalmRequest
    <2>2. ASSUME NEW s \in Requests PROVE CalmRequest(s)'
        <3>1. req'[s] = (IF s = r THEN "lb" ELSE req[s]) /\ reply'[s] = reply[s]
            BY <2>1, MovesOne, RepliesOne
        <3>2. atLb'[s] = (IF s = r THEN "check" ELSE atLb[s])
            BY <1>a, <2>1 DEF CalmRequest
        <3> QED BY <1>4, <2>1, <3>1, <3>2 DEF CalmNow, CalmRequest
    <2> QED BY <1>7, <2>1, <2>2 DEF AgentAnswers, CalmNow, CalmGate
<1>8. CASE Records(r) \/ Sends(r)
    <2>1. ASSUME NEW s \in Requests PROVE CalmRequest(s)'
        <3>1. /\ req'[s] = IF s = r THEN req'[r] ELSE req[s]
              /\ req'[r] \in {"reply", "answered"} /\ req[r] \in {"lb", "reply"}
              /\ reply'[s] \in {reply[s], "update"}
            BY <1>8, MovesOne, RepliesOne DEF Records, Sends
        <3>2. UNCHANGED <<gate, atAgent, atLb>>
            BY <1>8 DEF Records, Sends
        <3> QED BY <1>4, <3>1, <3>2 DEF CalmNow, CalmRequest
    <2>2. UNCHANGED <<gate, linked, ctl, lock, junk, nodeVars>>
        BY <1>8 DEF Records, Sends
    <2> QED BY <2>1, <2>2 DEF CalmNow, CalmGate
<1> QED BY <1>2, <1>3, <1>5, <1>6, <1>7, <1>8 DEF Handles

LEMMA CalmWorkers ==
    ASSUME TypeOK, NodesOK, CalmNow, faults' = 0,
           \/ Fails \/ Returning
           \/ \E r \in Requests : AgentCreates(r) \/ LbChecks(r) \/ LbConnects(r)
                                  \/ LbRecovers(r)
    PROVE  CalmGate' /\ \A s \in Requests : CalmRequest(s)'
<1>0. /\ ~Fault /\ gate \in {"off", "syncing", "on", "dead"}
      /\ atAgent \in [Requests -> Calls] /\ atLb \in [Requests -> Updates]
    BY FaultCounts DEF TypeOK, Calls, Updates
<1> USE DEF ctlVars, gateVars, nodeVars, agentVars, lbVars
<1>1. ~Fails
    BY <1>0 DEF Fails, AgentFails, LbFails
<1>2. ~Returning
    BY DEF Returning, AgentReturns, LbReturns, CalmNow, CalmGate, NodesOK
<1>3. PICK r \in Requests :
        AgentCreates(r) \/ LbChecks(r) \/ LbConnects(r) \/ LbRecovers(r)
    BY <1>1, <1>2
<1>4. /\ UNCHANGED <<gate, linked, ctl, lock, nodeVars, req, reply>>
      /\ ~junk'
    <2>1. CASE AgentCreates(r)
        <3>1. req[r] = "agent"
            BY <2>1 DEF AgentCreates, CalmNow, CalmRequest
        <3> QED BY <2>1, <3>1 DEF AgentCreates, CalmNow, CalmGate
    <2>2. CASE LbChecks(r) \/ LbConnects(r) \/ LbRecovers(r)
        <3>1. ~junk
            BY DEF CalmNow, CalmGate
        <3> QED BY <2>2, <3>1 DEF LbChecks, LbConnects, LbRecovers
    <2> QED BY <1>3, <2>1, <2>2
<1>5. ASSUME NEW s \in Requests
      PROVE  atAgent'[s] \in {atAgent[s], "ok"} /\ atLb'[s] \in {atLb[s], "connect", "ok"}
    BY <1>0, <1>3 DEF AgentCreates, LbChecks, LbConnects, LbRecovers
<1> QED BY <1>4, <1>5 DEF CalmNow, CalmGate, CalmRequest

LEMMA CalmStep == SInv /\ Calm /\ [Next]_vars => Calm'
<1> SUFFICES ASSUME SInv, Calm, [Next]_vars, faults' = 0
             PROVE  CalmGate' /\ \A s \in Requests : CalmRequest(s)'
    BY DEF Calm
<1>0. TypeOK /\ InOrder /\ NodesOK
    BY DEF SInv
<1>1. CASE UNCHANGED vars
    BY <1>1 DEF Calm, CalmGate, CalmRequest, vars, gateVars, ctlVars, nodeVars, agentVars, lbVars
<1>2. CASE Next
    <2>1. CalmNow
        BY <1>0, <1>2, FaultsStay DEF Calm, CalmNow
    <2> QED BY <1>0, <1>2, <2>1, Steps, CalmGateway, CalmController, CalmWorkers
<1> QED BY <1>1, <1>2

LEMMA InitCalm == Init => Calm
<1> SUFFICES ASSUME Init PROVE Calm
    OBVIOUS
<1>1. /\ gate = "off" /\ agent = "none" /\ ctl = TRUE /\ lock = "free" /\ junk = FALSE
      /\ req = [r \in Requests |-> "idle"] /\ reply = [r \in Requests |-> "none"]
      /\ atAgent = [r \in Requests |-> "none"] /\ atLb = [r \in Requests |-> "none"]
    BY Zenon DEF Init
<1> QED BY <1>1 DEF Calm, CalmGate, CalmRequest

\* Without a fault nobody is sent away, panics or blocks, whatever requests come
\* together.
THEOREM CalmIsKept == Spec => []NothingFailsAlone
<1>1. Init => Calm
    BY InitCalm
<1>2. SInv /\ Calm /\ [Next]_vars => Calm'
    BY CalmStep
<1>3. Calm => NothingFailsAlone
    BY DEF Calm, CalmGate, CalmRequest, NothingFailsAlone
<1> QED BY <1>1, <1>2, <1>3, SInvariance, PTL DEF Spec
=============================================================================
