-------------------------- MODULE ApiGatewayProofs --------------------------
(***************************************************************************)
(* Proofs about ApiGateway for any number of clients and connections and   *)
(* any capacities with StreamLen + 1 <= RespCap + 3: type correctness, the *)
(* two facts that keep the clients of a connection apart, LoopNotWedged    *)
(* and NoSendOnClosed, and that the gateway implements StreamDelivery.     *)
(*                                                                         *)
(* The inductive invariant counts: the messages of c between the receive   *)
(* loop and the handler are numbered without a gap from the last one taken *)
(* to the last one read, and the request of c is in one place only.        *)
(***************************************************************************)
EXTENDS ApiGateway, SequenceTheorems, TLAPS

\* The last message of c that has left the channel of its request.
Forwarded(c) == cur[c] + Len(response[c]) + (IF fwd[c] = "sending" THEN 1 ELSE 0)

HeldBy(w, c) == loop[w] # Nothing /\ loop[w].c = c

\* The queue and the workers have not seen the exchange of c.
NotQueued(c) ==
    \/ handler[c] \in {"reading", "queueing"}
    \/ handler[c] = "returned" /\ cur[c] = 0

\* The pipeline of c, from the handler back to the receive loop.
Numbered(c) ==
    /\ \A i \in 1..Len(response[c]) : response[c][i] = cur[c] + i
    /\ fwd[c] = "sending" => fwdMsg[c] = cur[c] + Len(response[c]) + 1
    /\ Len(ch[c]) <= 1
    /\ \A i \in 1..Len(ch[c]) : ch[c][i] = Forwarded(c) + i
    /\ \A w \in Workers :
         HeldBy(w, c) => /\ w \in owner[c]
                         /\ loop[w].n = read[c]
                         /\ read[c] = Forwarded(c) + Len(ch[c]) + 1
    /\ (\A w \in Workers : ~HeldBy(w, c)) => read[c] = Forwarded(c) + Len(ch[c])
    /\ read[c] <= Total(c)

\* The request of c is in the queue once, or with one worker, or on one
\* connection, and nothing is read before it is on one.
OnePlace(c) ==
    /\ \A w, v \in owner[c] : w = v
    /\ owner[c] = {} => read[c] = 0
    /\ NotQueued(c) =>
         /\ owner[c] = {} /\ fwd[c] = "none"
         /\ \A i \in 1..Len(queue) : queue[i] # c
         /\ \A w \in Workers : job[w] # c
    /\ \A i \in 1..Len(queue) : queue[i] = c =>
         /\ owner[c] = {} /\ fwd[c] = "none"
         /\ \A w \in Workers : job[w] # c
         /\ \A j \in 1..Len(queue) : queue[j] = c => i = j
    /\ \A w \in Workers : job[w] = c =>
         /\ fwd[c] = "none"
         /\ \A v \in Workers : job[v] = c => v = w
         /\ worker[w] \in {"requesting", "returned"} => owner[c] = {}

\* The handler has taken a message before it can fail to send one, and closes
\* the response channel after the last.
HandlerOrder(c) ==
    /\ handler[c] \in {"sending", "served"} => cur[c] > 0
    /\ handler[c] \in {"reading", "queueing"} => cur[c] = 0
    /\ respClosed[c] => handler[c] \in {"ranging", "served"} /\ cur[c] = Total(c)

WorkerOrder ==
    \A w \in Workers : worker[w] = "taking" <=> job[w] = None

IInv ==
    /\ TypeOK
    /\ WorkerOrder
    /\ \A c \in Clients : Numbered(c) /\ OnePlace(c) /\ HandlerOrder(c)
    /\ ~panicked
-----------------------------------------------------------------------------
(* Type correctness.                                                        *)

LEMMA InitInv == Init => IInv
<1> SUFFICES ASSUME Init PROVE IInv
    OBVIOUS
<1> USE GatewayAssumption DEF Init
<1>1. TypeOK
    <2>1. /\ loop \in [Workers -> [c : Clients, n : Numbers] \cup {Nothing}]
          /\ received \in [Clients -> Seq(Numbers)]
          /\ response \in [Clients -> Seq(Numbers)]
          /\ ch \in [Clients -> Seq(Numbers)]
          /\ queue \in Seq(Clients)
        OBVIOUS
    <2>2. /\ owner \in [Clients -> SUBSET Workers]
          /\ job \in [Workers -> Clients \cup {None}]
        OBVIOUS
    <2> QED BY <2>1, <2>2 DEF TypeOK
<1>2. WorkerOrder
    BY DEF WorkerOrder
<1>3. ASSUME NEW c \in Clients PROVE Numbered(c) /\ OnePlace(c) /\ HandlerOrder(c)
    BY GatewayAssumption DEF Numbered, OnePlace, HandlerOrder, Forwarded, HeldBy, Total
<1> QED BY <1>1, <1>2, <1>3 DEF IInv

LEMMA TotalType ==
    ASSUME NEW c \in Clients
    PROVE  Total(c) \in Numbers /\ Total(c) <= StreamLen + 1
BY GatewayAssumption DEF Total, Numbers

\* Who holds a message, holds one of Numbers.
LEMMA HeldType ==
    ASSUME TypeOK, NEW w \in Workers, loop[w] # Nothing
    PROVE  loop[w].c \in Clients /\ loop[w].n \in Numbers
BY DEF TypeOK

LEMMA StepType == IInv /\ [Next]_vars => TypeOK'
<1> SUFFICES ASSUME TypeOK, \A c \in Clients : Numbered(c) /\ HandlerOrder(c), [Next]_vars
             PROVE TypeOK'
    BY DEF IInv
<1> USE GatewayAssumption DEF TypeOK, clientVars, handlerVars, poolVars,
                              workerVars, connVars, fwdVars
<1>1. CASE UNCHANGED vars
    BY <1>1 DEF vars
<1>2. ASSUME NEW c \in Clients, HandlerStep(c) PROVE TypeOK'
    <2>1. CASE HandlerReceives(c) BY <2>1 DEF HandlerReceives
    <2>2. CASE HandlerRefuses(c) BY <2>2 DEF HandlerRefuses
    <2>3. CASE HandlerQueues(c) BY <2>3 DEF HandlerQueues
    <2>4. CASE HandlerTakes(c) BY <2>4 DEF HandlerTakes
    <2>5. CASE HandlerSends(c)
        <3>1. cur[c] \in Numbers
            BY <2>5 DEF HandlerSends, HandlerOrder, Numbers
        <3> QED BY <2>5, <3>1 DEF HandlerSends, IsLast
    <2>6. CASE HandlerGivesUp(c) BY <2>6 DEF HandlerGivesUp
    <2>7. CASE HandlerDone(c) BY <2>7 DEF HandlerDone
    <2> QED BY <1>2, <2>1, <2>2, <2>3, <2>4, <2>5, <2>6, <2>7 DEF HandlerStep
<1>3. ASSUME NEW c \in Clients, ForwarderStep(c) PROVE TypeOK'
    <2>1. CASE ForwarderTakes(c) BY <2>1 DEF ForwarderTakes
    <2>2. CASE ForwarderSends(c)
        <3>1. fwdMsg[c] = cur[c] + Len(response[c]) + 1
            BY <2>2 DEF ForwarderSends, Numbered
        <3>2. cur[c] \in Nat /\ Len(response[c]) \in Nat
            BY DEF Numbers
        <3>3. fwdMsg[c] \in Numbers
            BY <3>1, <3>2
        <3> QED BY <2>2, <3>3 DEF ForwarderSends
    <2>3. CASE ForwarderPanics(c) BY <2>3 DEF ForwarderPanics
    <2>4. CASE ForwarderEnds(c) BY <2>4 DEF ForwarderEnds
    <2> QED BY <1>3, <2>1, <2>2, <2>3, <2>4 DEF ForwarderStep
<1>4. ASSUME NEW c \in Clients, ClientLeaves(c) PROVE TypeOK'
    BY <1>4 DEF ClientLeaves
<1>5. ASSUME NEW w \in Workers, WorkerStep(w) PROVE TypeOK'
    <2>1. CASE WorkerTakes(w) BY <2>1 DEF WorkerTakes
    <2>2. CASE WorkerRequests(w) BY <2>2 DEF WorkerRequests
    <2>3. CASE WorkerReturns(w) BY <2>3 DEF WorkerReturns
    <2>4. CASE WorkerSpawns(w) BY <2>4 DEF WorkerSpawns
    <2> QED BY <1>5, <2>1, <2>2, <2>3, <2>4 DEF WorkerStep
<1>6. ASSUME NEW w \in Workers, LoopDelivers(w) PROVE TypeOK'
    <2> DEFINE c == loop[w].c
               n == loop[w].n
    <2>1. c \in Clients /\ n \in Numbers
        BY <1>6, HeldType DEF LoopDelivers
    <2>2. /\ ch' = [ch EXCEPT ![c] = Append(@, n)]
          /\ chClosed' = [chClosed EXCEPT ![c] = IsLast(c, n)]
          /\ loop' = [loop EXCEPT ![w] = Nothing]
        BY <1>6 DEF LoopDelivers
    <2> HIDE DEF c, n
    <2>3. ch' \in [Clients -> Seq(Numbers)] /\ chClosed' \in [Clients -> BOOLEAN]
        BY <2>1, <2>2 DEF IsLast
    <2>4. loop' \in [Workers -> [c : Clients, n : Numbers] \cup {Nothing}]
        BY <2>2
    <2> QED BY <1>6, <2>3, <2>4 DEF LoopDelivers
<1>7. ASSUME NEW w \in Workers, NEW c \in Clients, LoopReads(w, c) PROVE TypeOK'
    <2>1. read[c] + 1 \in Numbers
        <3>1. read[c] \in Numbers \cup {0} /\ read[c] < Total(c)
            BY <1>7 DEF LoopReads
        <3>2. Total(c) \in Numbers /\ Total(c) <= StreamLen + 1
            BY TotalType
        <3> QED BY <3>1, <3>2 DEF Numbers
    <2>2. [c |-> c, n |-> read[c] + 1] \in [c : Clients, n : Numbers]
        BY <2>1
    <2>3. loop' \in [Workers -> [c : Clients, n : Numbers] \cup {Nothing}]
        BY <1>7, <2>2 DEF LoopReads
    <2> QED BY <1>7, <2>1, <2>3 DEF LoopReads
<1>8. ASSUME NEW w \in Workers, ConnectionLost(w) PROVE TypeOK'
    BY <1>8 DEF ConnectionLost
<1> QED BY <1>1, <1>2, <1>3, <1>4, <1>5, <1>6, <1>7, <1>8 DEF Next, LoopStep
-----------------------------------------------------------------------------
(* The inductive step, one lemma per goroutine.                             *)

\* What is taken from the response channel is the next message, and a closed
\* response channel has nothing behind it.
LEMMA PipelineBound ==
    ASSUME IInv, NEW c \in Clients
    PROVE  /\ Forwarded(c) \in Nat
           /\ Forwarded(c) <= read[c]
           /\ read[c] <= Total(c)
           /\ respClosed[c] => response[c] = <<>> /\ fwd[c] # "sending"
<1>1. /\ cur[c] \in Nat /\ read[c] \in Nat /\ Len(response[c]) \in Nat
      /\ Len(ch[c]) \in Nat
    BY DEF IInv, TypeOK, Numbers
<1>2. Forwarded(c) \in Nat
    BY <1>1 DEF Forwarded
<1>3. read[c] <= Total(c)
    BY DEF IInv, Numbered
<1>4. Forwarded(c) <= read[c]
    BY <1>1, <1>2 DEF IInv, Numbered
<1>5. ASSUME respClosed[c] PROVE response[c] = <<>> /\ fwd[c] # "sending"
    <2>1. cur[c] = Total(c)
        BY <1>5 DEF IInv, HandlerOrder
    <2>2. Len(response[c]) = 0 /\ fwd[c] # "sending"
        BY <1>1, <1>3, <1>4, <2>1 DEF Forwarded
    <2> QED BY <2>2 DEF IInv, TypeOK
<1> QED BY <1>2, <1>3, <1>4, <1>5

\* Steps that leave the pipeline of d alone keep its numbering.
LEMMA NumberedFrame ==
    ASSUME NEW d \in Clients, Numbered(d),
           cur'[d] = cur[d], response'[d] = response[d], ch'[d] = ch[d],
           (fwd'[d] = "sending") <=> (fwd[d] = "sending"),
           fwdMsg'[d] = fwdMsg[d], read'[d] = read[d],
           owner[d] \subseteq owner'[d],
           \A w \in Workers : HeldBy(w, d)' <=> HeldBy(w, d),
           \A w \in Workers : HeldBy(w, d) => loop'[w] = loop[w]
    PROVE  Numbered(d)'
<1>1. Forwarded(d)' = Forwarded(d)
    BY DEF Forwarded
<1> QED BY <1>1 DEF Numbered, Total

LEMMA HandlerTakesInv ==
    ASSUME IInv, TypeOK', NEW c \in Clients, HandlerTakes(c)
    PROVE  IInv'
<1> USE DEF HandlerTakes, clientVars, workerVars, connVars, fwdVars
<1>1. /\ response[c] \in Seq(Numbers) /\ response[c] # <<>>
      /\ cur[c] \in Nat
      /\ response'[c] = Tail(response[c]) /\ cur'[c] = response[c][1]
    BY DEF IInv, TypeOK, Numbers
<1>2. cur'[c] = cur[c] + 1
    BY <1>1 DEF IInv, Numbered
<1>3. /\ Len(response[c]) \in Nat
      /\ Len(response'[c]) = Len(response[c]) - 1
      /\ \A i \in 1..Len(response'[c]) : response'[c][i] = response[c][i + 1]
    <2>1. Len(response[c]) \in Nat
        BY <1>1
    <2> DEFINE r == response[c]
    <2>2. r \in Seq(Numbers) /\ r # <<>> /\ response'[c] = Tail(r)
        BY <1>1
    <2> HIDE DEF r
    <2>3. /\ Len(response'[c]) = Len(r) - 1
          /\ \A i \in 1..Len(response'[c]) : response'[c][i] = r[i + 1]
        BY <2>2, HeadTailProperties
    <2> QED BY <2>1, <2>3 DEF r
<1>4. Forwarded(c)' = Forwarded(c)
    BY <1>1, <1>2, <1>3 DEF Forwarded
<1>5. Numbered(c)
    BY DEF IInv
<1>6. Numbered(c)'
    <2>1. \A i \in 1..Len(response'[c]) : response'[c][i] = cur'[c] + i
        <3> SUFFICES ASSUME NEW i \in 1..Len(response'[c])
                     PROVE  response'[c][i] = cur'[c] + i
            OBVIOUS
        <3> HIDE DEF HandlerTakes
        <3>0. cur[c] \in Nat /\ i \in Int
            BY <1>1, <1>3
        <3>1. i + 1 \in 1..Len(response[c])
            BY <1>3
        <3>2. response[c][i + 1] = cur[c] + (i + 1)
            BY <3>1, <1>5 DEF Numbered
        <3>3. response'[c][i] = response[c][i + 1]
            BY <1>3
        <3>4. cur[c] + (i + 1) = cur'[c] + i
            BY <1>2, <3>0
        <3> QED BY <3>2, <3>3, <3>4
    <2>2. cur'[c] + Len(response'[c]) = cur[c] + Len(response[c])
        BY <1>1, <1>2, <1>3
    <2> QED BY <1>4, <1>5, <2>1, <2>2 DEF Numbered, HeldBy, Total
<1>7. ASSUME NEW d \in Clients, d # c PROVE Numbered(d)'
    <2>1. cur'[d] = cur[d] /\ response'[d] = response[d]
        BY <1>7 DEF IInv, TypeOK
    <2> QED BY <2>1, NumberedFrame DEF IInv, HeldBy
<1>8. ASSUME NEW d \in Clients PROVE OnePlace(d)'
    <2>1. handler \in [Clients -> {"reading", "queueing", "ranging", "sending",
                                    "served", "returned"}]
          /\ cur \in [Clients -> Numbers \cup {0}] /\ OnePlace(d)
        BY DEF IInv, TypeOK
    <2>2. NotQueued(d)' => NotQueued(d)
        <3>1. CASE d = c
            BY <2>1, <3>1 DEF NotQueued
        <3>2. CASE d # c
            BY <2>1, <3>2 DEF NotQueued
        <3> QED BY <3>1, <3>2
    <2>3. /\ owner' = owner /\ read' = read /\ fwd' = fwd /\ queue' = queue /\ job' = job
          /\ worker' = worker
        OBVIOUS
    <2> QED BY <2>1, <2>2, <2>3 DEF OnePlace
<1>9. ASSUME NEW d \in Clients PROVE HandlerOrder(d)'
    BY <1>1, <1>2, PipelineBound DEF IInv, TypeOK, HandlerOrder, Total
<1> QED BY <1>6, <1>7, <1>8, <1>9 DEF IInv, WorkerOrder

\* Steps of handleClient and of a worker that touch no message.
LEMMA QuietInv ==
    ASSUME IInv, TypeOK', NEW c, NEW w,
           \/ /\ c \in Clients
              /\ \/ HandlerReceives(c) \/ HandlerRefuses(c) \/ HandlerSends(c)
                 \/ HandlerGivesUp(c) \/ HandlerDone(c) \/ ClientLeaves(c)
                 \/ ForwarderEnds(c)
           \/ w \in Workers /\ (WorkerReturns(w) \/ ConnectionLost(w))
    PROVE  IInv'
<1> USE DEF HandlerReceives, HandlerRefuses, HandlerSends, HandlerGivesUp,
            HandlerDone, ClientLeaves, ForwarderEnds, WorkerReturns,
            ConnectionLost, clientVars, handlerVars, poolVars, workerVars,
            connVars, fwdVars
<1>1. /\ cur' = cur /\ response' = response /\ ch' = ch /\ fwdMsg' = fwdMsg
      /\ read' = read /\ owner' = owner /\ loop' = loop /\ queue' = queue
      /\ job' = job /\ panicked' = panicked
    OBVIOUS
<1>2. \A d \in Clients : /\ (fwd'[d] = "sending") <=> (fwd[d] = "sending")
                         /\ fwd[d] = "none" => fwd'[d] = "none"
    BY DEF IInv, TypeOK
<1>3. ASSUME NEW d \in Clients PROVE Numbered(d)'
    BY <1>1, <1>2, NumberedFrame DEF IInv, HeldBy
<1>A. ASSUME NEW d \in Clients
      PROVE  \/ handler'[d] = handler[d] /\ (~HandlerSends(c) => respClosed'[d] = respClosed[d])
             \/ /\ handler[d] = "reading" /\ handler'[d] \in {"queueing", "returned"}
                /\ respClosed'[d] = respClosed[d]
             \/ handler[d] = "sending" /\ handler'[d] = "ranging" /\ HandlerSends(c)
             \/ /\ handler[d] = "sending" /\ handler'[d] = "returned"
                /\ respClosed'[d] = respClosed[d]
             \/ /\ handler[d] = "ranging" /\ handler'[d] = "served"
                /\ respClosed[d] /\ respClosed'[d]
    <2> USE DEF IInv, TypeOK
    <2>1. CASE HandlerReceives(c) BY <2>1
    <2>2. CASE HandlerRefuses(c) BY <2>2
    <2>3. CASE HandlerSends(c) BY <2>3
    <2>4. CASE HandlerGivesUp(c) BY <2>4
    <2>5. CASE HandlerDone(c) BY <2>5
    <2>6. CASE ClientLeaves(c) \/ ForwarderEnds(c) \/ WorkerReturns(w) \/ ConnectionLost(w)
        BY <2>6
    <2> QED BY <2>1, <2>2, <2>3, <2>4, <2>5, <2>6
<1>B. ASSUME NEW d \in Clients
      PROVE  HandlerOrder(d) /\ Total(d)' = Total(d) /\ cur[d] \in Nat /\ Total(d) > 0
    BY TotalType DEF IInv, Total, TypeOK, Numbers
<1>4. ASSUME NEW d \in Clients PROVE OnePlace(d)'
    <2>1. NotQueued(d)' => NotQueued(d)
        <3> HIDE DEF HandlerReceives, HandlerRefuses, HandlerSends, HandlerGivesUp,
                     HandlerDone, ClientLeaves, ForwarderEnds, WorkerReturns,
                     ConnectionLost
        <3> QED BY <1>1, <1>A, <1>B DEF NotQueued, HandlerOrder
    <2>2. \A v \in Workers : worker'[v] \in {"requesting", "returned"}
                             => worker[v] \in {"requesting", "returned"}
        BY DEF IInv, TypeOK
    <2> QED BY <1>1, <1>2, <2>1, <2>2 DEF IInv, OnePlace
<1>5. ASSUME NEW d \in Clients PROVE HandlerOrder(d)'
    <2>1. CASE HandlerSends(c)
        BY <1>1, <1>B, <2>1 DEF IInv, TypeOK, HandlerOrder, IsLast
    <2>2. CASE ~HandlerSends(c)
        <3> HIDE DEF HandlerReceives, HandlerRefuses, HandlerSends, HandlerGivesUp,
                     HandlerDone, ClientLeaves, ForwarderEnds, WorkerReturns,
                     ConnectionLost
        <3> QED BY <1>1, <1>A, <1>B, <2>2 DEF HandlerOrder
    <2> QED BY <2>1, <2>2
<1>6. WorkerOrder'
    BY <1>1 DEF IInv, TypeOK, WorkerOrder
<1> QED BY <1>1, <1>3, <1>4, <1>5, <1>6 DEF IInv

\* The request enters the queue of the load balancer.
LEMMA HandlerQueuesInv ==
    ASSUME IInv, TypeOK', NEW c \in Clients, HandlerQueues(c)
    PROVE  IInv'
<1> USE DEF HandlerQueues, clientVars, poolVars, connVars, fwdVars
<1>1. ASSUME NEW d \in Clients PROVE Numbered(d)'
    BY NumberedFrame DEF IInv, HeldBy
<1>2. /\ queue \in Seq(Clients) /\ Len(queue) \in Nat
      /\ Len(queue') = Len(queue) + 1
      /\ queue'[Len(queue) + 1] = c
      /\ \A i \in 1..Len(queue) : queue'[i] = queue[i]
    <2>1. queue \in Seq(Clients)
        BY DEF IInv, TypeOK
    <2> QED BY <2>1, AppendProperties
<1>3. /\ NotQueued(c)
      /\ \A i \in 1..Len(queue) : queue[i] # c
      /\ owner[c] = {} /\ fwd[c] = "none" /\ \A w \in Workers : job[w] # c
    BY DEF IInv, NotQueued, OnePlace
<1>4. ASSUME NEW d \in Clients PROVE OnePlace(d)'
    <2>1. OnePlace(d) /\ handler'[c] = "ranging" /\ (d # c => handler'[d] = handler[d])
        BY DEF IInv, TypeOK
    <2>2. NotQueued(d)' => NotQueued(d) /\ d # c
        BY <2>1 DEF NotQueued
    <2>3. \A i \in 1..Len(queue') :
             \/ i \in 1..Len(queue) /\ queue'[i] = queue[i]
             \/ i = Len(queue) + 1 /\ queue'[i] = c
        BY <1>2
    <2>4. NotQueued(d)' => \A i \in 1..Len(queue') : queue'[i] # d
        BY <2>1, <2>2, <2>3 DEF OnePlace
    <2>5. \A i, j \in 1..Len(queue') : queue'[i] = d /\ queue'[j] = d => i = j
        BY <1>3, <2>1, <2>3 DEF OnePlace
    <2>6. \A i \in 1..Len(queue') : queue'[i] = d =>
              owner[d] = {} /\ fwd[d] = "none" /\ \A w \in Workers : job[w] # d
        BY <1>3, <2>1, <2>3 DEF OnePlace
    <2> QED BY <2>1, <2>2, <2>4, <2>5, <2>6 DEF OnePlace
<1>5. ASSUME NEW d \in Clients PROVE HandlerOrder(d)'
    <2>1. HandlerOrder(d) /\ Total(d)' = Total(d)
        BY DEF IInv, Total
    <2> QED BY <2>1 DEF IInv, TypeOK, HandlerOrder
<1> QED BY <1>1, <1>4, <1>5 DEF IInv, WorkerOrder

\* A worker takes the request that has waited longest.
LEMMA WorkerTakesInv ==
    ASSUME IInv, TypeOK', NEW w \in Workers, WorkerTakes(w)
    PROVE  IInv'
<1> USE DEF WorkerTakes, clientVars, handlerVars, poolVars, connVars, fwdVars
<1> DEFINE c == Head(queue)
<1>1. ASSUME NEW d \in Clients PROVE Numbered(d)'
    BY NumberedFrame DEF IInv, HeldBy
<1>2. queue \in Seq(Clients) /\ queue # <<>> /\ queue' = Tail(queue)
    BY DEF IInv, TypeOK
<1>3. c \in Clients /\ c = queue[1] /\ 1 \in 1..Len(queue)
    BY <1>2
<1>4. /\ Len(queue) \in Nat /\ Len(queue') = Len(queue) - 1
      /\ \A i \in 1..Len(queue') : queue'[i] = queue[i + 1]
    BY <1>2, HeadTailProperties
<1>5. /\ job[w] = None /\ worker'[w] = "requesting" /\ job'[w] = c
      /\ \A v \in Workers \ {w} : job'[v] = job[v] /\ worker'[v] = worker[v]
    BY DEF IInv, TypeOK, WorkerOrder
<1> HIDE DEF c
<1>6. /\ owner[c] = {} /\ fwd[c] = "none" /\ ~NotQueued(c)
      /\ \A v \in Workers : job[v] # c
      /\ \A i \in 1..Len(queue) : queue[i] = c => i = 1
    BY <1>3 DEF IInv, OnePlace
<1>7. ASSUME NEW d \in Clients PROVE OnePlace(d)'
    <2>1. OnePlace(d) /\ d # None
        BY GatewayAssumption DEF IInv
    <2>2. NotQueued(d)' <=> NotQueued(d)
        BY DEF NotQueued
    <2>3. \A i \in 1..Len(queue') : /\ i \in Int /\ i + 1 \in 1..Len(queue)
                                    /\ i + 1 # 1 /\ queue'[i] = queue[i + 1]
        BY <1>4
    <2>4. \A i \in 1..Len(queue') : queue'[i] # c
        BY <1>6, <2>3
    <2>5. \A i, j \in 1..Len(queue') : queue'[i] = d /\ queue'[j] = d => i = j
        <3>1. \A i, j \in 1..Len(queue') : queue'[i] = d /\ queue'[j] = d => i + 1 = j + 1
            BY <2>1, <2>3 DEF OnePlace
        <3> QED BY <2>3, <3>1
    <2>6. CASE d = c
        BY <1>5, <1>6, <2>1, <2>2, <2>4, <2>6 DEF OnePlace
    <2>7. CASE d # c
        <3>1. \A v \in Workers : job'[v] = d <=> job[v] = d
            BY <1>5, <2>1, <2>7
        <3>2. \A v \in Workers : job'[v] = d => worker'[v] = worker[v]
            BY <1>5, <2>7
        <3>3. \A i \in 1..Len(queue') : queue'[i] = d =>
                owner[d] = {} /\ fwd[d] = "none" /\ \A v \in Workers : job[v] # d
            BY <2>1, <2>3 DEF OnePlace
        <3>4. NotQueued(d) => \A i \in 1..Len(queue') : queue'[i] # d
            BY <2>1, <2>3 DEF OnePlace
        <3> QED BY <2>1, <2>2, <2>5, <3>1, <3>2, <3>3, <3>4 DEF OnePlace
    <2> QED BY <2>6, <2>7
<1>8. ASSUME NEW d \in Clients PROVE HandlerOrder(d)'
    BY DEF IInv, HandlerOrder, Total
<1>9. WorkerOrder'
    <2>1. c # None
        BY <1>3, GatewayAssumption
    <2> QED BY <1>5, <2>1 DEF IInv, WorkerOrder
<1> QED BY <1>1, <1>7, <1>8, <1>9 DEF IInv

\* The request gets its connection.
LEMMA WorkerRequestsInv ==
    ASSUME IInv, TypeOK', NEW w \in Workers, WorkerRequests(w)
    PROVE  IInv'
<1> USE DEF WorkerRequests, clientVars, handlerVars, poolVars, connVars, fwdVars
<1> DEFINE c == job[w]
<1>1. c \in Clients /\ c # None
    BY GatewayAssumption DEF IInv, TypeOK, WorkerOrder
<1>2. /\ owner'[c] = {w}
      /\ \A d \in Clients \ {c} : owner'[d] = owner[d]
      /\ worker'[w] = "spawning"
      /\ \A v \in Workers \ {w} : worker'[v] = worker[v]
    BY <1>1 DEF IInv, TypeOK
<1> HIDE DEF c
<1>3. /\ owner[c] = {} /\ fwd[c] = "none" /\ ~NotQueued(c)
      /\ \A v \in Workers : job[v] = c => v = w
      /\ \A i \in 1..Len(queue) : queue[i] # c
    BY <1>1 DEF IInv, OnePlace, c
<1>4. ASSUME NEW d \in Clients PROVE Numbered(d)'
    <2>1. owner[d] \subseteq owner'[d]
        BY <1>2, <1>3
    <2> QED BY <2>1, NumberedFrame DEF IInv, HeldBy
<1>5. ASSUME NEW d \in Clients PROVE OnePlace(d)'
    <2>1. OnePlace(d) /\ (NotQueued(d)' <=> NotQueued(d))
        BY DEF IInv, NotQueued
    <2>2. CASE d = c
        BY <1>2, <1>3, <2>1, <2>2 DEF OnePlace
    <2>3. CASE d # c
        <3>1. owner'[d] = owner[d]
            BY <1>2, <2>3
        <3>2. \A v \in Workers : job[v] = d => worker'[v] = worker[v]
            BY <1>2, <2>3 DEF c
        <3> QED BY <2>1, <3>1, <3>2 DEF OnePlace
    <2> QED BY <2>2, <2>3
<1>6. ASSUME NEW d \in Clients PROVE HandlerOrder(d)'
    BY DEF IInv, HandlerOrder, Total
<1>7. WorkerOrder'
    BY <1>2 DEF IInv, WorkerOrder
<1> QED BY <1>4, <1>5, <1>6, <1>7 DEF IInv

\* The forwarder starts with an empty hand.
LEMMA WorkerSpawnsInv ==
    ASSUME IInv, TypeOK', NEW w \in Workers, WorkerSpawns(w)
    PROVE  IInv'
<1> USE DEF WorkerSpawns, clientVars, handlerVars, poolVars, connVars
<1> DEFINE c == job[w]
<1>1. c \in Clients /\ c # None
    BY GatewayAssumption DEF IInv, TypeOK, WorkerOrder
<1>2. /\ fwd'[c] = "ranging" /\ job'[w] = None /\ worker'[w] = "taking"
      /\ \A d \in Clients \ {c} : fwd'[d] = fwd[d]
      /\ \A v \in Workers \ {w} : worker'[v] = worker[v] /\ job'[v] = job[v]
    BY <1>1 DEF IInv, TypeOK
<1> HIDE DEF c
<1>3. /\ fwd[c] = "none" /\ ~NotQueued(c)
      /\ \A v \in Workers : job[v] = c => v = w
      /\ \A i \in 1..Len(queue) : queue[i] # c
    BY <1>1 DEF IInv, OnePlace, c
<1>4. ASSUME NEW d \in Clients PROVE Numbered(d)'
    <2>1. (fwd'[d] = "sending") <=> (fwd[d] = "sending")
        BY <1>2, <1>3
    <2> QED BY <2>1, NumberedFrame DEF IInv, HeldBy
<1>5. ASSUME NEW d \in Clients PROVE OnePlace(d)'
    <2>1. OnePlace(d) /\ (NotQueued(d)' <=> NotQueued(d)) /\ d # None
        BY GatewayAssumption DEF IInv, NotQueued
    <2>2. \A v \in Workers : job'[v] = d => v # w /\ job[v] = d /\ d # c
        BY <1>2, <1>3, <2>1
    <2>3. \A v \in Workers : job'[v] = d => worker'[v] = worker[v]
        BY <1>2, <2>2
    <2>4. CASE d = c
        BY <1>3, <2>1, <2>2, <2>4 DEF OnePlace
    <2>5. CASE d # c
        <3>1. fwd'[d] = fwd[d]
            BY <1>2, <2>5
        <3> QED BY <2>1, <2>2, <2>3, <3>1 DEF OnePlace
    <2> QED BY <2>4, <2>5
<1>6. ASSUME NEW d \in Clients PROVE HandlerOrder(d)'
    BY DEF IInv, HandlerOrder, Total
<1>7. WorkerOrder'
    BY <1>2 DEF IInv, WorkerOrder
<1> QED BY <1>4, <1>5, <1>6, <1>7 DEF IInv

\* A message moves from the channel of the request into the forwarder's hand.
LEMMA ForwarderTakesInv ==
    ASSUME IInv, TypeOK', NEW c \in Clients, ForwarderTakes(c)
    PROVE  IInv'
<1> USE DEF ForwarderTakes, clientVars, handlerVars, poolVars, workerVars
<1>1. /\ ch[c] \in Seq(Numbers) /\ ch[c] # <<>> /\ cur[c] \in Nat
      /\ Len(response[c]) \in Nat /\ response' = response /\ cur' = cur
      /\ ch'[c] = Tail(ch[c]) /\ fwdMsg'[c] = ch[c][1]
      /\ fwd[c] = "ranging" /\ fwd'[c] = "sending" /\ read' = read
    BY DEF IInv, TypeOK, Numbers
<1>2. Numbered(c)
    BY DEF IInv
<1> HIDE DEF ForwarderTakes
<1>3. Len(ch[c]) = 1 /\ 1 \in 1..Len(ch[c]) /\ Len(ch'[c]) = 0
    <2> DEFINE q == ch[c]
    <2>1. q \in Seq(Numbers) /\ q # <<>> /\ ch'[c] = Tail(q) /\ Len(q) <= 1
        BY <1>1, <1>2 DEF Numbered
    <2> HIDE DEF q
    <2>2. Len(q) \in Nat /\ Len(q) # 0 /\ Len(ch'[c]) = Len(q) - 1
        BY <2>1, HeadTailProperties, EmptySeq
    <2>3. Len(q) = 1
        BY <2>1, <2>2
    <2>4. Len(ch'[c]) = 0
        BY <2>2, <2>3
    <2> QED BY <2>3, <2>4 DEF q
<1>4. Forwarded(c)' = Forwarded(c) + 1 /\ Forwarded(c) = cur[c] + Len(response[c])
    BY <1>1 DEF Forwarded
<1>5. fwdMsg'[c] = Forwarded(c) + 1
    BY <1>1, <1>2, <1>3 DEF Numbered
<1>6. Numbered(c)'
    <2>1. loop' = loop /\ owner' = owner /\ read[c] \in Nat
        BY DEF ForwarderTakes, IInv, TypeOK, Numbers
    <2>2. \A i \in 1..Len(response[c]) : response[c][i] = cur[c] + i
        BY <1>2 DEF Numbered
    <2>3. \A w \in Workers :
             HeldBy(w, c) => /\ w \in owner[c] /\ loop[w].n = read[c]
                             /\ read[c] = Forwarded(c) + 2
        BY <1>1, <1>2, <1>3, <1>4 DEF Numbered
    <2>4. (\A w \in Workers : ~HeldBy(w, c)) => read[c] = Forwarded(c) + 1
        BY <1>1, <1>2, <1>3, <1>4 DEF Numbered
    <2>5. read[c] <= Total(c)
        BY <1>2 DEF Numbered
    <2>6. \A w \in Workers : HeldBy(w, c)' <=> HeldBy(w, c)
        BY <2>1 DEF HeldBy
    <2>7. Forwarded(c) \in Nat /\ Total(c)' = Total(c)
        BY <1>1, <1>4 DEF Total
    <2>8. \A i \in 1..Len(ch'[c]) : FALSE
        BY <1>3
    <2>9. fwdMsg'[c] = cur'[c] + Len(response'[c]) + 1
        BY <1>1, <1>4, <1>5
    <2>10. /\ Forwarded(c)' + Len(ch'[c]) = Forwarded(c) + 1
           /\ Forwarded(c)' + Len(ch'[c]) + 1 = Forwarded(c) + 2
        BY <1>3, <1>4, <2>7
    <2>11. read'[c] = read[c] /\ response'[c] = response[c] /\ cur'[c] = cur[c]
        BY <1>1
    <2>12. \A w \in Workers :
             HeldBy(w, c)' => /\ w \in owner'[c] /\ loop'[w].n = read'[c]
                              /\ read'[c] = Forwarded(c)' + Len(ch'[c]) + 1
        BY <2>1, <2>3, <2>6, <2>10, <2>11
    <2>13. (\A w \in Workers : ~HeldBy(w, c)') => read'[c] = Forwarded(c)' + Len(ch'[c])
        BY <2>4, <2>6, <2>10, <2>11
    <2>14. Len(ch'[c]) <= 1
        BY <1>3
    <2> QED BY <2>2, <2>5, <2>7, <2>8, <2>9, <2>11, <2>12, <2>13, <2>14 DEF Numbered
<1>7. ASSUME NEW d \in Clients, d # c PROVE Numbered(d)'
    BY <1>7, NumberedFrame DEF IInv, TypeOK, HeldBy, ForwarderTakes
<1>8. ASSUME NEW d \in Clients PROVE OnePlace(d)'
    <2>1. OnePlace(d) /\ (NotQueued(d)' <=> NotQueued(d)) /\ (fwd[d] = "none" => fwd'[d] = "none")
        BY <1>1 DEF IInv, TypeOK, NotQueued, ForwarderTakes
    <2> QED BY <2>1 DEF OnePlace, ForwarderTakes
<1>9. ASSUME NEW d \in Clients PROVE HandlerOrder(d)'
    BY DEF IInv, HandlerOrder, Total, ForwarderTakes
<1> QED BY <1>6, <1>7, <1>8, <1>9 DEF IInv, WorkerOrder, ForwarderTakes

\* A message moves from the forwarder's hand into the response channel.
LEMMA ForwarderSendsInv ==
    ASSUME IInv, TypeOK', NEW c \in Clients, ForwarderSends(c)
    PROVE  IInv'
<1> USE DEF ForwarderSends, clientVars, handlerVars, workerVars, connVars
<1>1. /\ response[c] \in Seq(Numbers) /\ Len(response[c]) \in Nat /\ cur[c] \in Nat
      /\ response'[c] = Append(response[c], fwdMsg[c])
      /\ fwd[c] = "sending" /\ fwd'[c] = "ranging"
      /\ cur' = cur /\ ch' = ch /\ read' = read /\ loop' = loop /\ owner' = owner
    BY DEF IInv, TypeOK, Numbers
<1>2. Numbered(c)
    BY DEF IInv
<1> HIDE DEF ForwarderSends
<1>3. fwdMsg[c] = cur[c] + Len(response[c]) + 1
    BY <1>1, <1>2 DEF Numbered
<1>4. /\ Len(response'[c]) = Len(response[c]) + 1
      /\ response'[c][Len(response[c]) + 1] = fwdMsg[c]
      /\ \A i \in 1..Len(response[c]) : response'[c][i] = response[c][i]
    <2>1. fwdMsg[c] # 0
        BY <1>1, <1>3
    <2>2. fwdMsg[c] \in Numbers
        BY <2>1 DEF IInv, TypeOK
    <2> QED BY <1>1, <2>2, AppendProperties
<1>5. Forwarded(c)' = Forwarded(c)
    BY <1>1, <1>4 DEF Forwarded
<1>6. Numbered(c)'
    <2>1. \A i \in 1..Len(response'[c]) : response'[c][i] = cur'[c] + i
        <3> SUFFICES ASSUME NEW i \in 1..Len(response'[c])
                     PROVE  response'[c][i] = cur[c] + i
            BY <1>1
        <3>1. CASE i = Len(response[c]) + 1
            <4>1. fwdMsg[c] = cur[c] + (Len(response[c]) + 1)
                BY <1>1, <1>3
            <4> QED BY <1>4, <3>1, <4>1
        <3>2. CASE i \in 1..Len(response[c])
            BY <1>2, <1>4, <3>2 DEF Numbered
        <3>3. i = Len(response[c]) + 1 \/ i \in 1..Len(response[c])
            BY <1>1, <1>4
        <3> QED BY <3>1, <3>2, <3>3
    <2> QED BY <1>1, <1>2, <1>5, <2>1 DEF Numbered, HeldBy, Total
<1>7. ASSUME NEW d \in Clients, d # c PROVE Numbered(d)'
    BY <1>7, NumberedFrame DEF IInv, TypeOK, HeldBy, ForwarderSends
<1>8. ASSUME NEW d \in Clients PROVE OnePlace(d)'
    <2>1. OnePlace(d) /\ (NotQueued(d)' <=> NotQueued(d)) /\ (fwd[d] = "none" => fwd'[d] = "none")
        BY <1>1 DEF IInv, TypeOK, NotQueued, ForwarderSends
    <2> QED BY <2>1 DEF OnePlace, ForwarderSends
<1>9. ASSUME NEW d \in Clients PROVE HandlerOrder(d)'
    BY DEF IInv, HandlerOrder, Total, ForwarderSends
<1> QED BY <1>6, <1>7, <1>8, <1>9 DEF IInv, WorkerOrder, ForwarderSends

\* The receive loop takes the next message of c in hand.
LEMMA LoopReadsInv ==
    ASSUME IInv, TypeOK', NEW c \in Clients, NEW w \in Workers, LoopReads(w, c)
    PROVE  IInv'
<1> USE DEF LoopReads, clientVars, handlerVars, poolVars, workerVars, fwdVars
<1>1. /\ cur' = cur /\ response' = response /\ ch' = ch /\ fwdMsg' = fwdMsg
      /\ fwd' = fwd /\ owner' = owner /\ queue' = queue /\ job' = job
      /\ worker' = worker /\ handler' = handler /\ respClosed' = respClosed
      /\ panicked' = panicked /\ w \in owner[c] /\ loop[w] = Nothing
      /\ read[c] < Total(c)
    OBVIOUS
<1>2. /\ loop'[w] = [c |-> c, n |-> read'[c]] /\ read'[c] = read[c] + 1
      /\ \A v \in Workers \ {w} : loop'[v] = loop[v]
      /\ \A d \in Clients \ {c} : read'[d] = read[d]
      /\ read[c] \in Nat /\ Len(ch[c]) \in Nat
    BY DEF IInv, TypeOK, Numbers
<1> HIDE DEF LoopReads
<1>3. Numbered(c) /\ OnePlace(c) /\ Forwarded(c) \in Nat
    BY PipelineBound DEF IInv
<1>4. \A d \in Clients : Forwarded(d)' = Forwarded(d)
    BY <1>1 DEF Forwarded
<1>5. \A v \in Workers : ~HeldBy(v, c)
    <2> SUFFICES ASSUME NEW v \in Workers, HeldBy(v, c) PROVE FALSE
        OBVIOUS
    <2>1. v \in owner[c]
        BY <1>3 DEF Numbered
    <2>2. v = w
        BY <1>1, <1>3, <2>1 DEF OnePlace
    <2> QED BY <1>1, <2>2 DEF HeldBy
<1>6. loop'[w] # Nothing /\ HeldBy(w, c)' /\ loop'[w].n = read'[c]
    <2>1. c # None
        BY GatewayAssumption
    <2> QED BY <1>2, <2>1 DEF HeldBy, Nothing
<1>7. \A v \in Workers \ {w} : ~HeldBy(v, c)'
    BY <1>2, <1>5 DEF HeldBy
<1>8. read[c] = Forwarded(c) + Len(ch[c])
    BY <1>3, <1>5 DEF Numbered
<1>9. Numbered(c)'
    <2>1. Total(c)' = Total(c) /\ Total(c) \in Nat
        BY TotalType DEF Total, Numbers
    <2>2. read'[c] = Forwarded(c)' + Len(ch'[c]) + 1 /\ read'[c] <= Total(c)
        BY <1>1, <1>2, <1>3, <1>4, <1>8, <2>1
    <2>3. \A v \in Workers : HeldBy(v, c)' => v = w
        BY <1>7
    <2> QED BY <1>1, <1>3, <1>4, <1>6, <2>1, <2>2, <2>3 DEF Numbered
<1>10. ASSUME NEW d \in Clients, d # c PROVE Numbered(d)'
    <2>1. \A v \in Workers : HeldBy(v, d)' <=> HeldBy(v, d)
        BY <1>1, <1>2, <1>6, <1>10 DEF HeldBy
    <2>2. \A v \in Workers : HeldBy(v, d) => loop'[v] = loop[v]
        BY <1>1, <1>2 DEF HeldBy
    <2>3. read'[d] = read[d]
        BY <1>2, <1>10
    <2> QED BY <1>1, <2>1, <2>2, <2>3, NumberedFrame DEF IInv
<1>11. ASSUME NEW d \in Clients PROVE OnePlace(d)'
    <2>1. OnePlace(d) /\ (NotQueued(d)' <=> NotQueued(d))
        BY <1>1 DEF IInv, NotQueued
    <2>2. owner[d] = {} => read'[d] = read[d]
        BY <1>1, <1>2
    <2> QED BY <1>1, <2>1, <2>2 DEF OnePlace
<1>12. ASSUME NEW d \in Clients PROVE HandlerOrder(d)'
    BY <1>1 DEF IInv, HandlerOrder, Total
<1> QED BY <1>1, <1>9, <1>10, <1>11, <1>12 DEF IInv, WorkerOrder

\* The receive loop puts what it holds into the channel of the request.
LEMMA LoopDeliversInv ==
    ASSUME IInv, TypeOK', NEW w \in Workers, LoopDelivers(w)
    PROVE  IInv'
<1> USE DEF LoopDelivers, clientVars, handlerVars, poolVars, workerVars, fwdVars
<1>1. /\ cur' = cur /\ response' = response /\ read' = read /\ fwdMsg' = fwdMsg
      /\ fwd' = fwd /\ owner' = owner /\ queue' = queue /\ job' = job
      /\ worker' = worker /\ handler' = handler /\ respClosed' = respClosed
      /\ panicked' = panicked /\ loop[w] # Nothing
    OBVIOUS
<1>2. PICK c \in Clients, n \in Numbers : HeldBy(w, c) /\ loop[w].c = c /\ loop[w].n = n
    BY <1>1, HeldType DEF IInv, HeldBy
<1>3. /\ Len(ch[c]) < 1
      /\ ch' = [ch EXCEPT ![c] = Append(@, n)]
      /\ loop' = [loop EXCEPT ![w] = Nothing]
    BY <1>2 DEF ChanCap
<1> HIDE DEF LoopDelivers
<1>4. n = read[c]
    BY <1>2 DEF IInv, Numbered
<1>5. /\ ch[c] \in Seq(Numbers) /\ ch'[c] = Append(ch[c], n) /\ loop'[w] = Nothing
      /\ \A v \in Workers \ {w} : loop'[v] = loop[v]
      /\ \A d \in Clients \ {c} : ch'[d] = ch[d]
      /\ read[c] \in Nat
    BY <1>2, <1>3 DEF IInv, TypeOK, Numbers
<1>6. Len(ch[c]) = 0 /\ Len(ch'[c]) = 1 /\ ch'[c][1] = n
    <2>1. Len(ch[c]) \in Nat
        BY <1>5
    <2>2. Len(ch[c]) = 0
        BY <1>3, <2>1
    <2>3. Len(ch'[c]) = Len(ch[c]) + 1 /\ ch'[c][Len(ch[c]) + 1] = n
        BY <1>2, <1>5, AppendProperties
    <2> QED BY <2>2, <2>3
<1>7. Numbered(c) /\ OnePlace(c) /\ Forwarded(c) \in Nat
    BY <1>2, PipelineBound DEF IInv
<1>8. \A d \in Clients : Forwarded(d)' = Forwarded(d)
    BY <1>1 DEF Forwarded
<1>9. n = Forwarded(c) + 1 /\ w \in owner[c]
    BY <1>2, <1>4, <1>6, <1>7 DEF Numbered
<1>10. \A v \in Workers : ~HeldBy(v, c)'
    <2> SUFFICES ASSUME NEW v \in Workers, HeldBy(v, c)' PROVE FALSE
        OBVIOUS
    <2>1. v # w /\ loop'[v] = loop[v]
        BY <1>5 DEF HeldBy
    <2>2. HeldBy(v, c)
        BY <2>1 DEF HeldBy
    <2>3. v \in owner[c]
        BY <1>7, <2>2 DEF Numbered
    <2> QED BY <1>7, <1>9, <2>1, <2>3 DEF OnePlace
<1>11. Numbered(c)'
    <2>1. Total(c)' = Total(c)
        BY DEF Total
    <2>2. \A i \in 1..Len(ch'[c]) : ch'[c][i] = Forwarded(c)' + i
        BY <1>2, <1>6, <1>8, <1>9
    <2>3. read'[c] = Forwarded(c)' + Len(ch'[c])
        BY <1>1, <1>2, <1>4, <1>6, <1>8, <1>9
    <2>4. Len(ch'[c]) <= 1
        BY <1>6
    <2> QED BY <1>1, <1>7, <1>10, <2>1, <2>2, <2>3, <2>4 DEF Numbered
<1>12. ASSUME NEW d \in Clients, d # c PROVE Numbered(d)'
    <2>1. \A v \in Workers : HeldBy(v, d)' <=> HeldBy(v, d)
        BY <1>1, <1>2, <1>5, <1>12 DEF HeldBy
    <2>2. \A v \in Workers : HeldBy(v, d) => loop'[v] = loop[v]
        BY <1>2, <1>5, <1>12 DEF HeldBy
    <2>3. ch'[d] = ch[d]
        BY <1>5, <1>12
    <2> QED BY <1>1, <2>1, <2>2, <2>3, NumberedFrame DEF IInv
<1>13. ASSUME NEW d \in Clients PROVE OnePlace(d)'
    <2>1. OnePlace(d) /\ (NotQueued(d)' <=> NotQueued(d))
        BY <1>1 DEF IInv, NotQueued
    <2> QED BY <1>1, <2>1 DEF OnePlace
<1>14. ASSUME NEW d \in Clients PROVE HandlerOrder(d)'
    BY <1>1 DEF IInv, HandlerOrder, Total
<1> QED BY <1>1, <1>11, <1>12, <1>13, <1>14 DEF IInv, WorkerOrder

\* Every step keeps the invariant; a panic cannot happen.
LEMMA StepInv == IInv /\ [Next]_vars => IInv'
<1> SUFFICES ASSUME IInv, [Next]_vars PROVE IInv'
    OBVIOUS
<1>1. TypeOK'
    BY StepType
<1>2. CASE UNCHANGED vars
    BY <1>2 DEF vars, clientVars, handlerVars, poolVars, workerVars, connVars,
                fwdVars, IInv, TypeOK, WorkerOrder, Numbered, OnePlace,
                HandlerOrder, Forwarded, HeldBy, NotQueued, Total
<1>3. ASSUME NEW c \in Clients, HandlerStep(c) PROVE IInv'
    BY <1>1, <1>3, QuietInv, HandlerQueuesInv, HandlerTakesInv DEF HandlerStep
<1>4. ASSUME NEW c \in Clients, ForwarderStep(c) PROVE IInv'
    <2>1. ~ForwarderPanics(c)
        BY PipelineBound DEF ForwarderPanics
    <2> QED BY <1>1, <1>4, <2>1, QuietInv, ForwarderTakesInv, ForwarderSendsInv
            DEF ForwarderStep
<1>5. ASSUME NEW c \in Clients, ClientLeaves(c) PROVE IInv'
    BY <1>1, <1>5, QuietInv
<1>6. ASSUME NEW w \in Workers, WorkerStep(w) PROVE IInv'
    BY <1>1, <1>6, QuietInv, WorkerTakesInv, WorkerRequestsInv, WorkerSpawnsInv
    DEF WorkerStep
<1>7. ASSUME NEW w \in Workers, LoopStep(w) PROVE IInv'
    BY <1>1, <1>7, LoopReadsInv, LoopDeliversInv DEF LoopStep
<1>8. ASSUME NEW w \in Workers, ConnectionLost(w) PROVE IInv'
    BY <1>1, <1>8, QuietInv
<1> QED BY <1>2, <1>3, <1>4, <1>5, <1>6, <1>7, <1>8 DEF Next

\* In every reachable state the messages of an exchange are numbered without
\* a gap along the pipeline of api.go, and its request is in one place.
THEOREM Invariance == Spec => []IInv
<1>1. Init => IInv
    BY InitInv
<1>2. IInv /\ [Next]_vars => IInv'
    BY StepInv
<1> QED BY <1>1, <1>2, PTL DEF Spec

\* Every variable of the gateway keeps its type.
THEOREM TypeCorrect == Spec => []TypeOK
<1>1. IInv => TypeOK
    BY DEF IInv
<1> QED BY <1>1, Invariance, PTL

\* handleClient's close(reqPool.response) never meets a send of the forwarder.
THEOREM ClosedIsFinal == Spec => []NoSendOnClosed
<1>1. IInv => NoSendOnClosed
    BY DEF IInv, NoSendOnClosed
<1> QED BY <1>1, Invariance, PTL

\* A client that stops reading never blocks the receive loop it shares, for
\* all clients, connections and capacities with StreamLen + 1 <= RespCap + 3.
THEOREM ClientsKeptApart == Spec => []LoopNotWedged
<1>1. ASSUME IInv PROVE LoopNotWedged
    <2> SUFFICES ASSUME NEW w \in Workers, NEW c \in Clients,
                        HeldBy(w, c), Len(ch[c]) = ChanCap, fwd[c] = "sending",
                        Len(response[c]) = RespCap
                 PROVE  handler[c] = "ranging"
        BY DEF LoopNotWedged, HeldBy
    <2>1. Numbered(c) /\ OnePlace(c) /\ HandlerOrder(c) /\ cur[c] \in Nat
        BY <1>1 DEF IInv, TypeOK, Numbers
    <2>2. w \in owner[c] /\ read[c] = cur[c] + RespCap + 3
        BY <2>1, GatewayAssumption DEF Numbered, Forwarded, ChanCap
    <2>3. cur[c] = 0
        <3>1. read[c] <= StreamLen + 1
            BY <2>1, TotalType, <1>1, GatewayAssumption
            DEF Numbered, IInv, TypeOK, Numbers
        <3> QED BY <2>1, <2>2, <3>1, GatewayAssumption
    <2>4. ~NotQueued(c)
        BY <2>1, <2>2 DEF OnePlace
    <2>5. handler[c] \in {"reading", "queueing", "ranging", "sending", "served", "returned"}
        BY <1>1 DEF IInv, TypeOK
    <2> QED BY <2>1, <2>3, <2>4, <2>5 DEF HandlerOrder, NotQueued
<1>2. IInv => LoopNotWedged
    BY <1>1
<1> QED BY <1>2, Invariance, PTL
-----------------------------------------------------------------------------
(* The gateway implements StreamDelivery.                                   *)

\* A client that is there was sent what its handler has taken, all but the
\* message in its hand; a handler returns on it only before the first.
UpToDate(c) ==
    client[c] = "there" =>
        /\ Len(received[c]) = IF handler[c] = "sending" THEN cur[c] - 1 ELSE cur[c]
        /\ handler[c] = "returned" => received[c] = <<>>

\* The steps that touch the client, its handler or what it was sent.
ClientStep(c) ==
    \/ ClientLeaves(c) \/ HandlerReceives(c) \/ HandlerRefuses(c) \/ HandlerQueues(c)
    \/ HandlerTakes(c) \/ HandlerSends(c) \/ HandlerGivesUp(c) \/ HandlerDone(c)

LEMMA ClientSteps ==
    ASSUME Next
    PROVE  \/ UNCHANGED <<client, received, handler, cur>>
           \/ \E c \in Clients : ClientStep(c)
<1>1. ASSUME NEW c \in Clients, ForwarderStep(c)
      PROVE  UNCHANGED <<client, received, handler, cur>>
    BY <1>1 DEF ForwarderStep, ForwarderTakes, ForwarderSends, ForwarderPanics,
                ForwarderEnds, clientVars, handlerVars
<1>2. ASSUME NEW w \in Workers, WorkerStep(w) \/ ConnectionLost(w)
      PROVE  UNCHANGED <<client, received, handler, cur>>
    BY <1>2 DEF WorkerStep, WorkerTakes, WorkerRequests, WorkerReturns, WorkerSpawns,
                ConnectionLost, clientVars, handlerVars
<1>3. ASSUME NEW w \in Workers, LoopStep(w)
      PROVE  UNCHANGED <<client, received, handler, cur>>
    BY <1>3 DEF LoopStep, LoopReads, LoopDelivers, clientVars, handlerVars
<1> QED BY <1>1, <1>2, <1>3 DEF Next, HandlerStep, ClientStep

\* What such a step does to c, and to the others.
LEMMA ClientFlow ==
    ASSUME IInv, NEW c \in Clients, ClientStep(c)
    PROVE  /\ \A d \in Clients \ {c} : /\ client'[d] = client[d] /\ received'[d] = received[d]
                                       /\ handler'[d] = handler[d] /\ cur'[d] = cur[d]
           /\ \/ /\ client[c] = "there" /\ client'[c] = "gone"
                 /\ UNCHANGED <<received, handler, cur>>
              \/ /\ handler[c] \in {"reading", "queueing", "ranging"}
                 /\ handler'[c] \in {"queueing", "ranging", "served"}
                 /\ UNCHANGED <<client, received, cur>>
              \/ /\ handler[c] = "reading" /\ handler'[c] = "returned"
                 /\ UNCHANGED <<client, received, cur>>
              \/ /\ handler[c] = "ranging" /\ handler'[c] = "sending"
                 /\ cur'[c] = cur[c] + 1
                 /\ UNCHANGED <<client, received>>
              \/ /\ handler[c] = "sending" /\ handler'[c] = "ranging"
                 /\ received' = IF client[c] = "there"
                                THEN [received EXCEPT ![c] = Append(@, cur[c])]
                                ELSE received
                 /\ UNCHANGED <<client, cur>>
              \/ /\ client[c] = "gone" /\ UNCHANGED <<client, received, cur>>
<1>t. /\ DOMAIN client = Clients /\ DOMAIN received = Clients
      /\ DOMAIN handler = Clients /\ DOMAIN cur = Clients
      /\ response[c] \in Seq(Numbers)
    BY DEF IInv, TypeOK
<1> USE <1>t DEF clientVars
<1>1. CASE HandlerTakes(c)
    <2>1. response[c] # <<>> /\ cur'[c] = Head(response[c])
        BY <1>1 DEF HandlerTakes
    <2>2. Head(response[c]) = response[c][1] /\ 1 \in 1..Len(response[c])
        BY <2>1, EmptySeq, LenProperties, HeadTailProperties
    <2>3. response[c][1] = cur[c] + 1
        BY <2>2 DEF IInv, Numbered
    <2> QED BY <1>1, <2>1, <2>2, <2>3 DEF HandlerTakes
<1> HIDE DEF IInv
<1>2. CASE ClientLeaves(c) BY <1>2 DEF ClientLeaves, handlerVars
<1>3. CASE HandlerReceives(c) BY <1>3 DEF HandlerReceives
<1>4. CASE HandlerRefuses(c) BY <1>4 DEF HandlerRefuses
<1>5. CASE HandlerQueues(c) BY <1>5 DEF HandlerQueues
<1>6. CASE HandlerSends(c) BY <1>6 DEF HandlerSends
<1>7. CASE HandlerGivesUp(c) BY <1>7 DEF HandlerGivesUp
<1>8. CASE HandlerDone(c) BY <1>8 DEF HandlerDone
<1> QED BY <1>1, <1>2, <1>3, <1>4, <1>5, <1>6, <1>7, <1>8 DEF ClientStep

LEMMA UpToDateStep ==
    ASSUME IInv, \A c \in Clients : UpToDate(c), [Next]_vars
    PROVE  \A c \in Clients : UpToDate(c)'
<1>1. CASE UNCHANGED <<client, received, handler, cur>>
    BY <1>1 DEF UpToDate
<1>2. ASSUME NEW c \in Clients, ClientStep(c), NEW d \in Clients
      PROVE  UpToDate(d)'
    <2>1. CASE d # c
        BY <1>2, <2>1, ClientFlow DEF UpToDate
    <2>2. CASE d = c
        <3>1. /\ received[c] \in Seq(Numbers) /\ Len(received[c]) \in Nat
              /\ cur[c] \in Nat /\ DOMAIN received = Clients
              /\ handler[c] = "sending" => cur[c] \in Numbers
              /\ handler[c] = "reading" => cur[c] = 0
              /\ client[c] \in {"there", "gone"}
            BY DEF IInv, TypeOK, HandlerOrder, Numbers
        <3>2. received[c] = <<>> <=> Len(received[c]) = 0
            BY <3>1, EmptySeq
        <3>3. handler[c] = "sending" => Len(Append(received[c], cur[c])) = Len(received[c]) + 1
            BY <3>1, AppendProperties
        <3> HIDE DEF IInv
        <3> QED BY <1>2, <2>2, <3>1, <3>2, <3>3, ClientFlow DEF UpToDate
    <2> QED BY <2>1, <2>2
<1>3. UNCHANGED vars => UNCHANGED <<client, received, handler, cur>>
    BY DEF vars, clientVars, handlerVars
<1> QED BY <1>1, <1>2, <1>3, ClientSteps

\* The step of StreamDelivery that a step of the gateway is.
LEMMA DeliveryStep ==
    ASSUME IInv, \A c \in Clients : UpToDate(c), [Next]_vars
    PROVE  [Delivery!Next]_(Delivery!deliveryVars)
<1> DEFINE session == [c \in Clients |->
        IF client[c] = "gone" THEN "left"
        ELSE IF handler[c] = "returned" THEN "dropped" ELSE "open"]
<1>1. CASE UNCHANGED <<client, received, handler, cur>>
    BY <1>1 DEF Delivery!deliveryVars
<1>2. ASSUME NEW c \in Clients, ClientStep(c)
      PROVE  [Delivery!Next]_(Delivery!deliveryVars)
    <2>1. \A d \in Clients \ {c} : session'[d] = session[d]
        BY <1>2, ClientFlow
    <2>t. /\ received[c] \in Seq(Numbers) /\ Len(received[c]) \in Nat
          /\ cur[c] \in Nat /\ cur[c] <= Total(c) /\ Total(c) \in Nat
          /\ client[c] \in {"there", "gone"}
          /\ handler[c] = "reading" => cur[c] = 0
        <3>1. cur[c] \in Nat /\ Len(response[c]) \in Nat /\ read[c] \in Nat
            BY DEF IInv, TypeOK, Numbers
        <3>2. cur[c] <= Forwarded(c)
            BY <3>1 DEF Forwarded
        <3>3. Forwarded(c) \in Nat /\ Forwarded(c) <= read[c] /\ read[c] <= Total(c)
            BY PipelineBound
        <3>4. Total(c) \in Nat
            BY TotalType DEF Numbers
        <3>5. cur[c] <= Total(c)
            BY <3>1, <3>2, <3>3, <3>4
        <3> QED BY <3>1, <3>4, <3>5 DEF IInv, TypeOK, HandlerOrder
    <2>2. CASE received' = received /\ session'[c] = session[c]
        <3>1. session' = session
            BY <2>1, <2>2
        <3> QED BY <2>2, <3>1 DEF Delivery!deliveryVars
    <2>3. CASE client[c] = "there" /\ client'[c] = "gone" /\ received' = received
        <3>1. session[c] # "left" /\ session' = [session EXCEPT ![c] = "left"]
            BY <2>1, <2>3
        <3> HIDE DEF session
        <3>2. Delivery!Leave(c)
            BY <2>3, <3>1 DEF Delivery!Leave, session
        <3> QED BY <3>2 DEF Delivery!Next
    <2>4. CASE /\ client[c] = "there" /\ handler[c] = "reading"
               /\ handler'[c] = "returned" /\ UNCHANGED <<client, received>>
        <3>1. session[c] = "open" /\ session' = [session EXCEPT ![c] = "dropped"]
            BY <2>1, <2>4
        <3>2. received[c] = <<>>
            BY <2>4, <2>t, EmptySeq DEF UpToDate
        <3>3. Delivery!Drop(c)
            BY <2>4, <3>1, <3>2 DEF Delivery!Drop
        <3> QED BY <3>3 DEF Delivery!Next
    <2>5. CASE /\ client[c] = "there" /\ handler[c] = "sending" /\ handler'[c] = "ranging"
               /\ received' = [received EXCEPT ![c] = Append(@, cur[c])]
               /\ UNCHANGED client
        <3>1. session[c] = "open" /\ session' = session
            BY <2>1, <2>5
        <3>2. cur[c] = Len(received[c]) + 1 /\ Len(received[c]) < Total(c)
            BY <2>5, <2>t DEF UpToDate
        <3>3. received' = [received EXCEPT ![c] = Append(@, Len(@) + 1)]
            BY <2>5, <3>2
        <3>4. Delivery!DeliverNext(c)
            BY <3>1, <3>2, <3>3 DEF Delivery!DeliverNext
        <3> QED BY <3>4 DEF Delivery!Next
    <2> QED BY <1>2, <2>t, <2>2, <2>3, <2>4, <2>5, ClientFlow
<1>3. UNCHANGED vars => UNCHANGED <<client, received, handler, cur>>
    BY DEF vars, clientVars, handlerVars
<1> QED BY <1>1, <1>2, <1>3, ClientSteps

\* Whatever the clients, the connections and the load balancer do, a client is
\* sent the messages of its answer in order, each once and none after the last,
\* and is given up by the gateway only before the first.
THEOREM StreamsDelivered == Spec => DeliversStreams
<1> DEFINE Inv == IInv /\ \A c \in Clients : UpToDate(c)
<1>1. Init => Inv
    <2>1. Init => \A c \in Clients : UpToDate(c)
        BY DEF Init, UpToDate
    <2> QED BY <2>1, InitInv
<1>2. Inv /\ [Next]_vars => Inv'
    BY StepInv, UpToDateStep
<1>3. Init => Delivery!Init
    BY DEF Init, Delivery!Init
<1>4. Inv /\ [Next]_vars => [Delivery!Next]_(Delivery!deliveryVars)
    BY DeliveryStep
<1> HIDE DEF Inv
<1> QED BY <1>1, <1>2, <1>3, <1>4, PTL DEF Spec, DeliversStreams, Delivery!Spec
=============================================================================
