----------------------------- MODULE ApiGateway -----------------------------
(***************************************************************************)
(* internal/api/api.go: the goroutines between a client and one load       *)
(* balancer.  A handleClient goroutine per client puts its request into    *)
(* the channel requestChannelMap[lb.ID]; one messageWorker per connection  *)
(* takes it out, sends it with SendRequestChan and starts a forwarder,     *)
(* which copies the answer from the channel of that request to the         *)
(* response channel of the exchange, where handleClient takes it.          *)
(*                                                                         *)
(*   wire -> ReceiveLoopChan -> ch -> forwarder -> response -> handler      *)
(*                                                                         *)
(* All requests of a connection share its receive loop, so a client that   *)
(* stops reading could stop every other one.                               *)
(*                                                                         *)
(* A client issues one request: a further one gets a new exchange and      *)
(* shares nothing with the earlier one.  The load balancer answers its     *)
(* requests in any interleaving, in order within one request, so a message *)
(* is produced when the receive loop reads it: what is still in TCP's      *)
(* buffers cannot be told from what is not sent yet.                       *)
(***************************************************************************)
EXTENDS Integers, Sequences, FiniteSets

CONSTANTS
    Pings,      \* clients whose answer is one message: PING, or an error
    Idles,      \* clients that ask for IDLE: StreamLen messages and a last one
    Workers,    \* connections to the load balancer, one messageWorker each
    None,       \* no client
    StreamLen,
    QueueCap,   \* CONNECTION_NUM, the capacity of requestChannelMap[lb.ID]
    RespCap,    \* capacity of MessageExchange.response
    MaxBreaks,  \* bound: how many connections to the load balancer are lost
    MayRefuse   \* TRUE when findLbForRequest may find no load balancer

Clients == Pings \cup Idles

\* IDLE sends ten messages and a last one, the response channel holds eight:
\* together with the message the forwarder holds, the one in the channel of
\* the request and the one the handler has taken they are exactly eleven.
ASSUME GatewayAssumption ==
    /\ Pings \cap Idles = {}
    /\ None \notin Clients
    /\ StreamLen \in Nat
    /\ QueueCap \in Nat \ {0}
    /\ RespCap \in Nat \ {0}
    /\ StreamLen + 1 <= RespCap + 3
    /\ MaxBreaks \in Nat
    /\ MayRefuse \in BOOLEAN

VARIABLES
    client,     \* client[c]: "there", or "gone" without a word
    received,   \* received[c]: what the client was sent
    handler,    \* handler[c]: position of handleClient
    cur,        \* cur[c]: the message handleClient took last, 0 for none
    response,   \* response[c]: the buffer of MessageExchange.response
    respClosed, \* respClosed[c]: close(reqPool.response) was executed
    queue,      \* the buffer of requestChannelMap[lb.ID]
    worker,     \* worker[w]: position of messageWorker
    job,        \* job[w]: the client whose request the worker holds
    up,         \* up[w]: the connection to the load balancer is up
    owner,      \* owner[c]: the connections that carry the request (one or none)
    read,       \* read[c]: messages of the answer the receive loop has read
    loop,       \* loop[w]: what the receive loop has in hand, [c, n]
    ch,         \* ch[c]: the buffer of SendRequestChan's channel
    chClosed,   \* chClosed[c]: the receive loop closed that channel
    fwd,        \* fwd[c]: position of the forwarder
    fwdMsg,     \* fwdMsg[c]: the message it holds
    panicked    \* a goroutine sent on a closed channel

clientVars  == <<client, received>>
handlerVars == <<handler, cur>>
poolVars    == <<response, respClosed>>
workerVars  == <<queue, worker, job, owner>>
connVars    == <<up, read, loop, ch, chClosed>>
fwdVars     == <<fwd, fwdMsg>>
vars == <<clientVars, handlerVars, poolVars, workerVars, connVars, fwdVars, panicked>>

-----------------------------------------------------------------------------
\* Mutant of Total: the loop of IDLE runs once more.
TotalOffByOne(c) == IF c \in Pings THEN 1 ELSE StreamLen + 2

\* The number of messages that answer the request of c.
Total(c) == IF c \in Pings THEN 1 ELSE StreamLen + 1

\* Message.IsStream is FALSE on the last message of an answer only.
IsLast(c, n) == n = Total(c)

Nothing == [c |-> None, n |-> 0]

\* make(chan Message, 1) of SendRequestChan
ChanCap == 1

Init ==
    /\ client = [c \in Clients |-> "there"]
    /\ received = [c \in Clients |-> <<>>]
    /\ handler = [c \in Clients |-> "reading"]
    /\ cur = [c \in Clients |-> 0]
    /\ response = [c \in Clients |-> <<>>]
    /\ respClosed = [c \in Clients |-> FALSE]
    /\ queue = <<>>
    /\ worker = [w \in Workers |-> "taking"]
    /\ job = [w \in Workers |-> None]
    /\ up = [w \in Workers |-> TRUE]
    /\ owner = [c \in Clients |-> {}]
    /\ read = [c \in Clients |-> 0]
    /\ loop = [w \in Workers |-> Nothing]
    /\ ch = [c \in Clients |-> <<>>]
    /\ chClosed = [c \in Clients |-> FALSE]
    /\ fwd = [c \in Clients |-> "none"]
    /\ fwdMsg = [c \in Clients |-> 0]
    /\ panicked = FALSE

-----------------------------------------------------------------------------
(* Mutants: the bugs the properties below are known to catch.               *)

\* handleClient closes the response channel on its error return too.
HandlerGivesUpClosing(c) ==
    /\ handler[c] = "sending"
    /\ client[c] = "gone"
    /\ handler' = [handler EXCEPT ![c] = "returned"]
    /\ respClosed' = [respClosed EXCEPT ![c] = TRUE]
    /\ UNCHANGED <<clientVars, cur, response, workerVars, connVars, fwdVars, panicked>>

\* The forwarder polls its channel and ends when it finds it empty.
ForwarderEndsEarly(c) ==
    /\ fwd[c] = "ranging"
    /\ ch[c] = <<>>
    /\ fwd' = [fwd EXCEPT ![c] = "ended"]
    /\ UNCHANGED <<clientVars, handlerVars, poolVars, workerVars, connVars, fwdMsg, panicked>>

\* A select with a default case: the loop drops what does not fit.
LoopDeliversOrDrops(w) ==
    /\ loop[w] # Nothing
    /\ LET c == loop[w].c  n == loop[w].n
       IN /\ ch' = IF Len(ch[c]) < ChanCap
                   THEN [ch EXCEPT ![c] = Append(@, n)] ELSE ch
          /\ chClosed' = [chClosed EXCEPT ![c] = IsLast(c, n)]
    /\ loop' = [loop EXCEPT ![w] = Nothing]
    /\ UNCHANGED <<clientVars, handlerVars, poolVars, workerVars, up, read, fwdVars, panicked>>

-----------------------------------------------------------------------------
(* The client.                                                             *)

\* The process ends; TCP tells handleClient only when it writes or reads.
ClientLeaves(c) ==
    /\ client[c] = "there"
    /\ client' = [client EXCEPT ![c] = "gone"]
    /\ UNCHANGED <<received, handlerVars, poolVars, workerVars, connVars, fwdVars, panicked>>

-----------------------------------------------------------------------------
(* handleClient                                                            *)

\* Receive returns the client's request and findLbForRequest a load balancer.
HandlerReceives(c) ==
    /\ handler[c] = "reading"
    /\ client[c] = "there"
    /\ handler' = [handler EXCEPT ![c] = "queueing"]
    /\ UNCHANGED <<clientVars, cur, poolVars, workerVars, connVars, fwdVars, panicked>>

\* findLbForRequest returns nil, or Receive fails: the connection is closed.
HandlerRefuses(c) ==
    /\ handler[c] = "reading"
    /\ MayRefuse \/ client[c] = "gone"
    /\ handler' = [handler EXCEPT ![c] = "returned"]
    /\ UNCHANGED <<clientVars, cur, poolVars, workerVars, connVars, fwdVars, panicked>>

\* api.requestChannelMap[lb.ID] <- reqPool
HandlerQueues(c) ==
    /\ handler[c] = "queueing"
    /\ Len(queue) < QueueCap
    /\ queue' = Append(queue, c)
    /\ handler' = [handler EXCEPT ![c] = "ranging"]
    /\ UNCHANGED <<clientVars, cur, poolVars, worker, job, owner, connVars, fwdVars, panicked>>

\* for response := range reqPool.response
HandlerTakes(c) ==
    /\ handler[c] = "ranging"
    /\ response[c] # <<>>
    /\ cur' = [cur EXCEPT ![c] = Head(response[c])]
    /\ response' = [response EXCEPT ![c] = Tail(@)]
    /\ handler' = [handler EXCEPT ![c] = "sending"]
    /\ UNCHANGED <<clientVars, respClosed, workerVars, connVars, fwdVars, panicked>>

\* protocol.Send succeeds; to a client that is gone it may do so too.  The
\* last message closes the response channel.
HandlerSends(c) ==
    /\ handler[c] = "sending"
    /\ received' = IF client[c] = "there"
                   THEN [received EXCEPT ![c] = Append(@, cur[c])] ELSE received
    /\ respClosed' = [respClosed EXCEPT ![c] = @ \/ IsLast(c, cur[c])]
    /\ handler' = [handler EXCEPT ![c] = "ranging"]
    /\ UNCHANGED <<client, cur, response, workerVars, connVars, fwdVars, panicked>>

\* protocol.Send fails: handleClient returns and nobody ranges any more.
HandlerGivesUp(c) ==
    /\ handler[c] = "sending"
    /\ client[c] = "gone"
    /\ handler' = [handler EXCEPT ![c] = "returned"]
    /\ UNCHANGED <<clientVars, cur, poolVars, workerVars, connVars, fwdVars, panicked>>

\* The range ends: handleClient waits for the next request.
HandlerDone(c) ==
    /\ handler[c] = "ranging"
    /\ respClosed[c]
    /\ response[c] = <<>>
    /\ handler' = [handler EXCEPT ![c] = "served"]
    /\ UNCHANGED <<clientVars, cur, poolVars, workerVars, connVars, fwdVars, panicked>>

-----------------------------------------------------------------------------
(* messageWorker and the forwarder it starts.                              *)

WorkerTakes(w) ==
    /\ worker[w] = "taking"
    /\ queue # <<>>
    /\ queue' = Tail(queue)
    /\ job' = [job EXCEPT ![w] = Head(queue)]
    /\ worker' = [worker EXCEPT ![w] = "requesting"]
    /\ UNCHANGED <<clientVars, handlerVars, poolVars, owner, connVars, fwdVars, panicked>>

\* SendRequestChan registers the request and sends it.
WorkerRequests(w) ==
    /\ worker[w] = "requesting"
    /\ up[w]
    /\ owner' = [owner EXCEPT ![job[w]] = {w}]
    /\ worker' = [worker EXCEPT ![w] = "spawning"]
    /\ UNCHANGED <<clientVars, handlerVars, poolVars, queue, job, connVars, fwdVars, panicked>>

\* SendRequestChan fails: messageWorker returns and drops the exchange.
WorkerReturns(w) ==
    /\ worker[w] = "requesting"
    /\ ~up[w]
    /\ worker' = [worker EXCEPT ![w] = "returned"]
    /\ UNCHANGED <<clientVars, handlerVars, poolVars, queue, job, owner, connVars, fwdVars, panicked>>

\* go func(msgEx, respChan)
WorkerSpawns(w) ==
    /\ worker[w] = "spawning"
    /\ fwd' = [fwd EXCEPT ![job[w]] = "ranging"]
    /\ job' = [job EXCEPT ![w] = None]
    /\ worker' = [worker EXCEPT ![w] = "taking"]
    /\ UNCHANGED <<clientVars, handlerVars, poolVars, queue, owner, connVars, fwdMsg, panicked>>

ForwarderTakes(c) ==
    /\ fwd[c] = "ranging"
    /\ ch[c] # <<>>
    /\ fwdMsg' = [fwdMsg EXCEPT ![c] = Head(ch[c])]
    /\ ch' = [ch EXCEPT ![c] = Tail(@)]
    /\ fwd' = [fwd EXCEPT ![c] = "sending"]
    /\ UNCHANGED <<clientVars, handlerVars, poolVars, workerVars, up, read, loop, chClosed, panicked>>

\* msgEx.response <- resp blocks while the buffer is full.
ForwarderSends(c) ==
    /\ fwd[c] = "sending"
    /\ ~respClosed[c]
    /\ Len(response[c]) < RespCap
    /\ response' = [response EXCEPT ![c] = Append(@, fwdMsg[c])]
    /\ fwd' = [fwd EXCEPT ![c] = "ranging"]
    /\ UNCHANGED <<clientVars, handlerVars, respClosed, workerVars, connVars, fwdMsg, panicked>>

ForwarderPanics(c) ==
    /\ fwd[c] = "sending"
    /\ respClosed[c]
    /\ panicked' = TRUE
    /\ UNCHANGED <<clientVars, handlerVars, poolVars, workerVars, connVars, fwdVars>>

ForwarderEnds(c) ==
    /\ fwd[c] = "ranging"
    /\ ch[c] = <<>>
    /\ chClosed[c]
    /\ fwd' = [fwd EXCEPT ![c] = "ended"]
    /\ UNCHANGED <<clientVars, handlerVars, poolVars, workerVars, connVars, fwdMsg, panicked>>

-----------------------------------------------------------------------------
(* ReceiveLoopChan of a connection (module Connection has its details).    *)

\* The load balancer answers the requests it was sent, interleaved as it likes.
LoopReads(w, c) ==
    /\ up[w]
    /\ loop[w] = Nothing
    /\ w \in owner[c]
    /\ read[c] < Total(c)
    /\ loop' = [loop EXCEPT ![w] = [c |-> c, n |-> read[c] + 1]]
    /\ read' = [read EXCEPT ![c] = @ + 1]
    /\ UNCHANGED <<clientVars, handlerVars, poolVars, workerVars, up, ch, chClosed, fwdVars, panicked>>

\* ch <- msg; after the last message the channel is closed.
LoopDelivers(w) ==
    /\ loop[w] # Nothing
    /\ LET c == loop[w].c  n == loop[w].n
       IN /\ Len(ch[c]) < ChanCap
          /\ ch' = [ch EXCEPT ![c] = Append(@, n)]
          /\ chClosed' = [chClosed EXCEPT ![c] = IsLast(c, n)]
    /\ loop' = [loop EXCEPT ![w] = Nothing]
    /\ UNCHANGED <<clientVars, handlerVars, poolVars, workerVars, up, read, fwdVars, panicked>>

\* The connection is lost and the load balancer does not come back within the
\* ten seconds of TryToConnect: the loop returns.
ConnectionLost(w) ==
    /\ up[w]
    /\ Cardinality({v \in Workers : ~up[v]}) < MaxBreaks
    /\ up' = [up EXCEPT ![w] = FALSE]
    /\ UNCHANGED <<clientVars, handlerVars, poolVars, workerVars, read, loop, ch, chClosed, fwdVars, panicked>>

-----------------------------------------------------------------------------
HandlerStep(c) ==
    \/ HandlerReceives(c) \/ HandlerRefuses(c) \/ HandlerQueues(c)
    \/ HandlerTakes(c) \/ HandlerSends(c) \/ HandlerGivesUp(c) \/ HandlerDone(c)

WorkerStep(w) ==
    WorkerTakes(w) \/ WorkerRequests(w) \/ WorkerReturns(w) \/ WorkerSpawns(w)

ForwarderStep(c) ==
    ForwarderTakes(c) \/ ForwarderSends(c) \/ ForwarderPanics(c) \/ ForwarderEnds(c)

LoopStep(w) == LoopDelivers(w) \/ \E c \in Clients : LoopReads(w, c)

Next ==
    /\ ~panicked
    /\ \/ \E c \in Clients : HandlerStep(c) \/ ForwarderStep(c) \/ ClientLeaves(c)
       \/ \E w \in Workers : WorkerStep(w) \/ LoopStep(w) \/ ConnectionLost(w)

Spec == Init /\ [][Next]_vars

\* The Go scheduler runs every goroutine that can run, the load balancer
\* answers on a connection that is up, and a write to a client that is there
\* succeeds.  Nothing is assumed of a write to a client that is gone: it may
\* fail, succeed or block for ever.
Fairness ==
    /\ \A c \in Clients :
         /\ WF_vars(~panicked /\ (HandlerQueues(c) \/ HandlerTakes(c) \/ HandlerDone(c)))
         /\ WF_vars(~panicked /\ client[c] = "there" /\ HandlerSends(c))
         /\ WF_vars(~panicked /\ ForwarderStep(c))
    /\ \A w \in Workers :
         /\ WF_vars(~panicked /\ WorkerStep(w))
         /\ WF_vars(~panicked /\ LoopDelivers(w))
         /\ \A c \in Clients : WF_vars(~panicked /\ LoopReads(w, c))

FairSpec == Spec /\ Fairness

-----------------------------------------------------------------------------
Numbers == 1..(StreamLen + 1)

TypeOK ==
    /\ client \in [Clients -> {"there", "gone"}]
    /\ received \in [Clients -> Seq(Numbers)]
    /\ handler \in [Clients -> {"reading", "queueing", "ranging", "sending",
                                "served", "returned"}]
    /\ cur \in [Clients -> Numbers \cup {0}]
    /\ response \in [Clients -> Seq(Numbers)]
    /\ respClosed \in [Clients -> BOOLEAN]
    /\ queue \in Seq(Clients)
    /\ worker \in [Workers -> {"taking", "requesting", "spawning", "returned"}]
    /\ job \in [Workers -> Clients \cup {None}]
    /\ up \in [Workers -> BOOLEAN]
    /\ owner \in [Clients -> SUBSET Workers]
    /\ read \in [Clients -> Numbers \cup {0}]
    /\ loop \in [Workers -> [c : Clients, n : Numbers] \cup {Nothing}]
    /\ ch \in [Clients -> Seq(Numbers)]
    /\ chClosed \in [Clients -> BOOLEAN]
    /\ fwd \in [Clients -> {"none", "ranging", "sending", "ended"}]
    /\ fwdMsg \in [Clients -> Numbers \cup {0}]
    /\ panicked \in BOOLEAN

\* A client that is gone, or has stopped reading, never blocks the receive
\* loop of the connection it shares: when the loop cannot put a message into
\* the channel of c because channel, forwarder and response channel are all
\* full, the handler of c is still ranging and will make room.  It is the
\* capacity 8 against the length 11 of IDLE that makes it so.
LoopNotWedged ==
    \A w \in Workers, c \in Clients :
        /\ loop[w] # Nothing
        /\ loop[w].c = c
        /\ Len(ch[c]) = ChanCap
        /\ fwd[c] = "sending"
        /\ Len(response[c]) = RespCap
        => handler[c] = "ranging"

\* handleClient closes the response channel while the forwarder may still be
\* using it; the forwarder never sends on it afterwards.
NoSendOnClosed == ~panicked

\* The gateway implements StreamDelivery: nothing lost, doubled, out of order
\* or after the end, and a client is given up only before its first message.
Delivery == INSTANCE StreamDelivery WITH
    Length <- [c \in Clients |-> Total(c)],
    delivered <- received,
    session <- [c \in Clients |->
        IF client[c] = "gone" THEN "left"
        ELSE IF handler[c] = "returned" THEN "dropped" ELSE "open"]

DeliversStreams == Delivery!Spec

\* A client that stays gets its whole answer although others of the same
\* connection vanish at any moment, as long as no connection to the load
\* balancer is lost.
LiveClientServed ==
    \A c \in Clients :
        handler[c] = "queueing" ~> \/ client[c] = "gone"
                                  \/ Len(received[c]) = Total(c)
                                  \/ \E w \in Workers : ~up[w]

\* A client that asks is given an answer or is disconnected.
EveryRequestEnds ==
    \A c \in Clients :
        handler[c] = "queueing" ~>
            client[c] = "gone" \/ handler[c] \in {"served", "returned"}

\* The receive loop of a connection always gets rid of what it holds.
LoopComesBack ==
    \A w \in Workers : loop[w] # Nothing ~> loop[w] = Nothing
=============================================================================
