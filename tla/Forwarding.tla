----------------------------- MODULE Forwarding -----------------------------
(***************************************************************************)
(* internal/loadbalancer/loadbalancer.go and internal/microservice: a load *)
(* balancer that forwards the requests of its gateway connections to one   *)
(* microservice and copies the answers back.                               *)
(*                                                                         *)
(*  gateway -> handleRequest -> SendRequestChan -> Work -> HandleRequest    *)
(*  gateway <- handleRequest <- ch <- ReceiveLoopChan <------- LbConn       *)
(*                                                                         *)
(* The connection to the microservice may be cut, and is then dialled and  *)
(* greeted again; the load balancer may be killed and started anew by the  *)
(* controller, which makes it connect again (RECOVER).  The microservice   *)
(* answers over ms.LbConn, the connection it was greeted over last.        *)
(***************************************************************************)
EXTENDS Naturals, Sequences, FiniteSets

CONSTANTS
    Requests,   \* IDs of the requests for the microservice's service
    Gateways,   \* connections accepted from the gateway
    Hello,      \* ID of a HELLO
    StreamLen,  \* messages with IsStream = true before the last: 0 for PING
    MaxConns,   \* bound: connections made to the microservice
    MaxJobs,    \* bound: HandleRequest goroutines started
    MayLeave,   \* TRUE: connections of the gateway may be lost
    MayCut,     \* TRUE: the connection to the microservice may be cut
    MayRestart, \* TRUE: the load balancer may be restarted, once
    Slow        \* TRUE: the answer to a HELLO may take longer than 5 s

Conns == 1..MaxConns

ASSUME ForwardingAssumption ==
    /\ Hello \notin Requests
    /\ {StreamLen, MaxConns, MaxJobs} \subseteq Nat
    /\ {MayLeave, MayCut, MayRestart, Slow} \subseteq BOOLEAN

VARIABLES
    gwUp,       \* gwUp[g]: gateway connection g is up
    from,       \* from[r]: the gateway connections r came over (none or one)
    handler,    \* handler[r]: position of handleRequest
    held,       \* held[r]: the message it took from its channel last
    forwarded,  \* forwarded[r]: the messages sent back over from[r]
    connector,  \* position of connectToMicroservice (AsyncEvent, handleRecover)
    registered, \* the microservice is in msInfo and msConn
    pending,    \* pending of msConn
    ch,         \* ch[r]: buffer of the channel of r
    chClosed,   \* chClosed[r]: the receive loop closed it
    loop,       \* position of ReceiveLoopChan on msConn
    loopMsg,    \* the message it holds
    conn,       \* the TCP connection msConn has now, 0 for none
    made,       \* TCP connections made to the microservice
    cut,        \* those that are cut
    toMs,       \* toMs[k]: IDs on their way to the microservice
    toLb,       \* toLb[k]: messages on their way to the load balancer
    accepted,   \* accepted[k]: position of handleConnection and Work of k
    reading,    \* reading[k]: the connection that Work(k) reads
    lbConn,     \* Microservice.LbConn
    jobs,       \* HandleRequest goroutines: [id, n], n the next message
    restarted   \* the load balancer was restarted

handlerVars == <<gwUp, from, handler, held, forwarded>>
reqVars     == <<pending, ch, chClosed>>
loopVars    == <<connector, registered, loop, loopMsg, conn, made, restarted>>
msVars      == <<accepted, reading, lbConn, jobs>>
netVars     == <<cut, toMs, toLb>>
vars == <<handlerVars, reqVars, loopVars, msVars, netVars>>

-----------------------------------------------------------------------------
\* The number of messages HandleRequest sends.
Total == StreamLen + 1

\* Message.IsStream; the answer to a HELLO has number 0.
IsStream(m) == m.n \in 1..StreamLen

Reply(id, n) == [id |-> id, n |-> n]

NoMessage == Reply(Hello, 0)

\* What Send puts on connection k; on one that is cut it is lost.
SentToMs(k, id) == IF k \in cut THEN toMs ELSE [toMs EXCEPT ![k] = Append(@, id)]
SentToLb(k, m)  == IF k \in cut THEN toLb ELSE [toLb EXCEPT ![k] = Append(@, m)]

\* make(chan Message, 1) of SendRequestChan
ChanCap == 1

Init ==
    /\ gwUp = [g \in Gateways |-> TRUE]
    /\ from = [r \in Requests |-> {}]
    /\ handler = [r \in Requests |-> "none"]
    /\ held = [r \in Requests |-> 0]
    /\ forwarded = [r \in Requests |-> <<>>]
    /\ connector = "off"
    /\ registered = FALSE
    /\ pending = {}
    /\ ch = [r \in Requests |-> <<>>]
    /\ chClosed = [r \in Requests |-> FALSE]
    /\ loop = "off"
    /\ loopMsg = NoMessage
    /\ conn = 0
    /\ made = 0
    /\ cut = {}
    /\ toMs = [k \in Conns |-> <<>>]
    /\ toLb = [k \in Conns |-> <<>>]
    /\ accepted = [k \in Conns |-> "none"]
    /\ reading = [k \in Conns |-> k]
    /\ lbConn = 0
    /\ jobs = <<>>
    /\ restarted = FALSE

-----------------------------------------------------------------------------
(* Mutants: the bugs the properties below are known to catch.               *)

\* handleRequest reads one response, as its first version with SendRequest.
ForwardsOnce(r) ==
    /\ handler[r] = "sending"
    /\ forwarded' = [forwarded EXCEPT ![r] = Append(@, held[r])]
    /\ handler' = [handler EXCEPT ![r] = "done"]
    /\ UNCHANGED <<gwUp, from, held, reqVars, loopVars, msVars, netVars>>

\* A select with a default case: the loop drops what does not fit.
DeliversOrDrops ==
    /\ loop = "deliver"
    /\ LET r == loopMsg.id
       IN /\ ch' = IF Len(ch[r]) < ChanCap
                   THEN [ch EXCEPT ![r] = Append(@, loopMsg.n)] ELSE ch
          /\ chClosed' = [chClosed EXCEPT ![r] = ~IsStream(loopMsg)]
          /\ pending' = IF IsStream(loopMsg) THEN pending ELSE pending \ {r}
    /\ loop' = "read"
    /\ loopMsg' = NoMessage
    /\ UNCHANGED <<handlerVars, connector, registered, conn, made, restarted,
                   msVars, netVars>>

\* The loop deletes the entry and forgets close(ch).
DeliversWithoutClose ==
    /\ loop = "deliver"
    /\ LET r == loopMsg.id
       IN /\ Len(ch[r]) < ChanCap
          /\ ch' = [ch EXCEPT ![r] = Append(@, loopMsg.n)]
          /\ pending' = IF IsStream(loopMsg) THEN pending ELSE pending \ {r}
    /\ loop' = "read"
    /\ loopMsg' = NoMessage
    /\ UNCHANGED <<handlerVars, chClosed, connector, registered, conn, made,
                   restarted, msVars, netVars>>

\* After the handshake a request that is pending is sent again.
GreetedResending ==
    /\ loop = "greeting"
    /\ toLb[conn] # <<>>
    /\ toLb' = [toLb EXCEPT ![conn] = Tail(@)]
    /\ \E r \in pending \ {Hello} : toMs' = SentToMs(conn, r)
    /\ loop' = "read"
    /\ UNCHANGED <<handlerVars, reqVars, connector, registered, loopMsg, conn,
                   made, restarted, msVars, cut>>

\* Work is started before LbConn is set.
WelcomesReversed(k) ==
    /\ accepted[k] = "new"
    /\ toMs[k] # <<>>
    /\ Head(toMs[k]) = Hello
    /\ toMs' = [toMs EXCEPT ![k] = Tail(@)]
    /\ toLb' = SentToLb(k, Reply(Hello, 0))
    /\ accepted' = [accepted EXCEPT ![k] = "work"]
    /\ reading' = [reading EXCEPT ![k] = IF lbConn = 0 THEN k ELSE lbConn]
    /\ lbConn' = k
    /\ UNCHANGED <<handlerVars, reqVars, loopVars, jobs, cut>>

\* Work does not look at the type of a message.
WorksUnchecked(k) ==
    /\ accepted[k] = "work"
    /\ LET j == reading[k]
       IN /\ toMs[j] # <<>>
          /\ Len(jobs) < MaxJobs
          /\ toMs' = [toMs EXCEPT ![j] = Tail(@)]
          /\ jobs' = Append(jobs, Reply(Head(toMs[j]), 1))
    /\ reading' = [reading EXCEPT ![k] = lbConn]
    /\ UNCHANGED <<handlerVars, reqVars, loopVars, accepted, lbConn, cut, toLb>>

-----------------------------------------------------------------------------
(* Load balancer: handleConnection and handleRequest.                      *)

\* A request is received from a gateway connection.
Arrives(r, g) ==
    /\ handler[r] = "none"
    /\ gwUp[g]
    /\ from' = [from EXCEPT ![r] = {g}]
    /\ handler' = [handler EXCEPT ![r] = "choosing"]
    /\ UNCHANGED <<gwUp, held, forwarded, reqVars, loopVars, msVars, netVars>>

\* lb.msInfo has no service of this type: an error is answered.
Refuses(r) ==
    /\ handler[r] = "choosing"
    /\ ~registered
    /\ handler' = [handler EXCEPT ![r] = "refused"]
    /\ UNCHANGED <<gwUp, from, held, forwarded, reqVars, loopVars, msVars, netVars>>

\* msConn.SendRequestChan.  Over a connection that is cut the request is lost
\* without a sign, or Send fails: the entry is deleted and an error answered.
Asks(r) ==
    /\ handler[r] = "choosing"
    /\ registered
    /\ \/ /\ pending' = pending \cup {r}
          /\ toMs' = SentToMs(conn, r)
          /\ handler' = [handler EXCEPT ![r] = "ranging"]
       \/ /\ conn \in cut
          /\ handler' = [handler EXCEPT ![r] = "refused"]
          /\ UNCHANGED <<pending, toMs>>
    /\ UNCHANGED <<gwUp, from, held, forwarded, ch, chClosed, loopVars, msVars, cut, toLb>>

\* for response := range respChan
Takes(r) ==
    /\ handler[r] = "ranging"
    /\ ch[r] # <<>>
    /\ held' = [held EXCEPT ![r] = Head(ch[r])]
    /\ ch' = [ch EXCEPT ![r] = Tail(@)]
    /\ handler' = [handler EXCEPT ![r] = "sending"]
    /\ UNCHANGED <<gwUp, from, forwarded, pending, chClosed, loopVars, msVars, netVars>>

\* protocol.Send to the gateway.
Forwards(r) ==
    /\ handler[r] = "sending"
    /\ forwarded' = IF \A g \in from[r] : gwUp[g]
                    THEN [forwarded EXCEPT ![r] = Append(@, held[r])] ELSE forwarded
    /\ handler' = [handler EXCEPT ![r] = "ranging"]
    /\ UNCHANGED <<gwUp, from, held, reqVars, loopVars, msVars, netVars>>

\* It fails: handleRequest returns and nobody reads its channel any more.
GivesUp(r) ==
    /\ handler[r] = "sending"
    /\ \E g \in from[r] : ~gwUp[g]
    /\ handler' = [handler EXCEPT ![r] = "returned"]
    /\ UNCHANGED <<gwUp, from, held, forwarded, reqVars, loopVars, msVars, netVars>>

Finishes(r) ==
    /\ handler[r] = "ranging"
    /\ ch[r] = <<>>
    /\ chClosed[r]
    /\ handler' = [handler EXCEPT ![r] = "done"]
    /\ UNCHANGED <<gwUp, from, held, forwarded, reqVars, loopVars, msVars, netVars>>

GatewayLost(g) ==
    /\ MayLeave
    /\ gwUp[g]
    /\ gwUp' = [gwUp EXCEPT ![g] = FALSE]
    /\ UNCHANGED <<from, handler, held, forwarded, reqVars, loopVars, msVars, netVars>>

-----------------------------------------------------------------------------
(* Load balancer: the connection to the microservice.                      *)

\* UPDATE, or RECOVER after a restart: connectToMicroservice dials, starts the
\* receive loop and sends HELLO with SendRequest.
Connects ==
    /\ connector = "off"
    /\ made < MaxConns
    /\ made' = made + 1
    /\ conn' = made + 1
    /\ accepted' = [accepted EXCEPT ![made + 1] = "new"]
    /\ toMs' = [toMs EXCEPT ![made + 1] = <<Hello>>]
    /\ pending' = pending \cup {Hello}
    /\ loop' = "read"
    /\ connector' = "hello"
    /\ UNCHANGED <<handlerVars, ch, chClosed, registered, loopMsg, restarted,
                   reading, lbConn, jobs, cut, toLb>>

\* SendRequest gives up after five seconds: the microservice is not
\* registered, the receive loop goes on.
ConnectTimesOut ==
    /\ connector = "hello"
    /\ Slow \/ cut # {}
    /\ connector' = "failed"
    /\ pending' = pending \ {Hello}
    /\ UNCHANGED <<handlerVars, ch, chClosed, registered, loop, loopMsg, conn,
                   made, restarted, msVars, netVars>>

\* The answer to that HELLO: the microservice is added to msInfo and msConn.
Registers ==
    /\ loop = "read"
    /\ toLb[conn] # <<>>
    /\ Head(toLb[conn]).id = Hello
    /\ Hello \in pending
    /\ toLb' = [toLb EXCEPT ![conn] = Tail(@)]
    /\ pending' = pending \ {Hello}
    /\ connector' = "done"
    /\ registered' = TRUE
    /\ UNCHANGED <<handlerVars, ch, chClosed, loop, loopMsg, conn, made,
                   restarted, msVars, cut, toMs>>

\* ReceiveLoopChan reads a message of a request that is pending.
Reads ==
    /\ loop = "read"
    /\ toLb[conn] # <<>>
    /\ Head(toLb[conn]).id \in pending \ {Hello}
    /\ loopMsg' = Head(toLb[conn])
    /\ toLb' = [toLb EXCEPT ![conn] = Tail(@)]
    /\ loop' = "deliver"
    /\ UNCHANGED <<handlerVars, reqVars, connector, registered, conn, made,
                   restarted, msVars, cut, toMs>>

\* ... or one that is not: AsyncEvent answers that it does not know the
\* command, with the ID and the Type of the message.
AnswersStray ==
    /\ loop = "read"
    /\ toLb[conn] # <<>>
    /\ Head(toLb[conn]).id \notin pending
    /\ toMs' = SentToMs(conn, Head(toLb[conn]).id)
    /\ toLb' = [toLb EXCEPT ![conn] = Tail(@)]
    /\ UNCHANGED <<handlerVars, reqVars, loopVars, msVars, cut>>

\* ch <- msg; the last message deletes the entry and closes the channel.
Delivers ==
    /\ loop = "deliver"
    /\ LET r == loopMsg.id
       IN /\ Len(ch[r]) < ChanCap
          /\ ch' = [ch EXCEPT ![r] = Append(@, loopMsg.n)]
          /\ chClosed' = [chClosed EXCEPT ![r] = ~IsStream(loopMsg)]
          /\ pending' = IF IsStream(loopMsg) THEN pending ELSE pending \ {r}
    /\ loop' = "read"
    /\ loopMsg' = NoMessage
    /\ UNCHANGED <<handlerVars, connector, registered, conn, made, restarted,
                   msVars, netVars>>

\* Receive fails.
Breaks ==
    /\ loop = "read"
    /\ toLb[conn] = <<>>
    /\ conn \in cut
    /\ loop' = "redial"
    /\ UNCHANGED <<handlerVars, reqVars, connector, registered, loopMsg, conn,
                   made, restarted, msVars, netVars>>

\* tryToReconnect: from here on msConn is the new connection for every
\* goroutine of the load balancer.
Redials ==
    /\ loop = "redial"
    /\ made < MaxConns
    /\ made' = made + 1
    /\ conn' = made + 1
    /\ accepted' = [accepted EXCEPT ![made + 1] = "new"]
    /\ loop' = "greet"
    /\ UNCHANGED <<handlerVars, reqVars, connector, registered, loopMsg,
                   restarted, reading, lbConn, jobs, netVars>>

RedialFails ==
    /\ loop = "redial"
    /\ loop' = "dead"
    /\ UNCHANGED <<handlerVars, reqVars, connector, registered, loopMsg, conn,
                   made, restarted, msVars, netVars>>

\* HandShake, first half: Send(HELLO).
Greets ==
    /\ loop = "greet"
    /\ toMs' = SentToMs(conn, Hello)
    /\ loop' = "greeting"
    /\ UNCHANGED <<handlerVars, reqVars, connector, registered, loopMsg, conn,
                   made, restarted, msVars, cut, toLb>>

\* Second half: Receive, whatever comes, or an error.
Greeted ==
    /\ loop = "greeting"
    /\ \/ toLb[conn] # <<>> /\ toLb' = [toLb EXCEPT ![conn] = Tail(@)]
       \/ toLb[conn] = <<>> /\ conn \in cut /\ UNCHANGED toLb
    /\ loop' = "read"
    /\ UNCHANGED <<handlerVars, reqVars, connector, registered, loopMsg, conn,
                   made, restarted, msVars, cut, toMs>>

\* The controller kills the load balancer and starts another.
Restart ==
    /\ MayRestart
    /\ ~restarted
    /\ restarted' = TRUE
    /\ gwUp' = [g \in Gateways |-> gwUp[g] /\ \A r \in Requests : g \notin from[r]]
    /\ handler' = [r \in Requests |->
          IF handler[r] \in {"choosing", "ranging", "sending"} THEN "lost" ELSE handler[r]]
    /\ ch' = [r \in Requests |-> <<>>]
    /\ pending' = {}
    /\ connector' = "off"
    /\ registered' = FALSE
    /\ loop' = "off"
    /\ loopMsg' = NoMessage
    /\ conn' = 0
    /\ cut' = cut \cup 1..made
    /\ UNCHANGED <<from, held, forwarded, chClosed, made, msVars, toMs, toLb>>

-----------------------------------------------------------------------------
(* Microservice: handleConnection, Work, HandleRequest.                    *)

\* The first message of a connection is a HELLO: it is answered, the connection
\* becomes LbConn and gets a Work goroutine.
Welcomes(k) ==
    /\ accepted[k] = "new"
    /\ toMs[k] # <<>>
    /\ Head(toMs[k]) = Hello
    /\ toMs' = [toMs EXCEPT ![k] = Tail(@)]
    /\ toLb' = SentToLb(k, Reply(Hello, 0))
    /\ accepted' = [accepted EXCEPT ![k] = "work"]
    /\ lbConn' = k
    /\ UNCHANGED <<handlerVars, reqVars, loopVars, reading, jobs, cut>>

\* It is not, or cannot be read, or not be answered: handleConnection returns.
\* The connection stays open and nobody reads it.
TurnsAway(k) ==
    /\ accepted[k] = "new"
    /\ \/ toMs[k] # <<>> /\ Head(toMs[k]) # Hello
       \/ k \in cut
    /\ accepted' = [accepted EXCEPT ![k] = "returned"]
    /\ UNCHANGED <<handlerVars, reqVars, loopVars, reading, lbConn, jobs, netVars>>

\* Work(k) gets a message from the connection it reads, and then reads the one
\* that is LbConn by then.  A message of another type than the service's is
\* answered with an error, any other starts a HandleRequest.
Works(k) ==
    /\ accepted[k] = "work"
    /\ LET j == reading[k]
       IN /\ toMs[j] # <<>>
          /\ toMs' = [toMs EXCEPT ![j] = Tail(@)]
          /\ IF Head(toMs[j]) = Hello
             THEN toLb' = SentToLb(lbConn, Reply(Hello, 0)) /\ UNCHANGED jobs
             ELSE /\ Len(jobs) < MaxJobs
                  /\ jobs' = Append(jobs, Reply(Head(toMs[j]), 1))
                  /\ UNCHANGED toLb
    /\ reading' = [reading EXCEPT ![k] = lbConn]
    /\ UNCHANGED <<handlerVars, reqVars, loopVars, accepted, lbConn, cut>>

WorkEnds(k) ==
    /\ accepted[k] = "work"
    /\ toMs[reading[k]] = <<>>
    /\ reading[k] \in cut
    /\ accepted' = [accepted EXCEPT ![k] = "returned"]
    /\ UNCHANGED <<handlerVars, reqVars, loopVars, reading, lbConn, jobs, netVars>>

\* HandleRequest sends its next message over LbConn; when Send fails it returns.
Answers(j) ==
    /\ jobs[j].n <= Total
    /\ toLb' = SentToLb(lbConn, jobs[j])
    /\ \/ jobs' = [jobs EXCEPT ![j].n = @ + 1]
       \/ lbConn \in cut /\ jobs' = [jobs EXCEPT ![j].n = Total + 1]
    /\ UNCHANGED <<handlerVars, reqVars, loopVars, accepted, reading, lbConn, cut, toMs>>

\* The connection is cut; what is in flight arrives up to some point.
Cut ==
    /\ MayCut
    /\ conn \in Conns \ cut
    /\ cut' = cut \cup {conn}
    /\ \E i \in 0..Len(toMs[conn]), j \in 0..Len(toLb[conn]) :
          /\ toMs' = [toMs EXCEPT ![conn] = SubSeq(@, 1, i)]
          /\ toLb' = [toLb EXCEPT ![conn] = SubSeq(@, 1, j)]
    /\ UNCHANGED <<handlerVars, reqVars, loopVars, msVars>>

-----------------------------------------------------------------------------
HandlerStep(r) ==
    Refuses(r) \/ Asks(r) \/ Takes(r) \/ Forwards(r) \/ GivesUp(r) \/ Finishes(r)

LoopStep ==
    \/ Registers \/ Reads \/ AnswersStray \/ Delivers
    \/ Breaks \/ Redials \/ RedialFails \/ Greets \/ Greeted

MicroserviceStep(k) == Welcomes(k) \/ TurnsAway(k) \/ Works(k) \/ WorkEnds(k)

Next ==
    \/ \E r \in Requests : HandlerStep(r) \/ \E g \in Gateways : Arrives(r, g)
    \/ \E g \in Gateways : GatewayLost(g)
    \/ Connects \/ ConnectTimesOut \/ LoopStep
    \/ \E k \in Conns : MicroserviceStep(k)
    \/ \E j \in DOMAIN jobs : Answers(j)
    \/ Cut \/ Restart

Spec == Init /\ [][Next]_vars

\* The Go scheduler runs every goroutine that can run; a Send to a gateway
\* connection that is up succeeds, of one that is lost nothing is assumed.
Fairness ==
    /\ \A r \in Requests :
         /\ WF_vars(Refuses(r) \/ Asks(r) \/ Takes(r) \/ Finishes(r))
         /\ WF_vars((\A g \in from[r] : gwUp[g]) /\ Forwards(r))
    /\ WF_vars(LoopStep)
    /\ \A k \in Conns : WF_vars(MicroserviceStep(k))
    /\ \A j \in 1..MaxJobs : WF_vars(j \in DOMAIN jobs /\ Answers(j))

FairSpec == Spec /\ Fairness

-----------------------------------------------------------------------------
IDs == Requests \cup {Hello}

Messages == [id : IDs, n : 0..(StreamLen + 1)]

TypeOK ==
    /\ gwUp \in [Gateways -> BOOLEAN]
    /\ from \in [Requests -> SUBSET Gateways]
    /\ handler \in [Requests -> {"none", "choosing", "ranging", "sending", "refused",
                                 "done", "returned", "lost"}]
    /\ held \in [Requests -> 0..Total]
    /\ forwarded \in [Requests -> Seq(1..Total)]
    /\ connector \in {"off", "hello", "failed", "done"}
    /\ registered \in BOOLEAN
    /\ pending \subseteq IDs
    /\ ch \in [Requests -> Seq(1..Total)]
    /\ chClosed \in [Requests -> BOOLEAN]
    /\ loop \in {"off", "read", "deliver", "redial", "greet", "greeting", "dead"}
    /\ loopMsg \in Messages
    /\ conn \in 0..made
    /\ made \in 0..MaxConns
    /\ cut \subseteq 1..made
    /\ toMs \in [Conns -> Seq(IDs)]
    /\ toLb \in [Conns -> Seq(Messages)]
    /\ accepted \in [Conns -> {"none", "new", "work", "returned"}]
    /\ reading \in [Conns -> Conns]
    /\ lbConn \in 0..made
    /\ jobs \in Seq([id : Requests, n : 1..(Total + 1)])
    /\ Len(jobs) <= MaxJobs
    /\ restarted \in BOOLEAN

\* What goes back to the gateway is the answer of the microservice in order,
\* nothing twice, and without a gap unless a connection to it was cut: the
\* messages pass HandleRequest, LbConn, the receive loop and handleRequest,
\* over a second connection after the first is lost.
ForwardedInOrder ==
    \A r \in Requests : \A i \in DOMAIN forwarded[r] :
        /\ \A j \in 1..(i - 1) : forwarded[r][j] < forwarded[r][i]
        /\ cut = {} => forwarded[r][i] = i

\* A request is worked for once, as long as the load balancer is not restarted:
\* a cut and a reconnect repeat nothing and make no answer a stray.
WorkedForOnce ==
    ~restarted =>
        \A i, j \in DOMAIN jobs : jobs[i].id = jobs[j].id => i = j

\* While LbConn is the connection the receive loop reads, some Work goroutine
\* reads the requests that are sent over it, whichever of them were started
\* for earlier connections and have moved over to LbConn.
LoopReadsServed ==
    registered /\ loop \in {"read", "deliver"} /\ conn \notin cut /\ lbConn = conn =>
        \E k \in Conns : accepted[k] = "work" /\ reading[k] = conn

\* The receive loop all requests share is held up by one whose handler still
\* reads its channel, or by one that was left when its gateway connection was
\* lost; no other step, order or reconnect makes it wait for somebody who is gone.
LoopWaitsForReaders ==
    loop = "deliver" /\ Len(ch[loopMsg.id]) = ChanCap =>
        \/ handler[loopMsg.id] \in {"ranging", "sending"}
        \/ \E g \in from[loopMsg.id] : ~gwUp[g]

\* A handler whose answer is over, or cannot come any more, learns of it: its
\* channel is closed, or the request is still pending, on its way, or being
\* worked for; only a cut may lose it.
NobodyWaitsInVain ==
    \A r \in Requests :
        handler[r] \in {"ranging", "sending"} /\ cut = {} =>
            \/ chClosed[r]
            \/ \E i \in DOMAIN toMs[conn] : toMs[conn][i] = r
            \/ \E j \in DOMAIN jobs : jobs[j].id = r /\ jobs[j].n <= Total
            \/ loop = "deliver" /\ loopMsg = Reply(r, Total)
            \/ \E i \in DOMAIN toLb[conn] : toLb[conn][i] = Reply(r, Total)

\* A microservice works for a request once, whatever happens to the load
\* balancer.
AskedForOnce == \A i, j \in DOMAIN jobs : jobs[i].id = jobs[j].id => i = j
=============================================================================
