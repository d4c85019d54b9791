-------------------------- MODULE ForwardingProofs --------------------------
(***************************************************************************)
(* Proofs about Forwarding for any number of requests, gateway connections *)
(* and messages, any number of cuts and reconnects and a restart of the    *)
(* load balancer: type correctness, and the safety properties of the path  *)
(* of a request to the microservice and of its answer back.                *)
(***************************************************************************)
EXTENDS Forwarding, SequenceTheorems, TLAPS

-----------------------------------------------------------------------------
(* The connections.                                                         *)

\* msConn is the connection made last, or there is none; every other that was
\* made is cut, and so is the one the loop is about to replace.
OneConnection ==
    /\ loop # "off" => conn = made /\ conn # 0
    /\ loop = "off" => conn = 0 /\ ~registered
    /\ connector = "off" => loop = "off"
    /\ (1..made) \ cut \subseteq {conn}
    /\ loop = "redial" => conn \in cut /\ toLb[conn] = <<>>
    /\ loop \in {"redial", "greet", "greeting"} => cut # {}
    /\ \A k \in Conns : k > made => toMs[k] = <<>> /\ toLb[k] = <<>>

\* The Work goroutine of LbConn reads LbConn for as long as it is not cut.
LbConnIsRead ==
    /\ \A k \in Conns :
         /\ accepted[k] # "none" => k <= made
         /\ accepted[k] \in {"none", "new"} => reading[k] = k
         /\ accepted[k] = "work" => lbConn # 0
    /\ lbConn # 0 /\ lbConn \notin cut =>
         accepted[lbConn] = "work" /\ reading[lbConn] = lbConn
    /\ jobs # <<>> => lbConn # 0

\* The messages of an answer are numbered from 1.
NumberedAnswers ==
    /\ \A k \in Conns : \A i \in DOMAIN toLb[k] :
         toLb[k][i].id \in Requests => toLb[k][i].n # 0
    /\ loop = "deliver" => loopMsg.id \in pending \ {Hello} /\ loopMsg.n # 0
    /\ \A r \in Requests : handler[r] = "sending" => held[r] # 0

-----------------------------------------------------------------------------
(* The requests.                                                            *)

Unasked(r) == handler[r] \in {"none", "choosing", "refused"}

OnWay(r)     == \E k \in Conns : \E i \in DOMAIN toMs[k] : toMs[k][i] = r
WorkedFor(r) == \E j \in DOMAIN jobs : jobs[j].id = r
Answered(r)  == \E k \in Conns : \E i \in DOMAIN toLb[k] : toLb[k][i].id = r

Delivering(r) == loop = "deliver" /\ loopMsg.id = r

\* Before a request is sent on nothing knows of it.
Fresh(r) ==
    Unasked(r) => /\ r \notin pending /\ ~chClosed[r]
                  /\ ch[r] = <<>> /\ held[r] = 0 /\ forwarded[r] = <<>>
                  /\ ~OnWay(r) /\ ~WorkedFor(r) /\ ~Answered(r)

\* A restart makes the load balancer forget r while messages of it may be
\* anywhere.
Stale(r) == handler[r] = "lost" \/ (restarted /\ handler[r] = "returned")

\* Who is pending has a handler that waits, or one that has given up because
\* its gateway connection was lost, and a channel that is open.
Pending(r) ==
    /\ r \in pending => handler[r] \in {"ranging", "sending", "returned"} /\ ~chClosed[r]
    /\ handler[r] \in {"ranging", "sending", "returned"} /\ ~Stale(r) =>
         r \in pending \/ chClosed[r]
    /\ handler[r] = "done" => chClosed[r] /\ ch[r] = <<>>
    /\ handler[r] = "returned" => \E g \in from[r] : ~gwUp[g]
    /\ handler[r] = "lost" => restarted

\* The last message of r in its channel or taken from it, and the last one the
\* receive loop has read.
Entered(r) == IF ch[r] = <<>> THEN held[r] ELSE ch[r][1]
Passed(r)  == IF Delivering(r) THEN loopMsg.n ELSE Entered(r)

\* The ID of a request is in one place: on its way, or being worked for.
AskedOnce(r) ==
    /\ OnWay(r) => /\ ~WorkedFor(r) /\ ~Answered(r) /\ ~Delivering(r)
                   /\ Entered(r) = 0 /\ r \in pending
    /\ \A k, l \in Conns : \A i \in DOMAIN toMs[k], j \in DOMAIN toMs[l] :
         toMs[k][i] = r /\ toMs[l][j] = r => k = l /\ i = j
    /\ \A i, j \in DOMAIN jobs : jobs[i].id = r /\ jobs[j].id = r => i = j

\* Along the path from HandleRequest to the gateway the numbers of the messages
\* only grow.
Growing(r) ==
    /\ Answered(r) => r \in pending
    /\ \A k \in Conns : \A i \in DOMAIN toLb[k] : toLb[k][i].id = r => k = conn
    /\ Len(ch[r]) <= 1
    /\ ch[r] # <<>> => held[r] < ch[r][1]
    /\ Delivering(r) => Entered(r) < loopMsg.n
    /\ \A k \in Conns : \A i \in DOMAIN toLb[k] : toLb[k][i].id = r =>
         /\ Passed(r) < toLb[k][i].n
         /\ \A h \in 1..(i - 1) : toLb[k][h].id = r => toLb[k][h].n < toLb[k][i].n
         /\ \A j \in DOMAIN jobs : jobs[j].id = r => toLb[k][i].n < jobs[j].n
    /\ \A j \in DOMAIN jobs : jobs[j].id = r => Passed(r) < jobs[j].n
    /\ chClosed[r] <=> Entered(r) = Total

\* What was sent back to the gateway.
SentBack(r) ==
    /\ \A i \in DOMAIN forwarded[r] :
         /\ \A h \in 1..(i - 1) : forwarded[r][h] < forwarded[r][i]
         /\ forwarded[r][i] <= held[r]
         /\ handler[r] = "sending" => forwarded[r][i] < held[r]
         /\ cut = {} => forwarded[r][i] = i

\* As long as no connection was cut the numbers have no gap.
Complete(r) ==
    handler[r] \in {"ranging", "sending"} /\ cut = {} =>
        /\ OnWay(r) \/ WorkedFor(r)
        /\ \A i \in DOMAIN toLb[conn] : toLb[conn][i].id = r =>
             \A x \in (Passed(r) + 1)..toLb[conn][i].n :
                 \E h \in 1..i : toLb[conn][h].id = r /\ toLb[conn][h].n = x
        /\ \A j \in DOMAIN jobs : jobs[j].id = r =>
             \A x \in (Passed(r) + 1)..(jobs[j].n - 1) :
                 \E i \in DOMAIN toLb[conn] : toLb[conn][i].id = r /\ toLb[conn][i].n = x
        /\ Delivering(r) => loopMsg.n = Entered(r) + 1
        /\ ch[r] # <<>> => ch[r][1] = held[r] + 1
        /\ (\A g \in from[r] : gwUp[g]) =>
             Len(forwarded[r]) = IF handler[r] = "sending" THEN held[r] - 1 ELSE held[r]

ConnInv == TypeOK /\ OneConnection /\ LbConnIsRead /\ NumberedAnswers

\* What is known of a request at any time.
Accounted(r) ==
    /\ Fresh(r)
    /\ Pending(r)
    /\ SentBack(r)
    /\ ~Stale(r) => AskedOnce(r) /\ Growing(r) /\ Complete(r)

ReqInv == \A r \in Requests : Accounted(r)

-----------------------------------------------------------------------------
(* Queues of messages: functions to sequences, updated at one point.        *)

LEMMA AppendAt ==
    ASSUME NEW S, NEW T, NEW f \in [S -> Seq(T)], NEW x, NEW e \in T
    PROVE  [f EXCEPT ![x] = Append(@, e)] \in [S -> Seq(T)]
<1> DEFINE g == [f EXCEPT ![x] = Append(@, e)]
<1>1. \A y \in S : Append(f[y], e) \in Seq(T)
    BY AppendProperties
<1>2. \A y \in S : g[y] \in Seq(T)
    BY <1>1
<1> QED BY <1>2

LEMMA TailAt ==
    ASSUME NEW S, NEW T, NEW f \in [S -> Seq(T)], NEW x \in S, f[x] # <<>>
    PROVE  [f EXCEPT ![x] = Tail(@)] \in [S -> Seq(T)]
<1>1. f[x] \in Seq(T)
    OBVIOUS
<1>2. Tail(f[x]) \in Seq(T)
    BY <1>1, HeadTailProperties
<1> QED BY <1>2

LEMMA PrefixType ==
    ASSUME NEW T, NEW s \in Seq(T), NEW k \in 0..Len(s)
    PROVE  SubSeq(s, 1, k) \in Seq(T)
<1>1. Len(s) \in Nat
    BY LenProperties
<1>2. \A i \in 1..k : i \in 1..Len(s)
    BY <1>1
<1>3. \A i \in 1..k : s[i] \in T
    BY <1>2, ElementOfSeq
<1> QED BY <1>1, <1>3, SubSeqProperties

LEMMA PrefixAt ==
    ASSUME NEW S, NEW T, NEW f \in [S -> Seq(T)], NEW x \in S, NEW k \in 0..Len(f[x])
    PROVE  [f EXCEPT ![x] = SubSeq(@, 1, k)] \in [S -> Seq(T)]
<1>1. f[x] \in Seq(T)
    OBVIOUS
<1>2. SubSeq(f[x], 1, k) \in Seq(T)
    BY <1>1, PrefixType
<1> QED BY <1>2

LEMMA HeadType ==
    ASSUME NEW T, NEW s \in Seq(T), s # <<>>
    PROVE  /\ Head(s) \in T /\ Head(s) = s[1] /\ 1 \in DOMAIN s
           /\ Tail(s) \in Seq(T) /\ Len(s) \in Nat /\ Len(Tail(s)) = Len(s) - 1
           /\ DOMAIN s = 1..Len(s) /\ DOMAIN Tail(s) = 1..(Len(s) - 1)
           /\ \A i \in DOMAIN Tail(s) : i + 1 \in DOMAIN s /\ Tail(s)[i] = s[i + 1]
<1>1. Len(s) \in Nat /\ Len(s) # 0 /\ DOMAIN s = 1..Len(s)
    BY EmptySeq, LenProperties
<1>2. /\ Head(s) \in T /\ Tail(s) \in Seq(T) /\ Len(Tail(s)) = Len(s) - 1
      /\ Head(s) = s[1]
      /\ \A i \in 1..Len(Tail(s)) : Tail(s)[i] = s[i + 1]
    BY HeadTailProperties
<1>3. DOMAIN Tail(s) = 1..(Len(s) - 1)
    BY <1>2, LenProperties
<1> QED BY <1>1, <1>2, <1>3

LEMMA SentType ==
    ASSUME TypeOK, NEW k, NEW id \in IDs, NEW m \in Messages
    PROVE  /\ SentToMs(k, id) \in [Conns -> Seq(IDs)]
           /\ SentToLb(k, m) \in [Conns -> Seq(Messages)]
<1>1. toMs \in [Conns -> Seq(IDs)] /\ toLb \in [Conns -> Seq(Messages)]
    BY DEF TypeOK
<1>2. /\ [toMs EXCEPT ![k] = Append(@, id)] \in [Conns -> Seq(IDs)]
      /\ [toLb EXCEPT ![k] = Append(@, m)] \in [Conns -> Seq(Messages)]
    BY <1>1, AppendAt
<1> QED BY <1>1, <1>2 DEF SentToMs, SentToLb

\* The numbers the code works with.
LEMMA Sizes ==
    /\ StreamLen \in Nat /\ MaxConns \in Nat /\ MaxJobs \in Nat
    /\ Total \in Nat /\ 1 \in 1..Total /\ Total = StreamLen + 1
    /\ Hello \notin Requests
BY ForwardingAssumption DEF Total

LEMMA MessageType ==
    /\ \A id \in IDs, n \in 0..Total : Reply(id, n) \in Messages
    /\ Reply(Hello, 0) \in Messages /\ NoMessage \in Messages
    /\ \A m \in Messages : m.id \in IDs /\ m.n \in 0..Total
    /\ \A m \in [id : Requests, n : 1..(Total + 1)] : m.n <= Total => m \in Messages
<1>1. 0 \in 0..Total /\ 0..Total = 0..(StreamLen + 1)
    BY Sizes
<1>2. \A x \in 1..(Total + 1) : x <= Total => x \in 0..Total
    BY Sizes
<1> QED BY <1>1, <1>2 DEF Messages, Reply, NoMessage, IDs

-----------------------------------------------------------------------------
(* Type correctness.                                                        *)

LEMMA InitType == Init => TypeOK
<1> SUFFICES ASSUME Init PROVE TypeOK
    OBVIOUS
<1> USE DEF Init
<1>1. 0 \in 0..Total /\ made \in 0..MaxConns /\ conn \in 0..made /\ lbConn \in 0..made
    BY Sizes
<1>2. loopMsg \in Messages
    BY MessageType
<1>3. /\ forwarded \in [Requests -> Seq(1..Total)] /\ ch \in [Requests -> Seq(1..Total)]
      /\ toMs \in [Conns -> Seq(IDs)] /\ toLb \in [Conns -> Seq(Messages)]
      /\ jobs \in Seq([id : Requests, n : 1..(Total + 1)])
    OBVIOUS
<1>4. Len(jobs) <= MaxJobs
    BY Sizes
<1> QED BY <1>1, <1>2, <1>3, <1>4 DEF TypeOK

\* Steps of handleConnection and handleRequest.
LEMMA HandlerType ==
    ASSUME TypeOK, NumberedAnswers, NEW r \in Requests,
           HandlerStep(r) \/ \E g \in Gateways : Arrives(r, g)
    PROVE  TypeOK'
<1> USE DEF handlerVars, reqVars, loopVars, msVars, netVars
<1>0. ch \in [Requests -> Seq(1..Total)] /\ forwarded \in [Requests -> Seq(1..Total)]
    BY DEF TypeOK
<1>1. ASSUME NEW g \in Gateways, Arrives(r, g) PROVE TypeOK'
    BY <1>1 DEF TypeOK, Arrives
<1>2. CASE Refuses(r) BY <1>2 DEF TypeOK, Refuses
<1>3. CASE Asks(r)
    <2>1. SentToMs(conn, r) \in [Conns -> Seq(IDs)]
        BY SentType, MessageType DEF IDs
    <2> QED BY <1>3, <2>1 DEF TypeOK, Asks, IDs
<1>4. CASE Takes(r)
    <2>1. ch[r] \in Seq(1..Total) /\ ch[r] # <<>>
        BY <1>0, <1>4 DEF Takes
    <2>2. Head(ch[r]) \in 1..Total
        BY <2>1, HeadType
    <2>3. Head(ch[r]) \in 0..Total
        BY <2>2, Sizes
    <2>4. [ch EXCEPT ![r] = Tail(@)] \in [Requests -> Seq(1..Total)]
        BY <1>0, <2>1, TailAt
    <2> QED BY <1>4, <2>3, <2>4 DEF TypeOK, Takes
<1>5. CASE Forwards(r)
    <2>1. held[r] \in 1..Total
        <3>1. held[r] \in 0..Total /\ held[r] # 0
            BY <1>5 DEF TypeOK, Forwards, NumberedAnswers
        <3> QED BY <3>1, Sizes
    <2>2. [forwarded EXCEPT ![r] = Append(@, held[r])] \in [Requests -> Seq(1..Total)]
        BY <1>0, <2>1, AppendAt
    <2> QED BY <1>5, <2>2 DEF TypeOK, Forwards
<1>6. CASE GivesUp(r) BY <1>6 DEF TypeOK, GivesUp
<1>7. CASE Finishes(r) BY <1>7 DEF TypeOK, Finishes
<1> QED BY <1>1, <1>2, <1>3, <1>4, <1>5, <1>6, <1>7 DEF HandlerStep

\* The message the receive loop is about to read.
LEMMA NextMessage ==
    ASSUME TypeOK, OneConnection, loop # "off", toLb[conn] # <<>>
    PROVE  /\ conn \in Conns /\ toLb[conn] \in Seq(Messages)
           /\ Head(toLb[conn]) \in Messages /\ Head(toLb[conn]).id \in IDs
           /\ [toLb EXCEPT ![conn] = Tail(@)] \in [Conns -> Seq(Messages)]
<1>1. conn \in Conns
    <2>1. conn = made /\ conn # 0 /\ made \in 0..MaxConns
        BY DEF TypeOK, OneConnection
    <2> QED BY <2>1, Sizes DEF Conns
<1>2. toLb \in [Conns -> Seq(Messages)]
    BY DEF TypeOK
<1>3. Head(toLb[conn]) \in Messages
    BY <1>1, <1>2, HeadType
<1>4. [toLb EXCEPT ![conn] = Tail(@)] \in [Conns -> Seq(Messages)]
    BY <1>1, <1>2, TailAt
<1> QED BY <1>1, <1>2, <1>3, <1>4, MessageType

\* Steps of connectToMicroservice and of ReceiveLoopChan, and a restart.
LEMMA LoopType ==
    ASSUME TypeOK, OneConnection, NumberedAnswers,
           Connects \/ ConnectTimesOut \/ LoopStep \/ Restart
    PROVE  TypeOK'
<1> USE DEF handlerVars, reqVars, loopVars, msVars, netVars
<1>0. /\ ch \in [Requests -> Seq(1..Total)] /\ Hello \in IDs
      /\ made \in 0..MaxConns /\ conn \in 0..made /\ lbConn \in 0..made /\ cut \subseteq 1..made
    BY DEF TypeOK, IDs
<1>m. ASSUME made < MaxConns
      PROVE  /\ made + 1 \in Conns /\ made + 1 \in 0..MaxConns /\ made + 1 \in 0..(made + 1)
             /\ lbConn \in 0..(made + 1) /\ cut \subseteq 1..(made + 1)
    BY <1>0, <1>m, Sizes DEF Conns
<1>1. CASE Connects
    <2>1. toMs' \in [Conns -> Seq(IDs)]
        <3>1. <<Hello>> \in Seq(IDs)
            BY <1>0
        <3>2. toMs' = [toMs EXCEPT ![made + 1] = <<Hello>>] /\ toMs \in [Conns -> Seq(IDs)]
            BY <1>1 DEF TypeOK, Connects
        <3> QED BY <3>1, <3>2
    <2> QED BY <1>0, <1>1, <1>m, <2>1 DEF TypeOK, Connects
<1>2. CASE ConnectTimesOut BY <1>2 DEF TypeOK, ConnectTimesOut
<1>3. CASE Registers
    <2>1. [toLb EXCEPT ![conn] = Tail(@)] \in [Conns -> Seq(Messages)]
        BY <1>3, NextMessage DEF Registers
    <2> QED BY <1>3, <2>1 DEF TypeOK, Registers
<1>4. CASE Reads
    <2>1. /\ [toLb EXCEPT ![conn] = Tail(@)] \in [Conns -> Seq(Messages)]
          /\ Head(toLb[conn]) \in Messages
        BY <1>4, NextMessage DEF Reads
    <2> QED BY <1>4, <2>1 DEF TypeOK, Reads
<1>5. CASE AnswersStray
    <2>1. /\ [toLb EXCEPT ![conn] = Tail(@)] \in [Conns -> Seq(Messages)]
          /\ Head(toLb[conn]).id \in IDs
        BY <1>5, NextMessage DEF AnswersStray
    <2>2. SentToMs(conn, Head(toLb[conn]).id) \in [Conns -> Seq(IDs)]
        BY <2>1, SentType, MessageType
    <2> QED BY <1>5, <2>1, <2>2 DEF TypeOK, AnswersStray
<1>6. CASE Delivers
    <2>1. loopMsg.n \in 1..Total
        <3>1. loopMsg.n \in 0..Total /\ loopMsg.n # 0
            BY <1>6, MessageType DEF Delivers, TypeOK, NumberedAnswers
        <3> QED BY <3>1, Sizes
    <2>2. [ch EXCEPT ![loopMsg.id] = Append(@, loopMsg.n)] \in [Requests -> Seq(1..Total)]
        BY <1>0, <2>1, AppendAt
    <2>3. (~IsStream(loopMsg)) \in BOOLEAN
        BY DEF IsStream
    <2>4. /\ ch' \in [Requests -> Seq(1..Total)] /\ chClosed' \in [Requests -> BOOLEAN]
          /\ pending' \subseteq IDs /\ loop' = "read" /\ loopMsg' \in Messages
        BY <1>6, <2>2, <2>3, MessageType DEF Delivers, TypeOK
    <2> QED BY <1>6, <2>4 DEF TypeOK, Delivers
<1>7. CASE Breaks BY <1>7 DEF TypeOK, Breaks
<1>8. CASE Redials
    BY <1>0, <1>8, <1>m DEF TypeOK, Redials
<1>9. CASE RedialFails BY <1>9 DEF TypeOK, RedialFails
<1>10. CASE Greets
    <2>1. SentToMs(conn, Hello) \in [Conns -> Seq(IDs)]
        BY <1>0, SentType, MessageType
    <2> QED BY <1>10, <2>1 DEF TypeOK, Greets
<1>11. CASE Greeted
    <2>1. toLb' \in [Conns -> Seq(Messages)]
        <3>1. toLb[conn] # <<>> => [toLb EXCEPT ![conn] = Tail(@)] \in [Conns -> Seq(Messages)]
            BY <1>11, NextMessage DEF Greeted
        <3> QED BY <1>11, <3>1 DEF Greeted, TypeOK
    <2> QED BY <1>11, <2>1 DEF TypeOK, Greeted
<1>12. CASE Restart
    <2>1. ch' \in [Requests -> Seq(1..Total)] /\ loopMsg' \in Messages
        BY <1>12, MessageType DEF Restart
    <2>2. conn' \in 0..made /\ cut' \subseteq 1..made
        BY <1>0, <1>12, Sizes DEF Restart
    <2>3. /\ gwUp' \in [Gateways -> BOOLEAN]
          /\ handler' \in [Requests -> {"none", "choosing", "ranging", "sending",
                                        "refused", "done", "returned", "lost"}]
        BY <1>12 DEF Restart, TypeOK
    <2> QED BY <1>12, <2>1, <2>2, <2>3 DEF TypeOK, Restart
<1> QED BY <1>1, <1>2, <1>3, <1>4, <1>5, <1>6, <1>7, <1>8, <1>9, <1>10, <1>11, <1>12
        DEF LoopStep

\* Steps of the microservice and of the network.
LEMMA PeerType ==
    ASSUME TypeOK, OneConnection, LbConnIsRead,
           \/ \E k \in Conns : MicroserviceStep(k)
           \/ \E j \in DOMAIN jobs : Answers(j)
           \/ Cut \/ \E g \in Gateways : GatewayLost(g)
    PROVE  TypeOK'
<1> USE DEF handlerVars, reqVars, loopVars, msVars, netVars
<1>0. /\ toMs \in [Conns -> Seq(IDs)] /\ toLb \in [Conns -> Seq(Messages)]
      /\ made \in 0..MaxConns /\ conn \in 0..made /\ lbConn \in 0..made /\ cut \subseteq 1..made
      /\ reading \in [Conns -> Conns]
      /\ jobs \in Seq([id : Requests, n : 1..(Total + 1)]) /\ Len(jobs) <= MaxJobs
      /\ Len(jobs) \in Nat
    BY LenProperties DEF TypeOK
<1>1. ASSUME NEW k \in Conns, Welcomes(k) PROVE TypeOK'
    <2>1. [toMs EXCEPT ![k] = Tail(@)] \in [Conns -> Seq(IDs)]
        BY <1>0, <1>1, TailAt DEF Welcomes
    <2>2. SentToLb(k, Reply(Hello, 0)) \in [Conns -> Seq(Messages)]
        BY SentType, MessageType DEF IDs
    <2>3. k \in 0..made
        <3>1. k <= made
            BY <1>1 DEF Welcomes, LbConnIsRead
        <3>2. k \in 1..MaxConns /\ MaxConns \in Nat
            BY Sizes DEF Conns
        <3> QED BY <1>0, <3>1, <3>2
    <2> QED BY <1>1, <2>1, <2>2, <2>3 DEF TypeOK, Welcomes
<1>2. ASSUME NEW k \in Conns, TurnsAway(k) PROVE TypeOK'
    BY <1>2 DEF TypeOK, TurnsAway
<1>3. ASSUME NEW k \in Conns, Works(k) PROVE TypeOK'
    <2>1. lbConn \in Conns
        <3>1. lbConn # 0
            BY <1>3 DEF Works, LbConnIsRead
        <3> QED BY <1>0, <3>1, Sizes DEF Conns
    <2>2. reading[k] \in Conns /\ toMs[reading[k]] # <<>>
        BY <1>0, <1>3 DEF Works
    <2>3. [toMs EXCEPT ![reading[k]] = Tail(@)] \in [Conns -> Seq(IDs)]
        BY <1>0, <2>2, TailAt
    <2>4. SentToLb(lbConn, Reply(Hello, 0)) \in [Conns -> Seq(Messages)]
        BY SentType, MessageType DEF IDs
    <2>5. Head(toMs[reading[k]]) \in IDs
        BY <1>0, <2>2, HeadType
    <2>6. jobs' \in Seq([id : Requests, n : 1..(Total + 1)]) /\ Len(jobs') <= MaxJobs
        <3>1. CASE Head(toMs[reading[k]]) = Hello
            BY <1>0, <1>3, <3>1 DEF Works
        <3>2. CASE Head(toMs[reading[k]]) # Hello
            <4>1. Head(toMs[reading[k]]) \in Requests
                BY <2>5, <3>2 DEF IDs
            <4>2. 1 \in 1..(Total + 1)
                BY Sizes
            <4>3. Reply(Head(toMs[reading[k]]), 1) \in [id : Requests, n : 1..(Total + 1)]
                BY <4>1, <4>2 DEF Reply
            <4>4. jobs' = Append(jobs, Reply(Head(toMs[reading[k]]), 1)) /\ Len(jobs) < MaxJobs
                BY <1>3, <3>2 DEF Works
            <4>5. jobs' \in Seq([id : Requests, n : 1..(Total + 1)]) /\ Len(jobs') = Len(jobs) + 1
                BY <1>0, <4>3, <4>4, AppendProperties
            <4> QED BY <1>0, <4>4, <4>5, Sizes
        <3> QED BY <3>1, <3>2
    <2>7. toMs' \in [Conns -> Seq(IDs)] /\ toLb' \in [Conns -> Seq(Messages)]
        BY <1>0, <1>3, <2>3, <2>4 DEF Works
    <2>8. reading' \in [Conns -> Conns]
        BY <1>0, <1>3, <2>1 DEF Works
    <2> QED BY <1>3, <2>6, <2>7, <2>8 DEF TypeOK, Works
<1>4. ASSUME NEW k \in Conns, WorkEnds(k) PROVE TypeOK'
    BY <1>4 DEF TypeOK, WorkEnds
<1>5. ASSUME NEW j \in DOMAIN jobs, Answers(j) PROVE TypeOK'
    <2>1. jobs[j] \in [id : Requests, n : 1..(Total + 1)]
        BY <1>0, ElementOfSeq, LenProperties
    <2>2. jobs[j] \in Messages
        BY <1>5, <2>1, MessageType DEF Answers
    <2>3. SentToLb(lbConn, jobs[j]) \in [Conns -> Seq(Messages)]
        BY <2>2, SentType DEF IDs
    <2>4. jobs[j].n + 1 \in 1..(Total + 1) /\ Total + 1 \in 1..(Total + 1)
        BY <1>5, <2>1, Sizes DEF Answers
    <2>5. /\ jobs' \in Seq([id : Requests, n : 1..(Total + 1)])
          /\ Len(jobs') = Len(jobs)
        <3> DEFINE J == [id : Requests, n : 1..(Total + 1)]
        <3>1. PICK x \in 1..(Total + 1) : jobs' = [jobs EXCEPT ![j].n = x]
            BY <1>5, <2>4 DEF Answers
        <3>2. [jobs[j] EXCEPT !.n = x] \in J
            BY <2>1
        <3>3. jobs' = [jobs EXCEPT ![j] = [jobs[j] EXCEPT !.n = x]]
            BY <3>1
        <3>4. j \in 1..Len(jobs)
            BY <1>0, LenProperties
        <3> QED BY <1>0, <3>2, <3>3, <3>4, ExceptSeq
    <2> QED BY <1>0, <1>5, <2>3, <2>5 DEF TypeOK, Answers
<1>6. CASE Cut
    <2>1. conn \in Conns /\ cut' = cut \cup {conn}
        BY <1>6 DEF Cut
    <2>2. conn \in 1..made
        BY <1>0, <2>1, Sizes DEF Conns
    <2>3. toMs' \in [Conns -> Seq(IDs)] /\ toLb' \in [Conns -> Seq(Messages)]
        <3>1. PICK i \in 0..Len(toMs[conn]), j \in 0..Len(toLb[conn]) :
                 /\ toMs' = [toMs EXCEPT ![conn] = SubSeq(@, 1, i)]
                 /\ toLb' = [toLb EXCEPT ![conn] = SubSeq(@, 1, j)]
            BY <1>6 DEF Cut
        <3> QED BY <1>0, <2>1, <3>1, PrefixAt
    <2>4. cut' \subseteq 1..made
        BY <1>0, <2>1, <2>2
    <2> QED BY <1>6, <2>3, <2>4 DEF TypeOK, Cut
<1>7. ASSUME NEW g \in Gateways, GatewayLost(g) PROVE TypeOK'
    BY <1>7 DEF TypeOK, GatewayLost
<1> QED BY <1>1, <1>2, <1>3, <1>4, <1>5, <1>6, <1>7 DEF MicroserviceStep

LEMMA TypeStep == ConnInv /\ [Next]_vars => TypeOK'
<1> SUFFICES ASSUME ConnInv, [Next]_vars PROVE TypeOK'
    OBVIOUS
<1>1. CASE UNCHANGED vars
    BY <1>1 DEF ConnInv, TypeOK, vars, handlerVars, reqVars, loopVars, msVars, netVars
<1>2. CASE Next
    BY <1>2, HandlerType, LoopType, PeerType DEF ConnInv, Next
<1> QED BY <1>1, <1>2

-----------------------------------------------------------------------------
(* Queues of messages: where a marked element of a queue is after a step.   *)

\* Every element of t that is in B is one of s, and so is their order: t is s
\* without some of them, and with others that are not in B.
Shifted(t, s, B) ==
    \E d \in {0, 1} : \A i \in DOMAIN t :
        t[i] \in B => i + d \in DOMAIN s /\ s[i + d] = t[i]

\* ... and none of them is missing.
Moved(t, s, B) ==
    \E d \in {0, 1} :
        /\ \A i \in DOMAIN t : t[i] \in B => i + d \in DOMAIN s /\ s[i + d] = t[i]
        /\ \A i \in DOMAIN s : s[i] \in B => i - d \in DOMAIN t /\ t[i - d] = s[i]

LEMMA MovedSame ==
    ASSUME NEW T, NEW s \in Seq(T), NEW B
    PROVE  Moved(s, s, B) /\ Shifted(s, s, B)
<1>1. DOMAIN s = 1..Len(s) /\ Len(s) \in Nat
    BY LenProperties
<1>2. \A i \in DOMAIN s : i + 0 = i /\ i - 0 = i
    BY <1>1
<1> QED BY <1>2 DEF Moved, Shifted

LEMMA MovedShifts ==
    ASSUME NEW s, NEW t, NEW B, Moved(t, s, B)
    PROVE  Shifted(t, s, B)
BY DEF Moved, Shifted

\* What Append leaves where it is, and what it adds.
LEMMA AppendElements ==
    ASSUME NEW T, NEW s \in Seq(T), NEW e \in T
    PROVE  /\ Append(s, e) \in Seq(T) /\ Append(s, e) # <<>>
           /\ DOMAIN s = 1..Len(s) /\ Len(s) \in Nat
           /\ DOMAIN Append(s, e) = 1..(Len(s) + 1)
           /\ \A i \in DOMAIN s : i \in DOMAIN Append(s, e) /\ Append(s, e)[i] = s[i]
           /\ Append(s, e)[Len(s) + 1] = e
           /\ \A i \in DOMAIN Append(s, e) : i \in DOMAIN s \/ i = Len(s) + 1
<1>1. DOMAIN s = 1..Len(s) /\ Len(s) \in Nat
    BY LenProperties
<1>2. /\ Append(s, e) \in Seq(T) /\ Len(Append(s, e)) = Len(s) + 1
      /\ \A i \in 1..Len(s) : Append(s, e)[i] = s[i]
      /\ Append(s, e)[Len(s) + 1] = e
    BY AppendProperties
<1>3. DOMAIN Append(s, e) = 1..(Len(s) + 1)
    BY <1>2, LenProperties
<1>4. Append(s, e) # <<>>
    BY <1>1, <1>2, EmptySeq
<1>5. \A i \in 1..Len(s) : i \in 1..(Len(s) + 1)
    BY <1>1
<1>6. \A i \in 1..(Len(s) + 1) : i \in 1..Len(s) \/ i = Len(s) + 1
    BY <1>1
<1> QED BY <1>1, <1>2, <1>3, <1>4, <1>5, <1>6

LEMMA MovedAppend ==
    ASSUME NEW T, NEW s \in Seq(T), NEW e \in T, NEW B, e \notin B
    PROVE  Moved(Append(s, e), s, B)
<1>1. \A i \in DOMAIN s : i + 0 = i /\ i - 0 = i
    BY AppendElements
<1>2. \A i \in DOMAIN Append(s, e) : Append(s, e)[i] \in B =>
         i \in DOMAIN s /\ s[i] = Append(s, e)[i]
    BY AppendElements
<1>3. \A i \in DOMAIN s : i \in DOMAIN Append(s, e) /\ Append(s, e)[i] = s[i]
    BY AppendElements
<1> QED BY <1>1, <1>2, <1>3 DEF Moved

LEMMA ShiftedTail ==
    ASSUME NEW T, NEW s \in Seq(T), s # <<>>, NEW B
    PROVE  /\ Shifted(Tail(s), s, B)
           /\ Head(s) \notin B => Moved(Tail(s), s, B)
<1>1. /\ \A i \in DOMAIN Tail(s) : i + 1 \in DOMAIN s /\ Tail(s)[i] = s[i + 1]
      /\ DOMAIN Tail(s) = 1..(Len(s) - 1) /\ DOMAIN s = 1..Len(s) /\ Len(s) \in Nat
      /\ Head(s) = s[1]
    BY HeadType
<1>2. Shifted(Tail(s), s, B)
    BY <1>1 DEF Shifted
<1>3. ASSUME Head(s) \notin B, NEW i \in DOMAIN s, s[i] \in B
      PROVE  i - 1 \in DOMAIN Tail(s) /\ Tail(s)[i - 1] = s[i]
    <2>1. i # 1
        BY <1>1, <1>3
    <2>2. i - 1 \in DOMAIN Tail(s) /\ (i - 1) + 1 = i
        BY <1>1, <2>1
    <2> QED BY <1>1, <2>2
<1>4. Head(s) \notin B => Moved(Tail(s), s, B)
    BY <1>1, <1>3 DEF Moved
<1> QED BY <1>2, <1>4

LEMMA ShiftedPrefix ==
    ASSUME NEW T, NEW s \in Seq(T), NEW k \in 0..Len(s), NEW B
    PROVE  Shifted(SubSeq(s, 1, k), s, B)
<1>1. Len(s) \in Nat /\ DOMAIN s = 1..Len(s)
    BY LenProperties
<1>2. \A i \in 1..k : i \in 1..Len(s) /\ i + 0 = i
    BY <1>1
<1>3. \A i \in 1..k : s[i] \in T
    BY <1>2, ElementOfSeq
<1>4. /\ DOMAIN SubSeq(s, 1, k) = 1..k
      /\ \A i \in 1..k : SubSeq(s, 1, k)[i] = s[i]
    <2>1. /\ SubSeq(s, 1, k) \in Seq(T) /\ Len(SubSeq(s, 1, k)) = k
          /\ \A i \in 1..k : SubSeq(s, 1, k)[i] = s[1 + i - 1]
        BY <1>1, <1>3, SubSeqProperties
    <2>2. \A i \in 1..k : 1 + i - 1 = i
        OBVIOUS
    <2> QED BY <2>1, <2>2, LenProperties
<1> QED BY <1>1, <1>2, <1>4 DEF Shifted

-----------------------------------------------------------------------------
(* The messages of a request in the two directions of the connections.      *)

Of(r) == {m \in Messages : m.id = r}

LEMMA Sent ==
    ASSUME TypeOK, NEW k, NEW id \in IDs, NEW m \in Messages, NEW B, NEW l \in Conns
    PROVE  /\ id \notin B => Moved(SentToMs(k, id)[l], toMs[l], B)
           /\ m \notin B => Moved(SentToLb(k, m)[l], toLb[l], B)
           /\ l # k => SentToMs(k, id)[l] = toMs[l] /\ SentToLb(k, m)[l] = toLb[l]
<1>1. /\ toMs \in [Conns -> Seq(IDs)] /\ toLb \in [Conns -> Seq(Messages)]
      /\ toMs[l] \in Seq(IDs) /\ toLb[l] \in Seq(Messages)
    BY DEF TypeOK
<1>2. SentToMs(k, id)[l] \in {toMs[l], Append(toMs[l], id)}
    BY <1>1 DEF SentToMs
<1>3. SentToLb(k, m)[l] \in {toLb[l], Append(toLb[l], m)}
    BY <1>1 DEF SentToLb
<1>4. Moved(toMs[l], toMs[l], B) /\ Moved(toLb[l], toLb[l], B)
    BY <1>1, MovedSame
<1>5. ASSUME id \notin B PROVE Moved(SentToMs(k, id)[l], toMs[l], B)
    <2>1. Moved(Append(toMs[l], id), toMs[l], B)
        BY <1>1, <1>5, MovedAppend
    <2> QED BY <1>2, <1>4, <2>1
<1>6. ASSUME m \notin B PROVE Moved(SentToLb(k, m)[l], toLb[l], B)
    <2>1. Moved(Append(toLb[l], m), toLb[l], B)
        BY <1>1, <1>6, MovedAppend
    <2> QED BY <1>3, <1>4, <2>1
<1>7. l # k => SentToMs(k, id)[l] = toMs[l] /\ SentToLb(k, m)[l] = toLb[l]
    BY <1>1 DEF SentToMs, SentToLb
<1> QED BY <1>5, <1>6, <1>7

LEMMA Popped ==
    ASSUME NEW T, NEW f \in [Conns -> Seq(T)], NEW k \in Conns, f[k] # <<>>, NEW B,
           NEW l \in Conns
    PROVE  /\ Shifted([f EXCEPT ![k] = Tail(@)][l], f[l], B)
           /\ Head(f[k]) \notin B => Moved([f EXCEPT ![k] = Tail(@)][l], f[l], B)
           /\ l # k => [f EXCEPT ![k] = Tail(@)][l] = f[l]
<1>1. f[l] \in Seq(T) /\ f[k] \in Seq(T)
    OBVIOUS
<1>2. CASE l = k
    BY <1>1, <1>2, ShiftedTail
<1>3. CASE l # k
    BY <1>1, <1>3, MovedSame
<1> QED BY <1>2, <1>3

\* A cut leaves a prefix of what was in flight.
LEMMA CutShort ==
    ASSUME TypeOK, Cut, NEW B, NEW l \in Conns
    PROVE  /\ Shifted(toMs'[l], toMs[l], B) /\ Shifted(toLb'[l], toLb[l], B)
           /\ l # conn => toMs'[l] = toMs[l] /\ toLb'[l] = toLb[l]
           /\ conn \in Conns /\ cut' # {} /\ cut' = cut \cup {conn}
<1>1. PICK i \in 0..Len(toMs[conn]), j \in 0..Len(toLb[conn]) :
         /\ toMs' = [toMs EXCEPT ![conn] = SubSeq(@, 1, i)]
         /\ toLb' = [toLb EXCEPT ![conn] = SubSeq(@, 1, j)]
    BY DEF Cut
<1>2. /\ toMs \in [Conns -> Seq(IDs)] /\ toLb \in [Conns -> Seq(Messages)]
      /\ conn \in Conns /\ cut' = cut \cup {conn}
    BY DEF TypeOK, Cut
<1>3. /\ Shifted(SubSeq(toMs[conn], 1, i), toMs[conn], B)
      /\ Shifted(SubSeq(toLb[conn], 1, j), toLb[conn], B)
    <2>1. toMs[conn] \in Seq(IDs) /\ toLb[conn] \in Seq(Messages)
        BY <1>2
    <2> QED BY <2>1, ShiftedPrefix
<1>4. Shifted(toMs[l], toMs[l], B) /\ Shifted(toLb[l], toLb[l], B)
    BY <1>2, MovedSame
<1>5. l # conn => toMs'[l] = toMs[l] /\ toLb'[l] = toLb[l]
    BY <1>1, <1>2
<1>6. l = conn => toMs'[l] = SubSeq(toMs[conn], 1, i) /\ toLb'[l] = SubSeq(toLb[conn], 1, j)
    BY <1>1, <1>2
<1> QED BY <1>2, <1>3, <1>4, <1>5, <1>6

\* A Work goroutine has a LbConn to answer over, and gets an ID from the
\* connection it reads.
LEMMA Working ==
    ASSUME ConnInv, NEW k \in Conns, Works(k)
    PROVE  /\ lbConn \in Conns /\ lbConn \in 1..made
           /\ reading[k] \in Conns /\ toMs[reading[k]] # <<>>
           /\ toMs \in [Conns -> Seq(IDs)] /\ Head(toMs[reading[k]]) \in IDs
           /\ toMs' = [toMs EXCEPT ![reading[k]] = Tail(@)]
           /\ Head(toMs[reading[k]]) = Hello => toLb' = SentToLb(lbConn, Reply(Hello, 0))
           /\ Head(toMs[reading[k]]) # Hello => toLb' = toLb
<1>1. /\ toMs \in [Conns -> Seq(IDs)] /\ reading \in [Conns -> Conns]
      /\ lbConn \in 0..made /\ made \in 0..MaxConns /\ lbConn # 0
    BY DEF ConnInv, TypeOK, LbConnIsRead, Works
<1>2. reading[k] \in Conns /\ toMs[reading[k]] # <<>>
    BY <1>1 DEF Works
<1>3. Head(toMs[reading[k]]) \in IDs
    BY <1>1, <1>2, HeadType
<1>4. lbConn \in Conns /\ lbConn \in 1..made
    BY <1>1, Sizes DEF Conns
<1> QED BY <1>1, <1>2, <1>3, <1>4 DEF Works

LEMMA Answering ==
    ASSUME ConnInv, NEW j \in DOMAIN jobs, Answers(j)
    PROVE  /\ jobs[j] \in [id : Requests, n : 1..(Total + 1)] /\ jobs[j] \in Messages
           /\ jobs[j].id \in Requests /\ jobs[j].n \in 1..Total
           /\ toLb' = SentToLb(lbConn, jobs[j])
           /\ lbConn \in 1..made /\ lbConn \in Conns
<1>1. /\ jobs \in Seq([id : Requests, n : 1..(Total + 1)]) /\ DOMAIN jobs = 1..Len(jobs)
      /\ lbConn \in 0..made /\ made \in 0..MaxConns
    BY LenProperties DEF ConnInv, TypeOK
<1>2. jobs[j] \in [id : Requests, n : 1..(Total + 1)]
    BY <1>1, ElementOfSeq
<1>3. jobs[j].n <= Total /\ toLb' = SentToLb(lbConn, jobs[j])
    BY DEF Answers
<1>4. lbConn # 0
    BY <1>1, EmptySeq DEF ConnInv, LbConnIsRead
<1>5. lbConn \in 1..made /\ lbConn \in Conns
    BY <1>1, <1>4, Sizes DEF Conns
<1>6. jobs[j].n \in 1..Total
    BY <1>2, <1>3, Sizes
<1> QED BY <1>2, <1>3, <1>5, <1>6, MessageType

\* What a step does to the answers to r in flight: the microservice sends one,
\* the receive loop takes the first, or they stay in order, none is new, and
\* only a cut loses one.
LEMMA AnswersMove ==
    ASSUME ConnInv, [Next]_vars, NEW r \in Requests
    PROVE  \/ \E j \in DOMAIN jobs : Answers(j) /\ jobs[j].id = r
           \/ /\ \A l \in Conns : Shifted(toLb'[l], toLb[l], Of(r))
              /\ \/ cut' # {}
                 \/ (Reads \/ AnswersStray) /\ Head(toLb[conn]).id = r
                 \/ \A l \in Conns : Moved(toLb'[l], toLb[l], Of(r))
<1> DEFINE M == \A l \in Conns : Moved(toLb'[l], toLb[l], Of(r))
           S == \A l \in Conns : Shifted(toLb'[l], toLb[l], Of(r))
           G == \/ \E j \in DOMAIN jobs : Answers(j) /\ jobs[j].id = r
                \/ /\ S
                   /\ \/ cut' # {}
                      \/ (Reads \/ AnswersStray) /\ Head(toLb[conn]).id = r
                      \/ M
<1> SUFFICES G
    OBVIOUS
<1>a. M => G
    BY MovedShifts
<1>b. ASSUME toLb' = toLb PROVE G
    <2>1. \A l \in Conns : toLb[l] \in Seq(Messages)
        BY DEF ConnInv, TypeOK
    <2>2. \A l \in Conns : Moved(toLb[l], toLb[l], Of(r))
        BY <2>1, MovedSame
    <2> QED BY <1>a, <1>b, <2>2
<1> USE DEF handlerVars, reqVars, loopVars, msVars, netVars
<1>c. Reply(Hello, 0) \in Messages /\ Reply(Hello, 0) \notin Of(r)
    BY MessageType, Sizes DEF Of, Reply
<1>d. ASSUME loop # "off", toLb[conn] # <<>>, toLb' = [toLb EXCEPT ![conn] = Tail(@)]
      PROVE  /\ S /\ conn \in Conns
             /\ Head(toLb[conn]).id # r => M
    <2>1. conn \in Conns /\ toLb \in [Conns -> Seq(Messages)]
        BY <1>d, NextMessage DEF ConnInv, TypeOK
    <2>2. Head(toLb[conn]).id # r => Head(toLb[conn]) \notin Of(r)
        BY DEF Of
    <2> QED BY <1>d, <2>1, <2>2, Popped
<1>e. ASSUME NEW k, toLb' = SentToLb(k, Reply(Hello, 0)) PROVE G
    <2>1. \A l \in Conns : Moved(SentToLb(k, Reply(Hello, 0))[l], toLb[l], Of(r))
        BY <1>c, Sent DEF ConnInv, IDs
    <2> QED BY <1>a, <1>e, <2>1
<1> HIDE DEF G, M, S
<1>1. ASSUME NEW q \in Requests, HandlerStep(q) \/ \E g \in Gateways : Arrives(q, g)
      PROVE  G
    <2>1. toLb' = toLb
        BY <1>1 DEF HandlerStep, Arrives, Refuses, Asks, Takes, Forwards, GivesUp, Finishes
    <2> QED BY <2>1, <1>b
<1>2. ASSUME NEW g \in Gateways, GatewayLost(g) PROVE G
    BY <1>2, <1>b DEF GatewayLost
<1>3. CASE Connects \/ ConnectTimesOut \/ Delivers \/ Breaks \/ Redials \/ RedialFails
           \/ Greets \/ Restart
    <2>1. toLb' = toLb
        BY <1>3 DEF Connects, ConnectTimesOut, Delivers, Breaks, Redials, RedialFails,
                    Greets, Restart
    <2> QED BY <2>1, <1>b
<1>4. CASE Registers
    <2>1. S /\ (Head(toLb[conn]).id # r => M)
        BY <1>4, <1>d DEF Registers
    <2>2. Head(toLb[conn]).id # r
        BY <1>4, Sizes DEF Registers
    <2> QED BY <2>1, <2>2, <1>a
<1>5. CASE Reads
    <2>1. S /\ (Head(toLb[conn]).id # r => M)
        BY <1>5, <1>d DEF Reads
    <2> QED BY <1>5, <2>1 DEF G
<1>6. CASE AnswersStray
    <2>1. S /\ (Head(toLb[conn]).id # r => M)
        BY <1>6, <1>d DEF AnswersStray
    <2> QED BY <1>6, <2>1 DEF G
<1>7. CASE Greeted
    <2>1. cut' # {}
        BY <1>7 DEF Greeted, ConnInv, OneConnection
    <2>2. CASE toLb' = toLb
        BY <1>b, <2>2
    <2>3. CASE toLb[conn] # <<>> /\ toLb' = [toLb EXCEPT ![conn] = Tail(@)]
        <3>1. S
            BY <1>7, <1>d, <2>3 DEF Greeted
        <3> QED BY <2>1, <3>1 DEF G
    <2> QED BY <1>7, <2>2, <2>3 DEF Greeted
<1>8. ASSUME NEW k \in Conns, MicroserviceStep(k) PROVE G
    <2>1. CASE Welcomes(k)
        BY <1>e, <2>1 DEF Welcomes
    <2>2. CASE TurnsAway(k) \/ WorkEnds(k)
        BY <1>b, <2>2 DEF TurnsAway, WorkEnds
    <2>3. CASE Works(k)
        BY <1>b, <1>e, <2>3, Working
    <2> QED BY <1>8, <2>1, <2>2, <2>3 DEF MicroserviceStep
<1>9. ASSUME NEW j \in DOMAIN jobs, Answers(j) PROVE G
    <2>1. CASE jobs[j].id = r
        BY <1>9, <2>1 DEF G
    <2>2. CASE jobs[j].id # r
        <3>1. jobs[j] \in Messages /\ toLb' = SentToLb(lbConn, jobs[j])
            BY <1>9, Answering
        <3>2. jobs[j] \notin Of(r)
            BY <2>2 DEF Of
        <3>3. \A l \in Conns : Moved(SentToLb(lbConn, jobs[j])[l], toLb[l], Of(r))
            BY <3>1, <3>2, Sent DEF ConnInv, IDs
        <3> QED BY <1>a, <3>1, <3>3 DEF M
    <2> QED BY <2>1, <2>2
<1>10. CASE Cut
    <2>1. S /\ cut' # {}
        <3>1. conn \in Conns /\ cut' # {}
            BY <1>10 DEF Cut
        <3>2. \A l \in Conns : Shifted(toLb'[l], toLb[l], Of(r))
            BY <1>10, CutShort DEF ConnInv
        <3> QED BY <3>1, <3>2 DEF S
    <2> QED BY <2>1 DEF G
<1>11. CASE UNCHANGED vars
    BY <1>11, <1>b DEF vars
<1>12. CASE Next
    BY <1>12, <1>1, <1>2, <1>3, <1>4, <1>5, <1>6, <1>7, <1>8, <1>9, <1>10 DEF Next, LoopStep
<1> QED BY <1>11, <1>12

\* What a step does to r on its way: a handler sends it, the receive loop sends
\* back the ID of a stray answer, Work gets it, or it stays where it is unless
\* a cut loses it.
LEMMA RequestsMove ==
    ASSUME ConnInv, [Next]_vars, NEW r \in Requests
    PROVE  \/ Asks(r)
           \/ AnswersStray /\ Head(toLb[conn]).id = r
           \/ /\ \A l \in Conns : Shifted(toMs'[l], toMs[l], {r})
              /\ \/ cut' # {}
                 \/ \E k \in Conns : Works(k) /\ Head(toMs[reading[k]]) = r
                 \/ \A l \in Conns : Moved(toMs'[l], toMs[l], {r})
<1> DEFINE M == \A l \in Conns : Moved(toMs'[l], toMs[l], {r})
           S == \A l \in Conns : Shifted(toMs'[l], toMs[l], {r})
           G == \/ Asks(r)
                \/ AnswersStray /\ Head(toLb[conn]).id = r
                \/ /\ S
                   /\ \/ cut' # {}
                      \/ \E k \in Conns : Works(k) /\ Head(toMs[reading[k]]) = r
                      \/ M
<1> SUFFICES G
    OBVIOUS
<1>0. toMs \in [Conns -> Seq(IDs)] /\ Hello \in IDs /\ Hello \notin {r} /\ TypeOK
    BY Sizes DEF ConnInv, TypeOK, IDs
<1>a. M => G
    BY MovedShifts
<1>b. ASSUME toMs' = toMs PROVE G
    <2>1. \A l \in Conns : Moved(toMs[l], toMs[l], {r})
        BY <1>0, MovedSame
    <2> QED BY <1>a, <1>b, <2>1
<1> USE DEF handlerVars, reqVars, loopVars, msVars, netVars
<1>c. ASSUME NEW k, NEW id \in IDs, id # r, toMs' = SentToMs(k, id) PROVE G
    <2>1. \A l \in Conns : Moved(SentToMs(k, id)[l], toMs[l], {r})
        BY <1>0, <1>c, Sent, MessageType
    <2> QED BY <1>a, <1>c, <2>1
<1> HIDE DEF G, M, S
<1>1. ASSUME NEW q \in Requests, HandlerStep(q) \/ \E g \in Gateways : Arrives(q, g)
      PROVE  G
    <2>1. CASE Asks(q)
        <3>1. CASE q = r
            BY <2>1, <3>1 DEF G
        <3>2. CASE q # r
            BY <1>b, <1>c, <2>1, <3>2 DEF Asks, IDs
        <3> QED BY <3>1, <3>2
    <2>2. CASE ~Asks(q)
        <3>1. toMs' = toMs
            BY <1>1, <2>2 DEF HandlerStep, Arrives, Refuses, Takes, Forwards, GivesUp, Finishes
        <3> QED BY <3>1, <1>b
    <2> QED BY <2>1, <2>2
<1>2. ASSUME NEW g \in Gateways, GatewayLost(g) PROVE G
    BY <1>2, <1>b DEF GatewayLost
<1>3. CASE ConnectTimesOut \/ Registers \/ Reads \/ Delivers \/ Breaks \/ Redials
           \/ RedialFails \/ Greeted \/ Restart
    <2>1. toMs' = toMs
        BY <1>3 DEF ConnectTimesOut, Registers, Reads, Delivers, Breaks, Redials,
                    RedialFails, Greeted, Restart
    <2> QED BY <2>1, <1>b
<1>4. CASE Connects
    <2>1. made \in Nat /\ made < MaxConns /\ toMs' = [toMs EXCEPT ![made + 1] = <<Hello>>]
        BY <1>4, Sizes DEF Connects, ConnInv, TypeOK
    <2>2. made + 1 \in Conns /\ toMs[made + 1] = <<>>
        <3>1. made + 1 \in Conns /\ made + 1 > made
            BY <2>1, Sizes DEF Conns
        <3> QED BY <3>1 DEF ConnInv, OneConnection
    <2>3. <<Hello>> = Append(<<>>, Hello) /\ <<>> \in Seq(IDs)
        OBVIOUS
    <2>4. ASSUME NEW l \in Conns PROVE Moved(toMs'[l], toMs[l], {r})
        <3>1. CASE l = made + 1
            BY <1>0, <2>1, <2>2, <2>3, <3>1, MovedAppend
        <3>2. CASE l # made + 1
            BY <1>0, <2>1, <3>2, MovedSame
        <3> QED BY <3>1, <3>2
    <2> QED BY <1>a, <2>4 DEF M
<1>5. CASE AnswersStray
    <2>1. Head(toLb[conn]).id \in IDs /\ toMs' = SentToMs(conn, Head(toLb[conn]).id)
        BY <1>5, NextMessage DEF AnswersStray, ConnInv
    <2> QED BY <1>5, <1>c, <2>1 DEF G
<1>6. CASE Greets
    BY <1>0, <1>6, <1>c DEF Greets
<1>7. ASSUME NEW k \in Conns, MicroserviceStep(k) PROVE G
    <2>1. CASE Welcomes(k)
        <3>1. /\ toMs[k] # <<>> /\ Head(toMs[k]) \notin {r}
              /\ toMs' = [toMs EXCEPT ![k] = Tail(@)]
            BY <1>0, <2>1 DEF Welcomes
        <3>2. \A l \in Conns : Moved([toMs EXCEPT ![k] = Tail(@)][l], toMs[l], {r})
            BY <1>0, <3>1, Popped
        <3> QED BY <1>a, <3>1, <3>2 DEF M
    <2>2. CASE TurnsAway(k) \/ WorkEnds(k)
        BY <1>b, <2>2 DEF TurnsAway, WorkEnds
    <2>3. CASE Works(k)
        <3>1. /\ reading[k] \in Conns /\ toMs[reading[k]] # <<>>
              /\ toMs' = [toMs EXCEPT ![reading[k]] = Tail(@)]
            BY <2>3, Working
        <3>2. S
            <4>1. \A l \in Conns :
                     Shifted([toMs EXCEPT ![reading[k]] = Tail(@)][l], toMs[l], {r})
                BY <1>0, <3>1, Popped
            <4> QED BY <3>1, <4>1 DEF S
        <3>3. ASSUME Head(toMs[reading[k]]) # r PROVE M
            <4>1. \A l \in Conns :
                     Moved([toMs EXCEPT ![reading[k]] = Tail(@)][l], toMs[l], {r})
                BY <1>0, <3>1, <3>3, Popped
            <4> QED BY <3>1, <4>1 DEF M
        <3> QED BY <2>3, <3>2, <3>3 DEF G
    <2> QED BY <1>7, <2>1, <2>2, <2>3 DEF MicroserviceStep
<1>8. ASSUME NEW j \in DOMAIN jobs, Answers(j) PROVE G
    BY <1>8, <1>b DEF Answers
<1>9. CASE Cut
    <2>1. S /\ cut' # {}
        <3>1. conn \in Conns /\ cut' # {}
            BY <1>9 DEF Cut
        <3>2. \A l \in Conns : Shifted(toMs'[l], toMs[l], {r})
            BY <1>0, <1>9, CutShort
        <3> QED BY <3>1, <3>2 DEF S
    <2> QED BY <2>1 DEF G
<1>10. CASE UNCHANGED vars
    BY <1>10, <1>b DEF vars
<1>11. CASE Next
    BY <1>11, <1>1, <1>2, <1>3, <1>4, <1>5, <1>6, <1>7, <1>8, <1>9 DEF Next, LoopStep
<1> QED BY <1>10, <1>11

-----------------------------------------------------------------------------
(* The invariant of the connections.                                        *)

LEMMA InitConn == Init => ConnInv
<1> SUFFICES ASSUME Init PROVE ConnInv
    OBVIOUS
<1>1. OneConnection
    BY Sizes DEF Init, OneConnection, Conns
<1>2. LbConnIsRead
    BY Sizes DEF Init, LbConnIsRead, Conns
<1>3. NumberedAnswers
    <2>1. \A k \in Conns : toLb[k] = <<>>
        BY DEF Init
    <2> QED BY <2>1 DEF Init, NumberedAnswers
<1> QED BY <1>1, <1>2, <1>3, InitType DEF ConnInv

LEMMA MadeGrows == [Next]_vars => made' \in {made, made + 1}
<1> SUFFICES ASSUME [Next]_vars PROVE made' \in {made, made + 1}
    OBVIOUS
<1>1. CASE UNCHANGED vars BY <1>1 DEF vars, loopVars
<1>2. CASE Next
    BY <1>2 DEF Next, HandlerStep, Arrives, Refuses, Asks, Takes, Forwards, GivesUp,
        Finishes, GatewayLost, Connects, ConnectTimesOut, LoopStep, Registers, Reads,
        AnswersStray, Delivers, Breaks, Redials, RedialFails, Greets, Greeted,
        MicroserviceStep, Welcomes, TurnsAway, Works, WorkEnds, Answers, Cut, Restart,
        loopVars
<1> QED BY <1>1, <1>2

\* Nothing is in flight on a connection that is not made yet.
LEMMA UnmadeEmpty ==
    ASSUME ConnInv, [Next]_vars, NEW k \in Conns, k > made'
    PROVE  toMs'[k] = <<>> /\ toLb'[k] = <<>>
<1>0. /\ toMs \in [Conns -> Seq(IDs)] /\ toLb \in [Conns -> Seq(Messages)]
      /\ made \in Nat /\ conn \in 0..made /\ lbConn \in 0..made /\ k \in Nat
      /\ Hello \in IDs /\ Reply(Hello, 0) \in Messages
    <2>1. k \in 1..MaxConns /\ MaxConns \in Nat /\ made \in 0..MaxConns
        BY Sizes DEF Conns, ConnInv, TypeOK
    <2>2. k \in Nat /\ made \in Nat
        BY <2>1
    <2>3. Hello \in IDs /\ Reply(Hello, 0) \in Messages
        BY MessageType DEF IDs
    <2> QED BY <2>2, <2>3 DEF ConnInv, TypeOK
<1>1. made' \in {made, made + 1}
    BY MadeGrows
<1>2. k > made /\ k # conn /\ k # lbConn
    BY <1>0, <1>1
<1>3. toMs[k] = <<>> /\ toLb[k] = <<>>
    BY <1>2 DEF ConnInv, OneConnection
<1>4. \A x, id : id \in IDs /\ x # k => SentToMs(x, id)[k] = toMs[k]
    BY <1>0 DEF SentToMs
<1>5. \A x, m : x # k => SentToLb(x, m)[k] = toLb[k]
    BY <1>0 DEF SentToLb
<1> USE DEF handlerVars, reqVars, loopVars, msVars, netVars
<1>6. toMs'[k] = toMs[k]
    <2>1. ASSUME NEW q \in Requests, Asks(q) PROVE toMs'[k] = toMs[k]
        BY <2>1, <1>2, <1>4 DEF Asks, IDs
    <2>2. CASE Connects
        <3>1. made' = made + 1 /\ toMs' = [toMs EXCEPT ![made + 1] = <<Hello>>]
            BY <2>2 DEF Connects
        <3>2. k # made + 1
            BY <1>0, <3>1
        <3> QED BY <1>0, <3>1, <3>2
    <2>3. CASE AnswersStray
        <3>1. Head(toLb[conn]).id \in IDs
            BY <2>3, NextMessage DEF AnswersStray, ConnInv
        <3> QED BY <2>3, <1>2, <1>4, <3>1 DEF AnswersStray
    <2>4. CASE Greets
        BY <2>4, <1>0, <1>2, <1>4 DEF Greets
    <2>5. ASSUME NEW l \in Conns, Welcomes(l) PROVE toMs'[k] = toMs[k]
        BY <2>5, <1>0, <1>3 DEF Welcomes
    <2>6. ASSUME NEW l \in Conns, Works(l) PROVE toMs'[k] = toMs[k]
        BY <2>6, <1>0, <1>3, Working
    <2>7. CASE Cut
        BY <2>7, <1>2, CutShort DEF ConnInv
    <2>8. CASE UNCHANGED vars BY <2>8 DEF vars
    <2>9. CASE Next
        BY <2>9, <2>1, <2>2, <2>3, <2>4, <2>5, <2>6, <2>7
        DEF Next, HandlerStep, Arrives, Refuses, Takes, Forwards, GivesUp,
            Finishes, GatewayLost, ConnectTimesOut, LoopStep, Registers, Reads,
            Delivers, Breaks, Redials, RedialFails, Greeted,
            MicroserviceStep, TurnsAway, WorkEnds, Answers, Restart
    <2> QED BY <2>8, <2>9
<1>7. toLb'[k] = toLb[k]
    <2>1. CASE Registers \/ Reads \/ AnswersStray \/ Greeted
        <3>1. toLb' \in {toLb, [toLb EXCEPT ![conn] = Tail(@)]}
            BY <2>1 DEF Registers, Reads, AnswersStray, Greeted
        <3> QED BY <1>0, <1>2, <3>1
    <2>2. ASSUME NEW l \in Conns, Welcomes(l) PROVE toLb'[k] = toLb[k]
        <3>1. l # k
            BY <2>2, <1>3 DEF Welcomes
        <3> QED BY <2>2, <1>5, <3>1 DEF Welcomes
    <2>3. ASSUME NEW l \in Conns, Works(l) PROVE toLb'[k] = toLb[k]
        <3>1. toLb' \in {toLb, SentToLb(lbConn, Reply(Hello, 0))}
            BY <2>3, Working
        <3> QED BY <1>2, <1>5, <3>1
    <2>4. ASSUME NEW j \in DOMAIN jobs, Answers(j) PROVE toLb'[k] = toLb[k]
        BY <2>4, <1>2, <1>5 DEF Answers
    <2>5. CASE Cut
        BY <2>5, <1>2, CutShort DEF ConnInv
    <2>6. CASE UNCHANGED vars BY <2>6 DEF vars
    <2>7. CASE Next
        BY <2>7, <2>1, <2>2, <2>3, <2>4, <2>5
        DEF Next, HandlerStep, Arrives, Refuses, Asks, Takes, Forwards, GivesUp,
            Finishes, GatewayLost, Connects, ConnectTimesOut, LoopStep,
            Delivers, Breaks, Redials, RedialFails, Greets,
            MicroserviceStep, TurnsAway, WorkEnds, Restart
    <2> QED BY <2>6, <2>7
<1> QED BY <1>3, <1>6, <1>7

LEMMA OneConnectionStep == ConnInv /\ [Next]_vars => OneConnection'
<1> SUFFICES ASSUME ConnInv, [Next]_vars PROVE OneConnection'
    OBVIOUS
<1>0. /\ made \in Nat /\ conn \in 0..made /\ cut \subseteq 1..made /\ OneConnection
      /\ toLb \in [Conns -> Seq(Messages)]
    BY Sizes DEF ConnInv, TypeOK
<1>e. \A k \in Conns : k > made' => toMs'[k] = <<>> /\ toLb'[k] = <<>>
    BY UnmadeEmpty
<1> USE DEF handlerVars, reqVars, loopVars, msVars, netVars, OneConnection
\* Steps that leave the receive loop and its connection alone.
<1>a. ASSUME loop' = loop, conn' = conn, made' = made, registered' = registered,
             cut' = cut, connector = "off" <=> connector' = "off",
             loop = "redial" => toLb'[conn] = toLb[conn]
      PROVE  OneConnection'
    BY <1>0, <1>a, <1>e
<1>1. ASSUME NEW q \in Requests, HandlerStep(q) \/ \E g \in Gateways : Arrives(q, g)
      PROVE  OneConnection'
    <2>1. /\ loop' = loop /\ conn' = conn /\ made' = made /\ registered' = registered
          /\ cut' = cut /\ connector' = connector /\ toLb' = toLb
        BY <1>1 DEF HandlerStep, Arrives, Refuses, Asks, Takes, Forwards, GivesUp, Finishes
    <2> QED BY <1>a, <2>1
<1>2. ASSUME NEW g \in Gateways, GatewayLost(g) PROVE OneConnection'
    BY <1>2, <1>a DEF GatewayLost
<1>3. CASE Connects
    <2>1. /\ conn = 0 /\ conn' = made + 1 /\ made' = made + 1 /\ loop' = "read"
          /\ connector' = "hello" /\ cut' = cut
        BY <1>0, <1>3 DEF Connects
    <2>2. (1..made') \ cut' \subseteq {conn'}
        BY <1>0, <2>1
    <2> QED BY <1>0, <1>e, <2>1, <2>2
<1>4. CASE ConnectTimesOut
    BY <1>4, <1>a DEF ConnectTimesOut
<1>5. CASE Registers
    BY <1>0, <1>5, <1>e DEF Registers
<1>6. CASE Reads
    BY <1>0, <1>6, <1>e DEF Reads
<1>7. CASE AnswersStray
    BY <1>7, <1>a DEF AnswersStray
<1>8. CASE Delivers
    BY <1>0, <1>8, <1>e DEF Delivers
<1>9. CASE Breaks
    BY <1>0, <1>9, <1>e DEF Breaks
<1>10. CASE Redials
    <2>1. /\ conn = made /\ conn \in cut /\ conn' = made + 1 /\ made' = made + 1
          /\ loop' = "greet" /\ cut' = cut /\ connector' = connector /\ registered' = registered
          /\ connector # "off"
        BY <1>0, <1>10 DEF Redials
    <2>2. (1..made') \ cut' \subseteq {conn'}
        BY <1>0, <2>1
    <2> QED BY <1>0, <1>e, <2>1, <2>2
<1>11. CASE RedialFails
    BY <1>0, <1>11, <1>e DEF RedialFails
<1>12. CASE Greets
    BY <1>0, <1>12, <1>e DEF Greets
<1>13. CASE Greeted
    BY <1>0, <1>13, <1>e DEF Greeted
<1>14. ASSUME NEW k \in Conns, MicroserviceStep(k) PROVE OneConnection'
    <2>1. /\ loop' = loop /\ conn' = conn /\ made' = made /\ registered' = registered
          /\ cut' = cut /\ connector' = connector
        BY <1>14 DEF MicroserviceStep, Welcomes, TurnsAway, Works, WorkEnds
    <2>2. ASSUME loop = "redial" PROVE toLb'[conn] = toLb[conn]
        <3>1. conn \in cut
            BY <1>0, <2>2
        <3>2. \A x, m : SentToLb(x, m)[conn] = toLb[conn]
            BY <1>0, <3>1 DEF SentToLb
        <3>3. toLb' = toLb \/ \E x, m : toLb' = SentToLb(x, m)
            BY <1>14 DEF MicroserviceStep, Welcomes, TurnsAway, Works, WorkEnds
        <3> QED BY <3>2, <3>3
    <2> QED BY <1>a, <2>1, <2>2
<1>15. ASSUME NEW j \in DOMAIN jobs, Answers(j) PROVE OneConnection'
    <2>1. ASSUME loop = "redial" PROVE toLb'[conn] = toLb[conn]
        <3>1. conn \in cut
            BY <1>0, <2>1
        <3> QED BY <1>0, <1>15, <3>1 DEF SentToLb, Answers
    <2> QED BY <1>15, <1>a, <2>1 DEF Answers
<1>16. CASE Cut
    BY <1>0, <1>16, <1>e DEF Cut
<1>17. CASE Restart
    <2>1. /\ conn' = 0 /\ made' = made /\ loop' = "off" /\ connector' = "off"
          /\ cut' = cut \cup 1..made /\ ~registered'
        BY <1>17 DEF Restart
    <2> QED BY <1>0, <1>e, <2>1
<1>18. CASE UNCHANGED vars
    BY <1>18, <1>a DEF vars
<1>19. CASE Next
    BY <1>19, <1>1, <1>2, <1>3, <1>4, <1>5, <1>6, <1>7, <1>8, <1>9, <1>10, <1>11, <1>12,
       <1>13, <1>14, <1>15, <1>16, <1>17 DEF Next, LoopStep
<1> QED BY <1>18, <1>19

LEMMA LbConnIsReadStep == ConnInv /\ [Next]_vars => LbConnIsRead'
<1> SUFFICES ASSUME ConnInv, [Next]_vars PROVE LbConnIsRead'
    OBVIOUS
<1>0. /\ made \in Nat /\ lbConn \in 0..made /\ LbConnIsRead
      /\ accepted \in [Conns -> {"none", "new", "work", "returned"}]
      /\ reading \in [Conns -> Conns] /\ Conns \subseteq Nat /\ 0 \notin Conns
    <2>1. made \in Nat
        BY Sizes DEF ConnInv, TypeOK
    <2>2. Conns \subseteq Nat /\ 0 \notin Conns
        BY Sizes DEF Conns
    <2> QED BY <2>1, <2>2 DEF ConnInv, TypeOK
<1> USE DEF handlerVars, reqVars, loopVars, msVars, netVars
\* Steps that leave the microservice alone.
<1>a. ASSUME made' = made, accepted' = accepted, reading' = reading, lbConn' = lbConn,
             jobs' = jobs, cut \subseteq cut'
      PROVE  LbConnIsRead'
    BY <1>0, <1>a DEF LbConnIsRead
\* A connection is made, and is the microservice's to greet.
<1>b. ASSUME made' = made + 1, made + 1 \in Conns,
             accepted' = [accepted EXCEPT ![made + 1] = "new"],
             reading' = reading, lbConn' = lbConn, jobs' = jobs, cut' = cut
      PROVE  LbConnIsRead'
    <2>1. accepted[made + 1] = "none" /\ lbConn # made + 1
        BY <1>0, <1>b DEF LbConnIsRead
    <2>2. ASSUME NEW k \in Conns
          PROVE  /\ accepted'[k] # "none" => k <= made'
                 /\ accepted'[k] \in {"none", "new"} => reading'[k] = k
                 /\ accepted'[k] = "work" => lbConn' # 0
        <3>1. CASE k = made + 1
            <4>1. accepted'[k] = "new" /\ reading[k] = k /\ k <= made'
                BY <1>0, <1>b, <2>1, <3>1 DEF LbConnIsRead
            <4> QED BY <4>1, <1>b
        <3>2. CASE k # made + 1
            <4>1. accepted'[k] = accepted[k]
                BY <1>0, <1>b, <3>2
            <4> QED BY <1>0, <1>b, <4>1 DEF LbConnIsRead
        <3> QED BY <3>1, <3>2
    <2>3. lbConn' # 0 /\ lbConn' \notin cut' =>
            accepted'[lbConn'] = "work" /\ reading'[lbConn'] = lbConn'
        BY <1>0, <1>b, <2>1 DEF LbConnIsRead
    <2>4. jobs' # <<>> => lbConn' # 0
        BY <1>b, <1>0 DEF LbConnIsRead
    <2> QED BY <2>2, <2>3, <2>4 DEF LbConnIsRead
<1>m. made < MaxConns => made + 1 \in Conns
    BY <1>0, Sizes DEF Conns
<1>1. ASSUME NEW q \in Requests, HandlerStep(q) \/ \E g \in Gateways : Arrives(q, g)
      PROVE  LbConnIsRead'
    <2>1. UNCHANGED <<made, msVars, cut>>
        BY <1>1 DEF HandlerStep, Arrives, Refuses, Asks, Takes, Forwards, GivesUp, Finishes
    <2> QED BY <1>a, <2>1
<1>2. ASSUME NEW g \in Gateways, GatewayLost(g) PROVE LbConnIsRead'
    BY <1>2, <1>a DEF GatewayLost
<1>3. CASE Connects
    BY <1>3, <1>b, <1>m DEF Connects
<1>4. CASE Redials
    BY <1>4, <1>b, <1>m DEF Redials
<1>5. CASE \/ ConnectTimesOut \/ Registers \/ Reads \/ AnswersStray \/ Delivers \/ Breaks
           \/ RedialFails \/ Greets \/ Greeted \/ Cut \/ Restart
    <2>1. UNCHANGED <<made, msVars>> /\ cut \subseteq cut'
        BY <1>5 DEF ConnectTimesOut, Registers, Reads, AnswersStray, Delivers, Breaks,
                    RedialFails, Greets, Greeted, Cut, Restart
    <2> QED BY <1>a, <2>1
<1>6. ASSUME NEW k \in Conns, Welcomes(k) PROVE LbConnIsRead'
    BY <1>0, <1>6 DEF Welcomes, LbConnIsRead
<1>7. ASSUME NEW k \in Conns, TurnsAway(k) PROVE LbConnIsRead'
    BY <1>0, <1>7 DEF TurnsAway, LbConnIsRead
<1>8. ASSUME NEW k \in Conns, Works(k) PROVE LbConnIsRead'
    <2>1. /\ lbConn \in Conns /\ accepted[k] = "work" /\ accepted' = accepted
          /\ reading' = [reading EXCEPT ![k] = lbConn] /\ lbConn' = lbConn
          /\ made' = made /\ cut' = cut
        BY <1>8, Working DEF Works
    <2>2. lbConn' # 0
        BY <1>0, <2>1
    <2> QED BY <1>0, <2>1, <2>2 DEF LbConnIsRead
<1>9. ASSUME NEW k \in Conns, WorkEnds(k) PROVE LbConnIsRead'
    BY <1>0, <1>9 DEF WorkEnds, LbConnIsRead
<1>10. ASSUME NEW j \in DOMAIN jobs, Answers(j) PROVE LbConnIsRead'
    <2>1. lbConn \in Conns
        BY <1>10, Answering
    <2>2. /\ accepted' = accepted /\ reading' = reading /\ lbConn' = lbConn
          /\ made' = made /\ cut' = cut
        BY <1>10 DEF Answers
    <2> QED BY <1>0, <2>1, <2>2 DEF LbConnIsRead
<1>11. CASE UNCHANGED vars
    BY <1>11, <1>a DEF vars
<1>12. CASE Next
    BY <1>12, <1>1, <1>2, <1>3, <1>4, <1>5, <1>6, <1>7, <1>8, <1>9, <1>10
    DEF Next, LoopStep, MicroserviceStep
<1> QED BY <1>11, <1>12

\* The answers in flight are numbered.
LEMMA NumberedInFlight ==
    ASSUME ConnInv, [Next]_vars, NEW k \in Conns, NEW i \in DOMAIN toLb'[k],
           toLb'[k][i].id \in Requests, toLb' \in [Conns -> Seq(Messages)]
    PROVE  toLb'[k][i].n # 0
<1> DEFINE r == toLb'[k][i].id
<1>0. /\ toLb'[k] \in Seq(Messages) /\ DOMAIN toLb'[k] = 1..Len(toLb'[k])
      /\ toLb[k] \in Seq(Messages) /\ toLb \in [Conns -> Seq(Messages)]
    BY LenProperties DEF ConnInv, TypeOK
<1>1. toLb'[k][i] \in Messages
    BY <1>0, ElementOfSeq
<1>2. ASSUME NEW j \in DOMAIN jobs, Answers(j), jobs[j].id = r
      PROVE  toLb'[k][i].n # 0
    <2>1. /\ toLb' = SentToLb(lbConn, jobs[j]) /\ jobs[j].n # 0 /\ jobs[j] \in Messages
        <3>1. jobs[j].n \in 1..Total /\ Total \in Nat
            BY <1>2, Answering, Sizes
        <3> QED BY <1>2, <3>1, Answering
    <2>2. CASE toLb'[k] = toLb[k]
        BY <2>2 DEF ConnInv, NumberedAnswers
    <2>3. CASE toLb'[k] = Append(toLb[k], jobs[j])
        <3>1. /\ i \in DOMAIN toLb[k] => toLb'[k][i] = toLb[k][i]
              /\ i \notin DOMAIN toLb[k] => toLb'[k][i] = jobs[j]
            BY <1>0, <2>1, <2>3, AppendElements
        <3>2. i \in DOMAIN toLb[k] => toLb[k][i].n # 0
            BY <3>1 DEF ConnInv, NumberedAnswers
        <3> QED BY <2>1, <3>1, <3>2
    <2> QED BY <1>0, <2>1, <2>2, <2>3 DEF SentToLb
<1>3. ASSUME Shifted(toLb'[k], toLb[k], Of(r)) PROVE toLb'[k][i].n # 0
    <2>1. toLb'[k][i] \in Of(r)
        BY <1>1 DEF Of
    <2>2. PICK d \in {0, 1} : i + d \in DOMAIN toLb[k] /\ toLb[k][i + d] = toLb'[k][i]
        BY <1>3, <2>1 DEF Shifted
    <2> QED BY <2>2 DEF ConnInv, NumberedAnswers
<1> QED BY <1>2, <1>3, AnswersMove

LEMMA NumberedStep == ConnInv /\ [Next]_vars /\ TypeOK' => NumberedAnswers'
<1> SUFFICES ASSUME ConnInv, [Next]_vars, TypeOK' PROVE NumberedAnswers'
    OBVIOUS
<1>1. \A k \in Conns : \A i \in DOMAIN toLb'[k] :
         toLb'[k][i].id \in Requests => toLb'[k][i].n # 0
    BY NumberedInFlight DEF TypeOK
<1>0. /\ loop = "deliver" => loopMsg.id \in pending \ {Hello} /\ loopMsg.n # 0
      /\ \A r \in Requests : handler[r] = "sending" => held[r] # 0
      /\ handler \in [Requests -> {"none", "choosing", "ranging", "sending", "refused",
                                   "done", "returned", "lost"}]
      /\ held \in [Requests -> 0..Total] /\ ch \in [Requests -> Seq(1..Total)]
    BY DEF ConnInv, NumberedAnswers, TypeOK
<1> USE DEF handlerVars, reqVars, loopVars, msVars, netVars
<1>2. loop' = "deliver" => loopMsg'.id \in pending' \ {Hello} /\ loopMsg'.n # 0
    <2>1. CASE Reads
        <3>1. /\ loopMsg' = Head(toLb[conn]) /\ pending' = pending
              /\ Head(toLb[conn]).id \in pending \ {Hello} /\ toLb[conn] # <<>> /\ loop # "off"
            BY <2>1 DEF Reads
        <3>2. Head(toLb[conn]) = toLb[conn][1] /\ 1 \in DOMAIN toLb[conn] /\ conn \in Conns
            BY <3>1, NextMessage, HeadType DEF ConnInv
        <3>3. Head(toLb[conn]).id \in Requests
            BY <3>1 DEF ConnInv, TypeOK, IDs
        <3>4. Head(toLb[conn]).n # 0
            BY <3>2, <3>3 DEF ConnInv, NumberedAnswers
        <3> QED BY <3>1, <3>4
    <2>2. CASE UNCHANGED vars
        BY <1>0, <2>2 DEF vars
    <2>3. CASE Next /\ ~Reads
        BY <1>0, <2>3
        DEF Next, HandlerStep, Arrives, Refuses, Asks, Takes, Forwards, GivesUp,
            Finishes, GatewayLost, Connects, ConnectTimesOut, LoopStep, Registers,
            AnswersStray, Delivers, Breaks, Redials, RedialFails, Greets, Greeted,
            MicroserviceStep, Welcomes, TurnsAway, Works, WorkEnds, Answers, Cut, Restart
    <2> QED BY <2>1, <2>2, <2>3
<1>3. ASSUME NEW r \in Requests, handler'[r] = "sending" PROVE held'[r] # 0
    <2>1. ASSUME NEW q \in Requests, Takes(q) PROVE held'[r] # 0
        <3>1. ch[q] \in Seq(1..Total) /\ ch[q] # <<>>
            BY <1>0, <2>1 DEF Takes
        <3>2. Head(ch[q]) \in 1..Total
            BY <3>1, HeadType
        <3>3. Head(ch[q]) # 0
            BY <3>2, Sizes
        <3> QED BY <1>0, <1>3, <2>1, <3>3 DEF Takes
    <2>2. CASE UNCHANGED vars
        BY <1>0, <1>3, <2>2 DEF vars
    <2>3. CASE Restart
        BY <1>0, <1>3, <2>3 DEF Restart
    <2>4. CASE Next /\ ~Restart /\ ~\E q \in Requests : Takes(q)
        BY <1>0, <1>3, <2>4
        DEF Next, HandlerStep, Arrives, Refuses, Asks, Forwards, GivesUp,
            Finishes, GatewayLost, Connects, ConnectTimesOut, LoopStep, Registers, Reads,
            AnswersStray, Delivers, Breaks, Redials, RedialFails, Greets, Greeted,
            MicroserviceStep, Welcomes, TurnsAway, Works, WorkEnds, Answers, Cut
    <2> QED BY <2>1, <2>2, <2>3, <2>4
<1> QED BY <1>1, <1>2, <1>3 DEF NumberedAnswers

LEMMA ConnStep == ConnInv /\ [Next]_vars => ConnInv'
BY TypeStep, OneConnectionStep, LbConnIsReadStep, NumberedStep DEF ConnInv

\* The connections of the load balancer and of the microservice stay in the
\* order above.
LEMMA ConnInvariance == Spec => []ConnInv
BY InitConn, ConnStep, PTL DEF Spec

\* Every variable of the forwarding path has its type.
THEOREM TypeCorrect == Spec => []TypeOK
<1>1. ConnInv => TypeOK
    BY DEF ConnInv
<1> QED BY <1>1, ConnInvariance, PTL

\* However often the connection to the microservice is cut and dialled again,
\* and whichever Work goroutines were started for the earlier connections: the
\* connection that is LbConn, and that the receive loop reads, has a Work
\* goroutine that reads the requests sent over it.
THEOREM LbConnServed == Spec => []LoopReadsServed
<1>1. ConnInv => LoopReadsServed
    <2> SUFFICES ASSUME ConnInv, registered, conn \notin cut, lbConn = conn
                 PROVE  \E k \in Conns : accepted[k] = "work" /\ reading[k] = conn
        BY DEF LoopReadsServed
    <2>1. conn = made /\ conn # 0 /\ made \in 0..MaxConns
        BY DEF ConnInv, OneConnection, TypeOK
    <2>2. conn \in Conns
        BY <2>1, Sizes DEF Conns
    <2> QED BY <2>1, <2>2 DEF ConnInv, LbConnIsRead
<1> QED BY <1>1, ConnInvariance, PTL

-----------------------------------------------------------------------------
(* What the other steps leave alone of a request.                           *)

\* The steps that are about r, and the restart, which is about all of them.
Own(r) ==
    \/ HandlerStep(r) \/ \E g \in Gateways : Arrives(r, g)
    \/ (Reads \/ AnswersStray) /\ Head(toLb[conn]).id = r
    \/ Delivers /\ loopMsg.id = r
    \/ \E k \in Conns : Works(k) /\ Head(toMs[reading[k]]) = r
    \/ \E j \in DOMAIN jobs : Answers(j) /\ jobs[j].id = r
    \/ Restart

\* The handler of r and its channel.
HandlerKept(r) ==
    /\ handler'[r] = handler[r] /\ from'[r] = from[r] /\ held'[r] = held[r]
    /\ forwarded'[r] = forwarded[r] /\ ch'[r] = ch[r] /\ chClosed'[r] = chClosed[r]
    /\ r \in pending' <=> r \in pending
    /\ restarted' = restarted

\* The message of r that the receive loop holds.
DeliveryKept(r) ==
    /\ (loop' = "deliver" /\ loopMsg'.id = r) <=> Delivering(r)
    /\ Delivering(r) => loopMsg' = loopMsg

\* The HandleRequest goroutine of r.
JobsKept(r) ==
    /\ \A j \in DOMAIN jobs : jobs[j].id = r => j \in DOMAIN jobs' /\ jobs'[j] = jobs[j]
    /\ \A j \in DOMAIN jobs' : jobs'[j].id = r => j \in DOMAIN jobs /\ jobs'[j] = jobs[j]

\* A cut connection stays cut, a lost gateway connection stays lost.
LEMMA OnlyLost ==
    ASSUME ConnInv, [Next]_vars
    PROVE  /\ cut \subseteq cut'
           /\ \A g \in Gateways : gwUp'[g] => gwUp[g]
<1> USE DEF handlerVars, reqVars, loopVars, msVars, netVars
<1>0. gwUp \in [Gateways -> BOOLEAN]
    BY DEF ConnInv, TypeOK
<1>1. CASE UNCHANGED vars
    BY <1>1 DEF vars
<1>2. ASSUME NEW h \in Gateways, GatewayLost(h)
      PROVE  cut \subseteq cut' /\ \A g \in Gateways : gwUp'[g] => gwUp[g]
    BY <1>0, <1>2 DEF GatewayLost
<1>3. CASE Restart
    BY <1>0, <1>3 DEF Restart
<1>4. CASE Next /\ ~Restart /\ ~\E h \in Gateways : GatewayLost(h)
    BY <1>4 DEF Next, HandlerStep, Arrives, Refuses, Asks, Takes, Forwards, GivesUp,
            Finishes, Connects, ConnectTimesOut, LoopStep, Registers, Reads,
            AnswersStray, Delivers, Breaks, Redials, RedialFails, Greets, Greeted,
            MicroserviceStep, Welcomes, TurnsAway, Works, WorkEnds, Answers, Cut
<1> QED BY <1>1, <1>2, <1>3, <1>4

LEMMA HandlersApart ==
    ASSUME ConnInv, [Next]_vars, NEW r \in Requests, ~Own(r)
    PROVE  HandlerKept(r) /\ DeliveryKept(r)
<1> USE DEF handlerVars, reqVars, loopVars, msVars, netVars
<1>0. /\ handler \in [Requests -> {"none", "choosing", "ranging", "sending", "refused",
                                   "done", "returned", "lost"}]
      /\ from \in [Requests -> SUBSET Gateways] /\ held \in [Requests -> 0..Total]
      /\ forwarded \in [Requests -> Seq(1..Total)] /\ ch \in [Requests -> Seq(1..Total)]
      /\ chClosed \in [Requests -> BOOLEAN] /\ r # Hello
    BY Sizes DEF ConnInv, TypeOK
<1>1. ASSUME NEW q \in Requests, HandlerStep(q) \/ \E g \in Gateways : Arrives(q, g)
      PROVE  HandlerKept(r) /\ DeliveryKept(r)
    <2>1. q # r
        BY <1>1 DEF Own
    <2> QED BY <1>0, <1>1, <2>1
        DEF HandlerStep, Arrives, Refuses, Asks, Takes, Forwards, GivesUp, Finishes,
            HandlerKept, DeliveryKept, Delivering
<1>2. ASSUME NEW g \in Gateways, GatewayLost(g) PROVE HandlerKept(r) /\ DeliveryKept(r)
    BY <1>2 DEF GatewayLost, HandlerKept, DeliveryKept, Delivering
<1>3. CASE Connects
    <2>1. loop = "off"
        BY <1>3 DEF Connects, ConnInv, OneConnection
    <2> QED BY <1>0, <1>3, <2>1 DEF Connects, HandlerKept, DeliveryKept, Delivering
<1>4. CASE ConnectTimesOut
    BY <1>0, <1>4 DEF ConnectTimesOut, HandlerKept, DeliveryKept, Delivering
<1>5. CASE Registers
    BY <1>0, <1>5 DEF Registers, HandlerKept, DeliveryKept, Delivering
<1>6. CASE Reads
    <2>1. Head(toLb[conn]).id # r
        BY <1>6 DEF Own
    <2> QED BY <1>6, <2>1 DEF Reads, HandlerKept, DeliveryKept, Delivering
<1>7. CASE Delivers
    <2>1. loopMsg.id # r
        BY <1>7 DEF Own
    <2> QED BY <1>0, <1>7, <2>1 DEF Delivers, HandlerKept, DeliveryKept, Delivering
<1>8. CASE \/ AnswersStray \/ Breaks \/ Redials \/ RedialFails \/ Greets \/ Greeted \/ Cut
           \/ UNCHANGED vars
    BY <1>8 DEF AnswersStray, Breaks, Redials, RedialFails, Greets, Greeted, Cut, vars,
                HandlerKept, DeliveryKept, Delivering
<1>9. ASSUME NEW k \in Conns, MicroserviceStep(k) PROVE HandlerKept(r) /\ DeliveryKept(r)
    BY <1>9 DEF MicroserviceStep, Welcomes, TurnsAway, Works, WorkEnds,
                HandlerKept, DeliveryKept, Delivering
<1>10. ASSUME NEW j \in DOMAIN jobs, Answers(j) PROVE HandlerKept(r) /\ DeliveryKept(r)
    BY <1>10 DEF Answers, HandlerKept, DeliveryKept, Delivering
<1>11. ~Restart
    BY DEF Own
<1> QED BY <1>1, <1>2, <1>3, <1>4, <1>5, <1>6, <1>7, <1>8, <1>9, <1>10, <1>11
        DEF Next, LoopStep

LEMMA JobsApart ==
    ASSUME ConnInv, [Next]_vars, NEW r \in Requests, ~Own(r)
    PROVE  JobsKept(r)
<1> USE DEF handlerVars, reqVars, loopVars, msVars, netVars
<1>0. /\ jobs \in Seq([id : Requests, n : 1..(Total + 1)]) /\ DOMAIN jobs = 1..Len(jobs)
    BY LenProperties DEF ConnInv, TypeOK
<1>1. ASSUME NEW k \in Conns, Works(k) PROVE JobsKept(r)
    <2>1. CASE Head(toMs[reading[k]]) = Hello
        BY <1>1, <2>1 DEF Works, JobsKept
    <2>2. CASE Head(toMs[reading[k]]) # Hello
        <3> DEFINE e == Reply(Head(toMs[reading[k]]), 1)
        <3>1. jobs' = Append(jobs, e)
            BY <1>1, <2>2 DEF Works
        <3>2. e.id # r
            BY <1>1 DEF Own, Reply
        <3>3. e \in [id : Requests, n : 1..(Total + 1)]
            <4>1. Head(toMs[reading[k]]) \in Requests
                BY <1>1, <2>2, Working DEF IDs
            <4>2. 1 \in 1..(Total + 1)
                BY Sizes
            <4> QED BY <4>1, <4>2 DEF Reply
        <3> HIDE DEF e
        <3>4. /\ \A i \in DOMAIN jobs : i \in DOMAIN jobs' /\ jobs'[i] = jobs[i]
              /\ \A i \in DOMAIN jobs' : i \in DOMAIN jobs \/ jobs'[i] = e
            BY <1>0, <3>1, <3>3, AppendElements
        <3> QED BY <3>2, <3>4 DEF JobsKept
    <2> QED BY <2>1, <2>2
<1>2. ASSUME NEW j \in DOMAIN jobs, Answers(j) PROVE JobsKept(r)
    <2>1. jobs[j].id # r
        BY <1>2 DEF Own
    <2>2. PICK x : jobs' = [jobs EXCEPT ![j].n = x]
        BY <1>2 DEF Answers
    <2>3. jobs[j] \in [id : Requests, n : 1..(Total + 1)]
        BY <1>2, Answering
    <2>4. DOMAIN jobs' = DOMAIN jobs /\ jobs'[j].id = jobs[j].id
        BY <2>2, <2>3
    <2>5. \A i \in DOMAIN jobs : i # j => jobs'[i] = jobs[i]
        BY <2>2
    <2> QED BY <2>1, <2>4, <2>5 DEF JobsKept
<1>3. CASE UNCHANGED jobs
    BY <1>3 DEF JobsKept
<1>4. \/ UNCHANGED jobs
      \/ \E k \in Conns : Works(k)
      \/ \E j \in DOMAIN jobs : Answers(j)
    <2>1. CASE UNCHANGED vars BY <2>1 DEF vars
    <2>2. CASE Next
        BY <2>2 DEF Next, HandlerStep, Arrives, Refuses, Asks, Takes, Forwards, GivesUp,
            Finishes, GatewayLost, Connects, ConnectTimesOut, LoopStep, Registers, Reads,
            AnswersStray, Delivers, Breaks, Redials, RedialFails, Greets, Greeted,
            MicroserviceStep, Welcomes, TurnsAway, WorkEnds, Cut, Restart
    <2> QED BY <2>1, <2>2
<1> QED BY <1>1, <1>2, <1>3, <1>4

\* The connection changes only when the old one has nothing more to read.
LEMMA ConnApart ==
    ASSUME ConnInv, [Next]_vars, NEW r \in Requests, ~Own(r), conn' # conn
    PROVE  conn \notin Conns \/ toLb[conn] = <<>>
<1> USE DEF handlerVars, reqVars, loopVars, msVars, netVars
<1>1. CASE Connects
    <2>1. conn = 0
        BY <1>1 DEF Connects, ConnInv, OneConnection
    <2> QED BY <2>1 DEF Conns
<1>2. CASE Redials
    BY <1>2 DEF Redials, ConnInv, OneConnection
<1>3. Next /\ ~Restart
    BY DEF vars, Own
<1> QED BY <1>1, <1>2, <1>3
    DEF Next, HandlerStep, Arrives, Refuses, Asks, Takes, Forwards, GivesUp,
        Finishes, GatewayLost, ConnectTimesOut, LoopStep, Registers, Reads,
        AnswersStray, Delivers, Breaks, RedialFails, Greets, Greeted,
        MicroserviceStep, Welcomes, TurnsAway, Works, WorkEnds, Answers, Cut

-----------------------------------------------------------------------------
(* A step that is not about a request keeps what is known of it.            *)

\* r where it was on its way, in the order it was.
MsInPlace(r) == \A l \in Conns : Shifted(toMs'[l], toMs[l], {r})
LbInPlace(r) == \A l \in Conns : Shifted(toLb'[l], toLb[l], Of(r))

LEMMA PlacesApart ==
    ASSUME ConnInv, [Next]_vars, NEW r \in Requests, ~Own(r)
    PROVE  /\ MsInPlace(r) /\ LbInPlace(r)
           /\ cut' = {} => /\ \A l \in Conns : Moved(toMs'[l], toMs[l], {r})
                           /\ \A l \in Conns : Moved(toLb'[l], toLb[l], Of(r))
<1>1. /\ ~Asks(r) /\ ~((Reads \/ AnswersStray) /\ Head(toLb[conn]).id = r)
      /\ ~\E k \in Conns : Works(k) /\ Head(toMs[reading[k]]) = r
      /\ ~\E j \in DOMAIN jobs : Answers(j) /\ jobs[j].id = r
    BY DEF Own, HandlerStep
<1>2. MsInPlace(r) /\ (cut' = {} => \A l \in Conns : Moved(toMs'[l], toMs[l], {r}))
    BY <1>1, RequestsMove DEF MsInPlace
<1>3. LbInPlace(r) /\ (cut' = {} => \A l \in Conns : Moved(toLb'[l], toLb[l], Of(r)))
    BY <1>1, AnswersMove DEF LbInPlace
<1> QED BY <1>2, <1>3

LEMMA OnWayBefore ==
    ASSUME NEW r \in Requests, MsInPlace(r)
    PROVE  /\ OnWay(r)' => OnWay(r)
           /\ (\A k, l \in Conns : \A i \in DOMAIN toMs[k], j \in DOMAIN toMs[l] :
                 toMs[k][i] = r /\ toMs[l][j] = r => k = l /\ i = j) =>
              (\A k, l \in Conns : \A i \in DOMAIN toMs'[k], j \in DOMAIN toMs'[l] :
                 i \in Nat /\ j \in Nat /\ toMs'[k][i] = r /\ toMs'[l][j] = r => k = l /\ i = j)
<1>1. ASSUME NEW k \in Conns
      PROVE  \E d \in {0, 1} : \A i \in DOMAIN toMs'[k] :
                toMs'[k][i] = r => i + d \in DOMAIN toMs[k] /\ toMs[k][i + d] = r
    BY DEF MsInPlace, Shifted
<1>2. OnWay(r)' => OnWay(r)
    BY <1>1 DEF OnWay
<1>3. ASSUME \A k, l \in Conns : \A i \in DOMAIN toMs[k], j \in DOMAIN toMs[l] :
                toMs[k][i] = r /\ toMs[l][j] = r => k = l /\ i = j,
             NEW k \in Conns, NEW l \in Conns,
             NEW i \in DOMAIN toMs'[k], NEW j \in DOMAIN toMs'[l],
             i \in Nat, j \in Nat, toMs'[k][i] = r, toMs'[l][j] = r
      PROVE  k = l /\ i = j
    <2>1. PICK d \in {0, 1} : \A x \in DOMAIN toMs'[k] :
             toMs'[k][x] = r => x + d \in DOMAIN toMs[k] /\ toMs[k][x + d] = r
        BY <1>1
    <2>2. PICK e \in {0, 1} : \A x \in DOMAIN toMs'[l] :
             toMs'[l][x] = r => x + e \in DOMAIN toMs[l] /\ toMs[l][x + e] = r
        BY <1>1
    <2>3. k = l /\ i + d = j + e
        BY <1>3, <2>1, <2>2
    <2>4. j + d \in DOMAIN toMs[k] /\ toMs[k][j + d] = r
        BY <1>3, <2>1, <2>3
    <2>5. i + d = j + d
        BY <1>3, <2>1, <2>4
    <2> QED BY <1>3, <2>1, <2>3, <2>5
<1> QED BY <1>2, <1>3

LEMMA OnWayAfter ==
    ASSUME NEW r \in Requests, \A l \in Conns : Moved(toMs'[l], toMs[l], {r}), OnWay(r)
    PROVE  OnWay(r)'
<1>1. PICK k \in Conns : \E i \in DOMAIN toMs[k] : toMs[k][i] = r
    BY DEF OnWay
<1>2. \E i \in DOMAIN toMs'[k] : toMs'[k][i] = r
    BY <1>1 DEF Moved
<1> QED BY <1>2 DEF OnWay

\* An answer in flight after the step was in flight before.
LEMMA AnsweredBefore ==
    ASSUME NEW r \in Requests, TypeOK', LbInPlace(r), NEW l \in Conns
    PROVE  \E d \in {0, 1} : \A i \in DOMAIN toLb'[l] :
              toLb'[l][i].id = r => i + d \in DOMAIN toLb[l] /\ toLb[l][i + d] = toLb'[l][i]
<1>1. toLb'[l] \in Seq(Messages) /\ DOMAIN toLb'[l] = 1..Len(toLb'[l])
    BY LenProperties DEF TypeOK
<1>2. \A i \in DOMAIN toLb'[l] : toLb'[l][i].id = r => toLb'[l][i] \in Of(r)
    BY <1>1, ElementOfSeq DEF Of
<1> QED BY <1>2 DEF LbInPlace, Shifted

LEMMA FreshKept ==
    ASSUME ConnInv, [Next]_vars, TypeOK', NEW r \in Requests, ~Own(r), Fresh(r)
    PROVE  Fresh(r)'
<1>1. HandlerKept(r) /\ JobsKept(r) /\ MsInPlace(r) /\ LbInPlace(r)
    BY HandlersApart, JobsApart, PlacesApart
<1>2. OnWay(r)' => OnWay(r)
    BY <1>1, OnWayBefore
<1>3. Answered(r)' => Answered(r)
    BY <1>1, AnsweredBefore DEF Answered
<1>4. WorkedFor(r)' => WorkedFor(r)
    BY <1>1 DEF JobsKept, WorkedFor
<1> QED BY <1>1, <1>2, <1>3, <1>4 DEF Fresh, Unasked, HandlerKept

\* For this no message matters.
LEMMA PendingKept ==
    ASSUME ConnInv, [Next]_vars, NEW r \in Requests, HandlerKept(r), Pending(r), SentBack(r)
    PROVE  Pending(r)' /\ SentBack(r)' /\ Stale(r)' = Stale(r)
<1>1. cut \subseteq cut' /\ \A g \in Gateways : gwUp'[g] => gwUp[g]
    BY OnlyLost
<1>2. from[r] \subseteq Gateways
    BY DEF ConnInv, TypeOK
<1>3. Stale(r)' = Stale(r)
    BY DEF Stale, HandlerKept
<1>4. Pending(r)'
    BY <1>1, <1>2, <1>3 DEF Pending, HandlerKept
<1>5. SentBack(r)'
    BY <1>1 DEF SentBack, HandlerKept
<1> QED BY <1>3, <1>4, <1>5

LEMMA AskedOnceKept ==
    ASSUME ConnInv, [Next]_vars, TypeOK', NEW r \in Requests, ~Own(r), AskedOnce(r)
    PROVE  AskedOnce(r)'
<1>1. HandlerKept(r) /\ DeliveryKept(r) /\ JobsKept(r) /\ MsInPlace(r) /\ LbInPlace(r)
    BY HandlersApart, JobsApart, PlacesApart
<1>2. OnWay(r)' => OnWay(r)
    BY <1>1, OnWayBefore
<1>3. Answered(r)' => Answered(r)
    BY <1>1, AnsweredBefore DEF Answered
<1>4. WorkedFor(r)' => WorkedFor(r)
    BY <1>1 DEF JobsKept, WorkedFor
<1>5. Entered(r)' = Entered(r) /\ (Delivering(r)' <=> Delivering(r))
    BY <1>1 DEF Entered, HandlerKept, DeliveryKept, Delivering
<1>6. OnWay(r)' => /\ ~WorkedFor(r)' /\ ~Answered(r)' /\ ~Delivering(r)'
                   /\ Entered(r)' = 0 /\ r \in pending'
    BY <1>1, <1>2, <1>3, <1>4, <1>5 DEF AskedOnce, HandlerKept
<1>7. ASSUME NEW k \in Conns, NEW l \in Conns,
             NEW i \in DOMAIN toMs'[k], NEW j \in DOMAIN toMs'[l],
             toMs'[k][i] = r, toMs'[l][j] = r
      PROVE  k = l /\ i = j
    <2>1. i \in Nat /\ j \in Nat
        <3>1. toMs'[k] \in Seq(IDs) /\ toMs'[l] \in Seq(IDs)
            BY DEF TypeOK
        <3>2. DOMAIN toMs'[k] = 1..Len(toMs'[k]) /\ DOMAIN toMs'[l] = 1..Len(toMs'[l])
            BY <3>1, LenProperties
        <3> QED BY <3>2
    <2> QED BY <1>1, <1>7, <2>1, OnWayBefore DEF AskedOnce
<1>8. \A i, j \in DOMAIN jobs' : jobs'[i].id = r /\ jobs'[j].id = r => i = j
    BY <1>1 DEF AskedOnce, JobsKept
<1> QED BY <1>6, <1>7, <1>8 DEF AskedOnce

LEMMA PassedKept ==
    ASSUME NEW r, HandlerKept(r), DeliveryKept(r)
    PROVE  /\ Entered(r)' = Entered(r) /\ Passed(r)' = Passed(r)
           /\ Delivering(r)' <=> Delivering(r)
           /\ Delivering(r) => loopMsg' = loopMsg
BY DEF Entered, Passed, HandlerKept, DeliveryKept, Delivering

\* The positions in a queue of messages.
LEMMA Positions ==
    /\ TypeOK => \A k \in Conns : /\ toLb[k] \in Seq(Messages) /\ Len(toLb[k]) \in Nat
                                  /\ DOMAIN toLb[k] = 1..Len(toLb[k])
    /\ TypeOK' => \A k \in Conns : /\ toLb'[k] \in Seq(Messages) /\ Len(toLb'[k]) \in Nat
                                   /\ DOMAIN toLb'[k] = 1..Len(toLb'[k])
<1>1. ASSUME TypeOK, NEW k \in Conns
      PROVE  toLb[k] \in Seq(Messages) /\ Len(toLb[k]) \in Nat /\ DOMAIN toLb[k] = 1..Len(toLb[k])
    <2>1. toLb[k] \in Seq(Messages)
        BY <1>1 DEF TypeOK
    <2> QED BY <2>1, LenProperties
<1>2. ASSUME TypeOK', NEW k \in Conns
      PROVE  toLb'[k] \in Seq(Messages) /\ Len(toLb'[k]) \in Nat /\ DOMAIN toLb'[k] = 1..Len(toLb'[k])
    <2>1. toLb'[k] \in Seq(Messages)
        BY <1>2 DEF TypeOK
    <2> QED BY <2>1, LenProperties
<1> QED BY <1>1, <1>2

LEMMA GrowingKept ==
    ASSUME ConnInv, [Next]_vars, TypeOK', NEW r \in Requests, ~Own(r), Growing(r)
    PROVE  Growing(r)'
<1>1. HandlerKept(r) /\ DeliveryKept(r) /\ JobsKept(r) /\ LbInPlace(r) /\ TypeOK
    BY HandlersApart, JobsApart, PlacesApart DEF ConnInv
<1>2. /\ Entered(r)' = Entered(r) /\ Passed(r)' = Passed(r)
      /\ Delivering(r)' <=> Delivering(r)
      /\ Delivering(r) => loopMsg' = loopMsg
    BY <1>1, PassedKept
<1>3. Answered(r)' => r \in pending'
    <2>1. Answered(r)' => Answered(r)
        BY <1>1, AnsweredBefore DEF Answered
    <2> QED BY <1>1, <2>1 DEF Growing, HandlerKept
<1>4. ASSUME NEW k \in Conns, NEW i \in DOMAIN toLb'[k], toLb'[k][i].id = r
      PROVE  /\ k = conn'
             /\ Passed(r)' < toLb'[k][i].n
             /\ \A h \in 1..(i - 1) : toLb'[k][h].id = r => toLb'[k][h].n < toLb'[k][i].n
             /\ \A j \in DOMAIN jobs' : jobs'[j].id = r => toLb'[k][i].n < jobs'[j].n
    <2>1. PICK d \in {0, 1} : \A x \in DOMAIN toLb'[k] :
             toLb'[k][x].id = r => x + d \in DOMAIN toLb[k] /\ toLb[k][x + d] = toLb'[k][x]
        BY <1>1, AnsweredBefore
    <2>2. i + d \in DOMAIN toLb[k] /\ toLb[k][i + d] = toLb'[k][i] /\ toLb[k][i + d].id = r
        BY <1>4, <2>1
    <2>3. k = conn'
        <3>1. k = conn
            BY <2>2 DEF Growing
        <3>2. toLb[k] # <<>>
            BY <2>2
        <3> QED BY <3>1, <3>2, ConnApart
    <2>4. Passed(r)' < toLb'[k][i].n
        BY <1>2, <2>2 DEF Growing
    <2>5. ASSUME NEW h \in 1..(i - 1), toLb'[k][h].id = r PROVE toLb'[k][h].n < toLb'[k][i].n
        <3>1. i \in 1..Len(toLb'[k]) /\ Len(toLb'[k]) \in Nat /\ DOMAIN toLb'[k] = 1..Len(toLb'[k])
            BY Positions
        <3>2. h \in DOMAIN toLb'[k]
            BY <3>1
        <3>3. toLb[k][h + d] = toLb'[k][h]
            BY <2>1, <2>5, <3>2
        <3>4. h + d \in 1..((i + d) - 1)
            BY <3>1
        <3> QED BY <2>2, <2>5, <3>3, <3>4 DEF Growing
    <2>6. ASSUME NEW j \in DOMAIN jobs', jobs'[j].id = r PROVE toLb'[k][i].n < jobs'[j].n
        <3>1. j \in DOMAIN jobs /\ jobs'[j] = jobs[j]
            BY <1>1, <2>6 DEF JobsKept
        <3> QED BY <2>2, <2>6, <3>1 DEF Growing
    <2> QED BY <2>3, <2>4, <2>5, <2>6
<1>5. ASSUME NEW j \in DOMAIN jobs', jobs'[j].id = r PROVE Passed(r)' < jobs'[j].n
    <2>1. j \in DOMAIN jobs /\ jobs'[j] = jobs[j]
        BY <1>1, <1>5 DEF JobsKept
    <2> QED BY <1>2, <1>5, <2>1 DEF Growing
<1>6. /\ Len(ch'[r]) <= 1 /\ (ch'[r] # <<>> => held'[r] < ch'[r][1])
      /\ Delivering(r)' => Entered(r)' < loopMsg'.n
      /\ chClosed'[r] <=> Entered(r)' = Total
    BY <1>1, <1>2 DEF Growing, HandlerKept
<1> QED BY <1>3, <1>4, <1>5, <1>6 DEF Growing

\* With no connection cut there is one, and a request that waits is on it.
LEMMA FirstConnection ==
    ASSUME ConnInv, NEW r \in Requests, OnWay(r) \/ WorkedFor(r), cut = {}
    PROVE  conn = 1 /\ made = 1 /\ 1 \in Conns
<1>0. /\ made \in 0..MaxConns /\ lbConn \in 0..made /\ MaxConns \in Nat
      /\ (1..made) \ cut \subseteq {conn}
      /\ jobs # <<>> => lbConn # 0
      /\ \A k \in Conns : k > made => toMs[k] = <<>>
    BY Sizes DEF ConnInv, TypeOK, OneConnection, LbConnIsRead
<1>1. made # 0
    <2>1. CASE OnWay(r)
        <3>1. PICK k \in Conns : \E i \in DOMAIN toMs[k] : TRUE
            BY <2>1 DEF OnWay
        <3>2. toMs[k] # <<>>
            BY <3>1
        <3> QED BY <1>0, <3>2 DEF Conns
    <2>2. CASE WorkedFor(r)
        <3>1. jobs # <<>>
            BY <2>2 DEF WorkedFor
        <3> QED BY <1>0, <3>1
    <2> QED BY <2>1, <2>2
<1>2. 1 \in 1..made /\ made \in 1..made
    BY <1>0, <1>1
<1>3. conn = 1 /\ conn = made
    BY <1>0, <1>2
<1> QED BY <1>0, <1>2, <1>3 DEF Conns

LEMMA SameConnection ==
    ASSUME ConnInv, [Next]_vars, NEW r \in Requests, OnWay(r) \/ WorkedFor(r), cut' = {}
    PROVE  cut = {} /\ conn = 1 /\ conn' = 1 /\ conn \in Conns
<1>1. cut = {}
    BY OnlyLost
<1>2. conn = 1 /\ made = 1 /\ 1 \in Conns
    BY <1>1, FirstConnection
<1>3. made' \in {1, 2}
    BY <1>2, MadeGrows
<1>4. (1..made') \ cut' \subseteq {conn'}
    BY OneConnectionStep DEF OneConnection
<1>5. 1 \in 1..made'
    BY <1>3
<1> QED BY <1>1, <1>2, <1>4, <1>5

LEMMA CompleteKept ==
    ASSUME ConnInv, [Next]_vars, TypeOK', NEW r \in Requests, ~Own(r), Complete(r), Growing(r)
    PROVE  Complete(r)'
<1> SUFFICES ASSUME handler'[r] \in {"ranging", "sending"}, cut' = {} PROVE Complete(r)'
    BY DEF Complete
<1>1. /\ HandlerKept(r) /\ DeliveryKept(r) /\ JobsKept(r) /\ TypeOK
      /\ \A l \in Conns : Moved(toMs'[l], toMs[l], {r})
      /\ \A l \in Conns : Moved(toLb'[l], toLb[l], Of(r))
    BY HandlersApart, JobsApart, PlacesApart DEF ConnInv
<1>2. /\ Entered(r)' = Entered(r) /\ Passed(r)' = Passed(r)
      /\ Delivering(r)' <=> Delivering(r)
      /\ Delivering(r) => loopMsg' = loopMsg
    BY <1>1, PassedKept
<1>3. handler[r] \in {"ranging", "sending"} /\ cut = {} /\ handler'[r] = handler[r]
    BY <1>1, OnlyLost DEF HandlerKept
<1>4. OnWay(r)' \/ WorkedFor(r)'
    <2>1. WorkedFor(r) => WorkedFor(r)'
        BY <1>1 DEF WorkedFor, JobsKept
    <2> QED BY <1>1, <1>3, <2>1, OnWayAfter DEF Complete
<1>5. conn' = conn /\ conn \in Conns
    BY <1>3, SameConnection DEF Complete
<1>6. PICK d \in {0, 1} :
         /\ \A i \in DOMAIN toLb'[conn] : toLb'[conn][i].id = r =>
               i + d \in DOMAIN toLb[conn] /\ toLb[conn][i + d] = toLb'[conn][i]
         /\ \A i \in DOMAIN toLb[conn] : toLb[conn][i].id = r =>
               i - d \in DOMAIN toLb'[conn] /\ toLb'[conn][i - d] = toLb[conn][i]
    <2>1. /\ \A i \in DOMAIN toLb[conn] : toLb[conn][i].id = r => toLb[conn][i] \in Of(r)
          /\ \A i \in DOMAIN toLb'[conn] : toLb'[conn][i].id = r => toLb'[conn][i] \in Of(r)
        BY <1>1, <1>5, Positions, ElementOfSeq DEF Of
    <2> QED BY <1>1, <1>5, <2>1 DEF Moved
<1>7. ASSUME NEW i \in DOMAIN toLb'[conn], toLb'[conn][i].id = r,
             NEW x \in (Passed(r) + 1)..toLb'[conn][i].n
      PROVE  \E h \in 1..i : toLb'[conn][h].id = r /\ toLb'[conn][h].n = x
    <2>1. i + d \in DOMAIN toLb[conn] /\ toLb[conn][i + d] = toLb'[conn][i]
        BY <1>6, <1>7
    <2>2. PICK h \in 1..(i + d) : toLb[conn][h].id = r /\ toLb[conn][h].n = x
        BY <1>3, <1>7, <2>1 DEF Complete
    <2>3. /\ DOMAIN toLb[conn] = 1..Len(toLb[conn]) /\ Len(toLb[conn]) \in Nat
          /\ DOMAIN toLb'[conn] = 1..Len(toLb'[conn]) /\ Len(toLb'[conn]) \in Nat
        BY <1>1, <1>5, Positions
    <2>4. h \in DOMAIN toLb[conn]
        BY <2>1, <2>3
    <2>5. h - d \in DOMAIN toLb'[conn] /\ toLb'[conn][h - d] = toLb[conn][h]
        BY <1>6, <2>2, <2>4
    <2>6. h - d \in 1..i
        BY <2>3, <2>5
    <2> QED BY <2>2, <2>5, <2>6
<1>8. ASSUME NEW j \in DOMAIN jobs', jobs'[j].id = r,
             NEW x \in (Passed(r) + 1)..(jobs'[j].n - 1)
      PROVE  \E i \in DOMAIN toLb'[conn] : toLb'[conn][i].id = r /\ toLb'[conn][i].n = x
    <2>1. j \in DOMAIN jobs /\ jobs'[j] = jobs[j]
        BY <1>1, <1>8 DEF JobsKept
    <2>2. PICK i \in DOMAIN toLb[conn] : toLb[conn][i].id = r /\ toLb[conn][i].n = x
        BY <1>3, <1>8, <2>1 DEF Complete
    <2> QED BY <1>6, <2>2
<1>9. /\ Delivering(r)' => loopMsg'.n = Entered(r)' + 1
      /\ ch'[r] # <<>> => ch'[r][1] = held'[r] + 1
    BY <1>1, <1>2, <1>3 DEF Complete, HandlerKept
<1>10. (\A g \in from'[r] : gwUp'[g]) =>
         Len(forwarded'[r]) = IF handler'[r] = "sending" THEN held'[r] - 1 ELSE held'[r]
    <2>1. \A g \in from[r] : gwUp'[g] => gwUp[g]
        BY OnlyLost DEF ConnInv, TypeOK
    <2> QED BY <1>1, <1>3, <2>1 DEF Complete, HandlerKept
<1> QED BY <1>2, <1>4, <1>5, <1>7, <1>8, <1>9, <1>10 DEF Complete

LEMMA AccountedKept ==
    ASSUME ConnInv, [Next]_vars, TypeOK', NEW r \in Requests, ~Own(r), Accounted(r)
    PROVE  Accounted(r)'
<1>1. HandlerKept(r)
    BY HandlersApart
<1>2. Fresh(r)'
    BY FreshKept DEF Accounted
<1>3. Pending(r)' /\ SentBack(r)' /\ Stale(r)' = Stale(r)
    BY <1>1, PendingKept DEF Accounted
<1>4. ASSUME ~Stale(r) PROVE AskedOnce(r)' /\ Growing(r)' /\ Complete(r)'
    BY <1>4, AskedOnceKept, GrowingKept, CompleteKept DEF Accounted
<1> QED BY <1>2, <1>3, <1>4 DEF Accounted

-----------------------------------------------------------------------------
(* The steps of the handler of a request.                                   *)

LEMMA RequestType ==
    ASSUME TypeOK, NEW r \in Requests
    PROVE  /\ handler \in [Requests -> {"none", "choosing", "ranging", "sending",
                                        "refused", "done", "returned", "lost"}]
           /\ from \in [Requests -> SUBSET Gateways] /\ held \in [Requests -> 0..Total]
           /\ forwarded \in [Requests -> Seq(1..Total)] /\ ch \in [Requests -> Seq(1..Total)]
           /\ chClosed \in [Requests -> BOOLEAN]
           /\ held[r] \in Nat /\ ch[r] \in Seq(1..Total)
           /\ ch[r] # <<>> => ch[r][1] \in Nat /\ Head(ch[r]) = ch[r][1]
           /\ loopMsg.n \in Nat
           /\ Entered(r) \in Nat /\ Passed(r) \in Nat
           /\ Total \in Nat
<1>1. ch[r] \in Seq(1..Total) /\ held[r] \in 0..Total /\ Total \in Nat
    BY Sizes DEF TypeOK
<1>2. ch[r] # <<>> => Head(ch[r]) = ch[r][1] /\ Head(ch[r]) \in 1..Total
    BY <1>1, HeadType
<1>3. held[r] \in Nat /\ (ch[r] # <<>> => ch[r][1] \in Nat)
    BY <1>1, <1>2
<1>4. loopMsg.n \in Nat
    BY MessageType, Sizes DEF TypeOK
<1> QED BY <1>1, <1>2, <1>3, <1>4 DEF TypeOK, Entered, Passed

\* A step that changes the handler of r only, and no message of it.
MessagesKept(r) ==
    /\ UNCHANGED <<toMs, toLb, jobs, loop, loopMsg, conn, cut, restarted>>
    /\ r \in pending' <=> r \in pending
    /\ chClosed'[r] = chClosed[r]

LEMMA AskedOnceUntouched ==
    ASSUME NEW r \in Requests, MessagesKept(r), Entered(r)' = Entered(r)
    PROVE  /\ AskedOnce(r) => AskedOnce(r)'
           /\ (OnWay(r)' <=> OnWay(r)) /\ (WorkedFor(r)' <=> WorkedFor(r))
           /\ (Answered(r)' <=> Answered(r)) /\ (Delivering(r)' <=> Delivering(r))
           /\ Passed(r)' = Passed(r)
BY DEF AskedOnce, OnWay, WorkedFor, Answered, Delivering, Passed, MessagesKept

LEMMA GrowingUntouched ==
    ASSUME NEW r \in Requests, MessagesKept(r), Entered(r)' = Entered(r), Growing(r),
           Len(ch'[r]) <= 1, ch'[r] # <<>> => held'[r] < ch'[r][1]
    PROVE  Growing(r)'
<1>1. /\ Passed(r)' = Passed(r) /\ (Answered(r)' <=> Answered(r))
      /\ (Delivering(r)' <=> Delivering(r))
    BY AskedOnceUntouched
<1> QED BY <1>1 DEF Growing, MessagesKept

\* ... while it goes on waiting for the rest of the answer.
LEMMA CompleteUntouched ==
    ASSUME NEW r \in Requests, MessagesKept(r), Entered(r)' = Entered(r), Complete(r),
           handler[r] \in {"ranging", "sending"},
           cut = {} => /\ ch'[r] # <<>> => ch'[r][1] = held'[r] + 1
                       /\ (\A g \in from'[r] : gwUp'[g]) =>
                            Len(forwarded'[r]) = IF handler'[r] = "sending"
                                                 THEN held'[r] - 1 ELSE held'[r]
    PROVE  Complete(r)'
<1> SUFFICES ASSUME cut' = {} PROVE Complete(r)'
    BY DEF Complete
<1>1. /\ Passed(r)' = Passed(r) /\ (OnWay(r)' <=> OnWay(r))
      /\ (WorkedFor(r)' <=> WorkedFor(r)) /\ (Delivering(r)' <=> Delivering(r))
    BY AskedOnceUntouched
<1> QED BY <1>1 DEF Complete, MessagesKept

LEMMA ArrivalAccounted ==
    ASSUME ConnInv, NEW r \in Requests, Accounted(r),
           Refuses(r) \/ \E g \in Gateways : Arrives(r, g)
    PROVE  Accounted(r)'
<1> USE DEF reqVars, loopVars, msVars, netVars
<1>0. handler \in [Requests -> {"none", "choosing", "ranging", "sending",
                                "refused", "done", "returned", "lost"}]
    BY DEF ConnInv, TypeOK
<1>1. /\ handler[r] \in {"none", "choosing"} /\ handler'[r] \in {"choosing", "refused"}
      /\ UNCHANGED <<held, forwarded, reqVars, loopVars, msVars, netVars>>
    BY <1>0 DEF Refuses, Arrives
<1>2. MessagesKept(r) /\ Entered(r)' = Entered(r)
    BY <1>1 DEF MessagesKept, Entered
<1>3. ~Stale(r) /\ ~Stale(r)' /\ Unasked(r) /\ Unasked(r)'
    BY <1>1 DEF Stale, Unasked
<1>4. AskedOnce(r) /\ Growing(r) /\ Fresh(r) /\ Pending(r) /\ SentBack(r)
    BY <1>3 DEF Accounted
<1>5. AskedOnce(r)' /\ Growing(r)'
    BY <1>1, <1>2, <1>4, AskedOnceUntouched, GrowingUntouched DEF Growing
<1>6. Fresh(r)'
    BY <1>1, <1>2, <1>3, <1>4, AskedOnceUntouched DEF Fresh
<1>7. Pending(r)'
    BY <1>1, <1>3, <1>4 DEF Pending, Fresh
<1>8. SentBack(r)' /\ Complete(r)'
    BY <1>1, <1>3, <1>4 DEF SentBack, Fresh, Complete
<1> QED BY <1>5, <1>6, <1>7, <1>8 DEF Accounted

LEMMA AskingAccounted ==
    ASSUME ConnInv, TypeOK', NEW r \in Requests, Accounted(r), Asks(r)
    PROVE  Accounted(r)'
<1> USE DEF handlerVars, reqVars, loopVars, msVars, netVars
<1>0. /\ handler \in [Requests -> {"none", "choosing", "ranging", "sending",
                                   "refused", "done", "returned", "lost"}]
      /\ handler[r] = "choosing" /\ registered
      /\ UNCHANGED <<gwUp, from, held, forwarded, ch, chClosed, loopVars, msVars, cut, toLb>>
    BY DEF ConnInv, TypeOK, Asks
<1>1. ~Stale(r) /\ Unasked(r)
    BY <1>0 DEF Stale, Unasked
<1>2. /\ AskedOnce(r) /\ Growing(r) /\ Fresh(r) /\ Pending(r) /\ SentBack(r)
      /\ r \notin pending /\ ~chClosed[r] /\ ch[r] = <<>> /\ held[r] = 0
      /\ forwarded[r] = <<>> /\ ~OnWay(r) /\ ~WorkedFor(r) /\ ~Answered(r)
    BY <1>1 DEF Accounted, Fresh
<1>3. ~Delivering(r) /\ ~Delivering(r)' /\ Entered(r) = 0 /\ Entered(r)' = 0
    <2>1. ~Delivering(r)
        BY <1>2 DEF Delivering, ConnInv, NumberedAnswers
    <2> QED BY <1>0, <1>2, <2>1 DEF Entered, Delivering
<1>4. ~WorkedFor(r)' /\ ~Answered(r)'
    BY <1>0, <1>2 DEF WorkedFor, Answered
<1>5. ~Stale(r)'
    BY <1>0 DEF Stale, Asks
<1>6. SentBack(r)'
    BY <1>0, <1>2 DEF SentBack
<1>7. Growing(r)'
    BY <1>0, <1>2, <1>3, <1>4 DEF Growing, WorkedFor, Answered, Passed
<1>8. CASE handler'[r] = "refused" /\ UNCHANGED <<pending, toMs>>
    <2>1. OnWay(r)' <=> OnWay(r)
        BY <1>8 DEF OnWay
    <2>2. AskedOnce(r)'
        BY <1>0, <1>2, <1>8, <2>1 DEF AskedOnce
    <2>3. Fresh(r)' /\ Pending(r)' /\ Complete(r)'
        BY <1>0, <1>2, <1>4, <1>8, <2>1 DEF Fresh, Pending, Complete, Unasked
    <2> QED BY <1>6, <1>7, <2>2, <2>3 DEF Accounted
<1>9. CASE /\ pending' = pending \cup {r} /\ toMs' = SentToMs(conn, r)
           /\ handler'[r] = "ranging"
    <2>1. /\ toMs \in [Conns -> Seq(IDs)] /\ r \in IDs /\ conn \in Conns
          /\ conn = made /\ made \in 0..MaxConns
        <3>1. conn = made /\ conn # 0 /\ made \in 0..MaxConns
            BY <1>0 DEF ConnInv, OneConnection, TypeOK
        <3>2. conn \in Conns
            BY <3>1, Sizes DEF Conns
        <3> QED BY <3>1, <3>2 DEF ConnInv, TypeOK, IDs
    <2>2. ASSUME NEW k \in Conns, NEW i \in DOMAIN toMs'[k], toMs'[k][i] = r
          PROVE  k = conn /\ conn \notin cut /\ i = Len(toMs[conn]) + 1
        <3>1. i \notin DOMAIN toMs[k] \/ toMs[k][i] # r
            BY <1>2 DEF OnWay
        <3>2. k = conn /\ conn \notin cut /\ toMs'[k] = Append(toMs[k], r)
            BY <1>9, <2>1, <2>2, <3>1 DEF SentToMs
        <3>3. toMs[k] \in Seq(IDs)
            BY <2>1
        <3>4. i \in DOMAIN toMs[k] => toMs'[k][i] = toMs[k][i]
            BY <2>1, <3>2, <3>3, AppendElements
        <3>5. i \in DOMAIN toMs[k] \/ i = Len(toMs[k]) + 1
            BY <2>1, <3>2, <3>3, AppendElements
        <3> QED BY <2>2, <3>1, <3>2, <3>4, <3>5
    <2>3. AskedOnce(r)'
        <3>1. \A i, j \in DOMAIN jobs' : jobs'[i].id = r /\ jobs'[j].id = r => i = j
            BY <1>4 DEF WorkedFor
        <3>2. r \in pending'
            BY <1>9
        <3> QED BY <1>3, <1>4, <2>2, <3>1, <3>2 DEF AskedOnce
    <2>4. Fresh(r)' /\ Pending(r)'
        BY <1>0, <1>2, <1>9 DEF Fresh, Pending, Unasked
    <2>5. Complete(r)'
        <3> SUFFICES ASSUME cut' = {} PROVE Complete(r)'
            BY DEF Complete
        <3>1. OnWay(r)'
            <4>1. toMs[conn] \in Seq(IDs) /\ toMs'[conn] = Append(toMs[conn], r)
                BY <1>0, <1>9, <2>1 DEF SentToMs
            <4>2. /\ Len(toMs[conn]) + 1 \in DOMAIN toMs'[conn]
                  /\ toMs'[conn][Len(toMs[conn]) + 1] = r
                <5>1. Len(toMs[conn]) \in Nat
                    BY <4>1, LenProperties
                <5>2. Len(toMs[conn]) + 1 \in 1..(Len(toMs[conn]) + 1)
                    BY <5>1
                <5> QED BY <2>1, <4>1, <5>2, AppendElements
            <4> QED BY <2>1, <4>2 DEF OnWay
        <3>2. Len(forwarded'[r]) = 0 /\ held'[r] = 0 /\ ch'[r] = <<>>
            BY <1>0, <1>2
        <3>3. \A i \in DOMAIN toLb'[conn'] : toLb'[conn'][i].id # r
            BY <1>0, <1>4, <2>1 DEF Answered
        <3>4. \A j \in DOMAIN jobs' : jobs'[j].id # r
            BY <1>4 DEF WorkedFor
        <3> QED BY <1>3, <1>9, <3>1, <3>2, <3>3, <3>4 DEF Complete
    <2> QED BY <1>6, <1>7, <2>3, <2>4, <2>5 DEF Accounted
<1> QED BY <1>0, <1>8, <1>9 DEF Asks

\* handleRequest takes a message from its channel, or ends with it.
LEMMA TakingAccounted ==
    ASSUME ConnInv, NEW r \in Requests, Accounted(r), Takes(r)
    PROVE  Accounted(r)'
<1> USE DEF reqVars, loopVars, msVars, netVars
<1>0. /\ handler[r] = "ranging" /\ handler'[r] = "sending" /\ ch[r] # <<>>
      /\ held'[r] = ch[r][1] /\ ch'[r] = Tail(ch[r])
      /\ UNCHANGED <<gwUp, from, forwarded, pending, chClosed, loopVars, msVars, netVars>>
    <2>1. TypeOK
        BY DEF ConnInv
    <2> QED BY <2>1, RequestType DEF Takes
<1>1. ~Stale(r) /\ ~Stale(r)' /\ ~Unasked(r)'
    BY <1>0 DEF Stale, Unasked
<1>2. AskedOnce(r) /\ Growing(r) /\ Complete(r) /\ Pending(r) /\ SentBack(r)
    BY <1>1 DEF Accounted
<1>3. ch'[r] = <<>> /\ ch[r][1] \in Nat /\ held[r] \in Nat /\ held[r] < ch[r][1]
    <2>1. ch[r] \in Seq(1..Total) /\ Len(ch[r]) <= 1 /\ held[r] < ch[r][1]
        BY <1>0, <1>2, RequestType DEF Growing, ConnInv
    <2>2. Len(Tail(ch[r])) = 0 /\ Tail(ch[r]) \in Seq(1..Total)
        <3>1. Len(Tail(ch[r])) = Len(ch[r]) - 1 /\ Len(ch[r]) \in Nat
              /\ Tail(ch[r]) \in Seq(1..Total) /\ Len(Tail(ch[r])) \in Nat
            BY <1>0, <2>1, HeadType, LenProperties
        <3>2. \A a \in Nat : a <= 1 /\ a - 1 \in Nat => a - 1 = 0
            OBVIOUS
        <3> QED BY <2>1, <3>1, <3>2
    <2>3. Tail(ch[r]) = <<>>
        BY <2>2, EmptySeq
    <2> QED BY <1>0, <2>1, <2>3, RequestType DEF ConnInv
<1>4. MessagesKept(r) /\ Entered(r)' = Entered(r)
    BY <1>0, <1>3 DEF MessagesKept, Entered
<1>5. AskedOnce(r)' /\ Growing(r)'
    <2>1. Len(<<>>) <= 1
        OBVIOUS
    <2> QED BY <1>2, <1>3, <1>4, <2>1, AskedOnceUntouched, GrowingUntouched
<1>6. Complete(r)'
    <2>1. cut = {} => /\ held'[r] = held[r] + 1
                      /\ (\A g \in from'[r] : gwUp'[g]) => Len(forwarded'[r]) = held[r]
        BY <1>0, <1>2 DEF Complete
    <2>2. held[r] + 1 - 1 = held[r]
        BY <1>3
    <2> QED BY <1>0, <1>2, <1>3, <1>4, <2>1, <2>2, CompleteUntouched
<1>7. Fresh(r)' /\ Pending(r)'
    BY <1>0, <1>1, <1>2, <1>3 DEF Fresh, Pending
<1>8. SentBack(r)'
    <2> SUFFICES ASSUME NEW i \in DOMAIN forwarded[r]
                 PROVE  /\ \A h \in 1..(i - 1) : forwarded[r][h] < forwarded[r][i]
                        /\ forwarded[r][i] <= held'[r] /\ forwarded[r][i] < held'[r]
                        /\ cut = {} => forwarded[r][i] = i
        BY <1>0 DEF SentBack
    <2>1. forwarded[r][i] \in Nat
        <3>1. forwarded[r] \in Seq(1..Total)
            BY RequestType DEF ConnInv
        <3>2. forwarded[r][i] \in 1..Total
            BY <3>1, ElementOfSeq, LenProperties
        <3> QED BY <3>2, Sizes
    <2>2. forwarded[r][i] <= held[r]
        BY <1>2 DEF SentBack
    <2>3. forwarded[r][i] < held'[r]
        BY <1>0, <1>3, <2>1, <2>2
    <2> QED BY <1>0, <1>2, <1>3, <2>1, <2>3 DEF SentBack
<1> QED BY <1>5, <1>6, <1>7, <1>8 DEF Accounted

LEMMA ForwardingAccounted ==
    ASSUME ConnInv, NEW r \in Requests, Accounted(r), Forwards(r)
    PROVE  Accounted(r)'
<1> USE DEF reqVars, loopVars, msVars, netVars
<1>a. TypeOK
    BY DEF ConnInv
<1>0. /\ handler[r] = "sending" /\ handler'[r] = "ranging"
      /\ forwarded'[r] = IF \A g \in from[r] : gwUp[g]
                         THEN Append(forwarded[r], held[r]) ELSE forwarded[r]
      /\ UNCHANGED <<gwUp, from, held, reqVars, loopVars, msVars, netVars>>
    BY <1>a, RequestType DEF Forwards
<1>1. ~Stale(r) /\ ~Stale(r)' /\ ~Unasked(r)'
    BY <1>0 DEF Stale, Unasked
<1>2. AskedOnce(r) /\ Growing(r) /\ Complete(r) /\ Pending(r) /\ SentBack(r)
    BY <1>1 DEF Accounted
<1>3. MessagesKept(r) /\ Entered(r)' = Entered(r)
    BY <1>0 DEF MessagesKept, Entered
<1>4. AskedOnce(r)' /\ Growing(r)'
    BY <1>0, <1>2, <1>3, AskedOnceUntouched, GrowingUntouched DEF Growing
<1>5. /\ forwarded[r] \in Seq(1..Total) /\ held[r] \in 1..Total /\ held[r] \in Nat
      /\ Len(forwarded[r]) \in Nat /\ DOMAIN forwarded[r] = 1..Len(forwarded[r])
      /\ \A i \in DOMAIN forwarded[r] : forwarded[r][i] \in Nat
    <2>1. held[r] # 0 /\ held[r] \in 0..Total
        BY <1>0 DEF ConnInv, NumberedAnswers, TypeOK
    <2>2. forwarded[r] \in Seq(1..Total)
        BY <1>a, RequestType
    <2>3. Len(forwarded[r]) \in Nat /\ DOMAIN forwarded[r] = 1..Len(forwarded[r])
        BY <2>2, LenProperties
    <2>4. \A i \in DOMAIN forwarded[r] : forwarded[r][i] \in 1..Total
        BY <2>2, <2>3, ElementOfSeq
    <2> QED BY <2>1, <2>2, <2>3, <2>4, Sizes
<1>6. Complete(r)'
    <2>1. ASSUME cut = {}, \A g \in from[r] : gwUp[g]
          PROVE  Len(forwarded'[r]) = held[r]
        <3>1. Len(forwarded[r]) = held[r] - 1
            BY <1>0, <1>2, <2>1 DEF Complete
        <3>2. Len(forwarded'[r]) = Len(forwarded[r]) + 1
            BY <1>0, <1>5, <2>1, AppendProperties
        <3> QED BY <1>5, <3>1, <3>2
    <2>2. cut = {} => (ch'[r] # <<>> => ch'[r][1] = held'[r] + 1)
        BY <1>0, <1>2 DEF Complete
    <2> QED BY <1>0, <1>2, <1>3, <2>1, <2>2, CompleteUntouched
<1>7. Fresh(r)' /\ Pending(r)'
    BY <1>0, <1>1, <1>2 DEF Fresh, Pending
<1>8. SentBack(r)'
    <2>1. CASE ~\A g \in from[r] : gwUp[g]
        BY <1>0, <1>2, <2>1 DEF SentBack
    <2>2. CASE \A g \in from[r] : gwUp[g]
        <3>1. /\ forwarded'[r] = Append(forwarded[r], held[r])
              /\ DOMAIN forwarded'[r] = 1..(Len(forwarded[r]) + 1)
              /\ forwarded'[r][Len(forwarded[r]) + 1] = held[r]
              /\ \A i \in DOMAIN forwarded[r] : forwarded'[r][i] = forwarded[r][i]
            BY <1>0, <1>5, <2>2, AppendElements
        <3>2. ASSUME NEW i \in DOMAIN forwarded'[r]
              PROVE  /\ \A h \in 1..(i - 1) : forwarded'[r][h] < forwarded'[r][i]
                     /\ forwarded'[r][i] <= held[r]
                     /\ cut = {} => forwarded'[r][i] = i
            <4>1. CASE i \in DOMAIN forwarded[r]
                <5>1. \A h \in 1..(i - 1) : h \in DOMAIN forwarded[r]
                    BY <1>5, <4>1
                <5> QED BY <1>2, <3>1, <4>1, <5>1 DEF SentBack
            <4>2. CASE i = Len(forwarded[r]) + 1
                <5>1. \A h \in 1..(i - 1) : h \in DOMAIN forwarded[r]
                    BY <1>5, <4>2
                <5>2. \A h \in DOMAIN forwarded[r] : forwarded[r][h] < held[r]
                    BY <1>0, <1>2 DEF SentBack
                <5>3. cut = {} => held[r] = i
                    <6>1. cut = {} => Len(forwarded[r]) = held[r] - 1
                        BY <1>0, <1>2, <2>2 DEF Complete
                    <6> QED BY <1>5, <4>2, <6>1
                <5> QED BY <1>5, <3>1, <4>2, <5>1, <5>2, <5>3
            <4> QED BY <1>5, <3>1, <3>2, <4>1, <4>2
        <3> QED BY <1>0, <3>2 DEF SentBack
    <2> QED BY <2>1, <2>2
<1> QED BY <1>4, <1>6, <1>7, <1>8 DEF Accounted

LEMMA LeavingAccounted ==
    ASSUME ConnInv, NEW r \in Requests, Accounted(r), GivesUp(r) \/ Finishes(r)
    PROVE  Accounted(r)'
<1> USE DEF reqVars, loopVars, msVars, netVars
<1>a. TypeOK
    BY DEF ConnInv
<1>0. /\ \/ handler[r] = "sending" /\ handler'[r] = "returned" /\ \E g \in from[r] : ~gwUp[g]
         \/ handler[r] = "ranging" /\ handler'[r] = "done" /\ ch[r] = <<>> /\ chClosed[r]
      /\ UNCHANGED <<gwUp, from, held, forwarded, reqVars, loopVars, msVars, netVars>>
    BY <1>a, RequestType DEF GivesUp, Finishes
<1>1. ~Stale(r) /\ ~Unasked(r)'
    BY <1>0 DEF Stale, Unasked
<1>2. AskedOnce(r) /\ Growing(r) /\ Complete(r) /\ Pending(r) /\ SentBack(r)
    BY <1>1 DEF Accounted
<1>3. MessagesKept(r) /\ Entered(r)' = Entered(r)
    BY <1>0 DEF MessagesKept, Entered
<1>4. AskedOnce(r)' /\ Growing(r)'
    BY <1>0, <1>2, <1>3, AskedOnceUntouched, GrowingUntouched DEF Growing
<1>5. Complete(r)'
    BY <1>0 DEF Complete
<1>6. Fresh(r)' /\ SentBack(r)'
    BY <1>0, <1>1, <1>2 DEF Fresh, SentBack
<1>7. Pending(r)'
    BY <1>0, <1>2 DEF Pending, Stale
<1> QED BY <1>4, <1>5, <1>6, <1>7 DEF Accounted

-----------------------------------------------------------------------------
(* The steps of the receive loop and the restart.                           *)

LEMMA RestartAccounted ==
    ASSUME ConnInv, [Next]_vars, NEW r \in Requests, Accounted(r), Restart
    PROVE  Accounted(r)'
<1> USE DEF msVars
<1>0. /\ handler \in [Requests -> {"none", "choosing", "ranging", "sending",
                                   "refused", "done", "returned", "lost"}]
      /\ from \in [Requests -> SUBSET Gateways] /\ Total # 0
    <2>1. Total # 0
        BY Sizes
    <2> QED BY <2>1 DEF ConnInv, TypeOK
<1>1. /\ handler'[r] = IF handler[r] \in {"choosing", "ranging", "sending"} THEN "lost"
                       ELSE handler[r]
      /\ restarted' = TRUE /\ ~restarted /\ ch'[r] = <<>> /\ pending' = {} /\ loop' = "off"
      /\ UNCHANGED <<from, held, forwarded, chClosed, made, msVars, toMs, toLb>>
    BY <1>0 DEF Restart
<1>2. ~Delivering(r)' /\ Entered(r)' = held[r] /\ Passed(r)' = held[r]
    BY <1>1 DEF Delivering, Entered, Passed
<1>3. Fresh(r) /\ Pending(r) /\ SentBack(r)
    BY DEF Accounted
<1>4. /\ OnWay(r)' <=> OnWay(r)
      /\ WorkedFor(r)' <=> WorkedFor(r)
      /\ Answered(r)' <=> Answered(r)
    BY <1>1 DEF OnWay, WorkedFor, Answered
<1>5. Pending(r)'
    <2>1. \A g \in from[r] : gwUp'[g] => gwUp[g]
        BY <1>0, OnlyLost
    <2> QED BY <1>0, <1>1, <1>3, <2>1 DEF Pending, Stale, Fresh, Unasked
<1>6. SentBack(r)'
    <2>1. handler'[r] # "sending" /\ (cut' = {} => cut = {})
        BY <1>1, OnlyLost
    <2> QED BY <1>1, <1>3, <2>1 DEF SentBack
<1>7. Fresh(r)'
    BY <1>1, <1>3, <1>4 DEF Fresh, Unasked
<1>8. ASSUME ~Stale(r)' PROVE AskedOnce(r)' /\ Growing(r)' /\ Complete(r)'
    <2>1. handler[r] \in {"none", "refused", "done"} /\ handler'[r] = handler[r]
        BY <1>0, <1>1, <1>8 DEF Stale
    <2>2. AskedOnce(r) /\ Growing(r)
        BY <2>1 DEF Accounted, Stale
    <2>3. r \notin pending /\ ch[r] = <<>>
        BY <1>3, <2>1 DEF Fresh, Unasked, Pending
    <2>4. ~Delivering(r) /\ Entered(r) = held[r] /\ Passed(r) = held[r]
        BY <2>3 DEF Delivering, Entered, Passed, ConnInv, NumberedAnswers
    <2>5. ~OnWay(r) /\ ~Answered(r)
        BY <2>2, <2>3 DEF AskedOnce, Growing
    <2>6. AskedOnce(r)'
        BY <1>1, <1>4, <2>2, <2>5 DEF AskedOnce, OnWay
    <2>7. Growing(r)'
        BY <1>1, <1>2, <1>4, <2>2, <2>4, <2>5 DEF Growing, Answered
    <2>8. Complete(r)'
        BY <1>1, <2>1 DEF Complete
    <2> QED BY <2>6, <2>7, <2>8
<1> QED BY <1>5, <1>6, <1>7, <1>8 DEF Accounted

\* The answer to a stray message is none to a request whose answers the load
\* balancer knows of.
LEMMA StrayAccounted ==
    ASSUME ConnInv, [Next]_vars, NEW r \in Requests, Accounted(r),
           AnswersStray, Head(toLb[conn]).id = r
    PROVE  Accounted(r)'
<1> USE DEF handlerVars, reqVars, loopVars, msVars
<1>1. HandlerKept(r)
    BY DEF AnswersStray, HandlerKept
<1>2. Pending(r)' /\ SentBack(r)' /\ Stale(r)' = Stale(r)
    BY <1>1, PendingKept DEF Accounted
<1>3. Answered(r) /\ r \notin pending
    <2>1. conn \in Conns /\ toLb[conn] \in Seq(Messages) /\ toLb[conn] # <<>>
        BY NextMessage DEF AnswersStray, ConnInv
    <2>2. toLb[conn][1] = Head(toLb[conn]) /\ 1 \in DOMAIN toLb[conn]
        BY <2>1, HeadType
    <2> QED BY <2>1, <2>2 DEF Answered, AnswersStray
<1>4. Stale(r) /\ ~Unasked(r)
    BY <1>3 DEF Accounted, Growing, Fresh
<1>5. Fresh(r)'
    BY <1>1, <1>4 DEF Fresh, Unasked, HandlerKept
<1> QED BY <1>2, <1>4, <1>5 DEF Accounted

\* ReceiveLoopChan reads a message of r, which is the next of its answer.
LEMMA ReadingAccounted ==
    ASSUME ConnInv, [Next]_vars, TypeOK', NEW r \in Requests, Accounted(r),
           Reads, Head(toLb[conn]).id = r
    PROVE  Accounted(r)'
<1> USE DEF handlerVars, reqVars, msVars
<1>0. /\ conn \in Conns /\ toLb[conn] \in Seq(Messages) /\ toLb[conn] # <<>>
      /\ toLb \in [Conns -> Seq(Messages)]
      /\ loop = "read" /\ loop' = "deliver" /\ loopMsg' = Head(toLb[conn])
      /\ toLb' = [toLb EXCEPT ![conn] = Tail(@)] /\ r \in pending
      /\ UNCHANGED <<handlerVars, reqVars, conn, restarted, msVars, cut, toMs>>
      /\ TypeOK
    BY NextMessage DEF Reads, ConnInv, TypeOK
<1> DEFINE q == toLb[conn]
<1>1. /\ Head(q) = q[1] /\ 1 \in DOMAIN q /\ Len(q) \in Nat
      /\ DOMAIN q = 1..Len(q) /\ DOMAIN Tail(q) = 1..(Len(q) - 1)
      /\ \A i \in DOMAIN Tail(q) : i + 1 \in DOMAIN q /\ Tail(q)[i] = q[i + 1]
      /\ toLb'[conn] = Tail(q)
    BY <1>0, HeadType
<1>2. HandlerKept(r)
    BY <1>0 DEF HandlerKept
<1>3. Pending(r)' /\ SentBack(r)' /\ Stale(r)' = Stale(r)
    BY <1>2, PendingKept DEF Accounted
<1>4. Fresh(r)'
    BY <1>0 DEF Accounted, Fresh, Unasked, Pending
<1>5. ASSUME ~Stale(r) PROVE AskedOnce(r)' /\ Growing(r)' /\ Complete(r)'
    <2>1. AskedOnce(r) /\ Growing(r) /\ Complete(r)
        BY <1>5 DEF Accounted
    <2>2. /\ ~Delivering(r) /\ Delivering(r)' /\ Entered(r)' = Entered(r)
          /\ Passed(r) = Entered(r) /\ Passed(r)' = q[1].n
        BY <1>0, <1>1 DEF Delivering, Entered, Passed
    <2>3. Answered(r)
        BY <1>0, <1>1 DEF Answered
    <2>4. AskedOnce(r)'
        <3>1. ~OnWay(r) /\ ~OnWay(r)'
            BY <1>0, <2>1, <2>3 DEF AskedOnce, OnWay
        <3> QED BY <1>0, <2>1, <3>1 DEF AskedOnce
    <2>5. Growing(r)'
        <3>1. ASSUME NEW k \in Conns, NEW i \in DOMAIN toLb'[k], toLb'[k][i].id = r
              PROVE  /\ k = conn
                     /\ q[1].n < toLb'[k][i].n
                     /\ \A h \in 1..(i - 1) : toLb'[k][h].id = r => toLb'[k][h].n < toLb'[k][i].n
                     /\ \A j \in DOMAIN jobs : jobs[j].id = r => toLb'[k][i].n < jobs[j].n
            <4>1. k = conn
                <5>1. k # conn => toLb'[k] = toLb[k]
                    BY <1>0
                <5> QED BY <2>1, <3>1, <5>1 DEF Growing
            <4>2. /\ i + 1 \in DOMAIN q /\ toLb'[k][i] = q[i + 1] /\ q[i + 1].id = r
                  /\ i \in 1..(Len(q) - 1)
                BY <1>1, <3>1, <4>1
            <4>3. 1 \in 1..((i + 1) - 1) /\ q[1].id = r
                BY <1>0, <1>1, <4>2
            <4>4. q[1].n < q[i + 1].n
                BY <1>0, <2>1, <4>2, <4>3 DEF Growing
            <4>5. ASSUME NEW h \in 1..(i - 1), toLb'[k][h].id = r
                  PROVE  toLb'[k][h].n < toLb'[k][i].n
                <5>a. \A a, l \in Nat : i \in 1..(l - 1) /\ a \in 1..(i - 1) =>
                         a \in 1..(l - 1) /\ a + 1 \in 1..((i + 1) - 1)
                    OBVIOUS
                <5>b. h \in Nat
                    OBVIOUS
                <5>1. h \in DOMAIN Tail(q) /\ h + 1 \in 1..((i + 1) - 1)
                    BY <1>1, <4>2, <4>5, <5>a, <5>b
                <5>2. toLb'[k][h] = q[h + 1]
                    BY <1>1, <4>1, <5>1
                <5>3. \A x \in 1..((i + 1) - 1) : q[x].id = r => q[x].n < q[i + 1].n
                    BY <1>0, <2>1, <4>2 DEF Growing
                <5> QED BY <4>2, <4>5, <5>1, <5>2, <5>3
            <4>6. \A j \in DOMAIN jobs : jobs[j].id = r => q[i + 1].n < jobs[j].n
                BY <1>0, <2>1, <4>2 DEF Growing
            <4> QED BY <4>1, <4>2, <4>4, <4>5, <4>6
        <3>2. Entered(r) < q[1].n /\ \A j \in DOMAIN jobs : jobs[j].id = r => q[1].n < jobs[j].n
            BY <1>0, <1>1, <2>1, <2>2 DEF Growing
        <3>3. /\ Len(ch'[r]) <= 1 /\ (ch'[r] # <<>> => held'[r] < ch'[r][1])
              /\ Delivering(r)' => Entered(r)' < loopMsg'.n
              /\ chClosed'[r] <=> Entered(r)' = Total
              /\ r \in pending'
            BY <1>0, <1>1, <2>1, <2>2, <3>2 DEF Growing
        <3>4. \A j \in DOMAIN jobs' : jobs'[j].id = r => Passed(r)' < jobs'[j].n
            BY <1>0, <2>2, <3>2
        <3>5. \A k \in Conns : \A i \in DOMAIN toLb'[k] : toLb'[k][i].id = r =>
                 /\ k = conn'
                 /\ Passed(r)' < toLb'[k][i].n
                 /\ \A h \in 1..(i - 1) : toLb'[k][h].id = r => toLb'[k][h].n < toLb'[k][i].n
                 /\ \A j \in DOMAIN jobs' : jobs'[j].id = r => toLb'[k][i].n < jobs'[j].n
            BY <1>0, <2>2, <3>1
        <3> QED BY <3>3, <3>4, <3>5 DEF Growing
    <2>6. Complete(r)'
        <3> SUFFICES ASSUME handler'[r] \in {"ranging", "sending"}, cut' = {}
                     PROVE  Complete(r)'
            BY DEF Complete
        <3>0. handler[r] \in {"ranging", "sending"} /\ cut = {}
            BY <1>0
        <3>a. Entered(r) \in Nat /\ q[1].n \in Nat
            <4>1. q[1] \in Messages
                BY <1>0, <1>1, ElementOfSeq
            <4> QED BY <1>0, <4>1, RequestType, MessageType, Sizes
        <3>b. Entered(r) < q[1].n
            BY <1>0, <1>1, <2>1, <2>2 DEF Growing
        <3>1. q[1].n = Entered(r) + 1
            <4>1. Entered(r) + 1 \in (Passed(r) + 1)..q[1].n
                BY <2>2, <3>a, <3>b
            <4>2. PICK h \in 1..1 : q[h].id = r /\ q[h].n = Entered(r) + 1
                BY <1>0, <1>1, <2>1, <3>0, <4>1 DEF Complete
            <4>3. h = 1
                OBVIOUS
            <4> QED BY <4>2, <4>3
        <3>2. ASSUME NEW i \in DOMAIN q, i # 1, q[i].id = r, NEW x \in (q[1].n + 1)..q[i].n
              PROVE  \E h \in 1..(i - 1) : Tail(q)[h].id = r /\ Tail(q)[h].n = x
            <4>1. x \in (Passed(r) + 1)..q[i].n
                BY <2>2, <3>a, <3>b
            <4>2. PICK h \in 1..i : q[h].id = r /\ q[h].n = x
                BY <2>1, <3>0, <3>2, <4>1 DEF Complete
            <4>3. h # 1
                BY <3>a, <4>2
            <4>a. i \in 1..Len(q) /\ Len(q) \in Nat /\ h \in 1..i
                BY <1>1, <4>2
            <4>4. h - 1 \in 1..(Len(q) - 1) /\ h - 1 \in 1..(i - 1) /\ (h - 1) + 1 = h
                BY <4>a, <4>3
            <4>5. h - 1 \in DOMAIN Tail(q)
                BY <1>1, <4>4
            <4> QED BY <1>1, <4>2, <4>4, <4>5
        <3>3. ASSUME NEW i \in DOMAIN Tail(q), Tail(q)[i].id = r,
                     NEW x \in (q[1].n + 1)..Tail(q)[i].n
              PROVE  \E h \in 1..i : Tail(q)[h].id = r /\ Tail(q)[h].n = x
            <4>1. i + 1 \in DOMAIN q /\ i + 1 # 1 /\ (i + 1) - 1 = i /\ Tail(q)[i] = q[i + 1]
                BY <1>1
            <4> QED BY <3>2, <3>3, <4>1
        <3>4. ASSUME NEW j \in DOMAIN jobs, jobs[j].id = r, NEW x \in (q[1].n + 1)..(jobs[j].n - 1)
              PROVE  \E i \in DOMAIN Tail(q) : Tail(q)[i].id = r /\ Tail(q)[i].n = x
            <4>1. x \in (Passed(r) + 1)..(jobs[j].n - 1)
                BY <2>2, <3>a, <3>b
            <4>2. PICK i \in DOMAIN q : q[i].id = r /\ q[i].n = x
                BY <2>1, <3>0, <3>4, <4>1 DEF Complete
            <4>3. i # 1
                BY <3>a, <4>2
            <4>4. i - 1 \in DOMAIN Tail(q) /\ (i - 1) + 1 = i
                BY <1>1, <4>3
            <4> QED BY <1>1, <4>2, <4>4
        <3>5. OnWay(r)' \/ WorkedFor(r)'
            BY <1>0, <2>1, <3>0 DEF Complete, OnWay, WorkedFor
        <3>6. /\ ch'[r] # <<>> => ch'[r][1] = held'[r] + 1
              /\ (\A g \in from'[r] : gwUp'[g]) =>
                    Len(forwarded'[r]) = IF handler'[r] = "sending" THEN held'[r] - 1 ELSE held'[r]
            BY <1>0, <2>1, <3>0 DEF Complete
        <3>7. \A i \in DOMAIN toLb'[conn'] : toLb'[conn'][i].id = r =>
                 \A x \in (Passed(r)' + 1)..toLb'[conn'][i].n :
                     \E h \in 1..i : toLb'[conn'][h].id = r /\ toLb'[conn'][h].n = x
            BY <1>0, <1>1, <2>2, <3>3
        <3>8. \A j \in DOMAIN jobs' : jobs'[j].id = r =>
                 \A x \in (Passed(r)' + 1)..(jobs'[j].n - 1) :
                     \E i \in DOMAIN toLb'[conn'] : toLb'[conn'][i].id = r /\ toLb'[conn'][i].n = x
            BY <1>0, <1>1, <2>2, <3>4
        <3>9. Delivering(r)' => loopMsg'.n = Entered(r)' + 1
            BY <1>0, <1>1, <2>2, <3>1
        <3> QED BY <3>5, <3>6, <3>7, <3>8, <3>9 DEF Complete
    <2> QED BY <2>4, <2>5, <2>6
<1> QED BY <1>3, <1>4, <1>5 DEF Accounted

\* It puts the message it holds into the channel, and closes it after the last.
LEMMA DeliveryAccounted ==
    ASSUME ConnInv, NEW r \in Requests, Accounted(r), Delivers, loopMsg.id = r
    PROVE  Accounted(r)'
<1> USE DEF handlerVars, msVars, netVars
<1>a. /\ TypeOK /\ ch \in [Requests -> Seq(1..Total)] /\ chClosed \in [Requests -> BOOLEAN]
      /\ ch[r] \in Seq(1..Total) /\ held[r] \in Nat /\ Total \in Nat
    BY RequestType DEF ConnInv
<1> DEFINE n == loopMsg.n
<1>b. n \in 1..Total /\ r \in pending /\ (IsStream(loopMsg) <=> n # Total)
    <2>1. n \in 0..Total /\ n # 0 /\ loopMsg.id \in pending
        BY <1>a, MessageType DEF Delivers, ConnInv, NumberedAnswers, TypeOK
    <2>2. n \in 1..Total
        BY <1>a, <2>1
    <2>3. n \in 1..StreamLen <=> n # Total
        BY <2>2, Sizes
    <2> QED BY <2>1, <2>2, <2>3 DEF IsStream
<1>0. /\ loop = "deliver" /\ loop' = "read" /\ Len(ch[r]) < 1
      /\ ch'[r] = Append(ch[r], n) /\ (chClosed'[r] <=> n = Total)
      /\ r \in pending' <=> n # Total
      /\ UNCHANGED <<handlerVars, conn, restarted, msVars, netVars>>
    BY <1>a, <1>b DEF Delivers, ChanCap
<1> HIDE DEF n
<1>1. ch[r] = <<>> /\ ch'[r] = <<n>> /\ Len(ch'[r]) <= 1 /\ ch'[r] # <<>> /\ ch'[r][1] = n
    <2>1. Len(ch[r]) = 0
        <3>1. Len(ch[r]) \in Nat
            BY <1>a, LenProperties
        <3>2. \A a \in Nat : a < 1 => a = 0
            OBVIOUS
        <3> QED BY <1>0, <3>1, <3>2
    <2>2. ch[r] = <<>>
        BY <1>a, <2>1, EmptySeq
    <2>3. Append(<<>>, n) = <<n>>
        OBVIOUS
    <2> QED BY <1>0, <2>2, <2>3
<1>2. Fresh(r) /\ Pending(r) /\ SentBack(r)
    BY DEF Accounted
<1>3. handler[r] \in {"ranging", "sending", "returned"} /\ ~chClosed[r]
    BY <1>b, <1>2 DEF Pending
<1>4. Fresh(r)' /\ SentBack(r)'
    BY <1>0, <1>2, <1>3 DEF Fresh, Unasked, SentBack
<1>5. Pending(r)'
    BY <1>0, <1>2, <1>3 DEF Pending
<1>6. Stale(r)' = Stale(r)
    BY <1>0 DEF Stale
<1>7. ASSUME ~Stale(r) PROVE AskedOnce(r)' /\ Growing(r)' /\ Complete(r)'
    <2>1. AskedOnce(r) /\ Growing(r) /\ Complete(r)
        BY <1>7 DEF Accounted
    <2>2. /\ Delivering(r) /\ ~Delivering(r)' /\ Entered(r) = held[r] /\ Entered(r)' = n
          /\ Passed(r) = n /\ Passed(r)' = n
        BY <1>0, <1>1 DEF Delivering, Entered, Passed, n
    <2>3. held[r] < n
        BY <2>1, <2>2 DEF Growing, n
    <2>4. /\ OnWay(r)' <=> OnWay(r)
          /\ WorkedFor(r)' <=> WorkedFor(r)
          /\ Answered(r)' <=> Answered(r)
        BY <1>0 DEF OnWay, WorkedFor, Answered
    <2>5. AskedOnce(r)'
        BY <1>0, <2>1, <2>2, <2>4 DEF AskedOnce
    <2>6. Answered(r)' => r \in pending'
        <3> SUFFICES ASSUME Answered(r) PROVE n # Total
            BY <1>0, <2>4
        <3>1. PICK k \in Conns : \E i \in DOMAIN toLb[k] : toLb[k][i].id = r
            BY DEF Answered
        <3>2. PICK i \in DOMAIN toLb[k] : toLb[k][i].id = r
            BY <3>1
        <3>3. toLb[k][i].n \in 0..Total
            <4>1. toLb[k][i] \in Messages
                BY <1>a, Positions, ElementOfSeq
            <4> QED BY <4>1, MessageType
        <3>4. n < toLb[k][i].n
            BY <2>1, <2>2, <3>2 DEF Growing
        <3> QED BY <1>a, <1>b, <3>3, <3>4
    <2>7. Growing(r)'
        BY <1>0, <1>1, <2>1, <2>2, <2>3, <2>6 DEF Growing
    <2>8. Complete(r)'
        <3> SUFFICES ASSUME handler[r] \in {"ranging", "sending"}, cut = {} PROVE Complete(r)'
            BY <1>0 DEF Complete
        <3>1. n = held[r] + 1
            BY <2>1, <2>2 DEF Complete, n
        <3>2. OnWay(r)' \/ WorkedFor(r)'
            BY <2>1, <2>4 DEF Complete
        <3>3. (\A g \in from'[r] : gwUp'[g]) =>
                Len(forwarded'[r]) = IF handler'[r] = "sending" THEN held'[r] - 1 ELSE held'[r]
            BY <1>0, <2>1 DEF Complete
        <3>4. \A i \in DOMAIN toLb'[conn'] : toLb'[conn'][i].id = r =>
                 \A x \in (Passed(r)' + 1)..toLb'[conn'][i].n :
                     \E h \in 1..i : toLb'[conn'][h].id = r /\ toLb'[conn'][h].n = x
            BY <1>0, <2>1, <2>2 DEF Complete
        <3>5. \A j \in DOMAIN jobs' : jobs'[j].id = r =>
                 \A x \in (Passed(r)' + 1)..(jobs'[j].n - 1) :
                     \E i \in DOMAIN toLb'[conn'] : toLb'[conn'][i].id = r /\ toLb'[conn'][i].n = x
            BY <1>0, <2>1, <2>2 DEF Complete
        <3>6. ch'[r][1] = held'[r] + 1
            BY <1>0, <1>1, <3>1
        <3> QED BY <2>2, <3>2, <3>3, <3>4, <3>5, <3>6 DEF Complete
    <2> QED BY <2>5, <2>7, <2>8
<1> QED BY <1>4, <1>5, <1>6, <1>7 DEF Accounted

-----------------------------------------------------------------------------
(* The steps of the microservice.                                           *)

\* Work gets r and starts the HandleRequest of it, the only one.
LEMMA WorkAccounted ==
    ASSUME ConnInv, [Next]_vars, TypeOK', NEW r \in Requests, Accounted(r),
           NEW k \in Conns, Works(k), Head(toMs[reading[k]]) = r
    PROVE  Accounted(r)'
<1> USE DEF handlerVars, reqVars, loopVars
<1> DEFINE a == reading[k]
           e == Reply(r, 1)
<1>a. /\ a \in Conns /\ toMs[a] # <<>> /\ toMs \in [Conns -> Seq(IDs)]
      /\ toMs' = [toMs EXCEPT ![a] = Tail(@)] /\ toLb' = toLb
      /\ jobs' = Append(jobs, e)
      /\ UNCHANGED <<handlerVars, reqVars, loopVars, cut>>
      /\ toMs[a] \in Seq(IDs)
    <2>1. r # Hello
        BY Sizes
    <2> QED BY <2>1, Working DEF Works
<1>b. jobs \in Seq([id : Requests, n : 1..(Total + 1)]) /\ e \in [id : Requests, n : 1..(Total + 1)]
    BY Sizes DEF ConnInv, TypeOK, Reply
<1>c. e.id = r /\ e.n = 1
    BY DEF Reply
<1> HIDE DEF a, e
<1>1. /\ DOMAIN jobs' = 1..(Len(jobs) + 1) /\ Len(jobs) \in Nat /\ DOMAIN jobs = 1..Len(jobs)
      /\ jobs'[Len(jobs) + 1] = e
      /\ \A j \in DOMAIN jobs : jobs'[j] = jobs[j]
      /\ \A j \in DOMAIN jobs' : j \in DOMAIN jobs \/ j = Len(jobs) + 1
    BY <1>a, <1>b, AppendElements
<1>2. /\ toMs[a][1] = r /\ 1 \in DOMAIN toMs[a] /\ DOMAIN Tail(toMs[a]) = 1..(Len(toMs[a]) - 1)
      /\ \A i \in DOMAIN Tail(toMs[a]) :
            i + 1 \in DOMAIN toMs[a] /\ Tail(toMs[a])[i] = toMs[a][i + 1]
    BY <1>a, HeadType DEF a
<1>3. OnWay(r)
    BY <1>a, <1>2 DEF OnWay
<1>4. HandlerKept(r) /\ ~Unasked(r) /\ ~Unasked(r)'
    BY <1>a, <1>3 DEF HandlerKept, Accounted, Fresh, Unasked
<1>5. Pending(r)' /\ SentBack(r)' /\ Stale(r)' = Stale(r)
    BY <1>4, PendingKept DEF Accounted
<1>6. Fresh(r)'
    BY <1>4 DEF Fresh
<1>7. ASSUME ~Stale(r) PROVE AskedOnce(r)' /\ Growing(r)' /\ Complete(r)'
    <2>1. AskedOnce(r) /\ Growing(r) /\ Complete(r)
        BY <1>7 DEF Accounted
    <2>2. ~WorkedFor(r) /\ ~Answered(r) /\ ~Delivering(r) /\ Entered(r) = 0 /\ r \in pending
        BY <1>3, <2>1 DEF AskedOnce
    <2>3. /\ ~Answered(r)' /\ ~Delivering(r)' /\ Entered(r)' = 0 /\ Passed(r)' = 0
        BY <1>a, <2>2 DEF Answered, Delivering, Entered, Passed
    <2>4. \A j \in DOMAIN jobs' : jobs'[j].id = r => j = Len(jobs) + 1 /\ jobs'[j].n = 1
        <3>1. \A j \in DOMAIN jobs : jobs[j].id # r
            BY <2>2 DEF WorkedFor
        <3> QED BY <1>1, <1>c, <3>1
    <2>5. ~OnWay(r)'
        <3> SUFFICES ASSUME NEW l \in Conns, NEW i \in DOMAIN toMs'[l], toMs'[l][i] = r
                     PROVE  FALSE
            BY DEF OnWay
        <3>1. l = a
            <4>1. l # a => toMs'[l] = toMs[l]
                BY <1>a
            <4> QED BY <1>a, <1>2, <2>1, <4>1 DEF AskedOnce
        <3>2. toMs'[l] = Tail(toMs[a])
            BY <1>a, <3>1
        <3>3. i + 1 \in DOMAIN toMs[a] /\ toMs[a][i + 1] = r /\ i \in 1..(Len(toMs[a]) - 1)
            BY <1>2, <3>2
        <3>4. i + 1 = 1
            BY <1>a, <1>2, <2>1, <3>3 DEF AskedOnce
        <3>5. i # 0 /\ i \in Int
            BY <3>3
        <3> QED BY <3>4, <3>5
    <2>6. AskedOnce(r)'
        <3>1. \A i, j \in DOMAIN jobs' : jobs'[i].id = r /\ jobs'[j].id = r => i = j
            BY <2>4
        <3>2. \A l, m \in Conns : \A i \in DOMAIN toMs'[l], j \in DOMAIN toMs'[m] :
                 ~(toMs'[l][i] = r /\ toMs'[m][j] = r)
            BY <2>5 DEF OnWay
        <3> QED BY <2>5, <3>1, <3>2 DEF AskedOnce
    <2>7. Growing(r)'
        <3>1. \A l \in Conns : \A i \in DOMAIN toLb'[l] : toLb'[l][i].id # r
            BY <2>3 DEF Answered
        <3>2. \A j \in DOMAIN jobs' : jobs'[j].id = r => Passed(r)' < jobs'[j].n
            BY <2>3, <2>4
        <3>3. /\ Len(ch'[r]) <= 1 /\ (ch'[r] # <<>> => held'[r] < ch'[r][1])
              /\ chClosed'[r] <=> Entered(r)' = Total
            BY <1>a, <2>1, <2>2, <2>3 DEF Growing
        <3> QED BY <2>3, <3>1, <3>2, <3>3 DEF Growing
    <2>8. Complete(r)'
        <3> SUFFICES ASSUME handler[r] \in {"ranging", "sending"}, cut = {} PROVE Complete(r)'
            BY <1>a DEF Complete
        <3>1. WorkedFor(r)'
            <4>1. Len(jobs) + 1 \in DOMAIN jobs'
                BY <1>1
            <4> QED BY <1>1, <1>c, <4>1 DEF WorkedFor
        <3>2. conn \in Conns
            BY <1>3, FirstConnection
        <3>3. \A i \in DOMAIN toLb'[conn'] : toLb'[conn'][i].id # r
            BY <1>a, <2>3, <3>2 DEF Answered
        <3>4. \A j \in DOMAIN jobs' : jobs'[j].id = r =>
                 \A x \in (Passed(r)' + 1)..(jobs'[j].n - 1) : FALSE
            BY <2>3, <2>4
        <3>5. /\ ch'[r] # <<>> => ch'[r][1] = held'[r] + 1
              /\ (\A g \in from'[r] : gwUp'[g]) =>
                    Len(forwarded'[r]) = IF handler'[r] = "sending" THEN held'[r] - 1 ELSE held'[r]
            BY <1>a, <2>1 DEF Complete
        <3> QED BY <2>3, <3>1, <3>3, <3>4, <3>5 DEF Complete
    <2> QED BY <2>6, <2>7, <2>8
<1> QED BY <1>5, <1>6, <1>7 DEF Accounted

\* HandleRequest sends its next message over LbConn, which is the connection
\* the receive loop reads unless it is cut.
LEMMA AnswerAccounted ==
    ASSUME ConnInv, [Next]_vars, TypeOK', NEW r \in Requests, Accounted(r),
           NEW j \in DOMAIN jobs, Answers(j), jobs[j].id = r
    PROVE  Accounted(r)'
<1> USE DEF handlerVars, reqVars, loopVars
<1> DEFINE n == jobs[j].n
<1>a. /\ n \in 1..Total /\ n \in Nat /\ Total \in Nat /\ jobs[j] \in Messages
      /\ jobs[j] \in [id : Requests, n : 1..(Total + 1)]
      /\ lbConn \in Conns /\ lbConn \in 1..made
      /\ UNCHANGED <<handlerVars, reqVars, loopVars, cut, toMs>>
      /\ TypeOK
    BY Answering, Sizes DEF Answers, ConnInv
<1>b. /\ DOMAIN jobs' = DOMAIN jobs
      /\ jobs'[j].id = r /\ jobs'[j].n \in {n + 1, Total + 1}
      /\ lbConn \notin cut => jobs'[j].n = n + 1
      /\ \A i \in DOMAIN jobs : i # j => jobs'[i] = jobs[i]
    <2>1. CASE jobs' = [jobs EXCEPT ![j].n = @ + 1]
        BY <1>a, <2>1
    <2>2. CASE lbConn \in cut /\ jobs' = [jobs EXCEPT ![j].n = Total + 1]
        BY <1>a, <2>2
    <2> QED BY <2>1, <2>2 DEF Answers
<1>c. /\ toLb' = SentToLb(lbConn, jobs[j]) /\ toLb \in [Conns -> Seq(Messages)]
      /\ lbConn \notin cut => lbConn = conn
    BY <1>a DEF Answers, ConnInv, OneConnection, TypeOK
<1> HIDE DEF n
<1>1. WorkedFor(r)
    BY DEF WorkedFor
<1>2. HandlerKept(r) /\ ~Unasked(r) /\ ~Unasked(r)'
    BY <1>a, <1>1 DEF HandlerKept, Accounted, Fresh, Unasked
<1>3. Pending(r)' /\ SentBack(r)' /\ Stale(r)' = Stale(r)
    BY <1>2, PendingKept DEF Accounted
<1>4. Fresh(r)'
    BY <1>2 DEF Fresh
<1>5. ASSUME ~Stale(r) PROVE AskedOnce(r)' /\ Growing(r)' /\ Complete(r)'
    <2>1. AskedOnce(r) /\ Growing(r) /\ Complete(r) /\ Pending(r)
        BY <1>5 DEF Accounted
    <2>2. ~OnWay(r) /\ ~OnWay(r)' /\ \A i \in DOMAIN jobs : jobs[i].id = r => i = j
        BY <1>1, <1>a, <2>1 DEF AskedOnce, OnWay
    <2>3. /\ Delivering(r)' <=> Delivering(r)
          /\ Entered(r)' = Entered(r) /\ Passed(r)' = Passed(r)
          /\ Entered(r) \in Nat /\ Passed(r) \in Nat /\ Passed(r) < n
        BY <1>a, <2>1, RequestType DEF Delivering, Entered, Passed, Growing, n
    <2>4. \A i \in DOMAIN jobs' : jobs'[i].id = r => i = j
        BY <1>b, <2>2
    <2>5. r \in pending
        <3>1. Entered(r) <= Passed(r)
            BY <1>a, <2>1, <2>3, RequestType DEF Growing, Passed
        <3>2. ~chClosed[r]
            BY <1>a, <2>1, <2>3, <3>1 DEF Growing
        <3>3. handler[r] \in {"ranging", "sending", "done", "returned"}
            BY <1>a, <1>2, <1>5, RequestType DEF Unasked, Stale
        <3> QED BY <1>5, <2>1, <3>2, <3>3 DEF Pending
    <2>6. AskedOnce(r)'
        <3>1. \A k, l \in Conns : \A x \in DOMAIN toMs'[k], y \in DOMAIN toMs'[l] :
                 ~(toMs'[k][x] = r /\ toMs'[l][y] = r)
            BY <2>2 DEF OnWay
        <3> QED BY <2>2, <2>4, <3>1 DEF AskedOnce
    <2>7. ASSUME NEW k \in Conns
          PROVE  \/ toLb'[k] = toLb[k]
                 \/ /\ k = conn /\ lbConn = conn /\ lbConn \notin cut
                    /\ DOMAIN toLb'[k] = 1..(Len(toLb[k]) + 1)
                    /\ toLb'[k][Len(toLb[k]) + 1] = jobs[j]
                    /\ \A i \in DOMAIN toLb[k] : i \in DOMAIN toLb'[k] /\ toLb'[k][i] = toLb[k][i]
                    /\ \A i \in DOMAIN toLb'[k] : i \in DOMAIN toLb[k] \/ i = Len(toLb[k]) + 1
        <3>1. toLb'[k] = toLb[k] \/ (k = lbConn /\ lbConn \notin cut
                                     /\ toLb'[k] = Append(toLb[k], jobs[j]))
            BY <1>c DEF SentToLb
        <3>2. toLb[k] \in Seq(Messages)
            BY <1>c
        <3> DEFINE t == Append(toLb[k], jobs[j])
        <3>3. /\ DOMAIN t = 1..(Len(toLb[k]) + 1) /\ t[Len(toLb[k]) + 1] = jobs[j]
              /\ \A i \in DOMAIN toLb[k] : i \in DOMAIN t /\ t[i] = toLb[k][i]
              /\ \A i \in DOMAIN t : i \in DOMAIN toLb[k] \/ i = Len(toLb[k]) + 1
            BY <1>a, <3>2, AppendElements
        <3>4. toLb'[k] = toLb[k] \/ (k = lbConn /\ lbConn \notin cut /\ toLb'[k] = t)
            BY <3>1
        <3> HIDE DEF t
        <3> QED BY <1>c, <3>3, <3>4
    <2>8. Growing(r)'
        <3>1. ASSUME NEW k \in Conns, NEW i \in DOMAIN toLb'[k], toLb'[k][i].id = r
              PROVE  /\ k = conn
                     /\ Passed(r) < toLb'[k][i].n
                     /\ \A h \in 1..(i - 1) : toLb'[k][h].id = r => toLb'[k][h].n < toLb'[k][i].n
                     /\ toLb'[k][i].n < jobs'[j].n
            <4>0. /\ DOMAIN toLb[k] = 1..Len(toLb[k]) /\ Len(toLb[k]) \in Nat
                  /\ \A h \in DOMAIN toLb[k] : toLb[k][h].n \in Nat
                <5>1. toLb[k] \in Seq(Messages) /\ Len(toLb[k]) \in Nat
                      /\ DOMAIN toLb[k] = 1..Len(toLb[k])
                    BY <1>a, Positions
                <5>2. \A h \in DOMAIN toLb[k] : toLb[k][h] \in Messages
                    BY <5>1, ElementOfSeq
                <5> QED BY <5>1, <5>2, MessageType, Sizes
            <4>1. \A h \in DOMAIN toLb[k] : toLb[k][h].id = r =>
                    /\ k = conn /\ Passed(r) < toLb[k][h].n /\ toLb[k][h].n < n
                    /\ \A x \in 1..(h - 1) : toLb[k][x].id = r => toLb[k][x].n < toLb[k][h].n
                BY <2>1 DEF Growing, n
            <4>2. CASE i \in DOMAIN toLb[k] /\ toLb'[k][i] = toLb[k][i]
                <5>1. \A h \in 1..(i - 1) : h \in DOMAIN toLb[k]
                    BY <4>0, <4>2
                <5>2. \A h \in 1..(i - 1) : toLb'[k][h] = toLb[k][h]
                    BY <2>7, <5>1
                <5>3. toLb[k][i].id = r /\ toLb[k][i].n \in Nat
                    BY <3>1, <4>0, <4>2
                <5>4. toLb[k][i].n < jobs'[j].n
                    BY <1>a, <1>b, <4>1, <4>2, <5>3
                <5> QED BY <4>1, <4>2, <5>2, <5>3, <5>4
            <4>3. CASE i = Len(toLb[k]) + 1 /\ i \notin DOMAIN toLb[k]
                <5>1. /\ toLb'[k][i] = jobs[j] /\ k = conn
                      /\ \A h \in DOMAIN toLb[k] : toLb'[k][h] = toLb[k][h]
                    BY <2>7, <4>3
                <5>2. \A h \in 1..(i - 1) : h \in DOMAIN toLb[k]
                    BY <4>0, <4>3
                <5>3. \A h \in 1..(i - 1) : toLb'[k][h].id = r => toLb'[k][h].n < n
                    BY <4>1, <5>1, <5>2
                <5>4. n < jobs'[j].n
                    BY <1>a, <1>b
                <5> QED BY <2>3, <5>1, <5>3, <5>4 DEF n
            <4> QED BY <2>7, <4>2, <4>3
        <3>2. Passed(r) < jobs'[j].n
            BY <1>a, <1>b, <2>3
        <3>3. /\ Len(ch'[r]) <= 1 /\ (ch'[r] # <<>> => held'[r] < ch'[r][1])
              /\ Delivering(r)' => Entered(r)' < loopMsg'.n
              /\ chClosed'[r] <=> Entered(r)' = Total
              /\ r \in pending' /\ conn' = conn
            BY <1>a, <2>1, <2>3, <2>5 DEF Growing
        <3> QED BY <2>3, <2>4, <3>1, <3>2, <3>3 DEF Growing
    <2>9. Complete(r)'
        <3> SUFFICES ASSUME handler[r] \in {"ranging", "sending"}, cut = {} PROVE Complete(r)'
            BY <1>a DEF Complete
        <3> DEFINE q == toLb[conn]
        <3>0. conn \in Conns /\ conn' = conn /\ lbConn = conn
            BY <1>1, <1>a, <1>c, FirstConnection
        <3>1. /\ DOMAIN toLb'[conn] = 1..(Len(q) + 1) /\ toLb'[conn][Len(q) + 1] = jobs[j]
              /\ \A i \in DOMAIN q : i \in DOMAIN toLb'[conn] /\ toLb'[conn][i] = q[i]
              /\ \A i \in DOMAIN toLb'[conn] : i \in DOMAIN q \/ i = Len(q) + 1
              /\ DOMAIN q = 1..Len(q) /\ Len(q) \in Nat
            <4>1. toLb'[conn] = Append(q, jobs[j]) /\ q \in Seq(Messages)
                BY <1>c, <3>0 DEF SentToLb
            <4> QED BY <1>a, <4>1, AppendElements
        <3>2. jobs'[j].n = n + 1
            BY <1>b
        <3>3. ASSUME NEW x \in (Passed(r) + 1)..(n - 1)
              PROVE  \E i \in DOMAIN q : q[i].id = r /\ q[i].n = x
            BY <2>1 DEF Complete, n
        <3>4. ASSUME NEW i \in DOMAIN toLb'[conn], toLb'[conn][i].id = r,
                     NEW x \in (Passed(r) + 1)..toLb'[conn][i].n
              PROVE  \E h \in 1..i : toLb'[conn][h].id = r /\ toLb'[conn][h].n = x
            <4>1. CASE i \in DOMAIN q
                <5>1. toLb'[conn][i] = q[i]
                    BY <3>1, <4>1
                <5>2. PICK h \in 1..i : q[h].id = r /\ q[h].n = x
                    BY <2>1, <3>4, <4>1, <5>1 DEF Complete
                <5>3. h \in DOMAIN q
                    BY <3>1, <4>1
                <5> QED BY <3>1, <5>2, <5>3
            <4>2. CASE i = Len(q) + 1
                <5>1. toLb'[conn][i] = jobs[j] /\ i \in 1..i
                    BY <3>1, <4>2
                <5>2. CASE x = n
                    BY <5>1, <5>2 DEF n
                <5>3. CASE x # n
                    <6>1. x \in (Passed(r) + 1)..(n - 1)
                        <7>1. x \in (Passed(r) + 1)..n
                            BY <3>4, <5>1 DEF n
                        <7> QED BY <1>a, <2>3, <5>3, <7>1
                    <6>2. PICK h \in DOMAIN q : q[h].id = r /\ q[h].n = x
                        BY <3>3, <6>1
                    <6>3. h \in 1..i
                        BY <3>1, <4>2
                    <6> QED BY <3>1, <6>2, <6>3
                <5> QED BY <5>2, <5>3
            <4> QED BY <3>1, <4>1, <4>2
        <3>5. ASSUME NEW x \in (Passed(r) + 1)..(jobs'[j].n - 1)
              PROVE  \E i \in DOMAIN toLb'[conn] : toLb'[conn][i].id = r /\ toLb'[conn][i].n = x
            <4>1. x \in (Passed(r) + 1)..n
                BY <1>a, <3>2
            <4>2. CASE x = n
                <5>1. Len(q) + 1 \in DOMAIN toLb'[conn]
                    BY <3>1
                <5> QED BY <3>1, <4>2, <5>1 DEF n
            <4>3. CASE x # n
                <5>1. x \in (Passed(r) + 1)..(n - 1)
                    BY <1>a, <2>3, <4>1, <4>3
                <5> QED BY <3>1, <3>3, <5>1
            <4> QED BY <4>2, <4>3
        <3>6. WorkedFor(r)'
            BY <1>b DEF WorkedFor
        <3>7. /\ Delivering(r)' => loopMsg'.n = Entered(r)' + 1
              /\ ch'[r] # <<>> => ch'[r][1] = held'[r] + 1
              /\ (\A g \in from'[r] : gwUp'[g]) =>
                    Len(forwarded'[r]) = IF handler'[r] = "sending" THEN held'[r] - 1 ELSE held'[r]
            BY <1>a, <2>1, <2>3 DEF Complete
        <3>8. \A i \in DOMAIN jobs' : jobs'[i].id = r =>
                 \A x \in (Passed(r)' + 1)..(jobs'[i].n - 1) :
                     \E y \in DOMAIN toLb'[conn'] : toLb'[conn'][y].id = r /\ toLb'[conn'][y].n = x
            BY <2>3, <2>4, <3>0, <3>5
        <3>9. \A i \in DOMAIN toLb'[conn'] : toLb'[conn'][i].id = r =>
                 \A x \in (Passed(r)' + 1)..toLb'[conn'][i].n :
                     \E h \in 1..i : toLb'[conn'][h].id = r /\ toLb'[conn'][h].n = x
            BY <2>3, <3>0, <3>4
        <3> QED BY <3>6, <3>7, <3>8, <3>9 DEF Complete
    <2> QED BY <2>6, <2>8, <2>9
<1> QED BY <1>3, <1>4, <1>5 DEF Accounted

-----------------------------------------------------------------------------
(* The invariant of the requests, and what follows from it.                 *)

LEMMA InitRequests == Init => ReqInv
<1> SUFFICES ASSUME Init, NEW r \in Requests PROVE Accounted(r)
    BY DEF ReqInv
<1>1. /\ handler[r] = "none" /\ held[r] = 0 /\ forwarded[r] = <<>> /\ ch[r] = <<>>
      /\ pending = {} /\ ~chClosed[r] /\ jobs = <<>> /\ loop = "off"
      /\ \A k \in Conns : toMs[k] = <<>> /\ toLb[k] = <<>>
    BY DEF Init
<1>2. ~OnWay(r) /\ ~WorkedFor(r) /\ ~Answered(r) /\ ~Delivering(r) /\ ~Stale(r)
    BY <1>1 DEF OnWay, WorkedFor, Answered, Delivering, Stale
<1>3. Entered(r) = 0 /\ Total # 0
    BY <1>1, Sizes DEF Entered
<1>4. Fresh(r) /\ Pending(r) /\ SentBack(r)
    BY <1>1, <1>2 DEF Fresh, Pending, SentBack
<1>5. AskedOnce(r)
    BY <1>1, <1>2 DEF AskedOnce
<1>6. Growing(r)
    BY <1>1, <1>2, <1>3 DEF Growing
<1>7. Complete(r)
    BY <1>1 DEF Complete
<1> QED BY <1>4, <1>5, <1>6, <1>7 DEF Accounted

LEMMA AccountedStep ==
    ASSUME ConnInv, [Next]_vars, NEW r \in Requests, Accounted(r)
    PROVE  Accounted(r)'
<1>0. TypeOK'
    BY TypeStep
<1>1. CASE ~Own(r)
    BY <1>0, <1>1, AccountedKept
<1>2. CASE HandlerStep(r) \/ \E g \in Gateways : Arrives(r, g)
    BY <1>0, <1>2, ArrivalAccounted, AskingAccounted, TakingAccounted, ForwardingAccounted,
       LeavingAccounted DEF HandlerStep
<1>3. CASE (Reads \/ AnswersStray) /\ Head(toLb[conn]).id = r
    BY <1>0, <1>3, ReadingAccounted, StrayAccounted
<1>4. CASE Delivers /\ loopMsg.id = r
    BY <1>4, DeliveryAccounted
<1>5. ASSUME NEW k \in Conns, Works(k), Head(toMs[reading[k]]) = r PROVE Accounted(r)'
    BY <1>0, <1>5, WorkAccounted
<1>6. ASSUME NEW j \in DOMAIN jobs, Answers(j), jobs[j].id = r PROVE Accounted(r)'
    BY <1>0, <1>6, AnswerAccounted
<1>7. CASE Restart
    BY <1>7, RestartAccounted
<1> QED BY <1>1, <1>2, <1>3, <1>4, <1>5, <1>6, <1>7 DEF Own

\* The inductive invariant: what is known of the connections and of every
\* request at any time.
THEOREM RequestInvariance == Spec => [](ConnInv /\ ReqInv)
<1>1. Init => ConnInv /\ ReqInv
    BY InitConn, InitRequests
<1>2. ConnInv /\ ReqInv /\ [Next]_vars => (ConnInv /\ ReqInv)'
    <2> SUFFICES ASSUME ConnInv, ReqInv, [Next]_vars PROVE ConnInv' /\ ReqInv'
        OBVIOUS
    <2>1. \A r \in Requests : Accounted(r)'
        BY AccountedStep DEF ReqInv
    <2> QED BY <2>1, ConnStep DEF ReqInv
<1> QED BY <1>1, <1>2, PTL DEF Spec

\* What a gateway gets back of an answer is in order and has nothing twice, and
\* has no gap either as long as no connection to the microservice was cut,
\* however many handlers, messages, cuts, reconnects and restarts there are.
THEOREM InOrderOverReconnects == Spec => []ForwardedInOrder
<1>1. ReqInv => ForwardedInOrder
    BY DEF ReqInv, Accounted, SentBack, ForwardedInOrder
<1> QED BY <1>1, RequestInvariance, PTL

\* Cuts and reconnects make no request a second one and no answer a stray whose
\* ID would be sent back as a request: without a restart each is worked for once.
THEOREM OneWorkerPerRequest == Spec => []WorkedForOnce
<1>1. ConnInv /\ ReqInv => WorkedForOnce
    <2> SUFFICES ASSUME ConnInv, ReqInv, ~restarted,
                        NEW i \in DOMAIN jobs, NEW j \in DOMAIN jobs, jobs[i].id = jobs[j].id
                 PROVE  i = j
        BY DEF WorkedForOnce
    <2>1. jobs[i].id \in Requests
        <3>1. jobs \in Seq([id : Requests, n : 1..(Total + 1)])
            BY DEF ConnInv, TypeOK
        <3>2. jobs[i] \in [id : Requests, n : 1..(Total + 1)]
            BY <3>1, ElementOfSeq, LenProperties
        <3> QED BY <3>2
    <2>2. ~Stale(jobs[i].id)
        BY <2>1 DEF ReqInv, Accounted, Pending, Stale
    <2> QED BY <2>1, <2>2 DEF ReqInv, Accounted, AskedOnce
<1> QED BY <1>1, RequestInvariance, PTL

\* The receive loop all requests share never waits for a handler that is gone,
\* other than one that left because its gateway connection was lost.
THEOREM LoopHeldByReaders == Spec => []LoopWaitsForReaders
<1>1. ConnInv /\ ReqInv => LoopWaitsForReaders
    <2> SUFFICES ASSUME ConnInv, ReqInv, loop = "deliver"
                 PROVE  \/ handler[loopMsg.id] \in {"ranging", "sending"}
                        \/ \E g \in from[loopMsg.id] : ~gwUp[g]
        BY DEF LoopWaitsForReaders
    <2>1. loopMsg.id \in pending \ {Hello} /\ pending \subseteq IDs
        BY DEF ConnInv, NumberedAnswers, TypeOK
    <2>2. loopMsg.id \in Requests
        BY <2>1 DEF IDs
    <2>3. Pending(loopMsg.id)
        BY <2>2 DEF ReqInv, Accounted
    <2> QED BY <2>1, <2>3 DEF Pending
<1> QED BY <1>1, RequestInvariance, PTL

\* Until a connection is cut, a handler that waits will learn of the end of its
\* answer: the last message is still to be worked out, is somewhere on its way,
\* or has closed the channel.
THEOREM EndInReach == Spec => []NobodyWaitsInVain
<1>1. ConnInv /\ ReqInv => NobodyWaitsInVain
    <2> SUFFICES ASSUME ConnInv, ReqInv, NEW r \in Requests,
                        handler[r] \in {"ranging", "sending"}, cut = {}
                 PROVE  \/ chClosed[r]
                        \/ \E i \in DOMAIN toMs[conn] : toMs[conn][i] = r
                        \/ \E j \in DOMAIN jobs : jobs[j].id = r /\ jobs[j].n <= Total
                        \/ loop = "deliver" /\ loopMsg = Reply(r, Total)
                        \/ \E i \in DOMAIN toLb[conn] : toLb[conn][i] = Reply(r, Total)
        BY DEF NobodyWaitsInVain
    <2>1. Growing(r) /\ Complete(r)
        BY DEF ReqInv, Accounted, Stale
    <2>2. OnWay(r) \/ WorkedFor(r)
        BY <2>1 DEF Complete
    <2>3. conn = 1 /\ made = 1 /\ 1 \in Conns /\ TypeOK
        BY <2>2, FirstConnection DEF ConnInv
    <2>4. CASE OnWay(r)
        <3>1. PICK k \in Conns : \E i \in DOMAIN toMs[k] : toMs[k][i] = r
            BY <2>4 DEF OnWay
        <3>2. toMs[k] # <<>>
            BY <3>1
        <3>3. k = conn
            <4>1. ~(k > 1)
                BY <2>3, <3>2 DEF ConnInv, OneConnection
            <4>2. k \in 1..MaxConns /\ MaxConns \in Nat
                BY Sizes DEF Conns
            <4> QED BY <2>3, <4>1, <4>2
        <3> QED BY <3>1, <3>3
    <2>5. CASE WorkedFor(r)
        <3>1. PICK j \in DOMAIN jobs : jobs[j].id = r
            BY <2>5 DEF WorkedFor
        <3>2. jobs[j].n \in 1..(Total + 1) /\ Total \in Nat
            <4>1. jobs \in Seq([id : Requests, n : 1..(Total + 1)])
                BY <2>3 DEF TypeOK
            <4>2. jobs[j] \in [id : Requests, n : 1..(Total + 1)]
                BY <4>1, ElementOfSeq, LenProperties
            <4> QED BY <4>2, Sizes
        <3>3. /\ Passed(r) \in Nat /\ Entered(r) \in Nat /\ Passed(r) < jobs[j].n
            BY <2>1, <2>3, <3>1, RequestType DEF Growing
        <3>4. CASE jobs[j].n <= Total
            BY <3>1, <3>4
        <3>5. CASE jobs[j].n = Total + 1 /\ Passed(r) = Total
            <4>1. CASE Delivering(r)
                <5>1. loopMsg \in Messages /\ loopMsg.id = r /\ loopMsg.n = Total /\ loop = "deliver"
                    BY <2>3, <3>5, <4>1 DEF Passed, Delivering, TypeOK
                <5>2. loopMsg = Reply(r, Total)
                    BY <5>1 DEF Messages, Reply
                <5> QED BY <5>1, <5>2
            <4>2. CASE ~Delivering(r)
                <5>1. Entered(r) = Total
                    BY <3>5, <4>2 DEF Passed
                <5> QED BY <2>1, <5>1 DEF Growing
            <4> QED BY <4>1, <4>2
        <3>6. CASE jobs[j].n = Total + 1 /\ Passed(r) # Total
            <4>1. Total \in (Passed(r) + 1)..(jobs[j].n - 1)
                BY <3>2, <3>3, <3>6
            <4>2. PICK i \in DOMAIN toLb[conn] : toLb[conn][i].id = r /\ toLb[conn][i].n = Total
                BY <2>1, <3>1, <4>1 DEF Complete
            <4>3. toLb[conn][i] \in Messages
                <5>1. toLb[conn] \in Seq(Messages)
                    BY <2>3 DEF TypeOK
                <5> QED BY <5>1, ElementOfSeq, LenProperties
            <4>4. toLb[conn][i] = Reply(r, Total)
                BY <4>2, <4>3 DEF Messages, Reply
            <4> QED BY <4>4
        <3>7. jobs[j].n <= Total \/ jobs[j].n = Total + 1
            BY <3>2
        <3> QED BY <3>4, <3>5, <3>6, <3>7
    <2> QED BY <2>2, <2>4, <2>5
<1> QED BY <1>1, RequestInvariance, PTL

=============================================================================
