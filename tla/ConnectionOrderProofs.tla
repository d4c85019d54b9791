----------------------- MODULE ConnectionOrderProofs -----------------------
(***************************************************************************)
(* Proofs about Connection for any number of requests, any length of a     *)
(* stream, one receive loop or two, and any number of cuts: the reply to a *)
(* SendRequest never blocks a receive loop, and, as long as no second      *)
(* receive loop is started, the answer to a SendRequestChan reaches its    *)
(* caller in order and no part of it is taken for a request of the peer.   *)
(***************************************************************************)
EXTENDS ConnectionProofs

\* The request is not sent yet.
Unsent(r) == caller[r] \in {"new", "registered"}

OnWire(r) == \E i \in DOMAIN wire : wire[i].id = r

\* Some of the answer to r is still to come.
Coming(r) == r \in serving \/ OnWire(r)

\* The one reply to a SendRequest is at one place: served, on the wire, with
\* one receive loop, in the channel, or taken.
AnsweredOnce(r) ==
    /\ Unsent(r) => ~Coming(r) /\ got[r] = <<>> /\ r \notin strays
    /\ caller[r] = "registered" => r \in pending
    /\ Unsent(r) \/ Coming(r) =>
           ch[r] = <<>> /\ ~closed[r] /\ \A l \in Loops : ~Handles(l, r)
    /\ r \in serving => ~OnWire(r)
    /\ \A i, j \in DOMAIN wire : wire[i].id = r /\ wire[j].id = r => i = j
    /\ \A i \in DOMAIN wire : wire[i].id = r => wire[i].n = 1
    /\ \A l \in Loops : loopAt[l] = "deliver" /\ cur[l].id = r =>
           /\ cur[l].n = 1
           /\ ch[r] = <<>> /\ ~closed[r]
           /\ \A k \in Loops \ {l} : ~Handles(k, r)
    /\ ch[r] \in {<<>>, <<1>>}
    /\ got[r] # <<>> => caller[r] = "done" /\ got[r] = <<1>>
    /\ Coming(r) => r \in pending \/ caller[r] = "timedout"
    /\ r \in strays => caller[r] = "timedout"

\* The receive loop of a connection that has only one.
Chan == "ReceiveLoopChan"

\* Messages of r that have reached its channel, and those the loop has read.
Reached(r) == Len(got[r]) + Len(ch[r])
ReadOff(r) == IF loopAt[Chan] = "deliver" /\ cur[Chan].id = r
              THEN Reached(r) + 1 ELSE Reached(r)

\* What is past the wire is the beginning of the answer, in order.
InOrder(r) ==
    /\ \A i \in 1..Len(got[r]) : got[r][i] = i
    /\ \A i \in 1..Len(ch[r]) : ch[r][i] = Len(got[r]) + i
    /\ loopAt[Chan] = "deliver" /\ cur[Chan].id = r => cur[Chan].n = ReadOff(r)
    /\ loopAt[Chan] = "forget" /\ cur[Chan].id = r => ReadOff(r) = Total(r)

\* The wire continues it, in order and up to the last message sent: only a cut
\* takes messages away, and after it nothing is sent for r.
NoGap(r) ==
    /\ ReadOff(r) <= sent[r] /\ sent[r] <= Total(r)
    /\ \A i \in DOMAIN wire : wire[i].id = r =>
           /\ ReadOff(r) < wire[i].n /\ wire[i].n <= sent[r]
           /\ \A j \in 1..(i - 1) : wire[j].id = r => wire[j].n < wire[i].n
           /\ \A x \in (ReadOff(r) + 1)..wire[i].n :
                  \E j \in 1..i : wire[j].id = r /\ wire[j].n = x
    /\ r \in serving => \A x \in (ReadOff(r) + 1)..sent[r] :
           \E j \in DOMAIN wire : wire[j].id = r /\ wire[j].n = x

\* While some of the answer is to come the request is pending.
Awaited(r) ==
    /\ Unsent(r) => ~OnWire(r)
    /\ caller[r] = "registered" => r \in pending
    /\ caller[r] # "expired"
    /\ Coming(r) => r \in pending
    /\ r \notin strays

InSequence(r) == InOrder(r) /\ NoGap(r) /\ Awaited(r)

CallsAnsweredOnce == \A r \in Calls : AnsweredOnce(r)

\* No second receive loop runs, or none has been started yet.
OneLoop == loopAt["ReceiveLoop"] = "off"

StreamsInSequence == OneLoop => \A r \in Streams : InSequence(r)

OInv == IInv /\ CallsAnsweredOnce /\ StreamsInSequence
-----------------------------------------------------------------------------
LEMMA InitOrder == Init => CallsAnsweredOnce /\ StreamsInSequence
<1> SUFFICES ASSUME Init PROVE CallsAnsweredOnce /\ StreamsInSequence
    OBVIOUS
<1>0. /\ caller = [r \in Requests |-> "new"]
      /\ ch = [r \in Requests |-> <<>>] /\ got = [r \in Requests |-> <<>>]
      /\ closed = [r \in Requests |-> FALSE] /\ sent = [r \in Requests |-> 0]
      /\ serving = {} /\ wire = <<>> /\ strays = {}
      /\ \A l \in Loops : loopAt[l] \in {"read", "off"}
    BY DEF Init
<1>1. ASSUME NEW r \in Calls PROVE AnsweredOnce(r)
    BY <1>0 DEF AnsweredOnce, Unsent, Coming, OnWire, Handles, Requests
<1>2. ASSUME NEW r \in Streams PROVE InSequence(r)
    <2>1. Total(r) \in Nat
        BY TotalType, ConnectionAssumption DEF Requests, Numbers
    <2>2. r \in Requests /\ Chan \in Loops
        BY DEF Requests, Chan, Loops
    <2>3. Reached(r) = 0 /\ ReadOff(r) = 0
        BY <1>0, <2>2 DEF Reached, ReadOff
    <2> QED BY <1>0, <2>1, <2>2, <2>3 DEF InSequence, InOrder, NoGap, Awaited, Unsent, Coming, OnWire
<1> QED BY <1>1, <1>2 DEF CallsAnsweredOnce, StreamsInSequence

-----------------------------------------------------------------------------
(* Steps of the callers: the wire and the receive loops stay as they are.   *)

\* The step leaves alone what concerns r.
Same(r) ==
    /\ caller'[r] = caller[r] /\ ch'[r] = ch[r] /\ got'[r] = got[r]
    /\ closed'[r] = closed[r] /\ sent'[r] = sent[r]
    /\ r \in pending' <=> r \in pending
    /\ r \in serving' <=> r \in serving
    /\ r \in strays' <=> r \in strays

LEMMA CallerSteps ==
    ASSUME TypeOK, NEW q \in Requests, Register(q) \/ CallerProgress(q)
    PROVE  /\ UNCHANGED <<loopAt, cur, strays, wire, sent>>
           /\ \A r \in Requests \ {q} : Same(r)
<1>t. /\ caller \in [Requests -> {"new", "registered", "waiting", "expired",
                                  "timedout", "failed", "done"}]
      /\ DOMAIN ch = Requests /\ DOMAIN got = Requests /\ DOMAIN closed = Requests
    BY DEF TypeOK
<1> HIDE DEF TypeOK
<1> USE <1>t DEF Same, loopVars, netVars
<1>1. CASE Register(q) BY <1>1 DEF Register
<1>2. CASE Transmit(q) BY <1>2 DEF Transmit
<1>3. CASE SendFails(q) BY <1>3 DEF SendFails
<1>4. CASE Take(q) BY <1>4 DEF Take
<1>5. CASE RangeEnds(q) BY <1>5 DEF RangeEnds
<1>6. CASE Timeout(q) BY <1>6 DEF Timeout
<1>7. CASE Expire(q) BY <1>7 DEF Expire
<1> QED BY <1>1, <1>2, <1>3, <1>4, <1>5, <1>6, <1>7 DEF CallerProgress

\* What a step of the caller of r does to its own state.
LEMMA CallOfCaller ==
    ASSUME IInv, NEW r \in Calls, AnsweredOnce(r), Register(r) \/ CallerProgress(r)
    PROVE  AnsweredOnce(r)'
<1>t. /\ TypeOK
      /\ r \in Requests /\ r \notin Streams
      /\ caller \in [Requests -> {"new", "registered", "waiting", "expired",
                                  "timedout", "failed", "done"}]
      /\ DOMAIN ch = Requests /\ DOMAIN got = Requests /\ DOMAIN closed = Requests
      /\ got[r] \in Seq(Numbers)
    BY ConnectionAssumption DEF IInv, TypeOK, Requests
<1>u. UNCHANGED <<loopAt, cur, strays, wire>>
    BY <1>t, CallerSteps
<1>n. /\ caller[r] = "new" => r \notin pending
      /\ Unsent(r) => r \notin serving
    BY <1>t DEF IInv, UnknownBefore, Unfinished, Unsent
<1> HIDE DEF IInv
<1> USE <1>t, <1>u DEF AnsweredOnce, Unsent, Coming, OnWire, Handles
<1>1. CASE Register(r) BY <1>1, <1>n DEF Register, netVars
<1>2. CASE Transmit(r)
    <2>1. caller[r] = "registered" /\ r \in pending
        BY <1>2 DEF Transmit
    <2> QED BY <1>2, <1>n, <2>1 DEF Transmit
<1>3. CASE SendFails(r) BY <1>3 DEF SendFails
<1>4. CASE Take(r)
    <2>1. /\ ch[r] = <<1>> /\ got[r] = <<>>
          /\ ch' = [ch EXCEPT ![r] = Tail(@)]
          /\ got' = [got EXCEPT ![r] = Append(@, Head(ch[r]))]
          /\ caller' = [caller EXCEPT ![r] = "done"]
          /\ UNCHANGED <<pending, closed, serving>>
        BY <1>4 DEF Take, netVars
    <2>2. Head(<<1>>) = 1 /\ Tail(<<1>>) = <<>> /\ Append(<<>>, 1) = <<1>>
        OBVIOUS
    <2>3. ch'[r] = <<>> /\ got'[r] = <<1>> /\ caller'[r] = "done"
        BY <2>1, <2>2
    <2>4. ~Coming(r) /\ \A l \in Loops : ~(loopAt[l] = "deliver" /\ cur[l].id = r)
        BY <2>1
    <2>5. caller[r] = "waiting"
        BY <1>4 DEF Take
    <2> QED BY <2>1, <2>3, <2>4, <2>5
<1>5. CASE RangeEnds(r) BY <1>5 DEF RangeEnds
<1>6. CASE Timeout(r) BY <1>6 DEF Timeout, netVars
<1>7. CASE Expire(r) BY <1>7 DEF Expire, netVars
<1> QED BY <1>1, <1>2, <1>3, <1>4, <1>5, <1>6, <1>7 DEF CallerProgress

-----------------------------------------------------------------------------
(* Steps of the receive loops.                                              *)

\* What is left of the wire when its first message is read.
LEMMA WireTail ==
    ASSUME TypeOK, wire # <<>>, wire' = Tail(wire)
    PROVE  /\ 1 \in DOMAIN wire /\ wire[1] = Head(wire) /\ Head(wire) \in Messages
           /\ Len(wire) \in Nat /\ Len(wire') = Len(wire) - 1
           /\ DOMAIN wire = 1..Len(wire) /\ DOMAIN wire' = 1..Len(wire')
           /\ \A i \in DOMAIN wire' : i + 1 \in DOMAIN wire /\ wire'[i] = wire[i + 1]
<1>1. wire \in Seq(Messages)
    BY DEF TypeOK
<1>2. Len(wire) \in Nat /\ Len(wire) # 0
    BY <1>1, EmptySeq, LenProperties
<1>3. /\ Head(wire) \in Messages /\ Tail(wire) \in Seq(Messages)
      /\ Len(Tail(wire)) = Len(wire) - 1
      /\ \A i \in 1..Len(Tail(wire)) : Tail(wire)[i] = wire[i + 1]
    BY <1>1, HeadTailProperties
<1> QED BY <1>1, <1>2, <1>3, LenProperties

LEMMA CallAtLookup ==
    ASSUME IInv, NEW r \in Calls, AnsweredOnce(r), NEW l \in Loops, Lookup(l)
    PROVE  AnsweredOnce(r)'
<1>t. /\ TypeOK
      /\ loopAt \in [Loops -> {"off", "read", "deliver", "forget", "reconnect", "dead"}]
      /\ DOMAIN cur = Loops
    BY DEF IInv, TypeOK
<1>1. /\ loopAt[l] = "read" /\ wire # <<>> /\ wire' = Tail(wire)
      /\ UNCHANGED <<caller, got, pending, ch, closed, serving>>
    BY DEF Lookup, callerVars
<1>2. /\ 1 \in DOMAIN wire /\ wire[1] = Head(wire) /\ Head(wire) \in Messages
      /\ Len(wire) \in Nat /\ Len(wire') = Len(wire) - 1
      /\ DOMAIN wire = 1..Len(wire) /\ DOMAIN wire' = 1..Len(wire')
      /\ \A i \in DOMAIN wire' : i + 1 \in DOMAIN wire /\ wire'[i] = wire[i + 1]
    BY <1>t, <1>1, WireTail
<1>3. /\ \A i, j \in DOMAIN wire' : wire'[i].id = r /\ wire'[j].id = r => i = j
      /\ \A i \in DOMAIN wire' : wire'[i].id = r => wire'[i].n = 1
      /\ OnWire(r)' => OnWire(r)
      /\ wire[1].id = r => ~OnWire(r)'
    <2>1. ASSUME NEW i \in DOMAIN wire', wire'[i].id = r
          PROVE  /\ i + 1 \in DOMAIN wire /\ wire[i + 1].id = r
                 /\ wire'[i].n = 1 /\ wire[1].id # r
        BY <1>2, <2>1 DEF AnsweredOnce
    <2>2. ASSUME NEW i \in DOMAIN wire', NEW j \in DOMAIN wire',
                 wire'[i].id = r, wire'[j].id = r
          PROVE  i = j
        <3>1. i + 1 = j + 1
            BY <2>1, <2>2 DEF AnsweredOnce
        <3> QED BY <3>1, <1>2
    <2> QED BY <2>1, <2>2 DEF OnWire
<1>4. CASE wire[1].id # r
    <2>1. /\ strays' \ {r} = strays \ {r} \/ wire[1].id \in strays'
          /\ r \in strays' => r \in strays
          /\ \A k \in Loops : Handles(k, r)' <=> Handles(k, r)
          /\ \A k \in Loops : loopAt'[k] = "deliver" /\ cur'[k].id = r =>
                 loopAt[k] = "deliver" /\ cur[k].id = r /\ cur'[k].n = cur[k].n
        BY <1>t, <1>1, <1>2, <1>4 DEF Lookup, Handles
    <2> QED BY <1>1, <1>3, <2>1 DEF AnsweredOnce, Unsent, Coming
<1>5. CASE wire[1].id = r
    <2>1. /\ Coming(r) /\ ~Coming(r)' /\ ~Unsent(r)
          /\ ch[r] = <<>> /\ ~closed[r] /\ \A k \in Loops : ~Handles(k, r)
          /\ wire[1].n = 1
        BY <1>1, <1>2, <1>3, <1>5 DEF AnsweredOnce, Coming, OnWire
    <2>2. CASE r \in pending
        <3>1. /\ strays' = strays
              /\ loopAt' = [loopAt EXCEPT ![l] = "deliver"]
              /\ cur' = [cur EXCEPT ![l] = wire[1]]
            BY <1>2, <1>5, <2>2 DEF Lookup
        <3>2. cur'[l] = wire[1] /\ \A k \in Loops \ {l} : ~Handles(k, r)'
            BY <1>t, <2>1, <3>1 DEF Handles
        <3>3. \A k \in Loops : loopAt'[k] = "deliver" /\ cur'[k].id = r => k = l
            BY <3>2 DEF Handles
        <3> QED BY <1>1, <1>3, <2>1, <3>1, <3>2, <3>3 DEF AnsweredOnce, Unsent
    <2>3. CASE r \notin pending
        <3>1. UNCHANGED <<loopAt, cur>> /\ strays' = strays \cup {r}
            BY <1>2, <1>5, <2>3 DEF Lookup
        <3>2. caller[r] = "timedout"
            BY <2>1, <2>3 DEF AnsweredOnce
        <3>3. \A k \in Loops : ~Handles(k, r)'
            BY <2>1, <3>1 DEF Handles
        <3> QED BY <1>1, <1>3, <2>1, <3>1, <3>2, <3>3 DEF AnsweredOnce, Unsent, Handles
    <2> QED BY <2>2, <2>3
<1> QED BY <1>4, <1>5

LEMMA CallAtLoop ==
    ASSUME IInv, NEW r \in Calls, AnsweredOnce(r), NEW l \in Loops, LoopProgress(l)
    PROVE  AnsweredOnce(r)'
<1>t. /\ TypeOK
      /\ r \in Requests
      /\ loopAt \in [Loops -> {"off", "read", "deliver", "forget", "reconnect", "dead"}]
      /\ DOMAIN cur = Loops /\ DOMAIN ch = Requests /\ DOMAIN closed = Requests
    BY DEF IInv, TypeOK, Requests
<1>1. CASE Lookup(l) BY <1>1, CallAtLookup
<1>2. CASE Deliver(l)
    <2>1. /\ loopAt[l] = "deliver"
          /\ ch' = [ch EXCEPT ![cur[l].id] = Append(@, cur[l].n)]
          /\ UNCHANGED <<caller, got, pending, closed, cur, serving, wire, strays>>
          /\ \A k \in Loops : k # l => loopAt'[k] = loopAt[k]
          /\ loopAt'[l] \in {"forget", "read"}
        BY <1>2, <1>t DEF Deliver, callerVars, netVars
    <2>2. cur[l].id \in Requests
        BY <2>1, HeldMessage
    <2>3. /\ \A k \in Loops : Handles(k, r)' => Handles(k, r)
          /\ \A k \in Loops : loopAt'[k] = "deliver" => k # l /\ loopAt[k] = "deliver"
        BY <2>1 DEF Handles
    <2>4. CASE cur[l].id # r
        <3>1. ch'[r] = ch[r]
            BY <1>t, <2>1, <2>4
        <3> QED BY <2>1, <2>3, <3>1 DEF AnsweredOnce, Unsent, Coming, OnWire
    <2>5. CASE cur[l].id = r
        <3>1. Handles(l, r) /\ ch[r] = <<>> /\ cur[l].n = 1 /\ ~Coming(r) /\ ~Unsent(r)
              /\ \A k \in Loops \ {l} : ~Handles(k, r)
            BY <2>1, <2>5 DEF AnsweredOnce, Handles
        <3>2. ch'[r] = <<1>>
            BY <1>t, <2>1, <2>5, <3>1
        <3>3. \A k \in Loops : ~(loopAt'[k] = "deliver" /\ cur'[k].id = r)
            BY <2>1, <2>3, <3>1 DEF Handles
        <3> QED BY <2>1, <2>3, <3>1, <3>2, <3>3 DEF AnsweredOnce, Unsent, Coming, OnWire
    <2> QED BY <2>4, <2>5
<1>3. CASE DeliverPanics(l)
    BY <1>3 DEF DeliverPanics, callerVars, loopVars, netVars, AnsweredOnce, Unsent,
                Coming, OnWire, Handles
<1>4. CASE Forget(l)
    <2>1. /\ loopAt[l] = "forget"
          /\ pending' = pending \ {cur[l].id}
          /\ UNCHANGED <<caller, got, ch, serving, wire, strays>>
          /\ \A k \in Loops : k # l => loopAt'[k] = loopAt[k] /\ cur'[k] = cur[k]
          /\ loopAt'[l] = "read"
          /\ cur[l].id # r => closed'[r] = closed[r]
        BY <1>4, <1>t DEF Forget, callerVars, netVars
    <2>2. /\ \A k \in Loops : Handles(k, r)' => Handles(k, r)
          /\ \A k \in Loops : loopAt'[k] = "deliver" /\ cur'[k].id = r =>
                 /\ k # l /\ loopAt[k] = "deliver" /\ cur[k].id = r
                 /\ cur'[k].n = cur[k].n
        BY <2>1 DEF Handles
    <2>3. cur[l].id = r => Handles(l, r)
        BY <2>1 DEF Handles
    <2>4. CASE cur[l].id # r
        BY <2>1, <2>2, <2>4 DEF AnsweredOnce, Unsent, Coming, OnWire
    <2>5. CASE cur[l].id = r
        <3>1. ~Coming(r) /\ ~Unsent(r)
            BY <2>3, <2>5 DEF AnsweredOnce
        <3>2. \A k \in Loops : ~(loopAt'[k] = "deliver" /\ cur'[k].id = r)
            BY <2>2, <2>3, <2>5 DEF AnsweredOnce
        <3> QED BY <2>1, <2>2, <3>1, <3>2 DEF AnsweredOnce, Unsent, Coming, OnWire
    <2> QED BY <2>4, <2>5
<1>5. CASE ReceiveFails(l)
    <2>1. /\ UNCHANGED <<caller, got, pending, ch, closed, cur, serving, wire, strays>>
          /\ \A k \in Loops : loopAt'[k] \in {"deliver", "forget"}
                                => loopAt[k] = loopAt'[k]
        BY <1>5, <1>t DEF ReceiveFails, callerVars, netVars
    <2> QED BY <2>1 DEF AnsweredOnce, Unsent, Coming, OnWire, Handles
<1> QED BY <1>1, <1>2, <1>3, <1>4, <1>5 DEF LoopProgress

-----------------------------------------------------------------------------
(* Steps of the peer and of the network.                                    *)

\* The wire after a reply, and after a cut.
LEMMA WireAppended ==
    ASSUME TypeOK, NEW m \in Messages, wire' = Append(wire, m)
    PROVE  /\ Len(wire) \in Nat /\ Len(wire') = Len(wire) + 1
           /\ DOMAIN wire = 1..Len(wire) /\ DOMAIN wire' = 1..(Len(wire) + 1)
           /\ \A i \in DOMAIN wire : wire'[i] = wire[i]
           /\ wire'[Len(wire) + 1] = m
<1>1. wire \in Seq(Messages)
    BY DEF TypeOK
<1>2. /\ wire' \in Seq(Messages) /\ Len(wire') = Len(wire) + 1
      /\ \A i \in 1..Len(wire) : wire'[i] = wire[i]
      /\ wire'[Len(wire) + 1] = m
    BY <1>1, AppendProperties
<1> QED BY <1>1, <1>2, LenProperties

LEMMA WirePrefix ==
    ASSUME TypeOK, NEW n \in 0..Len(wire), wire' = SubSeq(wire, 1, n)
    PROVE  DOMAIN wire' = 1..n /\ 1..n \subseteq DOMAIN wire
           /\ \A i \in DOMAIN wire' : wire'[i] = wire[i]
<1>1. wire \in Seq(Messages) /\ Len(wire) \in Nat /\ DOMAIN wire = 1..Len(wire)
    BY LenProperties DEF TypeOK
<1>2. n \in Nat /\ \A i \in 1..n : i \in DOMAIN wire
    BY <1>1
<1>3. \A i \in 1..n : wire[i] \in Messages
    BY <1>1, <1>2, ElementOfSeq
<1> QED BY <1>2, <1>3, SubSeqProperties

LEMMA CallAtPeer ==
    ASSUME IInv, NEW r \in Calls, AnsweredOnce(r), NEW q \in Requests, PeerReply(q)
    PROVE  AnsweredOnce(r)'
<1>t. /\ TypeOK
      /\ r \in Requests
      /\ Total(r) = 1
    BY DEF IInv, Requests, Total
<1>1. /\ q \in serving /\ sent[q] + 1 \in Numbers
      /\ wire' = Append(wire, [id |-> q, n |-> sent[q] + 1])
      /\ serving' = IF sent[q] + 1 = Total(q) THEN serving \ {q} ELSE serving
      /\ UNCHANGED <<caller, got, pending, ch, closed, loopAt, cur, strays>>
    BY OneMore DEF PeerReply, callerVars, loopVars
<1>2. [id |-> q, n |-> sent[q] + 1] \in Messages
    BY <1>1 DEF Messages
<1>3. /\ Len(wire) \in Nat
      /\ DOMAIN wire = 1..Len(wire) /\ DOMAIN wire' = 1..(Len(wire) + 1)
      /\ \A i \in DOMAIN wire : wire'[i] = wire[i]
      /\ wire'[Len(wire) + 1] = [id |-> q, n |-> sent[q] + 1]
    BY <1>t, <1>1, <1>2, WireAppended
<1> HIDE DEF IInv
<1>4. CASE q # r
    <2>1. \A i \in DOMAIN wire' : wire'[i].id = r => i \in DOMAIN wire /\ wire[i].id = r
        BY <1>3, <1>4
    <2>2. OnWire(r)' => OnWire(r)
        BY <1>3, <2>1 DEF OnWire
    <2> QED BY <1>1, <1>3, <1>4, <2>1, <2>2 DEF AnsweredOnce, Unsent, Coming, Handles
<1>5. CASE q = r
    <2>1. sent[r] + 1 = 1
        <3>1. r \in serving /\ sent[r] \in Nat /\ sent[r] < 1
            <4>1. sent[r] < Total(r)
                BY <1>1, <1>5 DEF IInv, Unfinished
            <4> QED BY <1>t, <1>1, <1>5, <4>1, OneMore
        <3> QED BY <3>1
    <2>2. r \notin serving' /\ ~OnWire(r) /\ Coming(r) /\ ~Unsent(r)
        BY <1>t, <1>1, <1>5, <2>1 DEF AnsweredOnce, Coming
    <2>3. \A i \in DOMAIN wire' : wire'[i].id = r => i = Len(wire) + 1 /\ wire'[i].n = 1
        BY <1>3, <1>5, <2>1, <2>2 DEF OnWire
    <2> QED BY <1>1, <2>2, <2>3 DEF AnsweredOnce, Unsent, Coming, Handles
<1> QED BY <1>4, <1>5

LEMMA CallAtOther ==
    ASSUME IInv, NEW r \in Calls, AnsweredOnce(r), Redial \/ MapRace \/ Break
    PROVE  AnsweredOnce(r)'
<1>t. TypeOK
    BY DEF IInv
<1>1. CASE Redial
    <2>1. /\ \A k \in Loops : loopAt'[k] \in {"deliver", "forget"}
                              => loopAt'[k] = loopAt[k]
          /\ UNCHANGED <<caller, got, pending, ch, closed, cur, serving, wire, strays>>
        BY <1>t, <1>1 DEF Redial, Reconnect, ReconnectFails, Loops, TypeOK, callerVars,
                          netVars
    <2> QED BY <2>1 DEF AnsweredOnce, Unsent, Coming, OnWire, Handles
<1>2. CASE MapRace
    BY <1>2 DEF MapRace, callerVars, loopVars, netVars, AnsweredOnce, Unsent, Coming,
                OnWire, Handles
<1>3. CASE Break
    <2>1. /\ serving' = {}
          /\ UNCHANGED <<caller, got, pending, ch, closed, loopAt, cur, strays>>
        BY <1>3 DEF Break, callerVars, loopVars
    <2>2. PICK n \in 0..Len(wire) : wire' = SubSeq(wire, 1, n)
        BY <1>3 DEF Break
    <2>3. /\ DOMAIN wire' \subseteq DOMAIN wire
          /\ \A i \in DOMAIN wire' : wire'[i] = wire[i]
        BY <1>t, <2>2, WirePrefix
    <2>4. OnWire(r)' => OnWire(r)
        BY <2>3 DEF OnWire
    <2> QED BY <2>1, <2>3, <2>4 DEF AnsweredOnce, Unsent, Coming, Handles
<1> QED BY <1>1, <1>2, <1>3

LEMMA CallsStep == IInv /\ CallsAnsweredOnce /\ Next => CallsAnsweredOnce'
<1> SUFFICES ASSUME IInv, CallsAnsweredOnce, Next, NEW r \in Calls
             PROVE  AnsweredOnce(r)'
    BY DEF CallsAnsweredOnce
<1>0. AnsweredOnce(r) /\ r \in Requests
    BY DEF CallsAnsweredOnce, Requests
<1> HIDE DEF IInv
<1>1. ASSUME NEW q \in Requests, Register(q) \/ CallerProgress(q)
      PROVE  AnsweredOnce(r)'
    <2>1. CASE q = r BY <1>0, <1>1, <2>1, CallOfCaller
    <2>2. CASE q # r
        <3>1. Same(r) /\ UNCHANGED <<loopAt, cur, wire>>
            BY <1>0, <1>1, <2>2, CallerSteps DEF IInv
        <3> QED BY <1>0, <3>1 DEF Same, AnsweredOnce, Unsent, Coming, OnWire, Handles
    <2> QED BY <2>1, <2>2
<1>2. ASSUME NEW l \in Loops, LoopProgress(l) PROVE AnsweredOnce(r)'
    BY <1>0, <1>2, CallAtLoop
<1>3. ASSUME NEW q \in Requests, PeerReply(q) PROVE AnsweredOnce(r)'
    BY <1>0, <1>3, CallAtPeer
<1>4. ASSUME Redial \/ MapRace \/ Break PROVE AnsweredOnce(r)'
    BY <1>0, <1>4, CallAtOther
<1> QED BY <1>1, <1>2, <1>3, <1>4 DEF Next, Environment

-----------------------------------------------------------------------------
(* The messages of a SendRequestChan, while there is one receive loop.      *)

\* The types the arithmetic below needs.
LEMMA StreamTypes ==
    ASSUME IInv, NEW r \in Streams
    PROVE  /\ r \in Requests /\ Chan \in Loops
           /\ got[r] \in Seq(Numbers) /\ ch[r] \in Seq(Numbers)
           /\ Len(got[r]) \in Nat /\ Len(ch[r]) \in Nat
           /\ sent[r] \in Nat /\ Total(r) \in Nat /\ 1 <= Total(r)
           /\ Reached(r) = Len(got[r]) + Len(ch[r])
           /\ Reached(r) \in Nat /\ ReadOff(r) \in Nat
           /\ ReadOff(r) \in {Reached(r), Reached(r) + 1}
           /\ \A i \in DOMAIN wire : wire[i].id \in Requests /\ wire[i].n \in Nat
<1>1. r \in Requests /\ Chan \in Loops
    BY DEF Requests, Chan, Loops
<1>2. TypeOK
    BY DEF IInv
<1>3. Total(r) \in Nat /\ 1 <= Total(r)
    BY <1>1, TotalType, ConnectionAssumption DEF Numbers
<1>4. /\ got[r] \in Seq(Numbers) /\ ch[r] \in Seq(Numbers)
      /\ sent[r] \in Numbers \cup {0} /\ wire \in Seq(Messages)
    BY <1>1, <1>2 DEF TypeOK
<1>5. Len(got[r]) \in Nat /\ Len(ch[r]) \in Nat
    BY <1>4, LenProperties
<1>6. sent[r] \in Nat
    BY <1>4, ConnectionAssumption DEF Numbers
<1>7. ASSUME NEW i \in DOMAIN wire
      PROVE  wire[i].id \in Requests /\ wire[i].n \in Nat
    <2>1. wire[i] \in Messages
        BY <1>4, LenProperties, ElementOfSeq
    <2> QED BY <2>1, ConnectionAssumption DEF Messages, Numbers
<1>8. Reached(r) = Len(got[r]) + Len(ch[r]) /\ Reached(r) \in Nat
    <2>1. Reached(r) = Len(got[r]) + Len(ch[r])
        BY DEF Reached
    <2>2. \A a, b \in Nat : a + b \in Nat
        OBVIOUS
    <2> QED BY <1>5, <2>1, <2>2
<1>9. ReadOff(r) \in Nat /\ ReadOff(r) \in {Reached(r), Reached(r) + 1}
    <2>1. ReadOff(r) = Reached(r) \/ ReadOff(r) = Reached(r) + 1
        BY DEF ReadOff
    <2>2. \A a \in Nat : a + 1 \in Nat
        OBVIOUS
    <2> QED BY <1>8, <2>1, <2>2
<1> HIDE DEF IInv
<1> QED BY <1>1, <1>3, <1>4, <1>5, <1>6, <1>7, <1>8, <1>9

\* A step that leaves the wire, the loop and the state of r alone.
LEMMA StreamFrame ==
    ASSUME NEW r \in Streams, InSequence(r), Same(r), wire' = wire,
           \A w \in {"deliver", "forget"} : loopAt'[Chan] = w /\ cur'[Chan].id = r
               <=> loopAt[Chan] = w /\ cur[Chan].id = r,
           loopAt[Chan] = "deliver" /\ cur[Chan].id = r => cur'[Chan].n = cur[Chan].n
    PROVE  InSequence(r)'
<1>1. Total(r)' = Total(r)
    BY DEF Total
<1>2. Len(got[r])' = Len(got[r]) /\ Len(ch[r])' = Len(ch[r])
    BY DEF Same
<1>3. ReadOff(r)' = ReadOff(r)
    BY <1>2 DEF ReadOff, Reached
<1>4. InOrder(r)'
    BY <1>1, <1>2, <1>3 DEF InSequence, InOrder, Same
<1>5. NoGap(r)'
    BY <1>1, <1>3 DEF InSequence, NoGap, Same
<1>6. Awaited(r)'
    BY DEF InSequence, Awaited, Same, Unsent, OnWire, Coming
<1> QED BY <1>4, <1>5, <1>6 DEF InSequence

LEMMA StreamOfCaller ==
    ASSUME IInv, NEW r \in Streams, InSequence(r), Register(r) \/ CallerProgress(r)
    PROVE  InSequence(r)'
<1>t. /\ r \in Requests /\ Chan \in Loops
      /\ got[r] \in Seq(Numbers) /\ ch[r] \in Seq(Numbers)
      /\ Len(got[r]) \in Nat /\ Len(ch[r]) \in Nat
      /\ sent[r] \in Nat /\ Total(r) \in Nat /\ 1 <= Total(r)
      /\ Reached(r) = Len(got[r]) + Len(ch[r])
      /\ Reached(r) \in Nat /\ ReadOff(r) \in Nat
    BY StreamTypes
<1>d. /\ TypeOK
      /\ caller \in [Requests -> {"new", "registered", "waiting", "expired",
                                  "timedout", "failed", "done"}]
      /\ DOMAIN ch = Requests /\ DOMAIN got = Requests /\ DOMAIN closed = Requests
      /\ r \notin Calls
    BY ConnectionAssumption DEF IInv, TypeOK
<1>u. UNCHANGED <<loopAt, cur, strays, wire, sent>> /\ Total(r)' = Total(r)
    BY <1>d, <1>t, CallerSteps DEF Total
<1>n. /\ caller[r] = "new" => r \notin pending
      /\ Unsent(r) => r \notin serving /\ sent[r] = 0
    BY <1>t DEF IInv, UnknownBefore, Unfinished, Unsent
<1> HIDE DEF IInv
\* All but a receive from the channel leave the messages where they are.
<1>k. ASSUME ch'[r] = ch[r], got'[r] = got[r],
             r \in serving' => r \in serving \/ sent[r] = 0
      PROVE  InOrder(r)' /\ NoGap(r)'
    <2>1. Len(got[r])' = Len(got[r]) /\ Len(ch[r])' = Len(ch[r])
        BY <1>k
    <2>2. ReadOff(r)' = ReadOff(r)
        BY <1>u, <2>1 DEF ReadOff, Reached
    <2>3. InOrder(r)'
        BY <1>k, <1>u, <2>1, <2>2 DEF InSequence, InOrder
    <2>4. sent[r] = 0 => (ReadOff(r) + 1)..sent[r] = {}
        BY <1>t
    <2>5. NoGap(r)'
        BY <1>k, <1>u, <2>2, <2>4 DEF InSequence, NoGap
    <2> QED BY <2>3, <2>5
<1> USE <1>d, <1>u DEF Awaited, Unsent, Coming, OnWire
<1>1. CASE Register(r)
    <2>1. Awaited(r)'
        BY <1>1, <1>n, <1>t DEF Register, netVars, InSequence
    <2>2. InOrder(r)' /\ NoGap(r)'
        BY <1>1, <1>k DEF Register, netVars
    <2> QED BY <2>1, <2>2 DEF InSequence
<1>2. CASE Transmit(r)
    <2>1. Awaited(r)'
        BY <1>2, <1>t DEF Transmit, InSequence
    <2>2. InOrder(r)' /\ NoGap(r)'
        BY <1>2, <1>k, <1>n DEF Transmit
    <2> QED BY <2>1, <2>2 DEF InSequence
<1>3. CASE SendFails(r)
    <2>1. Awaited(r)'
        BY <1>3, <1>n, <1>t DEF SendFails, netVars, InSequence
    <2>2. InOrder(r)' /\ NoGap(r)'
        BY <1>3, <1>k DEF SendFails, netVars
    <2> QED BY <2>1, <2>2 DEF InSequence
<1>4. CASE Take(r)
    <2>1. /\ ch[r] # <<>>
          /\ ch'[r] = Tail(ch[r]) /\ got'[r] = Append(got[r], Head(ch[r]))
          /\ UNCHANGED <<caller, pending, serving>>
        BY <1>4, <1>t DEF Take, netVars
    <2>2. Awaited(r)'
        BY <2>1 DEF InSequence
    <2>3. /\ Len(ch'[r]) = Len(ch[r]) - 1 /\ 1 <= Len(ch[r])
          /\ Head(ch[r]) = ch[r][1] /\ Head(ch[r]) \in Numbers
          /\ \A i \in 1..Len(ch'[r]) : ch'[r][i] = ch[r][i + 1]
        <3>1. Len(ch[r]) # 0
            BY <1>t, <2>1, EmptySeq
        <3> QED BY <1>t, <2>1, <3>1, HeadTailProperties
    <2>4. /\ Len(got'[r]) = Len(got[r]) + 1
          /\ \A i \in 1..Len(got[r]) : got'[r][i] = got[r][i]
          /\ got'[r][Len(got[r]) + 1] = ch[r][1]
        BY <1>t, <2>1, <2>3, AppendProperties
    <2>5. Reached(r)' = Reached(r)
        BY <1>t, <2>3, <2>4 DEF Reached
    <2>6. ReadOff(r)' = ReadOff(r)
        BY <2>5 DEF ReadOff
    <2>7. ch[r][1] = Len(got[r]) + 1
        BY <1>t, <2>3 DEF InSequence, InOrder
    <2>8. ASSUME NEW i \in 1..Len(got'[r]) PROVE got'[r][i] = i
        <3>1. i \in 1..Len(got[r]) \/ i = Len(got[r]) + 1
            BY <1>t, <2>4
        <3>2. \A j \in 1..Len(got[r]) : got[r][j] = j
            BY DEF InSequence, InOrder
        <3> QED BY <2>4, <2>7, <3>1, <3>2
    <2>9. ASSUME NEW i \in 1..Len(ch'[r]) PROVE ch'[r][i] = Len(got'[r]) + i
        <3>1. i + 1 \in 1..Len(ch[r]) /\ i \in Nat
            BY <1>t, <2>3
        <3>2. ch'[r][i] = Len(got[r]) + (i + 1)
            BY <2>3, <3>1 DEF InSequence, InOrder
        <3> QED BY <1>t, <2>4, <3>1, <3>2
    <2>10. InOrder(r)'
        BY <2>6, <2>8, <2>9 DEF InSequence, InOrder
    <2>11. NoGap(r)'
        BY <2>1, <2>6 DEF InSequence, NoGap
    <2> QED BY <2>2, <2>10, <2>11 DEF InSequence
<1>5. CASE RangeEnds(r)
    <2>1. Awaited(r)'
        BY <1>5, <1>t DEF RangeEnds, netVars, InSequence
    <2>2. InOrder(r)' /\ NoGap(r)'
        BY <1>5, <1>k DEF RangeEnds, netVars
    <2> QED BY <2>1, <2>2 DEF InSequence
<1>6. CASE Timeout(r) BY <1>6 DEF Timeout
<1>7. CASE Expire(r) BY <1>7 DEF Expire, InSequence
<1> QED BY <1>1, <1>2, <1>3, <1>4, <1>5, <1>6, <1>7 DEF CallerProgress

LEMMA StreamAtLookup ==
    ASSUME IInv, NEW r \in Streams, InSequence(r), Lookup(Chan)
    PROVE  InSequence(r)'
<1>t. /\ r \in Requests /\ Chan \in Loops
      /\ sent[r] \in Nat /\ Reached(r) \in Nat /\ ReadOff(r) \in Nat
      /\ \A i \in DOMAIN wire : wire[i].id \in Requests /\ wire[i].n \in Nat
    BY StreamTypes
<1>d. /\ TypeOK
      /\ DOMAIN loopAt = Loops /\ DOMAIN cur = Loops
    BY DEF IInv, TypeOK
<1> HIDE DEF IInv
<1>1. /\ loopAt[Chan] = "read" /\ wire # <<>> /\ wire' = Tail(wire)
      /\ UNCHANGED <<caller, got, pending, ch, closed, serving, sent>>
    BY DEF Lookup, callerVars
<1>2. /\ 1 \in DOMAIN wire /\ wire[1] = Head(wire) /\ Head(wire) \in Messages
      /\ Len(wire) \in Nat /\ Len(wire') = Len(wire) - 1
      /\ DOMAIN wire = 1..Len(wire) /\ DOMAIN wire' = 1..Len(wire')
      /\ \A i \in DOMAIN wire' : i + 1 \in DOMAIN wire /\ wire'[i] = wire[i + 1]
    BY <1>d, <1>1, WireTail
<1>3. Reached(r)' = Reached(r) /\ Total(r)' = Total(r) /\ ReadOff(r) = Reached(r)
    BY <1>1 DEF Reached, ReadOff, Total
<1>o. OnWire(r)' => OnWire(r)
    BY <1>2 DEF OnWire
\* A message of r that is read is the next one.
<1>4. wire[1].id = r => wire[1].n = ReadOff(r) + 1 /\ r \in pending
    <2>1. ASSUME wire[1].id = r PROVE wire[1].n = ReadOff(r) + 1
        <3>1. ReadOff(r) < wire[1].n /\ wire[1].n \in Nat
            BY <1>2, <1>t, <2>1 DEF InSequence, NoGap
        <3>2. ReadOff(r) + 1 \in (ReadOff(r) + 1)..wire[1].n
            BY <1>t, <3>1
        <3>3. \E j \in 1..1 : wire[j].id = r /\ wire[j].n = ReadOff(r) + 1
            BY <1>2, <2>1, <3>2 DEF InSequence, NoGap
        <3> QED BY <3>3
    <2>2. wire[1].id = r => Coming(r)
        BY <1>2 DEF Coming, OnWire
    <2> QED BY <2>1, <2>2 DEF InSequence, Awaited
<1>5. /\ loopAt'[Chan] \in {"deliver", "read"}
      /\ strays' \ {wire[1].id} = strays \ {wire[1].id}
      /\ wire[1].id = r => loopAt'[Chan] = "deliver" /\ cur'[Chan] = wire[1] /\ strays' = strays
      /\ loopAt'[Chan] = "deliver" => cur'[Chan] = wire[1]
    BY <1>t, <1>d, <1>1, <1>2, <1>4 DEF Lookup
<1>6. ReadOff(r)' = IF wire[1].id = r THEN ReadOff(r) + 1 ELSE ReadOff(r)
    BY <1>3, <1>5 DEF ReadOff
<1>7. InOrder(r)'
    BY <1>1, <1>4, <1>5, <1>6 DEF InSequence, InOrder
<1>8. Awaited(r)'
    BY <1>1, <1>5, <1>o DEF InSequence, Awaited, Unsent, Coming
<1>9. NoGap(r)'
    <2> DEFINE R == IF wire[1].id = r THEN ReadOff(r) + 1 ELSE ReadOff(r)
    <2>1. R \in Nat /\ R <= sent[r] /\ ReadOff(r) <= R
        <3>1. wire[1].id = r => wire[1].n <= sent[r]
            BY <1>2 DEF InSequence, NoGap
        <3> QED BY <1>t, <1>4, <3>1 DEF InSequence, NoGap
    <2>2. ASSUME NEW i \in DOMAIN wire', wire'[i].id = r
          PROVE  /\ R < wire'[i].n /\ wire'[i].n <= sent[r] /\ wire'[i].n \in Nat
                 /\ \A j \in 1..(i - 1) : wire'[j].id = r => wire'[j].n < wire'[i].n
        <3>1. /\ i + 1 \in DOMAIN wire /\ wire[i + 1] = wire'[i]
              /\ i \in Nat /\ 1 <= i /\ wire'[i].n \in Nat
            BY <1>2, <1>t
        <3>2. /\ ReadOff(r) < wire[i + 1].n /\ wire[i + 1].n <= sent[r]
              /\ \A j \in 1..((i + 1) - 1) : wire[j].id = r => wire[j].n < wire[i + 1].n
            BY <2>2, <3>1 DEF InSequence, NoGap
        <3>3. wire[1].id = r => ReadOff(r) + 1 < wire[i + 1].n
            BY <1>4, <3>1, <3>2
        <3>4. ASSUME NEW j \in 1..(i - 1), wire'[j].id = r
              PROVE  wire'[j].n < wire'[i].n
            <4>1. j \in DOMAIN wire' /\ j + 1 \in 1..((i + 1) - 1)
                BY <1>2, <3>1
            <4> QED BY <1>2, <3>1, <3>2, <3>4, <4>1
        <3> QED BY <3>1, <3>2, <3>3, <3>4
    <2>3. ASSUME NEW x \in Nat, R < x, NEW k \in DOMAIN wire, 
                 \E j \in 1..k : wire[j].id = r /\ wire[j].n = x
          PROVE  \E j \in DOMAIN wire' : j <= k - 1 /\ wire'[j].id = r /\ wire'[j].n = x
        <3>1. PICK j \in 1..k : wire[j].id = r /\ wire[j].n = x
            BY <2>3
        <3>2. j # 1
            BY <1>4, <2>1, <2>3, <3>1
        <3>3. j - 1 \in DOMAIN wire' /\ j - 1 <= k - 1 /\ (j - 1) + 1 = j
            BY <1>2, <3>2
        <3> QED BY <1>2, <3>1, <3>3
    <2>4. ASSUME NEW i \in DOMAIN wire', wire'[i].id = r, NEW x \in (R + 1)..wire'[i].n
          PROVE  \E j \in 1..i : wire'[j].id = r /\ wire'[j].n = x
        <3>1. i + 1 \in DOMAIN wire /\ wire[i + 1] = wire'[i] /\ (i + 1) - 1 = i
            BY <1>2
        <3>2. x \in Nat /\ R < x /\ x \in (ReadOff(r) + 1)..wire[i + 1].n
            BY <1>t, <2>1, <2>2, <2>4, <3>1
        <3>3. \E j \in 1..(i + 1) : wire[j].id = r /\ wire[j].n = x
            BY <2>4, <3>1, <3>2 DEF InSequence, NoGap
        <3>4. \E j \in DOMAIN wire' : j <= (i + 1) - 1 /\ wire'[j].id = r /\ wire'[j].n = x
            BY <2>3, <3>1, <3>2, <3>3
        <3> QED BY <1>2, <3>1, <3>4
    <2>5. ASSUME r \in serving', NEW x \in (R + 1)..sent[r]
          PROVE  \E j \in DOMAIN wire' : wire'[j].id = r /\ wire'[j].n = x
        <3>1. x \in Nat /\ R < x /\ x \in (ReadOff(r) + 1)..sent[r]
            BY <1>t, <2>1
        <3>2. \E j \in DOMAIN wire : wire[j].id = r /\ wire[j].n = x
            BY <1>1, <2>5, <3>1 DEF InSequence, NoGap
        <3>3. Len(wire) \in DOMAIN wire /\ \E j \in 1..Len(wire) : wire[j].id = r /\ wire[j].n = x
            BY <1>2, <3>2
        <3> QED BY <2>3, <3>1, <3>3
    <2>6. ReadOff(r)' = R
        BY <1>6
    <2> HIDE DEF R
    <2>7. sent[r] <= Total(r)
        BY DEF InSequence, NoGap
    <2> QED BY <1>1, <1>3, <2>1, <2>2, <2>4, <2>5, <2>6, <2>7 DEF NoGap
<1> QED BY <1>7, <1>8, <1>9 DEF InSequence

LEMMA StreamAtDeliver ==
    ASSUME IInv, NEW r \in Streams, InSequence(r), Deliver(Chan)
    PROVE  InSequence(r)'
<1>t. /\ r \in Requests /\ Chan \in Loops
      /\ got[r] \in Seq(Numbers) /\ ch[r] \in Seq(Numbers)
      /\ Len(got[r]) \in Nat /\ Len(ch[r]) \in Nat
      /\ sent[r] \in Nat /\ Total(r) \in Nat
      /\ Reached(r) = Len(got[r]) + Len(ch[r])
      /\ Reached(r) \in Nat /\ ReadOff(r) \in Nat
    BY StreamTypes
<1>d. DOMAIN loopAt = Loops /\ DOMAIN ch = Requests
    BY DEF IInv, TypeOK
<1>a. Len(got[r]) + (Len(ch[r]) + 1) = (Len(got[r]) + Len(ch[r])) + 1
    <2>1. \A a, b \in Nat : a + (b + 1) = (a + b) + 1
        OBVIOUS
    <2> QED BY <1>t, <2>1
<1>1. /\ loopAt[Chan] = "deliver"
      /\ ch' = [ch EXCEPT ![cur[Chan].id] = Append(@, cur[Chan].n)]
      /\ loopAt' = [loopAt EXCEPT ![Chan] = IF ~IsStream(cur[Chan])
                                           THEN "forget" ELSE "read"]
      /\ UNCHANGED <<caller, got, pending, closed, cur, serving, sent, wire, strays>>
    BY DEF Deliver, callerVars, netVars, Chan
<1>2. cur[Chan].id \in Requests /\ cur[Chan].n \in Numbers
    BY <1>1, <1>t, HeldMessage
<1> HIDE DEF IInv
<1>3. loopAt'[Chan] = IF ~IsStream(cur[Chan]) THEN "forget" ELSE "read"
    BY <1>1, <1>d, <1>t
<1>4. CASE cur[Chan].id # r
    <2>1. ch'[r] = ch[r]
        BY <1>1, <1>2, <1>4, <1>t, <1>d
    <2>2. Same(r)
        BY <1>1, <2>1 DEF Same
    <2> QED BY <1>1, <1>4, <2>2, StreamFrame
<1>5. CASE cur[Chan].id = r
    <2>1. ch'[r] = Append(ch[r], cur[Chan].n)
        BY <1>1, <1>5, <1>t, <1>d
    <2>2. /\ Len(ch'[r]) = Len(ch[r]) + 1
          /\ \A i \in 1..Len(ch[r]) : ch'[r][i] = ch[r][i]
          /\ ch'[r][Len(ch[r]) + 1] = cur[Chan].n
        BY <1>2, <1>t, <2>1, AppendProperties
    <2>3. cur[Chan].n = Reached(r) + 1 /\ ReadOff(r) = Reached(r) + 1
        BY <1>1, <1>5 DEF InSequence, InOrder, ReadOff
    <2>4. Reached(r)' = Reached(r) + 1 /\ Total(r)' = Total(r)
        <3>1. Reached(r)' = Len(got[r]) + (Len(ch[r]) + 1)
            BY <1>1, <2>2 DEF Reached
        <3>2. Reached(r)' = Reached(r) + 1
            BY <1>a, <1>t, <3>1
        <3>3. Total(r)' = Total(r)
            BY DEF Total
        <3> QED BY <3>2, <3>3
    <2>5. ReadOff(r)' = ReadOff(r)
        BY <1>3, <2>3, <2>4 DEF ReadOff
    <2>6. ASSUME NEW i \in 1..Len(ch'[r]) PROVE ch'[r][i] = Len(got[r]) + i
        <3>1. i \in 1..Len(ch[r]) \/ i = Len(ch[r]) + 1
            BY <1>t, <2>2
        <3>2. \A j \in 1..Len(ch[r]) : ch[r][j] = Len(got[r]) + j
            BY DEF InSequence, InOrder
        <3>3. cur[Chan].n = Len(got[r]) + (Len(ch[r]) + 1)
            BY <1>a, <1>t, <2>3
        <3> QED BY <2>2, <3>1, <3>2, <3>3
    <2>7. loopAt'[Chan] = "forget" => ReadOff(r) = Total(r)
        <3>1. ASSUME loopAt'[Chan] = "forget" PROVE ~(cur[Chan].n < Total(r))
            BY <1>3, <1>5, <3>1 DEF IsStream
        <3>2. ReadOff(r) <= Total(r)
            BY <1>t DEF InSequence, NoGap
        <3>3. ReadOff(r) \in Nat /\ Total(r) \in Nat /\ cur[Chan].n = ReadOff(r)
            BY <1>t, <2>3
        <3> QED BY <3>1, <3>2, <3>3
    <2>8. InOrder(r)'
        BY <1>1, <1>3, <2>4, <2>5, <2>6, <2>7 DEF InSequence, InOrder
    <2>9. NoGap(r)'
        BY <1>1, <2>4, <2>5 DEF InSequence, NoGap
    <2>10. Awaited(r)'
        BY <1>1 DEF InSequence, Awaited, Unsent, Coming, OnWire
    <2> QED BY <2>8, <2>9, <2>10 DEF InSequence
<1> QED BY <1>4, <1>5

LEMMA StreamAtForget ==
    ASSUME IInv, NEW r \in Streams, InSequence(r), Forget(Chan)
    PROVE  InSequence(r)'
<1>t. /\ r \in Requests /\ Chan \in Loops
      /\ sent[r] \in Nat /\ Total(r) \in Nat /\ 1 <= Total(r) /\ ReadOff(r) \in Nat
      /\ \A i \in DOMAIN wire : wire[i].n \in Nat
    BY StreamTypes
<1>d. /\ DOMAIN loopAt = Loops /\ DOMAIN closed = Requests
      /\ r \in serving => sent[r] < Total(r)
      /\ Unsent(r) => sent[r] = 0
    BY <1>t DEF IInv, TypeOK, Unfinished, Unsent
<1>1. /\ loopAt[Chan] = "forget" /\ loopAt'[Chan] = "read"
      /\ pending' = pending \ {cur[Chan].id}
      /\ cur[Chan].id # r => closed'[r] = closed[r]
      /\ UNCHANGED <<caller, got, ch, serving, sent, wire, strays>>
    BY <1>t, <1>d DEF Forget, callerVars, netVars
<1> HIDE DEF IInv
<1>2. CASE cur[Chan].id # r
    <2>1. Same(r)
        BY <1>1, <1>2 DEF Same
    <2> QED BY <1>1, <1>2, <2>1, StreamFrame
<1>3. CASE cur[Chan].id = r
    <2>1. ReadOff(r) = Total(r)
        BY <1>1, <1>3 DEF InSequence, InOrder
    <2>2. ~OnWire(r)
        <3>1. ASSUME NEW i \in DOMAIN wire, wire[i].id = r PROVE FALSE
            <4>1. ReadOff(r) < wire[i].n /\ wire[i].n <= sent[r] /\ sent[r] <= Total(r)
                BY <3>1 DEF InSequence, NoGap
            <4> QED BY <1>t, <2>1, <4>1
        <3> QED BY <3>1 DEF OnWire
    <2>3. r \notin serving /\ ~Unsent(r)
        <3>1. ReadOff(r) <= sent[r]
            BY DEF InSequence, NoGap
        <3> QED BY <1>t, <1>d, <2>1, <3>1
    <2>4. Awaited(r)'
        BY <1>1, <2>2, <2>3 DEF InSequence, Awaited, Unsent, Coming, OnWire
    <2>5. Reached(r)' = Reached(r) /\ Total(r)' = Total(r)
        BY <1>1 DEF Reached, Total
    <2>6. ReadOff(r)' = ReadOff(r)
        BY <1>1, <2>5 DEF ReadOff
    <2>7. InOrder(r)'
        BY <1>1, <2>6 DEF InSequence, InOrder
    <2>8. NoGap(r)'
        BY <1>1, <2>5, <2>6 DEF InSequence, NoGap
    <2> QED BY <2>4, <2>7, <2>8 DEF InSequence
<1> QED BY <1>2, <1>3

LEMMA StreamAtPeer ==
    ASSUME IInv, NEW r \in Streams, InSequence(r), NEW q \in Requests, PeerReply(q)
    PROVE  InSequence(r)'
<1>t. /\ r \in Requests
      /\ sent[r] \in Nat /\ Total(r) \in Nat /\ ReadOff(r) \in Nat
      /\ \A i \in DOMAIN wire : wire[i].n \in Nat
    BY StreamTypes
<1>d. /\ TypeOK
      /\ DOMAIN sent = Requests
      /\ r \in serving => sent[r] < Total(r)
    BY DEF IInv, TypeOK, Unfinished
<1>1. /\ q \in serving /\ sent[q] + 1 \in Numbers
      /\ sent' = [sent EXCEPT ![q] = @ + 1]
      /\ wire' = Append(wire, [id |-> q, n |-> sent[q] + 1])
      /\ serving' = IF sent[q] + 1 = Total(q) THEN serving \ {q} ELSE serving
      /\ UNCHANGED <<caller, got, pending, ch, closed, loopAt, cur, strays>>
    BY OneMore DEF PeerReply, callerVars, loopVars
<1> HIDE DEF IInv
<1>2. [id |-> q, n |-> sent[q] + 1] \in Messages
    BY <1>1 DEF Messages
<1>3. /\ Len(wire) \in Nat
      /\ DOMAIN wire = 1..Len(wire) /\ DOMAIN wire' = 1..(Len(wire) + 1)
      /\ \A i \in DOMAIN wire : wire'[i] = wire[i]
      /\ wire'[Len(wire) + 1] = [id |-> q, n |-> sent[q] + 1]
    BY <1>d, <1>1, <1>2, WireAppended
<1>4. Reached(r)' = Reached(r) /\ ReadOff(r)' = ReadOff(r) /\ Total(r)' = Total(r)
    BY <1>1 DEF Reached, ReadOff, Total
<1>5. InOrder(r)'
    BY <1>1, <1>4 DEF InSequence, InOrder
<1>6. Awaited(r)'
    <2>1. OnWire(r)' => OnWire(r) \/ q = r
        <3>1. ASSUME NEW i \in DOMAIN wire', wire'[i].id = r PROVE OnWire(r) \/ q = r
            <4>1. i \in DOMAIN wire \/ i = Len(wire) + 1
                BY <1>3
            <4> QED BY <1>3, <3>1, <4>1 DEF OnWire
        <3> QED BY <3>1 DEF OnWire
    <2>2. q = r => Coming(r) /\ ~Unsent(r)
        BY <1>1, <1>t DEF IInv, Unfinished, Coming, Unsent
    <2> QED BY <1>1, <2>1, <2>2 DEF InSequence, Awaited, Unsent, Coming
<1>7. NoGap(r)'
    <2>1. CASE q # r
        <3>1. sent'[r] = sent[r] /\ (r \in serving' => r \in serving)
            BY <1>d, <1>1, <2>1
        <3>2. \A i \in DOMAIN wire' : wire'[i].id = r => i \in DOMAIN wire /\ wire[i] = wire'[i]
            <4>1. ASSUME NEW i \in DOMAIN wire', wire'[i].id = r
                  PROVE  i \in DOMAIN wire /\ wire[i] = wire'[i]
                <5>1. i \in DOMAIN wire \/ i = Len(wire) + 1
                    BY <1>3
                <5> QED BY <1>3, <2>1, <4>1, <5>1
            <4> QED BY <4>1
        <3>3. ASSUME NEW i \in DOMAIN wire', wire'[i].id = r
              PROVE  /\ ReadOff(r) < wire'[i].n /\ wire'[i].n <= sent[r]
                     /\ \A j \in 1..(i - 1) : wire'[j].id = r => wire'[j].n < wire'[i].n
                     /\ \A x \in (ReadOff(r) + 1)..wire'[i].n :
                            \E j \in 1..i : wire'[j].id = r /\ wire'[j].n = x
            <4>1. i \in DOMAIN wire /\ wire[i] = wire'[i]
                BY <3>2, <3>3
            <4>2. \A j \in 1..i : j \in DOMAIN wire /\ wire'[j] = wire[j]
                BY <1>3, <4>1
            <4>3. \A j \in 1..(i - 1) : j \in 1..i
                BY <1>3, <4>1
            <4> QED BY <3>3, <4>1, <4>2, <4>3 DEF InSequence, NoGap
        <3>4. ASSUME r \in serving', NEW x \in (ReadOff(r) + 1)..sent[r]
              PROVE  \E j \in DOMAIN wire' : wire'[j].id = r /\ wire'[j].n = x
            <4>1. PICK j \in DOMAIN wire : wire[j].id = r /\ wire[j].n = x
                BY <3>1, <3>4 DEF InSequence, NoGap
            <4>2. j \in DOMAIN wire' /\ wire'[j] = wire[j]
                BY <1>3
            <4> QED BY <4>1, <4>2
        <3>5. ReadOff(r) <= sent[r] /\ sent[r] <= Total(r)
            BY DEF InSequence, NoGap
        <3> QED BY <1>4, <3>1, <3>3, <3>4, <3>5 DEF NoGap
    <2>2. CASE q = r
        <3>1. /\ sent'[r] = sent[r] + 1 /\ sent[r] + 1 <= Total(r)
              /\ ReadOff(r) <= sent[r]
            BY <1>d, <1>t, <1>1, <2>2 DEF InSequence, NoGap
        <3>2. ASSUME NEW x \in (ReadOff(r) + 1)..(sent[r] + 1)
              PROVE  \E j \in DOMAIN wire' : wire'[j].id = r /\ wire'[j].n = x
            <4>1. CASE x = sent[r] + 1
                BY <1>3, <2>2, <4>1
            <4>2. CASE x # sent[r] + 1
                <5>1. x \in (ReadOff(r) + 1)..sent[r]
                    BY <1>t, <4>2
                <5>2. PICK j \in DOMAIN wire : wire[j].id = r /\ wire[j].n = x
                    BY <1>1, <2>2, <5>1 DEF InSequence, NoGap
                <5>3. j \in DOMAIN wire' /\ wire'[j] = wire[j]
                    BY <1>3
                <5> QED BY <5>2, <5>3
            <4> QED BY <4>1, <4>2
        <3>3. ASSUME NEW i \in DOMAIN wire', wire'[i].id = r
              PROVE  /\ ReadOff(r) < wire'[i].n /\ wire'[i].n <= sent[r] + 1
                     /\ \A j \in 1..(i - 1) : wire'[j].id = r => wire'[j].n < wire'[i].n
                     /\ \A x \in (ReadOff(r) + 1)..wire'[i].n :
                            \E j \in 1..i : wire'[j].id = r /\ wire'[j].n = x
            <4>1. CASE i \in DOMAIN wire
                <5>1. \A j \in 1..i : j \in DOMAIN wire /\ wire'[j] = wire[j]
                    BY <1>3, <4>1
                <5>2. i \in 1..i /\ \A j \in 1..(i - 1) : j \in 1..i
                    BY <1>3, <4>1
                <5>3. wire'[i] = wire[i] /\ wire[i].n \in Nat
                    BY <1>3, <1>t, <4>1
                <5>4. wire[i].n <= sent[r] => wire[i].n <= sent[r] + 1
                    BY <1>t, <5>3
                <5> QED BY <3>3, <4>1, <5>1, <5>2, <5>3, <5>4 DEF InSequence, NoGap
            <4>2. CASE i \notin DOMAIN wire
                <5>1. i = Len(wire) + 1 /\ wire'[i].n = sent[r] + 1
                    BY <1>3, <2>2, <4>2
                <5>2. ASSUME NEW j \in 1..(i - 1), wire'[j].id = r
                      PROVE  wire'[j].n < sent[r] + 1
                    <6>1. j \in DOMAIN wire /\ wire'[j] = wire[j]
                        BY <1>3, <5>1
                    <6>2. wire[j].n <= sent[r] /\ wire[j].n \in Nat
                        BY <1>t, <5>2, <6>1 DEF InSequence, NoGap
                    <6> QED BY <1>t, <6>1, <6>2
                <5>3. 1..i = DOMAIN wire'
                    BY <1>3, <5>1
                <5> QED BY <1>t, <3>1, <3>2, <5>1, <5>2, <5>3
            <4> QED BY <4>1, <4>2
        <3> QED BY <1>t, <1>4, <3>1, <3>2, <3>3 DEF NoGap
    <2> QED BY <2>1, <2>2
<1> QED BY <1>5, <1>6, <1>7 DEF InSequence

LEMMA StreamAtOther ==
    ASSUME IInv, NEW r \in Streams, InSequence(r),
           Redial \/ MapRace \/ Break \/ DeliverPanics(Chan) \/ ReceiveFails(Chan)
    PROVE  InSequence(r)'
<1>t. /\ r \in Requests /\ Chan \in Loops
      /\ ReadOff(r) \in Nat
    BY StreamTypes
<1>d. /\ TypeOK
      /\ loopAt \in [Loops -> {"off", "read", "deliver", "forget", "reconnect", "dead"}]
    BY DEF IInv, TypeOK
<1>f. ASSUME \A w \in {"deliver", "forget"} : loopAt'[Chan] = w <=> loopAt[Chan] = w,
             UNCHANGED <<caller, got, pending, ch, closed, cur, serving, sent, wire, strays>>
      PROVE  InSequence(r)'
    <2>1. Same(r)
        BY <1>f DEF Same
    <2> QED BY <1>f, <2>1, StreamFrame
<1> HIDE DEF IInv
<1>1. CASE Redial
    <2>1. Chan # "ReceiveLoop" /\ "ReceiveLoop" \in Loops
        BY DEF Chan, Loops
    <2> QED BY <1>t, <1>d, <1>1, <1>f, <2>1 DEF Redial, Reconnect, ReconnectFails,
                callerVars, netVars, Chan
<1>2. CASE MapRace
    BY <1>2, <1>f DEF MapRace, callerVars, loopVars, netVars
<1>3. CASE DeliverPanics(Chan)
    BY <1>3, <1>f DEF DeliverPanics, callerVars, loopVars, netVars
<1>4. CASE ReceiveFails(Chan)
    BY <1>t, <1>d, <1>4, <1>f DEF ReceiveFails, callerVars, netVars, Chan
<1>5. CASE Break
    <2>1. /\ serving' = {}
          /\ UNCHANGED <<caller, got, pending, ch, closed, loopAt, cur, strays, sent>>
        BY <1>5 DEF Break, callerVars, loopVars
    <2>2. PICK n \in 0..Len(wire) : wire' = SubSeq(wire, 1, n)
        BY <1>5 DEF Break
    <2>3. /\ DOMAIN wire' = 1..n /\ 1..n \subseteq DOMAIN wire
          /\ \A i \in DOMAIN wire' : wire'[i] = wire[i]
        BY <1>d, <2>2, WirePrefix
    <2>4. OnWire(r)' => OnWire(r)
        BY <2>3 DEF OnWire
    <2>5. Reached(r)' = Reached(r) /\ ReadOff(r)' = ReadOff(r) /\ Total(r)' = Total(r)
        BY <2>1 DEF Reached, ReadOff, Total
    <2>6. InOrder(r)' /\ Awaited(r)'
        BY <2>1, <2>4, <2>5 DEF InSequence, InOrder, Awaited, Unsent, Coming
    <2>7. ASSUME NEW i \in DOMAIN wire', wire'[i].id = r
          PROVE  /\ ReadOff(r) < wire'[i].n /\ wire'[i].n <= sent[r]
                 /\ \A j \in 1..(i - 1) : wire'[j].id = r => wire'[j].n < wire'[i].n
                 /\ \A x \in (ReadOff(r) + 1)..wire'[i].n :
                        \E j \in 1..i : wire'[j].id = r /\ wire'[j].n = x
        <3>1. i \in DOMAIN wire /\ \A j \in 1..i : j \in DOMAIN wire /\ wire'[j] = wire[j]
            BY <2>2, <2>3
        <3>2. i \in 1..i /\ \A j \in 1..(i - 1) : j \in 1..i
            BY <2>2, <2>3
        <3> QED BY <2>7, <3>1, <3>2 DEF InSequence, NoGap
    <2>8. ReadOff(r) <= sent[r] /\ sent[r] <= Total(r)
        BY DEF InSequence, NoGap
    <2>9. NoGap(r)'
        BY <2>1, <2>5, <2>7, <2>8 DEF NoGap
    <2> QED BY <2>6, <2>9 DEF InSequence
<1> QED BY <1>1, <1>2, <1>3, <1>4, <1>5

\* A second receive loop, once it is started, is never forgotten.
LEMMA OneLoopBefore == TypeOK /\ Next /\ OneLoop' => OneLoop
<1> SUFFICES ASSUME TypeOK, Next, OneLoop' PROVE OneLoop
    OBVIOUS
<1>0. loopAt \in [Loops -> {"off", "read", "deliver", "forget", "reconnect", "dead"}]
      /\ "ReceiveLoop" \in Loops
    BY DEF TypeOK, Loops
<1>1. ASSUME NEW q \in Requests, Register(q) \/ CallerProgress(q) PROVE OneLoop
    BY <1>1, CallerSteps DEF OneLoop
<1> HIDE DEF TypeOK
<1>2. ASSUME NEW l \in Loops, LoopProgress(l) PROVE OneLoop
    <2>1. CASE Lookup(l) BY <1>0, <2>1 DEF Lookup, OneLoop
    <2>2. CASE Deliver(l) BY <1>0, <2>2 DEF Deliver, OneLoop
    <2>3. CASE DeliverPanics(l) BY <2>3 DEF DeliverPanics, loopVars, OneLoop
    <2>4. CASE Forget(l) BY <1>0, <2>4 DEF Forget, OneLoop
    <2>5. CASE ReceiveFails(l) BY <1>0, <2>5 DEF ReceiveFails, OneLoop
    <2> QED BY <1>2, <2>1, <2>2, <2>3, <2>4, <2>5 DEF LoopProgress
<1>3. CASE Redial BY <1>0, <1>3 DEF Redial, Reconnect, ReconnectFails, OneLoop, Loops
<1>4. CASE MapRace BY <1>4 DEF MapRace, loopVars, OneLoop
<1>5. ASSUME NEW q \in Requests, PeerReply(q) PROVE OneLoop
    BY <1>5 DEF PeerReply, loopVars, OneLoop
<1>6. CASE Break BY <1>6 DEF Break, loopVars, OneLoop
<1> QED BY <1>1, <1>2, <1>3, <1>4, <1>5, <1>6 DEF Next, Environment

LEMMA StreamsStep == IInv /\ StreamsInSequence /\ Next => StreamsInSequence'
<1> SUFFICES ASSUME IInv, StreamsInSequence, Next, OneLoop', NEW r \in Streams
             PROVE  InSequence(r)'
    BY DEF StreamsInSequence
<1>0. TypeOK /\ OneLoop /\ InSequence(r) /\ r \in Requests
    BY OneLoopBefore DEF StreamsInSequence, Requests, IInv
<1> HIDE DEF IInv
<1>1. ASSUME NEW q \in Requests, Register(q) \/ CallerProgress(q)
      PROVE  InSequence(r)'
    <2>1. CASE q = r BY <1>0, <1>1, <2>1, StreamOfCaller
    <2>2. CASE q # r
        <3>1. Same(r) /\ UNCHANGED <<loopAt, cur, wire>>
            BY <1>0, <1>1, <2>2, CallerSteps
        <3> QED BY <1>0, <3>1, StreamFrame
    <2> QED BY <2>1, <2>2
<1>2. ASSUME NEW l \in Loops, LoopProgress(l) PROVE InSequence(r)'
    <2>1. l = Chan
        BY <1>0, <1>2 DEF OneLoop, LoopProgress, Lookup, Deliver, DeliverPanics, Forget,
                          ReceiveFails, Loops, Chan
    <2> QED BY <1>0, <1>2, <2>1, StreamAtLookup, StreamAtDeliver, StreamAtForget,
                StreamAtOther DEF LoopProgress
<1>3. ASSUME NEW q \in Requests, PeerReply(q) PROVE InSequence(r)'
    BY <1>0, <1>3, StreamAtPeer
<1>4. ASSUME Redial \/ MapRace \/ Break PROVE InSequence(r)'
    BY <1>0, <1>4, StreamAtOther
<1> QED BY <1>1, <1>2, <1>3, <1>4 DEF Next, Environment

-----------------------------------------------------------------------------
\* The inductive invariant holds in every reachable state.
THEOREM OrderInvariance == Spec => []OInv
<1>1. Init => OInv
    BY InitInv, InitOrder DEF OInv
<1>2. OInv /\ [Next]_vars => OInv'
    <2> SUFFICES ASSUME OInv, [Next]_vars PROVE OInv'
        OBVIOUS
    <2>1. IInv'
        BY StepInv DEF OInv
    <2>2. CASE Next
        BY <2>1, <2>2, CallsStep, StreamsStep DEF OInv
    <2>3. CASE UNCHANGED vars
        <3>1. /\ \A r \in Requests : Same(r)
              /\ UNCHANGED <<loopAt, cur, wire, caller, pending, ch, closed, serving,
                             strays, got>>
            BY <2>3 DEF vars, Same
        <3>2. CallsAnsweredOnce'
            BY <3>1 DEF OInv, CallsAnsweredOnce, AnsweredOnce, Unsent, Coming, OnWire,
                        Handles
        <3>3. StreamsInSequence'
            BY <3>1, StreamFrame DEF OInv, StreamsInSequence, OneLoop, Requests
        <3> QED BY <2>1, <3>2, <3>3 DEF OInv
    <2> QED BY <2>2, <2>3
<1> QED BY <1>1, <1>2, PTL DEF Spec

\* The channel of a SendRequest always has room for its reply when a receive
\* loop comes to deliver it, and is not closed: not even when the caller has
\* timed out, and whatever cuts, reconnects and second loops there are.
THEOREM CallsNeverBlock == Spec => []CallNeverBlocksLoop
<1>1. OInv => CallNeverBlocksLoop
    <2> SUFFICES ASSUME OInv, NEW l \in Loops, loopAt[l] = "deliver",
                        cur[l].id \in Calls
                 PROVE  Len(ch[cur[l].id]) < ChanCap /\ ~closed[cur[l].id]
        BY DEF CallNeverBlocksLoop
    <2>1. ch[cur[l].id] = <<>> /\ ~closed[cur[l].id]
        BY DEF OInv, CallsAnsweredOnce, AnsweredOnce
    <2> QED BY <2>1 DEF ChanCap
<1> QED BY <1>1, OrderInvariance, PTL

\* What both kinds of requests have in common while there is one receive loop,
\* or while only SendRequest is used.
LEMMA OneLoopSuffices ==
    OInv /\ (OneLoop \/ Streams = {}) => TakenInOrder /\ StrayOnlyAfterGivingUp
<1> SUFFICES ASSUME OInv, OneLoop \/ Streams = {}
             PROVE  TakenInOrder /\ StrayOnlyAfterGivingUp
    OBVIOUS
<1>0. TypeOK
    BY DEF OInv, IInv
<1>1. ASSUME NEW r \in Requests PROVE got[r] = [i \in 1..Len(got[r]) |-> i]
    <2>1. /\ got[r] \in Seq(Numbers) /\ DOMAIN got[r] = 1..Len(got[r])
          /\ Len(got[r]) \in Nat
        BY <1>0, LenProperties DEF TypeOK
    <2>2. CASE r \in Calls
        <3>1. got[r] \in {<<>>, <<1>>}
            BY <2>2 DEF OInv, CallsAnsweredOnce, AnsweredOnce
        <3> QED BY <2>1, <3>1
    <2>3. CASE r \notin Calls
        <3>1. \A i \in 1..Len(got[r]) : got[r][i] = i
            BY <2>3 DEF OInv, StreamsInSequence, InSequence, InOrder, Requests
        <3>2. got[r] = [i \in DOMAIN got[r] |-> got[r][i]]
            BY <2>1
        <3> QED BY <2>1, <3>1, <3>2
    <2> QED BY <2>2, <2>3
<1>2. ASSUME NEW r \in strays PROVE r \in Calls /\ caller[r] = "timedout"
    <2>1. r \in Requests
        BY <1>0 DEF TypeOK
    <2>2. r \in Calls
        BY <2>1 DEF OInv, StreamsInSequence, InSequence, Awaited, Requests
    <2> QED BY <2>2 DEF OInv, CallsAnsweredOnce, AnsweredOnce
<1> QED BY <1>1, <1>2 DEF TakenInOrder, StrayOnlyAfterGivingUp

\* Until a second receive loop is started on a connection, no message of an
\* answer is lost, doubled or overtaken on its way from the wire to the caller,
\* and none but the late reply to a SendRequest is handed to AsyncEvent.
THEOREM InOrderWithOneLoop ==
    Spec => [](OneLoop => TakenInOrder /\ StrayOnlyAfterGivingUp)
<1>1. OInv => (OneLoop => TakenInOrder /\ StrayOnlyAfterGivingUp)
    BY OneLoopSuffices
<1> QED BY <1>1, OrderInvariance, PTL

\* Every connection of the program but the one of the API gateway: either only
\* SendRequest is used on it, or ReceiveLoopChan is its only loop.
OneLoopForStreams ==
    Streams = {} \/ (FirstLoop = "ReceiveLoopChan" /\ ~SecondLoop)

\* On such a connection the first loop stays the only one.
OnlyLoop == OneLoopForStreams => Streams = {} \/ OneLoop

LEMMA OnlyLoopKept == TypeOK /\ OnlyLoop /\ [Next]_vars => OnlyLoop'
<1> SUFFICES ASSUME TypeOK, Next \/ UNCHANGED vars, FirstLoop = "ReceiveLoopChan",
                    ~SecondLoop, OneLoop
             PROVE  OneLoop'
    BY DEF OnlyLoop, OneLoopForStreams
<1>0. loopAt \in [Loops -> {"off", "read", "deliver", "forget", "reconnect", "dead"}]
      /\ "ReceiveLoop" \in Loops
    BY DEF TypeOK, Loops
<1>1. ASSUME NEW q \in Requests, Register(q) \/ CallerProgress(q) PROVE OneLoop'
    BY <1>1, CallerSteps DEF OneLoop
<1> HIDE DEF TypeOK
<1>2. ASSUME NEW l \in Loops, LoopProgress(l) PROVE OneLoop'
    <2>1. loopAt[l] \in {"read", "deliver", "forget"} /\ l # "ReceiveLoop"
        BY <1>2 DEF LoopProgress, Lookup, Deliver, DeliverPanics, Forget, ReceiveFails,
                    OneLoop
    <2>2. \A k \in Loops : k # l => loopAt'[k] = loopAt[k]
        BY <1>0, <1>2 DEF LoopProgress, Lookup, Deliver, DeliverPanics, Forget,
                          ReceiveFails, loopVars
    <2> QED BY <1>0, <2>1, <2>2 DEF OneLoop
<1>3. CASE Redial BY <1>0, <1>3 DEF Redial, Reconnect, ReconnectFails, OneLoop
<1>4. CASE MapRace BY <1>4 DEF MapRace, loopVars, OneLoop
<1>5. ASSUME NEW q \in Requests, PeerReply(q) PROVE OneLoop'
    BY <1>5 DEF PeerReply, loopVars, OneLoop
<1>6. CASE Break BY <1>6 DEF Break, loopVars, OneLoop
<1>7. CASE UNCHANGED vars BY <1>7 DEF vars, OneLoop
<1> QED BY <1>1, <1>2, <1>3, <1>4, <1>5, <1>6, <1>7 DEF Next, Environment

LEMMA OnlyLoopAlways == Spec => []OnlyLoop
<1>1. Init => OnlyLoop
    BY DEF Init, OnlyLoop, OneLoopForStreams, OneLoop, Loops
<1>2. TypeOK /\ OnlyLoop /\ [Next]_vars => OnlyLoop'
    BY OnlyLoopKept
<1> QED BY <1>1, <1>2, TypeCorrect, PTL DEF Spec

\* On these connections what a caller has taken is always the beginning of its
\* answer, whatever cuts, reconnects and timeouts there are.
THEOREM AnswersInOrder ==
    ASSUME OneLoopForStreams
    PROVE  Spec => []TakenInOrder
<1>1. OInv /\ OnlyLoop => TakenInOrder
    BY OneLoopSuffices DEF OnlyLoop
<1> QED BY <1>1, OrderInvariance, OnlyLoopAlways, PTL

\* And a reply that Node.AsyncEvent takes for a request of the peer is always
\* one whose SendRequest has timed out.
THEOREM StraysAreLate ==
    ASSUME OneLoopForStreams
    PROVE  Spec => []StrayOnlyAfterGivingUp
<1>1. OInv /\ OnlyLoop => StrayOnlyAfterGivingUp
    BY OneLoopSuffices DEF OnlyLoop
<1> QED BY <1>1, OrderInvariance, OnlyLoopAlways, PTL
=============================================================================
