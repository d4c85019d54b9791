-------------------------- MODULE ConnectionProofs --------------------------
(***************************************************************************)
(* Proofs about Connection for any number of requests, any length of a     *)
(* stream, one receive loop or two, and any number of cuts: type           *)
(* correctness, and that the pending map never keeps an entry whose        *)
(* request is over.                                                        *)
(***************************************************************************)
EXTENDS Connection, SequenceTheorems, TLAPS

\* A receive loop is working on a message of r.
Handles(l, r) == loopAt[l] \in {"deliver", "forget"} /\ cur[l].id = r

\* Before SendRequest(Chan) has registered it, nothing knows the ID.
UnknownBefore ==
    \A r \in Requests : caller[r] = "new" =>
        /\ r \notin pending
        /\ ~closed[r] /\ ch[r] = <<>>
        /\ \A l \in Loops : ~Handles(l, r)

\* A channel is closed when its entry is deleted, never earlier.
ClosedIsForgotten == \A r \in Requests : closed[r] => r \notin pending

\* The reply of a SendRequest is in its channel: whoever put it there is
\* about to delete the entry.
AnsweredIsForgotten ==
    \A r \in Calls : ch[r] # <<>> /\ r \in pending =>
        \E l \in Loops : loopAt[l] = "forget" /\ cur[l].id = r

\* What a receive loop holds while it delivers is a message.
Holding == \A l \in Loops : loopAt[l] \in {"deliver", "forget"} => cur[l] \in Messages

\* What the peer still serves is not answered in full, and it has nothing of
\* a request that is not sent.
Unfinished ==
    /\ \A r \in serving : sent[r] < Total(r)
    /\ \A r \in Requests : caller[r] \in {"new", "registered"} =>
           r \notin serving /\ sent[r] = 0

IInv ==
    /\ TypeOK
    /\ Holding
    /\ Unfinished
    /\ UnknownBefore
    /\ ClosedIsForgotten
    /\ AnsweredIsForgotten
    /\ NoLeakedEntry
-----------------------------------------------------------------------------
LEMMA TotalType ==
    ASSUME NEW r \in Requests
    PROVE  Total(r) \in Numbers
BY ConnectionAssumption DEF Total, Numbers

LEMMA InitInv == Init => IInv
<1> SUFFICES ASSUME Init PROVE IInv
    OBVIOUS
<1> USE ConnectionAssumption DEF Init, Loops
<1>1. TypeOK
    <2>1. /\ ch \in [Requests -> Seq(Numbers)]
          /\ got \in [Requests -> Seq(Numbers)]
          /\ wire \in Seq(Messages)
        OBVIOUS
    <2>2. /\ sent \in [Requests -> Numbers \cup {0}]
          /\ breaks \in 0..MaxBreaks
        OBVIOUS
    <2>3. cur \in [Loops -> Messages \cup {NoMessage}]
        OBVIOUS
    <2> QED BY <2>1, <2>2, <2>3 DEF TypeOK
<1>2. Holding /\ Unfinished /\ UnknownBefore /\ ClosedIsForgotten
      /\ AnsweredIsForgotten /\ NoLeakedEntry
    BY DEF Holding, Unfinished, UnknownBefore, ClosedIsForgotten, Handles,
           AnsweredIsForgotten, NoLeakedEntry, Requests
<1> QED BY <1>1, <1>2 DEF IInv

-----------------------------------------------------------------------------
(* Functions to sequences, updated at one point.                            *)

LEMMA AppendAt ==
    ASSUME NEW S, NEW T, NEW f \in [S -> Seq(T)], NEW x \in S, NEW e \in T
    PROVE  [f EXCEPT ![x] = Append(@, e)] \in [S -> Seq(T)]
<1>1. Append(f[x], e) \in Seq(T)
    BY AppendProperties
<1> QED BY <1>1

LEMMA TailAt ==
    ASSUME NEW S, NEW T, NEW f \in [S -> Seq(T)], NEW x \in S, f[x] # <<>>
    PROVE  [f EXCEPT ![x] = Tail(@)] \in [S -> Seq(T)]
<1>1. f[x] \in Seq(T)
    OBVIOUS
<1>2. Tail(f[x]) \in Seq(T)
    BY <1>1, HeadTailProperties
<1> QED BY <1>2

LEMMA PrefixType ==
    ASSUME NEW T, NEW s \in Seq(T), NEW k \in 0..Len(s)
    PROVE  SubSeq(s, 1, k) \in Seq(T)
<1>1. Len(s) \in Nat
    BY LenProperties
<1>2. \A i \in 1..k : i \in 1..Len(s)
    BY <1>1
<1>3. \A i \in 1..k : s[i] \in T
    BY <1>2, ElementOfSeq
<1> QED BY <1>1, <1>3, SubSeqProperties

-----------------------------------------------------------------------------
(* Type correctness, one step per action.                                   *)

LEMMA CallerType ==
    ASSUME IInv, NEW r \in Requests,
           Register(r) \/ CallerProgress(r)
    PROVE  TypeOK'
<1>0. TypeOK
    BY DEF IInv
<1>1. CASE Register(r) BY <1>0, <1>1 DEF Register, TypeOK, loopVars, netVars
<1>2. CASE Transmit(r) BY <1>0, <1>2 DEF Transmit, TypeOK, loopVars
<1>3. CASE SendFails(r) BY <1>0, <1>3 DEF SendFails, TypeOK, loopVars, netVars
<1>4. CASE Take(r)
    <2>1. ch \in [Requests -> Seq(Numbers)] /\ got \in [Requests -> Seq(Numbers)]
        BY <1>0 DEF TypeOK
    <2>2. /\ ch[r] # <<>>
          /\ ch' = [ch EXCEPT ![r] = Tail(@)]
          /\ got' = [got EXCEPT ![r] = Append(@, Head(ch[r]))]
        BY <1>4 DEF Take
    <2>3. Head(ch[r]) \in Numbers
        <3>1. ch[r] \in Seq(Numbers)
            BY <2>1
        <3> QED BY <2>2, <3>1, HeadTailProperties
    <2>4. ch' \in [Requests -> Seq(Numbers)]
        BY <2>1, <2>2, TailAt
    <2>5. got' \in [Requests -> Seq(Numbers)]
        BY <2>1, <2>2, <2>3, AppendAt
    <2> QED BY <1>0, <1>4, <2>4, <2>5 DEF Take, TypeOK, loopVars, netVars
<1>5. CASE RangeEnds(r) BY <1>0, <1>5 DEF RangeEnds, TypeOK, loopVars, netVars
<1>6. CASE Timeout(r) BY <1>0, <1>6 DEF Timeout, TypeOK, loopVars, netVars
<1>7. CASE Expire(r) BY <1>0, <1>7 DEF Expire, TypeOK, loopVars, netVars
<1> QED BY <1>1, <1>2, <1>3, <1>4, <1>5, <1>6, <1>7 DEF CallerProgress

\* What a loop that delivers or forgets works on.
LEMMA HeldMessage ==
    ASSUME IInv, NEW l \in Loops, loopAt[l] \in {"deliver", "forget"}
    PROVE  cur[l].id \in Requests /\ cur[l].n \in Numbers
BY DEF IInv, Holding, Messages

LEMMA LoopType ==
    ASSUME IInv, NEW l \in Loops, LoopProgress(l)
    PROVE  TypeOK'
<1>0. TypeOK
    BY DEF IInv
<1>1. CASE Lookup(l)
    <2>1. wire \in Seq(Messages) /\ wire # <<>>
        BY <1>0, <1>1 DEF Lookup, TypeOK
    <2>2. Head(wire) \in Messages /\ Tail(wire) \in Seq(Messages)
        BY <2>1, HeadTailProperties
    <2>3. Head(wire).id \in Requests
        BY <2>2 DEF Messages
    <2> QED BY <1>0, <1>1, <2>2, <2>3 DEF Lookup, TypeOK, callerVars
<1>2. CASE Deliver(l)
    <2>1. loopAt[l] = "deliver" /\ ch' = [ch EXCEPT ![cur[l].id] = Append(@, cur[l].n)]
        BY <1>2 DEF Deliver
    <2>2. cur[l].id \in Requests /\ cur[l].n \in Numbers
        BY <2>1, HeldMessage
    <2>3. ch \in [Requests -> Seq(Numbers)]
        BY <1>0 DEF TypeOK
    <2>4. ch' \in [Requests -> Seq(Numbers)]
        BY <2>1, <2>2, <2>3, AppendAt
    <2> QED BY <1>0, <1>2, <2>4 DEF Deliver, TypeOK, callerVars, netVars
<1>3. CASE DeliverPanics(l)
    BY <1>0, <1>3 DEF DeliverPanics, TypeOK, callerVars, loopVars, netVars
<1>4. CASE Forget(l)
    <2>1. cur' \in [Loops -> Messages \cup {NoMessage}]
        BY <1>0, <1>4 DEF Forget, TypeOK
    <2> QED BY <1>0, <1>4, <2>1 DEF Forget, TypeOK, callerVars, netVars
<1>5. CASE ReceiveFails(l)
    BY <1>0, <1>5 DEF ReceiveFails, TypeOK, callerVars, netVars
<1> QED BY <1>1, <1>2, <1>3, <1>4, <1>5 DEF LoopProgress

\* The peer has sent at most one message short of the answer it still serves.
LEMMA OneMore ==
    ASSUME IInv, NEW r \in serving
    PROVE  r \in Requests /\ sent[r] \in Nat /\ sent[r] + 1 \in Numbers
<1>1. r \in Requests /\ sent[r] \in Numbers \cup {0} /\ sent[r] < Total(r)
    BY DEF IInv, TypeOK, Unfinished
<1>2. Total(r) \in Numbers
    BY <1>1, TotalType
<1> HIDE DEF IInv
<1> QED BY <1>1, <1>2, ConnectionAssumption DEF Numbers

LEMMA OtherType ==
    ASSUME IInv, Redial \/ MapRace \/ Break \/ \E r \in Requests : PeerReply(r)
    PROVE  TypeOK'
<1>0. TypeOK
    BY DEF IInv
<1>1. CASE Redial
    BY <1>0, <1>1 DEF Redial, Reconnect, ReconnectFails, Loops, TypeOK, callerVars,
                      netVars
<1>2. CASE MapRace
    BY <1>0, <1>2 DEF MapRace, TypeOK, callerVars, loopVars, netVars
<1>3. CASE Break
    <2>1. breaks' \in 0..MaxBreaks
        <3>1. breaks \in 0..MaxBreaks /\ breaks < MaxBreaks /\ breaks' = breaks + 1
            BY <1>0, <1>3 DEF Break, TypeOK
        <3> QED BY <3>1, ConnectionAssumption
    <2>2. wire' \in Seq(Messages)
        <3>1. wire \in Seq(Messages)
            BY <1>0 DEF TypeOK
        <3>2. PICK k \in 0..Len(wire) : wire' = SubSeq(wire, 1, k)
            BY <1>3 DEF Break
        <3> QED BY <3>1, <3>2, PrefixType
    <2> QED BY <1>0, <1>3, <2>1, <2>2 DEF Break, TypeOK, callerVars, loopVars
<1>4. ASSUME NEW r \in Requests, PeerReply(r) PROVE TypeOK'
    <2>1. /\ r \in serving
          /\ sent' = [sent EXCEPT ![r] = sent[r] + 1]
          /\ wire' = Append(wire, [id |-> r, n |-> sent[r] + 1])
        BY <1>4 DEF PeerReply
    <2>2. sent[r] + 1 \in Numbers
        BY <2>1, OneMore
    <2>3. [id |-> r, n |-> sent[r] + 1] \in Messages
        BY <2>2 DEF Messages
    <2>4. wire \in Seq(Messages) /\ sent \in [Requests -> Numbers \cup {0}]
        BY <1>0 DEF TypeOK
    <2>5. wire' \in Seq(Messages)
        BY <2>1, <2>3, <2>4, AppendProperties
    <2>6. sent' \in [Requests -> Numbers \cup {0}]
        BY <2>1, <2>2, <2>4
    <2> QED BY <1>0, <1>4, <2>5, <2>6 DEF PeerReply, TypeOK, callerVars, loopVars
<1> QED BY <1>1, <1>2, <1>3, <1>4

-----------------------------------------------------------------------------
(* The other conjuncts, one step per action.                                *)

Bookkeeping ==
    /\ Holding
    /\ UnknownBefore
    /\ ClosedIsForgotten
    /\ AnsweredIsForgotten
    /\ NoLeakedEntry

LEMMA CallerBookkeeping ==
    ASSUME IInv, NEW r \in Requests,
           Register(r) \/ CallerProgress(r)
    PROVE  Bookkeeping'
<1>0. TypeOK /\ Bookkeeping
    BY DEF IInv, Bookkeeping
<1> USE DEF Bookkeeping, Holding, UnknownBefore, ClosedIsForgotten,
            AnsweredIsForgotten, NoLeakedEntry, Handles, loopVars
<1> HIDE DEF IInv
<1>t. /\ DOMAIN caller = Requests
      /\ DOMAIN ch = Requests
      /\ DOMAIN closed = Requests
    BY <1>0 DEF TypeOK
<1>1. CASE Register(r) BY <1>0, <1>1, <1>t DEF Register, Requests
<1>2. CASE Transmit(r) BY <1>0, <1>2, <1>t DEF Transmit, Requests
<1>3. CASE SendFails(r)
    BY <1>0, <1>3, <1>t, ConnectionAssumption DEF SendFails, Requests
<1>4. CASE Take(r)
    <2>1. /\ caller[r] = "waiting"
          /\ ch[r] # <<>>
          /\ \A q \in Requests : q # r => caller'[q] = caller[q] /\ ch'[q] = ch[q]
          /\ r \in Calls => caller'[r] = "done"
          /\ r \notin Calls => caller'[r] = "waiting"
          /\ UNCHANGED <<pending, closed, loopAt, cur>>
        BY <1>4, <1>t DEF Take
    <2>2. Holding' /\ ClosedIsForgotten'
        BY <1>0, <2>1
    <2>3. UnknownBefore'
        BY <1>0, <2>1
    <2>4. AnsweredIsForgotten'
        BY <1>0, <2>1 DEF Requests
    <2>5. ASSUME NEW q \in pending
          PROVE  \/ caller'[q] \in {"registered", "waiting", "expired"}
                 \/ \E l \in Loops : loopAt[l] = "forget" /\ cur[l].id = q
        <3>1. CASE q # r
            BY <1>0, <2>1, <3>1 DEF TypeOK
        <3>2. CASE q = r /\ r \in Calls
            BY <1>0, <2>1, <3>2
        <3>3. CASE q = r /\ r \notin Calls
            BY <2>1, <3>3
        <3> QED BY <3>1, <3>2, <3>3
    <2>6. NoLeakedEntry'
        BY <2>1, <2>5
    <2> QED BY <2>2, <2>3, <2>4, <2>6
<1>5. CASE RangeEnds(r) BY <1>0, <1>5, <1>t DEF RangeEnds, Requests
<1>6. CASE Timeout(r) BY <1>0, <1>6, <1>t DEF Timeout, Requests
<1>7. CASE Expire(r) BY <1>0, <1>7, <1>t DEF Expire, Requests
<1> QED BY <1>1, <1>2, <1>3, <1>4, <1>5, <1>6, <1>7 DEF CallerProgress

\* A reply to SendRequest is the last message of its answer.
LEMMA CallIsNoStream ==
    ASSUME NEW m, m.id \in Calls, m.n \in Numbers
    PROVE  ~IsStream(m)
BY ConnectionAssumption DEF IsStream, Total, Numbers

LEMMA LoopBookkeeping ==
    ASSUME IInv, NEW l \in Loops, LoopProgress(l)
    PROVE  Bookkeeping'
<1>0. TypeOK /\ Bookkeeping
    BY DEF IInv, Bookkeeping
<1> USE DEF Bookkeeping, Holding, UnknownBefore, ClosedIsForgotten,
            AnsweredIsForgotten, NoLeakedEntry, Handles, callerVars
<1> HIDE DEF IInv
<1>t. /\ DOMAIN ch = Requests
      /\ DOMAIN closed = Requests
      /\ DOMAIN loopAt = Loops
      /\ DOMAIN cur = Loops
    BY <1>0 DEF TypeOK
<1>1. CASE Lookup(l)
    <2>1. Head(wire) \in Messages
        <3>1. wire \in Seq(Messages) /\ wire # <<>>
            BY <1>0, <1>1 DEF Lookup, TypeOK
        <3> QED BY <3>1, HeadTailProperties
    <2> QED BY <1>0, <1>1, <1>t, <2>1 DEF Lookup, Requests
<1>2. CASE Deliver(l)
    <2>1. /\ loopAt[l] = "deliver"
          /\ ~closed[cur[l].id]
          /\ \A q \in Requests : q # cur[l].id => ch'[q] = ch[q]
          /\ \A k \in Loops : k # l => loopAt'[k] = loopAt[k]
          /\ loopAt'[l] = IF l = "ReceiveLoop" \/ ~IsStream(cur[l])
                          THEN "forget" ELSE "read"
          /\ UNCHANGED <<caller, pending, closed, cur>>
        BY <1>2, <1>t DEF Deliver
    <2>2. cur[l].id \in Requests /\ cur[l].n \in Numbers
        BY <2>1, HeldMessage
    <2>3. cur[l].id \in Calls => loopAt'[l] = "forget"
        BY <2>1, <2>2, CallIsNoStream
    <2>4. Holding' /\ UnknownBefore' /\ ClosedIsForgotten'
        BY <1>0, <2>1, <2>2
    <2>5. AnsweredIsForgotten'
        BY <1>0, <2>1, <2>2, <2>3 DEF Requests
    <2>6. NoLeakedEntry'
        BY <1>0, <2>1
    <2> QED BY <2>4, <2>5, <2>6
<1>3. CASE DeliverPanics(l) BY <1>0, <1>3 DEF DeliverPanics, loopVars
<1>4. CASE Forget(l)
    <2>1. cur[l].id \in Requests
        BY <1>4, HeldMessage DEF Forget
    <2> QED BY <1>0, <1>4, <1>t, <2>1 DEF Forget, Requests
<1>5. CASE ReceiveFails(l) BY <1>0, <1>5, <1>t DEF ReceiveFails
<1> QED BY <1>1, <1>2, <1>3, <1>4, <1>5 DEF LoopProgress

LEMMA OtherBookkeeping ==
    ASSUME IInv, Redial \/ MapRace \/ Break \/ \E r \in Requests : PeerReply(r)
    PROVE  Bookkeeping'
<1>0. TypeOK /\ Bookkeeping
    BY DEF IInv, Bookkeeping
<1> USE DEF Bookkeeping, Holding, UnknownBefore, ClosedIsForgotten,
            AnsweredIsForgotten, NoLeakedEntry, Handles, callerVars
<1> HIDE DEF IInv
<1>1. CASE Redial
    <2>1. /\ \A k \in Loops : loopAt'[k] \in {"deliver", "forget"}
                                \/ loopAt[k] \in {"deliver", "forget"}
                              => loopAt'[k] = loopAt[k]
          /\ UNCHANGED <<caller, pending, ch, closed, cur>>
        BY <1>0, <1>1 DEF Redial, Reconnect, ReconnectFails, Loops, TypeOK
    <2> QED BY <1>0, <2>1
<1>2. CASE MapRace BY <1>0, <1>2 DEF MapRace, loopVars
<1>3. CASE Break BY <1>0, <1>3 DEF Break, loopVars
<1>4. ASSUME NEW r \in Requests, PeerReply(r) PROVE Bookkeeping'
    BY <1>0, <1>4 DEF PeerReply, loopVars
<1> QED BY <1>1, <1>2, <1>3, <1>4

LEMMA UnfinishedStep == IInv /\ Next => Unfinished'
<1> SUFFICES ASSUME IInv, Next PROVE Unfinished'
    OBVIOUS
<1>0. TypeOK /\ Unfinished
    BY DEF IInv
<1>t. /\ DOMAIN caller = Requests
      /\ DOMAIN sent = Requests
    BY <1>0 DEF TypeOK
<1> USE DEF Unfinished, loopVars, netVars, callerVars
<1>1. ASSUME NEW r \in Requests, Register(r) \/ CallerProgress(r)
      PROVE  Unfinished'
    <2>1. CASE Transmit(r)
        <3>1. sent[r] = 0 /\ Total(r) \in Numbers
            BY <1>0, <2>1, TotalType DEF Transmit
        <3>2. sent[r] < Total(r)
            BY <3>1, ConnectionAssumption DEF Numbers
        <3> QED BY <1>0, <1>t, <2>1, <3>2 DEF Transmit, Total
    <2>2. CASE Register(r) BY <1>0, <1>t, <2>2 DEF Register, Total
    <2>3. CASE SendFails(r) BY <1>0, <1>t, <2>3 DEF SendFails, Total
    <2>4. CASE Take(r)
        <3>1. \A q \in Requests : caller'[q] \in {"new", "registered"}
                                  => caller'[q] = caller[q]
            BY <1>t, <2>4 DEF Take
        <3> QED BY <1>0, <2>4, <3>1 DEF Take, Total
    <2>5. CASE RangeEnds(r) BY <1>0, <1>t, <2>5 DEF RangeEnds, Total
    <2>6. CASE Timeout(r) BY <1>0, <1>t, <2>6 DEF Timeout, Total
    <2>7. CASE Expire(r) BY <1>0, <1>t, <2>7 DEF Expire, Total
    <2> QED BY <1>1, <2>1, <2>2, <2>3, <2>4, <2>5, <2>6, <2>7 DEF CallerProgress
<1>2. ASSUME NEW l \in Loops, LoopProgress(l) PROVE Unfinished'
    <2>1. UNCHANGED <<caller, serving, sent>>
        BY <1>2 DEF LoopProgress, Lookup, Deliver, DeliverPanics, Forget, ReceiveFails
    <2> QED BY <1>0, <2>1 DEF Total
<1>3. CASE Redial
    BY <1>0, <1>3 DEF Redial, Reconnect, ReconnectFails, Total
<1>4. CASE MapRace
    BY <1>0, <1>4 DEF MapRace, Total
<1>5. CASE Break
    BY <1>0, <1>5 DEF Break, Total
<1>6. ASSUME NEW r \in Requests, PeerReply(r) PROVE Unfinished'
    <2>1. /\ r \in serving
          /\ sent' = [sent EXCEPT ![r] = sent[r] + 1]
          /\ serving' = IF sent[r] + 1 = Total(r) THEN serving \ {r} ELSE serving
          /\ caller' = caller
        BY <1>6 DEF PeerReply
    <2>2. sent[r] < Total(r) /\ sent[r] \in Nat /\ Total(r) \in Nat
        <3>1. sent[r] < Total(r) /\ Total(r) \in Numbers
            BY <1>0, <2>1, TotalType
        <3> QED BY <2>1, <3>1, OneMore, ConnectionAssumption DEF Numbers
    <2>3. r \in serving' => sent[r] + 1 < Total(r)
        <3>1. r \in serving' => sent[r] + 1 # Total(r)
            BY <2>1
        <3> QED BY <2>2, <3>1
    <2>4. sent'[r] = sent[r] + 1
        BY <1>t, <2>1
    <2>5. \A q \in Requests : q # r => sent'[q] = sent[q]
        BY <1>t, <2>1
    <2> QED BY <1>0, <2>1, <2>3, <2>4, <2>5 DEF Total, TypeOK
<1> QED BY <1>1, <1>2, <1>3, <1>4, <1>5, <1>6 DEF Next, Environment

LEMMA StepInv == IInv /\ [Next]_vars => IInv'
<1> SUFFICES ASSUME IInv, [Next]_vars PROVE IInv'
    OBVIOUS
<1>1. CASE Next
    <2>1. TypeOK' /\ Bookkeeping'
        <3>1. ASSUME NEW r \in Requests, Register(r) \/ CallerProgress(r)
              PROVE  TypeOK' /\ Bookkeeping'
            BY <3>1, CallerType, CallerBookkeeping
        <3>2. ASSUME NEW l \in Loops, LoopProgress(l)
              PROVE  TypeOK' /\ Bookkeeping'
            BY <3>2, LoopType, LoopBookkeeping
        <3>3. ASSUME Redial \/ MapRace \/ Break \/ \E r \in Requests : PeerReply(r)
              PROVE  TypeOK' /\ Bookkeeping'
            BY <3>3, OtherType, OtherBookkeeping
        <3> HIDE DEF IInv
        <3> QED BY <1>1, <3>1, <3>2, <3>3 DEF Next, Environment
    <2>2. Unfinished'
        BY <1>1, UnfinishedStep
    <2> QED BY <2>1, <2>2 DEF IInv, Bookkeeping
<1>2. CASE UNCHANGED vars
    BY <1>2 DEF vars, IInv, TypeOK, Holding, Unfinished, UnknownBefore, Handles,
                ClosedIsForgotten, AnsweredIsForgotten, NoLeakedEntry, Total
<1> QED BY <1>1, <1>2

\* The inductive invariant holds in every reachable state.
THEOREM Invariance == Spec => []IInv
<1>1. Init => IInv
    BY InitInv
<1>2. IInv /\ [Next]_vars => IInv'
    BY StepInv
<1> QED BY <1>1, <1>2, PTL DEF Spec

\* Every variable of the connection keeps its type, whatever the requests, the
\* loops and the cuts are.
THEOREM TypeCorrect == Spec => []TypeOK
<1>1. IInv => TypeOK
    BY DEF IInv
<1> QED BY <1>1, Invariance, PTL

\* Connection.pending keeps no entry of a request that is over, except while a
\* receive loop is at its delete: SendRequest, SendRequestChan and the loops
\* delete all they register, in whatever order they run.
THEOREM NoLeak == Spec => []NoLeakedEntry
<1>1. IInv => NoLeakedEntry
    BY DEF IInv
<1> QED BY <1>1, Invariance, PTL
=============================================================================
