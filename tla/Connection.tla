----------------------------- MODULE Connection -----------------------------
(***************************************************************************)
(* internal/protocol/connection.go: one protocol.Connection as the process *)
(* that issues requests over it sees it.  Every goroutine of that process  *)
(* that touches the Connection is modelled: the callers of SendRequest     *)
(* (Calls) and of SendRequestChan (Streams), and the receive loops.  The   *)
(* peer answers every request it reads, in any order among requests (it    *)
(* starts a goroutine per message) and in order within one request.        *)
(*                                                                         *)
(* Sections under Connection.Mu are single steps.  The accesses to the     *)
(* pending map that the code makes WITHOUT Mu (the lookup of both loops    *)
(* and the delete of ReceiveLoop) race with them: Go's runtime may abort   *)
(* the process when they overlap, which is the step MapRace.               *)
(***************************************************************************)
EXTENDS Naturals, Sequences, FiniteSets

CONSTANTS
    Calls,          \* IDs of the requests issued with SendRequest
    Streams,        \* IDs of the requests issued with SendRequestChan
    FirstLoop,      \* the receive loop started with the connection
    SecondLoop,     \* TRUE when Node.HandShake starts a ReceiveLoop (api.go)
    StreamLen,      \* messages with IsStream = true that precede the last one
    MaxBreaks       \* bound: how often the TCP connection is cut

Loops == {"ReceiveLoop", "ReceiveLoopChan"}

ASSUME ConnectionAssumption ==
    /\ Calls \cap Streams = {}
    /\ FirstLoop \in Loops
    /\ SecondLoop \in BOOLEAN
    /\ StreamLen \in Nat
    /\ MaxBreaks \in Nat

Requests == Calls \cup Streams

VARIABLES
    caller,     \* caller[r]: how far the goroutine that issued r has come
    pending,    \* Connection.pending: the IDs that have a channel registered
    ch,         \* ch[r]: the messages buffered in the channel of r
    closed,     \* closed[r]: close(ch) was executed on the channel of r
    loopAt,     \* loopAt[l]: position of receive loop l
    cur,        \* cur[l]: the message receive loop l holds
    up,         \* the TCP connection is established
    breaks,     \* number of times it was cut
    serving,    \* requests on their way to the peer or being served by it
    sent,       \* sent[r]: how many messages the peer has sent for r
    wire,       \* messages on their way back, in order
    strays,     \* IDs of the replies handed to Node.AsyncEvent
    got,        \* got[r]: what the caller of r took out of its channel
    crash       \* why the process aborted, or "none"

vars == <<caller, pending, ch, closed, loopAt, cur, up, breaks, serving, sent,
          wire, strays, got, crash>>

callerVars == <<caller, got>>
loopVars   == <<loopAt, cur, strays>>
netVars    == <<up, breaks, serving, sent, wire>>

-----------------------------------------------------------------------------
\* The number of messages that answer request r.
Total(r) == IF r \in Calls THEN 1 ELSE StreamLen + 1

Numbers == 1..(StreamLen + 1)

Messages == [id : Requests, n : Numbers]

\* Mutants of the two definitions that follow: an unbuffered channel, and
\* IsStream already false one message early.
UnbufferedChan == 0
IsStreamOffByOne(m) == m.n + 1 < Total(m.id)

\* Message.IsStream is false on the last message of an answer only.
IsStream(m) == m.n < Total(m.id)

\* make(chan Message, 1)
ChanCap == 1

NoMessage == [id |-> "none", n |-> 0]

Init ==
    /\ caller = [r \in Requests |-> "new"]
    /\ pending = {}
    /\ ch = [r \in Requests |-> <<>>]
    /\ closed = [r \in Requests |-> FALSE]
    /\ loopAt = [l \in Loops |-> IF l = FirstLoop THEN "read" ELSE "off"]
    /\ cur = [l \in Loops |-> NoMessage]
    /\ up = TRUE
    /\ breaks = 0
    /\ serving = {}
    /\ sent = [r \in Requests |-> 0]
    /\ wire = <<>>
    /\ strays = {}
    /\ got = [r \in Requests |-> <<>>]
    /\ crash = "none"

-----------------------------------------------------------------------------
(* Mutants: the bugs the properties below are known to catch.               *)

\* One pending slot instead of a map of them.
RegisterSingleSlot(r) ==
    /\ caller[r] = "new"
    /\ caller' = [caller EXCEPT ![r] = "registered"]
    /\ pending' = {r}
    /\ UNCHANGED <<ch, closed, loopVars, netVars, got, crash>>

\* SendRequestChan returns the error and forgets to delete its entry.
SendFailsLeaking(r) ==
    /\ r \in Streams
    /\ caller[r] = "registered"
    /\ ~up
    /\ caller' = [caller EXCEPT ![r] = "failed"]
    /\ closed' = [closed EXCEPT ![r] = TRUE]
    /\ UNCHANGED <<pending, ch, loopVars, netVars, got, crash>>

\* SendRequest without the time.After case.
NeverTimeout(r) == FALSE /\ caller[r] = "waiting" /\ UNCHANGED vars

\* SendRequest without the delete after its timeout.
ExpireLeaking(r) ==
    /\ caller[r] = "expired"
    /\ caller' = [caller EXCEPT ![r] = "timedout"]
    /\ UNCHANGED <<pending, ch, closed, loopVars, netVars, got, crash>>

\* A select with a default case: the loop drops what does not fit.
DeliverDropping(l) ==
    /\ loopAt[l] = "deliver"
    /\ LET m == cur[l]
       IN /\ ~closed[m.id]
          /\ ch' = IF Len(ch[m.id]) < ChanCap
                   THEN [ch EXCEPT ![m.id] = Append(@, m.n)] ELSE ch
          /\ loopAt' = [loopAt EXCEPT ![l] =
                IF l = "ReceiveLoop" \/ ~IsStream(m) THEN "forget" ELSE "read"]
    /\ UNCHANGED <<callerVars, pending, closed, cur, netVars, strays, crash>>

\* ReceiveLoopChan deletes the entry and forgets close(ch).
ForgetWithoutClose(l) ==
    /\ loopAt[l] = "forget"
    /\ pending' = pending \ {cur[l].id}
    /\ loopAt' = [loopAt EXCEPT ![l] = "read"]
    /\ cur' = [cur EXCEPT ![l] = NoMessage]
    /\ UNCHANGED <<callerVars, ch, closed, netVars, strays, crash>>

\* The peer's loop runs once more: i <= 10.
PeerReplyOffByOne(r) ==
    /\ r \in serving
    /\ up
    /\ sent' = [sent EXCEPT ![r] = @ + 1]
    /\ wire' = Append(wire, [id |-> r, n |-> sent[r] + 1])
    /\ serving' = IF sent[r] + 1 > Total(r) THEN serving \ {r} ELSE serving
    /\ UNCHANGED <<callerVars, pending, ch, closed, loopVars, up, breaks, crash>>

-----------------------------------------------------------------------------
(* SendRequest and SendRequestChan, the goroutine that issues request r.   *)

\* First section under Mu: the channel is registered before anything is sent.
Register(r) ==
    /\ caller[r] = "new"
    /\ caller' = [caller EXCEPT ![r] = "registered"]
    /\ pending' = pending \cup {r}
    /\ UNCHANGED <<ch, closed, loopVars, netVars, got, crash>>

\* Second section under Mu: Send.  A write to a connection that is already
\* cut may still succeed locally; the request is then lost.
Transmit(r) ==
    /\ caller[r] = "registered"
    /\ caller' = [caller EXCEPT ![r] = "waiting"]
    /\ serving' = IF up THEN serving \cup {r} ELSE serving
    /\ UNCHANGED <<pending, ch, closed, loopVars, up, breaks, sent, wire, got, crash>>

\* Send fails: SendRequestChan deletes the entry, closes the channel and
\* returns the error (SendRequest ignores the error and waits).
SendFails(r) ==
    /\ r \in Streams
    /\ caller[r] = "registered"
    /\ ~up
    /\ caller' = [caller EXCEPT ![r] = "failed"]
    /\ pending' = pending \ {r}
    /\ closed' = [closed EXCEPT ![r] = TRUE]
    /\ UNCHANGED <<ch, loopVars, netVars, got, crash>>

\* A receive from the channel: SendRequest returns with it, the reader of a
\* SendRequestChan channel goes on ranging over it.
Take(r) ==
    /\ caller[r] = "waiting"
    /\ ch[r] # <<>>
    /\ got' = [got EXCEPT ![r] = Append(@, Head(ch[r]))]
    /\ ch' = [ch EXCEPT ![r] = Tail(@)]
    /\ caller' = IF r \in Calls THEN [caller EXCEPT ![r] = "done"] ELSE caller
    /\ UNCHANGED <<pending, closed, loopVars, netVars, crash>>

\* The range over the channel of a SendRequestChan ends: closed and drained.
RangeEnds(r) ==
    /\ r \in Streams
    /\ caller[r] = "waiting"
    /\ ch[r] = <<>>
    /\ closed[r]
    /\ caller' = [caller EXCEPT ![r] = "done"]
    /\ UNCHANGED <<pending, ch, closed, loopVars, netVars, got, crash>>

\* The five seconds of SendRequest are over; select may choose this case even
\* when a reply is in the channel.
Timeout(r) ==
    /\ r \in Calls
    /\ caller[r] = "waiting"
    /\ caller' = [caller EXCEPT ![r] = "expired"]
    /\ UNCHANGED <<pending, ch, closed, loopVars, netVars, got, crash>>

\* Third section under Mu: a timed-out SendRequest takes its entry out.
Expire(r) ==
    /\ caller[r] = "expired"
    /\ caller' = [caller EXCEPT ![r] = "timedout"]
    /\ pending' = pending \ {r}
    /\ UNCHANGED <<ch, closed, loopVars, netVars, got, crash>>

-----------------------------------------------------------------------------
(* ReceiveLoop and ReceiveLoopChan.                                        *)

\* A message is read and looked up: a registered ID goes to its channel, any
\* other message to Node.AsyncEvent in a goroutine of its own.
Lookup(l) ==
    /\ loopAt[l] = "read"
    /\ wire # <<>>
    /\ wire' = Tail(wire)
    /\ LET m == Head(wire)
       IN IF m.id \in pending
          THEN /\ cur' = [cur EXCEPT ![l] = m]
               /\ loopAt' = [loopAt EXCEPT ![l] = "deliver"]
               /\ UNCHANGED strays
          ELSE /\ strays' = strays \cup {m.id}
               /\ UNCHANGED <<cur, loopAt>>
    /\ UNCHANGED <<callerVars, pending, ch, closed, up, breaks, serving, sent, crash>>

\* ch <- msg blocks while the buffer is full.  ReceiveLoop forgets the ID
\* after one message, ReceiveLoopChan after the one that is not IsStream.
Deliver(l) ==
    /\ loopAt[l] = "deliver"
    /\ LET m == cur[l]
       IN /\ ~closed[m.id]
          /\ Len(ch[m.id]) < ChanCap
          /\ ch' = [ch EXCEPT ![m.id] = Append(@, m.n)]
          /\ loopAt' = [loopAt EXCEPT ![l] =
                IF l = "ReceiveLoop" \/ ~IsStream(m) THEN "forget" ELSE "read"]
    /\ UNCHANGED <<callerVars, pending, closed, cur, netVars, strays, crash>>

\* A send on a closed channel panics.
DeliverPanics(l) ==
    /\ loopAt[l] = "deliver"
    /\ closed[cur[l].id]
    /\ crash' = "send on closed channel"
    /\ UNCHANGED <<callerVars, pending, ch, closed, loopVars, netVars>>

\* delete(c.pending, msg.ID), and close(ch) in ReceiveLoopChan.
Forget(l) ==
    /\ loopAt[l] = "forget"
    /\ pending' = pending \ {cur[l].id}
    /\ closed' = IF l = "ReceiveLoopChan"
                 THEN [closed EXCEPT ![cur[l].id] = TRUE] ELSE closed
    /\ loopAt' = [loopAt EXCEPT ![l] = "read"]
    /\ cur' = [cur EXCEPT ![l] = NoMessage]
    /\ UNCHANGED <<callerVars, ch, netVars, strays, crash>>

\* Receive fails once the connection is cut and what had arrived is read:
\* ReceiveLoop returns, ReceiveLoopChan tries to reconnect.
ReceiveFails(l) ==
    /\ loopAt[l] = "read"
    /\ wire = <<>>
    /\ ~up
    /\ loopAt' = [loopAt EXCEPT ![l] =
                    IF l = "ReceiveLoop" THEN "dead" ELSE "reconnect"]
    /\ UNCHANGED <<callerVars, pending, ch, closed, cur, netVars, strays, crash>>

\* tryToReconnect swaps Nc and RW; Node.HandShake follows.  The pending map
\* is kept as it is.  The API's HandShake starts a second loop.
Reconnect ==
    /\ loopAt["ReceiveLoopChan"] = "reconnect"
    /\ up' = TRUE
    /\ loopAt' = [loopAt EXCEPT !["ReceiveLoopChan"] = "read",
                                !["ReceiveLoop"] = IF SecondLoop /\ @ = "off"
                                                   THEN "read" ELSE @]
    /\ UNCHANGED <<callerVars, pending, ch, closed, cur, breaks, serving, sent,
                   wire, strays, crash>>

\* TryToConnect gives up after ten seconds and the loop returns.
ReconnectFails ==
    /\ loopAt["ReceiveLoopChan"] = "reconnect"
    /\ loopAt' = [loopAt EXCEPT !["ReceiveLoopChan"] = "dead"]
    /\ UNCHANGED <<callerVars, pending, ch, closed, cur, netVars, strays, crash>>

-----------------------------------------------------------------------------
(* The Go runtime: "concurrent map read and map write".                    *)

\* A caller about to write the map; it holds Mu while it does.
CallerWrites ==
    \E r \in Requests :
        \/ caller[r] \in {"new", "expired"}
        \/ r \in Streams /\ caller[r] = "registered" /\ ~up

\* Loop l is about to touch the map without Mu.
UnlockedAccess(l) ==
    \/ loopAt[l] = "read" /\ wire # <<>>
    \/ l = "ReceiveLoop" /\ loopAt[l] = "forget"

\* An access without Mu overlaps a write by another goroutine.
MapRace ==
    /\ crash = "none"
    /\ \E l \in Loops :
         /\ UnlockedAccess(l)
         /\ CallerWrites \/ \E k \in Loops \ {l} : loopAt[k] = "forget"
    /\ crash' = "concurrent map access"
    /\ UNCHANGED <<callerVars, pending, ch, closed, loopVars, netVars>>

-----------------------------------------------------------------------------
(* The other end and the network.                                          *)

\* The peer sends the next message that answers r.
PeerReply(r) ==
    /\ r \in serving
    /\ up
    /\ sent' = [sent EXCEPT ![r] = @ + 1]
    /\ wire' = Append(wire, [id |-> r, n |-> sent[r] + 1])
    /\ serving' = IF sent[r] + 1 = Total(r) THEN serving \ {r} ELSE serving
    /\ UNCHANGED <<callerVars, pending, ch, closed, loopVars, up, breaks, crash>>

\* The connection is cut; any suffix of what is in flight is lost, and so is
\* what the peer is serving for it: a load balancer answers over the connection
\* that asked (module Forwarding has the microservice, which does not).
Break ==
    /\ up
    /\ breaks < MaxBreaks
    /\ up' = FALSE
    /\ breaks' = breaks + 1
    /\ serving' = {}
    /\ \E k \in 0..Len(wire) : wire' = SubSeq(wire, 1, k)
    /\ UNCHANGED <<callerVars, pending, ch, closed, loopVars, sent, crash>>

-----------------------------------------------------------------------------
\* What the goroutine of an issued request does.
CallerProgress(r) ==
    /\ crash = "none"
    /\ \/ Transmit(r) \/ SendFails(r) \/ Take(r) \/ RangeEnds(r)
       \/ Timeout(r) \/ Expire(r)

LoopProgress(l) ==
    /\ crash = "none"
    /\ Lookup(l) \/ Deliver(l) \/ DeliverPanics(l) \/ Forget(l) \/ ReceiveFails(l)

Redial == crash = "none" /\ (Reconnect \/ ReconnectFails)

Environment ==
    /\ crash = "none"
    /\ \/ \E r \in Requests : Register(r) \/ PeerReply(r)
       \/ Break

Next ==
    \/ \E r \in Requests : CallerProgress(r)
    \/ \E l \in Loops : LoopProgress(l)
    \/ Redial
    \/ MapRace
    \/ Environment

Spec == Init /\ [][Next]_vars

\* The Go scheduler runs every goroutine that can run, the five-second timer
\* fires, and a peer that is connected answers what it has read.
Fairness ==
    /\ \A r \in Requests : WF_vars(CallerProgress(r))
    /\ \A l \in Loops : WF_vars(LoopProgress(l))
    /\ WF_vars(Redial)
    /\ \A r \in Requests : WF_vars(crash = "none" /\ PeerReply(r))

FairSpec == Spec /\ Fairness

-----------------------------------------------------------------------------
TypeOK ==
    /\ caller \in [Requests -> {"new", "registered", "waiting", "expired",
                                "timedout", "failed", "done"}]
    /\ pending \subseteq Requests
    /\ ch \in [Requests -> Seq(Numbers)]
    /\ closed \in [Requests -> BOOLEAN]
    /\ loopAt \in [Loops -> {"off", "read", "deliver", "forget", "reconnect", "dead"}]
    /\ cur \in [Loops -> Messages \cup {NoMessage}]
    /\ up \in BOOLEAN
    /\ breaks \in 0..MaxBreaks
    /\ serving \subseteq Requests
    /\ sent \in [Requests -> Numbers \cup {0}]
    /\ wire \in Seq(Messages)
    /\ strays \subseteq Requests
    /\ got \in [Requests -> Seq(Numbers)]
    /\ crash \in {"none", "concurrent map access", "send on closed channel"}

\* A reply reaches Node.AsyncEvent, where it would be taken for a request of
\* the peer, only when its SendRequest has timed out and removed its entry:
\* an open request never loses its reply that way (order of the sections of
\* SendRequest, deletes of the two loops).
StrayOnlyAfterGivingUp ==
    \A r \in strays : r \in Calls /\ caller[r] = "timedout"

\* The pending map does not grow for ever: an entry belongs to a request that
\* is still open, or to one a receive loop is just about to delete.
NoLeakedEntry ==
    \A r \in pending :
        \/ caller[r] \in {"registered", "waiting", "expired"}
        \/ \E l \in Loops : loopAt[l] = "forget" /\ cur[l].id = r

\* A reply to SendRequest never blocks the receive loop, and with it every
\* other request and the heartbeats, although nobody may be left to take it
\* after a timeout: the buffer of one message is enough.
CallNeverBlocksLoop ==
    \A l \in Loops :
        loopAt[l] = "deliver" /\ cur[l].id \in Calls
            => Len(ch[cur[l].id]) < ChanCap /\ ~closed[cur[l].id]

\* What a caller has taken is a prefix of what the peer sent for its request:
\* nothing dropped, doubled or out of order.
TakenInOrder ==
    \A r \in Requests : got[r] = [i \in 1..Len(got[r]) |-> i]

\* Every SendRequest that was issued returns, whatever happens to the
\* connection and to the loop.
CallsReturn ==
    \A r \in Calls :
        caller[r] = "registered" ~> (caller[r] \in {"done", "timedout"} \/ crash # "none")

\* Once the peer has begun to serve a SendRequestChan, the range over its
\* channel ends, unless the connection is cut first: the channel is closed, and
\* a cut in the past, whose requests are still in the pending map and are never
\* answered, does not hold up what is asked over the new connection.
StreamsEnd ==
    \A r \in Streams :
        r \in serving ~> (caller[r] = "done" \/ ~up \/ crash # "none")
=============================================================================
