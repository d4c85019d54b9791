--------------------------- MODULE StreamDelivery ---------------------------
(***************************************************************************)
(* What the system promises to a client, whatever lies between it and the  *)
(* microservice: the messages of its answer, each once, in order, and      *)
(* nothing after the last one.  A client may leave, and the system may     *)
(* give it up by closing its connection.                                   *)
(***************************************************************************)
EXTENDS Naturals, Sequences

CONSTANTS
    Clients,
    Length      \* Length[c]: the number of messages that answer c's request

VARIABLES
    delivered,  \* delivered[c]: the messages that reached the client
    session     \* session[c]: "open", "left" (by the client), "dropped"

deliveryVars == <<delivered, session>>

Init ==
    /\ delivered = [c \in Clients |-> <<>>]
    /\ session = [c \in Clients |-> "open"]

\* The next message of the answer reaches the client.
DeliverNext(c) ==
    /\ session[c] = "open"
    /\ Len(delivered[c]) < Length[c]
    /\ delivered' = [delivered EXCEPT ![c] = Append(@, Len(@) + 1)]
    /\ UNCHANGED session

Leave(c) ==
    /\ session[c] # "left"
    /\ session' = [session EXCEPT ![c] = "left"]
    /\ UNCHANGED delivered

\* The system closes the connection before it has delivered anything.
Drop(c) ==
    /\ session[c] = "open"
    /\ delivered[c] = <<>>
    /\ session' = [session EXCEPT ![c] = "dropped"]
    /\ UNCHANGED delivered

Next == \E c \in Clients : DeliverNext(c) \/ Leave(c) \/ Drop(c)

Spec == Init /\ [][Next]_deliveryVars
=============================================================================
