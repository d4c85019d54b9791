--------------------------- MODULE ServiceCatalog ---------------------------
(***************************************************************************)
(* What the system promises about the services it offers: a type is        *)
(* advertised to those who serve clients only after it was recorded, and   *)
(* recorded only after the load balancer confirmed that it has one.  What  *)
(* is recorded stays recorded; who was told may forget, and be told again. *)
(***************************************************************************)
CONSTANT Kinds      \* types of services

VARIABLES
    confirmed,      \* types a load balancer has confirmed
    recorded,       \* types the controller has recorded
    advertised      \* types the gateway knows of

catalogVars == <<confirmed, recorded, advertised>>

Init == confirmed = {} /\ recorded = {} /\ advertised = {}

Confirm(t) ==
    /\ confirmed' = confirmed \cup {t}
    /\ UNCHANGED <<recorded, advertised>>

Record(t) ==
    /\ t \in confirmed
    /\ recorded' = recorded \cup {t}
    /\ UNCHANGED <<confirmed, advertised>>

\* The gateway is told what was recorded at some time before.
Advertise(S) ==
    /\ S \subseteq recorded
    /\ advertised' = S
    /\ UNCHANGED <<confirmed, recorded>>

Next ==
    \/ \E t \in Kinds : Confirm(t) \/ Record(t)
    \/ \E S \in SUBSET Kinds : Advertise(S)

Spec == Init /\ [][Next]_catalogVars
=============================================================================
