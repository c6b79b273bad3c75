-------------------------------- MODULE Relay --------------------------------
(***************************************************************************)
(* What the delayed-data pipeline promises: a packet it accepts stays in   *)
(* its hands until the consumer has been given it, once or more often.     *)
(***************************************************************************)
CONSTANT Packets

VARIABLES
    held,       \* packets the pipeline answers for
    delivered   \* packets the consumer was given

vars == << held, delivered >>

Init == held = {} /\ delivered = {}

Accept(p) ==
    /\ p \notin held \cup delivered
    /\ held' = held \cup {p}
    /\ UNCHANGED delivered

(* The pipeline may still keep what it has delivered ... *)
Deliver(p) ==
    /\ p \in held
    /\ delivered' = delivered \cup {p}
    /\ held' \in {held, held \ {p}}

(* ... and lets go of nothing else. *)
Release(P) ==
    /\ P \subseteq held \cap delivered
    /\ held' = held \ P
    /\ UNCHANGED delivered

Next ==
    \/ \E p \in Packets : Accept(p) \/ Deliver(p)
    \/ \E P \in SUBSET Packets : Release(P)

Spec == Init /\ [][Next]_vars
=============================================================================
