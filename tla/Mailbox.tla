------------------------------- MODULE Mailbox -------------------------------
(***************************************************************************)
(* What a service may rely on: a call posted to it is handled at most      *)
(* once, by an object offered under the name it asks for, and, where the   *)
(* transport keeps the order, never after a call posted later.  Any call   *)
(* may be lost.                                                            *)
(***************************************************************************)
EXTENDS Sequences, SequencesExt

CONSTANTS
    Calls,
    Objects,
    Addressed(_, _),   \* the call is for the name and port of the object
    InOrder(_, _)      \* two calls that share an ordered transport

VARIABLES
    posted,    \* every call posted, in the order of posting
    pending,   \* those neither handled nor lost
    offered,   \* objects that may be called
    handled    \* << call, object >>

vars == << posted, pending, offered, handled >>

Init == posted = << >> /\ pending = {} /\ offered = {} /\ handled = {}

Offer(o) ==
    /\ offered' = offered \cup {o}
    /\ UNCHANGED << posted, pending, handled >>

Post(c) ==
    /\ ~Contains(posted, c)
    /\ posted' = Append(posted, c)
    /\ pending' = pending \cup {c}
    /\ UNCHANGED << offered, handled >>

Lose(c) ==
    /\ c \in pending
    /\ pending' = pending \ {c}
    /\ UNCHANGED << posted, offered, handled >>

Before(d, c) ==
    \E i, j \in DOMAIN posted : i < j /\ posted[i] = d /\ posted[j] = c

Handle(c, o) ==
    /\ c \in pending /\ o \in offered /\ Addressed(c, o)
    /\ \A d \in pending : InOrder(d, c) => ~Before(d, c)
    /\ pending' = pending \ {c}
    /\ handled' = handled \cup {<< c, o >>}
    /\ UNCHANGED << posted, offered >>

Next ==
    \/ \E o \in Objects : Offer(o)
    \/ \E c \in Calls : Post(c) \/ Lose(c)
    \/ \E c \in Calls, o \in Objects : Handle(c, o)

Spec == Init /\ [][Next]_vars
=============================================================================
