------------------------------ MODULE Directory ------------------------------
(***************************************************************************)
(* What service discovery promises: a process only ever learns of services *)
(* that were registered and keeps them in the order it learnt of them.  It *)
(* never forgets one and never displaces one, but it may learn of the same *)
(* service again and then has it once more: every notice and every answer  *)
(* that names a service adds it.  The proxy a call obtains is for one of   *)
(* the services its process has under the asked name; it gets none only    *)
(* when there is none.                                                     *)
(***************************************************************************)
EXTENDS Sequences

CONSTANTS Jvms, Callers, Services, Names, NameOf, JvmOf, None

VARIABLES
    registered, \* services that were announced
    known,      \* known[j][n]: what process j has under name n, oldest first
    asked,      \* the name each caller asked for last
    found       \* what each caller's last lookup gave it

vars == << registered, known, asked, found >>

Init ==
    /\ registered = {}
    /\ known = [j \in Jvms |-> [n \in Names |-> << >>]]
    /\ asked = [c \in Callers |-> None]
    /\ found = [c \in Callers |-> None]

Register(s) ==
    /\ s \notin registered
    /\ registered' = registered \cup {s}
    /\ UNCHANGED << known, asked, found >>

Learn(j, s) ==
    /\ s \in registered
    /\ known' = [known EXCEPT ![j][NameOf[s]] = Append(@, s)]
    /\ UNCHANGED << registered, asked, found >>

Ask(c, n) ==
    /\ asked' = [asked EXCEPT ![c] = n]
    /\ UNCHANGED << registered, known, found >>

Find(c) ==
    /\ asked[c] # None
    /\ LET listed == known[JvmOf[c]][asked[c]] IN
       \/ listed = << >> /\ found' = [found EXCEPT ![c] = None]
       \/ \E i \in DOMAIN listed : found' = [found EXCEPT ![c] = listed[i]]
    /\ UNCHANGED << registered, known, asked >>

Next ==
    \/ \E s \in Services : Register(s)
    \/ \E j \in Jvms, s \in Services : Learn(j, s)
    \/ \E c \in Callers : Find(c) \/ \E n \in Names : Ask(c, n)

Spec == Init /\ [][Next]_vars
=============================================================================
