------------------------------ MODULE Records ------------------------------
(***************************************************************************)
(* What an embedded store promises: its records change by whole operations *)
(* only.                                                                   *)
(***************************************************************************)
EXTENDS FiniteSets

CONSTANTS
    Puts,       \* maps that a put may write
    Removals,   \* sets of keys that a delete may name
    Contents    \* what it may hold at first

VARIABLE recs

Over(f, g) == [k \in DOMAIN f \cup DOMAIN g |-> IF k \in DOMAIN f THEN f[k] ELSE g[k]]

Put(f) == recs' = Over(f, recs)
PutAbsent(f) == recs' = Over(recs, f)
Remove(K) == recs' = [k \in DOMAIN recs \ K |-> recs[k]]

Init == recs \in Contents
Next ==
    \/ \E f \in Puts : Put(f) \/ PutAbsent(f)
    \/ \E K \in Removals : Remove(K)

Spec == Init /\ [][Next]_recs
=============================================================================
