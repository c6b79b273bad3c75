-------------------------------- MODULE Ring --------------------------------
(***************************************************************************)
(* The Ketama ring of HashLoadBalancing.  Node k is called "node" + k; its *)
(* i-th label is that name followed by i.  The MD5 of a label gives four   *)
(* points of a circle, place[label], and the ring is a TreeMap from points *)
(* to nodes.  Names and labels are what their numbers say: a name followed *)
(* by the digits of i is the number written that way.                      *)
(***************************************************************************)
EXTENDS Integers, FiniteSetsExt

CONSTANTS
    Copies,     \* labels of a node: 160 / 4 in the code
    Base,       \* 10: labels are written in decimal
    Size        \* points of the circle: 2^32 in the code

ASSUME RingAssumption ==
    /\ Base \in Nat \ {0, 1}
    /\ Copies \in 1 .. Base * Base
    /\ Size \in Nat \ {0}

Points == 0 .. Size - 1

(* Mutant: a name and a number are added instead of written one after the   *)
(* other.                                                                   *)
LabelAdded(k, i) == k + i

(* node.getName() + i; i has one digit or two.                              *)
Label(k, i) == IF i < Base THEN k * Base + i ELSE k * Base * Base + i

PointsOf(place, k) == UNION {place[Label(k, i)] : i \in 0 .. Copies - 1}

(* The first constructor argument of KetamaNodeLocator: a list of nodes.    *)
AllPoints(place, nodes) == UNION {PointsOf(place, nodes[j]) : j \in DOMAIN nodes}

(* The TreeMap: each point's node, by its index; a later put replaces.      *)
ketamaNodes(place, nodes) ==
    [p \in AllPoints(place, nodes) |->
        Max({j \in DOMAIN nodes : p \in PointsOf(place, nodes[j])})]

(* Mutant: past the last point the ring does not begin again.               *)
getNodeForKeyLast(ring, hash) ==
    LET tailMap == {p \in DOMAIN ring : p >= hash}
    IN  ring[IF tailMap = {} THEN Max(DOMAIN ring) ELSE Min(tailMap)]

(* The key itself when it is there, else the first key of the tail map,     *)
(* else the first key of all.                                               *)
getNodeForKey(ring, hash) ==
    LET tailMap == {p \in DOMAIN ring : p >= hash}
    IN  ring[IF tailMap = {} THEN Min(DOMAIN ring) ELSE Min(tailMap)]

-----------------------------------------------------------------------------
(* What a ring is for, without a map.                                       *)

Clockwise(h, p) == IF p >= h THEN p - h ELSE p - h + Size

(* The node j has the first point clockwise from h, and no later node has   *)
(* the same point.                                                          *)
IsSuccessor(place, nodes, h, j) ==
    \E p \in PointsOf(place, nodes[j]) :
        \A l \in DOMAIN nodes : \A q \in PointsOf(place, nodes[l]) :
            IF p = q THEN l <= j ELSE Clockwise(h, p) < Clockwise(h, q)

(* How many labels of a node still lead to it, once all nodes are put.      *)
LabelsKept(place, nodes, j) ==
    LET ring == ketamaNodes(place, nodes)
    IN  Cardinality({i \in 0 .. Copies - 1 :
            \A p \in place[Label(nodes[j], i)] : ring[p] = j})
=============================================================================
