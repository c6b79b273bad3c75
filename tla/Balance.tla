------------------------------ MODULE Balance ------------------------------
(***************************************************************************)
(* Choosing one of the services of a name.  InitPlugin.GetCur copies the   *)
(* table's list, which grows meanwhile, and has cirALL choose: a lookup    *)
(* writes the list's size to the static NODE_COUNT, reads it again for the *)
(* number of nodes, gives each node an element of its list, builds a ring  *)
(* of them and asks it for the node of a random key.  Calling threads do   *)
(* this at the same time.                                                  *)
(***************************************************************************)
EXTENDS Ring, Sequences

CONSTANTS
    Callers,
    Services,
    Placements,     \* the functions from labels to points that MD5 may be
    MaxEntries,     \* bound: entries of the name in the table
    None

ASSUME BalanceAssumption ==
    /\ None \notin Services
    /\ MaxEntries \in Nat
    /\ \A place \in Placements : \A k \in 1 .. MaxEntries, i \in 0 .. Copies - 1 :
          /\ Label(k, i) \in DOMAIN place
          /\ place[Label(k, i)] \in (SUBSET Points) \ {{}}

VARIABLES
    place,          \* the hash, the same for ever
    table,          \* the ArrayList of the name
    NODE_COUNT,
    lookup,         \* of a thread: pc, its copy listData, its nodes
    found,          \* what its last lookup gave it
    crossed         \* history: another lookup wrote NODE_COUNT after its own

vars == << place, table, NODE_COUNT, lookup, found, crossed >>

Idle == [pc |-> "idle", listData |-> << >>, allNodes |-> << >>]

Init ==
    /\ place \in Placements
    /\ table = << >>
    /\ NODE_COUNT = 5
    /\ lookup = [c \in Callers |-> Idle]
    /\ found = [c \in Callers |-> None]
    /\ crossed = {}

Ready(c) == lookup[c].pc \in {"idle", "failed"}

(* ServerInfoSave.Add, from another thread: it only appends, and the same   *)
(* service may come again.                                                  *)
Add(s) ==
    /\ Len(table) < MaxEntries
    /\ table' = Append(table, s)
    /\ UNCHANGED << place, NODE_COUNT, lookup, found, crossed >>

(* InitPlugin.GetCur: no entry, one, or more.  The list only grows, so that *)
(* two calls of size() and toArray() are as one.                            *)
GetCur(c) ==
    /\ Ready(c)
    /\ IF Len(table) < 2
       THEN /\ found' = [found EXCEPT ![c] = IF table = << >> THEN None ELSE table[1]]
            /\ lookup' = [lookup EXCEPT ![c] = Idle]
       ELSE /\ lookup' = [lookup EXCEPT ![c] =
                  [pc |-> "count", listData |-> table, allNodes |-> << >>]]
            /\ UNCHANGED found
    /\ UNCHANGED << place, table, NODE_COUNT, crossed >>

Counted(c) ==
    /\ lookup[c].pc = "count"
    /\ lookup' = [lookup EXCEPT ![c].pc = "nodes"]
    /\ crossed' = (crossed \ {c}) \cup {d \in Callers \ {c} : lookup[d].pc = "nodes"}
    /\ UNCHANGED << place, table, found >>

(* Mutant of SetCount: the count stays what it was.                         *)
SetCountNot(c) == Counted(c) /\ UNCHANGED NODE_COUNT

SetCount(c) == Counted(c) /\ NODE_COUNT' = Len(lookup[c].listData)

(* Mutant: the names count down.                                            *)
getNodesDown(n) == [k \in 1 .. n |-> n + 1 - k]

(* "node" + k, for k from 1.                                                *)
getNodes(n) == [k \in 1 .. n |-> k]

(* Mutant: the exception is caught inside the loop.                         *)
FillNodesOn(c) ==
    /\ lookup[c].pc = "nodes"
    /\ lookup' = [lookup EXCEPT ![c] =
          [@ EXCEPT !.pc = "choose", !.allNodes = getNodes(NODE_COUNT)]]
    /\ UNCHANGED << place, table, NODE_COUNT, found, crossed >>

(* The loop gives each node its element; when there are more nodes than     *)
(* elements, IndexOutOfBoundsException leaves cirALL and CastObj.           *)
FillNodes(c) ==
    /\ lookup[c].pc = "nodes"
    /\ lookup' = [lookup EXCEPT ![c] =
          IF NODE_COUNT > Len(@.listData)
          THEN [Idle EXCEPT !.pc = "failed"]
          ELSE [@ EXCEPT !.pc = "choose", !.allNodes = getNodes(NODE_COUNT)]]
    /\ UNCHANGED << place, table, NODE_COUNT, found, crossed >>

(* Mutant of GetCurNode: the elements are numbered from zero.               *)
GetCurNodeOff(c, hash) ==
    LET ring == ketamaNodes(place, lookup[c].allNodes)
        l == lookup[c].listData
        j == getNodeForKey(ring, hash) + 1
    IN  IF j \in DOMAIN l THEN l[j] ELSE None

(* The first key of a hundred thousand decides.                             *)
GetCurNode(c, hash) ==
    lookup[c].listData[getNodeForKey(ketamaNodes(place, lookup[c].allNodes), hash)]

Choose(c) ==
    /\ lookup[c].pc = "choose"
    /\ \E hash \in Points : found' = [found EXCEPT ![c] = GetCurNode(c, hash)]
    /\ lookup' = [lookup EXCEPT ![c] = Idle]
    /\ UNCHANGED << place, table, NODE_COUNT, crossed >>

Next ==
    \/ \E s \in Services : Add(s)
    \/ \E c \in Callers : GetCur(c) \/ SetCount(c) \/ FillNodes(c) \/ Choose(c)

Spec == Init /\ [][Next]_vars

-----------------------------------------------------------------------------
(* Types, and no ring has more nodes than there are services for them.      *)
TypeOK ==
    /\ place \in Placements
    /\ table \in Seq(Services) /\ Len(table) <= MaxEntries
    /\ NODE_COUNT \in Nat
    /\ \A c \in Callers :
          /\ lookup[c].pc \in {"idle", "count", "nodes", "choose", "failed"}
          /\ lookup[c].listData \in Seq(Services)
          /\ lookup[c].allNodes \in Seq(Nat)
          /\ Len(lookup[c].allNodes) <= Len(lookup[c].listData)
    /\ found \in [Callers -> Services \cup {None}]
    /\ crossed \subseteq Callers

(* Whatever another thread makes of the count, a lookup that ends gives its *)
(* thread a service of the list it copied, and none only of an empty one    *)
(* (cirALL.java:36-50).                                                     *)
OwnService ==
    [][\A c \in Callers :
          /\ Choose(c) => found'[c] \in {lookup[c].listData[i] : i \in DOMAIN lookup[c].listData}
          /\ GetCur(c) /\ found'[c] = None => found[c] = None \/ table = << >>]_vars

(* A lookup fails only when another one wrote the count between its own     *)
(* write and its read (cirALL.java:33-34).                                  *)
FailsOnlyCrossed ==
    [][\A c \in Callers :
          lookup[c].pc = "nodes" /\ lookup'[c].pc = "failed" => c \in crossed]_vars

(* The next three are about the ring alone, hence about the hash: one state *)
(* for each is enough.                                                      *)
Unused == table = << >> /\ lookup = [c \in Callers |-> Idle]

(* The ring's answer is the next point clockwise, and of two nodes there    *)
(* the later (KetamaNodeLocator.java:25-31, 42-62).                         *)
ClockwiseNext ==
    Unused => \A n \in 1 .. MaxEntries, h \in Points :
        IsSuccessor(place, getNodes(n), h, getNodeForKey(ketamaNodes(place, getNodes(n)), h))

(* A service added at the end of the list takes keys over and moves no      *)
(* other: the "added case" that HashAlgorithmPercentTest.java:37-52         *)
(* measures.                                                                *)
Consistent ==
    Unused => \A n \in 1 .. MaxEntries - 1, h \in Points :
        getNodeForKey(ketamaNodes(place, getNodes(n + 1)), h)
            \in {getNodeForKey(ketamaNodes(place, getNodes(n)), h), n + 1}

(* With a hash that separates all labels, up to ten services keep every     *)
(* label of theirs.  From the eleventh on "node1" + "10" and "node11" + "0" *)
(* are one label, which the later service takes                             *)
(* (KetamaNodeLocator.java:26), but each keeps its labels of one digit.     *)
(* Where on the circle the labels' points are is the hash's affair: how     *)
(* much of it each service has, this does not say.                          *)
Separates ==
    \A l, m \in DOMAIN place : l # m => place[l] \cap place[m] = {}
LabelsStay ==
    Unused /\ Separates => \A n \in 1 .. MaxEntries : \A j \in 1 .. n :
        LabelsKept(place, getNodes(n), j) >= IF n <= Base THEN Copies ELSE Min({Base, Copies})
=============================================================================
