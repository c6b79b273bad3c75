------------------------------- MODULE MCStore -------------------------------
(* A few operations on three records for TLC: two batches that meet, one    *)
(* that does not overwrite, one with a null value, and what reads and       *)
(* removes them.                                                            *)
EXTENDS Store, TLC

CONSTANTS t1, t2, v1, v2

Op(kind, map, overwrite, num) ==
    [kind |-> kind, map |-> map, overwrite |-> overwrite, num |-> num]
Named(K) == [k \in K |-> None]

SomeOperations ==
    { Op("put", (1 :> v2) @@ (2 :> v2), TRUE, 0),
      Op("put", (2 :> v1) @@ (3 :> v1), TRUE, 0),
      Op("put", (1 :> v1) @@ (3 :> v2), FALSE, 0),
      Op("put", (2 :> v2) @@ (3 :> NoData), TRUE, 0),
      Op("delete", Named({1, 2}), FALSE, 0),
      Op("remove", Named({3}), FALSE, 0),
      Op("select", Named({}), FALSE, 0),
      Op("select", Named({}), FALSE, 1),
      Op("select", Named({}), FALSE, 2),
      Op("read", Named({2}), FALSE, 0) }

SomeContents == { Named({}), (1 :> v1) @@ (2 :> v1) @@ (3 :> v1) }
=============================================================================
