------------------------------ MODULE MCBalance ------------------------------
(* A small circle for TLC: two digits, four labels to a node, three nodes.  *)
EXTENDS Balance

CONSTANTS c1, c2, s1, s2, s3

Labels == {Label(k, i) : k \in 1 .. MaxEntries, i \in 0 .. Copies - 1}

(* A hash that separates the labels, one that gives two points to each, and *)
(* ones under which labels meet.                                            *)
Hashes ==
    { [l \in Labels |-> {l}],
      [l \in Labels |-> {l, (7 * l + 5) % Size}],
      [l \in Labels |-> {(l * l) % Size}],
      [l \in Labels |-> {(l % 4) + 2}] }
=============================================================================
