--------------------------- MODULE BalanceProofs ---------------------------
(***************************************************************************)
(* What holds of the ring and of the lookups that share NODE_COUNT, for    *)
(* every hash, size of the circle, number of labels, threads and entries.  *)
(***************************************************************************)
EXTENDS Balance, FiniteSetTheorems, WellFoundedInduction, TLAPS

(* A set of points has a first and a set of indices a last.                 *)
LEMMA MinOfPoints ==
  ASSUME NEW S \in SUBSET Nat, S # {}
  PROVE  /\ Min(S) \in S
         /\ \A y \in S : Min(S) <= y
  <1> DEFINE R == OpToRel(<, Nat)
  <1>1. IsWellFoundedOn(R, Nat)
    BY NatLessThanWellFounded DEF OpToRel
  <1>2. R = {ss \in Nat \X Nat : ss[1] < ss[2]}
    BY DEF OpToRel
  <1> HIDE DEF R
  <1>3. PICK x \in S : \A y \in S : ~ (<< y, x >> \in R)
    BY <1>1, WFMin
  <1>4. ASSUME NEW y \in S PROVE x <= y
    <2>1. x \in Nat /\ y \in Nat
      OBVIOUS
    <2> DEFINE p == << y, x >>
    <2>2. p \in Nat \X Nat /\ p[1] = y /\ p[2] = x
      BY <2>1
    <2>3. p \notin R
      BY <1>3
    <2> HIDE DEF p
    <2>4. ~ (p[1] < p[2])
      BY <1>2, <2>2, <2>3
    <2> QED BY <2>1, <2>2, <2>4
  <1>5. \E z \in S : \A y \in S : z <= y
    BY <1>4
  <1> QED BY <1>5, Zenon DEF Min

LEMMA MaxOfIndices ==
  ASSUME NEW n \in Nat, NEW S \in SUBSET (1 .. n), S # {}
  PROVE  /\ Max(S) \in S
         /\ \A y \in S : Max(S) >= y
  <1> DEFINE T == {i \in 0 .. n : n - i \in S}
  <1>1. T \in SUBSET Nat /\ T # {}
    <2>1. PICK y \in S : TRUE
      OBVIOUS
    <2>2. n - y \in T
      BY <2>1
    <2>3. T \subseteq Nat
      OBVIOUS
    <2> HIDE DEF T
    <2> QED BY <2>2, <2>3
  <1>2. Min(T) \in T /\ \A y \in T : Min(T) <= y
    <2> HIDE DEF T
    <2> QED BY <1>1, MinOfPoints
  <1> DEFINE x == n - Min(T)
  <1>3. x \in S /\ \A i \in T : x >= n - i
    BY <1>2
  <1>4. ASSUME NEW y \in S PROVE x >= y
    <2>1. n - y \in T /\ n - (n - y) = y
      OBVIOUS
    <2> QED BY <1>3, <2>1
  <1>5. \E z \in S : \A y \in S : z >= y
    <2> HIDE DEF x
    <2> QED BY <1>3, <1>4
  <1> QED BY <1>5, Zenon DEF Max

-----------------------------------------------------------------------------
(* The ring of the nodes 1 .. n: each point has its last node.              *)
LEMMA NodePoints ==
  ASSUME NEW P \in Placements, NEW n \in 1 .. MaxEntries
  PROVE  /\ DOMAIN getNodes(n) = 1 .. n
         /\ \A k \in 1 .. n : getNodes(n)[k] = k
         /\ \A k \in 1 .. n : PointsOf(P, k) \in (SUBSET Points) \ {{}}
  <1>1. ASSUME NEW k \in 1 .. n
        PROVE  PointsOf(P, k) \in (SUBSET Points) \ {{}}
    <2>1. k \in 1 .. MaxEntries
      BY BalanceAssumption
    <2>2. \A i \in 0 .. Copies - 1 : P[Label(k, i)] \in (SUBSET Points) \ {{}}
      BY <2>1, BalanceAssumption
    <2>3. 0 \in 0 .. Copies - 1
      BY RingAssumption
    <2>4. PICK p : p \in P[Label(k, 0)]
      BY <2>2, <2>3
    <2>5. p \in PointsOf(P, k)
      BY <2>3, <2>4 DEF PointsOf
    <2>6. PointsOf(P, k) \subseteq Points
      BY <2>2 DEF PointsOf
    <2> QED BY <2>5, <2>6
  <1> QED BY <1>1 DEF getNodes

LEMMA RingNodes ==
  ASSUME NEW P \in Placements, NEW n \in 1 .. MaxEntries
  PROVE  LET ring == ketamaNodes(P, getNodes(n))
         IN  /\ DOMAIN ring = UNION {PointsOf(P, k) : k \in 1 .. n}
             /\ DOMAIN ring \in (SUBSET Points) \ {{}}
             /\ \A p \in DOMAIN ring :
                   /\ ring[p] \in 1 .. n
                   /\ p \in PointsOf(P, ring[p])
                   /\ \A j \in 1 .. n : p \in PointsOf(P, j) => j <= ring[p]
  <1> DEFINE D == UNION {PointsOf(P, k) : k \in 1 .. n}
             At(p) == {j \in 1 .. n : p \in PointsOf(P, j)}
             ring == ketamaNodes(P, getNodes(n))
  <1>1. n \in Nat /\ 1 \in 1 .. n
    BY BalanceAssumption
  <1>2. AllPoints(P, getNodes(n)) = D
    BY NodePoints DEF AllPoints
  <1>3. \A p : {j \in DOMAIN getNodes(n) : p \in PointsOf(P, getNodes(n)[j])} = At(p)
    BY NodePoints
  <1>4. ring = [p \in D |-> Max(At(p))]
    BY <1>2, <1>3 DEF ketamaNodes
  <1>5. D \in (SUBSET Points) \ {{}}
    BY <1>1, NodePoints
  <1>6. ASSUME NEW p \in D
        PROVE  /\ Max(At(p)) \in 1 .. n
               /\ p \in PointsOf(P, Max(At(p)))
               /\ \A j \in 1 .. n : p \in PointsOf(P, j) => j <= Max(At(p))
    <2>1. At(p) \in SUBSET (1 .. n) /\ At(p) # {}
      OBVIOUS
    <2>2. Max(At(p)) \in At(p) /\ \A y \in At(p) : Max(At(p)) >= y
      <3> HIDE DEF At
      <3> QED BY <1>1, <2>1, MaxOfIndices
    <2> DEFINE M == Max(At(p))
    <2>3. M \in 1 .. n /\ p \in PointsOf(P, M)
      <3> HIDE DEF M
      <3> QED BY <2>2 DEF M
    <2>4. \A j \in 1 .. n : p \in PointsOf(P, j) => M >= j
      <3> HIDE DEF M
      <3> QED BY <2>2 DEF M
    <2> HIDE DEF M
    <2>5. \A j \in 1 .. n : p \in PointsOf(P, j) => j <= M
      BY <2>3, <2>4
    <2> QED BY <2>3, <2>5 DEF M
  <1> HIDE DEF D, At, ring
  <1>7. DOMAIN ring = D /\ \A p \in D : ring[p] = Max(At(p))
    BY <1>4
  <1>8. \A p \in DOMAIN ring :
           /\ ring[p] \in 1 .. n
           /\ p \in PointsOf(P, ring[p])
           /\ \A j \in 1 .. n : p \in PointsOf(P, j) => j <= ring[p]
    BY <1>6, <1>7
  <1> QED BY <1>5, <1>7, <1>8 DEF D, ring

(* The head of the tail map, or of the whole map, is the next point         *)
(* clockwise.                                                               *)
LEMMA NextPoint ==
  ASSUME NEW D \in SUBSET Points, D # {}, NEW h \in Points
  PROVE  LET tail == {p \in D : p >= h}
             p == IF tail = {} THEN Min(D) ELSE Min(tail)
         IN  p \in D /\ \A q \in D : p # q => Clockwise(h, p) < Clockwise(h, q)
  <1> DEFINE tail == {p \in D : p >= h}
  <1>1. Size \in Nat \ {0} /\ Points = 0 .. Size - 1
    BY RingAssumption DEF Points
  <1>2. D \in SUBSET Nat /\ tail \in SUBSET Nat
    <2>1. \A q \in D : q \in Nat
      BY <1>1
    <2> QED BY <2>1
  <1>3. CASE tail = {}
    <2>1. Min(D) \in D /\ \A q \in D : Min(D) <= q
      BY <1>2, MinOfPoints
    <2>2. \A q \in D : q < h /\ q \in 0 .. Size - 1
      BY <1>1, <1>3
    <2> DEFINE m == Min(D)
    <2>3. m \in 0 .. Size - 1 /\ m < h /\ \A q \in D : m <= q
      <3> HIDE DEF m
      <3> QED BY <2>1, <2>2 DEF m
    <2> HIDE DEF m
    <2>4. \A q \in D : m # q => Clockwise(h, m) < Clockwise(h, q)
      BY <1>1, <2>2, <2>3 DEF Clockwise
    <2> QED BY <1>3, <2>1, <2>4 DEF m
  <1>4. CASE tail # {}
    <2>1. Min(tail) \in tail /\ \A q \in tail : Min(tail) <= q
      <3> HIDE DEF tail
      <3> QED BY <1>2, <1>4, MinOfPoints
    <2> DEFINE m == Min(tail)
    <2>2. \A q \in D : q \in 0 .. Size - 1 /\ q \in Int
      BY <1>1
    <2>3. m \in D /\ m >= h /\ \A q \in D : q >= h => m <= q
      <3> HIDE DEF m
      <3> QED BY <2>1 DEF m
    <2> HIDE DEF m
    <2>4. \A q \in D : m # q => Clockwise(h, m) < Clockwise(h, q)
      BY <1>1, <2>2, <2>3 DEF Clockwise
    <2> QED BY <1>4, <2>3, <2>4 DEF m
  <1> QED BY <1>3, <1>4

(* What the TreeMap answers is the clockwise successor, for every hash.     *)
LEMMA AnswerIsNext ==
  ASSUME NEW P \in Placements, NEW n \in 1 .. MaxEntries, NEW h \in Points
  PROVE  LET j == getNodeForKey(ketamaNodes(P, getNodes(n)), h)
         IN  /\ j \in 1 .. n
             /\ IsSuccessor(P, getNodes(n), h, j)
  <1> DEFINE ring == ketamaNodes(P, getNodes(n))
             D == DOMAIN ring
             tail == {q \in D : q >= h}
             p == IF tail = {} THEN Min(D) ELSE Min(tail)
  <1>1. /\ D = UNION {PointsOf(P, k) : k \in 1 .. n}
        /\ D \in (SUBSET Points) \ {{}}
        /\ \A q \in D :
              /\ ring[q] \in 1 .. n
              /\ q \in PointsOf(P, ring[q])
              /\ \A j \in 1 .. n : q \in PointsOf(P, j) => j <= ring[q]
    BY RingNodes
  <1>2. getNodeForKey(ring, h) = ring[p]
    BY DEF getNodeForKey
  <1> HIDE DEF ring
  <1>3. p \in D /\ \A q \in D : p # q => Clockwise(h, p) < Clockwise(h, q)
    <2>1. D \in SUBSET Points /\ D # {}
      BY <1>1
    <2> HIDE DEF D
    <2> QED BY <2>1, NextPoint
  <1> HIDE DEF p, D
  <1>4. ring[p] \in 1 .. n /\ p \in PointsOf(P, ring[p])
    BY <1>1, <1>3
  <1>5. ASSUME NEW l \in 1 .. n, NEW q \in PointsOf(P, l)
        PROVE  IF p = q THEN l <= ring[p] ELSE Clockwise(h, p) < Clockwise(h, q)
    BY <1>1, <1>3
  <1>6. IsSuccessor(P, getNodes(n), h, ring[p])
    BY <1>4, <1>5, NodePoints DEF IsSuccessor
  <1> QED BY <1>2, <1>4, <1>6 DEF ring

(* A node more takes the keys it is the successor of, and no other moves.   *)
LEMMA OneMoreNode ==
  ASSUME NEW P \in Placements, NEW n \in 1 .. MaxEntries - 1, NEW h \in Points
  PROVE  getNodeForKey(ketamaNodes(P, getNodes(n + 1)), h)
            \in {getNodeForKey(ketamaNodes(P, getNodes(n)), h), n + 1}
  <1> DEFINE a == getNodeForKey(ketamaNodes(P, getNodes(n + 1)), h)
             b == getNodeForKey(ketamaNodes(P, getNodes(n)), h)
  <1>1. n \in 1 .. MaxEntries /\ n + 1 \in 1 .. MaxEntries /\ n \in Nat
    BY BalanceAssumption
  <1>2. /\ a \in 1 .. n + 1 /\ IsSuccessor(P, getNodes(n + 1), h, a)
        /\ b \in 1 .. n /\ IsSuccessor(P, getNodes(n), h, b)
    BY <1>1, AnswerIsNext
  <1> HIDE DEF a, b
  <1> SUFFICES ASSUME a # n + 1 PROVE a = b
    BY DEF a, b
  <1>3. a \in 1 .. n /\ b \in 1 .. n + 1
    BY <1>1, <1>2
  <1>4. PICK p \in PointsOf(P, a) : \A l \in 1 .. n + 1 : \A q \in PointsOf(P, l) :
           IF p = q THEN l <= a ELSE Clockwise(h, p) < Clockwise(h, q)
    BY <1>1, <1>2, NodePoints DEF IsSuccessor
  <1>5. PICK r \in PointsOf(P, b) : \A l \in 1 .. n : \A q \in PointsOf(P, l) :
           IF r = q THEN l <= b ELSE Clockwise(h, r) < Clockwise(h, q)
    BY <1>1, <1>2, NodePoints DEF IsSuccessor
  <1>6. IF p = r THEN b <= a ELSE Clockwise(h, p) < Clockwise(h, r)
    BY <1>3, <1>4
  <1>7. IF r = p THEN a <= b ELSE Clockwise(h, r) < Clockwise(h, p)
    BY <1>3, <1>5
  <1>8. Clockwise(h, p) \in Int /\ Clockwise(h, r) \in Int
    <2>1. p \in Points /\ r \in Points
      BY <1>1, <1>3, NodePoints
    <2> QED BY <2>1, RingAssumption DEF Points, Clockwise
  <1> QED BY <1>1, <1>3, <1>6, <1>7, <1>8

-----------------------------------------------------------------------------
(* Labels are numbers written to the base Base.                             *)
LEMMA Product == \A m, n \in Nat : m * n \in Nat
  OBVIOUS

LEMMA Times ==
  ASSUME NEW a \in Nat, NEW b \in Nat, NEW B \in Nat, a < b
  PROVE  /\ a * B \in Nat /\ b * B \in Nat
         /\ a * B + B <= b * B
  <1>1. PICK d \in Nat : b = a + 1 + d
    <2>1. b - a - 1 \in Nat /\ b = a + 1 + (b - a - 1)
      OBVIOUS
    <2> QED BY <2>1
  <1>2. b * B = a * B + B + d * B
    BY <1>1
  <1>3. d * B \in Nat /\ a * B \in Nat
    BY Product
  <1> QED BY <1>2, <1>3

LEMMA Digits ==
  ASSUME NEW B \in Nat, NEW a \in Nat, NEW b \in Nat,
         NEW i \in 0 .. B - 1, NEW j \in 0 .. B - 1, a * B + i = b * B + j
  PROVE  a = b /\ i = j
  <1>1. ~ (a < b)
    BY Times
  <1>2. ~ (b < a)
    BY Times
  <1> QED BY <1>1, <1>2

(* A label of one digit never equals one of two, unless the node of the     *)
(* second has the lesser number, with more nodes than the base.             *)
LEMMA OneAndTwoDigits ==
  ASSUME NEW j \in Nat \ {0}, NEW l \in Nat \ {0}, NEW i \in 0 .. Base - 1,
         NEW m \in Nat, m >= Base, j * Base + i = l * Base * Base + m
  PROVE  l < j /\ Base < j
  <1>1. Base \in Nat \ {0}
    BY RingAssumption
  <1>2. l * Base \in Nat /\ j * Base \in Nat /\ Base * Base \in Nat
    BY <1>1, Product
  <1>3. Base * Base <= l * Base * Base
    <2>1. CASE l = 1
      BY <1>1, <2>1
    <2>2. CASE l # 1
      <3>1. Base + Base <= l * Base
        BY <1>1, <2>2, Times, 1 \in Nat, 1 * Base = Base, 1 < l
      <3>2. Base < l * Base
        BY <1>1, <1>2, <3>1
      <3> QED BY <1>1, <1>2, <3>2, Times
    <2> QED BY <2>1, <2>2
  <1>4. l * Base <= l * Base * Base
    <2>1. CASE Base = 1
      BY <2>1, <1>2
    <2>2. CASE Base # 1
      <3> DEFINE x == l * Base
      <3>1. x \in Nat /\ x * 1 = x
        BY <1>2
      <3>2. Base * x = x * Base /\ 1 * x = x
        BY <1>1, <3>1
      <3> HIDE DEF x
      <3>3. 1 * x + x <= Base * x
        BY <1>1, <2>2, <3>1, Times, 1 < Base
      <3>4. x <= x * Base
        BY <1>1, <3>1, <3>2, <3>3
      <3> QED BY <3>4 DEF x
    <2> QED BY <2>1, <2>2
  <1>5. l * Base * Base \in Nat
    BY <1>1, <1>2, Product
  <1>6. l < j
    <2> SUFFICES ASSUME ~ (l < j) PROVE FALSE
      OBVIOUS
    <2>1. CASE l = j
      BY <1>1, <1>2, <1>4, <1>5, <2>1
    <2>2. CASE j < l
      <3>1. j * Base + Base <= l * Base
        BY <1>1, <2>2, Times
      <3> QED BY <1>1, <1>2, <1>4, <1>5, <3>1
    <2> QED BY <2>1, <2>2
  <1>7. Base < j
    <2> SUFFICES ASSUME ~ (Base < j) PROVE FALSE
      OBVIOUS
    <2>1. j * Base <= Base * Base
      <3>1. CASE j = Base
        BY <1>2, <3>1
      <3>2. CASE j < Base
        <4>1. j * Base + Base <= Base * Base
          BY <1>1, <3>2, Times
        <4> QED BY <1>1, <1>2, <4>1
      <3> QED BY <1>1, <3>1, <3>2
    <2> QED BY <1>1, <1>2, <1>3, <1>5, <2>1
  <1> QED BY <1>6, <1>7

(* Up to Base nodes have labels of their own, and a later node that shares  *)
(* a label of one digit with an earlier one has it as such.                 *)
LEMMA LabelOwner ==
  ASSUME NEW n \in Nat \ {0}, NEW j \in 1 .. n, NEW l \in 1 .. n,
         NEW i \in 0 .. Copies - 1, NEW m \in 0 .. Copies - 1,
         n <= Base \/ i < Base, Label(j, i) = Label(l, m)
  PROVE  l <= j
  <1>1. /\ Base \in Nat \ {0} /\ Base * Base \in Nat /\ Copies \in Nat
        /\ Copies <= Base * Base
    BY RingAssumption, Product
  <1>2. j \in Nat \ {0} /\ l \in Nat \ {0} /\ i \in Nat /\ m \in Nat
    BY <1>1
  <1>3. CASE i < Base /\ m < Base
    <2>1. j * Base + i = l * Base + m
      BY <1>3 DEF Label
    <2>2. j = l
      BY <1>1, <1>2, <1>3, <2>1, Digits
    <2> QED BY <1>2, <2>2
  <1>4. CASE i < Base /\ ~ (m < Base)
    <2>1. j * Base + i = l * Base * Base + m
      BY <1>4 DEF Label
    <2> QED BY <1>1, <1>2, <1>4, <2>1, OneAndTwoDigits
  <1>5. CASE ~ (i < Base) /\ m < Base
    <2>1. l * Base + m = j * Base * Base + i
      BY <1>5 DEF Label
    <2>2. Base < l
      BY <1>1, <1>2, <1>5, <2>1, OneAndTwoDigits
    <2> QED BY <1>1, <1>2, <1>5, <2>2
  <1>6. CASE ~ (i < Base) /\ ~ (m < Base)
    <2>1. j * Base * Base + i = l * Base * Base + m
      BY <1>6 DEF Label
    <2>2. j * Base * Base = j * (Base * Base) /\ l * Base * Base = l * (Base * Base)
      BY <1>1, <1>2
    <2> DEFINE B == Base * Base
    <2>3. B \in Nat /\ i \in 0 .. B - 1 /\ m \in 0 .. B - 1 /\ j * B + i = l * B + m
      BY <1>1, <1>2, <2>1, <2>2
    <2> HIDE DEF B
    <2>4. j = l
      BY <1>2, <2>3, Digits
    <2> QED BY <1>2, <2>4
  <1> QED BY <1>3, <1>4, <1>5, <1>6

(* A label that a node need not share leads to it.                          *)
LEMMA LabelLeadsHome ==
  ASSUME NEW P \in Placements, \A l, m \in DOMAIN P : l # m => P[l] \cap P[m] = {},
         NEW n \in 1 .. MaxEntries, NEW j \in 1 .. n, NEW i \in 0 .. Copies - 1,
         n <= Base \/ i < Base, NEW p \in P[Label(j, i)]
  PROVE  ketamaNodes(P, getNodes(n))[p] = j
  <1> DEFINE ring == ketamaNodes(P, getNodes(n))
  <1>1. n \in Nat \ {0} /\ j \in 1 .. MaxEntries
    BY BalanceAssumption
  <1>2. p \in PointsOf(P, j)
    BY DEF PointsOf
  <1>3. /\ ring[p] \in 1 .. n /\ p \in PointsOf(P, ring[p])
        /\ \A k \in 1 .. n : p \in PointsOf(P, k) => k <= ring[p]
    <2>1. p \in DOMAIN ring
      <3>1. DOMAIN ring = UNION {PointsOf(P, k) : k \in 1 .. n}
        BY RingNodes
      <3> HIDE DEF ring
      <3> QED BY <1>2, <3>1
    <2> QED BY <2>1, RingNodes
  <1> HIDE DEF ring
  <1>4. PICK m \in 0 .. Copies - 1 : p \in P[Label(ring[p], m)]
    BY <1>3 DEF PointsOf
  <1>5. Label(j, i) \in DOMAIN P /\ Label(ring[p], m) \in DOMAIN P
    BY <1>1, <1>3, BalanceAssumption
  <1>6. Label(j, i) = Label(ring[p], m)
    BY <1>4, <1>5
  <1>7. ring[p] <= j
    BY <1>1, <1>3, <1>6, LabelOwner
  <1> QED BY <1>1, <1>2, <1>3, <1>7 DEF ring

LEMMA LabelsOfNode ==
  ASSUME NEW P \in Placements, \A l, m \in DOMAIN P : l # m => P[l] \cap P[m] = {},
         NEW n \in 1 .. MaxEntries, NEW j \in 1 .. n
  PROVE  LabelsKept(P, getNodes(n), j) >= IF n <= Base THEN Copies ELSE Min({Base, Copies})
  <1> DEFINE least == IF n <= Base THEN Copies ELSE Min({Base, Copies})
             ring == ketamaNodes(P, getNodes(n))
             kept == {i \in 0 .. Copies - 1 : \A p \in P[Label(j, i)] : ring[p] = j}
  <1>1. Base \in Nat /\ Copies \in Nat /\ n \in Nat
    BY RingAssumption, BalanceAssumption
  <1>2. least \in Nat /\ least <= Copies /\ (n <= Base \/ least <= Base)
    <2>1. /\ Min({Base, Copies}) \in {Base, Copies}
          /\ \A y \in {Base, Copies} : Min({Base, Copies}) <= y
      BY <1>1, MinOfPoints
    <2> QED BY <1>1, <2>1
  <1>3. LabelsKept(P, getNodes(n), j) = Cardinality(kept)
    <2>1. getNodes(n)[j] = j
      BY NodePoints
    <2> QED BY <2>1 DEF LabelsKept
  <1>4. 0 .. least - 1 \in SUBSET kept
    <2> SUFFICES ASSUME NEW i \in 0 .. least - 1
                 PROVE  i \in 0 .. Copies - 1 /\ \A p \in P[Label(j, i)] : ring[p] = j
      OBVIOUS
    <2> HIDE DEF least
    <2>1. i \in 0 .. Copies - 1 /\ (n <= Base \/ i < Base)
      BY <1>1, <1>2
    <2> QED BY <2>1, LabelLeadsHome
  <1>5. Cardinality(0 .. least - 1) = least
    <2> HIDE DEF least
    <2>1. 0 \in Int /\ least - 1 \in Int
      BY <1>2
    <2>2. Cardinality(0 .. least - 1) = IF 0 > least - 1 THEN 0 ELSE (least - 1) - 0 + 1
      BY <2>1, FS_Interval
    <2> QED BY <1>2, <2>2
  <1>6. IsFiniteSet(0 .. Copies - 1) /\ kept \in SUBSET (0 .. Copies - 1)
    BY <1>1, FS_Interval
  <1> HIDE DEF least, kept
  <1>7. IsFiniteSet(kept)
    BY <1>6, FS_Subset
  <1>8. Cardinality(0 .. least - 1) <= Cardinality(kept)
    BY <1>4, <1>7, FS_Subset
  <1>9. Cardinality(kept) \in Nat
    BY <1>7, FS_CardinalityType
  <1> QED BY <1>2, <1>3, <1>5, <1>8, <1>9 DEF least

-----------------------------------------------------------------------------
(* A thread in a lookup has a list of two or more; the nodes it made are    *)
(* no more than the list has elements, and if no other thread wrote the     *)
(* count since it did, the count is its own.                                *)
Lookup == [pc : {"idle", "count", "nodes", "choose", "failed"},
           listData : Seq(Services), allNodes : Seq(Nat)]

Looking(c) ==
    /\ lookup[c].pc \in {"count", "nodes", "choose"} =>
          Len(lookup[c].listData) \in 2 .. MaxEntries
    /\ lookup[c].pc = "choose" =>
          \E n \in 1 .. Len(lookup[c].listData) : lookup[c].allNodes = getNodes(n)
    /\ lookup[c].pc = "nodes" /\ c \notin crossed =>
          NODE_COUNT = Len(lookup[c].listData)

Inv ==
    /\ place \in Placements
    /\ table \in Seq(Services) /\ Len(table) <= MaxEntries
    /\ NODE_COUNT \in Nat \ {0}
    /\ lookup \in [Callers -> Lookup]
    /\ \A c \in Callers : Len(lookup[c].allNodes) <= Len(lookup[c].listData)
    /\ found \in [Callers -> Services \cup {None}]
    /\ crossed \subseteq Callers
    /\ \A c \in Callers : Looking(c)

LEMMA IdleTyped == Idle \in Lookup /\ Idle.pc = "idle" /\ Len(Idle.allNodes) <= Len(Idle.listData)
  BY DEF Idle, Lookup

LEMMA InvTypeOK == Inv => TypeOK
  BY DEF Inv, TypeOK, Lookup

LEMMA InitInv == Init => Inv
  <1> SUFFICES ASSUME Init PROVE Inv
    OBVIOUS
  <1>1. lookup \in [Callers -> Lookup] /\ \A c \in Callers : lookup[c] = Idle
    BY IdleTyped DEF Init
  <1>2. table \in Seq(Services) /\ Len(table) <= MaxEntries
    BY BalanceAssumption DEF Init
  <1> QED BY <1>1, <1>2, IdleTyped DEF Init, Inv, Looking

(* One thread moves and leaves the others' lists and nodes alone.           *)
LEMMA LookupMoves ==
  ASSUME Inv, NEW c \in Callers, NEW r \in Lookup,
         lookup' = [lookup EXCEPT ![c] = r],
         Len(r.allNodes) <= Len(r.listData)
  PROVE  /\ lookup' \in [Callers -> Lookup]
         /\ \A d \in Callers : Len(lookup'[d].allNodes) <= Len(lookup'[d].listData)
         /\ lookup'[c] = r
         /\ \A d \in Callers \ {c} : lookup'[d] = lookup[d]
  BY DEF Inv

LEMMA NodesTyped ==
  ASSUME NEW n \in Nat \ {0}
  PROVE  getNodes(n) \in Seq(Nat) /\ Len(getNodes(n)) = n
  <1>1. getNodes(n) \in [1 .. n -> Nat]
    BY DEF getNodes
  <1> QED BY <1>1

LEMMA InvAdd == ASSUME Inv, NEW s \in Services, Add(s) PROVE Inv'
  <1>1. table' \in Seq(Services) /\ Len(table') <= MaxEntries
    BY BalanceAssumption DEF Inv, Add
  <1> QED BY <1>1 DEF Inv, Add, Looking

LEMMA InvGetCur == ASSUME Inv, NEW c \in Callers, GetCur(c) PROVE Inv'
  <1> USE DEF Inv
  <1>1. UNCHANGED << place, table, NODE_COUNT, crossed >>
    BY DEF GetCur
  <1>2. CASE Len(table) < 2
    <2>1. lookup' = [lookup EXCEPT ![c] = Idle]
      BY <1>2 DEF GetCur
    <2>2. found' \in [Callers -> Services \cup {None}]
      <3>1. (IF table = << >> THEN None ELSE table[1]) \in Services \cup {None}
        OBVIOUS
      <3> QED BY <1>2, <3>1 DEF GetCur
    <2>3. /\ lookup' \in [Callers -> Lookup]
          /\ \A d \in Callers : Len(lookup'[d].allNodes) <= Len(lookup'[d].listData)
          /\ lookup'[c].pc = "idle"
          /\ \A d \in Callers \ {c} : lookup'[d] = lookup[d]
      BY <2>1, IdleTyped, LookupMoves
    <2>4. \A d \in Callers : Looking(d)'
      BY <1>1, <2>3 DEF Looking
    <2> QED BY <1>1, <2>2, <2>3, <2>4
  <1>3. CASE ~ (Len(table) < 2)
    <2> DEFINE r == [pc |-> "count", listData |-> table, allNodes |-> << >>]
    <2>1. lookup' = [lookup EXCEPT ![c] = r] /\ UNCHANGED found
      BY <1>3 DEF GetCur
    <2>2. r \in Lookup /\ r.pc = "count" /\ r.listData = table /\ r.allNodes = << >>
      <3>1. << >> \in Seq(Nat)
        OBVIOUS
      <3> QED BY <3>1 DEF Lookup
    <2> HIDE DEF r
    <2>3. Len(r.allNodes) <= Len(r.listData) /\ Len(r.listData) \in 2 .. MaxEntries
      BY <1>3, <2>2, BalanceAssumption
    <2> QED BY <1>1, <2>1, <2>2, <2>3, LookupMoves DEF Looking
  <1> QED BY <1>2, <1>3

LEMMA InvSetCount == ASSUME Inv, NEW c \in Callers, SetCount(c) PROVE Inv'
  <1> USE DEF Inv
  <1> DEFINE r == [lookup[c] EXCEPT !.pc = "nodes"]
  <1>1. /\ UNCHANGED << place, table, found >>
        /\ crossed' = (crossed \ {c}) \cup {d \in Callers \ {c} : lookup[d].pc = "nodes"}
        /\ lookup[c].pc = "count" /\ NODE_COUNT' = Len(lookup[c].listData)
        /\ lookup' = [lookup EXCEPT ![c] = r]
    BY DEF SetCount, Counted
  <1>2. /\ r \in Lookup /\ r.pc = "nodes" /\ r.listData = lookup[c].listData
        /\ r.allNodes = lookup[c].allNodes
    BY DEF Lookup
  <1> HIDE DEF r
  <1>3. /\ lookup' \in [Callers -> Lookup]
        /\ \A d \in Callers : Len(lookup'[d].allNodes) <= Len(lookup'[d].listData)
        /\ lookup'[c] = r
        /\ \A d \in Callers \ {c} : lookup'[d] = lookup[d]
    BY <1>1, <1>2, LookupMoves
  <1>4. Len(lookup[c].listData) \in 2 .. MaxEntries
    BY <1>1 DEF Looking
  <1>5. NODE_COUNT' \in Nat \ {0} /\ crossed' \subseteq Callers
    BY <1>1, <1>4, BalanceAssumption
  <1>6. Looking(c)'
    BY <1>1, <1>2, <1>3, <1>4 DEF Looking
  <1>7. ASSUME NEW d \in Callers \ {c} PROVE Looking(d)'
    BY <1>1, <1>3 DEF Looking
  <1>8. \A d \in Callers : Looking(d)'
    BY <1>6, <1>7
  <1> QED BY <1>1, <1>3, <1>5, <1>8

LEMMA InvFillNodes == ASSUME Inv, NEW c \in Callers, FillNodes(c) PROVE Inv'
  <1> USE DEF Inv
  <1>1. UNCHANGED << place, table, NODE_COUNT, found, crossed >> /\ lookup[c].pc = "nodes"
    BY DEF FillNodes
  <1>2. CASE NODE_COUNT > Len(lookup[c].listData)
    <2> DEFINE r == [Idle EXCEPT !.pc = "failed"]
    <2>1. lookup' = [lookup EXCEPT ![c] = r]
      BY <1>2 DEF FillNodes
    <2>2. r \in Lookup /\ r.pc = "failed" /\ Len(r.allNodes) <= Len(r.listData)
      <3>1. r = [pc |-> "failed", listData |-> << >>, allNodes |-> << >>]
        BY DEF Idle
      <3>2. << >> \in Seq(Nat) /\ << >> \in Seq(Services) /\ Len(<< >>) = 0
        OBVIOUS
      <3> HIDE DEF r
      <3> QED BY <3>1, <3>2 DEF Lookup
    <2> HIDE DEF r
    <2> QED BY <1>1, <2>1, <2>2, LookupMoves DEF Looking
  <1>3. CASE ~ (NODE_COUNT > Len(lookup[c].listData))
    <2> DEFINE r == [lookup[c] EXCEPT !.pc = "choose", !.allNodes = getNodes(NODE_COUNT)]
    <2>1. lookup' = [lookup EXCEPT ![c] = r]
      BY <1>3 DEF FillNodes
    <2>2. Len(lookup[c].listData) \in 2 .. MaxEntries
      BY <1>1 DEF Looking
    <2>3. NODE_COUNT \in 1 .. Len(lookup[c].listData)
      BY <1>3, <2>2, BalanceAssumption
    <2>4. getNodes(NODE_COUNT) \in Seq(Nat) /\ Len(getNodes(NODE_COUNT)) = NODE_COUNT
      BY NodesTyped
    <2>5. /\ r \in Lookup /\ r.pc = "choose" /\ r.listData = lookup[c].listData
          /\ r.allNodes = getNodes(NODE_COUNT)
      BY <2>4 DEF Lookup
    <2> HIDE DEF r
    <2>6. Len(r.allNodes) <= Len(r.listData)
      BY <2>2, <2>3, <2>4, <2>5, BalanceAssumption
    <2>7. /\ lookup' \in [Callers -> Lookup]
          /\ \A d \in Callers : Len(lookup'[d].allNodes) <= Len(lookup'[d].listData)
          /\ lookup'[c] = r
          /\ \A d \in Callers \ {c} : lookup'[d] = lookup[d]
      BY <2>1, <2>5, <2>6, LookupMoves
    <2>8. Looking(c)'
      BY <2>2, <2>3, <2>5, <2>7 DEF Looking
    <2>9. \A d \in Callers \ {c} : Looking(d)'
      BY <1>1, <2>7 DEF Looking
    <2> QED BY <1>1, <2>7, <2>8, <2>9
  <1> QED BY <1>2, <1>3

(* The ring has no more nodes than the thread's list has elements: the      *)
(* answer is one of them.                                                   *)
LEMMA ChoiceIsListed ==
  ASSUME Inv, NEW c \in Callers, lookup[c].pc = "choose", NEW h \in Points
  PROVE  /\ GetCurNode(c, h) \in {lookup[c].listData[i] : i \in DOMAIN lookup[c].listData}
         /\ GetCurNode(c, h) \in Services
  <1> DEFINE l == lookup[c].listData
  <1>1. PICK n \in 1 .. Len(l) : lookup[c].allNodes = getNodes(n)
    BY DEF Inv, Looking
  <1>2. l \in Seq(Services) /\ Len(l) \in 2 .. MaxEntries
    BY DEF Inv, Looking, Lookup
  <1> DEFINE j == getNodeForKey(ketamaNodes(place, lookup[c].allNodes), h)
  <1>3. n \in 1 .. MaxEntries
    BY <1>2, BalanceAssumption
  <1>4. j \in 1 .. n
    BY <1>1, <1>3, AnswerIsNext DEF Inv
  <1>5. GetCurNode(c, h) = l[j]
    BY DEF GetCurNode
  <1> HIDE DEF l, j
  <1>6. j \in DOMAIN l /\ l[j] \in Services
    BY <1>1, <1>2, <1>4, BalanceAssumption
  <1> QED BY <1>5, <1>6 DEF l

LEMMA InvChoose == ASSUME Inv, NEW c \in Callers, Choose(c) PROVE Inv'
  <1>1. UNCHANGED << place, table, NODE_COUNT, crossed >> /\ lookup[c].pc = "choose"
    BY DEF Choose
  <1>2. PICK h \in Points : found' = [found EXCEPT ![c] = GetCurNode(c, h)]
    BY DEF Choose
  <1>3. found' \in [Callers -> Services \cup {None}]
    BY <1>1, <1>2, ChoiceIsListed DEF Inv
  <1>4. lookup' = [lookup EXCEPT ![c] = Idle]
    BY DEF Choose
  <1> QED BY <1>1, <1>3, <1>4, IdleTyped, LookupMoves DEF Inv, Looking

LEMMA InvStep == Inv /\ [Next]_vars => Inv'
  <1> SUFFICES ASSUME Inv, [Next]_vars PROVE Inv'
    OBVIOUS
  <1>1. CASE UNCHANGED vars
    BY <1>1 DEF Inv, Looking, vars
  <1> QED BY <1>1, InvAdd, InvGetCur, InvSetCount, InvFillNodes, InvChoose DEF Next

-----------------------------------------------------------------------------
(* The variables of the lookups keep their types, and no ring has more      *)
(* nodes than its thread has services for them (cirALL.java:33-42).         *)
THEOREM TypeCorrect == Spec => []TypeOK
  BY InitInv, InvStep, InvTypeOK, PTL DEF Spec

(* Whatever the hash, and on a circle of any size, the TreeMap's answer is  *)
(* the next point clockwise and the last node that has it                   *)
(* (KetamaNodeLocator.java:25-31, 42-62).                                   *)
THEOREM ClockwiseNextSafe == Spec => []ClockwiseNext
  <1>1. Inv => ClockwiseNext
    BY AnswerIsNext DEF Inv, ClockwiseNext
  <1> QED BY InitInv, InvStep, <1>1, PTL DEF Spec

(* Whatever the hash, a service that is added takes keys over and moves no  *)
(* other, also where points of several nodes meet                           *)
(* (KetamaNodeLocator.java:25-31, 42-62).                                   *)
THEOREM ConsistentSafe == Spec => []Consistent
  <1>1. Inv => Consistent
    BY OneMoreNode DEF Inv, Consistent
  <1> QED BY InitInv, InvStep, <1>1, PTL DEF Spec

(* With a hash that separates the labels, as many nodes as the base has     *)
(* digits keep all their labels, and more keep those of one digit, for      *)
(* every number of labels and any base (KetamaNodeLocator.java:26).         *)
THEOREM LabelsStaySafe == Spec => []LabelsStay
  <1>1. Inv => LabelsStay
    BY LabelsOfNode DEF Inv, LabelsStay, Separates
  <1> QED BY InitInv, InvStep, <1>1, PTL DEF Spec

(* For any number of threads that write NODE_COUNT, a lookup that ends      *)
(* gives a service of the list its thread copied (cirALL.java:36-50).       *)
THEOREM OwnServiceSafe == Spec => OwnService
  <1>1. Inv /\ [Next]_vars =>
           [\A c \in Callers :
              /\ Choose(c) => found'[c] \in {lookup[c].listData[i] : i \in DOMAIN lookup[c].listData}
              /\ GetCur(c) /\ found'[c] = None => found[c] = None \/ table = << >>]_vars
    <2> SUFFICES ASSUME Inv, NEW c \in Callers
                 PROVE  /\ Choose(c) => found'[c] \in {lookup[c].listData[i] : i \in DOMAIN lookup[c].listData}
                        /\ GetCur(c) /\ found'[c] = None => found[c] = None \/ table = << >>
      OBVIOUS
    <2>1. ASSUME Choose(c)
          PROVE  found'[c] \in {lookup[c].listData[i] : i \in DOMAIN lookup[c].listData}
      <3>1. PICK h \in Points : found' = [found EXCEPT ![c] = GetCurNode(c, h)]
        BY <2>1 DEF Choose
      <3>2. found'[c] = GetCurNode(c, h)
        BY <3>1 DEF Inv
      <3> QED BY <2>1, <3>2, ChoiceIsListed DEF Choose
    <2>2. ASSUME GetCur(c), found'[c] = None, table # << >>
          PROVE  found[c] = None
      <3>1. table[1] \in Services /\ None \notin Services
        BY <2>2, BalanceAssumption DEF Inv
      <3> QED BY <2>2, <3>1 DEF GetCur, Inv
    <2> QED BY <2>1, <2>2
  <1> QED BY InitInv, InvStep, <1>1, PTL DEF Spec, OwnService

(* For any number of threads, a lookup fails only when another one wrote    *)
(* the count between its own write and its read (cirALL.java:33-34).        *)
THEOREM FailsOnlyCrossedSafe == Spec => FailsOnlyCrossed
  <1>1. Inv /\ [Next]_vars =>
           [\A c \in Callers :
              lookup[c].pc = "nodes" /\ lookup'[c].pc = "failed" => c \in crossed]_vars
    <2> SUFFICES ASSUME Inv, Next, NEW c \in Callers,
                        lookup[c].pc = "nodes", lookup'[c].pc = "failed"
                 PROVE  c \in crossed
      OBVIOUS
    <2>1. ASSUME NEW d \in Callers, FillNodes(d) PROVE c \in crossed
      <3>1. CASE d = c
        <4>1. NODE_COUNT > Len(lookup[c].listData)
          BY <2>1, <3>1 DEF FillNodes, Inv
        <4> QED BY <4>1 DEF Inv, Looking, Lookup
      <3>2. CASE d # c
        BY <2>1, <3>2 DEF FillNodes, Inv
      <3> QED BY <3>1, <3>2
    <2>2. ASSUME NEW d \in Callers, GetCur(d) \/ SetCount(d) \/ Choose(d) PROVE FALSE
      BY <2>2 DEF GetCur, SetCount, Counted, Choose, Inv, Lookup, Ready, Idle
    <2>3. ASSUME NEW s \in Services, Add(s) PROVE FALSE
      BY <2>3 DEF Add
    <2> QED BY <2>1, <2>2, <2>3 DEF Next
  <1> QED BY InitInv, InvStep, <1>1, PTL DEF Spec, FailsOnlyCrossed
=============================================================================
