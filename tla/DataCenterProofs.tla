-------------------------- MODULE DataCenterProofs --------------------------
(***************************************************************************)
(* What holds of the delayed-data pipeline for every number of packets,    *)
(* every batch size and every selection size.                              *)
(***************************************************************************)
EXTENDS DataCenter, FiniteSetTheorems, TLAPS

Map == UNION {[K -> Packets] : K \in SUBSET Key}

Receiver ==
    [pc : {"idle", "size", "copy", "late", "ended"} \cup Receiving \cup Saving,
     packet : Packets \cup {None}, n : Nat, key : Key, batch : Map,
     last : BOOLEAN]
Worker ==
    [pc : {"none", "select", "push"}, data : Map, todo : SUBSET Key,
     keys : SUBSET Key]
Bus == [state : {"none", "up", "dead"}, thecall : BOOLEAN, queue : Seq(Packets)]

(* TypeOK with the records' shapes spelt out. *)
TypeInv ==
    /\ clock \in 1 .. MaxSecond
    /\ fresh \in SUBSET Packets
    /\ rec \in [Receivers -> Receiver]
    /\ \A r \in Receivers : rec[r].pc \in Receiving => rec[r].packet \in Packets
    /\ keymill \in Nat /\ queueid \in Nat /\ delayNum \in Nat
    /\ cacheData \in Map
    /\ persist \in BOOLEAN /\ call \in BOOLEAN /\ open \in {"no", "yes", "failed"}
    /\ open = "failed" => faults # 0
    /\ bus \in Bus
    /\ db \in Map /\ disk \in Map
    /\ worker \in [Receivers -> Worker]
    /\ \A w \in Receivers :
          worker[w].todo \cup worker[w].keys \subseteq DOMAIN worker[w].data
    /\ crashes \in 0 .. MaxCrash /\ faults \in 0 .. MaxFaults
    /\ stored \in SUBSET Packets /\ pushed \in SUBSET Packets
    /\ delivered \in SUBSET Packets

-----------------------------------------------------------------------------
(* Maps.                                                                    *)

LEMMA MapIsMap == ASSUME NEW f PROVE f \in Map <=> IsMap(f)
  BY DEF Map, IsMap

LEMMA EmptyIsMap == Empty \in Map /\ DOMAIN Empty = {} /\ Held(Empty) = {}
  BY DEF Map, Empty, Held

(* Over has the keys of both maps; over a map with no key in common it      *)
(* loses nothing.                                                           *)
LEMMA OverMap ==
  ASSUME NEW f \in Map, NEW g \in Map
  PROVE  /\ Over(f, g) \in Map
         /\ DOMAIN Over(f, g) = DOMAIN f \cup DOMAIN g
         /\ \A k \in DOMAIN f : Over(f, g)[k] = f[k]
         /\ \A k \in DOMAIN g \ DOMAIN f : Over(f, g)[k] = g[k]
         /\ DOMAIN f \cap DOMAIN g = {} => Held(Over(f, g)) = Held(f) \cup Held(g)
  <1>1. /\ DOMAIN Over(f, g) = DOMAIN f \cup DOMAIN g
        /\ \A k \in DOMAIN f : Over(f, g)[k] = f[k]
        /\ \A k \in DOMAIN g \ DOMAIN f : Over(f, g)[k] = g[k]
    BY DEF Over
  <1>2. Over(f, g) \in Map
    BY <1>1, MapIsMap DEF IsMap, Over
  <1>3. ASSUME DOMAIN f \cap DOMAIN g = {}
        PROVE  Held(Over(f, g)) = Held(f) \cup Held(g)
    BY <1>1, <1>3 DEF Held
  <1> QED
    BY <1>1, <1>2, <1>3

LEMMA WithoutMap ==
  ASSUME NEW f \in Map, NEW K
  PROVE  /\ Without(f, K) \in Map
         /\ DOMAIN Without(f, K) = DOMAIN f \ K
         /\ \A k \in DOMAIN f \ K : Without(f, K)[k] = f[k]
  BY MapIsMap DEF IsMap, Without

LEMMA PartOfMap ==
  ASSUME NEW f \in Map, NEW K \in SUBSET DOMAIN f
  PROVE  [k \in K |-> f[k]] \in Map
  BY MapIsMap DEF IsMap

LEMMA OneIsMap ==
  ASSUME NEW k \in Key, NEW p \in Packets
  PROVE  /\ [x \in {k} |-> p] \in Map
         /\ Held([x \in {k} |-> p]) = {p}
  BY MapIsMap DEF IsMap, Held

(* The states a thread starts from. *)
Selecting == [NoWorker EXCEPT !.pc = "select"]

LEMMA KeyPair ==
  ASSUME NEW m \in Nat, NEW q \in Nat PROVE << m, q >> \in Key
  BY DEF Key

LEMMA KeyNext == ASSUME NEW k \in Key PROVE k[2] + 1 \in Nat
  BY DEF Key

LEMMA StartShapes ==
  /\ Ready \in Receiver /\ Ready.pc = "idle" /\ Ready.batch = Empty
  /\ Ended \in Receiver /\ Ended.pc = "ended" /\ Ended.batch = Empty
  /\ NoWorker \in Worker /\ NoWorker.pc = "none"
  /\ NoWorker.todo = {} /\ NoWorker.keys = {}
  /\ Selecting \in Worker /\ Selecting.pc = "select"
  /\ Selecting.todo = {} /\ Selecting.keys = {}
  /\ NoBus \in Bus /\ NoBus.queue = << >> /\ NoBus.thecall = FALSE
  /\ NoBus.state = "none"
  <1>1. << 0, 0 >> \in Key
    BY KeyPair
  <1>2. /\ NoWorker \in Worker /\ NoWorker.pc = "none" /\ NoWorker.data = Empty
        /\ NoWorker.todo = {} /\ NoWorker.keys = {}
    BY EmptyIsMap DEF NoWorker, Worker
  <1>3. /\ Selecting \in Worker /\ Selecting.pc = "select"
        /\ Selecting.todo = {} /\ Selecting.keys = {}
    BY <1>2 DEF Selecting, Worker
  <1>4. << >> \in Seq(Packets)
    OBVIOUS
  <1> QED
    BY <1>1, <1>2, <1>3, <1>4, EmptyIsMap DEF Ready, Ended, NoBus, Receiver, Bus

-----------------------------------------------------------------------------
(* A thread's record changes from one of the shape to another. *)
LEMMA RecType ==
  ASSUME TypeInv, NEW r \in Receivers, NEW x \in Receiver,
         rec' = [rec EXCEPT ![r] = x],
         x.pc \in Receiving => x.packet \in Packets
  PROVE  /\ rec' \in [Receivers -> Receiver]
         /\ \A q \in Receivers : rec'[q].pc \in Receiving => rec'[q].packet \in Packets
  BY DEF TypeInv

LEMMA TypeInit == Init => TypeInv
  <1> SUFFICES ASSUME Init PROVE TypeInv
    OBVIOUS
  <1>1. call \in BOOLEAN
    BY DataCenterAssumption, Zenon DEF Init, DataCenterAssumption
  <1>2. clock \in 1 .. MaxSecond /\ crashes \in 0 .. MaxCrash /\ faults \in 0 .. MaxFaults
    BY DataCenterAssumption DEF Init, DataCenterAssumption
  <1> QED
    BY <1>1, <1>2, EmptyIsMap, StartShapes DEF Init, TypeInv, Receiving

LEMMA TypeNext == TypeInv /\ [Next]_vars => TypeInv'
  <1> SUFFICES ASSUME TypeInv, [Next]_vars PROVE TypeInv'
    OBVIOUS
  <1> USE DEF TypeInv
  <1>1. ASSUME NEW r \in Receivers, NEW p \in Packets, AddData(r, p)
        PROVE  TypeInv'
    <2>1. bus' \in Bus
      BY <1>1 DEF AddData, BusMade, Bus
    <2>2. /\ rec' \in [Receivers -> Receiver]
          /\ \A q \in Receivers :
                rec'[q].pc \in Receiving => rec'[q].packet \in Packets
      BY <1>1, StartShapes DEF AddData, Receiver, Receiving
    <2> QED
      BY <1>1, <2>1, <2>2 DEF AddData, env, stamps, dbVars
  <1>12. ASSUME NEW r \in Receivers, AddNull(r) PROVE TypeInv'
    <2>1. bus' \in Bus
      BY <1>12 DEF AddNull, BusMade, Bus
    <2>2. /\ rec' \in [Receivers -> Receiver]
          /\ \A q \in Receivers :
                rec'[q].pc \in Receiving => rec'[q].packet \in Packets
      BY <1>12, RecType, StartShapes DEF AddNull, Receiving
    <2>3. faults' \in 0 .. MaxFaults /\ faults' # 0
      BY <1>12, DataCenterAssumption DEF AddNull, DataCenterAssumption
    <2> QED
      BY <1>12, <2>1, <2>2, <2>3 DEF AddNull, stamps, dbVars
  <1>2. ASSUME NEW r \in Receivers, Advance(r) PROVE TypeInv'
    <2>1. CASE CountDelay(r)
      BY <2>1 DEF CountDelay, At, Goto, env, stamps, busVars, dbVars, Receiver,
         Receiving
    <2>2. CASE StartThreadDB(r)
      <3>1. /\ worker' \in [Receivers -> Worker]
            /\ \A q \in Receivers :
                 worker'[q].todo \cup worker'[q].keys \subseteq DOMAIN worker'[q].data
        BY <2>2, StartShapes DEF StartThreadDB, Selecting
      <3> QED
        BY <2>2, <3>1 DEF StartThreadDB, At, Goto, env, stamps, busVars, dbVars,
           Receiver, Receiving
    <2>3. CASE CheckSecond(r)
      BY <2>3 DEF CheckSecond, At, Goto, env, busVars, dbVars, Receiver, Receiving
    <2>4. CASE SetSecond(r)
      BY <2>4 DEF SetSecond, At, Goto, env, busVars, dbVars, Receiver, Receiving
    <2>5. CASE MakeKey(r)
      <3>1. << keymill, queueid >> \in Key
        BY KeyPair
      <3> DEFINE x == [rec[r] EXCEPT !.pc = "put", !.key = << keymill, queueid >>]
      <3>2. rec[r] \in Receiver /\ rec[r].packet \in Packets
        BY <2>5 DEF MakeKey, At, Receiving
      <3>3. x \in Receiver /\ x.packet = rec[r].packet
        BY <3>1, <3>2 DEF Receiver, Receiving
      <3>4. rec' = [rec EXCEPT ![r] = x]
        BY <2>5 DEF MakeKey
      <3> HIDE DEF x
      <3>5. /\ rec' \in [Receivers -> Receiver]
            /\ \A q \in Receivers :
                  rec'[q].pc \in Receiving => rec'[q].packet \in Packets
        BY <3>2, <3>3, <3>4, RecType
      <3> QED
        BY <2>5, <3>5 DEF MakeKey, env, stamps, busVars, dbVars
    <2>6. CASE PutCache(r)
      <3>1. /\ rec[r].key \in Key /\ rec[r].packet \in Packets
            /\ rec[r].key[2] + 1 \in Nat
        <4>1. rec[r] \in Receiver /\ rec[r].packet \in Packets
          BY <2>6 DEF PutCache, At, Receiving
        <4>2. rec[r].key \in Key
          BY <4>1 DEF Receiver
        <4> QED
          BY <4>1, <4>2, KeyNext
      <3>2. cacheData' \in Map
        <4> DEFINE one == [y \in {rec[r].key} |-> rec[r].packet]
        <4>1. one \in Map
          BY <3>1, OneIsMap
        <4>2. cacheData' = Over(one, cacheData)
          BY <2>6 DEF PutCache
        <4> HIDE DEF one
        <4> QED
          BY <4>1, <4>2, OverMap
      <3> DEFINE x == [rec[r] EXCEPT !.pc = "size"]
      <3>3. x \in Receiver /\ x.pc = "size"
        BY DEF Receiver
      <3>4. rec' = [rec EXCEPT ![r] = x]
        BY <2>6 DEF PutCache, Goto
      <3> HIDE DEF x
      <3>5. /\ rec' \in [Receivers -> Receiver]
            /\ \A q \in Receivers :
                  rec'[q].pc \in Receiving => rec'[q].packet \in Packets
        BY <3>3, <3>4, RecType DEF Receiving
      <3> QED
        BY <2>6, <3>1, <3>2, <3>5 DEF PutCache, env, busVars, dbVars
    <2>7. CASE CheckSize(r)
      BY <2>7 DEF CheckSize, At, Goto, env, stamps, busVars, dbVars, Receiver,
         Receiving
    <2>8. CASE CopyCache(r)
      <3> DEFINE x == [rec[r] EXCEPT !.pc = "clear", !.batch = cacheData]
      <3>1. x \in Receiver /\ x.pc = "clear"
        BY DEF Receiver, Saving
      <3>2. rec' = [rec EXCEPT ![r] = x]
        BY <2>8 DEF CopyCache
      <3> HIDE DEF x
      <3>3. /\ rec' \in [Receivers -> Receiver]
            /\ \A q \in Receivers :
                  rec'[q].pc \in Receiving => rec'[q].packet \in Packets
        BY <3>1, <3>2, RecType DEF Receiving
      <3> QED
        BY <2>8, <3>3 DEF CopyCache, env, stamps, busVars, dbVars
    <2>9. CASE ClearCache(r)
      <3> DEFINE x == [rec[r] EXCEPT !.pc = "save"]
      <3>1. x \in Receiver /\ x.pc = "save"
        BY DEF Receiver, Saving
      <3>2. rec' = [rec EXCEPT ![r] = x]
        BY <2>9 DEF ClearCache, Goto
      <3> HIDE DEF x
      <3>3. /\ rec' \in [Receivers -> Receiver]
            /\ \A q \in Receivers :
                  rec'[q].pc \in Receiving => rec'[q].packet \in Packets
        BY <3>1, <3>2, RecType DEF Receiving
      <3> QED
        BY <2>9, <3>3, EmptyIsMap DEF ClearCache, env, stamps, busVars, dbVars
    <2>10. ASSUME Leave(r), fresh' = fresh
           PROVE /\ rec' \in [Receivers -> Receiver]
                 /\ \A q \in Receivers :
                       rec'[q].pc \in Receiving => rec'[q].packet \in Packets
      <3> DEFINE x == IF rec[r].last THEN Ready
                      ELSE [rec[r] EXCEPT !.pc = "late", !.batch = Empty]
      <3>1. x \in Receiver /\ x.pc \in {"idle", "late"}
        BY EmptyIsMap, StartShapes DEF Receiver
      <3>2. rec' = [rec EXCEPT ![r] = x]
        BY <2>10 DEF Leave
      <3> HIDE DEF x
      <3> QED
        BY <3>1, <3>2, RecType DEF Receiving
    <2>11. CASE Save(r)
      <3>1. db' \in Map
        BY <2>11, OverMap DEF Save, Receiver
      <3> QED
        BY <2>10, <2>11, <3>1 DEF Save, Opened, env, stamps, busVars
    <2>12. CASE SaveFails(r) \/ OpenFails(r)
      <3>1. faults' \in 0 .. MaxFaults /\ faults' # 0
        BY <2>12, DataCenterAssumption DEF SaveFails, OpenFails, DataCenterAssumption
      <3> QED
        BY <2>10, <2>12, <3>1 DEF SaveFails, OpenFails, Opened, stamps, busVars
    <2>15. CASE SaveUnopened(r)
      BY <2>10, <2>15 DEF SaveUnopened, env, stamps, busVars, dbVars
    <2>14. CASE SaveThrows(r)
      BY <2>14, RecType, StartShapes, DataCenterAssumption
         DEF SaveThrows, Opened, stamps, busVars, DataCenterAssumption, Receiving
    <2>13. CASE CheckDelay(r)
      <3> DEFINE x == IF delayNum > MaxDelay /\ DOMAIN cacheData # {}
                      THEN [rec[r] EXCEPT !.pc = "copy", !.last = TRUE]
                      ELSE Ready
      <3>1. x \in Receiver /\ x.pc \in {"idle", "copy"}
        BY StartShapes DEF Receiver
      <3>2. rec' = [rec EXCEPT ![r] = x]
        BY <2>13 DEF CheckDelay
      <3> HIDE DEF x
      <3>3. /\ rec' \in [Receivers -> Receiver]
            /\ \A q \in Receivers :
                  rec'[q].pc \in Receiving => rec'[q].packet \in Packets
        BY <3>1, <3>2, RecType DEF Receiving
      <3> QED
        BY <2>13, <3>3 DEF CheckDelay, env, stamps, busVars, dbVars
    <2> QED
      BY <1>2, <2>1, <2>2, <2>3, <2>4, <2>5, <2>6, <2>7, <2>8, <2>9, <2>11,
         <2>12, <2>13, <2>14, <2>15 DEF Advance
  <1>3. ASSUME NEW w \in Receivers, Work(w) PROVE TypeInv'
    <2>1. CASE SelectList(w)
      <3>1. PICK K \in Oldest(db) :
              worker' = [worker EXCEPT ![w] =
                [pc |-> "push", data |-> [k \in K |-> db[k]], todo |-> K, keys |-> {}]]
        BY <2>1 DEF SelectList
      <3>2. K \in SUBSET DOMAIN db /\ K \in SUBSET Key
        BY <3>1, MapIsMap DEF Oldest, IsMap
      <3>3. [k \in K |-> db[k]] \in Map
        BY <3>2, PartOfMap
      <3> QED
        BY <2>1, <3>1, <3>2, <3>3 DEF SelectList, env, stamps, busVars, dbVars, Worker
    <2>2. CASE PushRecord(w)
      <3>1. PICK k \in worker[w].todo :
              /\ bus' = [bus EXCEPT !.queue = Append(@, worker[w].data[k])]
              /\ pushed' = pushed \cup {worker[w].data[k]}
              /\ worker' = [worker EXCEPT ![w] =
                    [pc |-> "push", data |-> @.data, todo |-> @.todo \ {k},
                     keys |-> @.keys \cup {k}]]
        BY <2>2 DEF PushRecord
      <3>2. worker[w].data[k] \in Packets /\ k \in Key
        BY MapIsMap DEF IsMap, Worker
      <3>3. bus' \in Bus
        <4>1. Append(bus.queue, worker[w].data[k]) \in Seq(Packets)
          BY <3>2 DEF Bus
        <4> QED
          BY <3>1, <4>1 DEF Bus
      <3>4. /\ worker' \in [Receivers -> Worker]
            /\ \A q \in Receivers :
                 worker'[q].todo \cup worker'[q].keys \subseteq DOMAIN worker'[q].data
        <4> DEFINE W == [pc |-> "push", data |-> worker[w].data,
                         todo |-> worker[w].todo \ {k},
                         keys |-> worker[w].keys \cup {k}]
        <4>1. /\ W \in Worker /\ W.data = worker[w].data
              /\ W.todo \cup W.keys \subseteq DOMAIN W.data
          BY <3>2 DEF Worker
        <4>2. worker' = [worker EXCEPT ![w] = W]
          BY <3>1
        <4> HIDE DEF W
        <4>3. worker' \in [Receivers -> Worker] /\ worker'[w] = W
          BY <4>1, <4>2
        <4>4. \A q \in Receivers \ {w} : worker'[q] = worker[q]
          BY <4>2
        <4> QED
          BY <4>1, <4>3, <4>4
      <3> QED
        BY <2>2, <3>1, <3>2, <3>3, <3>4 DEF PushRecord, env, stamps, dbVars
    <2>3. CASE PushNull(w)
      BY <2>3, StartShapes DEF PushNull, Selecting, env, stamps, busVars, dbVars
    <2>4. CASE DeleteList(w)
      <3>1. db' \in Map
        BY <2>4, WithoutMap DEF DeleteList
      <3> QED
        BY <2>4, <3>1, StartShapes DEF DeleteList, Selecting, env, stamps, busVars
    <2>5. CASE DeleteFails(w)
      <3>1. worker' = [worker EXCEPT ![w] = Selecting]
        BY <2>5 DEF DeleteFails, Selecting
      <3>2. /\ worker' \in [Receivers -> Worker]
            /\ \A q \in Receivers :
                 worker'[q].todo \cup worker'[q].keys \subseteq DOMAIN worker'[q].data
        BY <3>1, StartShapes
      <3>3. faults' \in 0 .. MaxFaults /\ faults' # 0
        BY <2>5, DataCenterAssumption DEF DeleteFails, DataCenterAssumption
      <3> QED
        BY <2>5, <3>2, <3>3 DEF DeleteFails, stamps, busVars, dbVars
    <2> QED
      BY <1>3, <2>1, <2>2, <2>3, <2>4, <2>5 DEF Work
  <1>4. ASSUME bus.queue # << >>
        PROVE  Tail(bus.queue) \in Seq(Packets) /\ Head(bus.queue) \in Packets
    BY <1>4 DEF Bus
  <1>5. CASE OutData
    <2>1. bus' \in Bus
      BY <1>4, <1>5 DEF OutData, Bus
    <2> QED
      BY <1>4, <1>5, <2>1 DEF OutData, env, stamps, dbVars
  <1>6. CASE ConsumerThrows
    <2>1. bus' \in Bus
      BY <1>4, <1>6 DEF ConsumerThrows, Bus
    <2>2. faults' \in 0 .. MaxFaults /\ faults' # 0
      BY <1>6, DataCenterAssumption DEF ConsumerThrows, DataCenterAssumption
    <2>3. delivered' \in SUBSET Packets
      BY <1>4, <1>6 DEF ConsumerThrows
    <2> QED
      BY <1>6, <2>1, <2>2, <2>3 DEF ConsumerThrows, stamps, dbVars
  <1>7. CASE SetCall
    BY <1>7 DEF SetCall, env, stamps, dbVars
  <1>8. CASE Tick
    BY <1>8 DEF Tick, stamps, busVars, dbVars
  <1>9. CASE WriteLog
    <2>1. Held(db) \subseteq Packets
      BY MapIsMap DEF IsMap, Held
    <2> QED
      BY <1>9, <2>1 DEF WriteLog, env, stamps, busVars
  <1>10. CASE Crash
    <2>1. call' \in BOOLEAN
      BY <1>10, DataCenterAssumption, Zenon DEF Crash, DataCenterAssumption
    <2>2. clock' \in 1 .. MaxSecond /\ crashes' \in 0 .. MaxCrash
      BY <1>10, DataCenterAssumption DEF Crash, DataCenterAssumption
    <2> QED
      BY <1>10, <2>1, <2>2, EmptyIsMap, StartShapes DEF Crash, Receiving
  <1>11. CASE UNCHANGED vars
    BY <1>11 DEF vars
  <1> QED
    BY <1>1, <1>2, <1>3, <1>5, <1>6, <1>7, <1>8, <1>9, <1>10, <1>11,
       <1>12 DEF Next

(* The pipeline's variables keep their types, whatever the threads do.      *)
THEOREM TypeCorrect == Spec => []TypeOK
  <1>1. TypeInv => TypeOK
    BY MapIsMap DEF TypeInv, TypeOK, Receiver, Worker, Bus
  <1> QED
    BY <1>1, TypeInit, TypeNext, PTL DEF Spec

-----------------------------------------------------------------------------
(* The cache has no limit of its own: each thread that has put a packet and *)
(* not yet left or cleared the cache may have taken it one further.         *)
Caught == {r \in Receivers : rec[r].pc \in {"size", "copy", "clear"}}
Cached == DOMAIN cacheData

Crowded ==
    /\ IsFiniteSet(Cached)
    /\ Cardinality(Cached) < BatchSize + Cardinality(Caught)

LEMMA CaughtFinite ==
  /\ IsFiniteSet(Caught) /\ Cardinality(Caught) \in Nat
  /\ IsFiniteSet(Caught)' /\ (Cardinality(Caught))' \in Nat
  /\ Cardinality(Caught) <= Cardinality(Receivers)
  /\ Cardinality(Receivers) \in Nat /\ BatchSize \in Nat \ {0}
  <1>1. IsFiniteSet(Receivers) /\ BatchSize \in Nat \ {0}
    BY DataCenterAssumption DEF DataCenterAssumption
  <1>2. Caught \in SUBSET Receivers /\ Caught' \in SUBSET Receivers
    BY DEF Caught
  <1> QED
    BY <1>1, <1>2, FS_Subset, FS_CardinalityType

(* Whoever leaves the cache as it is keeps the bound, if no thread leaves   *)
(* it behind; an empty cache has it always.                                 *)
LEMMA CrowdedSame ==
  ASSUME Crowded, cacheData' = cacheData, Caught \subseteq Caught'
  PROVE  Crowded'
  <1>1. Cached' = Cached
    BY DEF Cached
  <1>2. Cardinality(Caught) <= Cardinality(Caught')
    BY CaughtFinite, FS_Subset
  <1>3. Cardinality(Cached) \in Nat
    BY FS_CardinalityType DEF Crowded
  <1> QED
    BY <1>1, <1>2, <1>3, CaughtFinite DEF Crowded

LEMMA CrowdedEmpty == ASSUME cacheData' = Empty PROVE Crowded'
  <1>1. Cached' = {}
    BY EmptyIsMap DEF Cached
  <1>2. 0 < BatchSize + Cardinality(Caught')
    BY CaughtFinite
  <1> QED
    BY <1>1, <1>2, FS_EmptySet DEF Crowded

LEMMA OneMore ==
  ASSUME NEW S, NEW x, IsFiniteSet(S)
  PROVE  /\ IsFiniteSet(S \cup {x})
         /\ Cardinality(S) \in Nat /\ Cardinality(S \cup {x}) \in Nat
         /\ Cardinality(S \cup {x}) <= Cardinality(S) + 1
  <1>1. IsFiniteSet(S \cup {x}) /\ Cardinality(S) \in Nat
    BY FS_AddElement, FS_CardinalityType
  <1>2. Cardinality(S \cup {x}) = IF x \in S THEN Cardinality(S) ELSE Cardinality(S) + 1
    BY FS_AddElement
  <1> QED
    BY <1>1, <1>2

(* One thread moves on: it joins the others, or has found the cache small.  *)
LEMMA CaughtMoves ==
  ASSUME TypeInv, NEW r \in Receivers, NEW x, rec' = [rec EXCEPT ![r] = x]
  PROVE  /\ x.pc \in {"size", "copy", "clear"} => Caught' = Caught \cup {r}
         /\ x.pc \notin {"size", "copy", "clear"} => Caught' = Caught \ {r}
  BY DEF Caught, TypeInv

LEMMA CrowdedAdvance ==
  ASSUME TypeInv, Crowded, NEW r \in Receivers,
         \/ \E p \in Packets : AddData(r, p)
         \/ AddNull(r) \/ Advance(r)
  PROVE  Crowded'
  <1>1. CASE PutCache(r)
    <2>1. rec[r].pc = "put" /\ r \notin Caught
      BY <1>1 DEF PutCache, At, Caught
    <2>2. Caught' = Caught \cup {r}
      <3> DEFINE x == [rec[r] EXCEPT !.pc = "size"]
      <3>1. rec' = [rec EXCEPT ![r] = x] /\ x.pc = "size"
        BY <1>1 DEF PutCache, Goto, TypeInv, Receiver
      <3> HIDE DEF x
      <3> QED
        BY <3>1, CaughtMoves
    <2>3. Cardinality(Caught') = Cardinality(Caught) + 1
      BY <2>1, <2>2, CaughtFinite, FS_AddElement
    <2>4. Cached' = Cached \cup {rec[r].key}
      BY <1>1 DEF PutCache, Over, Cached
    <2>5. /\ IsFiniteSet(Cached')
          /\ Cardinality(Cached') <= Cardinality(Cached) + 1
          /\ Cardinality(Cached) \in Nat /\ Cardinality(Cached') \in Nat
      BY <2>4, OneMore DEF Crowded
    <2>6. /\ Cardinality(Cached) < BatchSize + Cardinality(Caught)
          /\ BatchSize \in Nat /\ Cardinality(Caught) \in Nat
      BY CaughtFinite DEF Crowded
    <2>7. Cardinality(Cached') < BatchSize + Cardinality(Caught')
      BY <2>3, <2>5, <2>6
    <2> QED
      BY <2>5, <2>7 DEF Crowded
  <1>2. CASE CheckSize(r)
    <2>1. Cached' = Cached /\ cacheData' = cacheData /\ Cardinality(Cached) \in Nat
      BY <1>2, FS_CardinalityType DEF CheckSize, Cached, Crowded
    <2>2. CASE Cardinality(Cached) >= BatchSize
      <3>1. Goto(r, "copy")
        BY <1>2, <2>2 DEF CheckSize, Cached
      <3> DEFINE x == [rec[r] EXCEPT !.pc = "copy"]
      <3>2. rec' = [rec EXCEPT ![r] = x] /\ x.pc = "copy"
        BY <3>1 DEF Goto, TypeInv, Receiver
      <3> HIDE DEF x
      <3>3. Caught' = Caught \cup {r}
        BY <3>2, CaughtMoves
      <3> QED
        BY <2>1, <3>3, CrowdedSame
    <2>3. CASE ~(Cardinality(Cached) >= BatchSize)
      BY <2>1, <2>3, CaughtFinite DEF Crowded
    <2> QED
      BY <2>2, <2>3
  <1>3. CASE ClearCache(r)
    BY <1>3, CrowdedEmpty DEF ClearCache
  <1>4. CASE ~PutCache(r) /\ ~CheckSize(r) /\ ~ClearCache(r)
    <2>1. cacheData' = cacheData
      BY <1>4 DEF Advance, AddNull, AddData, CountDelay, StartThreadDB, CheckSecond,
         SetSecond,
                  MakeKey, CopyCache, Save, SaveFails, OpenFails, SaveUnopened,
                  SaveThrows, CheckDelay
    <2>2. CASE CopyCache(r)
      <3> DEFINE x == [rec[r] EXCEPT !.pc = "clear", !.batch = cacheData]
      <3>1. rec' = [rec EXCEPT ![r] = x] /\ x.pc = "clear"
        BY <2>2 DEF CopyCache, TypeInv, Receiver
      <3> HIDE DEF x
      <3>2. Caught' = Caught \cup {r}
        BY <3>1, CaughtMoves
      <3> QED
        BY <2>1, <3>2, CrowdedSame
    <2>3. CASE ~CopyCache(r)
      <3>1. rec[r].pc \notin {"size", "copy", "clear"}
        BY <1>4, <2>3 DEF Advance, AddNull, AddData, CountDelay, StartThreadDB,
           CheckSecond,
           SetSecond, MakeKey, Save, SaveFails, OpenFails, SaveUnopened, SaveThrows,
           CheckDelay, At
      <3>2. \E x : rec' = [rec EXCEPT ![r] = x]
        BY <1>4, <2>3 DEF Advance, AddNull, AddData, CountDelay, StartThreadDB,
           CheckSecond,
           SetSecond, MakeKey, Save, SaveFails, OpenFails, SaveUnopened, SaveThrows,
           CheckDelay, Goto, Leave
      <3>3. Caught \subseteq Caught'
        BY <3>1, <3>2, CaughtMoves DEF Caught
      <3> QED
        BY <2>1, <3>3, CrowdedSame
    <2> QED
      BY <2>2, <2>3
  <1> QED
    BY <1>1, <1>2, <1>3, <1>4

(* However many transport threads run AddCahe at once, and whatever fails,  *)
(* the cache holds a batch and no more than one packet for each of them.    *)
THEOREM CacheBoundedSafe == Spec => []CacheBounded
  <1>1. Init => Crowded
    BY EmptyIsMap, CaughtFinite, FS_EmptySet DEF Init, Crowded, Cached
  <1>2. TypeInv /\ Crowded /\ [Next]_vars => Crowded'
    <2> SUFFICES ASSUME TypeInv, Crowded, [Next]_vars PROVE Crowded'
      OBVIOUS
    <2>1. CASE \E r \in Receivers : AddNull(r) \/ Advance(r) \/ \E p \in Packets : AddData(r, p)
      BY <2>1, CrowdedAdvance
    <2>2. CASE Crash
      BY <2>2, CrowdedEmpty DEF Crash
    <2>3. CASE \/ \E r \in Receivers : Work(r)
               \/ OutData \/ ConsumerThrows \/ SetCall \/ Tick \/ WriteLog
               \/ UNCHANGED vars
      <3>1. UNCHANGED << rec, cacheData >>
        BY <2>3 DEF Work, SelectList, PushRecord, PushNull, DeleteList, DeleteFails,
           OutData, ConsumerThrows, SetCall, Tick, WriteLog, vars
      <3>2. Caught' = Caught
        BY <3>1 DEF Caught
      <3> QED
        BY <3>1, <3>2, CrowdedSame
    <2> QED
      BY <2>1, <2>2, <2>3 DEF Next
  <1>3. Crowded => CacheBounded
    BY CaughtFinite, FS_CardinalityType DEF Crowded, Cached, CacheBounded
  <1> QED
    BY <1>1, <1>2, <1>3, TypeInit, TypeNext, PTL DEF Spec

-----------------------------------------------------------------------------
(* One transport thread, hence at most one worker; a clock that is not set  *)
(* back, and restarts that take a second or more.                           *)
OneReceiver == \A r, q \in Receivers : r = q
SteadyClock == ~Backward /\ MinOutage > 0

(* A key in use cannot be made again: its second is over, or the counter    *)
(* has passed it, or the next key waits for a later second to be stamped.   *)
Spent(r, k) ==
    \/ k[1] < keymill
    \/ k[1] = keymill /\ k[2] < queueid
    \/ k[1] < clock /\ keymill < clock /\ rec[r].pc \notin {"key", "put"}

(* The batch of a thread that has not yet saved it. *)
Batch(r) == IF rec[r].pc \in Saving THEN rec[r].batch ELSE Empty

(* The inductive invariant, in the view of the one thread r.                *)
KeysSpent(r) ==
    \A k \in DOMAIN cacheData \cup DOMAIN Batch(r) \cup DOMAIN db \cup DOMAIN disk :
        Spent(r, k)

Stamping(r) ==
    /\ keymill <= clock
    /\ rec[r].pc = "second" => keymill < clock
    /\ rec[r].pc = "put" => rec[r].key = << keymill, queueid >>

Apart(r) ==
    /\ DOMAIN cacheData \cap DOMAIN db = {}
    /\ DOMAIN Batch(r) \cap DOMAIN db = {}
    /\ rec[r].pc = "clear" => rec[r].batch = cacheData
    /\ rec[r].pc = "save" => cacheData = Empty

Pushing(w) ==
    worker[w].pc = "push" =>
        /\ DOMAIN worker[w].data \subseteq DOMAIN db
        /\ \A k \in DOMAIN worker[w].data : worker[w].data[k] = db[k]
        /\ \A k \in worker[w].keys : worker[w].data[k] \in pushed

Inv(r) == KeysSpent(r) /\ Stamping(r) /\ Apart(r) /\ Pushing(r)

-----------------------------------------------------------------------------
LEMMA KeyNat ==
  ASSUME NEW f \in Map, NEW k \in DOMAIN f
  PROVE  k \in Key /\ k[1] \in Nat /\ k[2] \in Nat
  BY MapIsMap DEF IsMap, Key

LEMMA TypeFacts ==
  ASSUME TypeInv, NEW r \in Receivers
  PROVE  /\ clock \in Nat /\ keymill \in Nat /\ queueid \in Nat /\ clock > 0
         /\ cacheData \in Map /\ db \in Map /\ disk \in Map
         /\ rec[r] \in Receiver /\ rec[r].batch \in Map /\ Batch(r) \in Map
         /\ worker[r] \in Worker /\ worker[r].data \in Map
         /\ rec \in [Receivers -> Receiver] /\ worker \in [Receivers -> Worker]
  BY EmptyIsMap, DataCenterAssumption
     DEF TypeInv, Receiver, Worker, Batch, DataCenterAssumption

(* What Goto changes and keeps of a thread's state. *)
LEMMA GotoFacts ==
  ASSUME TypeInv, NEW r \in Receivers, NEW pc, Goto(r, pc)
  PROVE  /\ rec'[r].pc = pc /\ rec'[r].batch = rec[r].batch
         /\ rec'[r].key = rec[r].key /\ rec'[r].packet = rec[r].packet
  BY TypeFacts DEF Goto, Receiver

LEMMA InvInit == ASSUME Init, NEW r \in Receivers PROVE Inv(r) /\ PersistedIsKept
  BY EmptyIsMap, StartShapes
     DEF Init, Inv, KeysSpent, Stamping, Apart, Pushing, Batch, Saving,
         PersistedIsKept

(* A step of the thread that moves no key. *)
LEMMA QuietStep ==
  ASSUME TypeInv, NEW r \in Receivers, Inv(r),
         UNCHANGED << clock, keymill, queueid, cacheData, db, disk >>,
         DOMAIN Batch(r)' \subseteq DOMAIN Batch(r),
         rec'[r].pc \notin {"key", "put", "second", "clear", "save"}
  PROVE  KeysSpent(r)' /\ Stamping(r)' /\ Apart(r)'
  BY DEF Inv, KeysSpent, Spent, Stamping, Apart

(* Nobody else touches what a worker is pushing. *)
LEMMA PushingSame ==
  ASSUME NEW r \in Receivers, Pushing(r), worker'[r] = worker[r],
         UNCHANGED << db, pushed >>
  PROVE  Pushing(r)'
  BY DEF Pushing

LEMMA InvReceive ==
  ASSUME TypeInv, NEW r \in Receivers, Inv(r), PersistedIsKept,
         \/ \E p \in Packets : AddData(r, p)
         \/ CountDelay(r) \/ StartThreadDB(r) \/ CheckSize(r) \/ CheckDelay(r)
         \/ SaveFails(r) \/ OpenFails(r) \/ SaveUnopened(r) \/ SaveThrows(r)
         \/ AddNull(r)
  PROVE  Inv(r)' /\ PersistedIsKept'
  <1>1. /\ UNCHANGED << clock, keymill, queueid, cacheData, db, disk, stored, pushed >>
        /\ rec'[r].pc \notin {"key", "put", "second", "clear", "save"}
        /\ Batch(r)' = Empty
    <2>1. CASE \E p \in Packets : AddData(r, p)
      <3>1. PICK p \in Packets : AddData(r, p)
        BY <2>1
      <3>2. rec'[r] = [Ready EXCEPT !.pc = "delay", !.packet = p, !.n = delayNum]
        BY <3>1, TypeFacts DEF AddData
      <3>3. rec'[r].pc = "delay"
        BY <3>2, StartShapes DEF Receiver
      <3> QED
        BY <3>1, <3>3 DEF AddData, env, stamps, dbVars, Batch, Saving
    <2>2. CASE CountDelay(r)
      BY <2>2, GotoFacts DEF CountDelay, env, stamps, busVars, dbVars, Batch, Saving
    <2>3. CASE StartThreadDB(r)
      BY <2>3, GotoFacts DEF StartThreadDB, env, stamps, busVars, dbVars, Batch, Saving
    <2>4. CASE CheckSize(r)
      BY <2>4, GotoFacts DEF CheckSize, env, stamps, busVars, dbVars, Batch, Saving
    <2>5. CASE CheckDelay(r)
      BY <2>5, TypeFacts, StartShapes
         DEF CheckDelay, At, env, stamps, busVars, dbVars, Batch, Saving, Receiver
    <2>6. CASE SaveFails(r) \/ OpenFails(r) \/ SaveUnopened(r)
      <3>1. UNCHANGED << clock, keymill, queueid, cacheData, db, disk, stored, pushed >>
        BY <2>6 DEF SaveFails, OpenFails, SaveUnopened, env, stamps, busVars, dbVars
      <3>2. Leave(r)
        BY <2>6 DEF SaveFails, OpenFails, SaveUnopened
      <3> QED
        BY <3>1, <3>2, TypeFacts, StartShapes DEF Leave, Batch, Saving, Receiver
    <2>7. CASE SaveThrows(r) \/ AddNull(r)
      BY <2>7, TypeFacts, StartShapes
         DEF SaveThrows, AddNull, stamps, busVars, dbVars, Batch, Saving, Receiver
    <2> QED
      BY <2>1, <2>2, <2>3, <2>4, <2>5, <2>6, <2>7
  <1>2. Pushing(r)'
    <2>1. CASE StartThreadDB(r)
      BY <2>1, TypeFacts, StartShapes DEF StartThreadDB, Pushing, Selecting
    <2>2. CASE ~StartThreadDB(r)
      <3>1. worker' = worker
        BY <2>2 DEF AddData, AddNull, CountDelay, CheckSize, CheckDelay, SaveFails,
           OpenFails, SaveUnopened, SaveThrows
      <3> QED
        BY <1>1, <3>1, PushingSame DEF Inv
    <2> QED
      BY <2>1, <2>2
  <1>3. KeysSpent(r)' /\ Stamping(r)' /\ Apart(r)'
    BY <1>1, QuietStep, EmptyIsMap
  <1> QED
    BY <1>1, <1>2, <1>3 DEF Inv, PersistedIsKept

LEMMA InvStamp ==
  ASSUME TypeInv, NEW r \in Receivers, Inv(r), PersistedIsKept,
         CheckSecond(r) \/ SetSecond(r) \/ MakeKey(r)
  PROVE  Inv(r)' /\ PersistedIsKept'
  <1>1. /\ UNCHANGED << clock, cacheData, db, disk, stored, pushed, worker >>
        /\ Batch(r) = Empty /\ Batch(r)' = Empty
    <2>1. CASE CheckSecond(r)
      <3>1. Goto(r, "second") \/ Goto(r, "key")
        BY <2>1 DEF CheckSecond
      <3> QED
        BY <2>1, <3>1, GotoFacts
           DEF CheckSecond, At, env, busVars, dbVars, Batch, Saving
    <2>2. CASE SetSecond(r)
      BY <2>2, GotoFacts DEF SetSecond, At, env, busVars, dbVars, Batch, Saving
    <2>3. CASE MakeKey(r)
      BY <2>3, TypeFacts
         DEF MakeKey, At, env, stamps, busVars, dbVars, Batch, Saving, Receiver
    <2> QED
      BY <2>1, <2>2, <2>3
  <1>2. Pushing(r)'
    BY <1>1, PushingSame DEF Inv
  <1>3. \A k \in DOMAIN cacheData \cup DOMAIN Batch(r) \cup DOMAIN db \cup DOMAIN disk :
            k[1] \in Nat /\ k[2] \in Nat
    BY TypeFacts, KeyNat
  <1>4. KeysSpent(r)' /\ Stamping(r)' /\ rec'[r].pc \notin Saving
    <2>1. CASE CheckSecond(r) /\ keymill = clock
      <3>1. rec[r].pc = "stamp" /\ rec'[r].pc = "key" /\ UNCHANGED << keymill,
      queueid >>
        BY <2>1, GotoFacts DEF CheckSecond, At
      <3> QED
        BY <1>1, <1>3, <2>1, <3>1, TypeFacts, EmptyIsMap
           DEF KeysSpent, Spent, Stamping, Inv, Saving
    <2>2. CASE CheckSecond(r) /\ keymill # clock
      <3>1. /\ rec[r].pc = "stamp" /\ rec'[r].pc = "second" /\ keymill' = keymill
            /\ queueid' = 0
        BY <2>2, GotoFacts DEF CheckSecond, At
      <3>2. keymill < clock
        BY <2>2, TypeFacts DEF Inv, Stamping
      <3> QED
        BY <1>1, <1>3, <3>1, <3>2, TypeFacts, EmptyIsMap
           DEF KeysSpent, Spent, Stamping, Inv, Saving
    <2>3. CASE SetSecond(r)
      <3>1. /\ rec[r].pc = "second" /\ rec'[r].pc = "key" /\ keymill' = clock
            /\ queueid' = queueid
        BY <2>3, GotoFacts DEF SetSecond, At
      <3> QED
        BY <1>1, <1>3, <3>1, TypeFacts, EmptyIsMap
           DEF KeysSpent, Spent, Stamping, Inv, Saving
    <2>4. CASE MakeKey(r)
      <3>1. /\ rec[r].pc = "key" /\ rec'[r].pc = "put"
            /\ rec'[r].key = << keymill, queueid >>
            /\ UNCHANGED << keymill, queueid >>
        BY <2>4, TypeFacts DEF MakeKey, At, Receiver, stamps
      <3> QED
        BY <1>1, <1>3, <3>1, TypeFacts, EmptyIsMap
           DEF KeysSpent, Spent, Stamping, Inv, Saving
    <2> QED
      BY <2>1, <2>2, <2>3, <2>4
  <1>5. Apart(r)'
    BY <1>1, <1>4 DEF Apart, Inv, Saving
  <1> QED
    BY <1>1, <1>2, <1>4, <1>5 DEF Inv, PersistedIsKept

(* The key about to be put is in none of the maps. *)
LEMMA NewKey ==
  ASSUME TypeInv, NEW r \in Receivers, Inv(r), rec[r].pc = "put"
  PROVE  rec[r].key \notin DOMAIN cacheData \cup DOMAIN db
  BY TypeFacts DEF Inv, KeysSpent, Spent, Stamping

LEMMA InvCache ==
  ASSUME TypeInv, NEW r \in Receivers, Inv(r), PersistedIsKept,
         PutCache(r) \/ CopyCache(r) \/ ClearCache(r)
  PROVE  Inv(r)' /\ PersistedIsKept'
  <1>1. UNCHANGED << clock, keymill, db, disk, stored, pushed, worker >>
    BY DEF PutCache, CopyCache, ClearCache, env, stamps, busVars, dbVars
  <1>2. Pushing(r)'
    BY <1>1, PushingSame DEF Inv
  <1>3. KeysSpent(r)' /\ Stamping(r)' /\ Apart(r)'
    <2>1. CASE PutCache(r)
      <3>1. /\ rec[r].pc = "put" /\ rec'[r].pc = "size" /\ queueid' = queueid + 1
            /\ rec[r].key = << keymill, queueid >>
            /\ Batch(r) = Empty /\ Batch(r)' = Empty
        BY <2>1, TypeFacts
           DEF PutCache, At, Goto, Receiver, Batch, Saving, Inv, Stamping
      <3>2. DOMAIN cacheData' = DOMAIN cacheData \cup {rec[r].key}
        BY <2>1 DEF PutCache, Over
      <3>3. \A k \in DOMAIN cacheData \cup DOMAIN db \cup DOMAIN disk :
                k[1] \in Nat /\ k[2] \in Nat
        BY TypeFacts, KeyNat
      <3>4. KeysSpent(r)'
        BY <1>1, <3>1, <3>2, <3>3, TypeFacts, EmptyIsMap DEF KeysSpent, Spent, Inv
      <3>5. Apart(r)'
        BY <1>1, <3>1, <3>2, NewKey, EmptyIsMap DEF Apart, Inv
      <3> QED
        BY <1>1, <3>1, <3>4, <3>5 DEF Stamping, Inv
    <2>2. CASE CopyCache(r)
      <3>1. /\ rec'[r].pc = "clear" /\ rec'[r].batch = cacheData
            /\ Batch(r)' = cacheData /\ rec[r].pc = "copy"
            /\ UNCHANGED << queueid, cacheData >>
        BY <2>2, TypeFacts DEF CopyCache, At, Receiver, Batch, Saving, stamps
      <3> QED
        BY <1>1, <3>1 DEF KeysSpent, Spent, Stamping, Apart, Inv
    <2>3. CASE ClearCache(r)
      <3>1. /\ rec'[r].pc = "save" /\ rec[r].pc = "clear"
            /\ Batch(r)' = Batch(r)
            /\ queueid' = queueid /\ cacheData' = Empty
        BY <2>3, TypeFacts DEF ClearCache, At, Goto, Receiver, Batch, Saving, stamps
      <3> QED
        BY <1>1, <3>1, EmptyIsMap DEF KeysSpent, Spent, Stamping, Apart, Inv
    <2> QED
      BY <2>1, <2>2, <2>3
  <1> QED
    BY <1>1, <1>2, <1>3 DEF Inv, PersistedIsKept

(* The saved batch meets no record; the records stay. *)
LEMMA SavedBatch ==
  ASSUME TypeInv, NEW r \in Receivers, Inv(r), Save(r)
  PROVE  /\ DOMAIN db' = DOMAIN Batch(r) \cup DOMAIN db
         /\ \A k \in DOMAIN db : db'[k] = db[k]
         /\ Held(db') = Held(Batch(r)) \cup Held(db)
  <1>1. db' = Over(Batch(r), db) /\ DOMAIN Batch(r) \cap DOMAIN db = {}
    BY DEF Save, At, Batch, Saving, Inv, Apart
  <1> QED
    <2>1. Batch(r) \in Map /\ db \in Map
      BY TypeFacts
    <2> DEFINE b == Batch(r)
               h == Over(b, db)
    <2> HIDE DEF b
    <2>2. /\ DOMAIN h = DOMAIN b \cup DOMAIN db
          /\ \A k \in DOMAIN db \ DOMAIN b : h[k] = db[k]
          /\ DOMAIN b \cap DOMAIN db = {} => Held(h) = Held(b) \cup Held(db)
      BY <2>1, OverMap DEF b
    <2>3. db' = h /\ DOMAIN b \cap DOMAIN db = {}
      BY <1>1 DEF b
    <2> HIDE DEF h
    <2> QED
      BY <2>2, <2>3 DEF b

LEMMA InvSave ==
  ASSUME TypeInv, NEW r \in Receivers, Inv(r), PersistedIsKept, Save(r)
  PROVE  Inv(r)' /\ PersistedIsKept'
  <1>1. /\ UNCHANGED << clock, keymill, queueid, cacheData, disk, stored, pushed,
                        worker >>
        /\ rec[r].pc = "save" /\ rec'[r].pc \in {"idle", "late"}
        /\ Batch(r)' = Empty
    BY TypeFacts, StartShapes
       DEF Save, Leave, At, env, stamps, busVars, Batch, Saving, Receiver
  <1>2. Pushing(r)'
    BY <1>1, SavedBatch DEF Pushing, Inv
  <1>3. KeysSpent(r)' /\ Stamping(r)'
    BY <1>1, SavedBatch, EmptyIsMap DEF KeysSpent, Spent, Stamping, Inv
  <1>4. cacheData = Empty
    BY <1>1 DEF Apart, Inv
  <1>5. Apart(r)'
    BY <1>1, <1>4, SavedBatch, EmptyIsMap DEF Apart, Inv
  <1> QED
    BY <1>1, <1>2, <1>3, <1>5, SavedBatch DEF Inv, PersistedIsKept

LEMMA InvAdvance ==
  ASSUME TypeInv, NEW r \in Receivers, Inv(r), PersistedIsKept, Advance(r)
  PROVE  Inv(r)' /\ PersistedIsKept'
  BY InvReceive, InvStamp, InvCache, InvSave DEF Advance

(* A deletion leaves the other records as they were. *)
LEMMA DeletedOnly ==
  ASSUME TypeInv, NEW r \in Receivers, db' = Without(db, worker[r].keys)
  PROVE  /\ DOMAIN db' = DOMAIN db \ worker[r].keys
         /\ \A k \in DOMAIN db \ worker[r].keys : db'[k] = db[k]
  <1>1. db \in Map
    BY TypeFacts
  <1> QED
    BY <1>1, WithoutMap

LEMMA InvWork ==
  ASSUME TypeInv, NEW r \in Receivers, Inv(r), PersistedIsKept, Work(r)
  PROVE  Inv(r)' /\ PersistedIsKept'
  <1>1. /\ UNCHANGED << clock, keymill, queueid, cacheData, disk, rec, stored >>
        /\ Batch(r)' = Batch(r)
    BY DEF Work, SelectList, PushRecord, PushNull, DeleteList, DeleteFails, env,
           stamps, busVars, dbVars, Batch
  <1>2. DOMAIN db' \subseteq DOMAIN db
    <2>1. CASE DeleteList(r)
      <3>1. db \in Map /\ db' = Without(db, worker[r].keys)
        BY <2>1, TypeFacts DEF DeleteList
      <3>2. DOMAIN Without(db, worker[r].keys) = DOMAIN db \ worker[r].keys
        BY <3>1, WithoutMap
      <3> QED
        BY <3>1, <3>2
    <2>2. CASE ~DeleteList(r)
      BY <2>2 DEF Work, SelectList, PushRecord, PushNull, DeleteFails, dbVars
    <2> QED
      BY <2>1, <2>2
  <1>3. KeysSpent(r)' /\ Stamping(r)' /\ Apart(r)'
    BY <1>1, <1>2 DEF Inv, KeysSpent, Spent, Stamping, Apart
  <1>4. Pushing(r)' /\ PersistedIsKept'
    <2>1. CASE SelectList(r)
      <3>1. PICK K \in Oldest(db) :
              worker' = [worker EXCEPT ![r] =
                [pc |-> "push", data |-> [k \in K |-> db[k]], todo |-> K, keys |-> {}]]
        BY <2>1 DEF SelectList
      <3>2. K \subseteq DOMAIN db /\ db' = db /\ pushed' = pushed
        BY <2>1 DEF SelectList, Oldest, busVars, dbVars
      <3> QED
        BY <1>1, <3>1, <3>2, TypeFacts DEF Pushing, PersistedIsKept
    <2>2. CASE PushRecord(r)
      <3>1. PICK k \in worker[r].todo :
              /\ pushed' = pushed \cup {worker[r].data[k]}
              /\ worker' = [worker EXCEPT ![r] =
                    [pc |-> "push", data |-> @.data, todo |-> @.todo \ {k},
                     keys |-> @.keys \cup {k}]]
        BY <2>2 DEF PushRecord
      <3>2. db' = db /\ worker[r].pc = "push"
        BY <2>2 DEF PushRecord, dbVars
      <3>3. /\ worker'[r].data = worker[r].data
            /\ worker'[r].keys = worker[r].keys \cup {k}
        BY <3>1, TypeFacts
      <3> QED
        BY <1>1, <3>1, <3>2, <3>3 DEF Pushing, PersistedIsKept, Inv
    <2>3. CASE PushNull(r)
      BY <1>1, <2>3, TypeFacts, StartShapes
         DEF PushNull, Pushing, PersistedIsKept, Selecting, busVars, dbVars
    <2>4. CASE DeleteList(r)
      <3>1. /\ db' = Without(db, worker[r].keys) /\ pushed' = pushed
            /\ worker[r].pc = "push" /\ worker' = [worker EXCEPT ![r] = Selecting]
        BY <2>4 DEF DeleteList, busVars, Selecting
      <3>2. /\ DOMAIN db' = DOMAIN db \ worker[r].keys
            /\ \A k \in DOMAIN db \ worker[r].keys : db'[k] = db[k]
        BY <3>1, DeletedOnly
      <3>3. \A k \in worker[r].keys : k \in DOMAIN db /\ db[k] \in pushed
        BY <3>1 DEF Inv, Pushing, TypeInv
      <3>4. Held(db) \subseteq Held(db') \cup pushed
        BY <3>2, <3>3 DEF Held
      <3>5. Pushing(r)'
        BY <3>1, TypeFacts, StartShapes DEF Pushing
      <3> QED
        BY <1>1, <3>1, <3>4, <3>5 DEF PersistedIsKept
    <2>5. CASE DeleteFails(r)
      BY <1>1, <2>5, TypeFacts, StartShapes
         DEF DeleteFails, Pushing, PersistedIsKept, Selecting, busVars, dbVars
    <2> QED
      BY <2>1, <2>2, <2>3, <2>4, <2>5 DEF Work
  <1> QED
    BY <1>3, <1>4 DEF Inv

LEMMA InvEnvironment ==
  ASSUME SteadyClock, TypeInv, NEW r \in Receivers, Inv(r), PersistedIsKept,
         OutData \/ ConsumerThrows \/ SetCall \/ Tick \/ WriteLog \/ Crash
  PROVE  Inv(r)' /\ PersistedIsKept'
  <1>1. \A k \in DOMAIN cacheData \cup DOMAIN Batch(r) \cup DOMAIN db \cup DOMAIN disk :
            k[1] \in Nat /\ k[2] \in Nat
    BY TypeFacts, KeyNat
  <1>2. CASE OutData \/ ConsumerThrows \/ SetCall
    <2>1. UNCHANGED << clock, keymill, queueid, cacheData, db, disk, rec, stored,
                       pushed, worker >>
      BY <1>2 DEF OutData, ConsumerThrows, SetCall, env, stamps, dbVars
    <2> QED
      BY <2>1 DEF Inv, KeysSpent, Spent, Stamping, Apart, Pushing, Batch,
                  PersistedIsKept
  <1>3. CASE Tick
    <2>1. /\ clock' = clock + 1
          /\ UNCHANGED << keymill, queueid, cacheData, db, disk, rec, stored,
                          pushed, worker >>
      BY <1>3 DEF Tick, SteadyClock, stamps, busVars, dbVars
    <2>2. Batch(r)' = Batch(r)
      BY <2>1 DEF Batch
    <2>3. KeysSpent(r)' /\ Stamping(r)'
      BY <1>1, <2>1, <2>2, TypeFacts DEF Inv, KeysSpent, Spent, Stamping
    <2> QED
      BY <2>1, <2>2, <2>3 DEF Inv, Apart, Pushing, PersistedIsKept
  <1>4. CASE WriteLog
    <2>1. /\ disk' = db /\ stored' = stored \cup Held(db)
          /\ UNCHANGED << clock, keymill, queueid, cacheData, db, rec, pushed, worker >>
      BY <1>4 DEF WriteLog, env, stamps, busVars
    <2> QED
      BY <2>1 DEF Inv, KeysSpent, Spent, Stamping, Apart, Pushing, Batch,
                  PersistedIsKept
  <1>5. CASE Crash
    <2>1. /\ rec'[r] = Ready /\ worker'[r] = NoWorker /\ keymill' = 0 /\ queueid' = 0
          /\ cacheData' = Empty /\ db' = disk
          /\ UNCHANGED << disk, stored, pushed >>
      BY <1>5 DEF Crash
    <2>2. clock' \in Nat /\ clock' > clock
      BY <1>5, TypeFacts, DataCenterAssumption
         DEF Crash, SteadyClock, DataCenterAssumption
    <2>3. Batch(r)' = Empty
      BY <2>1, StartShapes DEF Batch, Saving
    <2>4. \A k \in DOMAIN disk : k[1] <= clock
      BY <1>1, TypeFacts DEF Inv, KeysSpent, Spent, Stamping
    <2>5. KeysSpent(r)'
      BY <1>1, <2>1, <2>2, <2>3, <2>4, TypeFacts, EmptyIsMap, StartShapes
         DEF KeysSpent, Spent
    <2> QED
      BY <2>1, <2>2, <2>3, <2>5, EmptyIsMap, StartShapes
         DEF Inv, Stamping, Apart, Pushing, PersistedIsKept
  <1> QED
    BY <1>2, <1>3, <1>4, <1>5

IInv == TypeInv /\ PersistedIsKept /\ \A r \in Receivers : Inv(r)

LEMMA IInvNext ==
  ASSUME OneReceiver, SteadyClock, IInv, [Next]_vars
  PROVE  IInv'
  <1>1. TypeInv'
    BY TypeNext DEF IInv
  <1>2. CASE \E r \in Receivers : AddNull(r) \/ Advance(r) \/ \E p \in Packets : AddData(r, p)
    BY <1>1, <1>2, InvReceive, InvAdvance DEF IInv, OneReceiver
  <1>3. CASE \E r \in Receivers : Work(r)
    BY <1>1, <1>3, InvWork DEF IInv, OneReceiver
  <1>4. CASE OutData \/ ConsumerThrows \/ SetCall \/ Tick \/ WriteLog \/ Crash
    <2>1. CASE Receivers = {}
      BY <1>1, <1>4, <2>1
         DEF IInv, OutData, ConsumerThrows, SetCall, Tick, WriteLog, Crash,
             PersistedIsKept, dbVars, busVars
    <2>2. CASE Receivers # {}
      BY <1>1, <1>4, <2>2, InvEnvironment DEF IInv
    <2> QED
      BY <2>1, <2>2
  <1>5. CASE UNCHANGED vars
    BY <1>1, <1>5
       DEF IInv, vars, Inv, KeysSpent, Spent, Stamping, Apart, Pushing, Batch,
           PersistedIsKept
  <1> QED
    BY <1>2, <1>3, <1>4, <1>5 DEF Next

LEMMA IInvInit == Init => IInv
  BY TypeInit, InvInit, EmptyIsMap DEF IInv, Init, PersistedIsKept

(* Whatever crashes, fails or is thrown, one transport thread, a steady     *)
(* clock and restarts of a second or more never make the pipeline lose a    *)
(* packet that was on the disk before pushing it to the bus.                *)
THEOREM PersistedSafe ==
  ASSUME OneReceiver, SteadyClock
  PROVE  Spec => []PersistedIsKept
  <1>1. IInv => PersistedIsKept
    BY DEF IInv
  <1>2. IInv /\ [Next]_vars => IInv'
    BY IInvNext
  <1> QED
    BY <1>1, <1>2, IInvInit, PTL DEF Spec

(* Whatever fails or is thrown, with one transport thread, a steady clock   *)
(* and restarts of a second or more nothing leaves the database of a        *)
(* running process but what was pushed: no save puts another packet under   *)
(* a key that a worker has selected and will delete.                        *)
THEOREM OnlyPushedIsDeletedSafe ==
  ASSUME OneReceiver, SteadyClock
  PROVE  Spec => OnlyPushedIsDeleted
  <1>1. IInv /\ [Next]_vars =>
          [crashes' = crashes =>
              \A k \in DOMAIN db \ DOMAIN db' : db[k] \in pushed]_vars
    <2> SUFFICES ASSUME IInv, Next, crashes' = crashes,
                        NEW k \in DOMAIN db \ DOMAIN db'
                 PROVE  db[k] \in pushed
      BY DEF vars
    <2>1. CASE \E w \in Receivers : DeleteList(w)
      <3>1. PICK w \in Receivers : DeleteList(w)
        BY <2>1
      <3>2. db' = Without(db, worker[w].keys) /\ worker[w].pc = "push"
        BY <3>1 DEF DeleteList
      <3>3. k \in worker[w].keys
        BY <3>2, DeletedOnly DEF IInv
      <3> QED
        BY <3>2, <3>3 DEF IInv, Inv, Pushing, TypeInv
    <2>2. CASE \E r \in Receivers : Save(r)
      BY <2>2, SavedBatch DEF IInv
    <2>3. CASE Crash
      <3>1. crashes \in Nat /\ crashes' = crashes + 1
        BY <2>3, DataCenterAssumption DEF Crash, IInv, TypeInv, DataCenterAssumption
      <3> QED
        BY <3>1
    <2>4. CASE /\ ~Crash
               /\ \A r \in Receivers : ~Save(r) /\ ~DeleteList(r)
      <3>1. db' = db
        BY <2>4 DEF Next, AddData, AddNull, Advance, CountDelay, StartThreadDB,
           CheckSecond,
           SetSecond, MakeKey, PutCache, CheckSize, CopyCache, ClearCache,
           SaveFails, OpenFails, SaveUnopened, SaveThrows, CheckDelay, Work,
           SelectList, PushRecord,
           PushNull, DeleteFails, OutData, ConsumerThrows, SetCall, Tick,
           WriteLog, dbVars
      <3> QED
        BY <3>1
    <2> QED
      BY <2>1, <2>2, <2>3, <2>4
  <1>2. IInv /\ [Next]_vars => IInv'
    BY IInvNext
  <1> QED
    BY <1>1, <1>2, IInvInit, PTL DEF Spec, OnlyPushedIsDeleted

-----------------------------------------------------------------------------
(* No packet is lost where nothing fails.                                   *)

(* With one thread, Kept is what that thread holds, the cache and the       *)
(* database, before a step and after it.                                    *)
LEMMA KeptOf ==
  ASSUME OneReceiver, NEW r \in Receivers
  PROVE  /\ Kept = InHand(r) \cup InBatch(r) \cup Held(cacheData) \cup Held(db)
         /\ Kept' = InHand(r)' \cup InBatch(r)' \cup Held(cacheData') \cup Held(db')
  <1>1. Receivers = {r}
    BY DEF OneReceiver
  <1>2. InThreads = InHand(r) \cup InBatch(r)
    BY <1>1 DEF InThreads
  <1>3. InThreads' = InHand(r)' \cup InBatch(r)'
    BY <1>1 DEF InThreads
  <1>4. Held(cacheData)' = Held(cacheData') /\ Held(db)' = Held(db')
    BY DEF Held
  <1> QED
    BY <1>2, <1>3, <1>4 DEF Kept

(* A step that takes no packet and touches no place one can be in.          *)
LEMMA KeptSame ==
  ASSUME OneReceiver, NEW r \in Receivers, NoPacketLost,
         UNCHANGED << cacheData, db >>, fresh' = fresh, pushed \subseteq pushed',
         InHand(r) \subseteq InHand(r)', InBatch(r) \subseteq InBatch(r)'
  PROVE  NoPacketLost'
  <1>1. Kept \subseteq Kept'
    BY KeptOf
  <1> QED
    BY <1>1 DEF NoPacketLost

LEMMA LostAdvance ==
  ASSUME OneReceiver, MaxFaults = 0, TypeInv, NEW r \in Receivers, Inv(r),
         NoPacketLost,
         \/ \E p \in Packets : AddData(r, p)
         \/ AddNull(r) \/ Advance(r)
  PROVE  NoPacketLost'
  <1>1. CASE \E p \in Packets : AddData(r, p)
    <2>1. PICK p \in Packets : AddData(r, p)
      BY <1>1
    <2>2. rec'[r] = [Ready EXCEPT !.pc = "delay", !.packet = p, !.n = delayNum]
      BY <2>1, TypeFacts DEF AddData
    <2>3. rec'[r].pc = "delay" /\ rec'[r].packet = p
      BY <2>2, StartShapes DEF Receiver
    <2>4. /\ rec[r].pc = "idle" /\ fresh' = fresh \ {p}
          /\ UNCHANGED << cacheData, db, pushed >>
      BY <2>1 DEF AddData, At, dbVars
    <2>5. Kept = Held(cacheData) \cup Held(db) /\ Kept' = {p} \cup Kept
      BY <2>3, <2>4, KeptOf DEF InHand, InBatch, Receiving, Saving
    <2> QED
      BY <2>4, <2>5 DEF NoPacketLost
  <1>2. CASE \/ CountDelay(r) \/ StartThreadDB(r) \/ CheckSecond(r) \/ SetSecond(r)
             \/ MakeKey(r)
    <2>1. UNCHANGED << cacheData, db, fresh, pushed >>
      BY <1>2 DEF CountDelay, StartThreadDB, CheckSecond, SetSecond, MakeKey,
                  dbVars, busVars
    <2>2. /\ rec[r].pc \in Receiving /\ rec'[r].pc \in Receiving
          /\ rec'[r].packet = rec[r].packet
      <3>1. CASE MakeKey(r)
        BY <3>1, TypeFacts DEF MakeKey, At, Receiver, Receiving
      <3>2. CASE CountDelay(r) \/ StartThreadDB(r) \/ CheckSecond(r) \/ SetSecond(r)
        <4>1. PICK pc \in Receiving : Goto(r, pc) /\ rec[r].pc \in Receiving
          BY <3>2 DEF CountDelay, StartThreadDB, CheckSecond, SetSecond, At,
                      Receiving
        <4> QED
          BY <4>1, GotoFacts
      <3> QED
        BY <1>2, <3>1, <3>2
    <2>3. InHand(r)' = InHand(r) /\ InBatch(r) = {}
      BY <2>2 DEF InHand, InBatch, Receiving, Saving
    <2> QED
      BY <2>1, <2>3, KeptSame
  <1>3. CASE PutCache(r)
    <2>1. /\ rec[r].pc = "put" /\ UNCHANGED << fresh, db, pushed >>
          /\ cacheData' = Over([x \in {rec[r].key} |-> rec[r].packet], cacheData)
      BY <1>3 DEF PutCache, At, dbVars, busVars
    <2>2. rec[r].key \in Key /\ rec[r].packet \in Packets
      BY <2>1, TypeFacts DEF TypeInv, Receiver, Receiving
    <2>3. Held(cacheData') = {rec[r].packet} \cup Held(cacheData)
      <3> DEFINE one == [x \in {rec[r].key} |-> rec[r].packet]
      <3>1. one \in Map /\ Held(one) = {rec[r].packet} /\ cacheData \in Map
        BY <2>2, OneIsMap, TypeFacts
      <3>2. DOMAIN one \cap DOMAIN cacheData = {}
        BY <2>1, NewKey
      <3> HIDE DEF one
      <3>3. Held(Over(one, cacheData)) = Held(one) \cup Held(cacheData)
        BY <3>1, <3>2, OverMap
      <3> QED
        BY <2>1, <3>1, <3>3 DEF one
    <2>4. InHand(r) = {rec[r].packet} /\ InBatch(r) = {}
      BY <2>1 DEF InHand, InBatch, Receiving, Saving
    <2>5. Kept \subseteq Kept'
      BY <2>1, <2>3, <2>4, KeptOf
    <2> QED
      BY <2>1, <2>5 DEF NoPacketLost
  <1>4. CASE CheckSize(r) \/ CheckDelay(r) \/ CopyCache(r)
    <2>1. UNCHANGED << cacheData, db, fresh, pushed >>
      BY <1>4 DEF CheckSize, CheckDelay, CopyCache, dbVars, busVars
    <2>2. rec[r].pc \in {"size", "late", "copy"}
      BY <1>4 DEF CheckSize, CheckDelay, CopyCache, At
    <2>3. InHand(r) = {} /\ InBatch(r) = {}
      BY <2>2 DEF InHand, InBatch, Receiving, Saving
    <2> QED
      BY <2>1, <2>3, KeptSame
  <1>5. CASE ClearCache(r)
    <2>1. /\ rec[r].pc = "clear" /\ rec'[r].pc = "save"
          /\ rec'[r].batch = rec[r].batch /\ rec[r].batch = cacheData
          /\ cacheData' = Empty /\ UNCHANGED << db, fresh, pushed >>
      BY <1>5, GotoFacts DEF ClearCache, At, dbVars, busVars, Inv, Apart
    <2>2. /\ InHand(r) = {} /\ InBatch(r) = Held(cacheData)
          /\ InBatch(r)' = Held(cacheData)
      BY <2>1 DEF InHand, InBatch, Receiving, Saving, Held
    <2>3. Kept \subseteq Kept'
      BY <2>1, <2>2, KeptOf
    <2> QED
      BY <2>1, <2>3 DEF NoPacketLost
  <1>6. CASE Save(r)
    <2>1. /\ rec[r].pc = "save" /\ UNCHANGED << cacheData, fresh, pushed >>
      BY <1>6 DEF Save, At, busVars
    <2>2. Held(db') = InBatch(r) \cup Held(db) /\ InHand(r) = {}
      BY <1>6, <2>1, SavedBatch DEF InHand, InBatch, Receiving, Saving, Batch
    <2>3. Kept \subseteq Kept'
      BY <2>1, <2>2, KeptOf
    <2> QED
      BY <2>1, <2>3 DEF NoPacketLost
  <1>7. ~SaveFails(r) /\ ~OpenFails(r) /\ ~SaveUnopened(r) /\ ~SaveThrows(r) /\ ~AddNull(r)
    BY DEF SaveFails, OpenFails, SaveUnopened, SaveThrows, AddNull, TypeInv
  <1> QED
    BY <1>1, <1>2, <1>3, <1>4, <1>5, <1>6, <1>7 DEF Advance

LEMMA LostWork ==
  ASSUME OneReceiver, TypeInv, NEW r \in Receivers, Inv(r), NoPacketLost, Work(r)
  PROVE  NoPacketLost'
  <1>1. UNCHANGED << rec, cacheData, fresh >>
    BY DEF Work, SelectList, PushRecord, PushNull, DeleteList, DeleteFails, stamps
  <1>2. InHand(r)' = InHand(r) /\ InBatch(r)' = InBatch(r)
    BY <1>1 DEF InHand, InBatch, Held
  <1>3. CASE DeleteList(r)
    <2>1. /\ db' = Without(db, worker[r].keys) /\ pushed' = pushed
          /\ worker[r].pc = "push"
      BY <1>3 DEF DeleteList, busVars
    <2>2. /\ DOMAIN db' = DOMAIN db \ worker[r].keys
          /\ \A k \in DOMAIN db \ worker[r].keys : db'[k] = db[k]
      BY <2>1, DeletedOnly
    <2>3. \A k \in worker[r].keys : k \in DOMAIN db /\ db[k] \in pushed
      BY <2>1 DEF Inv, Pushing, TypeInv
    <2>4. Held(db) \subseteq Held(db') \cup pushed
      BY <2>2, <2>3 DEF Held
    <2>5. Kept \subseteq Kept' \cup pushed
      BY <1>1, <1>2, <2>4, KeptOf
    <2> QED
      BY <1>1, <2>1, <2>5 DEF NoPacketLost
  <1>4. CASE ~DeleteList(r)
    <2>1. db' = db /\ pushed \subseteq pushed'
      BY <1>4 DEF Work, SelectList, PushRecord, PushNull, DeleteFails, dbVars, busVars
    <2> QED
      BY <1>1, <1>2, <2>1, KeptSame
  <1> QED
    BY <1>3, <1>4

(* With one transport thread, a clock that is not set back, no crash and no *)
(* failing transaction, every packet the pipeline took is kept until it has *)
(* been pushed: no key is made twice, so nothing is ever overwritten.       *)
THEOREM NoPacketLostSafe ==
  ASSUME OneReceiver, SteadyClock, MaxCrash = 0, MaxFaults = 0
  PROVE  Spec => []NoPacketLost
  <1>1. Init => NoPacketLost
    BY DEF Init, NoPacketLost
  <1>2. IInv /\ NoPacketLost /\ [Next]_vars => NoPacketLost'
    <2> SUFFICES ASSUME IInv, NoPacketLost, [Next]_vars PROVE NoPacketLost'
      OBVIOUS
    <2>1. CASE \E r \in Receivers : AddNull(r) \/ Advance(r) \/ \E p \in Packets : AddData(r, p)
      BY <2>1, LostAdvance DEF IInv
    <2>2. CASE \E r \in Receivers : Work(r)
      BY <2>2, LostWork DEF IInv
    <2>3. CASE OutData \/ ConsumerThrows \/ SetCall \/ Tick \/ WriteLog
      <3>1. UNCHANGED << fresh, rec, cacheData, db, pushed >>
        BY <2>3 DEF OutData, ConsumerThrows, SetCall, Tick, WriteLog, stamps,
                    dbVars, busVars
      <3> QED
        BY <3>1 DEF NoPacketLost, Kept, InThreads, InHand, InBatch, Held
    <2>4. ~Crash
      BY DEF IInv, TypeInv, Crash
    <2>5. CASE UNCHANGED vars
      <3>1. UNCHANGED << fresh, rec, cacheData, db, pushed >>
        BY <2>5 DEF vars
      <3> QED
        BY <3>1 DEF NoPacketLost, Kept, InThreads, InHand, InBatch, Held
    <2> QED
      BY <2>1, <2>2, <2>3, <2>4, <2>5 DEF Next
  <1>3. IInv /\ [Next]_vars => IInv'
    BY IInvNext
  <1> QED
    BY <1>1, <1>2, <1>3, IInvInit, PTL DEF Spec
=============================================================================
