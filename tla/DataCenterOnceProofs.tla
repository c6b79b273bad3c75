------------------------ MODULE DataCenterOnceProofs ------------------------
(***************************************************************************)
(* Where nothing fails, the delayed-data pipeline pushes no packet twice;  *)
(* where nothing but a deserialisation does, it is a Relay.                *)
(***************************************************************************)
EXTENDS DataCenterProofs

(* No crash and no failing transaction or consumer; a record may still be   *)
(* one that does not deserialise.                                           *)
Faultless == OneReceiver /\ SteadyClock /\ MaxCrash = 0 /\ MaxFaults = 0

Undisturbed == Faultless /\ Poison = {}

OneToOne(f) == \A k, l \in DOMAIN f : f[k] = f[l] => k = l

(* The packets that the one thread r holds on their way to the database.    *)
Waiting(r) == InHand(r) \cup Held(cacheData) \cup Held(Batch(r))

(* Each packet is in one place; one that was pushed is in the database only *)
(* until its worker, which has noted it, deletes it.                        *)
OnePlace(r) ==
    /\ fresh \cap (Waiting(r) \cup Held(db) \cup pushed) = {}
    /\ Waiting(r) \cap (Held(db) \cup pushed) = {}
    /\ InHand(r) \cap (Held(cacheData) \cup Held(Batch(r))) = {}
    /\ OneToOne(cacheData) /\ OneToOne(Batch(r)) /\ OneToOne(db)

Noted(w) ==
    /\ \A k \in DOMAIN db :
          db[k] \in pushed => worker[w].pc = "push" /\ k \in worker[w].keys
    /\ worker[w].todo \cap worker[w].keys = {}

OneWorker(r) == ~persist \/ rec[r].pc = "start" => worker[r].pc = "none"

Once(r) == OnePlace(r) /\ Noted(r) /\ OneWorker(r)

OnceInv == \A r \in Receivers : Once(r)

-----------------------------------------------------------------------------
LEMMA OnceInit == Init => OnceInv
  <1> SUFFICES ASSUME Init, NEW r \in Receivers PROVE Once(r)
    BY DEF OnceInv
  <1>1. InHand(r) = {} /\ Batch(r) = Empty
    BY StartShapes DEF Init, InHand, Batch, Receiving, Saving
  <1> QED
    BY <1>1, EmptyIsMap, StartShapes
       DEF Init, Once, OnePlace, Noted, OneWorker, Waiting, OneToOne

(* Two maps without a key or a packet in common.                            *)
LEMMA OneToOneOver ==
  ASSUME NEW f \in Map, NEW g \in Map, OneToOne(f), OneToOne(g),
         DOMAIN f \cap DOMAIN g = {}, Held(f) \cap Held(g) = {}
  PROVE  OneToOne(Over(f, g))
  <1> DEFINE h == Over(f, g)
  <1>1. /\ DOMAIN h = DOMAIN f \cup DOMAIN g
        /\ \A k \in DOMAIN f : h[k] = f[k]
        /\ \A k \in DOMAIN g \ DOMAIN f : h[k] = g[k]
    BY OverMap
  <1> HIDE DEF h
  <1>2. \A k \in DOMAIN f : f[k] \in Held(f)
    BY DEF Held
  <1>3. \A k \in DOMAIN g : g[k] \in Held(g)
    BY DEF Held
  <1>4. OneToOne(h)
    BY <1>1, <1>2, <1>3 DEF OneToOne
  <1> QED
    BY <1>4 DEF h

(* A step of the thread that moves no packet but out of its hands.          *)
LEMMA OnceSame ==
  ASSUME NEW r \in Receivers, Once(r), UNCHANGED << fresh, cacheData, db, pushed >>,
         InHand(r)' \subseteq InHand(r),
         Batch(r)' \in {Batch(r), cacheData, Empty},
         worker'[r] = worker[r], OneWorker(r)'
  PROVE  Once(r)'
  <1>1. Noted(r)'
    BY DEF Once, Noted
  <1>2. Held(cacheData)' = Held(cacheData) /\ Held(db)' = Held(db)
    BY DEF Held
  <1>3. Held(Batch(r))' = Held(Batch(r)') /\ OneToOne(Batch(r))' = OneToOne(Batch(r)')
    BY DEF Held, OneToOne
  <1>4. Held(Batch(r)') \subseteq Held(Batch(r)) \cup Held(cacheData)
    BY EmptyIsMap
  <1>5. OneToOne(Batch(r)') /\ OneToOne(cacheData)' /\ OneToOne(db)'
    BY EmptyIsMap DEF Once, OnePlace, OneToOne
  <1>6. OnePlace(r)'
    BY <1>2, <1>3, <1>4, <1>5 DEF Once, OnePlace, Waiting
  <1> QED
    BY <1>1, <1>6 DEF Once

LEMMA OnceAdvance ==
  ASSUME Undisturbed, TypeInv, NEW r \in Receivers, Inv(r), Once(r),
         \/ \E p \in Packets : AddData(r, p)
         \/ AddNull(r) \/ Advance(r)
  PROVE  Once(r)'
  <1>1. CASE \E p \in Packets : AddData(r, p)
    <2>1. PICK p \in Packets : AddData(r, p)
      BY <1>1
    <2>2. rec'[r] = [Ready EXCEPT !.pc = "delay", !.packet = p, !.n = delayNum]
      BY <2>1, TypeFacts DEF AddData
    <2>3. rec'[r].pc = "delay" /\ rec'[r].packet = p
      BY <2>2, StartShapes DEF Receiver
    <2>4. /\ rec[r].pc = "idle" /\ p \in fresh /\ fresh' = fresh \ {p}
          /\ UNCHANGED << cacheData, db, pushed, persist, worker >>
      BY <2>1 DEF AddData, At, dbVars
    <2>5. InHand(r)' = {p} /\ Batch(r)' = Empty /\ Held(Empty) = {}
      BY <2>3, EmptyIsMap DEF InHand, Batch, Receiving, Saving
    <2>6. Held(cacheData)' = Held(cacheData) /\ Held(db)' = Held(db)
      BY <2>4 DEF Held
    <2>7. Held(Batch(r))' = {} /\ OneToOne(Batch(r))'
      BY <2>5, EmptyIsMap DEF Held, OneToOne
    <2>8. OneToOne(cacheData)' /\ OneToOne(db)'
      BY <2>4 DEF Once, OnePlace, OneToOne
    <2>9. OnePlace(r)'
      BY <2>4, <2>5, <2>6, <2>7, <2>8 DEF Once, OnePlace, Waiting
    <2> QED
      BY <2>3, <2>4, <2>9 DEF Once, Noted, OneWorker
  <1>2. CASE StartThreadDB(r)
    <2>1. /\ rec[r].pc = "start" /\ persist' = TRUE /\ Goto(r, "stamp")
          /\ worker'[r] = Selecting
          /\ UNCHANGED << fresh, cacheData, db, pushed >>
      BY <1>2, TypeFacts DEF StartThreadDB, At, Selecting, busVars, dbVars
    <2>2. rec'[r].pc = "stamp" /\ rec'[r].packet = rec[r].packet
      BY <2>1, GotoFacts
    <2>3. InHand(r)' = InHand(r) /\ Batch(r)' = Batch(r)
      BY <2>1, <2>2 DEF InHand, Batch, Receiving, Saving
    <2>4. Held(cacheData)' = Held(cacheData) /\ Held(db)' = Held(db)
      BY <2>1 DEF Held
    <2>5. Held(Batch(r))' = Held(Batch(r)) /\ OneToOne(Batch(r))'
      BY <2>3 DEF Held, Once, OnePlace, OneToOne
    <2>6. OneToOne(cacheData)' /\ OneToOne(db)'
      BY <2>1 DEF Once, OnePlace, OneToOne
    <2>7. OnePlace(r)'
      BY <2>1, <2>3, <2>4, <2>5, <2>6 DEF Once, OnePlace, Waiting
    <2>8. worker[r].pc = "none"
      BY <2>1 DEF Once, OneWorker
    <2> QED
      BY <2>1, <2>2, <2>7, <2>8, StartShapes DEF Once, Noted, OneWorker
  <1>3. CASE \/ CountDelay(r) \/ CheckSecond(r) \/ SetSecond(r) \/ MakeKey(r)
    <2>1. UNCHANGED << cacheData, db, fresh, pushed, persist, worker >>
      BY <1>3 DEF CountDelay, CheckSecond, SetSecond, MakeKey, dbVars, busVars
    <2>2. /\ rec[r].pc \in Receiving /\ rec'[r].pc \in Receiving
          /\ rec'[r].packet = rec[r].packet
          /\ rec'[r].pc = "start" => ~persist
      <3>1. CASE MakeKey(r)
        BY <3>1, TypeFacts DEF MakeKey, At, Receiver, Receiving
      <3>2. CASE CountDelay(r) \/ CheckSecond(r) \/ SetSecond(r)
        <4>1. PICK pc \in Receiving :
                  /\ Goto(r, pc) /\ rec[r].pc \in Receiving
                  /\ pc = "start" => ~persist
          BY <3>2 DEF CountDelay, CheckSecond, SetSecond, At, Receiving
        <4>2. rec'[r].pc = pc /\ rec'[r].packet = rec[r].packet
          BY <4>1, GotoFacts
        <4> QED
          BY <4>1, <4>2
      <3> QED
        BY <1>3, <3>1, <3>2
    <2>3. InHand(r)' = InHand(r) /\ Batch(r)' = Empty
      BY <2>2 DEF InHand, Batch, Receiving, Saving
    <2>4. OneWorker(r)'
      BY <2>1, <2>2 DEF Once, OneWorker
    <2> QED
      BY <2>1, <2>3, <2>4, OnceSame
  <1>4. CASE PutCache(r)
    <2> DEFINE one == [x \in {rec[r].key} |-> rec[r].packet]
               grown == Over(one, cacheData)
    <2>1. /\ rec[r].pc = "put" /\ UNCHANGED << fresh, db, pushed, persist, worker >>
          /\ cacheData' = grown /\ rec'[r].pc = "size"
      BY <1>4, GotoFacts DEF PutCache, At, dbVars, busVars
    <2>2. rec[r].key \in Key /\ rec[r].packet \in Packets
      BY <2>1, TypeFacts DEF TypeInv, Receiver, Receiving
    <2>3. /\ InHand(r) = {rec[r].packet} /\ InHand(r)' = {}
          /\ Batch(r) = Empty /\ Batch(r)' = Empty
      BY <2>1 DEF InHand, Batch, Receiving, Saving
    <2>4. /\ one \in Map /\ Held(one) = {rec[r].packet} /\ cacheData \in Map
          /\ DOMAIN one \cap DOMAIN cacheData = {} /\ OneToOne(one)
      BY <2>1, <2>2, OneIsMap, TypeFacts, NewKey DEF OneToOne
    <2> HIDE DEF one
    <2>5. /\ Held(grown) = InHand(r) \cup Held(cacheData)
          /\ OneToOne(grown)
      <3>1. Held(one) \cap Held(cacheData) = {} /\ OneToOne(cacheData)
        BY <2>3, <2>4 DEF Once, OnePlace
      <3>2. Held(grown) = Held(one) \cup Held(cacheData)
        BY <2>4, OverMap
      <3>3. OneToOne(grown)
        BY <2>4, <3>1, OneToOneOver
      <3> QED
        BY <2>3, <2>4, <3>2, <3>3
    <2> HIDE DEF grown
    <2>6. Held(cacheData)' = Held(grown) /\ OneToOne(cacheData)' /\ Held(db)' = Held(db)
      BY <2>1, <2>5 DEF Held, OneToOne
    <2>7. Held(Batch(r))' = {} /\ OneToOne(Batch(r))' /\ OneToOne(db)'
      BY <2>1, <2>3, EmptyIsMap DEF Held, OneToOne, Once, OnePlace
    <2>8. OnePlace(r)'
      BY <2>1, <2>3, <2>5, <2>6, <2>7 DEF Once, OnePlace, Waiting
    <2> QED
      BY <2>1, <2>8 DEF Once, Noted, OneWorker
  <1>5. CASE CheckSize(r) \/ CheckDelay(r) \/ CopyCache(r)
    <2>1. UNCHANGED << cacheData, db, fresh, pushed, persist, worker >>
      BY <1>5 DEF CheckSize, CheckDelay, CopyCache, dbVars, busVars
    <2>2. /\ rec'[r].pc \in {"copy", "late", "clear", "idle"}
          /\ rec'[r].pc = "clear" => rec'[r].batch = cacheData
      <3>1. CASE CheckSize(r)
        BY <3>1, GotoFacts DEF CheckSize
      <3>2. CASE CheckDelay(r)
        BY <3>2, TypeFacts, StartShapes DEF CheckDelay, Receiver
      <3>3. CASE CopyCache(r)
        BY <3>3, TypeFacts DEF CopyCache, Receiver
      <3> QED
        BY <1>5, <3>1, <3>2, <3>3
    <2>3. InHand(r)' = {} /\ Batch(r)' \in {cacheData, Empty}
      BY <2>2 DEF InHand, Batch, Receiving, Saving
    <2>4. OneWorker(r)'
      BY <2>1, <2>2 DEF Once, OneWorker
    <2> QED
      BY <2>1, <2>3, <2>4, OnceSame
  <1>6. CASE ClearCache(r)
    <2>1. /\ rec[r].pc = "clear" /\ rec'[r].pc = "save"
          /\ rec'[r].batch = rec[r].batch /\ rec[r].batch = cacheData
          /\ cacheData' = Empty /\ UNCHANGED << db, fresh, pushed, persist, worker >>
      BY <1>6, GotoFacts DEF ClearCache, At, dbVars, busVars, Inv, Apart
    <2>2. /\ InHand(r) = {} /\ InHand(r)' = {}
          /\ Batch(r) = cacheData /\ Batch(r)' = Batch(r)
      BY <2>1 DEF InHand, Batch, Receiving, Saving
    <2>3. /\ Held(Batch(r))' = Held(Batch(r)) /\ OneToOne(Batch(r))'
          /\ Held(cacheData)' = {} /\ OneToOne(cacheData)'
          /\ Held(db)' = Held(db) /\ OneToOne(db)'
      BY <2>1, <2>2, EmptyIsMap DEF Held, OneToOne, Once, OnePlace
    <2>4. OnePlace(r)'
      BY <2>1, <2>2, <2>3 DEF Once, OnePlace, Waiting
    <2> QED
      BY <2>1, <2>4 DEF Once, Noted, OneWorker
  <1>7. CASE Save(r)
    <2>1. /\ rec[r].pc = "save" /\ rec'[r].pc \in {"idle", "late"}
          /\ UNCHANGED << cacheData, fresh, pushed, persist, worker >>
      BY <1>7, TypeFacts, StartShapes DEF Save, Leave, At, busVars, Receiver
    <2>2. /\ InHand(r) = {} /\ InHand(r)' = {} /\ Batch(r)' = Empty
      BY <2>1 DEF InHand, Batch, Receiving, Saving
    <2>3. /\ db' = Over(Batch(r), db) /\ DOMAIN Batch(r) \cap DOMAIN db = {}
          /\ Batch(r) \in Map /\ db \in Map
      BY <1>7, TypeFacts DEF Save, At, Batch, Saving, Inv, Apart
    <2>4. /\ Held(db') = Held(Batch(r)) \cup Held(db)
          /\ OneToOne(db')
      <3> DEFINE b == Batch(r)
                 h == Over(b, db)
      <3> HIDE DEF b
      <3>1. OneToOne(h)
        BY <2>3, OneToOneOver DEF b, Once, OnePlace, Waiting
      <3> QED
        BY <1>7, <2>3, <3>1, SavedBatch DEF b
    <2>5. /\ Held(db)' = Held(db') /\ OneToOne(db)'
          /\ Held(cacheData)' = Held(cacheData) /\ OneToOne(cacheData)'
          /\ Held(Batch(r))' = {} /\ OneToOne(Batch(r))'
      BY <2>1, <2>2, <2>4, EmptyIsMap DEF Held, OneToOne, Once, OnePlace
    <2>6. OnePlace(r)'
      <3>1. Held(db)' = Held(Batch(r)) \cup Held(db)
        BY <2>4, <2>5
      <3>2. Waiting(r)' = Held(cacheData) /\ Held(cacheData) \subseteq Waiting(r)
        BY <2>2, <2>5 DEF Waiting
      <3>3. Held(cacheData) = {}
        BY <2>1, EmptyIsMap DEF Inv, Apart
      <3>4. fresh' \cap (Held(db)' \cup pushed') = {}
        BY <2>1, <3>1 DEF Once, OnePlace, Waiting
      <3> QED
        BY <2>2, <2>5, <3>2, <3>3, <3>4 DEF OnePlace
    <2>7. \A k \in DOMAIN db' : db'[k] \in pushed => k \in DOMAIN db /\ db'[k] = db[k]
      <3>1. /\ DOMAIN db' = DOMAIN Batch(r) \cup DOMAIN db
            /\ \A k \in DOMAIN db : db'[k] = db[k]
        BY <1>7, SavedBatch
      <3>2. ASSUME NEW k \in DOMAIN Batch(r) PROVE db'[k] \notin pushed
        <4> DEFINE b == Batch(r)
                   h == Over(b, db)
        <4> HIDE DEF b
        <4>1. \A l \in DOMAIN b : h[l] = b[l]
          BY <2>3, OverMap DEF b
        <4>2. db' = h
          BY <2>3 DEF b
        <4> HIDE DEF h
        <4>3. k \in DOMAIN b
          BY <3>2 DEF b
        <4>4. b[k] \in Held(b)
          BY <4>3 DEF Held
        <4>5. b[k] \notin pushed
          BY <4>4 DEF b, Once, OnePlace, Waiting
        <4> QED
          BY <4>1, <4>2, <4>3, <4>5
      <3> QED
        BY <3>1, <3>2
    <2> QED
      BY <2>1, <2>6, <2>7 DEF Once, Noted, OneWorker
  <1>8. ~SaveFails(r) /\ ~OpenFails(r) /\ ~SaveUnopened(r) /\ ~SaveThrows(r) /\ ~AddNull(r)
    BY DEF SaveFails, OpenFails, SaveUnopened, SaveThrows, AddNull, TypeInv,
           Undisturbed, Faultless
  <1> QED
    BY <1>1, <1>2, <1>3, <1>4, <1>5, <1>6, <1>7, <1>8 DEF Advance

-----------------------------------------------------------------------------
LEMMA OnceWork ==
  ASSUME Undisturbed, TypeInv, NEW w \in Receivers, Inv(w), Once(w), Work(w)
  PROVE  Once(w)'
  <1>1. /\ UNCHANGED << rec, cacheData, fresh, persist >>
        /\ persist /\ rec[w].pc # "start"
    <2>1. UNCHANGED << rec, cacheData, fresh, persist >> /\ worker[w].pc # "none"
      BY DEF Work, SelectList, PushRecord, PushNull, DeleteList, DeleteFails, stamps
    <2> QED
      BY <2>1 DEF Once, OneWorker, TypeInv
  <1>2. InHand(w)' = InHand(w) /\ Batch(w)' = Batch(w) /\ OneWorker(w)'
    BY <1>1 DEF InHand, Batch, OneWorker
  <1>3. /\ Held(cacheData)' = Held(cacheData) /\ Held(Batch(w))' = Held(Batch(w))
        /\ OneToOne(cacheData)' /\ OneToOne(Batch(w))'
    BY <1>1, <1>2 DEF Held, OneToOne, Once, OnePlace
  <1>4. ASSUME Held(db)' \subseteq Held(db), pushed' \subseteq pushed \cup Held(db),
               OneToOne(db)'
        PROVE  OnePlace(w)'
    BY <1>1, <1>2, <1>3, <1>4 DEF Once, OnePlace, Waiting
  <1>5. CASE SelectList(w)
    <2>1. UNCHANGED << db, pushed >> /\ worker[w].pc = "select"
      BY <1>5 DEF SelectList, dbVars, busVars
    <2>2. worker'[w].todo \cap worker'[w].keys = {}
      BY <1>5, TypeFacts DEF SelectList
    <2>3. Held(db)' = Held(db) /\ OneToOne(db)'
      BY <2>1 DEF Held, Once, OnePlace, OneToOne
    <2>4. OnePlace(w)'
      BY <1>4, <2>1, <2>3
    <2> QED
      BY <1>2, <2>1, <2>2, <2>4 DEF Once, Noted
  <1>6. CASE PushRecord(w)
    <2>1. PICK k \in worker[w].todo :
             /\ pushed' = pushed \cup {worker[w].data[k]}
             /\ worker' = [worker EXCEPT ![w] =
                   [pc |-> "push", data |-> @.data, todo |-> @.todo \ {k},
                    keys |-> @.keys \cup {k}]]
      BY <1>6 DEF PushRecord
    <2>2. db' = db /\ worker[w].pc = "push"
      BY <1>6 DEF PushRecord, dbVars
    <2>3. /\ worker'[w].pc = "push" /\ worker'[w].todo = worker[w].todo \ {k}
          /\ worker'[w].keys = worker[w].keys \cup {k}
      BY <2>1, TypeFacts
    <2>4. k \in DOMAIN db /\ worker[w].data[k] = db[k]
      BY <2>1, <2>2 DEF TypeInv, Inv, Pushing
    <2>5. \A l \in DOMAIN db : db[l] = db[k] => l = k
      BY <2>4 DEF Once, OnePlace, OneToOne
    <2>6. OnePlace(w)'
      <3>1. pushed' \subseteq pushed \cup Held(db)
        BY <2>1, <2>4 DEF Held
      <3> QED
        BY <1>4, <2>2, <3>1 DEF Held, Once, OnePlace, OneToOne
    <2>7. Noted(w)'
      BY <2>1, <2>2, <2>3, <2>4, <2>5 DEF Once, Noted
    <2> QED
      BY <1>2, <2>6, <2>7 DEF Once
  <1>7. ~PushNull(w)
    <2> SUFFICES ASSUME PushNull(w) PROVE FALSE
      OBVIOUS
    <2> QED
      BY DEF PushNull, Undisturbed
  <1>8. CASE DeleteList(w)
    <2>1. /\ db' = Without(db, worker[w].keys) /\ pushed' = pushed
          /\ worker'[w] = Selecting
      BY <1>8, TypeFacts DEF DeleteList, busVars, Selecting
    <2>2. /\ DOMAIN db' = DOMAIN db \ worker[w].keys
          /\ \A k \in DOMAIN db \ worker[w].keys : db'[k] = db[k]
      BY <2>1, DeletedOnly
    <2>3. Held(db)' \subseteq Held(db) /\ OneToOne(db)'
      BY <2>2 DEF Held, Once, OnePlace, OneToOne
    <2>4. Noted(w)'
      BY <2>1, <2>2, StartShapes DEF Once, Noted
    <2> QED
      BY <1>2, <1>4, <2>1, <2>3, <2>4 DEF Once
  <1>9. ~DeleteFails(w)
    BY DEF DeleteFails, TypeInv, Undisturbed, Faultless
  <1> QED
    BY <1>5, <1>6, <1>7, <1>8, <1>9 DEF Work

LEMMA OnceNext ==
  ASSUME Undisturbed, IInv, OnceInv, [Next]_vars
  PROVE  OnceInv'
  <1> SUFFICES ASSUME NEW r \in Receivers PROVE Once(r)'
    BY DEF OnceInv
  <1>1. TypeInv /\ Inv(r) /\ Once(r) /\ OneReceiver
    BY DEF IInv, OnceInv, Undisturbed, Faultless
  <1>2. CASE \E q \in Receivers : (\E p \in Packets : AddData(q, p)) \/ AddNull(q) \/ Advance(q)
    BY <1>1, <1>2, OnceAdvance DEF OneReceiver
  <1>3. CASE \E q \in Receivers : Work(q)
    BY <1>1, <1>3, OnceWork DEF OneReceiver
  <1>4. ~Crash
    BY <1>1 DEF TypeInv, Crash, Undisturbed, Faultless
  <1>5. CASE OutData \/ ConsumerThrows \/ SetCall \/ Tick \/ WriteLog \/ UNCHANGED vars
    <2>1. UNCHANGED << fresh, rec, cacheData, db, pushed, persist, worker >>
      BY <1>5 DEF OutData, ConsumerThrows, SetCall, Tick, WriteLog, stamps, dbVars,
                  busVars, vars
    <2>2. InHand(r)' = InHand(r) /\ Batch(r)' = Batch(r)
      BY <2>1 DEF InHand, Batch
    <2>3. OneWorker(r)'
      BY <1>1, <2>1 DEF Once, OneWorker
    <2> QED
      BY <1>1, <2>1, <2>2, <2>3, OnceSame
  <1> QED
    BY <1>2, <1>3, <1>4, <1>5 DEF Next

(* With one transport thread, a clock that is not set back and nothing that *)
(* fails, no packet goes to the bus twice, whatever the sizes of batches    *)
(* and selections are: while a record is in the database and was pushed,    *)
(* its worker has noted its key and deletes it before it selects again.     *)
THEOREM PushedOnceSafe ==
  ASSUME Undisturbed
  PROVE  Spec => PushedOnce
  <1>1. IInv /\ OnceInv /\ [Next]_vars =>
          [Len(bus'.queue) > Len(bus.queue) =>
              bus'.queue[Len(bus'.queue)] \notin pushed]_vars
    <2> SUFFICES ASSUME IInv, OnceInv, Next, Len(bus'.queue) > Len(bus.queue)
                 PROVE  bus'.queue[Len(bus'.queue)] \notin pushed
      BY DEF vars
    <2>1. TypeInv /\ bus.queue \in Seq(Packets) /\ bus \in Bus
      BY DEF IInv, TypeInv, Bus
    <2>2. PICK w \in Receivers : PushRecord(w)
      <3>0. Len(bus.queue) \in Nat /\ Len(<< >>) = 0
        BY <2>1
      <3>1. ~(\E r \in Receivers : (\E p \in Packets : AddData(r, p)) \/ AddNull(r) \/ Advance(r))
        <4>1. ASSUME NEW r \in Receivers, NEW p \in Packets, AddData(r, p) PROVE FALSE
          <5>1. bus'.queue \in {bus.queue, << >>}
            BY <4>1, StartShapes DEF AddData, BusMade, NoBus
          <5> QED
            BY <3>0, <5>1
        <4>3. ASSUME NEW r \in Receivers, AddNull(r) PROVE FALSE
          <5>1. bus'.queue \in {bus.queue, << >>}
            BY <4>3, StartShapes DEF AddNull, BusMade, NoBus
          <5> QED
            BY <3>0, <5>1
        <4>2. ASSUME NEW r \in Receivers, Advance(r) PROVE FALSE
          <5>1. bus' = bus
            BY <4>2 DEF Advance, CountDelay, StartThreadDB, CheckSecond, SetSecond,
               MakeKey, PutCache, CheckSize, CopyCache, ClearCache, Save, SaveFails,
               OpenFails, SaveUnopened, SaveThrows, CheckDelay, busVars
          <5> QED
            BY <3>0, <5>1
        <4> QED
          BY <4>1, <4>2, <4>3
      <3>2. ~(OutData \/ ConsumerThrows \/ SetCall \/ Tick \/ WriteLog \/ Crash)
        <4>1. ASSUME OutData \/ ConsumerThrows PROVE FALSE
          <5>1. bus.queue # << >> /\ bus'.queue = Tail(bus.queue)
            BY <2>1, <4>1 DEF OutData, ConsumerThrows, Bus
          <5> QED
            BY <2>1, <5>1
        <4>2. ASSUME SetCall \/ Tick \/ WriteLog \/ Crash PROVE FALSE
          <5>1. bus'.queue \in {bus.queue, << >>}
            BY <4>2, StartShapes DEF SetCall, Tick, WriteLog, Crash, busVars
          <5> QED
            BY <3>0, <5>1
        <4> QED
          BY <4>1, <4>2
      <3>3. CASE \E r \in Receivers : Work(r) /\ ~PushRecord(r)
        BY <2>1, <3>3 DEF Work, SelectList, PushNull, DeleteList, DeleteFails, busVars
      <3> QED
        BY <3>1, <3>2, <3>3 DEF Next
    <2>3. PICK k \in worker[w].todo :
             /\ bus' = [bus EXCEPT !.queue = Append(@, worker[w].data[k])]
             /\ worker[w].pc = "push"
      BY <2>2 DEF PushRecord
    <2>4. k \in DOMAIN db /\ worker[w].data[k] = db[k]
      BY <2>1, <2>3 DEF TypeInv, IInv, Inv, Pushing
    <2>5. db[k] \notin pushed
      BY <2>3, <2>4 DEF OnceInv, Once, Noted
    <2>6. db[k] \in Packets
      BY <2>1, <2>4 DEF TypeInv, Map
    <2>7. bus'.queue = Append(bus.queue, db[k])
      BY <2>1, <2>3, <2>4 DEF Bus
    <2>8. bus'.queue[Len(bus'.queue)] = db[k]
      BY <2>1, <2>6, <2>7
    <2> QED
      BY <2>5, <2>8
  <1>2. IInv /\ OnceInv /\ [Next]_vars => IInv' /\ OnceInv'
    BY IInvNext, OnceNext DEF Undisturbed, Faultless
  <1> QED
    BY <1>1, <1>2, IInvInit, OnceInit, PTL DEF Spec, PushedOnce

-----------------------------------------------------------------------------
(* The pipeline is a Relay.                                                 *)

(* What was pushed is in the bus or was handed over: a bus that runs knows  *)
(* the call, and until there is one no thread has anything to push.         *)
Posted ==
    /\ call
    /\ bus.state = "none" \/ (bus.state = "up" /\ bus.thecall)
    /\ bus.state = "none" =>
          /\ bus.queue = << >>
          /\ \A r \in Receivers : rec[r].pc = "idle" /\ worker[r].pc = "none"
    /\ pushed = QueueSet \cup delivered

(* A packet no thread has taken is nowhere in the pipeline.                 *)
Fresh == fresh \cap (Kept \cup pushed) = {}

RelayInv == IInv /\ Posted /\ Fresh

(* What put and take do to the packets in the queue. *)
LEMMA QueueAppend ==
  ASSUME NEW q \in Seq(Packets), NEW p \in Packets
  PROVE  /\ Append(q, p) \in Seq(Packets)
         /\ {Append(q, p)[i] : i \in DOMAIN Append(q, p)}
              = {q[i] : i \in DOMAIN q} \cup {p}
  <1>1. /\ Len(Append(q, p)) = Len(q) + 1 /\ Len(q) \in Nat
        /\ \A i \in 1 .. Len(q) : Append(q, p)[i] = q[i]
        /\ Append(q, p)[Len(q) + 1] = p
        /\ Append(q, p) \in Seq(Packets)
        /\ DOMAIN q = 1 .. Len(q)
        /\ DOMAIN Append(q, p) = 1 .. (Len(q) + 1)
    OBVIOUS
  <1> QED
    BY <1>1

LEMMA QueueTake ==
  ASSUME NEW q \in Seq(Packets), q # << >>
  PROVE  /\ Tail(q) \in Seq(Packets) /\ Head(q) \in Packets
         /\ {q[i] : i \in DOMAIN q}
              = {Head(q)} \cup {Tail(q)[i] : i \in DOMAIN Tail(q)}
  <1>1. /\ Len(q) \in Nat \ {0} /\ DOMAIN q = 1 .. Len(q)
        /\ Tail(q) \in Seq(Packets) /\ DOMAIN Tail(q) = 1 .. (Len(q) - 1)
        /\ \A i \in 1 .. (Len(q) - 1) : Tail(q)[i] = q[i + 1]
        /\ Head(q) = q[1] /\ Head(q) \in Packets
    OBVIOUS
  <1> DEFINE t == Tail(q)
  <1> HIDE DEF t
  <1>2. \A i \in DOMAIN q \ {1} : i - 1 \in DOMAIN t /\ q[i] = t[i - 1]
    BY <1>1 DEF t
  <1>3. \A i \in DOMAIN t : i + 1 \in DOMAIN q /\ t[i] = q[i + 1]
    BY <1>1 DEF t
  <1>4. 1 \in DOMAIN q
    BY <1>1
  <1>5. {q[i] : i \in DOMAIN q} = {q[1]} \cup {t[i] : i \in DOMAIN t}
    BY <1>2, <1>3, <1>4
  <1> QED
    BY <1>1, <1>5 DEF t

(* Kept, in the words of the invariant. *)
LEMMA KeptWaiting ==
  ASSUME OneReceiver, NEW r \in Receivers
  PROVE  Kept = Waiting(r) \cup Held(db) /\ Kept' = (Waiting(r) \cup Held(db))'
  <1>1. InBatch(r) = Held(Batch(r)) /\ InBatch(r)' = Held(Batch(r))'
    BY EmptyIsMap DEF InBatch, Batch, Held, Empty
  <1> QED
    BY <1>1, KeptOf DEF Waiting, Held

LEMMA PostedInit == ASSUME Faultless, EarlyCall, Init PROVE Posted
  <1>1. call
    BY Zenon DEF Init
  <1> QED
    BY <1>1, StartShapes DEF Init, Posted, QueueSet

(* A step that touches neither the bus nor what the pipeline answers for.   *)
LEMMA RelaySame ==
  ASSUME Posted, UNCHANGED << call, bus, pushed, delivered >>,
         bus.state = "none" => UNCHANGED << rec, worker >>
  PROVE  Posted' /\ QueueSet' = QueueSet
  BY DEF Posted, QueueSet

LEMMA RelayReceive ==
  ASSUME Faultless, RelayInv, NEW r \in Receivers,
         NEW p \in Packets, AddData(r, p)
  PROVE  Posted' /\ Fresh' /\ AbstractRelay!Accept(p)
  <1>1. /\ TypeInv /\ Inv(r) /\ OneReceiver
        /\ rec[r] \in Receiver /\ rec \in [Receivers -> Receiver] /\ bus \in Bus
    BY TypeFacts DEF RelayInv, IInv, Faultless, TypeInv
  <1>2. rec'[r] = [Ready EXCEPT !.pc = "delay", !.packet = p, !.n = delayNum]
    BY <1>1 DEF AddData
  <1>3. rec'[r].pc = "delay" /\ rec'[r].packet = p
    BY <1>2, StartShapes DEF Receiver
  <1>4. /\ rec[r].pc = "idle" /\ p \in fresh /\ fresh' = fresh \ {p}
        /\ UNCHANGED << cacheData, db, pushed, call, delivered >>
    BY DEF AddData, At, dbVars
  <1>5. Kept = Held(cacheData) \cup Held(db) /\ Kept' = {p} \cup Kept
    BY <1>1, <1>3, <1>4, KeptOf DEF InHand, InBatch, Receiving, Saving
  <1>6. bus'.queue = bus.queue /\ bus'.state = "up" /\ bus'.thecall
    <2>1. CASE bus.state = "none"
      BY <2>1 DEF AddData, BusMade, Posted, RelayInv
    <2>2. CASE bus.state # "none"
      BY <2>2 DEF AddData, BusMade, Posted, RelayInv
    <2> QED
      BY <2>1, <2>2
  <1>7. QueueSet' = QueueSet
    BY <1>6 DEF QueueSet
  <1>8. p \notin Kept \cup QueueSet \cup delivered
    BY <1>4 DEF RelayInv, Posted, Fresh
  <1>9. Fresh'
    BY <1>4, <1>5 DEF RelayInv, Fresh
  <1> QED
    BY <1>4, <1>5, <1>6, <1>7, <1>8, <1>9 DEF Posted, RelayInv, AbstractRelay!Accept

(* What a transport thread does afterwards only moves packets it holds.     *)
LEMMA RelayAdvance ==
  ASSUME Faultless, RelayInv, NEW r \in Receivers, Advance(r)
  PROVE  Posted' /\ Fresh' /\ UNCHANGED << Kept \cup QueueSet, delivered >>
  <1>1. /\ TypeInv /\ Inv(r) /\ OneReceiver
        /\ rec[r] \in Receiver /\ rec \in [Receivers -> Receiver]
    BY TypeFacts DEF RelayInv, IInv, Faultless, TypeInv
  <1>2. UNCHANGED << fresh, call, bus, pushed, delivered >>
    BY DEF Advance, CountDelay, StartThreadDB, CheckSecond, SetSecond, MakeKey,
       PutCache, CheckSize, CopyCache, ClearCache, Save, SaveFails, OpenFails,
       SaveUnopened, SaveThrows, CheckDelay, busVars
  <1>0. rec[r].pc # "idle"
    BY DEF Advance, CountDelay, StartThreadDB, CheckSecond, SetSecond, MakeKey,
       PutCache, CheckSize, CopyCache, ClearCache, Save, SaveFails, OpenFails,
       SaveUnopened, SaveThrows, CheckDelay, At
  <1>3. Posted' /\ QueueSet' = QueueSet
    BY <1>0, <1>2, RelaySame DEF RelayInv, Posted
  <1>4. Kept' = Kept
    <2>1. CASE \/ CountDelay(r) \/ StartThreadDB(r) \/ CheckSecond(r) \/ SetSecond(r)
               \/ MakeKey(r)
      <3>1. UNCHANGED << cacheData, db >>
        BY <2>1 DEF CountDelay, StartThreadDB, CheckSecond, SetSecond, MakeKey,
                    dbVars
      <3>2. /\ rec[r].pc \in Receiving /\ rec'[r].pc \in Receiving
            /\ rec'[r].packet = rec[r].packet
        <4>1. CASE MakeKey(r)
          BY <1>1, <4>1 DEF MakeKey, At, Receiver, Receiving
        <4>2. CASE CountDelay(r) \/ StartThreadDB(r) \/ CheckSecond(r) \/ SetSecond(r)
          <5>1. PICK pc \in Receiving : Goto(r, pc) /\ rec[r].pc \in Receiving
            BY <4>2 DEF CountDelay, StartThreadDB, CheckSecond, SetSecond, At,
                        Receiving
          <5> QED
            BY <1>1, <5>1, GotoFacts
        <4> QED
          BY <2>1, <4>1, <4>2
      <3>3. InHand(r)' = InHand(r) /\ InBatch(r)' = InBatch(r)
        BY <3>2 DEF InHand, InBatch, Receiving, Saving
      <3> QED
        BY <1>1, <3>1, <3>3, KeptOf
    <2>2. CASE PutCache(r)
      <3>1. /\ rec[r].pc = "put" /\ rec'[r].pc = "size" /\ UNCHANGED db
            /\ cacheData' = Over([x \in {rec[r].key} |-> rec[r].packet], cacheData)
        BY <1>1, <2>2, GotoFacts DEF PutCache, At, dbVars
      <3>2. rec[r].key \in Key /\ rec[r].packet \in Packets
        BY <1>1, <3>1 DEF TypeInv, Receiver, Receiving
      <3>3. Held(cacheData') = {rec[r].packet} \cup Held(cacheData)
        <4> DEFINE one == [x \in {rec[r].key} |-> rec[r].packet]
        <4>1. one \in Map /\ Held(one) = {rec[r].packet} /\ cacheData \in Map
          BY <1>1, <3>2, OneIsMap, TypeFacts
        <4>2. DOMAIN one \cap DOMAIN cacheData = {}
          BY <1>1, <3>1, NewKey
        <4> HIDE DEF one
        <4>3. Held(Over(one, cacheData)) = Held(one) \cup Held(cacheData)
          BY <4>1, <4>2, OverMap
        <4> QED
          BY <3>1, <4>1, <4>3 DEF one
      <3>4. /\ InHand(r) = {rec[r].packet} /\ InHand(r)' = {}
            /\ InBatch(r) = {} /\ InBatch(r)' = {}
        BY <3>1 DEF InHand, InBatch, Receiving, Saving
      <3> QED
        BY <1>1, <3>1, <3>3, <3>4, KeptOf
    <2>3. CASE CheckSize(r) \/ CheckDelay(r) \/ CopyCache(r)
      <3>1. UNCHANGED << cacheData, db >>
        BY <2>3 DEF CheckSize, CheckDelay, CopyCache, dbVars
      <3>2. /\ rec[r].pc \in {"size", "late", "copy"}
            /\ rec'[r].pc \in {"copy", "late", "clear", "idle"}
            /\ rec'[r].pc = "clear" => rec'[r].batch = cacheData
        <4>1. CASE CheckSize(r)
          BY <1>1, <4>1, GotoFacts DEF CheckSize, At
        <4>2. CASE CheckDelay(r)
          BY <1>1, <4>2, StartShapes DEF CheckDelay, Receiver, At
        <4>3. CASE CopyCache(r)
          BY <1>1, <4>3 DEF CopyCache, Receiver, At
        <4> QED
          BY <2>3, <4>1, <4>2, <4>3
      <3>3. /\ InHand(r) = {} /\ InHand(r)' = {} /\ InBatch(r) = {}
            /\ InBatch(r)' \in {{}, Held(cacheData)}
        BY <3>2 DEF InHand, InBatch, Receiving, Saving, Held
      <3>4. Kept = Held(cacheData) \cup Held(db)
        BY <1>1, <3>3, KeptOf
      <3>5. Kept' = Held(cacheData) \cup Held(db)
        BY <1>1, <3>1, <3>3, KeptOf
      <3> QED
        BY <3>4, <3>5
    <2>4. CASE ClearCache(r)
      <3>1. /\ rec[r].pc = "clear" /\ rec'[r].pc = "save"
            /\ rec'[r].batch = rec[r].batch /\ rec[r].batch = cacheData
            /\ cacheData' = Empty /\ UNCHANGED db
        BY <1>1, <2>4, GotoFacts DEF ClearCache, At, dbVars, Inv, Apart
      <3>2. /\ InHand(r) = {} /\ InBatch(r) = Held(cacheData)
            /\ InHand(r)' = {} /\ InBatch(r)' = Held(cacheData)
        BY <3>1 DEF InHand, InBatch, Receiving, Saving, Held
      <3> QED
        <4>1. Held(cacheData') = {} /\ Held(db') = Held(db)
          BY <3>1, EmptyIsMap
        <4>2. Kept = Held(cacheData) \cup Held(db)
          BY <1>1, <3>2, KeptOf, Zenon
        <4>3. Kept' = Held(cacheData) \cup Held(db)
          BY <1>1, <3>2, <4>1, KeptOf
        <4> QED
          BY <4>2, <4>3
    <2>5. CASE Save(r)
      <3>1. /\ rec[r].pc = "save" /\ rec'[r].pc \in {"idle", "late"}
            /\ UNCHANGED cacheData
        BY <1>1, <2>5, StartShapes DEF Save, Leave, At, Receiver
      <3>2. /\ Held(db') = InBatch(r) \cup Held(db) /\ InHand(r) = {}
            /\ InHand(r)' = {} /\ InBatch(r)' = {}
        BY <1>1, <2>5, <3>1, SavedBatch
           DEF InHand, InBatch, Receiving, Saving, Batch
      <3> QED
        BY <1>1, <3>1, <3>2, KeptOf
    <2>6. ~SaveFails(r) /\ ~OpenFails(r) /\ ~SaveUnopened(r) /\ ~SaveThrows(r)
      BY <1>1 DEF SaveFails, OpenFails, SaveUnopened, SaveThrows, TypeInv, Faultless
    <2> QED
      BY <2>1, <2>2, <2>3, <2>4, <2>5, <2>6 DEF Advance
  <1>5. Fresh'
    BY <1>2, <1>4 DEF RelayInv, Fresh
  <1> QED
    BY <1>2, <1>3, <1>4, <1>5

LEMMA RelayWork ==
  ASSUME Faultless, RelayInv, NEW r \in Receivers, Work(r)
  PROVE  /\ Posted' /\ Fresh'
         /\ \/ UNCHANGED << Kept \cup QueueSet, delivered >>
            \/ \E P \in SUBSET Packets : AbstractRelay!Release(P)
  <1>1. /\ TypeInv /\ Inv(r) /\ OneReceiver /\ Posted /\ Fresh
        /\ bus \in Bus /\ bus.queue \in Seq(Packets)
    BY DEF RelayInv, IInv, Faultless, TypeInv, Bus
  <1>2. UNCHANGED << fresh, rec, cacheData, call, delivered >>
    BY DEF Work, SelectList, PushRecord, PushNull, DeleteList, DeleteFails, stamps,
       busVars
  <1>0. bus.state = "up"
    BY <1>1 DEF Posted, Work, SelectList, PushRecord, PushNull, DeleteList, DeleteFails
  <1>3. InHand(r)' = InHand(r) /\ InBatch(r)' = InBatch(r)
    BY <1>2 DEF InHand, InBatch, Held
  <1>4. CASE SelectList(r) \/ PushNull(r) \/ DeleteFails(r)
    <2>1. UNCHANGED << db, bus, pushed >>
      BY <1>4 DEF SelectList, PushNull, DeleteFails, dbVars, busVars
    <2>2. Kept' = Kept
      BY <1>1, <1>2, <1>3, <2>1, KeptOf
    <2> QED
      BY <1>0, <1>1, <1>2, <2>1, <2>2, RelaySame DEF Fresh
  <1>5. CASE PushRecord(r)
    <2>1. PICK k \in worker[r].todo :
             /\ bus' = [bus EXCEPT !.queue = Append(@, worker[r].data[k])]
             /\ pushed' = pushed \cup {worker[r].data[k]}
      BY <1>5 DEF PushRecord
    <2>2. db' = db /\ worker[r].pc = "push"
      BY <1>5 DEF PushRecord, dbVars
    <2>3. k \in DOMAIN db /\ worker[r].data[k] = db[k]
      BY <1>1, <2>1, <2>2 DEF TypeInv, Inv, Pushing
    <2>4. db[k] \in Packets /\ db[k] \in Held(db)
      BY <1>1, <2>3 DEF TypeInv, Map, Held
    <2>5. /\ bus'.queue = Append(bus.queue, db[k])
          /\ bus'.state = bus.state /\ bus'.thecall = bus.thecall
      BY <1>1, <2>1, <2>3 DEF Bus
    <2>6. QueueSet' = QueueSet \cup {db[k]}
      <3> DEFINE q == bus.queue
      <3>1. q \in Seq(Packets)
        BY <1>1
      <3> HIDE DEF q
      <3>2. {Append(q, db[k])[i] : i \in DOMAIN Append(q, db[k])}
              = {q[i] : i \in DOMAIN q} \cup {db[k]}
        BY <2>4, <3>1, QueueAppend
      <3> QED
        BY <2>5, <3>2 DEF QueueSet, q
    <2>7. Kept' = Kept /\ db[k] \in Kept
      <3>1. cacheData' = cacheData /\ db' = db
        BY <1>2, <2>2
      <3>2. Kept' = Kept
        BY <1>1, <1>3, <3>1, KeptOf
      <3>3. db[k] \in Kept
        BY <1>1, <2>4, KeptOf
      <3> QED
        BY <3>2, <3>3
    <2> QED
      BY <1>0, <1>1, <1>2, <2>1, <2>3, <2>5, <2>6, <2>7 DEF Posted, Fresh
  <1>6. CASE DeleteList(r)
    <2>1. /\ db' = Without(db, worker[r].keys) /\ UNCHANGED << bus, pushed >>
          /\ worker[r].pc = "push"
      BY <1>6 DEF DeleteList, busVars
    <2>2. /\ DOMAIN db' = DOMAIN db \ worker[r].keys
          /\ \A k \in DOMAIN db \ worker[r].keys : db'[k] = db[k]
      BY <1>1, <2>1, DeletedOnly
    <2>3. \A k \in worker[r].keys : k \in DOMAIN db /\ db[k] \in pushed
      BY <1>1, <2>1 DEF Inv, Pushing, TypeInv
    <2>4. Held(db) \subseteq Held(db') \cup pushed /\ Held(db') \subseteq Held(db)
      BY <2>2, <2>3 DEF Held
    <2>5. Kept' \subseteq Kept /\ Kept \subseteq Kept' \cup pushed
      BY <1>1, <1>2, <1>3, <2>4, KeptOf
    <2>6. Posted' /\ QueueSet' = QueueSet
      BY <1>0, <1>1, <1>2, <2>1, RelaySame
    <2>11. Fresh'
      BY <1>1, <1>2, <2>1, <2>5 DEF Fresh
    <2> DEFINE P == (Kept \cup QueueSet) \ (Kept \cup QueueSet)'
    <2>7. P \subseteq pushed \ QueueSet
      BY <2>5, <2>6
    <2>8. P \subseteq delivered /\ P \in SUBSET Packets
      BY <1>1, <2>7 DEF Posted, TypeInv
    <2>9. (Kept \cup QueueSet)' = (Kept \cup QueueSet) \ P
      BY <2>5, <2>6
    <2>10. AbstractRelay!Release(P)
      BY <1>2, <2>8, <2>9 DEF AbstractRelay!Release
    <2> QED
      BY <2>6, <2>8, <2>10, <2>11
  <1> QED
    BY <1>4, <1>5, <1>6 DEF Work

LEMMA RelayOut ==
  ASSUME Faultless, RelayInv, OutData
  PROVE  Posted' /\ Fresh' /\ \E p \in Packets : AbstractRelay!Deliver(p)
  <1>1. Posted /\ bus \in Bus /\ bus.queue \in Seq(Packets)
    BY DEF RelayInv, IInv, TypeInv, Bus
  <1> DEFINE p == Head(bus.queue)
  <1>2. /\ bus.queue # << >> /\ bus.state = "up" /\ bus.thecall
        /\ bus'.queue = Tail(bus.queue) /\ bus'.state = "up" /\ bus'.thecall
        /\ delivered' = delivered \cup {p}
        /\ UNCHANGED << fresh, rec, cacheData, db, pushed, call >>
    BY <1>1 DEF OutData, Posted, Bus, dbVars
  <1>3. QueueSet = {p} \cup QueueSet' /\ p \in Packets
    BY <1>1, <1>2, QueueTake DEF QueueSet
  <1>4. Kept' = Kept
    BY <1>2 DEF Kept, InThreads, InHand, InBatch, Held
  <1> HIDE DEF p
  <1>5. (Kept \cup QueueSet)' \in {Kept \cup QueueSet, (Kept \cup QueueSet) \ {p}}
    BY <1>3, <1>4
  <1>6. AbstractRelay!Deliver(p)
    BY <1>2, <1>3, <1>5 DEF AbstractRelay!Deliver
  <1> QED
    BY <1>1, <1>2, <1>3, <1>4, <1>6 DEF Posted, Fresh, RelayInv

LEMMA RelayNext ==
  ASSUME Faultless, RelayInv, [Next]_vars
  PROVE  RelayInv' /\ [AbstractRelay!Next]_(AbstractRelay!vars)
  <1>1. IInv'
    BY IInvNext DEF Faultless, RelayInv
  <1>2. CASE \E r \in Receivers : \E p \in Packets : AddData(r, p)
    BY <1>1, <1>2, RelayReceive DEF RelayInv, AbstractRelay!Next
  <1>3. CASE \E r \in Receivers : Advance(r)
    BY <1>1, <1>3, RelayAdvance DEF RelayInv, AbstractRelay!vars
  <1>4. CASE \E r \in Receivers : Work(r)
    BY <1>1, <1>4, RelayWork DEF RelayInv, AbstractRelay!Next, AbstractRelay!vars
  <1>5. CASE OutData
    BY <1>1, <1>5, RelayOut DEF RelayInv, AbstractRelay!Next
  <1>6. ~ConsumerThrows /\ ~SetCall /\ ~Crash /\ \A r \in Receivers : ~AddNull(r)
    BY DEF ConsumerThrows, AddNull, SetCall, Crash, RelayInv, Posted, IInv, TypeInv,
       Faultless
  <1>7. CASE Tick \/ WriteLog \/ UNCHANGED vars
    <2>1. UNCHANGED << fresh, rec, cacheData, db, worker, call, bus, pushed,
                       delivered >>
      BY <1>7 DEF Tick, WriteLog, vars, busVars, dbVars
    <2>2. Kept' = Kept
      BY <2>1 DEF Kept, InThreads, InHand, InBatch, Held
    <2>3. Posted' /\ QueueSet' = QueueSet
      BY <2>1, RelaySame DEF RelayInv
    <2> QED
      BY <1>1, <2>1, <2>2, <2>3 DEF RelayInv, Fresh, AbstractRelay!vars
  <1> QED
    BY <1>2, <1>3, <1>4, <1>5, <1>6, <1>7 DEF Next

(* With one transport thread, a steady clock, no crash and no failing       *)
(* transaction, and a consumer set before the first packet, the pipeline is *)
(* a Relay: it keeps every packet it took, in a thread, the cache, the      *)
(* database or the bus, until the consumer has been given it.  A record     *)
(* that does not deserialise changes nothing: what its worker had pushed    *)
(* before it stays in the database, and goes to the bus again.              *)
THEOREM PipelineIsRelay ==
  ASSUME Faultless, EarlyCall
  PROVE  Spec => ImplementsRelay
  <1>1. Init => RelayInv /\ AbstractRelay!Init
    <2> SUFFICES ASSUME Init PROVE RelayInv /\ AbstractRelay!Init
      OBVIOUS
    <2>1. \A r \in Receivers : InHand(r) = {} /\ InBatch(r) = {}
      BY StartShapes DEF Init, InHand, InBatch, Receiving, Saving
    <2>2. Kept \cup QueueSet = {} /\ delivered = {}
      BY <2>1, EmptyIsMap, StartShapes DEF Init, Kept, InThreads, QueueSet
    <2>3. Fresh
      BY <2>2, StartShapes DEF Init, Fresh
    <2> QED
      BY <2>2, <2>3, IInvInit, PostedInit DEF RelayInv, AbstractRelay!Init
  <1>2. RelayInv /\ [Next]_vars => RelayInv' /\ [AbstractRelay!Next]_(AbstractRelay!vars)
    BY RelayNext
  <1> QED
    BY <1>1, <1>2, PTL DEF Spec, ImplementsRelay, AbstractRelay!Spec
=============================================================================
