---------------------------- MODULE StoreProofs ----------------------------
(***************************************************************************)
(* What holds of the embedded store for every number of threads, records,  *)
(* operations and waits: the records change by whole transactions, and a   *)
(* select gives the oldest.                                                *)
(***************************************************************************)
EXTENDS Store, FiniteSetTheorems, WellFoundedInduction, TLAPS

Results == BOOLEAN \cup Nat \cup Values \cup (SUBSET Keys) \cup {Exception, None}

Transaction ==
    [pc : {"idle", "open", "set", "run", "done"}, op : Operations \cup {NoOp}, todo : SUBSET Keys,
     got : SUBSET Keys, pos : Keys \cup {0}, last : BOOLEAN, sum : Nat, result : Results]

Typed ==
    /\ Is_Open \in BOOLEAN /\ opened \in BOOLEAN /\ left \subseteq Keys
    /\ db \in [DOMAIN db -> Values] /\ DOMAIN db \subseteq Keys
    /\ lock \in [Keys -> Threads \cup {None, Lost}]
    /\ undo \in [DOMAIN undo -> Values \cup {None}]
    /\ DOMAIN undo \subseteq {k \in Keys : lock[k] # None}
    /\ txn \in [Threads -> Transaction]
    /\ ops \in [Threads -> 0 .. MaxOps]

Writing(t) == txn[t].pc = "run" /\ txn[t].op.kind \in {"put", "delete", "remove"}

(* The records a transaction has come to.                                   *)
Written(t) == DOMAIN txn[t].op.map \ txn[t].todo

(* A thread holds the records its unfinished write has come to, no others.  *)
Owning(t) ==
    /\ Mine(t) = IF Writing(t) THEN Written(t) ELSE {}
    /\ Writing(t) => txn[t].todo \subseteq DOMAIN txn[t].op.map

(* What a batch has put is there and can be undone, but for the records     *)
(* putNoOverwrite has met; the status is that of the last put.              *)
PutSoFar(t) ==
    Running(t, "put") =>
        /\ \A k \in Written(t) :
              /\ k \in DOMAIN db /\ txn[t].op.map[k] \in Values
              /\ k \in DOMAIN undo =>
                    /\ db[k] = txn[t].op.map[k]
                    /\ txn[t].op.overwrite \/ undo[k] = None
              /\ k \notin DOMAIN undo => ~txn[t].op.overwrite
        /\ txn[t].op.overwrite /\ Written(t) # {} => txn[t].last

(* What a deletion has deleted is gone and can be undone.                   *)
DeletedSoFar(t) ==
    /\ Writing(t) /\ txn[t].op.kind # "put" =>
          \A k \in Written(t) : k \in DOMAIN undo /\ k \notin DOMAIN db
    /\ Running(t, "delete") => txn[t].sum = Cardinality({k \in Mine(t) : undo[k] # None})

Inv ==
    /\ Typed
    /\ \A t \in Threads : Owning(t) /\ PutSoFar(t) /\ DeletedSoFar(t)

-----------------------------------------------------------------------------
LEMMA NoOpTyped == Idle \in Transaction /\ Idle.pc = "idle" /\ Idle.op = NoOp
  BY DEF Idle, NoOp, Transaction, Results

LEMMA NotThreads == \A t \in Threads : t # None /\ t # Lost
  BY StoreAssumption DEF StoreAssumption

(* Whoever writes does an operation of the program.                         *)
LEMMA OperationTyped ==
  ASSUME Typed, NEW t \in Threads, Writing(t)
  PROVE  /\ txn[t].op \in Operations
         /\ txn[t].op.kind \in {"put", "delete", "remove"}
         /\ DOMAIN txn[t].op.map \subseteq Keys
         /\ txn[t].op.kind = "put" =>
               \A k \in DOMAIN txn[t].op.map : txn[t].op.map[k] \in Values \cup {NoData}
  <1>1. txn[t].op \in Operations \cup {NoOp} /\ NoOp.kind = "select"
    BY DEF Typed, Transaction, NoOp
  <1>2. txn[t].op \in Operations
    BY <1>1 DEF Writing
  <1> QED BY <1>2, StoreAssumption DEF StoreAssumption, Writing

LEMMA InvTypeOK == Inv => TypeOK
  BY DEF Inv, Typed, TypeOK, Transaction, DeletedSoFar

(* Who holds a record, and is not lost, is in its operation.                *)
OwnersRun == \A k \in Keys : lock[k] \notin {None, Lost} => txn[lock[k]].pc = "run"

LEMMA InvOwnersRun == Inv => OwnersRun
  <1> SUFFICES ASSUME Inv, NEW k \in Keys, lock[k] \notin {None, Lost}
               PROVE  txn[lock[k]].pc = "run"
    BY DEF OwnersRun
  <1>1. lock[k] \in Threads /\ k \in Mine(lock[k])
    BY DEF Inv, Typed, Mine
  <1> QED BY <1>1 DEF Inv, Owning, Writing

LEMMA InitInv == Init => Inv
  <1> SUFFICES ASSUME Init PROVE Inv
    OBVIOUS
  <1>1. Typed
    <2>1. db \in [DOMAIN db -> Values] /\ DOMAIN db \subseteq Keys
      BY StoreAssumption DEF StoreAssumption, Init
    <2>2. DOMAIN undo = {} /\ undo \in [DOMAIN undo -> Values \cup {None}]
      BY DEF Init, Nobody
    <2>3. ops \in [Threads -> 0 .. MaxOps]
      BY StoreAssumption DEF StoreAssumption, Init
    <2>4. txn \in [Threads -> Transaction] /\ lock \in [Keys -> Threads \cup {None, Lost}]
      BY NoOpTyped DEF Init
    <2> QED BY <2>1, <2>2, <2>3, <2>4 DEF Init, Typed
  <1>2. ASSUME NEW t \in Threads PROVE Owning(t) /\ PutSoFar(t) /\ DeletedSoFar(t)
    BY <1>2, NoOpTyped, NotThreads
       DEF Init, Owning, PutSoFar, DeletedSoFar, Mine, Writing, Running
  <1> QED BY <1>1, <1>2 DEF Inv

-----------------------------------------------------------------------------
(* What a step does to the transaction of its thread, and to the others.    *)
LEMMA Updated ==
  ASSUME Typed, NEW t \in Threads, NEW r \in Transaction, Update(t, r)
  PROVE  /\ txn' \in [Threads -> Transaction] /\ txn'[t] = r
         /\ \A u \in Threads \ {t} : txn'[u] = txn[u]
  BY DEF Typed, Update

LEMMA Ended ==
  ASSUME Typed, NEW t \in Threads, NEW r \in Results, End(t, r)
  PROVE  /\ txn' \in [Threads -> Transaction]
         /\ txn'[t].pc = "done" /\ txn'[t].op = txn[t].op /\ txn'[t].result = r
         /\ \A u \in Threads \ {t} : txn'[u] = txn[u]
  <1> DEFINE e == [txn[t] EXCEPT !.pc = "done", !.todo = {}, !.pos = 0, !.result = r]
  <1>1. e \in Transaction /\ e.pc = "done" /\ e.op = txn[t].op /\ e.result = r
    BY DEF Typed, Transaction
  <1>2. Update(t, e)
    BY DEF End
  <1> HIDE DEF e
  <1> QED BY <1>1, <1>2, Updated

(* A thread whose transaction, locks and records stay as they are.          *)
LEMMA Frame ==
  ASSUME Inv, NEW u \in Threads, txn'[u] = txn[u], Mine(u)' = Mine(u),
         \A k \in Mine(u) :
            /\ k \in DOMAIN undo' <=> k \in DOMAIN undo
            /\ k \in DOMAIN undo => undo'[k] = undo[k]
            /\ k \in DOMAIN db' <=> k \in DOMAIN db
            /\ k \in DOMAIN db => db'[k] = db[k]
  PROVE  Owning(u)' /\ PutSoFar(u)' /\ DeletedSoFar(u)'
  <1>1. Owning(u) /\ PutSoFar(u) /\ DeletedSoFar(u)
    BY DEF Inv
  <1>2. /\ Writing(u)' <=> Writing(u)
        /\ Written(u)' = Written(u)
        /\ Running(u, "put")' <=> Running(u, "put")
        /\ Running(u, "delete")' <=> Running(u, "delete")
    BY DEF Writing, Written, Running
  <1>3. Writing(u) => Written(u) = Mine(u)
    BY <1>1 DEF Owning
  <1>5. Owning(u)'
    BY <1>1, <1>2 DEF Owning
  <1>6. PutSoFar(u)'
    <2> SUFFICES ASSUME Running(u, "put") PROVE PutSoFar(u)'
      BY <1>2 DEF PutSoFar
    <2>1. Writing(u)
      BY DEF Running, Writing
    <2> QED BY <2>1, <1>1, <1>2, <1>3 DEF PutSoFar
  <1>7. DeletedSoFar(u)'
    <2>1. Running(u, "delete") => Writing(u) /\ Mine(u) = Written(u)
      BY <1>1 DEF Running, Writing, Owning
    <2>2. ASSUME Running(u, "delete")
          PROVE  {k \in Mine(u) : undo[k] # None}' = {k \in Mine(u) : undo[k] # None}
      <3>1. \A k \in Mine(u) : k \in DOMAIN undo
        BY <2>1, <2>2, <1>1 DEF DeletedSoFar, Running
      <3>2. \A k \in Mine(u) : undo'[k] = undo[k]
        BY <3>1
      <3> QED BY <3>2
    <2>3. Running(u, "delete")' => txn'[u].sum = Cardinality({k \in Mine(u) : undo[k] # None}')
      BY <2>2, <1>1, <1>2 DEF DeletedSoFar
    <2> QED BY <2>3, <1>1, <1>2, <1>3 DEF DeletedSoFar
  <1> QED BY <1>5, <1>6, <1>7

-----------------------------------------------------------------------------
(* What is committed at a key, or None.                                     *)
Past(k) == IF k \in DOMAIN undo THEN undo[k] ELSE Image(k)

LEMMA PastTyped == Typed => \A k \in Keys : Past(k) \in Values \cup {None}
  BY DEF Typed, Past, Image

LEMMA CommittedIsPast == Typed => committed = [k \in {l \in Keys : Past(l) # None} |-> Past(k)]
  <1> SUFFICES ASSUME Typed
               PROVE  committed = [k \in {l \in Keys : Past(l) # None} |-> Past(k)]
    OBVIOUS
  <1>1. None \notin Values
    BY StoreAssumption DEF StoreAssumption
  <1>2. {l \in Keys : IF l \in DOMAIN undo THEN undo[l] # None ELSE l \in DOMAIN db}
            = {l \in Keys : Past(l) # None}
    BY <1>1 DEF Typed, Past, Image
  <1>3. \A k \in {l \in Keys : Past(l) # None} :
            (IF k \in DOMAIN undo THEN undo[k] ELSE db[k]) = Past(k)
    BY DEF Past, Image
  <1> QED BY <1>2, <1>3 DEF committed

LEMMA SamePast ==
  ASSUME Typed, Typed', \A k \in Keys : Past(k)' = Past(k)
  PROVE  committed' = committed
  <1>1. committed = [k \in {l \in Keys : Past(l) # None} |-> Past(k)]
    BY CommittedIsPast
  <1>2. committed' = [k \in {l \in Keys : Past(l)' # None} |-> Past(k)']
    <2>1. (committed = [k \in {l \in Keys : Past(l) # None} |-> Past(k)])'
      BY CommittedIsPast, PTL
    <2> QED BY <2>1
  <1> QED BY <1>1, <1>2

(* The first write of a record keeps what was there.                        *)
LEMMA Changed ==
  ASSUME Inv, NEW t \in Threads, NEW k \in Keys, NEW v \in Values \cup {None},
         lock[k] = None, Change(t, k, v)
  PROVE  /\ db' \in [DOMAIN db' -> Values] /\ DOMAIN db' \subseteq Keys
         /\ lock' \in [Keys -> Threads \cup {None, Lost}]
         /\ undo' \in [DOMAIN undo' -> Values \cup {None}]
         /\ DOMAIN undo' \subseteq {l \in Keys : lock'[l] # None}
         /\ Mine(t)' = Mine(t) \cup {k} /\ k \notin Mine(t)
         /\ \A u \in Threads \ {t} : Mine(u)' = Mine(u) /\ k \notin Mine(u)
         /\ k \in DOMAIN undo' /\ undo'[k] = Image(k) /\ k \notin DOMAIN undo
         /\ k \in DOMAIN db' <=> v # None
         /\ k \in DOMAIN db' => db'[k] = v
         /\ \A l \in Keys \ {k} :
               /\ l \in DOMAIN undo' <=> l \in DOMAIN undo
               /\ l \in DOMAIN undo => undo'[l] = undo[l]
               /\ l \in DOMAIN db' <=> l \in DOMAIN db
               /\ l \in DOMAIN db => db'[l] = db[l]
         /\ \A l \in Keys : Past(l)' = Past(l)
  <1>1. Typed /\ None \notin Values /\ t # None /\ t # Lost
    BY StoreAssumption, NotThreads DEF StoreAssumption, Inv
  <1>2. k \notin DOMAIN undo /\ Image(k) \in Values \cup {None}
    BY <1>1 DEF Typed, Image
  <1>3. /\ DOMAIN undo' = DOMAIN undo \cup {k} /\ undo'[k] = Image(k)
        /\ \A l \in DOMAIN undo : undo'[l] = undo[l]
    BY <1>2 DEF Change
  <1>4. lock' = [lock EXCEPT ![k] = t]
    BY DEF Change
  <1>5. /\ DOMAIN db' = IF v = None THEN DOMAIN db \ {k} ELSE DOMAIN db \cup {k}
        /\ \A l \in DOMAIN db' : db'[l] = IF l = k THEN v ELSE db[l]
        /\ db' = [l \in DOMAIN db' |-> db'[l]]
    BY DEF Change
  <1>6. db' \in [DOMAIN db' -> Values] /\ DOMAIN db' \subseteq Keys
    BY <1>1, <1>5 DEF Typed
  <1>7. undo' \in [DOMAIN undo' -> Values \cup {None}]
    <2>1. undo' = [l \in DOMAIN undo' |-> undo'[l]]
      BY DEF Change
    <2>2. \A l \in DOMAIN undo' : undo'[l] \in Values \cup {None}
      BY <1>1, <1>2, <1>3 DEF Typed
    <2> QED BY <2>1, <2>2
  <1>8. /\ lock' \in [Keys -> Threads \cup {None, Lost}]
        /\ lock'[k] = t /\ \A l \in Keys \ {k} : lock'[l] = lock[l]
    BY <1>1, <1>4 DEF Typed
  <1>9. DOMAIN undo' \subseteq {l \in Keys : lock'[l] # None}
    BY <1>1, <1>3, <1>8 DEF Typed
  <1>10. /\ Mine(t)' = Mine(t) \cup {k} /\ k \notin Mine(t)
         /\ \A u \in Threads \ {t} : Mine(u)' = Mine(u) /\ k \notin Mine(u)
    BY <1>1, <1>8, NotThreads DEF Mine
  <1>11. \A l \in Keys : Past(l)' = Past(l)
    BY <1>2, <1>3, <1>5 DEF Past, Image
  <1> QED BY <1>2, <1>3, <1>5, <1>6, <1>7, <1>8, <1>9, <1>10, <1>11

(* What the end of a transaction does to the locks and to what can be       *)
(* undone, whether or not it is rolled back.                                *)
LEMMA Unlocked ==
  ASSUME Inv, NEW t \in Threads, Unlock(t)
  PROVE  /\ lock' \in [Keys -> Threads \cup {None, Lost}]
         /\ undo' \in [DOMAIN undo' -> Values \cup {None}]
         /\ DOMAIN undo' \subseteq {l \in Keys : lock'[l] # None}
         /\ Mine(t)' = {}
         /\ \A u \in Threads \ {t} : Mine(u)' = Mine(u) /\ Mine(u) \cap Mine(t) = {}
         /\ DOMAIN undo' = DOMAIN undo \ Mine(t)
         /\ \A k \in DOMAIN undo' : undo'[k] = undo[k]
  <1>1. Typed /\ t # None /\ t # Lost
    BY NotThreads DEF Inv
  <1>2. /\ lock' \in [Keys -> Threads \cup {None, Lost}]
        /\ \A k \in Keys : lock'[k] = IF lock[k] = t THEN None ELSE lock[k]
    BY <1>1 DEF Typed, Unlock
  <1>3. /\ DOMAIN undo' = DOMAIN undo \ Mine(t)
        /\ \A k \in DOMAIN undo' : undo'[k] = undo[k]
        /\ undo' \in [DOMAIN undo' -> Values \cup {None}]
    BY <1>1 DEF Typed, Unlock
  <1>4. DOMAIN undo' \subseteq {l \in Keys : lock'[l] # None}
    BY <1>1, <1>2, <1>3 DEF Typed, Mine
  <1>5. /\ Mine(t)' = {}
        /\ \A u \in Threads \ {t} : Mine(u)' = Mine(u) /\ Mine(u) \cap Mine(t) = {}
    BY <1>1, <1>2, NotThreads DEF Mine
  <1> QED BY <1>2, <1>3, <1>4, <1>5

LEMMA RolledBack ==
  ASSUME Inv, NEW t \in Threads, RollBack(t), Unlock(t)
  PROVE  /\ db' \in [DOMAIN db' -> Values] /\ DOMAIN db' \subseteq Keys
         /\ \A k \in Keys \ Mine(t) :
               /\ k \in DOMAIN db' <=> k \in DOMAIN db
               /\ k \in DOMAIN db => db'[k] = db[k]
         /\ \A k \in Keys : Past(k)' = Past(k)
  <1>1. Typed /\ None \notin Values
    BY StoreAssumption DEF StoreAssumption, Inv
  <1> DEFINE mine == Mine(t) \cap DOMAIN undo
             old == {k \in mine : undo[k] # None}
  <1>2. db' = [k \in (DOMAIN db \ mine) \cup old |-> IF k \in old THEN undo[k] ELSE db[k]]
    BY DEF RollBack
  <1>3. mine \subseteq Keys /\ old \subseteq mine /\ \A k \in old : undo[k] \in Values
    BY <1>1 DEF Mine, Typed
  <1>4. mine = Mine(t) \cap DOMAIN undo /\ \A k \in mine : k \in old <=> undo[k] # None
    OBVIOUS
  <1> HIDE DEF mine, old
  <1>5. /\ DOMAIN db' = (DOMAIN db \ mine) \cup old
        /\ \A k \in DOMAIN db' : db'[k] = IF k \in old THEN undo[k] ELSE db[k]
    BY <1>2
  <1>6. db' \in [DOMAIN db' -> Values] /\ DOMAIN db' \subseteq Keys
    BY <1>1, <1>2, <1>3 DEF Typed
  <1>7. \A k \in Keys \ Mine(t) :
            /\ k \in DOMAIN db' <=> k \in DOMAIN db
            /\ k \in DOMAIN db => db'[k] = db[k]
    BY <1>3, <1>4, <1>5
  <1>8. DOMAIN undo' = DOMAIN undo \ Mine(t) /\ \A k \in DOMAIN undo' : undo'[k] = undo[k]
    BY Unlocked
  <1>9. ASSUME NEW k \in Keys PROVE Past(k)' = Past(k)
    <2>1. CASE k \in mine
      <3>1. k \in DOMAIN undo /\ k \notin DOMAIN undo'
        BY <2>1, <1>4, <1>8
      <3>2. Image(k)' = undo[k]
        BY <2>1, <1>4, <1>5 DEF Image
      <3> QED BY <3>1, <3>2 DEF Past
    <2>2. CASE k \notin mine
      <3>1. k \in DOMAIN undo' <=> k \in DOMAIN undo
        BY <2>2, <1>4, <1>8
      <3>2. Image(k)' = Image(k)
        BY <2>2, <1>3, <1>5 DEF Image
      <3> QED BY <3>1, <3>2, <1>8 DEF Past
    <2> QED BY <2>1, <2>2
  <1> QED BY <1>6, <1>7, <1>9

-----------------------------------------------------------------------------
(* A step that leaves the records and the locks.                            *)
LEMMA Unmoved ==
  ASSUME Inv, NEW t \in Threads, UNCHANGED data,
         Is_Open' \in BOOLEAN, opened' \in BOOLEAN,
         txn' \in [Threads -> Transaction], ops' \in [Threads -> 0 .. MaxOps],
         \A u \in Threads \ {t} : txn'[u] = txn[u],
         Owning(t)' /\ PutSoFar(t)' /\ DeletedSoFar(t)'
  PROVE  Inv' /\ committed' = committed
  <1>1. Typed'
    BY DEF Inv, Typed, data
  <1>2. ASSUME NEW u \in Threads \ {t} PROVE Owning(u)' /\ PutSoFar(u)' /\ DeletedSoFar(u)'
    <2>1. txn'[u] = txn[u] /\ Mine(u)' = Mine(u)
      BY <1>2 DEF Mine, data
    <2> QED BY <2>1, Frame DEF data
  <1> QED BY <1>1, <1>2 DEF Inv, committed, data

(* A thread that does not write holds nothing.                              *)
LEMMA NotWriting ==
  ASSUME Inv, NEW t \in Threads, UNCHANGED data, ~Writing(t), ~Writing(t)'
  PROVE  Owning(t)' /\ PutSoFar(t)' /\ DeletedSoFar(t)'
  <1>1. Mine(t) = {} /\ Mine(t)' = Mine(t)
    BY DEF Inv, Owning, Mine, data
  <1> QED BY <1>1 DEF Owning, PutSoFar, DeletedSoFar, Writing, Running

LEMMA InvEnter ==
  ASSUME Inv, NEW t \in Threads, NEW o \in Operations \cup {NoOp}, Enter(t, o),
         txn[t].pc # "run", UNCHANGED << data, opened >>,
         Is_Open' \in BOOLEAN, ops' \in [Threads -> 0 .. MaxOps]
  PROVE  Inv' /\ committed' = committed
  <1>1. PICK m \in IF opened THEN {None} ELSE Missing(o) :
            Update(t, [Idle EXCEPT !.op = o, !.todo = DOMAIN o.map, !.result = m,
                                   !.pc = IF opened THEN "run" ELSE "done"])
    BY DEF Enter
  <1> DEFINE r == [Idle EXCEPT !.op = o, !.todo = DOMAIN o.map, !.result = m,
                               !.pc = IF opened THEN "run" ELSE "done"]
  <1>2. Typed /\ ~Writing(t) /\ Mine(t) = {}
    BY DEF Inv, Owning, Writing
  <1>3. DOMAIN o.map \subseteq Keys /\ o.kind \in Kinds
    <2>1. DOMAIN NoOp.map = {} /\ NoOp.kind = "select"
      BY DEF NoOp, Nobody
    <2> QED BY <2>1, StoreAssumption DEF StoreAssumption, Kinds
  <1>4. m \in Results
    <2>1. m \in {None, FALSE, 0, Exception}
      BY <1>1, <1>3 DEF Missing, Kinds
    <2>2. 0 \in Results
      BY DEF Results
    <2>3. {None, FALSE, Exception} \subseteq Results
      BY DEF Results
    <2> QED BY <2>1, <2>2, <2>3, Zenon
  <1>5. /\ r \in Transaction /\ r.op = o /\ r.todo = DOMAIN o.map /\ r.sum = 0
        /\ r.pc = IF opened THEN "run" ELSE "done"
    BY <1>3, <1>4, NoOpTyped DEF Idle, Transaction
  <1>6. Update(t, r)
    BY <1>1
  <1> HIDE DEF r
  <1>7. /\ txn' \in [Threads -> Transaction] /\ txn'[t] = r
        /\ \A u \in Threads \ {t} : txn'[u] = txn[u]
    BY <1>2, <1>5, <1>6, Updated
  <1>8. UNCHANGED data /\ Mine(t)' = {} /\ opened' \in BOOLEAN
    BY <1>2 DEF data, Mine, Typed
  <1>9. Written(t)' = {}
    BY <1>5, <1>7 DEF Written
  <1>10. Owning(t)' /\ PutSoFar(t)'
    BY <1>5, <1>7, <1>8, <1>9 DEF Owning, PutSoFar
  <1>11. DeletedSoFar(t)'
    <2>1. {k \in Mine(t) : undo[k] # None}' = {} /\ Cardinality({}) = 0
      BY <1>8, FS_EmptySet
    <2> QED BY <1>5, <1>7, <1>9, <2>1 DEF DeletedSoFar
  <1> QED BY <1>7, <1>8, <1>10, <1>11, Unmoved

LEMMA InvBegin ==
  ASSUME Inv, NEW t \in Threads, NEW o \in Operations, Begin(t, o)
  PROVE  Inv' /\ committed' = committed
  <1>1. Typed /\ txn[t].pc # "run" /\ UNCHANGED << Is_Open, opened, data >>
    BY DEF Inv, Begin
  <1>2. ops' \in [Threads -> 0 .. MaxOps]
    <2>1. ops[t] \in 0 .. MaxOps /\ ops[t] < MaxOps /\ MaxOps \in Nat
      BY <1>1, StoreAssumption DEF StoreAssumption, Typed, Begin
    <2>2. ops[t] + 1 \in 0 .. MaxOps
      BY <2>1
    <2> QED BY <1>1, <2>2 DEF Begin, Typed
  <1>3. CASE Enter(t, o)
    BY <1>1, <1>2, <1>3, InvEnter DEF Typed
  <1>4. CASE ~Enter(t, o)
    <2> DEFINE r == [Idle EXCEPT !.pc = "open", !.op = o]
    <2>1. Update(t, r)
      BY <1>4 DEF Begin
    <2>2. r \in Transaction /\ r.pc = "open"
      BY NoOpTyped DEF Idle, Transaction
    <2> HIDE DEF r
    <2>3. /\ txn' \in [Threads -> Transaction] /\ txn'[t] = r
          /\ \A u \in Threads \ {t} : txn'[u] = txn[u]
      BY <1>1, <2>1, <2>2, Updated
    <2>4. Owning(t)' /\ PutSoFar(t)' /\ DeletedSoFar(t)'
      BY <1>1, <2>2, <2>3, NotWriting DEF Writing
    <2> QED BY <1>1, <1>2, <2>3, <2>4, Unmoved DEF Typed
  <1> QED BY <1>3, <1>4

LEMMA InvOpen ==
  ASSUME Inv, NEW t \in Threads, OpenDatabase(t) \/ SetOpen(t)
  PROVE  Inv' /\ committed' = committed
  <1>1. Typed /\ txn[t] \in Transaction /\ txn[t].pc # "run"
    BY DEF Inv, Typed, OpenDatabase, SetOpen
  <1>2. CASE SetOpen(t)
    <2>1. txn[t].op \in Operations \cup {NoOp}
      BY <1>1 DEF Transaction
    <2> QED BY <1>1, <1>2, <2>1, InvEnter DEF SetOpen, Typed
  <1>3. CASE OpenDatabase(t)
    <2> DEFINE r == [txn[t] EXCEPT !.pc = "set"]
    <2>1. Update(t, r) /\ opened' \in BOOLEAN /\ UNCHANGED << Is_Open, data, ops >>
      BY <1>1, <1>3 DEF OpenDatabase, Typed
    <2>2. r \in Transaction /\ r.pc = "set"
      BY <1>1 DEF Transaction
    <2> HIDE DEF r
    <2>3. /\ txn' \in [Threads -> Transaction] /\ txn'[t] = r
          /\ \A u \in Threads \ {t} : txn'[u] = txn[u]
      BY <1>1, <2>1, <2>2, Updated
    <2>4. Owning(t)' /\ PutSoFar(t)' /\ DeletedSoFar(t)'
      BY <1>1, <2>1, <2>2, <2>3, NotWriting DEF Writing
    <2> QED BY <1>1, <2>1, <2>3, <2>4, Unmoved DEF Typed
  <1> QED BY <1>2, <1>3

LEMMA InvSaveSql == ASSUME Inv, SaveSql PROVE Inv' /\ committed' = committed
  <1>1. Typed' /\ committed' = committed
    BY DEF Inv, SaveSql, Typed, data, committed
  <1>2. ASSUME NEW u \in Threads PROVE Owning(u)' /\ PutSoFar(u)' /\ DeletedSoFar(u)'
    <2>1. txn'[u] = txn[u] /\ Mine(u)' = Mine(u)
      BY DEF Mine, data, SaveSql
    <2> QED BY <2>1, Frame DEF data, SaveSql
  <1> QED BY <1>1, <1>2 DEF Inv

LEMMA InvMoveNext == ASSUME Inv, NEW t \in Threads, MoveNext(t) PROVE Inv' /\ committed' = committed
  <1>1. PICK k \in Keys : Moves(t, k) /\
            LET got == txn[t].got \cup {k}
            IN  IF Enough(t, Cardinality(got))
                THEN Update(t, [txn[t] EXCEPT !.pc = "done", !.got = got, !.pos = 0, !.result = got])
                ELSE Update(t, [txn[t] EXCEPT !.got = got, !.pos = k])
    BY DEF MoveNext
  <1> DEFINE got == txn[t].got \cup {k}
             e == [txn[t] EXCEPT !.pc = "done", !.got = got, !.pos = 0, !.result = got]
             f == [txn[t] EXCEPT !.got = got, !.pos = k]
  <1>2. Typed /\ txn[t] \in Transaction /\ got \in SUBSET Keys /\ got \in Results
    BY DEF Inv, Typed, Transaction, Results
  <1>3. e \in Transaction /\ e.op = txn[t].op /\ f \in Transaction /\ f.op = txn[t].op
    BY <1>2 DEF Transaction
  <1>4. Update(t, e) \/ Update(t, f)
    BY <1>1
  <1> HIDE DEF e, f, got
  <1>5. /\ txn' \in [Threads -> Transaction] /\ txn'[t].op = txn[t].op
        /\ \A u \in Threads \ {t} : txn'[u] = txn[u]
    BY <1>2, <1>3, <1>4, Updated
  <1>6. UNCHANGED data /\ UNCHANGED << Is_Open, opened, ops >> /\ ~Writing(t) /\ ~Writing(t)'
    BY <1>1, <1>5 DEF Moves, Running, Writing, data
  <1>7. Owning(t)' /\ PutSoFar(t)' /\ DeletedSoFar(t)'
    BY <1>6, NotWriting
  <1> QED BY <1>2, <1>5, <1>6, <1>7, Unmoved DEF Typed

LEMMA InvAnswer ==
  ASSUME Inv, NEW t \in Threads, EndOfData(t) \/ Read(t)
  PROVE  Inv' /\ committed' = committed
  <1>1. Typed /\ txn[t] \in Transaction
    BY DEF Inv, Typed
  <1>2. PICK r \in Results : End(t, r)
    <2>1. CASE EndOfData(t)
      BY <2>1, <1>1 DEF EndOfData, Transaction, Results
    <2>2. CASE Read(t)
      <3>1. PICK k \in txn[t].todo : End(t, Image(k))
        BY <2>2 DEF Read
      <3>2. Image(k) \in Results
        BY <1>1 DEF Image, Typed, Results
      <3> QED BY <3>1, <3>2
    <2> QED BY <2>1, <2>2
  <1>3. /\ txn' \in [Threads -> Transaction] /\ txn'[t].pc = "done"
        /\ \A u \in Threads \ {t} : txn'[u] = txn[u]
    BY <1>1, <1>2, Ended
  <1>4. UNCHANGED data /\ UNCHANGED << Is_Open, opened, ops >> /\ ~Writing(t) /\ ~Writing(t)'
    BY <1>3 DEF EndOfData, Read, Running, Writing, data
  <1>5. Owning(t)' /\ PutSoFar(t)' /\ DeletedSoFar(t)'
    BY <1>4, NotWriting
  <1> QED BY <1>1, <1>3, <1>4, <1>5, Unmoved DEF Typed

-----------------------------------------------------------------------------
(* A step of t that touches no record another thread holds.                 *)
LEMMA OnlyMine ==
  ASSUME Inv, NEW t \in Threads, Typed', Owning(t)' /\ PutSoFar(t)' /\ DeletedSoFar(t)',
         \A u \in Threads \ {t} :
            /\ txn'[u] = txn[u] /\ Mine(u)' = Mine(u)
            /\ \A k \in Mine(u) :
                  /\ k \in DOMAIN undo' <=> k \in DOMAIN undo
                  /\ k \in DOMAIN undo => undo'[k] = undo[k]
                  /\ k \in DOMAIN db' <=> k \in DOMAIN db
                  /\ k \in DOMAIN db => db'[k] = db[k]
  PROVE  Inv'
  <1>1. ASSUME NEW u \in Threads \ {t} PROVE Owning(u)' /\ PutSoFar(u)' /\ DeletedSoFar(u)'
    BY <1>1, Frame
  <1> QED BY <1>1 DEF Inv

LEMMA Finished ==
  ASSUME Inv, NEW t \in Threads, txn'[t].pc = "done", Mine(t)' = {}
  PROVE  Owning(t)' /\ PutSoFar(t)' /\ DeletedSoFar(t)'
  BY DEF Owning, PutSoFar, DeletedSoFar, Writing, Running

LEMMA InvTimeOut ==
  ASSUME Inv, NEW t \in Threads, TimeOut(t)
  PROVE  /\ Inv' /\ committed' = committed
         /\ Running(t, "put") => txn'[t].result = FALSE
  <1>1. Typed /\ txn[t] \in Transaction
    BY DEF Inv, Typed
  <1>2. Refused(t) \in Results /\ (Running(t, "put") => Refused(t) = FALSE)
    <2>1. txn[t].op.kind \in Kinds /\ txn[t].sum \in Nat
      BY <1>1, StoreAssumption DEF StoreAssumption, Transaction, NoOp, Kinds
    <2> QED BY <2>1 DEF Refused, Kinds, Results, Running
  <1>3. /\ End(t, Refused(t)) /\ RollBack(t) /\ Unlock(t)
        /\ UNCHANGED << Is_Open, opened, ops >> /\ left' \subseteq Keys
    BY <1>1 DEF TimeOut, Waits, LeaveCursor, Typed
  <1>4. /\ txn' \in [Threads -> Transaction]
        /\ txn'[t].pc = "done" /\ txn'[t].result = Refused(t)
        /\ \A u \in Threads \ {t} : txn'[u] = txn[u]
    BY <1>1, <1>2, <1>3, Ended
  <1>5. /\ db' \in [DOMAIN db' -> Values] /\ DOMAIN db' \subseteq Keys
        /\ \A k \in Keys \ Mine(t) :
               /\ k \in DOMAIN db' <=> k \in DOMAIN db
               /\ k \in DOMAIN db => db'[k] = db[k]
        /\ \A k \in Keys : Past(k)' = Past(k)
    BY <1>3, RolledBack
  <1>6. /\ lock' \in [Keys -> Threads \cup {None, Lost}]
        /\ undo' \in [DOMAIN undo' -> Values \cup {None}]
        /\ DOMAIN undo' \subseteq {l \in Keys : lock'[l] # None}
        /\ Mine(t)' = {}
        /\ \A u \in Threads \ {t} : Mine(u)' = Mine(u) /\ Mine(u) \cap Mine(t) = {}
        /\ DOMAIN undo' = DOMAIN undo \ Mine(t)
        /\ \A k \in DOMAIN undo' : undo'[k] = undo[k]
    BY <1>3, Unlocked
  <1>7. Typed'
    BY <1>1, <1>3, <1>4, <1>5, <1>6 DEF Typed
  <1>8. ASSUME NEW u \in Threads \ {t}, NEW k \in Mine(u)
        PROVE  /\ k \in DOMAIN undo' <=> k \in DOMAIN undo
               /\ k \in DOMAIN undo => undo'[k] = undo[k]
               /\ k \in DOMAIN db' <=> k \in DOMAIN db
               /\ k \in DOMAIN db => db'[k] = db[k]
    <2>1. k \in Keys \ Mine(t)
      BY <1>6 DEF Mine
    <2> QED BY <2>1, <1>5, <1>6
  <1>9. Owning(t)' /\ PutSoFar(t)' /\ DeletedSoFar(t)'
    BY <1>4, <1>6, Finished
  <1>10. Inv'
    BY <1>4, <1>6, <1>7, <1>8, <1>9, OnlyMine
  <1>11. committed' = committed
    BY <1>1, <1>5, <1>7, SamePast
  <1> QED BY <1>2, <1>4, <1>10, <1>11

(* A null value leaves what was locked locked, and nobody's.                *)
LEMMA InvPutNothing ==
  ASSUME Inv, NEW t \in Threads, NEW k \in Keys, PutNothing(t, k)
  PROVE  Inv' /\ committed' = committed /\ txn'[t].result = FALSE
  <1>1. Typed /\ t # Lost /\ Lost # None
    BY NotThreads, StoreAssumption DEF Inv, StoreAssumption
  <1>2. FALSE \in Results /\ End(t, FALSE) /\ UNCHANGED << Is_Open, opened, ops, db, undo, left >>
    BY DEF PutNothing, Putting, Results
  <1>3. /\ txn' \in [Threads -> Transaction]
        /\ txn'[t].pc = "done" /\ txn'[t].result = FALSE
        /\ \A u \in Threads \ {t} : txn'[u] = txn[u]
    BY <1>1, <1>2, Ended
  <1>4. /\ lock' \in [Keys -> Threads \cup {None, Lost}]
        /\ \A l \in Keys : lock'[l] = IF lock[l] = t THEN Lost ELSE lock[l]
    BY <1>1 DEF Typed, PutNothing
  <1>5. Typed'
    BY <1>1, <1>2, <1>3, <1>4 DEF Typed
  <1>6. Mine(t)' = {} /\ \A u \in Threads \ {t} : Mine(u)' = Mine(u)
    BY <1>1, <1>4, NotThreads DEF Mine
  <1>7. Owning(t)' /\ PutSoFar(t)' /\ DeletedSoFar(t)'
    BY <1>3, <1>6, Finished
  <1>8. Inv'
    BY <1>2, <1>3, <1>5, <1>6, <1>7, OnlyMine
  <1>9. committed' = committed
    BY <1>2 DEF committed
  <1> QED BY <1>3, <1>8, <1>9

LEMMA InvPutRecord ==
  ASSUME Inv, NEW t \in Threads, NEW k \in Keys, PutRecord(t, k)
  PROVE  Inv' /\ committed' = committed /\ txn'[t].pc = "run"
  <1> DEFINE writes == txn[t].op.overwrite \/ k \notin DOMAIN db
             v == txn[t].op.map[k]
             r == [txn[t] EXCEPT !.todo = @ \ {k}, !.last = writes]
  <1>1. /\ Typed /\ txn[t] \in Transaction
        /\ Owning(t) /\ PutSoFar(t) /\ DeletedSoFar(t)
    BY DEF Inv, Typed
  <1>2. /\ Running(t, "put") /\ Writing(t) /\ k \in txn[t].todo /\ v # NoData /\ Free(t, k)
        /\ UNCHANGED << Is_Open, opened, ops, left >>
        /\ Update(t, r)
        /\ writes => Change(t, k, v)
        /\ ~writes => lock' = [lock EXCEPT ![k] = t] /\ UNCHANGED << db, undo >>
    BY DEF PutRecord, Putting, Running, Writing
  <1>3. /\ v \in Values /\ None \notin Values /\ k \in DOMAIN txn[t].op.map
        /\ Mine(t) = Written(t)
    BY <1>1, <1>2, OperationTyped, StoreAssumption DEF StoreAssumption, Owning, Running
  <1>4. lock[k] = None /\ k \notin DOMAIN undo /\ k \notin Written(t)
    BY <1>1, <1>2, <1>3 DEF Free, Mine, Written, Typed
  <1>5. /\ r \in Transaction /\ r.pc = "run" /\ r.op = txn[t].op
        /\ r.todo = txn[t].todo \ {k} /\ (txn[t].op.overwrite => r.last)
    BY <1>1, <1>2 DEF Transaction, Running
  <1> HIDE DEF r
  <1>6. /\ txn' \in [Threads -> Transaction] /\ txn'[t] = r
        /\ \A u \in Threads \ {t} : txn'[u] = txn[u]
    BY <1>1, <1>2, <1>5, Updated
  <1>7. /\ Written(t)' = Written(t) \cup {k} /\ Writing(t)' /\ Running(t, "put")'
        /\ ~Running(t, "delete")' /\ r.todo \subseteq DOMAIN r.op.map
    BY <1>1, <1>2, <1>3, <1>5, <1>6 DEF Written, Writing, Running, Owning
  <1>8. CASE writes
    <2>1. Change(t, k, v) /\ v \in Values \cup {None}
      BY <1>2, <1>3, <1>8
    <2>2. /\ db' \in [DOMAIN db' -> Values] /\ DOMAIN db' \subseteq Keys
          /\ lock' \in [Keys -> Threads \cup {None, Lost}]
          /\ undo' \in [DOMAIN undo' -> Values \cup {None}]
          /\ DOMAIN undo' \subseteq {l \in Keys : lock'[l] # None}
          /\ Mine(t)' = Mine(t) \cup {k} /\ k \notin Mine(t)
          /\ \A u \in Threads \ {t} : Mine(u)' = Mine(u) /\ k \notin Mine(u)
          /\ k \in DOMAIN undo' /\ undo'[k] = Image(k)
          /\ k \in DOMAIN db' <=> v # None
          /\ k \in DOMAIN db' => db'[k] = v
          /\ \A l \in Keys \ {k} :
                /\ l \in DOMAIN undo' <=> l \in DOMAIN undo
                /\ l \in DOMAIN undo => undo'[l] = undo[l]
                /\ l \in DOMAIN db' <=> l \in DOMAIN db
                /\ l \in DOMAIN db => db'[l] = db[l]
          /\ \A l \in Keys : Past(l)' = Past(l)
      BY <1>4, <2>1, Changed
    <2> HIDE DEF v
    <2>3. Typed'
      BY <1>1, <1>2, <1>6, <2>2 DEF Typed
    <2>4. Owning(t)'
      BY <1>3, <1>5, <1>6, <1>7, <2>2 DEF Owning
    <2>5. ASSUME NEW l \in Written(t)'
          PROVE  /\ l \in DOMAIN db' /\ r.op.map[l] \in Values
                 /\ l \in DOMAIN undo' =>
                       /\ db'[l] = r.op.map[l]
                       /\ r.op.overwrite \/ undo'[l] = None
                 /\ l \notin DOMAIN undo' => ~r.op.overwrite
      <3>1. CASE l = k
        <4>1. v = r.op.map[k]
          BY <1>5 DEF v
        <4>2. r.op.overwrite \/ undo'[k] = None
          BY <1>5, <1>8, <2>2 DEF Image
        <4> QED BY <3>1, <4>1, <4>2, <1>3, <2>2
      <3>2. CASE l # k
        <4>1. l \in Written(t) /\ l \in Keys \ {k}
          BY <2>5, <3>2, <1>3, <1>7 DEF Mine
        <4> QED BY <4>1, <1>1, <1>2, <1>5, <2>2 DEF PutSoFar
      <3> QED BY <3>1, <3>2
    <2>6. PutSoFar(t)'
      BY <1>5, <1>6, <2>5 DEF PutSoFar
    <2>7. DeletedSoFar(t)'
      BY <1>7 DEF DeletedSoFar, Running, Writing
    <2>8. ASSUME NEW u \in Threads \ {t}, NEW l \in Mine(u) PROVE l \in Keys \ {k}
      BY <2>2 DEF Mine
    <2>9. Inv'
      BY <1>6, <2>2, <2>3, <2>4, <2>6, <2>7, <2>8, OnlyMine
    <2>10. committed' = committed
      BY <1>1, <2>2, <2>3, SamePast
    <2> QED BY <1>5, <1>6, <2>9, <2>10
  <1>9. CASE ~writes
    <2>1. lock' = [lock EXCEPT ![k] = t] /\ UNCHANGED << db, undo >>
      BY <1>2, <1>9
    <2>2. /\ lock' \in [Keys -> Threads \cup {None, Lost}]
          /\ lock'[k] = t /\ \A l \in Keys \ {k} : lock'[l] = lock[l]
      BY <1>1, <2>1 DEF Typed
    <2>3. Typed'
      BY <1>1, <1>2, <1>6, <2>1, <2>2, NotThreads DEF Typed
    <2>4. /\ Mine(t)' = Mine(t) \cup {k}
          /\ \A u \in Threads \ {t} : Mine(u)' = Mine(u)
      BY <1>4, <2>2, NotThreads DEF Mine
    <2>5. Owning(t)'
      BY <1>3, <1>5, <1>6, <1>7, <2>4 DEF Owning
    <2>6. ASSUME NEW l \in Written(t)'
          PROVE  /\ l \in DOMAIN db' /\ r.op.map[l] \in Values
                 /\ l \in DOMAIN undo' =>
                       /\ db'[l] = r.op.map[l]
                       /\ r.op.overwrite \/ undo'[l] = None
                 /\ l \notin DOMAIN undo' => ~r.op.overwrite
      <3>1. CASE l = k
        BY <3>1, <1>3, <1>4, <1>5, <1>9, <2>1
      <3>2. CASE l # k
        <4>1. l \in Written(t)
          BY <2>6, <3>2, <1>7
        <4> QED BY <4>1, <1>1, <1>2, <1>5, <2>1 DEF PutSoFar
      <3> QED BY <3>1, <3>2
    <2>7. PutSoFar(t)'
      BY <1>5, <1>6, <2>6 DEF PutSoFar
    <2>8. DeletedSoFar(t)'
      BY <1>7 DEF DeletedSoFar, Running, Writing
    <2>9. Inv'
      BY <1>6, <2>1, <2>3, <2>4, <2>5, <2>7, <2>8, OnlyMine
    <2>10. committed' = committed
      BY <2>1 DEF committed
    <2> QED BY <1>5, <1>6, <2>9, <2>10
  <1> QED BY <1>8, <1>9

LEMMA InvDeleteRecord ==
  ASSUME Inv, NEW t \in Threads, NEW k \in Keys, DeleteRecord(t, k)
  PROVE  Inv' /\ committed' = committed
  <1> DEFINE r == [txn[t] EXCEPT !.todo = @ \ {k}, !.sum = IF k \in DOMAIN db THEN @ + 1 ELSE @]
  <1>1. /\ Typed /\ txn[t] \in Transaction
        /\ Owning(t) /\ PutSoFar(t) /\ DeletedSoFar(t)
    BY DEF Inv, Typed
  <1>2. /\ txn[t].pc = "run" /\ txn[t].op.kind \in {"delete", "remove"} /\ Writing(t)
        /\ k \in txn[t].todo /\ Free(t, k)
        /\ UNCHANGED << Is_Open, opened, ops, left >>
        /\ Update(t, r)
        /\ Change(t, k, None)
    BY DEF DeleteRecord, Deleting, Writing
  <1>3. k \in DOMAIN txn[t].op.map /\ Mine(t) = Written(t) /\ None \notin Values
    BY <1>1, <1>2, StoreAssumption DEF StoreAssumption, Owning
  <1>4. lock[k] = None
    BY <1>1, <1>2, <1>3 DEF Free, Mine, Written
  <1>5. /\ r \in Transaction /\ r.pc = "run" /\ r.op = txn[t].op
        /\ r.todo = txn[t].todo \ {k}
        /\ r.sum = IF k \in DOMAIN db THEN txn[t].sum + 1 ELSE txn[t].sum
    <2> DEFINE n == IF k \in DOMAIN db THEN txn[t].sum + 1 ELSE txn[t].sum
    <2>1. txn[t].sum \in Nat /\ n \in Nat
      BY <1>1 DEF Transaction
    <2>2. r = [txn[t] EXCEPT !.todo = txn[t].todo \ {k}, !.sum = n]
      OBVIOUS
    <2> HIDE DEF n, r
    <2>3. /\ r \in Transaction /\ r.pc = "run" /\ r.op = txn[t].op
          /\ r.todo = txn[t].todo \ {k} /\ r.sum = n
      BY <1>1, <1>2, <2>1, <2>2 DEF Transaction
    <2> QED BY <2>3 DEF n
  <1> HIDE DEF r
  <1>6. /\ txn' \in [Threads -> Transaction] /\ txn'[t] = r
        /\ \A u \in Threads \ {t} : txn'[u] = txn[u]
    BY <1>1, <1>2, <1>5, Updated
  <1>7. /\ Written(t)' = Written(t) \cup {k} /\ Writing(t)' /\ ~Running(t, "put")'
        /\ Running(t, "delete")' <=> Running(t, "delete")
        /\ r.todo \subseteq DOMAIN r.op.map
    BY <1>1, <1>2, <1>3, <1>5, <1>6 DEF Written, Writing, Running, Owning
  <1>8. /\ db' \in [DOMAIN db' -> Values] /\ DOMAIN db' \subseteq Keys
        /\ lock' \in [Keys -> Threads \cup {None, Lost}]
        /\ undo' \in [DOMAIN undo' -> Values \cup {None}]
        /\ DOMAIN undo' \subseteq {l \in Keys : lock'[l] # None}
        /\ Mine(t)' = Mine(t) \cup {k} /\ k \notin Mine(t)
        /\ \A u \in Threads \ {t} : Mine(u)' = Mine(u) /\ k \notin Mine(u)
        /\ k \in DOMAIN undo' /\ undo'[k] = Image(k)
        /\ k \notin DOMAIN db'
        /\ \A l \in Keys \ {k} :
              /\ l \in DOMAIN undo' <=> l \in DOMAIN undo
              /\ l \in DOMAIN undo => undo'[l] = undo[l]
              /\ l \in DOMAIN db' <=> l \in DOMAIN db
              /\ l \in DOMAIN db => db'[l] = db[l]
        /\ \A l \in Keys : Past(l)' = Past(l)
    BY <1>2, <1>4, Changed
  <1>9. Typed'
    BY <1>1, <1>2, <1>6, <1>8 DEF Typed
  <1>10. Owning(t)' /\ PutSoFar(t)'
    BY <1>3, <1>5, <1>6, <1>7, <1>8 DEF Owning, PutSoFar
  <1>11. ASSUME NEW l \in Written(t)' PROVE l \in DOMAIN undo' /\ l \notin DOMAIN db'
    <2>1. CASE l = k
      BY <2>1, <1>8
    <2>2. CASE l # k
      <3>1. l \in Written(t) /\ l \in Keys \ {k}
        BY <1>3, <1>7, <1>11, <2>2 DEF Mine
      <3> QED BY <3>1, <1>1, <1>2, <1>8 DEF DeletedSoFar
    <2> QED BY <2>1, <2>2
  <1>12. Running(t, "delete") =>
            txn'[t].sum = Cardinality({l \in Mine(t) : undo[l] # None}')
    <2> SUFFICES ASSUME Running(t, "delete")
                 PROVE  r.sum = Cardinality({l \in Mine(t) : undo[l] # None}')
      BY <1>6
    <2> DEFINE S == {l \in Mine(t) : undo[l] # None}
    <2>1. txn[t].sum = Cardinality(S) /\ IsFiniteSet(S) /\ k \notin S
      <3>1. S \subseteq Keys /\ IsFiniteSet(Keys)
        BY StoreAssumption DEF StoreAssumption, Mine
      <3>2. IsFiniteSet(S)
        BY <3>1, FS_Subset
      <3> QED BY <3>2, <1>1, <1>8 DEF DeletedSoFar
    <2>2. \A l \in Mine(t) : undo'[l] = undo[l]
      <3>1. \A l \in Mine(t) : l \in DOMAIN undo /\ l \in Keys \ {k}
        BY <1>1, <1>2, <1>3, <1>8 DEF DeletedSoFar, Mine
      <3> QED BY <3>1, <1>8
    <2>3. undo'[k] # None <=> k \in DOMAIN db
      BY <1>1, <1>3, <1>8 DEF Image, Typed
    <2>4. {l \in Mine(t) : undo[l] # None}' = IF k \in DOMAIN db THEN S \cup {k} ELSE S
      BY <1>8, <2>2, <2>3
    <2>5. Cardinality(S \cup {k}) = Cardinality(S) + 1
      BY <2>1, FS_AddElement
    <2> QED BY <1>5, <2>1, <2>4, <2>5
  <1>13. DeletedSoFar(t)'
    BY <1>7, <1>11, <1>12 DEF DeletedSoFar
  <1>14. ASSUME NEW u \in Threads \ {t}, NEW l \in Mine(u) PROVE l \in Keys \ {k}
    BY <1>8 DEF Mine
  <1>15. Inv'
    BY <1>6, <1>8, <1>9, <1>10, <1>13, <1>14, OnlyMine
  <1>16. committed' = committed
    BY <1>1, <1>8, <1>9, SamePast
  <1> QED BY <1>15, <1>16

-----------------------------------------------------------------------------
(* What the end of a transaction makes of the committed records.            *)
LEMMA WholePut ==
  ASSUME Typed, Typed', NEW f, DOMAIN f \subseteq Keys,
         \A k \in DOMAIN f : f[k] \in Values,
         \A k \in Keys : Past(k)' = IF k \in DOMAIN f THEN f[k] ELSE Past(k)
  PROVE  committed' = AbstractRecords!Over(f, committed)
  <1>1. committed = [k \in {l \in Keys : Past(l) # None} |-> Past(k)]
    BY CommittedIsPast
  <1>2. committed' = [k \in {l \in Keys : Past(l)' # None} |-> Past(k)']
    <2>1. (committed = [k \in {l \in Keys : Past(l) # None} |-> Past(k)])'
      BY CommittedIsPast, PTL
    <2> QED BY <2>1
  <1>3. None \notin Values
    BY StoreAssumption DEF StoreAssumption
  <1>4. {l \in Keys : Past(l)' # None} = DOMAIN f \cup DOMAIN committed
    BY <1>1, <1>3
  <1>5. \A k \in DOMAIN f \cup DOMAIN committed :
            Past(k)' = IF k \in DOMAIN f THEN f[k] ELSE committed[k]
    BY <1>1
  <1> QED BY <1>2, <1>4, <1>5 DEF AbstractRecords!Over

LEMMA WholePutAbsent ==
  ASSUME Typed, Typed', NEW f, DOMAIN f \subseteq Keys,
         \A k \in DOMAIN f : f[k] \in Values,
         \A k \in Keys : Past(k)' = IF k \in DOMAIN f /\ Past(k) = None THEN f[k] ELSE Past(k)
  PROVE  committed' = AbstractRecords!Over(committed, f)
  <1>1. committed = [k \in {l \in Keys : Past(l) # None} |-> Past(k)]
    BY CommittedIsPast
  <1>2. committed' = [k \in {l \in Keys : Past(l)' # None} |-> Past(k)']
    <2>1. (committed = [k \in {l \in Keys : Past(l) # None} |-> Past(k)])'
      BY CommittedIsPast, PTL
    <2> QED BY <2>1
  <1>3. None \notin Values
    BY StoreAssumption DEF StoreAssumption
  <1>4. {l \in Keys : Past(l)' # None} = DOMAIN committed \cup DOMAIN f
    BY <1>1, <1>3
  <1>5. \A k \in DOMAIN committed \cup DOMAIN f :
            Past(k)' = IF k \in DOMAIN committed THEN committed[k] ELSE f[k]
    BY <1>1
  <1> QED BY <1>2, <1>4, <1>5 DEF AbstractRecords!Over

LEMMA WholeRemoval ==
  ASSUME Typed, Typed', NEW K,
         \A k \in Keys : Past(k)' = IF k \in K THEN None ELSE Past(k)
  PROVE  committed' = [k \in DOMAIN committed \ K |-> committed[k]]
  <1>1. committed = [k \in {l \in Keys : Past(l) # None} |-> Past(k)]
    BY CommittedIsPast
  <1>2. committed' = [k \in {l \in Keys : Past(l)' # None} |-> Past(k)']
    <2>1. (committed = [k \in {l \in Keys : Past(l) # None} |-> Past(k)])'
      BY CommittedIsPast, PTL
    <2> QED BY <2>1
  <1>3. {l \in Keys : Past(l)' # None} = DOMAIN committed \ K
    BY <1>1
  <1>4. \A k \in DOMAIN committed \ K : Past(k)' = committed[k]
    BY <1>1
  <1> QED BY <1>2, <1>3, <1>4

(* A commit: the locks go, the records stay.                                *)
LEMMA Committed ==
  ASSUME Inv, NEW t \in Threads, NEW r \in Results, End(t, r), Unlock(t),
         UNCHANGED << Is_Open, opened, ops, db, left >>
  PROVE  /\ Inv'
         /\ \A k \in Keys : Past(k)' = IF k \in Mine(t) THEN Image(k) ELSE Past(k)
         /\ txn'[t].pc = "done" /\ txn'[t].result = r
         /\ \A u \in Threads \ {t} : txn'[u] = txn[u]
  <1>1. Typed
    BY DEF Inv
  <1>2. /\ txn' \in [Threads -> Transaction]
        /\ txn'[t].pc = "done" /\ txn'[t].result = r
        /\ \A u \in Threads \ {t} : txn'[u] = txn[u]
    BY <1>1, Ended
  <1>3. /\ lock' \in [Keys -> Threads \cup {None, Lost}]
        /\ undo' \in [DOMAIN undo' -> Values \cup {None}]
        /\ DOMAIN undo' \subseteq {l \in Keys : lock'[l] # None}
        /\ Mine(t)' = {}
        /\ \A u \in Threads \ {t} : Mine(u)' = Mine(u) /\ Mine(u) \cap Mine(t) = {}
        /\ DOMAIN undo' = DOMAIN undo \ Mine(t)
        /\ \A k \in DOMAIN undo' : undo'[k] = undo[k]
    BY Unlocked
  <1>4. Typed'
    BY <1>1, <1>2, <1>3 DEF Typed
  <1>5. Owning(t)' /\ PutSoFar(t)' /\ DeletedSoFar(t)'
    BY <1>2, <1>3, Finished
  <1>6. Inv'
    BY <1>2, <1>3, <1>4, <1>5, OnlyMine
  <1>7. \A k \in Keys : Past(k)' = IF k \in Mine(t) THEN Image(k) ELSE Past(k)
    BY <1>3 DEF Past, Image
  <1> QED BY <1>2, <1>6, <1>7

LEMMA InvCommitPut ==
  ASSUME Inv, NEW t \in Threads, CommitPut(t)
  PROVE  /\ Inv' /\ AbstractRecords!Next
         /\ txn[t].op.overwrite =>
               IF txn'[t].result /\ DOMAIN txn[t].op.map # {}
               THEN \A k \in DOMAIN txn[t].op.map :
                       k \in DOMAIN committed' /\ committed'[k] = txn[t].op.map[k]
               ELSE committed' = committed
  <1> DEFINE f == txn[t].op.map
  <1>1. /\ Typed /\ txn[t] \in Transaction /\ Owning(t) /\ PutSoFar(t)
        /\ Running(t, "put") /\ Writing(t) /\ Written(t) = DOMAIN f
    BY DEF Inv, Typed, CommitPut, Running, Writing, Written
  <1>2. txn[t].last \in Results /\ txn[t].last \in BOOLEAN
    BY <1>1 DEF Transaction, Results
  <1>3. /\ Inv'
        /\ \A k \in Keys : Past(k)' = IF k \in Mine(t) THEN Image(k) ELSE Past(k)
        /\ txn'[t].result = txn[t].last
    BY <1>2, Committed DEF CommitPut
  <1>4. /\ Mine(t) = DOMAIN f /\ DOMAIN f \subseteq Keys /\ txn[t].op \in Operations
        /\ txn[t].op.kind = "put" /\ \A k \in DOMAIN f : f[k] \in Values
    BY <1>1, OperationTyped DEF Owning, Running, PutSoFar
  <1>5. Typed' /\ None \notin Values
    BY <1>3, StoreAssumption DEF Inv, StoreAssumption
  <1>6. f \in {o.map : o \in {p \in Operations : p.kind = "put"}}
    BY <1>4
  <1>7. CASE txn[t].op.overwrite
    <2>1. \A k \in Keys : Past(k)' = IF k \in DOMAIN f THEN f[k] ELSE Past(k)
      BY <1>1, <1>3, <1>4, <1>7 DEF PutSoFar, Image
    <2>2. committed' = AbstractRecords!Over(f, committed)
      BY <1>1, <1>4, <1>5, <2>1, WholePut
    <2>3. AbstractRecords!Next
      BY <1>6, <2>2 DEF AbstractRecords!Next, AbstractRecords!Put
    <2>4. CASE DOMAIN f = {}
      <3>1. committed' = committed
        BY <1>1, <1>5, <2>1, <2>4, SamePast
      <3> QED BY <1>3, <2>3, <2>4, <3>1
    <2>5. CASE DOMAIN f # {}
      <3>1. txn'[t].result
        BY <1>1, <1>2, <1>3, <1>7, <2>5 DEF PutSoFar
      <3>2. \A k \in DOMAIN f : k \in DOMAIN committed' /\ committed'[k] = f[k]
        BY <2>2 DEF AbstractRecords!Over
      <3> QED BY <1>3, <2>3, <2>5, <3>1, <3>2
    <2> QED BY <2>4, <2>5
  <1>8. CASE ~txn[t].op.overwrite
    <2>1. \A k \in Keys : Past(k)' = IF k \in DOMAIN f /\ Past(k) = None THEN f[k] ELSE Past(k)
      <3>1. ASSUME NEW k \in DOMAIN f
            PROVE  Past(k)' = IF Past(k) = None THEN f[k] ELSE Past(k)
        <4>1. Past(k)' = db[k] /\ db[k] \in Values
          BY <1>1, <1>3, <1>4 DEF PutSoFar, Image, Typed
        <4>2. CASE k \in DOMAIN undo
          BY <1>1, <1>8, <4>1, <4>2 DEF PutSoFar, Past
        <4>3. CASE k \notin DOMAIN undo
          <5>1. Past(k) = db[k]
            BY <1>1, <4>3 DEF PutSoFar, Past, Image
          <5> QED BY <1>5, <4>1, <5>1
        <4> QED BY <4>2, <4>3
      <3> QED BY <1>3, <1>4, <3>1
    <2>2. committed' = AbstractRecords!Over(committed, f)
      BY <1>1, <1>4, <1>5, <2>1, WholePutAbsent
    <2>3. AbstractRecords!Next
      BY <1>6, <2>2 DEF AbstractRecords!Next, AbstractRecords!PutAbsent
    <2> QED BY <1>3, <1>8, <2>3
  <1> QED BY <1>7, <1>8

LEMMA InvCommitDelete ==
  ASSUME Inv, NEW t \in Threads, CommitDelete(t)
  PROVE  Inv' /\ AbstractRecords!Next
  <1> DEFINE K == DOMAIN txn[t].op.map
  <1>1. /\ Typed /\ txn[t] \in Transaction /\ Owning(t) /\ DeletedSoFar(t)
        /\ Writing(t) /\ txn[t].op.kind \in {"delete", "remove"} /\ Written(t) = K
    BY DEF Inv, Typed, CommitDelete, Writing, Written
  <1>2. PICK r \in Results : End(t, r)
    <2>1. PICK r \in IF txn[t].op.kind = "delete" THEN {txn[t].sum}
                     ELSE IF txn[t].sum = 1 THEN {TRUE} ELSE {TRUE, Exception} : End(t, r)
      BY DEF CommitDelete
    <2>2. r \in Results
      BY <1>1 DEF Transaction, Results
    <2> QED BY <2>1, <2>2
  <1>3. /\ Inv'
        /\ \A k \in Keys : Past(k)' = IF k \in Mine(t) THEN Image(k) ELSE Past(k)
    BY <1>2, Committed DEF CommitDelete
  <1>4. Mine(t) = K /\ txn[t].op \in Operations
    BY <1>1, OperationTyped DEF Owning
  <1>5. \A k \in Keys : Past(k)' = IF k \in K THEN None ELSE Past(k)
    BY <1>1, <1>3, <1>4 DEF DeletedSoFar, Image
  <1>6. Typed'
    BY <1>3 DEF Inv
  <1>7. committed' = [k \in DOMAIN committed \ K |-> committed[k]]
    BY <1>1, <1>5, <1>6, WholeRemoval
  <1>8. K \in {DOMAIN o.map : o \in {p \in Operations : p.kind \in {"delete", "remove"}}}
    BY <1>1, <1>4
  <1>9. AbstractRecords!Next
    BY <1>7, <1>8 DEF AbstractRecords!Next, AbstractRecords!Remove
  <1> QED BY <1>3, <1>9

-----------------------------------------------------------------------------
(* What the answer of a put that may overwrite says of the records.         *)
Answered(t) ==
    Running(t, "put") /\ txn'[t].pc = "done" /\ txn[t].op.overwrite =>
        IF txn'[t].result /\ DOMAIN txn[t].op.map # {}
        THEN \A k \in DOMAIN txn[t].op.map :
                k \in DOMAIN committed' /\ committed'[k] = txn[t].op.map[k]
        ELSE committed' = committed

(* Only the thread of a step ends its transaction.                          *)
LEMMA OthersRun ==
  ASSUME Typed, NEW t \in Threads, NEW r, Update(t, r)
  PROVE  \A u \in Threads \ {t} : txn'[u] = txn[u]
  BY DEF Typed, Update

LEMMA InvStep ==
  ASSUME Inv, [Next]_vars
  PROVE  /\ Inv' /\ [AbstractRecords!Next]_committed
         /\ \A t \in Threads : Answered(t)
  <1>1. ASSUME NEW t \in Threads, Step(t)
        PROVE  /\ Inv' /\ [AbstractRecords!Next]_committed
               /\ \A u \in Threads : Answered(u)
    <2>1. \A u \in Threads \ {t} : txn'[u] = txn[u]
      BY <1>1, OthersRun
         DEF Inv, Step, PutRecord, PutNothing, DeleteRecord, CommitPut, CommitDelete,
             MoveNext, EndOfData, Read, TimeOut, Waits, End, OpenDatabase, SetOpen, Enter
    <2>2. \A u \in Threads \ {t} : Answered(u)
      BY <2>1 DEF Answered, Running
    <2>3. CASE \E k \in Keys : PutRecord(t, k)
      <3>1. Inv' /\ committed' = committed /\ txn'[t].pc = "run"
        BY <2>3, InvPutRecord
      <3> QED BY <2>2, <3>1 DEF Answered
    <2>4. CASE \E k \in Keys : PutNothing(t, k)
      <3>1. Inv' /\ committed' = committed /\ txn'[t].result = FALSE
        BY <2>4, InvPutNothing
      <3> QED BY <2>2, <3>1 DEF Answered
    <2>5. CASE \E k \in Keys : DeleteRecord(t, k)
      <3>1. Inv' /\ committed' = committed /\ ~Running(t, "put")
        BY <2>5, InvDeleteRecord DEF DeleteRecord, Deleting, Running
      <3> QED BY <2>2, <3>1 DEF Answered
    <2>6. CASE CommitPut(t)
      <3>1. Answered(t)
        BY <2>6, InvCommitPut DEF Answered
      <3> QED BY <2>2, <2>6, <3>1, InvCommitPut
    <2>7. CASE CommitDelete(t)
      <3>1. Inv' /\ AbstractRecords!Next /\ ~Running(t, "put")
        BY <2>7, InvCommitDelete DEF CommitDelete, Running
      <3> QED BY <2>2, <3>1 DEF Answered
    <2>8. CASE MoveNext(t) \/ EndOfData(t) \/ Read(t)
      <3>1. Inv' /\ committed' = committed /\ ~Running(t, "put")
        BY <2>8, InvMoveNext, InvAnswer DEF MoveNext, Moves, EndOfData, Read, Running
      <3> QED BY <2>2, <3>1 DEF Answered
    <2>9. CASE TimeOut(t)
      <3>1. /\ Inv' /\ committed' = committed
            /\ Running(t, "put") => txn'[t].result = FALSE
        BY <2>9, InvTimeOut
      <3> QED BY <2>2, <3>1 DEF Answered
    <2>10. CASE OpenDatabase(t) \/ SetOpen(t)
      <3>1. Inv' /\ committed' = committed /\ ~Running(t, "put")
        BY <2>10, InvOpen DEF OpenDatabase, SetOpen, Running
      <3> QED BY <2>2, <3>1 DEF Answered
    <2> QED BY <1>1, <2>3, <2>4, <2>5, <2>6, <2>7, <2>8, <2>9, <2>10 DEF Step
  <1>2. ASSUME NEW t \in Threads, NEW o \in Operations, Begin(t, o)
        PROVE  /\ Inv' /\ [AbstractRecords!Next]_committed
               /\ \A u \in Threads : Answered(u)
    <2>1. Inv' /\ committed' = committed
      BY <1>2, InvBegin
    <2>2. ~Running(t, "put") /\ \A u \in Threads \ {t} : txn'[u] = txn[u]
      BY <1>2, OthersRun DEF Begin, Enter, Running, Inv
    <2> QED BY <2>1, <2>2 DEF Answered, Running
  <1>3. ASSUME SaveSql
        PROVE  /\ Inv' /\ [AbstractRecords!Next]_committed
               /\ \A u \in Threads : Answered(u)
    <2>1. Inv' /\ committed' = committed
      BY <1>3, InvSaveSql
    <2> QED BY <1>3, <2>1 DEF SaveSql, Answered, Running
  <1>4. ASSUME UNCHANGED vars
        PROVE  /\ Inv' /\ [AbstractRecords!Next]_committed
               /\ \A u \in Threads : Answered(u)
    <2>1. committed' = committed
      BY <1>4 DEF vars, data, committed
    <2>2. Typed'
      BY <1>4 DEF vars, data, Inv, Typed
    <2>3. ASSUME NEW u \in Threads PROVE Owning(u)' /\ PutSoFar(u)' /\ DeletedSoFar(u)'
      <3>1. txn'[u] = txn[u] /\ Mine(u)' = Mine(u)
        BY <1>4 DEF vars, data, Mine
      <3> QED BY <1>4, <3>1, Frame DEF vars, data
    <2>4. Inv'
      BY <2>2, <2>3 DEF Inv
    <2> QED BY <1>4, <2>1, <2>4 DEF vars, Answered, Running
  <1> QED BY <1>1, <1>2, <1>3, <1>4 DEF Next

-----------------------------------------------------------------------------
(* The variables of the store keep their types, what is unfinished is       *)
(* locked, and a deletion has counted what it removed                       *)
(* (BerkeleyDB.java:375-411).                                               *)
THEOREM TypeCorrect == Spec => []TypeOK
  BY InitInv, InvStep, InvTypeOK, PTL DEF Spec

(* What a step leaves locked for ever.                                      *)
Leaves ==
    /\ \A k \in Keys : lock'[k] = Lost /\ lock[k] # Lost =>
          \E t \in Threads :
             /\ Running(t, "put") /\ txn'[t].pc = "done" /\ txn'[t].result = FALSE
             /\ \E l \in DOMAIN txn[t].op.map : txn[t].op.map[l] = NoData
    /\ \A k \in left' \ left :
          \E t \in Threads :
             /\ Running(t, "select") /\ txn[t].pos = k
             /\ txn'[t].pc = "done" /\ txn'[t].result = Exception

LEMMA LeavesStep == ASSUME Inv, NEW t \in Threads, Step(t) PROVE Leaves
  <1>1. Typed /\ txn[t] \in Transaction /\ t # Lost /\ Lost # None
    BY NotThreads, StoreAssumption DEF StoreAssumption, Inv, Typed
  <1>2. ASSUME NEW r, End(t, r) PROVE txn'[t].pc = "done" /\ txn'[t].result = r
    BY <1>1, <1>2 DEF End, Update, Typed, Transaction
  <1>3. CASE \E k \in Keys : PutNothing(t, k)
    <2>1. PICK k \in Keys : PutNothing(t, k)
      BY <1>3
    <2>2. /\ Running(t, "put") /\ txn[t].op.map[k] = NoData /\ left' = left
          /\ txn'[t].pc = "done" /\ txn'[t].result = FALSE
      BY <1>2, <2>1 DEF PutNothing, Putting
    <2>3. k \in DOMAIN txn[t].op.map
      <3>1. Writing(t) /\ k \in txn[t].todo
        BY <2>1 DEF PutNothing, Putting, Running, Writing
      <3> QED BY <3>1 DEF Inv, Owning
    <2> QED BY <2>2, <2>3 DEF Leaves
  <1>4. CASE TimeOut(t)
    <2>1. \A k \in Keys : lock'[k] = IF lock[k] = t THEN None ELSE lock[k]
      BY <1>4 DEF TimeOut, Unlock
    <2>2. \A k \in left' \ left :
              /\ Running(t, "select") /\ txn[t].pos = k
              /\ txn'[t].pc = "done" /\ txn'[t].result = Exception
      <3>1. txn'[t].pc = "done" /\ txn'[t].result = Refused(t)
        BY <1>2, <1>4 DEF TimeOut, Waits
      <3>2. Running(t, "select") => Refused(t) = Exception
        BY DEF Refused, Running
      <3> QED BY <1>4, <3>1, <3>2 DEF TimeOut, LeaveCursor
    <2> QED BY <1>1, <2>1, <2>2 DEF Leaves
  <1>5. CASE \E k \in Keys : PutRecord(t, k) \/ DeleteRecord(t, k)
    <2>1. PICK k \in Keys : lock' = [lock EXCEPT ![k] = t] /\ left' = left
      BY <1>5 DEF PutRecord, DeleteRecord, Putting, Deleting, Change
    <2> QED BY <1>1, <2>1 DEF Leaves, Typed
  <1>6. CASE CommitPut(t) \/ CommitDelete(t)
    <2>1. /\ \A k \in Keys : lock'[k] = IF lock[k] = t THEN None ELSE lock[k]
          /\ left' = left
      BY <1>6 DEF CommitPut, CommitDelete, Unlock
    <2> QED BY <1>1, <2>1 DEF Leaves
  <1>7. CASE MoveNext(t) \/ EndOfData(t) \/ Read(t) \/ OpenDatabase(t) \/ SetOpen(t)
    BY <1>7 DEF MoveNext, Moves, EndOfData, Read, OpenDatabase, SetOpen, data, Leaves
  <1> QED BY <1>3, <1>4, <1>5, <1>6, <1>7 DEF Step

(* Whatever waits and fails, what stays locked behind its operation is what *)
(* a batch with a null value had locked, or the record under the cursor of  *)
(* a select that throws (BerkeleyDB.java:253-265, 612-621).                 *)
THEOREM LocksLeftSafe == Spec => LocksLeft
  <1>1. Inv /\ [Next]_vars => [Leaves]_vars
    <2>1. (\E t \in Threads, o \in Operations : Begin(t, o)) \/ SaveSql => Leaves
      BY DEF Begin, SaveSql, data, Leaves
    <2> QED BY <2>1, LeavesStep DEF Next
  <1>2. OwnersRun' /\ [Leaves]_vars =>
        [/\ \A k \in Keys :
               /\ lock'[k] \notin {None, Lost} => txn'[lock'[k]].pc = "run"
               /\ lock'[k] = Lost /\ lock[k] # Lost =>
                     \E t \in Threads :
                        /\ Running(t, "put") /\ txn'[t].pc = "done" /\ txn'[t].result = FALSE
                        /\ \E l \in DOMAIN txn[t].op.map : txn[t].op.map[l] = NoData
         /\ \A k \in left' \ left :
               \E t \in Threads :
                  /\ Running(t, "select") /\ txn[t].pos = k
                  /\ txn'[t].pc = "done" /\ txn'[t].result = Exception]_vars
    BY DEF OwnersRun, Leaves
  <1> QED BY InitInv, InvStep, InvOwnersRun, <1>1, <1>2, PTL DEF Spec, LocksLeft

(* The answer of a put that may overwrite is the truth about its whole map  *)
(* (BerkeleyDB.java:223-257).                                               *)
THEOREM AnswerIsTrueSafe == Spec => AnswerIsTrue
  <1>1. Inv /\ [Next]_vars => [\A t \in Threads : Answered(t)]_vars
    BY InvStep
  <1>2. [\A t \in Threads : Answered(t)]_vars => [\A t \in Threads :
          Running(t, "put") /\ txn'[t].pc = "done" /\ txn[t].op.overwrite =>
              IF txn'[t].result /\ DOMAIN txn[t].op.map # {}
              THEN \A k \in DOMAIN txn[t].op.map :
                      k \in DOMAIN committed' /\ committed'[k] = txn[t].op.map[k]
              ELSE committed' = committed]_vars
    BY DEF Answered
  <1> QED BY InitInv, InvStep, <1>1, <1>2, PTL DEF Spec, AnswerIsTrue

(* For any threads, records and operations, and however they interleave and *)
(* time out, the committed records change by whole operations               *)
(* (BerkeleyDB.java:212-266, 353-412).                                      *)
THEOREM StoreIsRecords == Spec => ImplementsRecords
  <1>1. Init => AbstractRecords!Init
    <2> SUFFICES ASSUME Init PROVE committed \in Contents
      BY DEF AbstractRecords!Init
    <2>1. db \in Contents /\ db \in [DOMAIN db -> Values] /\ DOMAIN db \subseteq Keys
      BY StoreAssumption DEF StoreAssumption, Init
    <2>2. DOMAIN undo = {}
      BY DEF Init, Nobody
    <2>3. {l \in Keys : IF l \in DOMAIN undo THEN undo[l] # None ELSE l \in DOMAIN db} = DOMAIN db
      BY <2>1, <2>2
    <2>4. committed = [k \in DOMAIN db |-> db[k]]
      BY <2>2, <2>3 DEF committed
    <2> QED BY <2>1, <2>4
  <1>2. Inv /\ [Next]_vars => [AbstractRecords!Next]_committed
    BY InvStep
  <1> QED BY InitInv, InvStep, <1>1, <1>2, PTL DEF Spec, ImplementsRecords, AbstractRecords!Spec

-----------------------------------------------------------------------------
(* Selections.                                                              *)

(* A running select has all the records up to its cursor that were there    *)
(* all the while, none beyond it, and too few to stop.                      *)
Selected(t) ==
    Running(t, "select") =>
        /\ steady[t] \subseteq DOMAIN committed /\ DOMAIN committed \subseteq ever[t]
        /\ txn[t].got \subseteq ever[t]
        /\ \A l \in txn[t].got : l <= txn[t].pos
        /\ \A l \in steady[t] : l <= txn[t].pos => l \in txn[t].got
        /\ txn[t].pos = 0 => txn[t].got = {}
        /\ txn[t].op.num # 0 =>
              Cardinality(txn[t].got) <= 1 \/ Cardinality(txn[t].got) < txn[t].op.num

SelectInv == \A t \in Threads : Selected(t)

(* What SelectIsOldest asks of a step, for one thread. *)
EndsOldest(t) ==
    Running(t, "select") /\ txn'[t].pc = "done" /\ txn'[t].result # Exception =>
        LET got == txn'[t].result
            num == txn[t].op.num
        IN  /\ got \subseteq ever[t]
            /\ num # 0 => Cardinality(got) <= Max({num, 2})
            /\ \A k \in steady[t] \ got :
                  /\ num # 0 /\ Cardinality(got) >= num
                  /\ \A l \in got : l < k

LEMMA LeastKey ==
  ASSUME NEW S \in SUBSET Nat, S # {}
  PROVE  Min(S) \in S /\ \A y \in S : Min(S) <= y
  <1> DEFINE R == OpToRel(<, Nat)
  <1>1. IsWellFoundedOn(R, Nat)
    BY NatLessThanWellFounded DEF OpToRel
  <1>2. R = {q \in Nat \X Nat : q[1] < q[2]}
    BY DEF OpToRel
  <1> HIDE DEF R
  <1>3. PICK x \in S : \A y \in S : << y, x >> \notin R
    BY <1>1, WFMin
  <1>4. ASSUME NEW y \in S PROVE x <= y
    <2> DEFINE q == << y, x >>
    <2>1. q \in Nat \X Nat /\ q[1] = y /\ q[2] = x
      OBVIOUS
    <2>2. q \notin R
      BY <1>3
    <2> HIDE DEF q
    <2> QED BY <1>2, <2>1, <2>2
  <1>5. \E z \in S : \A y \in S : z <= y
    BY <1>4
  <1> QED BY <1>5, Zenon DEF Min

LEMMA MostOfTwo ==
  ASSUME NEW n \in Nat PROVE Max({n, 2}) \in Nat /\ Max({n, 2}) >= n /\ Max({n, 2}) >= 2
  <1>1. \E x \in {n, 2} : \A y \in {n, 2} : x >= y
    <2>1. CASE n >= 2
      BY <2>1
    <2>2. CASE ~(n >= 2)
      BY <2>2
    <2> QED BY <2>1, <2>2
  <1>2. Max({n, 2}) \in {n, 2} /\ \A y \in {n, 2} : Max({n, 2}) >= y
    BY <1>1, Zenon DEF Max
  <1> QED BY <1>2

(* The key a cursor moves to is the least beyond it, in the database or     *)
(* committed; without a lock on it, it is committed.                        *)
LEMMA NextFacts ==
  ASSUME Typed, NEW t \in Threads
  PROVE  /\ NextKey(t) = 0 => \A l \in DOMAIN committed : l <= txn[t].pos
         /\ NextKey(t) # 0 =>
              /\ NextKey(t) > txn[t].pos
              /\ \A l \in DOMAIN committed : l > txn[t].pos => NextKey(t) <= l
              /\ lock[NextKey(t)] = None => NextKey(t) \in DOMAIN committed
  <1> DEFINE after == {k \in DOMAIN db \cup DOMAIN committed : k > txn[t].pos}
  <1>1. /\ DOMAIN db \subseteq Keys /\ DOMAIN committed \subseteq Keys
        /\ Keys \subseteq Nat \ {0} /\ txn[t].pos \in Nat
    BY StoreAssumption DEF StoreAssumption, Typed, Transaction, committed
  <1>2. NextKey(t) = IF after = {} THEN 0 ELSE Min(after)
    BY DEF NextKey
  <1>3. /\ after \subseteq DOMAIN db \cup DOMAIN committed
        /\ \A k \in DOMAIN db \cup DOMAIN committed : k \in after <=> k > txn[t].pos
    OBVIOUS
  <1>4. after # {} => Min(after) \in after /\ \A y \in after : Min(after) <= y
    BY <1>1, <1>3, LeastKey
  <1>5. \A k \in DOMAIN db : lock[k] = None => k \in DOMAIN committed
    BY DEF Typed, committed
  <1> HIDE DEF after
  <1>6. CASE after = {}
    <2>1. \A l \in DOMAIN committed : l \in Nat /\ ~(l > txn[t].pos)
      BY <1>1, <1>3, <1>6
    <2>2. \A l \in DOMAIN committed : l <= txn[t].pos
      BY <1>1, <2>1
    <2> QED BY <1>2, <1>6, <2>2
  <1>7. CASE after # {}
    <2>1. NextKey(t) \in after /\ \A y \in after : NextKey(t) <= y
      BY <1>2, <1>4, <1>7
    <2>2. NextKey(t) # 0
      BY <1>1, <1>3, <2>1
    <2> QED BY <1>3, <1>5, <2>1, <2>2
  <1> QED BY <1>6, <1>7

(* A select goes on while others change what is committed.                  *)
LEMMA SelectGoesOn ==
  ASSUME NEW t \in Threads, Selected(t), txn'[t] = txn[t], Watch
  PROVE  Selected(t)'
  <1> SUFFICES ASSUME Running(t, "select") PROVE Selected(t)'
    BY DEF Selected, Running
  <1>1. /\ steady'[t] = steady[t] \cap DOMAIN committed'
        /\ ever'[t] = ever[t] \cup DOMAIN committed'
    BY DEF Watch, Running
  <1> QED BY <1>1 DEF Selected, Running

LEMMA SelectMoves ==
  ASSUME Inv, NEW t \in Threads, Selected(t), MoveNext(t)
  PROVE  Selected(t)' /\ EndsOldest(t)
  <1>1. PICK k \in Keys :
          LET got == txn[t].got \cup {k} IN
          /\ Moves(t, k)
          /\ IF Enough(t, Cardinality(got))
             THEN Update(t, [txn[t] EXCEPT !.pc = "done", !.got = got, !.pos = 0, !.result = got])
             ELSE Update(t, [txn[t] EXCEPT !.got = got, !.pos = k])
          /\ Watch
    BY DEF MoveNext
  <1> DEFINE got == txn[t].got \cup {k}
             num == txn[t].op.num
  <1>2. /\ Running(t, "select") /\ k = NextKey(t) /\ k # 0 /\ lock[k] \in {None, t}
        /\ Typed /\ txn \in [Threads -> Transaction] /\ txn[t] \in Transaction
    BY <1>1 DEF Moves, Inv, Typed
  <1>3. lock[k] = None
    <2>1. ~Writing(t)
      BY <1>2 DEF Running, Writing
    <2>2. k \notin Mine(t)
      BY <2>1 DEF Inv, Owning
    <2> QED BY <1>2, <2>2 DEF Mine
  <1>4. /\ k > txn[t].pos /\ k \in DOMAIN committed
        /\ \A l \in DOMAIN committed : l > txn[t].pos => k <= l
    BY <1>2, <1>3, NextFacts
  <1>5. /\ k \in Nat /\ txn[t].pos \in Nat /\ txn[t].got \subseteq Nat
        /\ steady[t] \subseteq Nat /\ num \in Nat
    <2>1. Keys \subseteq Nat /\ txn[t].op \in Operations \cup {NoOp} /\ NoOp.num \in Nat
      BY <1>2, StoreAssumption DEF StoreAssumption, Transaction, NoOp
    <2>2. steady[t] \subseteq Keys
      BY <1>2 DEF Selected, committed
    <2> QED BY <1>2, <2>1, <2>2, StoreAssumption DEF StoreAssumption, Transaction
  <1>6. /\ IsFiniteSet(txn[t].got) /\ Cardinality(txn[t].got) \in Nat
        /\ Cardinality(got) \in Nat /\ Cardinality(got) <= Cardinality(txn[t].got) + 1
        /\ txn[t].got = {} => Cardinality(got) = 1
    <2>1. IsFiniteSet(txn[t].got)
      BY <1>2, StoreAssumption, FS_Subset DEF StoreAssumption, Transaction
    <2>2. txn[t].got = {} => Cardinality(got) = 1
      BY FS_Singleton
    <2> QED BY <2>1, <2>2, FS_AddElement, FS_CardinalityType
  <1> HIDE DEF got, num
  <1>7. got \subseteq ever[t] /\ \A l \in got : l <= k
    BY <1>2, <1>4, <1>5 DEF Selected, got
  <1>8. \A l \in steady[t] : l <= k => l \in got
    <2>1. ASSUME NEW l \in steady[t], l <= k PROVE l \in got
      <3>1. CASE l <= txn[t].pos
        BY <1>2, <3>1 DEF Selected, got
      <3>2. CASE l > txn[t].pos
        BY <1>2, <1>4, <1>5, <2>1, <3>2 DEF Selected, got
      <3> QED BY <1>5, <3>1, <3>2
    <2> QED BY <2>1
  <1>9. CASE Enough(t, Cardinality(got))
    <2>1. txn'[t].pc = "done" /\ txn'[t].result = got
      <3> DEFINE e == [txn[t] EXCEPT !.pc = "done", !.got = got, !.pos = 0, !.result = got]
      <3>1. Update(t, e)
        BY <1>1, <1>9 DEF got
      <3>2. e.pc = "done" /\ e.result = got
        BY <1>2 DEF Transaction
      <3> HIDE DEF e
      <3> QED BY <1>2, <3>1, <3>2 DEF Update
    <2>2. num # 0 /\ Cardinality(got) >= num
      BY <1>9 DEF Enough, num
    <2>3. Cardinality(got) <= Max({num, 2})
      <3>1. Cardinality(txn[t].got) <= 1 \/ Cardinality(txn[t].got) < num
        BY <1>2, <2>2 DEF Selected, num
      <3> QED BY <1>5, <1>6, <3>1, MostOfTwo
    <2>4. ASSUME NEW m \in steady[t] \ got PROVE \A l \in got : l < m
      <3>1. m > k
        BY <1>5, <1>8, <2>4
      <3>2. \A l \in got : l \in Nat
        BY <1>5 DEF got
      <3> QED BY <1>5, <1>7, <3>1, <3>2
    <2>5. EndsOldest(t)
      BY <1>7, <2>1, <2>2, <2>3, <2>4 DEF EndsOldest, num
    <2> QED BY <2>1, <2>5 DEF Selected, Running
  <1>10. CASE ~Enough(t, Cardinality(got))
    <2>1. /\ txn'[t].pc = "run" /\ txn'[t].op = txn[t].op
          /\ txn'[t].got = got /\ txn'[t].pos = k
      <3> DEFINE e == [txn[t] EXCEPT !.got = got, !.pos = k]
      <3>1. Update(t, e)
        BY <1>1, <1>10 DEF got
      <3>2. e.pc = "run" /\ e.op = txn[t].op /\ e.got = got /\ e.pos = k
        BY <1>2 DEF Transaction, Running
      <3> HIDE DEF e
      <3> QED BY <1>2, <3>1, <3>2 DEF Update
    <2>2. /\ steady'[t] = steady[t] \cap DOMAIN committed'
          /\ ever'[t] = ever[t] \cup DOMAIN committed'
      BY <1>1, <1>2, <2>1 DEF Watch, Running
    <2>3. num # 0 => Cardinality(got) <= 1 \/ Cardinality(got) < num
      BY <1>2, <1>5, <1>6, <1>10 DEF Enough, Selected, num
    <2>4. Selected(t)'
      BY <1>2, <1>7, <1>8, <2>1, <2>2, <2>3 DEF Selected, num
    <2> QED BY <2>1, <2>4 DEF EndsOldest
  <1> QED BY <1>9, <1>10

LEMMA SelectEnds ==
  ASSUME Inv, NEW t \in Threads, Selected(t), EndOfData(t)
  PROVE  Selected(t)' /\ EndsOldest(t)
  <1>1. Running(t, "select") /\ NextKey(t) = 0 /\ Typed /\ txn[t] \in Transaction
    BY DEF EndOfData, Inv, Typed
  <1>2. txn'[t].pc = "done" /\ txn'[t].result = txn[t].got
    BY <1>1 DEF EndOfData, End, Update, Typed, Transaction
  <1>3. txn[t].got \subseteq ever[t] /\ steady[t] \subseteq txn[t].got
    BY <1>1, NextFacts DEF Selected
  <1>4. txn[t].op.num # 0 => Cardinality(txn[t].got) <= Max({txn[t].op.num, 2})
    <2>1. txn[t].op \in Operations \cup {NoOp} /\ NoOp.num \in Nat
      BY <1>1 DEF Transaction, NoOp
    <2>2. txn[t].op.num \in Nat
      BY <2>1, StoreAssumption DEF StoreAssumption
    <2>3. Cardinality(txn[t].got) \in Nat
      BY <1>1, StoreAssumption, FS_Subset, FS_CardinalityType DEF StoreAssumption, Transaction
    <2> QED BY <1>1, <2>2, <2>3, MostOfTwo DEF Selected
  <1> QED BY <1>2, <1>3, <1>4 DEF EndsOldest, Selected, Running

(* The steps that begin no select and end none with an answer.              *)
LEMMA SelectEnters ==
  ASSUME Typed, NEW t \in Threads, NEW o, Enter(t, o), txn[t].pc # "run", Watch
  PROVE  Selected(t)'
  <1>1. PICK m : Update(t, [Idle EXCEPT !.op = o, !.todo = DOMAIN o.map, !.result = m,
                                        !.pc = IF opened THEN "run" ELSE "done"])
    BY DEF Enter
  <1> DEFINE e == [Idle EXCEPT !.op = o, !.todo = DOMAIN o.map, !.result = m,
                               !.pc = IF opened THEN "run" ELSE "done"]
  <1>2. Update(t, e) /\ e.got = {} /\ e.pos = 0
    BY <1>1 DEF Idle
  <1> HIDE DEF e
  <1>3. txn'[t].got = {} /\ txn'[t].pos = 0
    BY <1>2 DEF Update, Typed
  <1>4. Running(t, "select")' =>
            steady'[t] = DOMAIN committed' /\ ever'[t] = DOMAIN committed'
    BY DEF Watch, Running
  <1>5. \A l \in DOMAIN committed' : ~(l <= 0)
    BY StoreAssumption DEF StoreAssumption, committed
  <1>6. Cardinality({}) = 0
    BY FS_EmptySet
  <1> QED BY <1>3, <1>4, <1>5, <1>6 DEF Selected, Running

LEMMA SelectBegins ==
  ASSUME Typed, NEW t \in Threads,
         (\E o \in Operations : Begin(t, o)) \/ OpenDatabase(t) \/ SetOpen(t)
  PROVE  Selected(t)' /\ EndsOldest(t)
  <1>1. txn[t].pc # "run" /\ Watch
    BY DEF Begin, OpenDatabase, SetOpen
  <1>2. CASE \E o : Enter(t, o)
    BY <1>1, <1>2, SelectEnters DEF EndsOldest, Running
  <1>3. CASE ~\E o : Enter(t, o)
    <2>1. \/ \E o \in Operations : Update(t, [Idle EXCEPT !.pc = "open", !.op = o])
          \/ Update(t, [txn[t] EXCEPT !.pc = "set"])
      BY <1>3 DEF Begin, OpenDatabase, SetOpen
    <2>2. txn'[t].pc # "run"
      BY <2>1 DEF Update, Idle, Typed, Transaction
    <2> QED BY <1>1, <2>2 DEF Selected, EndsOldest, Running
  <1> QED BY <1>2, <1>3

LEMMA SelectStops ==
  ASSUME Typed, NEW t \in Threads, Step(t), ~MoveNext(t), ~EndOfData(t),
         ~OpenDatabase(t), ~SetOpen(t)
  PROVE  Selected(t)' /\ EndsOldest(t)
  <1>1. CASE TimeOut(t)
    <2>1. End(t, Refused(t)) /\ txn[t] \in Transaction
      BY <1>1 DEF TimeOut, Waits, Typed
    <2>2. txn'[t].pc = "done" /\ txn'[t].result = Refused(t)
      BY <2>1 DEF End, Update, Typed, Transaction
    <2>3. Running(t, "select") => Refused(t) = Exception
      BY DEF Refused, Running
    <2> QED BY <2>2, <2>3 DEF Selected, EndsOldest, Running
  <1>2. CASE ~TimeOut(t)
    <2>1. ~Running(t, "select") /\ txn'[t].op = txn[t].op
      <3>1. txn[t] \in Transaction /\ txn \in [Threads -> Transaction]
        BY DEF Typed
      <3>2. \A r : End(t, r) => txn'[t].op = txn[t].op
        BY <3>1 DEF End, Update, Transaction
      <3>3. CASE \E k \in Keys : PutRecord(t, k) \/ DeleteRecord(t, k)
        <4>1. txn'[t].op = txn[t].op
          <5>1. CASE \E k \in Keys : PutRecord(t, k)
            <6>1. PICK T, l : Update(t, [txn[t] EXCEPT !.todo = T, !.last = l])
              BY <5>1 DEF PutRecord
            <6> QED BY <3>1, <6>1 DEF Update, Transaction
          <5>2. CASE \E k \in Keys : DeleteRecord(t, k)
            <6>1. PICK T, m : Update(t, [txn[t] EXCEPT !.todo = T, !.sum = m])
              BY <5>2 DEF DeleteRecord
            <6> QED BY <3>1, <6>1 DEF Update, Transaction
          <5> QED BY <3>3, <5>1, <5>2
        <4> QED BY <3>3, <4>1 DEF PutRecord, DeleteRecord, Putting, Deleting, Running
      <3>4. CASE \/ \E k \in Keys : PutNothing(t, k)
                 \/ CommitPut(t) \/ CommitDelete(t) \/ Read(t)
        <4>1. \E r : End(t, r)
          BY <3>4 DEF PutNothing, CommitPut, CommitDelete, Read
        <4>2. ~Running(t, "select")
          BY <3>4 DEF PutNothing, CommitPut, CommitDelete, Read, Putting, Running
        <4> QED BY <3>2, <4>1, <4>2
      <3> QED BY <1>2, <3>3, <3>4 DEF Step
    <2>2. txn[t].pc = "run"
      BY <1>2 DEF Step, PutRecord, PutNothing, DeleteRecord, CommitPut, CommitDelete,
         Read, Putting, Deleting, Running
    <2> QED BY <2>1, <2>2 DEF Selected, EndsOldest, Running
  <1> QED BY <1>1, <1>2

(* A step of one thread only moves that thread, and tells the selects.      *)
LEMMA StepMoves ==
  ASSUME Typed, NEW t \in Threads, Step(t) \/ \E o \in Operations : Begin(t, o)
  PROVE  Watch /\ \A u \in Threads \ {t} : txn'[u] = txn[u]
  <1>1. Watch /\ \E r : Update(t, r)
    BY DEF Step, PutRecord, PutNothing, DeleteRecord, CommitPut, CommitDelete, MoveNext,
       EndOfData, Read, TimeOut, Waits, Begin, End, OpenDatabase, SetOpen, Enter
  <1> QED BY <1>1, OthersRun

LEMMA SelectStep ==
  ASSUME Inv, SelectInv, [Next]_vars, NEW t \in Threads
  PROVE  Selected(t)' /\ (UNCHANGED vars \/ EndsOldest(t))
  <1>1. Typed /\ Selected(t)
    BY DEF Inv, SelectInv
  <1>2. CASE \E u \in Threads \ {t} : Step(u) \/ \E o \in Operations : Begin(u, o)
    <2>1. Watch /\ txn'[t] = txn[t]
      BY <1>1, <1>2, StepMoves
    <2> QED BY <1>1, <2>1, SelectGoesOn DEF EndsOldest, Running
  <1>3. CASE Step(t)
    BY <1>1, <1>3, SelectMoves, SelectEnds, SelectStops, SelectBegins
  <1>4. CASE \E o \in Operations : Begin(t, o)
    BY <1>1, <1>4, SelectBegins
  <1>5. CASE SaveSql \/ UNCHANGED vars
    <2>1. txn' = txn /\ steady' = steady /\ ever' = ever /\ committed' = committed
      BY <1>5 DEF SaveSql, vars, data, history, committed
    <2> QED BY <1>1, <2>1 DEF Selected, EndsOldest, Running
  <1> QED BY <1>2, <1>3, <1>4, <1>5 DEF Next

(* However transactions interleave and time out, what a select returns were *)
(* committed records, it skips no older one that stayed, and it stops at    *)
(* the number asked for, or at two (BerkeleyDB.java:584-602).               *)
THEOREM SelectIsOldestSafe == Spec => SelectIsOldest
  <1>1. Init => SelectInv
    BY NoOpTyped DEF Init, SelectInv, Selected, Running
  <1>2. Inv /\ SelectInv /\ [Next]_vars => SelectInv'
    BY SelectStep DEF SelectInv
  <1>3. Inv /\ SelectInv /\ [Next]_vars => [\A t \in Threads : EndsOldest(t)]_vars
    BY SelectStep
  <1>4. [\A t \in Threads : EndsOldest(t)]_vars =>
          [\A t \in Threads :
              Running(t, "select") /\ txn'[t].pc = "done" /\ txn'[t].result # Exception =>
                  LET got == txn'[t].result
                      num == txn[t].op.num
                  IN  /\ got \subseteq ever[t]
                      /\ num # 0 => Cardinality(got) <= Max({num, 2})
                      /\ \A k \in steady[t] \ got :
                            /\ num # 0 /\ Cardinality(got) >= num
                            /\ \A l \in got : l < k]_vars
    BY DEF EndsOldest
  <1> QED BY InitInv, InvStep, <1>1, <1>2, <1>3, <1>4, PTL DEF Spec, SelectIsOldest
=============================================================================
