----------------------------- MODULE DataCenter -----------------------------
(***************************************************************************)
(* The delayed-data pipeline of DistributedDataProcessing.  Transport      *)
(* threads hand packets to DataCenter.AddData, which stamps each with a    *)
(* key made of the second and a counter and puts it into a HashMap.  Once  *)
(* the map holds a batch it is copied, cleared and saved to BerkeleyDB by  *)
(* the thread that filled it.  A worker thread selects the oldest records, *)
(* pushes them one by one to the bus and then deletes them in one          *)
(* transaction; the bus thread hands packets to the application's          *)
(* IQueueCall.  None of the static fields is guarded by a lock.            *)
(*                                                                         *)
(* The database commits without syncing (setTxnNoSyncVoid): a crash goes   *)
(* back to what the log held when it was last written.                     *)
(***************************************************************************)
EXTENDS Naturals, Sequences, FiniteSets

CONSTANTS
    Receivers,     \* threads that call AddData
    Packets,
    Poison,        \* packets whose stored form does not deserialise again
    BatchSize,     \* 100 in the code
    MaxDelay,      \* maxDelayNum, 500 in the code
    SelectMax,     \* 300 in the code
    MinOutage,     \* seconds a restart takes at least
    Backward,      \* whether the system clock may be set back
    EarlyCall,     \* whether DataCenter.call is set before the first packet
    MaxSecond,     \* bound: seconds the clock runs for
    MaxCrash,      \* bound: crashes of the process
    MaxFaults,     \* bound: database calls that fail, consumer errors, packets
                   \* that do not (de)serialise
    MaxQueue,      \* bound: packets waiting in the bus, whose queue has none
    None

ASSUME DataCenterAssumption ==
    /\ BatchSize \in Nat \ {0} /\ MaxDelay \in Nat /\ SelectMax \in Nat \ {0}
    /\ MinOutage \in Nat /\ Backward \in BOOLEAN /\ EarlyCall \in BOOLEAN
    /\ IsFiniteSet(Receivers)
    /\ MaxSecond \in Nat \ {0} /\ MaxCrash \in Nat /\ MaxFaults \in Nat
    /\ MaxQueue \in Nat \ {0}
    /\ Poison \subseteq Packets
    /\ None \notin Packets

(* String.valueOf(keymill) + queueid; a second has ten digits, so the pair   *)
(* and the string determine each other.                                      *)
Key == Nat \X Nat

(* A map from keys to packets, and what put and putAll make of one.          *)
IsMap(f) == DOMAIN f \subseteq Key /\ f \in [DOMAIN f -> Packets]
Empty == [k \in {} |-> None]
Over(f, g) == [k \in DOMAIN f \cup DOMAIN g |-> IF k \in DOMAIN f THEN f[k] ELSE g[k]]
Without(f, K) == [k \in DOMAIN f \ K |-> f[k]]
Held(f) == {f[k] : k \in DOMAIN f}

VARIABLES
    clock,      \* System.currentTimeMillis() / 1000
    fresh,      \* packets not yet received
    rec,        \* how far a transport thread is in AddData
    keymill, queueid, delayNum,
    cacheData,
    persist,    \* the DB threads' creator check: DataCenter.persist is set
    call,       \* DataCenter.call is set
    bus,        \* DataBus: whether it runs, the call it captured, its queue
    open,       \* the database: "no" until the first Save, then "yes" or "failed"
    db,         \* the committed records
    disk,       \* the records a crash leaves
    worker,     \* the DBCache thread that a transport thread started
    crashes, faults,
    stored,     \* history: packets that were on disk
    pushed,     \* history: packets that were pushed to the bus
    delivered   \* history: packets the consumer was given

stamps == << keymill, queueid >>
dbVars == << open, db, disk, stored >>
busVars == << call, bus, pushed, delivered >>
env == << clock, crashes, faults >>
vars == << clock, fresh, rec, keymill, queueid, delayNum, cacheData, persist,
           call, bus, open, db, disk, worker, crashes, faults, stored, pushed,
           delivered >>

Ready == [pc |-> "idle", packet |-> None, n |-> 0, key |-> << 0, 0 >>,
          batch |-> Empty, last |-> FALSE]
Ended == [Ready EXCEPT !.pc = "ended"]
NoWorker == [pc |-> "none", data |-> Empty, todo |-> {}, keys |-> {}]
NoBus == [state |-> "none", thecall |-> FALSE, queue |-> << >>]

Init ==
    /\ clock = 1
    /\ fresh = Packets
    /\ rec = [r \in Receivers |-> Ready]
    /\ keymill = 0 /\ queueid = 0 /\ delayNum = 0
    /\ cacheData = Empty
    /\ persist = FALSE
    /\ call \in {EarlyCall, TRUE}
    /\ bus = NoBus
    /\ open = "no"
    /\ db = Empty /\ disk = Empty
    /\ worker = [r \in Receivers |-> NoWorker]
    /\ crashes = 0 /\ faults = 0
    /\ stored = {} /\ pushed = {} /\ delivered = {}

-----------------------------------------------------------------------------
(* A transport thread in AddData and AddCahe.                               *)

At(r, pc) == rec[r].pc = pc
Goto(r, pc) == rec' = [rec EXCEPT ![r] = [@ EXCEPT !.pc = pc]]

(* The first packet creates the bus, with the call set by then. *)
BusMade ==
    IF bus.state = "none" THEN [state |-> "up", thecall |-> call, queue |-> << >>]
                          ELSE bus

(* delayNum++ begins with a read. *)
AddData(r, p) ==
    /\ At(r, "idle") /\ p \in fresh
    /\ fresh' = fresh \ {p}
    /\ bus' = BusMade
    /\ rec' = [rec EXCEPT ![r] =
          [Ready EXCEPT !.pc = "delay", !.packet = p, !.n = delayNum]]
    /\ UNCHANGED << env, stamps, delayNum, cacheData, persist, call, dbVars,
                    worker, pushed, delivered >>

(* Bytes that do not deserialise reach AddData as null: it makes the bus,   *)
(* and the NullPointerException of model.data ends the transport's thread.  *)
AddNull(r) ==
    /\ At(r, "idle")
    /\ faults < MaxFaults
    /\ faults' = faults + 1
    /\ bus' = BusMade
    /\ rec' = [rec EXCEPT ![r] = Ended]
    /\ UNCHANGED << clock, crashes, fresh, stamps, delayNum, cacheData, persist,
                    call, dbVars, worker, pushed, delivered >>

(* delayNum++ ends; AddCahe finds persist null or not. *)
CountDelay(r) ==
    /\ At(r, "delay")
    /\ delayNum' = rec[r].n + 1
    /\ Goto(r, IF persist THEN "stamp" ELSE "start")
    /\ UNCHANGED << env, fresh, stamps, cacheData, persist, busVars, dbVars,
                    worker >>

(* StartThreadDB: two threads that both found null start two workers. *)
StartThreadDB(r) ==
    /\ At(r, "start")
    /\ persist' = TRUE
    /\ worker' = [worker EXCEPT ![r] = [NoWorker EXCEPT !.pc = "select"]]
    /\ Goto(r, "stamp")
    /\ UNCHANGED << env, fresh, stamps, delayNum, cacheData, busVars, dbVars >>

(* Mutant: the counter restarts for every packet. *)
CheckSecondAlways(r) ==
    /\ At(r, "stamp")
    /\ queueid' = 0
    /\ Goto(r, IF keymill # clock THEN "second" ELSE "key")
    /\ UNCHANGED << env, fresh, keymill, delayNum, cacheData, persist, busVars,
                    dbVars, worker >>

(* A new second resets the counter, and only then changes keymill, to what  *)
(* the clock says by then.                                                  *)
CheckSecond(r) ==
    /\ At(r, "stamp")
    /\ IF keymill # clock THEN queueid' = 0 /\ Goto(r, "second")
                          ELSE UNCHANGED queueid /\ Goto(r, "key")
    /\ UNCHANGED << env, fresh, keymill, delayNum, cacheData, persist, busVars,
                    dbVars, worker >>

SetSecond(r) ==
    /\ At(r, "second")
    /\ keymill' = clock
    /\ Goto(r, "key")
    /\ UNCHANGED << env, fresh, queueid, delayNum, cacheData, persist, busVars,
                    dbVars, worker >>

(* Mutant: the key is the counter alone. *)
MakeKeyCounter(r) ==
    /\ At(r, "key")
    /\ rec' = [rec EXCEPT ![r] =
          [@ EXCEPT !.pc = "put", !.key = << 0, queueid >>]]
    /\ UNCHANGED << env, fresh, stamps, delayNum, cacheData, persist, busVars,
                    dbVars, worker >>

(* The key is read ... *)
MakeKey(r) ==
    /\ At(r, "key")
    /\ rec' = [rec EXCEPT ![r] =
          [@ EXCEPT !.pc = "put", !.key = << keymill, queueid >>]]
    /\ UNCHANGED << env, fresh, stamps, delayNum, cacheData, persist, busVars,
                    dbVars, worker >>

(* ... the counter written, and the packet put under it. *)
PutCache(r) ==
    LET k == rec[r].key IN
    /\ At(r, "put")
    /\ queueid' = k[2] + 1
    /\ cacheData' = Over([x \in {k} |-> rec[r].packet], cacheData)
    /\ Goto(r, "size")
    /\ UNCHANGED << env, fresh, keymill, delayNum, persist, busVars, dbVars,
                    worker >>

CheckSize(r) ==
    /\ At(r, "size")
    /\ Goto(r, IF Cardinality(DOMAIN cacheData) >= BatchSize THEN "copy"
                                                              ELSE "late")
    /\ UNCHANGED << env, fresh, stamps, delayNum, cacheData, persist, busVars,
                    dbVars, worker >>

CopyCache(r) ==
    /\ At(r, "copy")
    /\ rec' = [rec EXCEPT ![r] = [@ EXCEPT !.pc = "clear", !.batch = cacheData]]
    /\ UNCHANGED << env, fresh, stamps, delayNum, cacheData, persist, busVars,
                    dbVars, worker >>

(* Mutant: the counter of delayed packets goes back by the maximum. *)
ClearCacheLess(r) ==
    /\ At(r, "clear")
    /\ cacheData' = Empty
    /\ delayNum' = delayNum - MaxDelay
    /\ Goto(r, "save")
    /\ UNCHANGED << env, fresh, stamps, persist, busVars, dbVars, worker >>

ClearCache(r) ==
    /\ At(r, "clear")
    /\ cacheData' = Empty
    /\ delayNum' = 0
    /\ Goto(r, "save")
    /\ UNCHANGED << env, fresh, stamps, persist, busVars, dbVars, worker >>

(* Where AddCahe returns to: the check of delayNum, or AddData's end.       *)
Leave(r) ==
    rec' = [rec EXCEPT ![r] =
        IF rec[r].last THEN Ready
                       ELSE [@ EXCEPT !.pc = "late", !.batch = Empty]]

(* PersistentStorage.Save opens the database the first time ... *)
Opened == IF open = "no" THEN "yes" ELSE open

(* ... and writes the batch in one transaction, overwriting records of the  *)
(* same keys.                                                               *)
Save(r) ==
    /\ At(r, "save")
    /\ open # "failed"
    /\ open' = Opened
    /\ db' = Over(rec[r].batch, db)
    /\ Leave(r)
    /\ UNCHANGED << env, fresh, stamps, delayNum, cacheData, persist, busVars,
                    disk, stored, worker >>

(* writeToDBMap aborted: it returns false, and Save does not look.          *)
SaveFails(r) ==
    /\ At(r, "save")
    /\ open # "failed"
    /\ faults < MaxFaults
    /\ faults' = faults + 1
    /\ open' = Opened
    /\ Leave(r)
    /\ UNCHANGED << clock, crashes, fresh, stamps, delayNum, cacheData, persist,
                    busVars, db, disk, stored, worker >>

(* openDatabase swallows its DatabaseException, Is_Open is set all the same,*)
(* and nothing opens the database again ...                                 *)
OpenFails(r) ==
    /\ At(r, "save")
    /\ open = "no"
    /\ faults < MaxFaults
    /\ faults' = faults + 1
    /\ open' = "failed"
    /\ Leave(r)
    /\ UNCHANGED << clock, crashes, fresh, stamps, delayNum, cacheData, persist,
                    busVars, db, disk, stored, worker >>

(* ... so that writeToDBMap returns false for every later batch.            *)
SaveUnopened(r) ==
    /\ At(r, "save")
    /\ open = "failed"
    /\ Leave(r)
    /\ UNCHANGED << env, fresh, stamps, delayNum, cacheData, persist, busVars,
                    dbVars, worker >>

(* A packet that does not serialise makes Save throw, as it passes no error  *)
(* to write to: the batch is gone, and the exception ends its thread.        *)
SaveThrows(r) ==
    /\ At(r, "save")
    /\ faults < MaxFaults
    /\ faults' = faults + 1
    /\ open' = Opened
    /\ rec' = [rec EXCEPT ![r] = Ended]
    /\ UNCHANGED << clock, crashes, fresh, stamps, delayNum, cacheData, persist,
                    busVars, db, disk, stored, worker >>

(* AddCahe(null): whatever the cache holds is flushed as well. *)
CheckDelay(r) ==
    /\ At(r, "late")
    /\ rec' = [rec EXCEPT ![r] =
          IF delayNum > MaxDelay /\ DOMAIN cacheData # {}
            THEN [@ EXCEPT !.pc = "copy", !.last = TRUE]
            ELSE Ready]
    /\ UNCHANGED << env, fresh, stamps, delayNum, cacheData, persist, busVars,
                    dbVars, worker >>

-----------------------------------------------------------------------------
(* The worker thread.                                                       *)

(* getItem(num) stops at num records, but never before the second; keys sort *)
(* by their second.                                                          *)
Oldest(f) ==
    LET most == IF SelectMax < 2 THEN 2 ELSE SelectMax IN
    {K \in SUBSET DOMAIN f :
        /\ Cardinality(K) <= most
        /\ K # DOMAIN f => Cardinality(K) = most
        /\ \A k \in K, l \in DOMAIN f \ K : k[1] <= l[1]}

(* Mutant: the worker waits for as many records as it may select. *)
SelectListFull(w) ==
    /\ worker[w].pc = "select"
    /\ open = "yes" /\ Cardinality(DOMAIN db) >= SelectMax
    /\ \E K \in Oldest(db) :
         worker' = [worker EXCEPT ![w] =
             [pc |-> "push", data |-> [k \in K |-> db[k]], todo |-> K, keys |-> {}]]
    /\ UNCHANGED << env, fresh, rec, stamps, delayNum, cacheData, persist,
                    busVars, dbVars >>

(* While the database is not open, getItem throws and the worker sleeps.     *)
SelectList(w) ==
    /\ worker[w].pc = "select"
    /\ open = "yes"
    /\ \E K \in Oldest(db) :
         worker' = [worker EXCEPT ![w] =
             [pc |-> "push", data |-> [k \in K |-> db[k]], todo |-> K, keys |-> {}]]
    /\ UNCHANGED << env, fresh, rec, stamps, delayNum, cacheData, persist,
                    busVars, dbVars >>

(* Mutant: a pushed record is not noted for deletion. *)
PushRecordForgets(w) ==
    /\ worker[w].pc = "push"
    /\ Len(bus.queue) < MaxQueue
    /\ \E k \in worker[w].todo :
         LET p == worker[w].data[k] IN
         /\ p \notin Poison
         /\ bus' = [bus EXCEPT !.queue = Append(@, p)]
         /\ pushed' = pushed \cup {p}
         /\ worker' = [worker EXCEPT ![w] =
               [pc |-> "push", data |-> @.data, todo |-> @.todo \ {k}, keys |-> @.keys]]
    /\ UNCHANGED << env, fresh, rec, stamps, delayNum, cacheData, persist, call,
                    dbVars, delivered >>

(* Records come out of a HashMap of byte arrays: in any order. *)
PushRecord(w) ==
    /\ worker[w].pc = "push"
    /\ Len(bus.queue) < MaxQueue
    /\ \E k \in worker[w].todo :
         LET p == worker[w].data[k] IN
         /\ p \notin Poison
         /\ bus' = [bus EXCEPT !.queue = Append(@, p)]
         /\ pushed' = pushed \cup {p}
         /\ worker' = [worker EXCEPT ![w] =
               [pc |-> "push", data |-> @.data, todo |-> @.todo \ {k},
                keys |-> @.keys \cup {k}]]
    /\ UNCHANGED << env, fresh, rec, stamps, delayNum, cacheData, persist, call,
                    dbVars, delivered >>

(* Mutant: a record that does not deserialise is passed over. *)
PushNullSkips(w) ==
    /\ worker[w].pc = "push"
    /\ \E k \in worker[w].todo :
         /\ worker[w].data[k] \in Poison
         /\ worker' = [worker EXCEPT ![w] =
               [@ EXCEPT !.todo = @ \ {k}, !.keys = @ \cup {k}]]
    /\ UNCHANGED << env, fresh, rec, stamps, delayNum, cacheData, persist,
                    busVars, dbVars >>

(* put(null) throws: nothing is deleted, and after a sleep the worker        *)
(* selects again.                                                            *)
PushNull(w) ==
    /\ worker[w].pc = "push"
    /\ \E k \in worker[w].todo : worker[w].data[k] \in Poison
    /\ worker' = [worker EXCEPT ![w] = [NoWorker EXCEPT !.pc = "select"]]
    /\ UNCHANGED << env, fresh, rec, stamps, delayNum, cacheData, persist,
                    busVars, dbVars >>

(* Mutant: the database is emptied instead. *)
DeleteListAll(w) ==
    /\ worker[w].pc = "push" /\ worker[w].todo = {}
    /\ db' = Empty
    /\ worker' = [worker EXCEPT ![w] = [NoWorker EXCEPT !.pc = "select"]]
    /\ UNCHANGED << env, fresh, rec, stamps, delayNum, cacheData, persist,
                    busVars, open, disk, stored >>

DeleteList(w) ==
    /\ worker[w].pc = "push" /\ worker[w].todo = {}
    /\ db' = Without(db, worker[w].keys)
    /\ worker' = [worker EXCEPT ![w] = [NoWorker EXCEPT !.pc = "select"]]
    /\ UNCHANGED << env, fresh, rec, stamps, delayNum, cacheData, persist,
                    busVars, open, disk, stored >>

(* deleteFromDatabase aborted: the records stay and are pushed again. *)
DeleteFails(w) ==
    /\ worker[w].pc = "push" /\ worker[w].todo = {}
    /\ faults < MaxFaults
    /\ faults' = faults + 1
    /\ worker' = [worker EXCEPT ![w] = [NoWorker EXCEPT !.pc = "select"]]
    /\ UNCHANGED << clock, crashes, fresh, rec, stamps, delayNum, cacheData,
                    persist, busVars, dbVars >>

-----------------------------------------------------------------------------
(* The bus thread, the application, the machine.                            *)

(* A bus made before the application set DataCenter.call drops packets. *)
OutData ==
    /\ bus.state = "up" /\ bus.queue # << >>
    /\ bus' = [bus EXCEPT !.queue = Tail(@)]
    /\ delivered' = IF bus.thecall THEN delivered \cup {Head(bus.queue)}
                                   ELSE delivered
    /\ UNCHANGED << env, fresh, rec, stamps, delayNum, cacheData, persist, call,
                    dbVars, worker, pushed >>

(* An exception of the consumer ends the bus thread; nothing restarts it. *)
ConsumerThrows ==
    /\ bus.state = "up" /\ bus.queue # << >> /\ bus.thecall
    /\ faults < MaxFaults
    /\ faults' = faults + 1
    /\ delivered' = delivered \cup {Head(bus.queue)}
    /\ bus' = [bus EXCEPT !.state = "dead", !.queue = Tail(@)]
    /\ UNCHANGED << clock, crashes, fresh, rec, stamps, delayNum, cacheData,
                    persist, call, dbVars, worker, pushed >>

SetCall ==
    /\ ~call /\ call' = TRUE
    /\ UNCHANGED << env, fresh, rec, stamps, delayNum, cacheData, persist, bus,
                    dbVars, worker, pushed, delivered >>

Tick ==
    /\ clock' \in {t \in 1 .. MaxSecond :
                      t = clock + 1 \/ (Backward /\ t + 1 = clock)}
    /\ UNCHANGED << crashes, faults, fresh, rec, stamps, delayNum, cacheData,
                    persist, busVars, dbVars, worker >>

(* The database writes its log.  Only a crash shows it: an instance without  *)
(* crashes leaves it out.                                                    *)
WriteLog ==
    /\ MaxCrash > 0
    /\ disk # db
    /\ disk' = db
    /\ stored' = stored \cup Held(db)
    /\ UNCHANGED << env, fresh, rec, stamps, delayNum, cacheData, persist,
                    busVars, open, db, worker >>

(* The process ends and runs again; what it held in memory is gone.          *)
Crash ==
    /\ crashes < MaxCrash
    /\ crashes' = crashes + 1
    /\ \E t \in (clock + MinOutage) .. MaxSecond : clock' = t
    /\ rec' = [r \in Receivers |-> Ready]
    /\ worker' = [r \in Receivers |-> NoWorker]
    /\ keymill' = 0 /\ queueid' = 0 /\ delayNum' = 0
    /\ cacheData' = Empty
    /\ persist' = FALSE /\ open' = "no"
    /\ call' \in {EarlyCall, TRUE}
    /\ bus' = NoBus
    /\ db' = disk
    /\ UNCHANGED << faults, fresh, disk, stored, pushed, delivered >>

-----------------------------------------------------------------------------
Advance(r) ==
    \/ CountDelay(r) \/ StartThreadDB(r) \/ CheckSecond(r) \/ SetSecond(r)
    \/ MakeKey(r) \/ PutCache(r) \/ CheckSize(r) \/ CopyCache(r)
    \/ ClearCache(r) \/ Save(r) \/ SaveFails(r) \/ OpenFails(r)
    \/ SaveUnopened(r) \/ SaveThrows(r) \/ CheckDelay(r)

Work(w) ==
    \/ SelectList(w) \/ PushRecord(w) \/ PushNull(w) \/ DeleteList(w)
    \/ DeleteFails(w)

Next ==
    \/ \E r \in Receivers : \/ \E p \in Packets : AddData(r, p)
                            \/ AddNull(r)
                            \/ Advance(r)
                            \/ Work(r)
    \/ OutData \/ ConsumerThrows \/ SetCall \/ Tick \/ WriteLog \/ Crash

Spec == Init /\ [][Next]_vars

(* The threads are scheduled; packets, the clock, log writes and failures    *)
(* come when they come.                                                      *)
FairSpec ==
    /\ Spec
    /\ \A r \in Receivers : WF_vars(Advance(r)) /\ WF_vars(Work(r))
    /\ WF_vars(OutData)
-----------------------------------------------------------------------------
Receiving == {"delay", "start", "stamp", "second", "key", "put"}
Saving == {"clear", "save"}

TypeOK ==
    /\ clock \in 1 .. MaxSecond
    /\ fresh \in SUBSET Packets
    /\ \A r \in Receivers :
          /\ rec[r].pc \in {"idle", "size", "copy", "late", "ended"} \cup Receiving \cup Saving
          /\ rec[r].pc \in Receiving => rec[r].packet \in Packets
          /\ rec[r].n \in Nat /\ rec[r].key \in Key /\ IsMap(rec[r].batch)
          /\ rec[r].last \in BOOLEAN
    /\ keymill \in Nat /\ queueid \in Nat /\ delayNum \in Nat
    /\ IsMap(cacheData)
    /\ persist \in BOOLEAN /\ call \in BOOLEAN /\ open \in {"no", "yes", "failed"}
    /\ bus.state \in {"none", "up", "dead"} /\ bus.thecall \in BOOLEAN
    /\ bus.queue \in Seq(Packets)
    /\ IsMap(db) /\ IsMap(disk)
    /\ \A w \in Receivers :
          /\ worker[w].pc \in {"none", "select", "push"}
          /\ IsMap(worker[w].data)
          /\ worker[w].todo \cup worker[w].keys \subseteq DOMAIN worker[w].data
    /\ crashes \in 0 .. MaxCrash /\ faults \in 0 .. MaxFaults
    /\ stored \in SUBSET Packets /\ pushed \in SUBSET Packets
    /\ delivered \in SUBSET Packets

(* Where a packet can be between AddData and the bus.                       *)
InHand(r) == IF rec[r].pc \in Receiving THEN {rec[r].packet} ELSE {}
InBatch(r) == IF rec[r].pc \in Saving THEN Held(rec[r].batch) ELSE {}

InThreads == UNION {InHand(r) \cup InBatch(r) : r \in Receivers}

Kept == InThreads \cup Held(cacheData) \cup Held(db)

(* With one transport thread, a clock that is not set back, no crash and no *)
(* failing transaction, every packet is where the pipeline can still push   *)
(* it, or has been pushed: the keys made of the second and a counter that   *)
(* restarts with it never meet, in the cache or in the database             *)
(* (DataCenter.java:81-95, BerkeleyDB.java:224-230 overwrites).             *)
NoPacketLost == Packets \ fresh \subseteq Kept \cup pushed

(* Whatever fails or crashes, a packet that was on the disk stays in the    *)
(* database and on the disk until it has been pushed to the bus, so long as *)
(* a restart takes a second: AddCahe after it makes keys no record has.     *)
PersistedIsKept ==
    stored \subseteq (Held(db) \cap Held(disk)) \cup pushed

(* However many transport threads put into it, and whatever crashes or       *)
(* fails, the cache outgrows a batch by no more than the threads between     *)
(* their put and their clear (DataCenter.java:88-93).  It is proved, not     *)
(* checked: one thread alone cannot come near it.                            *)
CacheBounded ==
    Cardinality(DOMAIN cacheData) < BatchSize + Cardinality(Receivers)

(* Nothing leaves the database but what was pushed, or what a crash had not *)
(* yet written.  With one transport thread no record is saved under a key   *)
(* between its selection and its deletion; with two one may be.             *)
OnlyPushedIsDeleted ==
    [][crashes' = crashes =>
        \A k \in DOMAIN db \ DOMAIN db' : db[k] \in pushed]_vars

(* Where nothing fails no packet goes to the bus twice, though a record is   *)
(* pushed before it is deleted, and a batch may be saved in between: the     *)
(* next selection finds no record of the last one (DataCenter.java:126-139). *)
PushedOnce ==
    [][Len(bus'.queue) > Len(bus.queue) =>
        bus'.queue[Len(bus'.queue)] \notin pushed]_vars

(* Where nothing crashes or fails, a packet that was stored is eventually    *)
(* handed to the consumer, however many were stored before and after it: the *)
(* worker goes on selecting the oldest (DataCenter.java:121-170).            *)
StoredIsDelivered ==
    \A p \in Packets : (p \in Held(db)) ~> (p \in delivered)

(* The pipeline relays every packet it accepts at least once, when the      *)
(* application has set its call in time and nothing fails.                  *)
QueueSet == {bus.queue[i] : i \in DOMAIN bus.queue}
AbstractRelay == INSTANCE Relay WITH held <- Kept \cup QueueSet
ImplementsRelay == AbstractRelay!Spec
=============================================================================
