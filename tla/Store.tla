------------------------------- MODULE Store -------------------------------
(***************************************************************************)
(* BerkeleyDB, the wrapper of the embedded store, and PersistentStorage,   *)
(* which opens it.  Each operation is one transaction of the calling       *)
(* thread.  It locks the records it writes until it ends; a cursor has a   *)
(* read lock on the record it stands on, until it moves or is closed.      *)
(* Whoever waits longer than a second gets a LockConflictException.  The   *)
(* library is what the code uses of it: locks by record, rollback, keys in *)
(* order, and an abort that throws while a cursor is open.                 *)
(***************************************************************************)
EXTENDS Integers, FiniteSets, FiniteSetsExt

CONSTANTS
    Threads,
    Keys,           \* numbers, in the order of the keys
    Values,
    Operations,     \* records: kind, map, overwrite, num
    Contents,       \* what an earlier program left in the database
    MaxOps,         \* bound: operations of a thread
    NoData,         \* a value that is null
    Lost,           \* the owner of a lock whose transaction nobody will end
    Exception, None

Kinds == {"put", "delete", "remove", "select", "read"}

ASSUME StoreAssumption ==
    /\ Keys \subseteq Nat \ {0} /\ IsFiniteSet(Keys)
    /\ \A o \in Operations :
          /\ o.kind \in Kinds /\ DOMAIN o.map \subseteq Keys /\ o.num \in Nat
          /\ o.kind = "put" => \A k \in DOMAIN o.map : o.map[k] \in Values \cup {NoData}
    /\ \A f \in Contents : f \in [DOMAIN f -> Values] /\ DOMAIN f \subseteq Keys
    /\ MaxOps \in Nat
    /\ {None, Lost} \cap Threads = {} /\ None # Lost
    /\ {NoData, None, Exception} \cap Values = {}

VARIABLES
    Is_Open,    \* of the PersistentStorage
    opened,     \* there is an environment and a database
    db,         \* every record, committed or not
    lock,       \* lock[k]: whose transaction holds record k, or its place
    undo,       \* what was at a key before an unfinished transaction wrote it
    left,       \* records on which a cursor stands that nobody will close
    txn,        \* what a thread is doing
    ops,        \* operations a thread has begun
    steady,     \* history: committed at each moment of a running select
    ever        \* history: committed at some moment of it

data == << db, lock, undo, left >>
history == << steady, ever >>
vars == << Is_Open, opened, data, txn, ops, history >>

Nobody == [k \in {} |-> None]
NoOp == [kind |-> "select", map |-> Nobody, overwrite |-> FALSE, num |-> 0]
Idle == [pc |-> "idle", op |-> NoOp, todo |-> {}, got |-> {}, pos |-> 0,
         last |-> FALSE, sum |-> 0, result |-> None]

Init ==
    /\ Is_Open = FALSE /\ opened = FALSE
    /\ db \in Contents
    /\ lock = [k \in Keys |-> None]
    /\ undo = Nobody /\ left = {}
    /\ txn = [t \in Threads |-> Idle]
    /\ ops = [t \in Threads |-> 0]
    /\ steady = [t \in Threads |-> {}] /\ ever = [t \in Threads |-> {}]

Running(t, kind) == txn[t].pc = "run" /\ txn[t].op.kind = kind
Mine(t) == {k \in Keys : lock[k] = t}

(* The records of ended transactions: what a new transaction may see.       *)
committed ==
    [k \in {l \in Keys : IF l \in DOMAIN undo THEN undo[l] # None ELSE l \in DOMAIN db} |->
        IF k \in DOMAIN undo THEN undo[k] ELSE db[k]]

(* The histories follow what is committed while a select runs.              *)
Watch ==
    /\ steady' = [t \in Threads |->
          IF ~(txn'[t].pc = "run" /\ txn'[t].op.kind = "select") THEN {}
          ELSE IF txn[t].pc # "run" THEN DOMAIN committed'
          ELSE steady[t] \cap DOMAIN committed']
    /\ ever' = [t \in Threads |->
          IF ~(txn'[t].pc = "run" /\ txn'[t].op.kind = "select") THEN {}
          ELSE IF txn[t].pc # "run" THEN DOMAIN committed'
          ELSE ever[t] \cup DOMAIN committed']

Update(t, r) == txn' = [txn EXCEPT ![t] = r]
End(t, result) == Update(t, [txn[t] EXCEPT !.pc = "done", !.todo = {}, !.pos = 0, !.result = result])

-----------------------------------------------------------------------------
(* PersistentStorage.                                                       *)

(* What an operation answers without an environment or a database: a write *)
(* catches the NullPointerException, the others let some of it out.         *)
Missing(o) ==
    CASE o.kind \in {"put", "remove"} -> {FALSE}
      [] o.kind = "delete" -> {0}
      [] o.kind = "read" -> {Exception}
      [] o.kind = "select" -> {Exception, None}

(* The transaction begins, if there is a database.                          *)
Enter(t, o) ==
    \E r \in IF opened THEN {None} ELSE Missing(o) :
        Update(t, [Idle EXCEPT !.op = o, !.todo = DOMAIN o.map, !.result = r,
                               !.pc = IF opened THEN "run" ELSE "done"])

(* Save(Map), SelectList, DeleteList and the rest; only Save looks at the   *)
(* flag.                                                                    *)
Begin(t, o) ==
    /\ txn[t].pc \in {"idle", "done"} /\ ops[t] < MaxOps
    /\ ops' = [ops EXCEPT ![t] = @ + 1]
    /\ IF o.kind = "put" /\ ~Is_Open
       THEN Update(t, [Idle EXCEPT !.pc = "open", !.op = o])
       ELSE Enter(t, o)
    /\ UNCHANGED << Is_Open, opened, data >>
    /\ Watch

(* Two threads that found the flag down both open.  openDatabase swallows   *)
(* its failure, and the flag goes up all the same.                          *)
OpenDatabase(t) ==
    /\ txn[t].pc = "open"
    /\ opened' \in {opened, TRUE}
    /\ Update(t, [txn[t] EXCEPT !.pc = "set"])
    /\ UNCHANGED << Is_Open, data, ops >>
    /\ Watch

SetOpen(t) ==
    /\ txn[t].pc = "set"
    /\ Is_Open' = TRUE
    /\ Enter(t, txn[t].op)
    /\ UNCHANGED << opened, data, ops >>
    /\ Watch

(* Save(sql) shares the flag, and opens another database.                   *)
SaveSql ==
    /\ ~Is_Open /\ Is_Open' = TRUE
    /\ UNCHANGED << opened, data, txn, ops, history >>

-----------------------------------------------------------------------------
(* Locks, and the two ends of a transaction.                                *)

(* A record is free for a transaction when no other one holds it and, if it *)
(* is to be written, no other cursor stands on it.                          *)
Free(t, k) ==
    /\ lock[k] \in {t, None}
    /\ \/ Running(t, "read")
       \/ k \notin left /\ \A u \in Threads \ {t} : ~(Running(u, "select") /\ txn[u].pos = k)

Unlock(t) ==
    /\ lock' = [k \in Keys |-> IF lock[k] = t THEN None ELSE lock[k]]
    /\ undo' = [k \in DOMAIN undo \ Mine(t) |-> undo[k]]

RollBack(t) ==
    LET mine == Mine(t) \cap DOMAIN undo
        old == {k \in mine : undo[k] # None}
    IN  db' = [k \in (DOMAIN db \ mine) \cup old |-> IF k \in old THEN undo[k] ELSE db[k]]

Image(k) == IF k \in DOMAIN db THEN db[k] ELSE None

(* Record k is locked and holds v from now on, or nothing.                  *)
Change(t, k, v) ==
    /\ lock' = [lock EXCEPT ![k] = t]
    /\ undo' = [l \in DOMAIN undo \cup {k} |-> IF l \in DOMAIN undo THEN undo[l] ELSE Image(k)]
    /\ db' = [l \in IF v = None THEN DOMAIN db \ {k} ELSE DOMAIN db \cup {k} |->
                  IF l = k THEN v ELSE db[l]]

(* The next record of a cursor, one that is locked included; none is 0.     *)
NextKey(t) ==
    LET after == {k \in DOMAIN db \cup DOMAIN committed : k > txn[t].pos}
    IN  IF after = {} THEN 0 ELSE Min(after)

Blocked(t) ==
    \/ \E k \in txn[t].todo : ~Free(t, k) /\ txn[t].op.map[k] # NoData
    \/ Running(t, "select") /\ NextKey(t) # 0 /\ lock[NextKey(t)] \notin {None, t}

(* What a LockConflictException makes an operation return: the deletion its *)
(* count so far.                                                            *)
Refused(t) ==
    CASE txn[t].op.kind \in {"put", "remove"} -> FALSE
      [] txn[t].op.kind = "delete" -> txn[t].sum
      [] txn[t].op.kind = "read" -> None
      [] txn[t].op.kind = "select" -> Exception

Waits(t, result) ==
    /\ txn[t].pc = "run" /\ Blocked(t)
    /\ End(t, result)
    /\ UNCHANGED << Is_Open, opened, ops >>

(* A select aborts before it closes its cursor; the abort throws because of *)
(* the cursor, which stays where it stands.                                 *)
LeaveCursor(t) == left' = left \cup {k \in Keys : Running(t, "select") /\ txn[t].pos = k}

(* Mutant of TimeOut: the catch block does not abort.                       *)
TimeOutKeeps(t) == Waits(t, Refused(t)) /\ UNCHANGED data /\ Watch

(* Mutant of TimeOut: a batch that was rolled back is reported as written.  *)
TimeOutTrue(t) ==
    /\ Waits(t, IF Running(t, "put") THEN TRUE ELSE Refused(t))
    /\ RollBack(t) /\ Unlock(t) /\ LeaveCursor(t) /\ Watch

(* Mutant of TimeOut: setLockTimeout is missing.                            *)
TimeOutNever(t) == FALSE /\ UNCHANGED vars

TimeOut(t) == Waits(t, Refused(t)) /\ RollBack(t) /\ Unlock(t) /\ LeaveCursor(t) /\ Watch

-----------------------------------------------------------------------------
(* writeToDBMap, and writeToDatabase with a map of one.                     *)

Putting(t, k) ==
    /\ Running(t, "put") /\ k \in txn[t].todo
    /\ UNCHANGED << Is_Open, opened, ops, left >>

(* Mutant of PutRecord: the put has no transaction.                         *)
PutRecordAuto(t, k) ==
    /\ Putting(t, k) /\ txn[t].op.map[k] # NoData /\ Free(t, k)
    /\ db' = [l \in DOMAIN db \cup {k} |-> IF l = k THEN txn[t].op.map[k] ELSE db[l]]
    /\ Update(t, [txn[t] EXCEPT !.todo = @ \ {k}, !.last = TRUE])
    /\ UNCHANGED << lock, undo >>
    /\ Watch

(* put, or putNoOverwrite, which leaves an existing record.                 *)
PutRecord(t, k) ==
    LET writes == txn[t].op.overwrite \/ k \notin DOMAIN db
    IN  /\ Putting(t, k) /\ txn[t].op.map[k] # NoData /\ Free(t, k)
        /\ IF writes THEN Change(t, k, txn[t].op.map[k])
           ELSE lock' = [lock EXCEPT ![k] = t] /\ UNCHANGED << db, undo >>
        /\ Update(t, [txn[t] EXCEPT !.todo = @ \ {k}, !.last = writes])
        /\ Watch

(* A value that is null makes put throw before it locks.  The outer catch   *)
(* returns false, and the transaction stays as it is.                       *)
PutNothing(t, k) ==
    /\ Putting(t, k) /\ txn[t].op.map[k] = NoData
    /\ lock' = [l \in Keys |-> IF lock[l] = t THEN Lost ELSE lock[l]]
    /\ End(t, FALSE)
    /\ UNCHANGED << db, undo >>
    /\ Watch

(* The status of the last put is the answer for all.                        *)
CommitPut(t) ==
    /\ Running(t, "put") /\ txn[t].todo = {}
    /\ Unlock(t)
    /\ End(t, txn[t].last)
    /\ UNCHANGED << Is_Open, opened, ops, db, left >>
    /\ Watch

-----------------------------------------------------------------------------
(* deleteFromDatabase, of a list and of a key.                              *)

Deleting(t, k) ==
    /\ txn[t].op.kind \in {"delete", "remove"} /\ txn[t].pc = "run"
    /\ k \in txn[t].todo /\ Free(t, k)
    /\ UNCHANGED << Is_Open, opened, ops, left >>

(* Mutant of DeleteRecord: a key that is not there counts.                  *)
DeleteRecordCounts(t, k) ==
    /\ Deleting(t, k)
    /\ Change(t, k, None)
    /\ Update(t, [txn[t] EXCEPT !.todo = @ \ {k}, !.sum = @ + 1])
    /\ Watch

DeleteRecord(t, k) ==
    /\ Deleting(t, k)
    /\ Change(t, k, None)
    /\ Update(t, [txn[t] EXCEPT !.todo = @ \ {k}, !.sum = IF k \in DOMAIN db THEN @ + 1 ELSE @])
    /\ Watch

(* Of one key that was not there the answer is true, but the finally block  *)
(* aborts the committed transaction, which may throw.                       *)
CommitDelete(t) ==
    /\ txn[t].op.kind \in {"delete", "remove"} /\ txn[t].pc = "run"
    /\ txn[t].todo = {}
    /\ Unlock(t)
    /\ \E r \in IF txn[t].op.kind = "delete" THEN {txn[t].sum}
                ELSE IF txn[t].sum = 1 THEN {TRUE} ELSE {TRUE, Exception} : End(t, r)
    /\ UNCHANGED << Is_Open, opened, ops, db, left >>
    /\ Watch

-----------------------------------------------------------------------------
(* getItem, getKeyItem and getEveryKeyItem, whose num is 0; readFromDatabase. *)

Moves(t, k) ==
    /\ Running(t, "select")
    /\ k = NextKey(t) /\ k # 0 /\ lock[k] \in {None, t}
    /\ UNCHANGED << Is_Open, opened, ops, data >>

(* The count is compared only after getNext.                                *)
Enough(t, n) == txn[t].pos # 0 /\ n >= txn[t].op.num /\ txn[t].op.num # 0

(* Mutant of MoveNext: one more.                                            *)
MoveNextMore(t) ==
    \E k \in Keys :
        LET got == txn[t].got \cup {k} IN
        /\ Moves(t, k)
        /\ IF Enough(t, Cardinality(got) - 1)
           THEN Update(t, [txn[t] EXCEPT !.pc = "done", !.got = got, !.pos = 0, !.result = got])
           ELSE Update(t, [txn[t] EXCEPT !.got = got, !.pos = k])
        /\ Watch

MoveNext(t) ==
    \E k \in Keys :
        LET got == txn[t].got \cup {k} IN
        /\ Moves(t, k)
        /\ IF Enough(t, Cardinality(got))
           THEN Update(t, [txn[t] EXCEPT !.pc = "done", !.got = got, !.pos = 0, !.result = got])
           ELSE Update(t, [txn[t] EXCEPT !.got = got, !.pos = k])
        /\ Watch

EndOfData(t) ==
    /\ Running(t, "select") /\ NextKey(t) = 0
    /\ End(t, txn[t].got)
    /\ UNCHANGED << Is_Open, opened, ops, data >>
    /\ Watch

Read(t) ==
    /\ Running(t, "read")
    /\ \E k \in txn[t].todo : Free(t, k) /\ End(t, Image(k))
    /\ UNCHANGED << Is_Open, opened, ops, data >>
    /\ Watch

-----------------------------------------------------------------------------
Step(t) ==
    \/ OpenDatabase(t) \/ SetOpen(t)
    \/ \E k \in Keys : PutRecord(t, k) \/ PutNothing(t, k) \/ DeleteRecord(t, k)
    \/ CommitPut(t) \/ CommitDelete(t)
    \/ MoveNext(t) \/ EndOfData(t) \/ Read(t)
    \/ TimeOut(t)

Next ==
    \/ \E t \in Threads : Step(t) \/ \E o \in Operations : Begin(t, o)
    \/ SaveSql

Spec == Init /\ [][Next]_vars

(* A thread in an operation runs on, and no wait lasts longer than its time. *)
FairSpec == Spec /\ \A t \in Threads : WF_vars(Step(t))

-----------------------------------------------------------------------------
(* Types; what is unfinished is locked, and a deletion counts what it has   *)
(* removed.                                                                 *)
TypeOK ==
    /\ Is_Open \in BOOLEAN /\ opened \in BOOLEAN /\ left \subseteq Keys
    /\ DOMAIN db \subseteq Keys /\ \A k \in DOMAIN db : db[k] \in Values
    /\ lock \in [Keys -> Threads \cup {None, Lost}]
    /\ DOMAIN undo \subseteq {k \in Keys : lock[k] # None}
    /\ \A t \in Threads :
          /\ txn[t].pc \in {"idle", "open", "set", "run", "done"}
          /\ txn[t].todo \subseteq Keys /\ txn[t].got \subseteq Keys
          /\ Running(t, "delete") => txn[t].sum = Cardinality({k \in Mine(t) : undo[k] # None})
    /\ ops \in [Threads -> 0 .. MaxOps]

(* A write that returns true has written its whole map, and one that        *)
(* returns false nothing - when it may overwrite; else the answer is only   *)
(* the last record's (BerkeleyDB.java:223-257, whose answer                 *)
(* PersistentStorage.java:89 does not look at).                             *)
AnswerIsTrue ==
    [][\A t \in Threads :
          Running(t, "put") /\ txn'[t].pc = "done" /\ txn[t].op.overwrite =>
              IF txn'[t].result /\ DOMAIN txn[t].op.map # {}
              THEN \A k \in DOMAIN txn[t].op.map :
                      k \in DOMAIN committed' /\ committed'[k] = txn[t].op.map[k]
              ELSE committed' = committed]_vars

(* No lock outlives its operation but in two cases: the records of a batch  *)
(* with a null value, which returns false (BerkeleyDB.java:253-265), and    *)
(* the one record on which a select stood that waited too long for the      *)
(* next and throws (BerkeleyDB.java:612-621).                               *)
LocksLeft ==
    [][/\ \A k \in Keys :
             /\ lock'[k] \notin {None, Lost} => txn'[lock'[k]].pc = "run"
             /\ lock'[k] = Lost /\ lock[k] # Lost =>
                   \E t \in Threads :
                      /\ Running(t, "put") /\ txn'[t].pc = "done" /\ txn'[t].result = FALSE
                      /\ \E l \in DOMAIN txn[t].op.map : txn[t].op.map[l] = NoData
       /\ \A k \in left' \ left :
             \E t \in Threads :
                /\ Running(t, "select") /\ txn[t].pos = k
                /\ txn'[t].pc = "done" /\ txn'[t].result = Exception]_vars

(* A select returns records that were committed while it ran, and of those  *)
(* committed all the while none older than one it returns is missing; it    *)
(* stops at num, but never before the second (BerkeleyDB.java:584-602).     *)
SelectIsOldest ==
    [][\A t \in Threads :
          Running(t, "select") /\ txn'[t].pc = "done" /\ txn'[t].result # Exception =>
              LET got == txn'[t].result
                  num == txn[t].op.num
              IN  /\ got \subseteq ever[t]
                  /\ num # 0 => Cardinality(got) <= Max({num, 2})
                  /\ \A k \in steady[t] \ got :
                        /\ num # 0 /\ Cardinality(got) >= num
                        /\ \A l \in got : l < k]_vars

(* Every operation ends, though two may wait for one another, and a lock    *)
(* may stay for ever (BerkeleyDB.java:60-61).                               *)
OperationEnds == \A t \in Threads : txn[t].pc \in {"open", "set", "run"} ~> txn[t].pc = "done"

(* The committed records change by whole operations.                        *)
AbstractRecords == INSTANCE Records WITH
    recs <- committed,
    Puts <- {o.map : o \in {p \in Operations : p.kind = "put"}},
    Removals <- {DOMAIN o.map : o \in {p \in Operations : p.kind \in {"delete", "remove"}}}
ImplementsRecords == AbstractRecords!Spec
=============================================================================
