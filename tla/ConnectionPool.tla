---------------------------- MODULE ConnectionPool ----------------------------
(***************************************************************************)
(* The JDBC connection pool of DataStore as DBHelper uses it.  A thread    *)
(* that asks for a connection gets the one it is bound to, else the first  *)
(* free one, else a new one while contActive is below the limit; otherwise *)
(* it waits on lock_Obj for a second and asks again, holding the lock.     *)
(* Releasing makes a connection free and leaves the thread bound to it.    *)
(* A timer unbinds the threads that have ended.                            *)
(*                                                                         *)
(* The lists and maps are safe for concurrent use, their combinations are  *)
(* not, and contActive++ is a read and a write.  activeConnection is left  *)
(* out: only destroy, which nothing calls, and the log read it.            *)
(***************************************************************************)
EXTENDS Integers, Sequences, Functions, FiniteSets

CONSTANTS
    Threads,          \* threads that use DBHelper
    InitConnections,
    MaxActive,        \* maxActiveConnections
    MaxOps,           \* bound: operations begun, by any thread
    MaxDepth,         \* bound: nested retries that are counted
    MaxChecks,        \* bound: runs of the timer
    None

ASSUME PoolAssumption ==
    /\ InitConnections \in Nat /\ MaxActive \in Nat \ {0}
    /\ MaxOps \in Nat /\ MaxDepth \in Nat \ {0} /\ MaxChecks \in Nat
    /\ None \notin Threads \cup Nat /\ IsFiniteSet(Threads)

(* How DBHelper's methods use the pool: executeUpdate and executeSql never   *)
(* give a connection back, the queries that return lists do;                 *)
(* executeInsertBatch asks twice, as two updates would.                      *)
Operations == {"update", "query"}

VARIABLES
    made,             \* connections created so far, numbered from 1
    free,             \* freeConnection
    bound,            \* threadConnected
    grouped,          \* threadGroup holds the threads' group
    contActive,
    lock,             \* owner of lock_Obj's monitor
    thread,           \* how far a thread is: pc, connection, operation, ...
    ops,              \* operations begun
    timer,            \* the checking task: pc, threads to look at, those seen, ...
    checks,
    overlapped        \* history: two threads were between size() and remove(0)

pool == << made, free, bound, grouped, contActive, lock >>
vars == << pool, thread, ops, timer, checks, overlapped >>

Resting == [pc |-> "idle", conn |-> None, op |-> "query", n |-> 0, depth |-> 0]
Sleeping == [pc |-> "sleep", todo |-> {}, seen |-> {}, must |-> {}, id |-> None, n |-> 0]

Init ==
    /\ made = InitConnections
    /\ free = [i \in 1 .. InitConnections |-> i]
    /\ bound = [t \in Threads |-> None]
    /\ grouped = FALSE
    /\ contActive = InitConnections
    /\ lock = None
    /\ thread = [t \in Threads |-> Resting]
    /\ ops = 0
    /\ timer = Sleeping
    /\ checks = 0
    /\ overlapped = FALSE

At(t, pc) == thread[t].pc = pc
Goto(t, pc) == thread' = [thread EXCEPT ![t] = [@ EXCEPT !.pc = pc]]
Taking(t) == thread[t].pc \in {"take", "bind", "remove"}

-----------------------------------------------------------------------------
(* DBHelper.                                                                *)

Begin(t, op) ==
    /\ At(t, "idle") /\ ops < MaxOps
    /\ ops' = ops + 1
    /\ thread' = [thread EXCEPT ![t] =
          [pc |-> "lookup", conn |-> None, op |-> op, n |-> 0, depth |-> 0]]
    /\ UNCHANGED << pool, timer, checks, overlapped >>

(* Once it has its connection, a query runs its statement and closes. *)
Served(t) ==
    thread' = [thread EXCEPT ![t] =
        IF @.op = "query" THEN [Resting EXCEPT !.pc = "release"] ELSE Resting]

(* An exception of the pool: the finally block of a query releases too.      *)
Throw(t) == Served(t)

EndThread(t) ==
    /\ At(t, "idle")
    /\ Goto(t, "dead")
    /\ UNCHANGED << pool, ops, timer, checks, overlapped >>

-----------------------------------------------------------------------------
(* getConnection.                                                           *)

(* Mutant of Lookup: the last free connection is never taken.                *)
LookupKeepsLast(t) ==
    /\ At(t, "lookup")
    /\ Goto(t, IF bound[t] # None THEN "count"
               ELSE IF Len(free) > 1 THEN "take" ELSE "lock")
    /\ overlapped' = (overlapped \/
          (bound[t] = None /\ free # << >> /\ \E u \in Threads \ {t} : Taking(u)))
    /\ UNCHANGED << pool, ops, timer, checks >>

(* No other thread binds t, so that it is unbound still when size() is read. *)
Lookup(t) ==
    /\ At(t, "lookup")
    /\ Goto(t, IF bound[t] # None THEN "count"
               ELSE IF free # << >> THEN "take" ELSE "lock")
    /\ overlapped' = (overlapped \/
          (bound[t] = None /\ free # << >> /\ \E u \in Threads \ {t} : Taking(u)))
    /\ UNCHANGED << pool, ops, timer, checks >>

(* freeConnection.get(0) throws when the list is empty by now. *)
TakeFirst(t) ==
    /\ At(t, "take")
    /\ \/ /\ free # << >>
          /\ thread' = [thread EXCEPT ![t] =
                [@ EXCEPT !.pc = "bind", !.conn = Head(free)]]
          /\ UNCHANGED lock
       \/ /\ free = << >>
          /\ Throw(t)
          /\ lock' = IF lock = t THEN None ELSE lock
    /\ UNCHANGED << made, free, bound, grouped, contActive, ops, timer, checks,
                    overlapped >>

Bind(t) ==
    /\ At(t, "bind")
    /\ bound' = [bound EXCEPT ![t] = thread[t].conn]
    /\ thread' = [thread EXCEPT ![t] = [@ EXCEPT !.pc = "remove", !.conn = None]]
    /\ grouped' = TRUE
    /\ UNCHANGED << made, free, contActive, lock, ops, timer, checks,
                    overlapped >>

(* remove(0) removes what is first by now, or throws. *)
DropFirst(t) ==
    /\ At(t, "remove")
    /\ \/ /\ free # << >>
          /\ free' = Tail(free)
          /\ Goto(t, "count")
          /\ UNCHANGED lock
       \/ /\ free = << >>
          /\ Throw(t)
          /\ lock' = IF lock = t THEN None ELSE lock
          /\ UNCHANGED free
    /\ UNCHANGED << made, bound, grouped, contActive, ops, timer, checks,
                    overlapped >>

Lockable(t) == lock \in {None, t}

(* The limit is checked under the lock, and contActive counted outside it.  *)
NewConnection(t) ==
    /\ At(t, "lock") /\ Lockable(t)
    /\ contActive < MaxActive
    /\ made' = made + 1
    /\ bound' = [bound EXCEPT ![t] = made + 1]
    /\ Goto(t, "count")
    /\ UNCHANGED << free, grouped, contActive, lock, ops, timer, checks,
                    overlapped >>

(* The database refuses: the SQLException is caught, and null is returned. *)
NewConnectionFails(t) ==
    /\ At(t, "lock") /\ Lockable(t)
    /\ contActive < MaxActive
    /\ Throw(t)
    /\ lock' = None
    /\ UNCHANGED << made, free, bound, grouped, contActive, ops, timer, checks,
                    overlapped >>

Wait(t) ==
    /\ At(t, "lock") /\ Lockable(t)
    /\ contActive >= MaxActive
    /\ lock' = None
    /\ Goto(t, "wait")
    /\ UNCHANGED << made, free, bound, grouped, contActive, ops, timer, checks,
                    overlapped >>

Deeper(t) == IF thread[t].depth < MaxDepth THEN thread[t].depth + 1 ELSE MaxDepth

(* Mutant of Retry: wait() without a time limit. *)
RetryWoken(t) ==
    /\ At(t, "woken") /\ lock = None
    /\ lock' = t
    /\ thread' = [thread EXCEPT ![t] =
          [@ EXCEPT !.pc = "lookup", !.depth = Deeper(t)]]
    /\ UNCHANGED << made, free, bound, grouped, contActive, ops, timer, checks,
                    overlapped >>

(* The second is over, or a release woke the thread: it takes the lock again *)
(* and asks again, one level deeper.                                         *)
Retry(t) ==
    /\ At(t, "wait") \/ At(t, "woken")
    /\ lock = None
    /\ lock' = t
    /\ thread' = [thread EXCEPT ![t] =
          [@ EXCEPT !.pc = "lookup", !.depth = Deeper(t)]]
    /\ UNCHANGED << made, free, bound, grouped, contActive, ops, timer, checks,
                    overlapped >>

(* contActive++ reads ... *)
ReadCount(t) ==
    /\ At(t, "count")
    /\ thread' = [thread EXCEPT ![t] = [@ EXCEPT !.pc = "incr", !.n = contActive]]
    /\ UNCHANGED << pool, ops, timer, checks, overlapped >>

(* Mutant of WriteCount: the outermost level is taken for one of the others. *)
WriteCountAgain(t) ==
    /\ At(t, "incr")
    /\ contActive' = thread[t].n + 1
    /\ IF thread[t].depth < 0
         THEN Served(t) /\ UNCHANGED lock
         ELSE /\ thread' = [thread EXCEPT ![t] =
                    [@ EXCEPT !.pc = "count", !.depth = thread[t].depth - 1, !.n = 0]]
              /\ lock' = IF thread[t].depth = 1 THEN None ELSE lock
    /\ UNCHANGED << made, free, bound, grouped, ops, timer, checks, overlapped >>

(* ... and writes, at every level the recursion returns to; the outermost   *)
(* one leaves the synchronized block first.                                 *)
WriteCount(t) ==
    /\ At(t, "incr")
    /\ contActive' = thread[t].n + 1
    /\ IF thread[t].depth = 0
         THEN Served(t) /\ UNCHANGED lock
         ELSE /\ thread' = [thread EXCEPT ![t] =
                    [@ EXCEPT !.pc = "count", !.depth = thread[t].depth - 1, !.n = 0]]
              /\ lock' = IF thread[t].depth = 1 THEN None ELSE lock
    /\ UNCHANGED << made, free, bound, grouped, ops, timer, checks, overlapped >>

-----------------------------------------------------------------------------
(* releaseCurConn.                                                          *)

Release(t) ==
    /\ At(t, "release")
    /\ IF bound[t] = None
         THEN thread' = [thread EXCEPT ![t] = Resting] /\ UNCHANGED free
         ELSE free' = Append(free, bound[t]) /\ Goto(t, "uncount")
    /\ UNCHANGED << made, bound, grouped, contActive, lock, ops, timer,
                    checks, overlapped >>

ReadUncount(t) ==
    /\ At(t, "uncount")
    /\ thread' = [thread EXCEPT ![t] = [@ EXCEPT !.pc = "decr", !.n = contActive]]
    /\ UNCHANGED << pool, ops, timer, checks, overlapped >>

WriteUncount(t) ==
    /\ At(t, "decr")
    /\ contActive' = thread[t].n - 1
    /\ thread' = [thread EXCEPT ![t] = [@ EXCEPT !.pc = "notify", !.n = 0]]
    /\ UNCHANGED << made, free, bound, grouped, lock, ops, timer, checks,
                    overlapped >>

(* Under the lock, which no waiting thread holds: they ask again when they   *)
(* get it.                                                                   *)
NotifyAll(t) ==
    /\ At(t, "notify") /\ lock = None
    /\ thread' = [u \in Threads |->
          IF u = t THEN Resting
          ELSE IF At(u, "wait") THEN [thread[u] EXCEPT !.pc = "woken"]
          ELSE thread[u]]
    /\ UNCHANGED << pool, ops, timer, checks, overlapped >>

-----------------------------------------------------------------------------
(* The task of cheackPool.                                                  *)

Bound == {t \in Threads : bound[t] # None}
Alive == {t \in Threads : ~At(t, "dead")}

(* The task takes the threads that live, of the groups it knows of.  One    *)
(* that ends between activeCount and enumerate leaves a null entry, whose   *)
(* exception ends the Timer for good.                                       *)
CheckBegin ==
    /\ timer.pc = "sleep" /\ checks < MaxChecks
    /\ checks' = checks + 1
    /\ \/ timer' = [Sleeping EXCEPT !.pc = "collect", !.todo = IF grouped THEN Alive ELSE {}]
       \/ grouped /\ timer' = [Sleeping EXCEPT !.pc = "ended"]
    /\ UNCHANGED << pool, thread, ops, overlapped >>

(* One after the other, it collects those that are bound and live still.    *)
Collect(t) ==
    /\ timer.pc = "collect" /\ t \in timer.todo
    /\ timer' = [timer EXCEPT !.todo = @ \ {t}, !.seen = @ \cup ({t} \cap Bound \cap Alive)]
    /\ UNCHANGED << pool, thread, ops, checks, overlapped >>

(* Then it goes through threadConnected.                                    *)
ScanBegin ==
    /\ timer.pc = "collect" /\ timer.todo = {}
    /\ timer' = [timer EXCEPT !.pc = "scan", !.must = Bound \ timer.seen]
    /\ UNCHANGED << pool, thread, ops, checks, overlapped >>

(* Mutant of Reclaim: the connection of a dead thread is not made free. *)
ReclaimForgets(t) ==
    /\ timer.pc = "scan" /\ t \in Bound \ timer.seen
    /\ timer' = [timer EXCEPT !.pc = "unbind", !.id = t, !.n = contActive]
    /\ UNCHANGED << pool, thread, ops, checks, overlapped >>

(* Whoever is not among them is taken for dead.                             *)
Reclaim(t) ==
    /\ timer.pc = "scan" /\ t \in Bound \ timer.seen
    /\ free' = Append(free, bound[t])
    /\ timer' = [timer EXCEPT !.pc = "unbind", !.id = t, !.n = contActive]
    /\ UNCHANGED << made, bound, grouped, contActive, lock, thread, ops, checks,
                    overlapped >>

Unbind ==
    /\ timer.pc = "unbind"
    /\ contActive' = timer.n - 1
    /\ bound' = [bound EXCEPT ![timer.id] = None]
    /\ timer' = [timer EXCEPT !.pc = "scan", !.must = @ \ {timer.id}, !.id = None,
                               !.n = 0]
    /\ UNCHANGED << made, free, grouped, lock, thread, ops, checks, overlapped >>

(* A thread bound since the iteration began may be missed. *)
CheckEnd ==
    /\ timer.pc = "scan" /\ timer.must = {}
    /\ timer' = Sleeping
    /\ UNCHANGED << pool, thread, ops, checks, overlapped >>

-----------------------------------------------------------------------------
Get(t) ==
    \/ Lookup(t) \/ TakeFirst(t) \/ Bind(t) \/ DropFirst(t)
    \/ NewConnection(t) \/ NewConnectionFails(t) \/ Wait(t) \/ Retry(t)
    \/ ReadCount(t) \/ WriteCount(t)

GiveBack(t) == Release(t) \/ ReadUncount(t) \/ WriteUncount(t) \/ NotifyAll(t)

CheckStep ==
    \/ ScanBegin \/ Unbind \/ CheckEnd
    \/ \E t \in Threads : Collect(t) \/ Reclaim(t)

Next ==
    \/ \E t \in Threads : \/ \E op \in Operations : Begin(t, op)
                          \/ EndThread(t) \/ Get(t) \/ GiveBack(t)
    \/ CheckBegin \/ CheckStep

Spec == Init /\ [][Next]_vars

(* A thread in the pool runs on, the second of a wait ends and the timer's    *)
(* task finishes; that a thread calls again or ends is not promised.          *)
FairSpec ==
    /\ Spec
    /\ \A t \in Threads : WF_vars(Get(t) \/ GiveBack(t))
    /\ WF_vars(CheckStep)
-----------------------------------------------------------------------------
Asking(t) == thread[t].pc \in {"lookup", "lock", "wait", "woken"}

(* Type invariant: the shape of every variable. *)
TypeOK ==
    /\ made \in Nat /\ contActive \in Int /\ grouped \in BOOLEAN
    /\ Range(free) \subseteq 1 .. made
    /\ bound \in [Threads -> (1 .. made) \cup {None}]
    /\ lock \in Threads \cup {None}
    /\ \A t \in Threads :
          /\ thread[t].op \in Operations /\ thread[t].depth \in 0 .. MaxDepth
          /\ thread[t].conn \in (1 .. made) \cup {None}
    /\ timer.pc \in {"sleep", "collect", "scan", "unbind", "ended"}
    /\ overlapped \in BOOLEAN

(* A connection of the pool stays reachable: it is free or bound to a thread. *)
(* get(0), put and remove(0) of getConnection, the two adds to freeConnection *)
(* and the timer's add and remove keep it so in every order as long as no two *)
(* threads are between size() and remove(0) at once; two that are take the    *)
(* same connection and drop the next one with the second remove(0).           *)
NoConnectionLost ==
    overlapped \/ 1 .. made \subseteq Range(free) \cup {bound[t] : t \in Bound}

(* However wrong contActive is - counted once per level and per call, and   *)
(* with updates lost - the pool makes no more connections than it has       *)
(* threads, or had at the start: a thread that finds no connection free     *)
(* finds all of them bound to others (ConnectionPool.java:33, 121, 142).     *)
ConnectionsBounded ==
    overlapped \/ made <= InitConnections \/ made <= Cardinality(Threads)

(* A thread that waits in getConnection while a connection is free gets one,  *)
(* or finds that others took the free ones.  A release that notifies before   *)
(* the thread waits is not lost: wait has a time limit.                       *)
FreeIsTaken ==
    \A t \in Threads :
        (At(t, "wait") /\ free # << >>) ~> (~Asking(t) \/ free = << >>)

(* "Creates a connection for each thread", as the comment on threadConnected *)
(* puts it: two threads are not bound to one connection.                     *)
OneThreadPerConnection ==
    \A t, u \in Bound : bound[t] = bound[u] => t = u
=============================================================================
