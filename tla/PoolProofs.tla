----------------------------- MODULE PoolProofs -----------------------------
(***************************************************************************)
(* What holds of the connection pool for every number of threads, every    *)
(* limit and any number of operations and runs of the timer.               *)
(***************************************************************************)
EXTENDS ConnectionPool, FiniteSetTheorems, TLAPS

ThreadState ==
    [pc : {"idle", "dead", "lookup", "take", "bind", "remove", "lock", "wait", "woken",
           "count", "incr", "release", "uncount", "decr", "notify"},
     conn : Nat \cup {None}, op : Operations, n : Int, depth : 0 .. MaxDepth]

TimerState ==
    [pc : {"sleep", "collect", "scan", "unbind", "ended"}, todo : SUBSET Threads,
     seen : SUBSET Threads, must : SUBSET Threads, id : Threads \cup {None}, n : Int]

Typed ==
    /\ made \in Nat /\ contActive \in Int /\ grouped \in BOOLEAN
    /\ free \in Seq(1 .. made)
    /\ bound \in [Threads -> (1 .. made) \cup {None}]
    /\ lock \in Threads \cup {None}
    /\ thread \in [Threads -> ThreadState]
    /\ \A t \in Threads : thread[t].conn \in (1 .. made) \cup {None}
    /\ timer \in TimerState
    /\ overlapped \in BOOLEAN

(* A thread that has still to be bound is bound to nothing, and the timer   *)
(* unbinds a thread that is bound.                                          *)
Unbound ==
    /\ \A t \in Threads :
          thread[t].pc \in {"take", "bind", "lock", "wait", "woken"} => bound[t] = None
    /\ timer.pc = "unbind" => timer.id \in Threads /\ bound[timer.id] # None

(* The connections that stay free: a thread about to do remove(0) takes the *)
(* first away.                                                              *)
Rest == IF \E t \in Threads : At(t, "remove") THEN Range(Tail(free)) ELSE Range(free)

(* Those bound to the threads of a set.                                     *)
BoundTo(T) == {bound[t] : t \in Bound \cap T}

(* As long as no two threads took at once: a thread between get(0) and      *)
(* remove(0) has the first free connection, no connection is only among     *)
(* those taken away, and the timer's is free before it is unbound.          *)
Kept ==
    /\ \A t, u \in Threads : Taking(t) /\ Taking(u) => t = u
    /\ \A t \in Threads : thread[t].pc \in {"bind", "remove"} => free # << >>
    /\ \A t \in Threads : At(t, "bind") => thread[t].conn = Head(free)
    /\ 1 .. made \subseteq Rest \cup BoundTo(Threads)
    /\ timer.pc = "unbind" => bound[timer.id] \in Rest \cup BoundTo(Threads \ {timer.id})

Inv == Typed /\ Unbound /\ (overlapped \/ Kept)

-----------------------------------------------------------------------------
LEMMA ListRange ==
  ASSUME NEW S, NEW s \in Seq(S)
  PROVE  /\ Range(s) \subseteq S
         /\ s # << >> => /\ Head(s) \in S /\ Tail(s) \in Seq(S)
                         /\ Range(s) = {Head(s)} \cup Range(Tail(s))
         /\ \A c \in S : /\ Append(s, c) \in Seq(S) /\ Append(s, c) # << >>
                         /\ Range(Append(s, c)) = Range(s) \cup {c}
                         /\ s # << >> =>
                               /\ Head(Append(s, c)) = Head(s)
                               /\ Range(Tail(Append(s, c))) = Range(Tail(s)) \cup {c}
  <1>1. Range(s) \subseteq S
    BY DEF Range
  <1>2. ASSUME s # << >>
        PROVE  /\ Head(s) \in S /\ Tail(s) \in Seq(S)
               /\ Range(s) = {Head(s)} \cup Range(Tail(s))
    <2>1. Head(s) = s[1] /\ 1 \in DOMAIN s /\ Head(s) \in S /\ Tail(s) \in Seq(S)
      BY <1>2
    <2>2. DOMAIN Tail(s) = 1 .. Len(s) - 1 /\ \A i \in DOMAIN Tail(s) : Tail(s)[i] = s[i + 1]
      BY <1>2
    <2>3. ASSUME NEW i \in DOMAIN s PROVE s[i] \in {Head(s)} \cup Range(Tail(s))
      <3>1. CASE i = 1
        BY <2>1, <3>1
      <3>2. CASE i # 1
        <4>1. i - 1 \in DOMAIN Tail(s) /\ Tail(s)[i - 1] = s[i]
          BY <2>2, <3>2
        <4> QED BY <4>1 DEF Range
      <3> QED BY <3>1, <3>2
    <2>4. ASSUME NEW i \in DOMAIN Tail(s) PROVE Tail(s)[i] \in Range(s)
      <3>1. i + 1 \in DOMAIN s /\ Tail(s)[i] = s[i + 1]
        BY <2>2
      <3> QED BY <3>1 DEF Range
    <2> QED BY <2>1, <2>3, <2>4 DEF Range
  <1>3. ASSUME NEW c \in S
        PROVE  /\ Append(s, c) \in Seq(S) /\ Append(s, c) # << >>
               /\ Range(Append(s, c)) = Range(s) \cup {c}
    <2>1. /\ Append(s, c) \in Seq(S) /\ Append(s, c) # << >>
          /\ DOMAIN Append(s, c) = 1 .. Len(s) + 1 /\ DOMAIN s = 1 .. Len(s)
          /\ \A i \in 1 .. Len(s) : Append(s, c)[i] = s[i]
          /\ Append(s, c)[Len(s) + 1] = c
      OBVIOUS
    <2> QED BY <2>1 DEF Range
  <1>4. ASSUME NEW c \in S, s # << >>
        PROVE  /\ Head(Append(s, c)) = Head(s)
               /\ Range(Tail(Append(s, c))) = Range(Tail(s)) \cup {c}
    <2>1. Tail(Append(s, c)) = Append(Tail(s), c) /\ Tail(s) \in Seq(S)
      BY <1>4
    <2>2. /\ DOMAIN Append(Tail(s), c) = 1 .. Len(Tail(s)) + 1
          /\ DOMAIN Tail(s) = 1 .. Len(Tail(s))
          /\ \A i \in 1 .. Len(Tail(s)) : Append(Tail(s), c)[i] = Tail(s)[i]
          /\ Append(Tail(s), c)[Len(Tail(s)) + 1] = c
      BY <2>1
    <2>3. Range(Append(Tail(s), c)) = Range(Tail(s)) \cup {c}
      BY <2>1, <2>2 DEF Range
    <2>4. Head(Append(s, c)) = Head(s)
      <3>1. Append(s, c) \in Seq(S) /\ Append(s, c) # << >> /\ Len(s) > 0
        BY <1>4
      <3>2. Append(s, c)[1] = s[1]
        BY <3>1
      <3> QED BY <1>4, <3>1, <3>2
    <2> QED BY <2>1, <2>3, <2>4
  <1> QED BY <1>1, <1>2, <1>3, <1>4

LEMMA InvNoConnectionLost == Inv => NoConnectionLost
  <1> SUFFICES ASSUME Inv, Kept PROVE 1 .. made \subseteq Range(free) \cup {bound[t] : t \in Bound}
    BY DEF Inv, NoConnectionLost
  <1>1. BoundTo(Threads) = {bound[t] : t \in Bound}
    BY DEF BoundTo, Bound
  <1>2. Rest \subseteq Range(free)
    <2>1. CASE \E t \in Threads : At(t, "remove")
      <3>1. free # << >> /\ free \in Seq(1 .. made)
        BY <2>1 DEF Inv, Typed, Kept, At
      <3> QED BY <2>1, <3>1, ListRange DEF Rest
    <2> QED BY <2>1 DEF Rest
  <1> QED BY <1>1, <1>2 DEF Kept

LEMMA InvTypeOK == Inv => TypeOK
  <1> SUFFICES ASSUME Inv PROVE TypeOK
    OBVIOUS
  <1>1. Range(free) \subseteq 1 .. made
    BY ListRange DEF Inv, Typed
  <1> QED BY <1>1 DEF Inv, Typed, TypeOK, ThreadState, TimerState

LEMMA RestingTyped ==
  /\ Resting \in ThreadState /\ Resting.pc = "idle" /\ Resting.conn = None
  /\ Sleeping \in TimerState /\ Sleeping.pc = "sleep"
  BY PoolAssumption DEF PoolAssumption, ThreadState, Resting, TimerState, Sleeping, Operations

LEMMA InitInv == Init => Inv
  <1> SUFFICES ASSUME Init PROVE Inv
    OBVIOUS
  <1>1. free \in Seq(1 .. made) /\ Range(free) = 1 .. made
    <2>1. free \in [1 .. InitConnections -> 1 .. made] /\ \A i \in 1 .. made : free[i] = i
      BY DEF Init
    <2> QED BY <2>1, PoolAssumption DEF PoolAssumption, Init, Range
  <1>2. Typed
    <2>1. made \in Nat /\ contActive \in Int /\ ops \in Nat
      BY PoolAssumption DEF Init, PoolAssumption
    <2>2. /\ bound \in [Threads -> (1 .. made) \cup {None}]
          /\ grouped \in BOOLEAN /\ overlapped \in BOOLEAN /\ lock \in Threads \cup {None}
      BY DEF Init
    <2>3. /\ thread \in [Threads -> ThreadState] /\ timer \in TimerState
          /\ \A t \in Threads : thread[t].conn \in (1 .. made) \cup {None}
      BY RestingTyped DEF Init
    <2> QED BY <1>1, <2>1, <2>2, <2>3 DEF Typed
  <1>3. Unbound /\ ~ (\E t \in Threads : At(t, "remove") \/ At(t, "bind") \/ Taking(t))
    BY RestingTyped DEF Init, Unbound, At, Taking
  <1>4. Kept
    BY <1>1, <1>3, RestingTyped DEF Init, Kept, Rest, At
  <1> QED BY <1>2, <1>3, <1>4 DEF Inv

-----------------------------------------------------------------------------
(* One thread moves.                                                        *)
LEMMA Moved ==
  ASSUME Typed, NEW t \in Threads, NEW r \in ThreadState,
         r.conn \in (1 .. made) \cup {None}, made' \in Nat, made <= made',
         thread' = [thread EXCEPT ![t] = r]
  PROVE  /\ thread' \in [Threads -> ThreadState]
         /\ \A u \in Threads : thread'[u].conn \in (1 .. made') \cup {None}
         /\ thread'[t] = r
         /\ \A u \in Threads \ {t} : thread'[u] = thread[u]
  <1>1. /\ thread' \in [Threads -> ThreadState] /\ thread'[t] = r
        /\ \A u \in Threads \ {t} : thread'[u] = thread[u]
    BY DEF Typed
  <1>2. 1 .. made \subseteq 1 .. made'
    BY DEF Typed
  <1>3. \A u \in Threads : thread'[u].conn \in (1 .. made') \cup {None}
    BY <1>1, <1>2 DEF Typed
  <1> QED BY <1>1, <1>3

(* A move that takes no connection and leaves the lists alone.              *)
LEMMA Quiet ==
  ASSUME Inv, NEW t \in Threads, NEW r \in ThreadState,
         r.conn \in (1 .. made) \cup {None},
         r.pc \notin {"take", "bind", "remove"},
         r.pc \in {"lock", "wait", "woken"} => bound[t] = None,
         overlapped \/ ~ At(t, "remove"),
         thread' = [thread EXCEPT ![t] = r],
         UNCHANGED << made, free, bound, grouped, timer, overlapped >>,
         lock' \in Threads \cup {None}, contActive' \in Int
  PROVE  Inv'
  <1>1. Typed
    BY DEF Inv
  <1>2. /\ thread' \in [Threads -> ThreadState]
        /\ \A u \in Threads : thread'[u].conn \in (1 .. made') \cup {None}
        /\ thread'[t] = r
        /\ \A u \in Threads \ {t} : thread'[u] = thread[u]
    BY <1>1, Moved DEF Typed
  <1>3. Typed'
    BY <1>1, <1>2 DEF Typed
  <1>4. Unbound'
    BY <1>2 DEF Inv, Unbound
  <1>5. ASSUME ~ overlapped PROVE Kept'
    <2>1. Kept
      BY <1>5 DEF Inv
    <2>2. \A u \in Threads : (At(u, "remove"))' <=> At(u, "remove")
      BY <1>2, <1>5 DEF At
    <2>3. Rest' = Rest
      BY <2>2 DEF Rest
    <2>4. BoundTo(Threads)' = BoundTo(Threads)
      BY DEF BoundTo, Bound
    <2>5. BoundTo(Threads \ {timer.id})' = BoundTo(Threads \ {timer.id})
      BY DEF BoundTo, Bound
    <2>6. \A u \in Threads : Taking(u)' => Taking(u)
      BY <1>2 DEF Taking
    <2>7. \A u \in Threads : thread'[u].pc \in {"bind", "remove"} => thread'[u] = thread[u]
      BY <1>2
    <2> QED BY <2>1, <2>3, <2>4, <2>5, <2>6, <2>7 DEF Kept, At
  <1> QED BY <1>3, <1>4, <1>5 DEF Inv

LEMMA ServedTyped ==
  ASSUME Typed, NEW t \in Threads, Served(t)
  PROVE  \E r \in ThreadState :
            /\ thread' = [thread EXCEPT ![t] = r]
            /\ r.pc \in {"idle", "release"} /\ r.conn = None
  <1> DEFINE r == IF thread[t].op = "query" THEN [Resting EXCEPT !.pc = "release"] ELSE Resting
  <1>1. thread' = [thread EXCEPT ![t] = r]
    BY DEF Served
  <1>2. r \in ThreadState /\ r.pc \in {"idle", "release"} /\ r.conn = None
    BY PoolAssumption DEF PoolAssumption, ThreadState, Resting, Operations
  <1> QED BY <1>1, <1>2

LEMMA GotoTyped ==
  ASSUME Typed, NEW t \in Threads, NEW pc, Goto(t, pc),
         pc \in {"dead", "lookup", "take", "lock", "wait", "count", "uncount"}
  PROVE  \E r \in ThreadState :
            thread' = [thread EXCEPT ![t] = r] /\ r.pc = pc /\ r.conn = thread[t].conn
  <1> DEFINE r == [thread[t] EXCEPT !.pc = pc]
  <1>1. thread' = [thread EXCEPT ![t] = r]
    BY DEF Goto
  <1>2. r \in ThreadState /\ r.pc = pc /\ r.conn = thread[t].conn
    BY DEF Typed, ThreadState
  <1> QED BY <1>1, <1>2

(* The steps of DBHelper and of the counting.                               *)
LEMMA InvCounting ==
  ASSUME Inv, NEW t \in Threads,
         \/ \E op \in Operations : Begin(t, op)
         \/ EndThread(t) \/ ReadCount(t) \/ WriteCount(t) \/ ReadUncount(t) \/ WriteUncount(t)
  PROVE  Inv'
  <1>1. Typed /\ thread[t] \in ThreadState /\ thread[t].conn \in (1 .. made) \cup {None}
    BY DEF Inv, Typed
  <1>2. /\ UNCHANGED << made, free, bound, grouped, timer, overlapped >>
        /\ ~ At(t, "remove")
    BY DEF Begin, EndThread, ReadCount, WriteCount, ReadUncount, WriteUncount, pool, At
  <1>3. lock' \in Threads \cup {None} /\ contActive' \in Int
    BY <1>1 DEF Begin, EndThread, ReadCount, WriteCount, ReadUncount, WriteUncount, pool,
                Typed, ThreadState
  <1> DEFINE Goal == \E r \in ThreadState :
           /\ thread' = [thread EXCEPT ![t] = r]
           /\ r.conn \in (1 .. made) \cup {None}
           /\ r.pc \notin {"take", "bind", "remove", "lock", "wait", "woken"}
  <1>4. ASSUME NEW op \in Operations, Begin(t, op) PROVE Goal
    <2> DEFINE r == [pc |-> "lookup", conn |-> None, op |-> op, n |-> 0, depth |-> 0]
    <2>1. r \in ThreadState
      BY PoolAssumption DEF PoolAssumption, ThreadState
    <2> QED BY <1>4, <2>1 DEF Begin
  <1>5. ASSUME EndThread(t) PROVE Goal
    BY <1>1, <1>5, GotoTyped DEF EndThread
  <1>6. ASSUME ReadCount(t) PROVE Goal
    <2> DEFINE r == [thread[t] EXCEPT !.pc = "incr", !.n = contActive]
    <2>1. r \in ThreadState /\ r.pc = "incr" /\ r.conn = thread[t].conn
      BY <1>1 DEF ThreadState, Typed
    <2> QED BY <1>1, <1>6, <2>1 DEF ReadCount
  <1>7. ASSUME WriteCount(t) PROVE Goal
    <2>1. CASE thread[t].depth = 0
      BY <1>1, <1>7, <2>1, ServedTyped DEF WriteCount
    <2>2. CASE thread[t].depth # 0
      <3> DEFINE zero == 0
                 d == thread[t].depth - 1
                 r == [thread[t] EXCEPT !.pc = "count", !.depth = d, !.n = zero]
      <3>1. zero \in Int /\ d \in 0 .. MaxDepth
        BY <1>1, <2>2, PoolAssumption DEF ThreadState, PoolAssumption
      <3>2. thread' = [thread EXCEPT ![t] = r]
        BY <1>7, <2>2 DEF WriteCount
      <3> HIDE DEF zero, d
      <3>3. r \in ThreadState /\ r.pc = "count" /\ r.conn = thread[t].conn
        BY <1>1, <3>1 DEF ThreadState
      <3> QED BY <1>1, <3>2, <3>3
    <2> QED BY <2>1, <2>2
  <1>8. ASSUME ReadUncount(t) PROVE Goal
    <2> DEFINE r == [thread[t] EXCEPT !.pc = "decr", !.n = contActive]
    <2>1. r \in ThreadState /\ r.pc = "decr" /\ r.conn = thread[t].conn
      BY <1>1 DEF ThreadState, Typed
    <2> QED BY <1>1, <1>8, <2>1 DEF ReadUncount
  <1>9. ASSUME WriteUncount(t) PROVE Goal
    <2> DEFINE zero == 0
               r == [thread[t] EXCEPT !.pc = "notify", !.n = zero]
    <2>1. zero \in Int
      OBVIOUS
    <2>2. thread' = [thread EXCEPT ![t] = r]
      BY <1>9 DEF WriteUncount
    <2> HIDE DEF zero
    <2>3. r \in ThreadState /\ r.pc = "notify" /\ r.conn = thread[t].conn
      BY <1>1, <2>1 DEF ThreadState
    <2> QED BY <1>1, <2>2, <2>3
  <1>10. Goal
    <2> HIDE DEF Goal
    <2> QED BY <1>4, <1>5, <1>6, <1>7, <1>8, <1>9
  <1> QED BY <1>2, <1>3, <1>10, Quiet

(* getConnection up to the choice of a connection, and under the lock.      *)
LEMMA InvAsking ==
  ASSUME Inv, NEW t \in Threads, NewConnectionFails(t) \/ Wait(t) \/ Retry(t)
  PROVE  Inv'
  <1>1. Typed /\ thread[t] \in ThreadState /\ thread[t].conn \in (1 .. made) \cup {None}
    BY DEF Inv, Typed
  <1>2. /\ UNCHANGED << made, free, bound, grouped, contActive, timer, overlapped >>
        /\ ~ At(t, "remove")
    BY DEF NewConnectionFails, Wait, Retry, At
  <1>3. lock' \in Threads \cup {None} /\ contActive' \in Int
    BY <1>1, <1>2 DEF NewConnectionFails, Wait, Retry, Typed
  <1> DEFINE Goal == \E r \in ThreadState :
           /\ thread' = [thread EXCEPT ![t] = r]
           /\ r.conn \in (1 .. made) \cup {None}
           /\ r.pc \notin {"take", "bind", "remove"}
           /\ r.pc \in {"lock", "wait", "woken"} => bound[t] = None
  <1>4. ASSUME NewConnectionFails(t) PROVE Goal
    BY <1>1, <1>4, ServedTyped DEF NewConnectionFails, Throw
  <1>5. ASSUME Wait(t) PROVE Goal
    <2>1. bound[t] = None
      BY <1>5 DEF Wait, At, Inv, Unbound
    <2> QED BY <1>1, <1>5, <2>1, GotoTyped DEF Wait
  <1>6. ASSUME Retry(t) PROVE Goal
    <2> DEFINE r == [thread[t] EXCEPT !.pc = "lookup", !.depth = Deeper(t)]
    <2>1. Deeper(t) \in 0 .. MaxDepth
      BY <1>1, PoolAssumption DEF ThreadState, PoolAssumption, Deeper
    <2>2. r \in ThreadState /\ r.pc = "lookup" /\ r.conn = thread[t].conn
      BY <1>1, <2>1 DEF ThreadState
    <2> QED BY <1>1, <1>6, <2>2 DEF Retry
  <1>7. Goal
    <2> HIDE DEF Goal
    <2> QED BY <1>4, <1>5, <1>6
  <1> QED BY <1>2, <1>3, <1>7, Quiet

(* Lookup into "take" tells whether another thread is taking.               *)
LEMMA InvLookup == ASSUME Inv, NEW t \in Threads, Lookup(t) PROVE Inv'
  <1> DEFINE to == IF bound[t] # None THEN "count"
                   ELSE IF free # << >> THEN "take" ELSE "lock"
  <1>1. /\ UNCHANGED << made, free, bound, grouped, contActive, lock, timer >>
        /\ Goto(t, to) /\ At(t, "lookup") /\ Typed
    BY DEF Lookup, pool, Inv
  <1>2. PICK r \in ThreadState :
           thread' = [thread EXCEPT ![t] = r] /\ r.pc = to /\ r.conn = thread[t].conn
    BY <1>1, GotoTyped
  <1>3. /\ thread' \in [Threads -> ThreadState]
        /\ \A u \in Threads : thread'[u].conn \in (1 .. made') \cup {None}
        /\ thread'[t] = r
        /\ \A u \in Threads \ {t} : thread'[u] = thread[u]
    BY <1>1, <1>2, Moved DEF Typed
  <1>4. overlapped' = (overlapped \/
          (bound[t] = None /\ free # << >> /\ \E u \in Threads \ {t} : Taking(u)))
    BY DEF Lookup
  <1>5. Typed'
    BY <1>1, <1>3, <1>4 DEF Typed
  <1>6. Unbound'
    BY <1>1, <1>2, <1>3 DEF Inv, Unbound
  <1>7. ASSUME ~ overlapped' PROVE Kept'
    <2>1. Kept /\ ~ overlapped
      BY <1>4, <1>7 DEF Inv
    <2>2. \A u \in Threads : (At(u, "remove"))' <=> At(u, "remove")
      BY <1>1, <1>2, <1>3 DEF At
    <2>3. Rest' = Rest
      BY <1>1, <2>2 DEF Rest
    <2>4. BoundTo(Threads)' = BoundTo(Threads)
      BY <1>1 DEF BoundTo, Bound
    <2>5. BoundTo(Threads \ {timer.id})' = BoundTo(Threads \ {timer.id})
      BY <1>1 DEF BoundTo, Bound
    <2>6. \A u \in Threads \ {t} : Taking(u)' <=> Taking(u)
      BY <1>3 DEF Taking
    <2>7. Taking(t)' => \A u \in Threads \ {t} : ~ Taking(u)
      BY <1>2, <1>3, <1>4, <1>7 DEF Taking
    <2>8. \A u, v \in Threads : Taking(u)' /\ Taking(v)' => u = v
      BY <2>1, <2>6, <2>7 DEF Kept
    <2>9. \A u \in Threads : thread'[u].pc \in {"bind", "remove"} => thread'[u] = thread[u]
      BY <1>2, <1>3
    <2> QED BY <1>1, <2>1, <2>3, <2>4, <2>5, <2>8, <2>9 DEF Kept, At
  <1> QED BY <1>5, <1>6, <1>7 DEF Inv

LEMMA InvTakeFirst == ASSUME Inv, NEW t \in Threads, TakeFirst(t) PROVE Inv'
  <1>1. /\ UNCHANGED << made, free, bound, grouped, contActive, timer, overlapped >>
        /\ At(t, "take") /\ Typed /\ thread[t] \in ThreadState
    BY DEF TakeFirst, Inv, Typed
  <1>2. CASE free = << >>
    <2>1. PICK r \in ThreadState :
             /\ thread' = [thread EXCEPT ![t] = r]
             /\ r.pc \in {"idle", "release"} /\ r.conn = None
      BY <1>1, <1>2, ServedTyped DEF TakeFirst, Throw
    <2>2. lock' \in Threads \cup {None} /\ contActive' \in Int
      BY <1>1, <1>2 DEF TakeFirst, Typed
    <2> QED BY <1>1, <2>1, <2>2, Quiet DEF At
  <1>3. CASE free # << >>
    <2> DEFINE r == [thread[t] EXCEPT !.pc = "bind", !.conn = Head(free)]
    <2>1. thread' = [thread EXCEPT ![t] = r] /\ UNCHANGED lock
      BY <1>3 DEF TakeFirst
    <2>2. Head(free) \in 1 .. made
      BY <1>1, <1>3, ListRange DEF Typed
    <2>3. r \in ThreadState /\ r.pc = "bind" /\ r.conn = Head(free)
      <3> DEFINE h == Head(free)
                 q == [thread[t] EXCEPT !.pc = "bind", !.conn = h]
      <3>1. h \in Nat
        BY <1>1, <2>2 DEF Typed
      <3> HIDE DEF h
      <3>2. q \in ThreadState /\ q.pc = "bind" /\ q.conn = h
        BY <1>1, <3>1 DEF ThreadState
      <3> QED BY <3>2 DEF h
    <2> HIDE DEF r
    <2>4. /\ thread' \in [Threads -> ThreadState]
          /\ \A u \in Threads : thread'[u].conn \in (1 .. made') \cup {None}
          /\ thread'[t] = r
          /\ \A u \in Threads \ {t} : thread'[u] = thread[u]
      BY <1>1, <2>1, <2>2, <2>3, Moved DEF Typed
    <2>5. Typed'
      BY <1>1, <2>1, <2>4 DEF Typed
    <2>6. Unbound'
      BY <1>1, <2>3, <2>4 DEF Inv, Unbound, At
    <2>7. ASSUME ~ overlapped PROVE Kept'
      <3>1. Kept
        BY <2>7 DEF Inv
      <3>2. \A u \in Threads : (At(u, "remove"))' <=> At(u, "remove")
        BY <1>1, <2>3, <2>4 DEF At
      <3>3. Rest' = Rest
        BY <1>1, <3>2 DEF Rest
      <3>4. BoundTo(Threads)' = BoundTo(Threads)
        BY <1>1 DEF BoundTo, Bound
      <3>5. BoundTo(Threads \ {timer.id})' = BoundTo(Threads \ {timer.id})
        BY <1>1 DEF BoundTo, Bound
      <3>6. \A u \in Threads : Taking(u)' => Taking(u)
        BY <1>1, <2>4 DEF Taking, At
      <3>7. \A u \in Threads \ {t} : thread'[u] = thread[u]
        BY <2>4
      <3> QED BY <1>1, <1>3, <2>3, <2>4, <3>1, <3>3, <3>4, <3>5, <3>6, <3>7 DEF Kept, At
    <2> QED BY <1>1, <2>5, <2>6, <2>7 DEF Inv
  <1> QED BY <1>2, <1>3

(* The connection a thread is bound to is the one remove(0) will take.      *)
LEMMA InvBind == ASSUME Inv, NEW t \in Threads, Bind(t) PROVE Inv'
  <1> DEFINE c == thread[t].conn
             r == [thread[t] EXCEPT !.pc = "remove", !.conn = None]
  <1>1. /\ UNCHANGED << made, free, contActive, lock, timer, overlapped >>
        /\ At(t, "bind") /\ Typed /\ thread[t] \in ThreadState /\ grouped' \in BOOLEAN
        /\ bound' = [bound EXCEPT ![t] = c] /\ thread' = [thread EXCEPT ![t] = r]
        /\ c \in (1 .. made) \cup {None} /\ bound[t] = None
    BY DEF Bind, Inv, Typed, Unbound, At
  <1>2. r \in ThreadState /\ r.pc = "remove" /\ r.conn = None
    BY <1>1 DEF ThreadState
  <1> HIDE DEF r, c
  <1>3. /\ thread' \in [Threads -> ThreadState]
        /\ \A u \in Threads : thread'[u].conn \in (1 .. made') \cup {None}
        /\ thread'[t] = r
        /\ \A u \in Threads \ {t} : thread'[u] = thread[u]
    BY <1>1, <1>2, Moved DEF Typed
  <1>4. /\ bound' \in [Threads -> (1 .. made) \cup {None}] /\ bound'[t] = c
        /\ \A u \in Threads \ {t} : bound'[u] = bound[u]
    BY <1>1 DEF Typed
  <1>5. Typed'
    BY <1>1, <1>3, <1>4 DEF Typed
  <1>6. timer.pc = "unbind" => timer.id \in Threads \ {t}
    BY <1>1 DEF Inv, Unbound
  <1>7. Unbound'
    BY <1>1, <1>2, <1>3, <1>4, <1>6 DEF Inv, Unbound
  <1>8. ASSUME ~ overlapped PROVE Kept'
    <2>1. Kept
      BY <1>8 DEF Inv
    <2>2. free # << >> /\ c = Head(free) /\ free \in Seq(1 .. made)
      BY <1>1, <2>1 DEF Kept, At, Typed, c
    <2>3. \A u \in Threads \ {t} : ~ Taking(u)
      BY <1>1, <2>1 DEF Kept, Taking, At
    <2>4. Rest = Range(free)
      BY <1>1, <2>3 DEF Rest, At, Taking
    <2>5. Rest' = Range(Tail(free))
      BY <1>1, <1>2, <1>3 DEF Rest, At
    <2>6. Range(free) = {c} \cup Range(Tail(free)) /\ c \in 1 .. made
      BY <2>2, ListRange
    <2>7. c # None
      BY <2>6, PoolAssumption DEF PoolAssumption, Inv, Typed
    <2>8. BoundTo(Threads)' = BoundTo(Threads) \cup {c}
      BY <1>1, <1>4, <2>7 DEF BoundTo, Bound
    <2>9. timer.pc = "unbind" =>
             /\ BoundTo(Threads \ {timer.id})' = BoundTo(Threads \ {timer.id}) \cup {c}
             /\ bound'[timer.id] = bound[timer.id]
      BY <1>1, <1>4, <1>6, <2>7 DEF BoundTo, Bound
    <2>10. \A u \in Threads : Taking(u)' => u = t
      BY <1>3, <2>3 DEF Taking
    <2>11. \A u \in Threads \ {t} : ~ (At(u, "bind") \/ At(u, "remove"))'
      BY <1>3, <2>3 DEF Taking, At
    <2> QED BY <1>1, <1>2, <1>3, <2>1, <2>2, <2>4, <2>5, <2>6, <2>8, <2>9, <2>10, <2>11
            DEF Kept, At
  <1> QED BY <1>1, <1>5, <1>7, <1>8 DEF Inv

LEMMA InvDropFirst == ASSUME Inv, NEW t \in Threads, DropFirst(t) PROVE Inv'
  <1>1. /\ UNCHANGED << made, bound, grouped, contActive, timer, overlapped >>
        /\ At(t, "remove") /\ Typed
    BY DEF DropFirst, Inv
  <1>2. CASE free = << >>
    <2>1. PICK r \in ThreadState :
             /\ thread' = [thread EXCEPT ![t] = r]
             /\ r.pc \in {"idle", "release"} /\ r.conn = None
      BY <1>1, <1>2, ServedTyped DEF DropFirst, Throw
    <2>2. lock' \in Threads \cup {None} /\ contActive' \in Int /\ UNCHANGED free
      BY <1>1, <1>2 DEF DropFirst, Typed
    <2>3. overlapped
      BY <1>1, <1>2 DEF Inv, Kept, At
    <2> QED BY <1>1, <2>1, <2>2, <2>3, Quiet
  <1>3. CASE free # << >>
    <2>1. free' = Tail(free) /\ Goto(t, "count") /\ UNCHANGED lock
      BY <1>3 DEF DropFirst
    <2>2. PICK r \in ThreadState :
             thread' = [thread EXCEPT ![t] = r] /\ r.pc = "count" /\ r.conn = thread[t].conn
      BY <1>1, <2>1, GotoTyped
    <2>3. /\ thread' \in [Threads -> ThreadState]
          /\ \A u \in Threads : thread'[u].conn \in (1 .. made') \cup {None}
          /\ thread'[t] = r
          /\ \A u \in Threads \ {t} : thread'[u] = thread[u]
      BY <1>1, <2>2, Moved DEF Typed
    <2>4. free' \in Seq(1 .. made)
      BY <1>1, <1>3, <2>1, ListRange DEF Typed
    <2>5. Typed'
      BY <1>1, <2>1, <2>3, <2>4 DEF Typed
    <2>6. Unbound'
      BY <1>1, <2>2, <2>3 DEF Inv, Unbound
    <2>7. ASSUME ~ overlapped PROVE Kept'
      <3>1. Kept
        BY <2>7 DEF Inv
      <3>2. \A u \in Threads : ~ Taking(u)'
        BY <1>1, <2>2, <2>3, <3>1 DEF Kept, Taking, At
      <3>3. Rest = Range(Tail(free))
        BY <1>1 DEF Rest
      <3>4. Rest' = Range(free')
        BY <3>2 DEF Rest, Taking, At
      <3>5. BoundTo(Threads)' = BoundTo(Threads)
        BY <1>1 DEF BoundTo, Bound
      <3>6. BoundTo(Threads \ {timer.id})' = BoundTo(Threads \ {timer.id})
        BY <1>1 DEF BoundTo, Bound
      <3>7. \A u \in Threads : ~ (At(u, "bind") \/ At(u, "remove"))'
        BY <3>2 DEF Taking, At
      <3> QED BY <1>1, <2>1, <3>1, <3>2, <3>3, <3>4, <3>5, <3>6, <3>7 DEF Kept, At
    <2> QED BY <1>1, <2>5, <2>6, <2>7 DEF Inv
  <1> QED BY <1>2, <1>3

LEMMA InvNewConnection == ASSUME Inv, NEW t \in Threads, NewConnection(t) PROVE Inv'
  <1> DEFINE c == made + 1
  <1>1. /\ UNCHANGED << free, grouped, contActive, lock, timer, overlapped >>
        /\ At(t, "lock") /\ Typed /\ made' = c /\ Goto(t, "count")
        /\ bound' = [bound EXCEPT ![t] = c] /\ bound[t] = None
    BY DEF NewConnection, Inv, Unbound, At
  <1>2. PICK r \in ThreadState :
           thread' = [thread EXCEPT ![t] = r] /\ r.pc = "count" /\ r.conn = thread[t].conn
    BY <1>1, GotoTyped
  <1>3. c \in Nat /\ made \in Nat /\ 1 .. c = (1 .. made) \cup {c} /\ made <= c
    BY <1>1 DEF Typed
  <1> HIDE DEF c
  <1>4. /\ thread' \in [Threads -> ThreadState]
        /\ \A u \in Threads : thread'[u].conn \in (1 .. made') \cup {None}
        /\ thread'[t] = r
        /\ \A u \in Threads \ {t} : thread'[u] = thread[u]
    BY <1>1, <1>2, <1>3, Moved DEF Typed
  <1>5. /\ bound' \in [Threads -> (1 .. made') \cup {None}] /\ bound'[t] = c
        /\ \A u \in Threads \ {t} : bound'[u] = bound[u]
    BY <1>1, <1>3 DEF Typed
  <1>6. free' \in Seq(1 .. made')
    <2>1. free \in [1 .. Len(free) -> 1 .. made] /\ Len(free) \in Nat
      BY <1>1 DEF Typed
    <2>2. \A i \in 1 .. Len(free) : free[i] \in 1 .. c
      BY <1>3, <2>1
    <2>3. free \in [1 .. Len(free) -> 1 .. c]
      BY <2>1, <2>2
    <2> DEFINE S == 1 .. c
    <2>4. free \in [1 .. Len(free) -> S]
      BY <2>3
    <2> HIDE DEF S
    <2>5. free \in Seq(S)
      BY <2>1, <2>4
    <2> QED BY <1>1, <2>5 DEF S
  <1>7. Typed'
    BY <1>1, <1>3, <1>4, <1>5, <1>6 DEF Typed
  <1>8. timer.pc = "unbind" => timer.id \in Threads \ {t}
    BY <1>1 DEF Inv, Unbound
  <1>9. Unbound'
    BY <1>1, <1>2, <1>4, <1>5, <1>8 DEF Inv, Unbound
  <1>10. ASSUME ~ overlapped PROVE Kept'
    <2>1. Kept
      BY <1>10 DEF Inv
    <2>2. \A u \in Threads : (At(u, "remove"))' <=> At(u, "remove")
      BY <1>1, <1>2, <1>4 DEF At
    <2>3. Rest' = Rest
      BY <1>1, <2>2 DEF Rest
    <2>4. c # None
      BY <1>3, PoolAssumption DEF PoolAssumption
    <2>5. BoundTo(Threads)' = BoundTo(Threads) \cup {c}
      BY <1>1, <1>5, <2>4 DEF BoundTo, Bound
    <2>6. timer.pc = "unbind" =>
             /\ BoundTo(Threads \ {timer.id})' = BoundTo(Threads \ {timer.id}) \cup {c}
             /\ bound'[timer.id] = bound[timer.id]
      BY <1>1, <1>5, <1>8, <2>4 DEF BoundTo, Bound
    <2>7. \A u \in Threads : Taking(u)' => Taking(u)
      BY <1>2, <1>4 DEF Taking
    <2>8. \A u \in Threads : thread'[u].pc \in {"bind", "remove"} => thread'[u] = thread[u]
      BY <1>2, <1>4
    <2>9. 1 .. made' \subseteq Rest' \cup BoundTo(Threads)'
      BY <1>1, <1>3, <2>1, <2>3, <2>5 DEF Kept
    <2>10. timer'.pc = "unbind" =>
              bound'[timer'.id] \in Rest' \cup BoundTo(Threads \ {timer.id})'
      <3>1. timer' = timer
        BY <1>1
      <3>2. CASE timer.pc = "unbind"
        <4>1. /\ bound[timer.id] \in Rest \cup BoundTo(Threads \ {timer.id})
              /\ BoundTo(Threads \ {timer.id})' = BoundTo(Threads \ {timer.id}) \cup {c}
              /\ bound'[timer.id] = bound[timer.id]
          BY <2>1, <2>6, <3>2 DEF Kept
        <4> QED BY <2>3, <3>1, <4>1
      <3> QED BY <3>1, <3>2
    <2>11. \A u \in Threads : (At(u, "bind"))' => thread'[u].conn = Head(free')
      BY <1>1, <2>1, <2>8 DEF Kept, At
    <2>12. \A u \in Threads : thread'[u].pc \in {"bind", "remove"} => free' # << >>
      BY <1>1, <2>1, <2>8 DEF Kept
    <2> QED BY <1>1, <2>1, <2>7, <2>9, <2>10, <2>11, <2>12 DEF Kept
  <1> QED BY <1>1, <1>7, <1>9, <1>10 DEF Inv

(* A connection that is added to freeConnection stays bound for the moment. *)
LEMMA MoreFree ==
  ASSUME Inv, NEW c \in 1 .. made, free' = Append(free, c),
         \A u \in Threads : (At(u, "remove"))' <=> At(u, "remove")
  PROVE  /\ free' \in Seq(1 .. made) /\ free' # << >>
         /\ free # << >> => Head(free') = Head(free)
         /\ overlapped \/ Rest' = Rest \cup {c}
  <1>1. free \in Seq(1 .. made)
    BY DEF Inv, Typed
  <1>2. /\ Append(free, c) \in Seq(1 .. made) /\ Append(free, c) # << >>
        /\ Range(Append(free, c)) = Range(free) \cup {c}
        /\ free # << >> => /\ Head(Append(free, c)) = Head(free)
                           /\ Range(Tail(Append(free, c))) = Range(Tail(free)) \cup {c}
    <2> DEFINE S == 1 .. made
    <2>1. free \in Seq(S) /\ c \in S
      BY <1>1
    <2> HIDE DEF S
    <2>2. /\ Append(free, c) \in Seq(S) /\ Append(free, c) # << >>
          /\ Range(Append(free, c)) = Range(free) \cup {c}
          /\ free # << >> => /\ Head(Append(free, c)) = Head(free)
                             /\ Range(Tail(Append(free, c))) = Range(Tail(free)) \cup {c}
      BY <2>1, ListRange
    <2> QED BY <2>2 DEF S
  <1>3. overlapped \/ (\A u \in Threads : At(u, "remove") => free # << >>)
    BY DEF Inv, Kept, At
  <1>4. ASSUME ~ overlapped PROVE Rest' = Rest \cup {c}
    <2>1. CASE \E u \in Threads : At(u, "remove")
      <3>1. Rest = Range(Tail(free)) /\ Rest' = Range(Tail(free'))
        BY <2>1 DEF Rest
      <3> QED BY <1>2, <1>3, <1>4, <2>1, <3>1
    <2>2. CASE ~ \E u \in Threads : At(u, "remove")
      <3>1. Rest = Range(free) /\ Rest' = Range(free')
        BY <2>2 DEF Rest
      <3> QED BY <1>2, <3>1
    <2> QED BY <2>1, <2>2
  <1> QED BY <1>2, <1>4

LEMMA InvRelease == ASSUME Inv, NEW t \in Threads, Release(t) PROVE Inv'
  <1>1. /\ UNCHANGED << made, bound, grouped, contActive, lock, timer, overlapped >>
        /\ At(t, "release") /\ Typed
    BY DEF Release, Inv
  <1>2. CASE bound[t] = None
    <2>1. thread' = [thread EXCEPT ![t] = Resting] /\ UNCHANGED free
      BY <1>2 DEF Release
    <2> QED BY <1>1, <2>1, RestingTyped, Quiet DEF At, Typed
  <1>3. CASE bound[t] # None
    <2> DEFINE c == bound[t]
    <2>1. c \in 1 .. made /\ free' = Append(free, c) /\ Goto(t, "uncount")
      BY <1>1, <1>3 DEF Release, Typed
    <2>2. PICK r \in ThreadState :
             thread' = [thread EXCEPT ![t] = r] /\ r.pc = "uncount" /\ r.conn = thread[t].conn
      BY <1>1, <2>1, GotoTyped
    <2>3. /\ thread' \in [Threads -> ThreadState]
          /\ \A u \in Threads : thread'[u].conn \in (1 .. made') \cup {None}
          /\ thread'[t] = r
          /\ \A u \in Threads \ {t} : thread'[u] = thread[u]
      BY <1>1, <2>2, Moved DEF Typed
    <2>4. \A u \in Threads : (At(u, "remove"))' <=> At(u, "remove")
      BY <1>1, <2>2, <2>3 DEF At
    <2> HIDE DEF c
    <2>5. /\ free' \in Seq(1 .. made) /\ free' # << >>
          /\ free # << >> => Head(free') = Head(free)
          /\ overlapped \/ Rest' = Rest \cup {c}
      BY <2>1, <2>4, MoreFree
    <2>6. Typed'
      BY <1>1, <2>3, <2>5 DEF Typed
    <2>7. Unbound'
      BY <1>1, <2>2, <2>3 DEF Inv, Unbound
    <2>8. ASSUME ~ overlapped PROVE Kept'
      <3>1. Kept
        BY <2>8 DEF Inv
      <3>2. BoundTo(Threads)' = BoundTo(Threads)
        BY <1>1 DEF BoundTo, Bound
      <3>3. BoundTo(Threads \ {timer.id})' = BoundTo(Threads \ {timer.id})
        BY <1>1 DEF BoundTo, Bound
      <3>4. \A u \in Threads : Taking(u)' => Taking(u)
        BY <2>2, <2>3 DEF Taking
      <3>5. \A u \in Threads : thread'[u].pc \in {"bind", "remove"} => thread'[u] = thread[u]
        BY <2>2, <2>3
      <3>6. \A u \in Threads : (At(u, "bind"))' => thread'[u].conn = Head(free')
        BY <2>5, <3>1, <3>5 DEF Kept, At
      <3> QED BY <1>1, <2>5, <2>8, <3>1, <3>2, <3>3, <3>4, <3>6 DEF Kept
    <2> QED BY <1>1, <2>6, <2>7, <2>8 DEF Inv
  <1> QED BY <1>2, <1>3

(* Waiting threads are woken and hold nothing either way.                   *)
LEMMA InvNotifyAll == ASSUME Inv, NEW t \in Threads, NotifyAll(t) PROVE Inv'
  <1>1. /\ UNCHANGED << made, free, bound, grouped, contActive, lock, timer, overlapped >>
        /\ At(t, "notify") /\ Typed
    BY DEF NotifyAll, pool, Inv
  <1>2. ASSUME NEW u \in Threads
        PROVE  /\ thread'[u] \in ThreadState
               /\ thread'[u].conn \in {None, thread[u].conn}
               /\ \/ thread'[u] = thread[u]
                  \/ thread'[u].pc = "idle" /\ thread[u].pc = "notify"
                  \/ thread'[u].pc = "woken" /\ thread[u].pc = "wait"
    <2>1. thread[u] \in ThreadState
      BY <1>1 DEF Typed
    <2>2. CASE u = t
      BY <1>1, <2>2, RestingTyped DEF NotifyAll, At
    <2>3. CASE u # t /\ At(u, "wait")
      <3> DEFINE r == [thread[u] EXCEPT !.pc = "woken"]
      <3>1. thread'[u] = r
        BY <2>3 DEF NotifyAll
      <3>2. r \in ThreadState /\ r.pc = "woken" /\ r.conn = thread[u].conn
        BY <2>1 DEF ThreadState
      <3> HIDE DEF r
      <3> QED BY <2>3, <3>1, <3>2 DEF At
    <2>4. CASE u # t /\ ~ At(u, "wait")
      BY <2>1, <2>4 DEF NotifyAll
    <2> QED BY <2>2, <2>3, <2>4
  <1>3. Typed'
    <2>1. thread' \in [Threads -> ThreadState]
      <3>1. thread' = [u \in Threads |-> thread'[u]]
        BY DEF NotifyAll
      <3> QED BY <1>2, <3>1
    <2>2. \A u \in Threads : thread'[u].conn \in (1 .. made') \cup {None}
      BY <1>1, <1>2 DEF Typed
    <2> QED BY <1>1, <2>1, <2>2 DEF Typed
  <1>4. Unbound'
    BY <1>1, <1>2 DEF Inv, Unbound
  <1>5. ASSUME ~ overlapped PROVE Kept'
    <2>1. Kept
      BY <1>5 DEF Inv
    <2>2. \A u \in Threads : (At(u, "remove"))' <=> At(u, "remove")
      BY <1>2 DEF At
    <2>3. Rest' = Rest
      BY <1>1, <2>2 DEF Rest
    <2>4. BoundTo(Threads)' = BoundTo(Threads)
      BY <1>1 DEF BoundTo, Bound
    <2>5. BoundTo(Threads \ {timer.id})' = BoundTo(Threads \ {timer.id})
      BY <1>1 DEF BoundTo, Bound
    <2>6. \A u \in Threads : Taking(u)' => Taking(u)
      BY <1>2 DEF Taking
    <2>7. \A u \in Threads : thread'[u].pc \in {"bind", "remove"} => thread'[u] = thread[u]
      BY <1>2
    <2> QED BY <1>1, <2>1, <2>3, <2>4, <2>5, <2>6, <2>7 DEF Kept, At
  <1> QED BY <1>1, <1>3, <1>4, <1>5 DEF Inv

-----------------------------------------------------------------------------
(* The timer frees a connection before it unbinds the thread.               *)
LEMMA InvCheckTask ==
  ASSUME Inv, CheckBegin \/ ScanBegin \/ CheckEnd \/ \E t \in Threads : Collect(t)
  PROVE  Inv'
  <1>1. UNCHANGED << made, free, bound, grouped, contActive, lock, thread, overlapped >>
    BY DEF CheckBegin, Collect, ScanBegin, CheckEnd, pool
  <1>2. timer' \in TimerState /\ timer'.pc # "unbind"
    <2>1. timer \in TimerState /\ Bound \subseteq Threads /\ Alive \subseteq Threads
      BY DEF Inv, Typed, Bound, Alive
    <2>2. CASE CheckBegin
      <3> DEFINE todo == IF grouped THEN Alive ELSE {}
      <3>1. \/ timer' = [Sleeping EXCEPT !.pc = "collect", !.todo = todo]
            \/ timer' = [Sleeping EXCEPT !.pc = "ended"]
        BY <2>2 DEF CheckBegin
      <3>2. todo \in SUBSET Threads /\ Sleeping \in TimerState
        BY <2>1, RestingTyped
      <3> HIDE DEF todo
      <3> QED BY <3>1, <3>2 DEF TimerState
    <2>3. CASE \E t \in Threads : Collect(t)
      <3>1. PICK t \in Threads : Collect(t)
        BY <2>3
      <3> DEFINE todo == timer.todo \ {t}
                 seen == timer.seen \cup ({t} \cap Bound \cap Alive)
      <3>2. timer' = [timer EXCEPT !.todo = todo, !.seen = seen] /\ timer.pc = "collect"
        BY <3>1 DEF Collect
      <3>3. todo \in SUBSET Threads /\ seen \in SUBSET Threads
        BY <2>1 DEF TimerState
      <3> HIDE DEF todo, seen
      <3> QED BY <2>1, <3>2, <3>3 DEF TimerState
    <2>4. CASE ScanBegin
      BY <2>1, <2>4 DEF ScanBegin, TimerState
    <2>5. CASE CheckEnd
      BY <2>5, RestingTyped DEF CheckEnd
    <2> QED BY <2>2, <2>3, <2>4, <2>5
  <1>3. Typed'
    BY <1>1, <1>2 DEF Inv, Typed
  <1>4. Unbound'
    BY <1>1, <1>2 DEF Inv, Unbound
  <1>5. ASSUME Kept PROVE Kept'
    BY <1>1, <1>2, <1>5 DEF Kept, Rest, BoundTo, Bound, Taking, At
  <1> QED BY <1>1, <1>3, <1>4, <1>5 DEF Inv

LEMMA InvReclaim == ASSUME Inv, NEW t \in Threads, Reclaim(t) PROVE Inv'
  <1> DEFINE c == bound[t]
             r == [timer EXCEPT !.pc = "unbind", !.id = t, !.n = contActive]
  <1>1. /\ UNCHANGED << made, bound, grouped, contActive, lock, thread, overlapped >>
        /\ Typed /\ t \in Bound /\ timer' = r /\ free' = Append(free, c) /\ c \in 1 .. made
    BY DEF Reclaim, Inv, Typed, Bound
  <1>2. r \in TimerState /\ r.pc = "unbind" /\ r.id = t
    BY <1>1 DEF Typed, TimerState
  <1> HIDE DEF r, c
  <1>3. /\ free' \in Seq(1 .. made) /\ free' # << >>
        /\ free # << >> => Head(free') = Head(free)
        /\ overlapped \/ Rest' = Rest \cup {c}
    BY <1>1, MoreFree DEF At
  <1>4. Typed'
    BY <1>1, <1>2, <1>3 DEF Typed
  <1>5. Unbound'
    BY <1>1, <1>2 DEF Inv, Unbound, Bound
  <1>6. ASSUME ~ overlapped PROVE Kept'
    <2>1. Kept
      BY <1>6 DEF Inv
    <2>2. BoundTo(Threads)' = BoundTo(Threads)
      BY <1>1 DEF BoundTo, Bound
    <2>3. timer'.pc = "unbind" => bound'[timer'.id] = c
      BY <1>1, <1>2 DEF c
    <2>4. \A u \in Threads : (At(u, "bind"))' => thread'[u].conn = Head(free')
      BY <1>1, <1>3, <2>1 DEF Kept, At
    <2> QED BY <1>1, <1>3, <1>6, <2>1, <2>2, <2>3, <2>4 DEF Kept, Taking
  <1> QED BY <1>1, <1>4, <1>5, <1>6 DEF Inv

LEMMA InvUnbind == ASSUME Inv, Unbind PROVE Inv'
  <1> DEFINE t == timer.id
             zero == 0
             left == timer.must \ {timer.id}
             r == [timer EXCEPT !.pc = "scan", !.must = left, !.id = None, !.n = zero]
  <1>1. /\ UNCHANGED << made, free, grouped, lock, thread, overlapped >>
        /\ Typed /\ timer.pc = "unbind" /\ t \in Threads /\ bound' = [bound EXCEPT ![t] = None]
        /\ contActive' = timer.n - 1 /\ timer' = r
    BY DEF Unbind, Inv, Unbound
  <1>2. r \in TimerState /\ r.pc = "scan"
    <2>1. timer \in TimerState /\ left \in SUBSET Threads /\ zero \in Int
      BY <1>1 DEF Typed, TimerState
    <2> HIDE DEF left, zero
    <2> QED BY <2>1 DEF TimerState
  <1> HIDE DEF r
  <1>3. /\ bound' \in [Threads -> (1 .. made) \cup {None}] /\ bound'[t] = None
        /\ \A u \in Threads \ {t} : bound'[u] = bound[u]
    BY <1>1 DEF Typed
  <1>4. contActive' \in Int
    BY <1>1 DEF Typed, TimerState
  <1>5. Typed'
    BY <1>1, <1>2, <1>3, <1>4 DEF Typed
  <1>6. Unbound'
    BY <1>1, <1>2, <1>3 DEF Inv, Unbound
  <1>7. ASSUME ~ overlapped PROVE Kept'
    <2>1. Kept
      BY <1>7 DEF Inv
    <2>2. Rest' = Rest
      BY <1>1 DEF Rest, At
    <2>3. BoundTo(Threads)' = BoundTo(Threads \ {t})
      BY <1>3 DEF BoundTo, Bound
    <2>4. BoundTo(Threads) \subseteq BoundTo(Threads \ {t}) \cup {bound[t]}
      BY DEF BoundTo
    <2>5. bound[t] \in Rest \cup BoundTo(Threads \ {t})
      BY <1>1, <2>1 DEF Kept
    <2> HIDE DEF t
    <2>6. 1 .. made' \subseteq Rest' \cup BoundTo(Threads)'
      BY <1>1, <2>1, <2>2, <2>3, <2>4, <2>5 DEF Kept
    <2> QED BY <1>1, <1>2, <2>1, <2>6 DEF Kept, Taking, At
  <1> QED BY <1>1, <1>5, <1>6, <1>7 DEF Inv

LEMMA InvStep == Inv /\ [Next]_vars => Inv'
  <1> SUFFICES ASSUME Inv, [Next]_vars PROVE Inv'
    OBVIOUS
  <1>1. ASSUME UNCHANGED vars PROVE Inv'
    BY <1>1 DEF vars, pool, Inv, Typed, Unbound, Kept, Rest, BoundTo, Bound, Taking, At
  <1>2. ASSUME NEW t \in Threads, Get(t) PROVE Inv'
    BY <1>2, InvLookup, InvTakeFirst, InvBind, InvDropFirst, InvNewConnection, InvAsking,
       InvCounting DEF Get
  <1>3. ASSUME NEW t \in Threads, GiveBack(t) PROVE Inv'
    BY <1>3, InvRelease, InvCounting, InvNotifyAll DEF GiveBack
  <1>4. ASSUME NEW t \in Threads, (\E op \in Operations : Begin(t, op)) \/ EndThread(t)
        PROVE  Inv'
    BY <1>4, InvCounting
  <1>5. ASSUME CheckBegin \/ CheckStep PROVE Inv'
    BY <1>5, InvCheckTask, InvReclaim, InvUnbind DEF CheckStep
  <1> QED BY <1>1, <1>2, <1>3, <1>4, <1>5 DEF Next

-----------------------------------------------------------------------------
(* The variables of the pool keep their types: what is free or bound is a   *)
(* connection that was made.                                                *)
THEOREM TypeCorrect == Spec => []TypeOK
  BY InitInv, InvStep, InvTypeOK, PTL DEF Spec

(* For every number of threads, operations and runs of the timer, a         *)
(* connection is out of reach only after two threads were between size()    *)
(* and remove(0) at once (ConnectionPool.java:121-134, 269-284).            *)
THEOREM NoConnectionLostSafe == Spec => []NoConnectionLost
  BY InitInv, InvStep, InvNoConnectionLost, PTL DEF Spec

-----------------------------------------------------------------------------
(* The threads about to make a connection while all there are are bound.    *)
Locked == {t \in Threads : At(t, "lock")}

(* Each of them found every connection bound to another thread, so that     *)
(* they and the connections are together no more than the threads.          *)
Few ==
    /\ Locked # {} => made + Cardinality(Locked) <= Cardinality(Threads)
    /\ made <= InitConnections \/ made <= Cardinality(Threads)

(* The threads bound are at least as many as the connections bound to them. *)
LEMMA BoundCount ==
  ASSUME Typed, 1 .. made \subseteq BoundTo(Threads)
  PROVE  IsFiniteSet(Bound) /\ Cardinality(Bound) \in Nat /\ made <= Cardinality(Bound)
  <1> DEFINE f == [t \in Bound |-> bound[t]]
             T == BoundTo(Threads)
  <1>1. IsFiniteSet(Bound) /\ Cardinality(Bound) \in Nat
    BY PoolAssumption, FS_Subset, FS_CardinalityType DEF PoolAssumption, Bound
  <1>2. T = {bound[t] : t \in Bound}
    BY DEF BoundTo, Bound
  <1>3. f \in Surjection(Bound, T)
    BY <1>2 DEF Surjection
  <1> HIDE DEF f, T
  <1>4. IsFiniteSet(T) /\ Cardinality(T) <= Cardinality(Bound)
    BY <1>1, <1>3, FS_Surjection
  <1>5. Cardinality(1 .. made) = made /\ made \in Nat
    BY FS_Interval DEF Typed
  <1>6. Cardinality(1 .. made) <= Cardinality(T)
    BY <1>4, FS_Subset DEF T
  <1>7. Cardinality(T) \in Nat
    BY <1>4, FS_CardinalityType
  <1> QED BY <1>1, <1>4, <1>5, <1>6, <1>7

LEMMA LockedFinite ==
  /\ IsFiniteSet(Threads) /\ Cardinality(Threads) \in Nat
  /\ IsFiniteSet(Locked) /\ Cardinality(Locked) \in Nat
  /\ Cardinality(Locked) <= Cardinality(Threads)
  BY PoolAssumption, FS_Subset, FS_CardinalityType DEF PoolAssumption, Locked

LEMMA FewLookup ==
  ASSUME Inv, ~ overlapped, Few, NEW t \in Threads, Lookup(t), ~ overlapped'
  PROVE  Few'
  <1>1. /\ Typed /\ Unbound /\ Kept /\ At(t, "lookup") /\ UNCHANGED << made, bound, free >>
    BY DEF Inv, Lookup, pool
  <1>2. \A u \in Threads \ {t} : thread'[u] = thread[u]
    BY <1>1 DEF Lookup, Goto, Typed
  <1>3. CASE bound[t] # None \/ free # << >>
    <2>1. ~ At(t, "lock")'
      <3>1. thread[t] \in ThreadState
        BY <1>1 DEF Typed
      <3> QED BY <1>1, <1>3, <3>1 DEF Lookup, Goto, Typed, At, ThreadState
    <2>2. Locked' = Locked
      BY <1>1, <1>2, <2>1 DEF Locked, At
    <2> QED BY <1>1, <2>2 DEF Few
  <1>4. CASE bound[t] = None /\ free = << >>
    <2>1. Locked' \subseteq Locked \cup {t}
      BY <1>2 DEF Locked, At
    <2>2. Rest = {}
      <3>1. ~ \E u \in Threads : At(u, "remove")
        BY <1>1, <1>4 DEF Kept, At
      <3> QED BY <1>4, <3>1 DEF Rest, Range
    <2>3. IsFiniteSet(Bound) /\ Cardinality(Bound) \in Nat /\ made <= Cardinality(Bound)
      BY <1>1, <2>2, BoundCount DEF Kept
    <2>4. Bound \cap (Locked \cup {t}) = {}
      BY <1>1, <1>4 DEF Bound, Locked, Unbound, At
    <2> DEFINE L == Locked \cup {t}
    <2>5. IsFiniteSet(L) /\ Cardinality(L) \in Nat
      BY LockedFinite, FS_AddElement, FS_CardinalityType
    <2>6. L \subseteq Threads /\ Bound \subseteq Threads /\ Bound \cap L = {} /\ Locked' \subseteq L
      BY <2>1, <2>4 DEF Locked, Bound
    <2> HIDE DEF L
    <2>7. Cardinality(Bound \cup L) = Cardinality(Bound) + Cardinality(L)
      <3>1. Cardinality(Bound \cup L) = Cardinality(Bound) + Cardinality(L) - Cardinality(Bound \cap L)
        BY <2>3, <2>5, FS_Union
      <3>2. Cardinality(Bound \cap L) = 0
        BY <2>6, FS_EmptySet
      <3> QED BY <2>3, <2>5, <3>1, <3>2
    <2>8. Cardinality(Bound \cup L) <= Cardinality(Threads)
      BY <2>6, LockedFinite, FS_Subset
    <2>9. Cardinality(Locked') <= Cardinality(L) /\ Cardinality(Locked') \in Nat
      BY <2>5, <2>6, FS_Subset, FS_CardinalityType
    <2>10. made + Cardinality(Locked') <= Cardinality(Threads)
      BY <1>1, <2>3, <2>5, <2>7, <2>8, <2>9, LockedFinite DEF Typed
    <2> QED BY <1>1, <2>10 DEF Few
  <1> QED BY <1>3, <1>4

LEMMA FewNew ==
  ASSUME Inv, Few, NEW t \in Threads, NewConnection(t)
  PROVE  Few'
  <1>1. Typed /\ At(t, "lock") /\ made' = made + 1 /\ made \in Nat /\ thread[t] \in ThreadState
    BY DEF Inv, NewConnection, Typed
  <1>2. /\ ~ At(t, "lock")'
        /\ \A u \in Threads \ {t} : thread'[u] = thread[u]
    BY <1>1 DEF NewConnection, Goto, Typed, At, ThreadState
  <1>3. Locked' = Locked \ {t} /\ t \in Locked
    BY <1>1, <1>2 DEF Locked, At
  <1>4. Cardinality(Locked') = Cardinality(Locked) - 1
    BY <1>3, LockedFinite, FS_RemoveElement
  <1>5. Cardinality(Locked') \in Nat
    BY <1>3, LockedFinite, FS_RemoveElement, FS_CardinalityType
  <1>6. made + Cardinality(Locked) <= Cardinality(Threads)
    BY <1>3 DEF Few
  <1>7. made' + Cardinality(Locked') <= Cardinality(Threads) /\ made' <= Cardinality(Threads)
    BY <1>1, <1>4, <1>5, <1>6, LockedFinite
  <1> QED BY <1>7 DEF Few

(* No other step makes a connection or brings a thread to that point.       *)
LEMMA OtherThreads ==
  ASSUME Inv, [Next]_vars, \A t \in Threads : ~ Lookup(t) /\ ~ NewConnection(t)
  PROVE  UNCHANGED << made, overlapped >> /\ Locked' \subseteq Locked
  <1>1. thread \in [Threads -> ThreadState]
    BY DEF Inv, Typed
  <1> SUFFICES UNCHANGED << made, overlapped >>
               /\ \A u \in Threads : thread'[u].pc = "lock" => thread[u].pc = "lock"
    BY DEF Locked, At
  <1> DEFINE Goal == UNCHANGED << made, overlapped >>
                     /\ \A u \in Threads : thread'[u].pc = "lock" => thread[u].pc = "lock"
  <1>2. ASSUME NEW t \in Threads, (\E op \in Operations : Begin(t, op)) \/ EndThread(t) PROVE Goal
    BY <1>1, <1>2 DEF Begin, EndThread, Goto, pool, ThreadState
  <1>3. ASSUME NEW t \in Threads, Served(t), UNCHANGED << made, overlapped >> PROVE Goal
    BY <1>1, <1>3 DEF Served, Resting
  <1>4. ASSUME NEW t \in Threads, TakeFirst(t) PROVE Goal
    <2>1. CASE Throw(t)
      BY <1>3, <1>4, <2>1 DEF TakeFirst, Throw
    <2>2. CASE ~ Throw(t)
      BY <1>1, <1>4, <2>2 DEF TakeFirst, ThreadState
    <2> QED BY <2>1, <2>2
  <1>5. ASSUME NEW t \in Threads, DropFirst(t) PROVE Goal
    <2>1. CASE Throw(t)
      BY <1>3, <1>5, <2>1 DEF DropFirst, Throw
    <2>2. CASE ~ Throw(t)
      BY <1>1, <1>5, <2>2 DEF DropFirst, Goto, ThreadState
    <2> QED BY <2>1, <2>2
  <1>6. ASSUME NEW t \in Threads, NewConnectionFails(t) PROVE Goal
    BY <1>3, <1>6 DEF NewConnectionFails, Throw
  <1>7. ASSUME NEW t \in Threads, WriteCount(t) PROVE Goal
    <2>1. CASE thread[t].depth = 0
      BY <1>3, <1>7, <2>1 DEF WriteCount
    <2>2. CASE thread[t].depth # 0
      BY <1>1, <1>7, <2>2 DEF WriteCount, ThreadState
    <2> QED BY <2>1, <2>2
  <1>8. ASSUME NEW t \in Threads, Bind(t) \/ Wait(t) \/ Retry(t) \/ ReadCount(t) PROVE Goal
    BY <1>1, <1>8 DEF Bind, Wait, Retry, ReadCount, Goto, pool, ThreadState
  <1>9. ASSUME NEW t \in Threads, Release(t) \/ ReadUncount(t) \/ WriteUncount(t) PROVE Goal
    <2>1. CASE Release(t)
      BY <1>1, <2>1 DEF Release, Goto, Resting, ThreadState
    <2>2. CASE ReadUncount(t) \/ WriteUncount(t)
      BY <1>1, <2>2 DEF ReadUncount, WriteUncount, pool, ThreadState
    <2> QED BY <1>9, <2>1, <2>2
  <1>10. ASSUME NEW t \in Threads, NotifyAll(t) PROVE Goal
    BY <1>1, <1>10 DEF NotifyAll, Resting, pool, ThreadState
  <1>11. ASSUME CheckBegin \/ CheckStep PROVE Goal
    BY <1>11 DEF CheckStep, CheckBegin, Collect, ScanBegin, Reclaim, Unbind, CheckEnd, pool
  <1>12. ASSUME UNCHANGED vars PROVE Goal
    BY <1>12 DEF vars, pool
  <1> HIDE DEF Goal
  <1>13. Goal
    BY <1>2, <1>4, <1>5, <1>6, <1>7, <1>8, <1>9, <1>10, <1>11, <1>12 DEF Next, Get, GiveBack
  <1> QED BY <1>13 DEF Goal

LEMMA FewStep ==
  ASSUME Inv, overlapped \/ Few, [Next]_vars
  PROVE  (overlapped \/ Few)'
  <1>1. overlapped => overlapped'
    <2>1. CASE \E t \in Threads : Lookup(t)
      BY <2>1 DEF Lookup
    <2>2. CASE \E t \in Threads : NewConnection(t)
      BY <2>2 DEF NewConnection
    <2> QED BY <2>1, <2>2, OtherThreads
  <1>2. CASE \A t \in Threads : ~ Lookup(t) /\ ~ NewConnection(t)
    <2> SUFFICES ASSUME ~ overlapped PROVE Few'
      BY <1>1
    <2>1. made' = made /\ Locked' \subseteq Locked /\ made \in Nat
      BY <1>2, OtherThreads DEF Inv, Typed
    <2>2. Cardinality(Locked') <= Cardinality(Locked) /\ Cardinality(Locked') \in Nat
      BY <2>1, LockedFinite, FS_Subset, FS_CardinalityType
    <2>3. Locked' # {} => made' + Cardinality(Locked') <= Cardinality(Threads)
      BY <2>1, <2>2, LockedFinite DEF Few
    <2> QED BY <2>1, <2>3 DEF Few
  <1> QED BY <1>1, <1>2, FewLookup, FewNew

(* For every number of threads, whatever contActive has come to and         *)
(* whatever limit it is compared with, the pool makes no more connections   *)
(* than it has threads, or had at the start, until two threads are between  *)
(* size() and remove(0) at once (ConnectionPool.java:33, 121-142).          *)
THEOREM ConnectionsBoundedSafe == Spec => []ConnectionsBounded
  <1>1. Init => Inv /\ Few
    <2> SUFFICES ASSUME Init PROVE Few
      BY InitInv
    <2>1. Locked = {} /\ made = InitConnections
      BY RestingTyped DEF Init, Locked, At
    <2> QED BY <2>1, PoolAssumption DEF Few, PoolAssumption
  <1>2. Inv /\ (overlapped \/ Few) /\ [Next]_vars => (Inv /\ (overlapped \/ Few))'
    BY InvStep, FewStep
  <1>3. overlapped \/ Few => ConnectionsBounded
    BY DEF Few, ConnectionsBounded
  <1> QED BY <1>1, <1>2, <1>3, PTL DEF Spec
=============================================================================
